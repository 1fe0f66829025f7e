---------------------------- MODULE Redistribute ----------------------------
(***************************************************************************)
(* DSAtask_redistribute (src/src/details/dsa_batch_redistribute.cpp): the  *)
(* buffer in which the mixing build collects operations until a batch is   *)
(* full, and from which it takes them in an order that alternates large    *)
(* and small transfers.  The object is a record; an entry is an operation  *)
(* and its size in KB.  The array of credits that runs beside each array   *)
(* of entries holds the credit of each entry and is not kept separately.   *)
(*                                                                         *)
(* credit and credit_fix are doubles with the denominator n, the number of *)
(* entries at the start of a pop phase; they are kept here times n.  The   *)
(* rounding of the doubles can only change which kind is taken next.       *)
(* special_rule_for_all_small(), which nothing calls, is left out.         *)
(***************************************************************************)
EXTENDS Integers, SequencesExt

NoEntry == [op |-> 0, size |-> 0]   \* dsa_rdstrb_entry( DSA_OPCODE_NOOP )

redistribute == [nega |-> <<>>, posi |-> <<>>, n |-> 0, counter |-> 0,
                 credit |-> 0, credit_fix |-> 0, sum_credit |-> 0]

entries(r) == Len(r.nega) + Len(r.posi)

empty(r)            == entries(r) = 0
should_submit(r, bsiz) == entries(r) = bsiz
can_submit(r)       == entries(r) >= 2
pop_phase(r)        == r.counter # 0

\* credit_table, from 8 KB up; REDISTRIBUTE_CREDIT_THRESHOLD.
credit_table(kb) ==
  CASE kb < 16  -> 1
    [] kb >= 16 /\ kb < 32   -> 4
    [] kb >= 32 /\ kb < 256  -> 8
    [] kb >= 256 /\ kb < 512 -> 16
    [] kb >= 512 /\ kb < 1024     -> 30
    [] kb >= 1024 /\ kb < 2048    -> 35
    [] kb >= 2048 /\ kb < 4096    -> 40
    [] kb >= 4096 /\ kb < 8192    -> 45
    [] kb >= 8192 /\ kb < 16384   -> 50
    [] kb >= 16384 /\ kb < 32768  -> 55
    [] OTHER -> 60

Small(e) == e.size < 8

credit_of(e) == IF ~Small(e) THEN credit_table(e.size)
                ELSE IF e.size >= 4 THEN -1 ELSE -2

push_back(r, e) ==
  LET s == [r EXCEPT !.sum_credit = @ + credit_of(e)]
  IN  IF Small(e) THEN [s EXCEPT !.nega = Append(@, e)]
                  ELSE [s EXCEPT !.posi = Append(@, e)]

\* The first pop after the last phase opens a new phase.
\* Mutant of open_phase: the credits of the last phase are counted again.
open_phase_KeepSum(r) ==
  IF r.counter # 0 THEN r
  ELSE [r EXCEPT !.counter = entries(r), !.n = entries(r), !.credit = 0,
                 !.credit_fix = -r.sum_credit]
open_phase(r) ==
  IF r.counter # 0 THEN r
  ELSE [r EXCEPT !.counter = entries(r), !.n = entries(r), !.credit = 0,
                 !.credit_fix = -r.sum_credit, !.sum_credit = 0]

\* The stack an entry is taken from, and whether its credit is charged: a small
\* one while there is credit, else a large one, else what is left.
Choice(r) ==
  CASE r.credit > 0 /\ r.nega # <<>> -> [from |-> "nega", charged |-> TRUE]
    [] ~(r.credit > 0 /\ r.nega # <<>>) /\ r.posi # <<>> -> [from |-> "posi", charged |-> TRUE]
    [] ~(r.credit > 0) /\ r.posi = <<>> /\ r.nega # <<>> -> [from |-> "nega", charged |-> FALSE]
    [] OTHER -> [from |-> "none", charged |-> FALSE]

\* Mutant of pop: the entry of a small operation stays on its stack when its
\* credit is not charged.
pop_KeepUncharged(q) ==
  LET r     == open_phase(q)
      c     == Choice(r)
      e     == IF c.from = "none" THEN NoEntry ELSE Last(r[c.from])
      delta == IF c.charged THEN credit_of(e) * r.n ELSE 0
      s     == [r EXCEPT !.counter = @ - 1, !.credit = @ + delta + r.credit_fix]
  IN  [entry |-> e, rest |-> IF ~c.charged THEN s ELSE [s EXCEPT ![c.from] = Front(@)]]

pop(q) ==
  LET r     == open_phase(q)
      c     == Choice(r)
      e     == IF c.from = "none" THEN NoEntry ELSE Last(r[c.from])
      delta == IF c.charged THEN credit_of(e) * r.n ELSE 0
      s     == [r EXCEPT !.counter = @ - 1, !.credit = @ + delta + r.credit_fix]
  IN  [entry |-> e,
       rest  |-> IF c.from = "none" THEN s ELSE [s EXCEPT ![c.from] = Front(@)]]

\* What k calls of pop() take out, in order, and what they leave.
pops(q) ==
  LET after[k \in Nat] ==
        IF k = 0 THEN [out |-> <<>>, rest |-> q]
        ELSE LET before == after[k - 1]
                 p      == pop(before.rest)
             IN  [out |-> Append(before.out, p.entry), rest |-> p.rest]
  IN  after

\* do pop() while pop_phase(): the loop of submit_forward.
pop_all(q) ==
  LET after == pops(q)
      last  == CHOOSE k \in 1 .. entries(q) + 1 :
                 /\ ~pop_phase(after[k].rest)
                 /\ \A j \in 1 .. k - 1 : pop_phase(after[j].rest)
  IN  after[last]

\* What the first k entries have brought in, and all of them.
Sums(s) == LET sum[k \in Nat] == IF k = 0 THEN 0 ELSE sum[k - 1] + credit_of(s[k]) IN sum
Credits(s) == Sums(s)[Len(s)]
=============================================================================

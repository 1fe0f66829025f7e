------------------------------ MODULE MergeSort ------------------------------
(***************************************************************************)
(* sort_by_dsa of example/mergesort_demo.cpp: a merge sort in which the    *)
(* device moves the strings between two buffers.  The strings of a buffer  *)
(* lie one after the other in the order of their Data, so that the place   *)
(* of a string is its buffer and its number.                               *)
(***************************************************************************)
EXTENDS Copies

CONSTANTS Inputs        \* sequences of keys, the strings to sort

\* strcmp orders the strings as numbers are ordered.
ASSUME SortAssumption == \A s \in Inputs : s \in Seq(Nat)

VARIABLES
  input,
  pre,                  \* the buffer the strings are in; the other one is now
  seglen, seg,          \* loop counters; seg is i
  Lpos, Rpos,           \* the strings to compare
  now_pos,              \* now_Data_pos
  sorting               \* "fill", "merge", "done"

sorter == <<input, pre, seglen, seg, Lpos, Rpos, now_pos, sorting>>
sortvars == <<mem, pending, sorter>>
now_ == IF pre = "a" THEN "b" ELSE "a"
lim == Len(input)
String(b, k) == <<b, k>>
Strings_in(b) == {String(b, k) : k \in 0 .. lim - 1}
pre_data(k) == mem[String(pre, k)]
Within(k) == IF k < lim THEN k ELSE lim

Stale == 0              \* new char[]: no key

SortInit ==
  /\ input \in Inputs
  /\ mem = [s \in Strings_in("in") \union Strings_in("a") \union Strings_in("b") |->
              IF s[1] = "in" THEN input[s[2] + 1] ELSE Stale]
  /\ pending = {} /\ pre = "a" /\ sorting = "fill"
  /\ seglen = 1 /\ seg = 0 /\ Lpos = 0 /\ Rpos = 0 /\ now_pos = 0

\* The terminating zero of the string is stored by the CPU, next to the copy.
FillPre ==
  /\ sorting = "fill" /\ seg < lim
  /\ Submit({Copy("batch", String("a", seg), String("in", seg))})
  /\ seg' = seg + 1
  /\ UNCHANGED <<input, pre, seglen, Lpos, Rpos, now_pos, sorting>>

\* Mutant of Arrived: the loops go on without wait().
Arrived_Not == TRUE
Arrived == Finished("batch")

Segment(s, from) == /\ seg' = from /\ Lpos' = from /\ Rpos' = Within(from + s)

\* The next pass, or the end: another pass is made while seglen + 1 < lim.
StartPass(s) ==
  /\ seglen' = s /\ now_pos' = 0
  /\ \/ s + 1 < lim /\ sorting' = "merge" /\ Segment(s, 0)
     \/ s + 1 >= lim /\ sorting' = "done" /\ UNCHANGED <<seg, Lpos, Rpos>>

EndFill ==
  /\ sorting = "fill" /\ seg = lim /\ Arrived
  /\ StartPass(1)
  /\ UNCHANGED <<mem, pending, input, pre>>

Lposend == Within(seg + seglen)
Rposend == Within(seg + 2 * seglen)

Take(from) ==
  /\ Submit({Copy("batch", String(now_, now_pos), String(pre, from))})
  /\ now_pos' = now_pos + 1
  /\ UNCHANGED <<input, pre, seglen, seg, sorting>>

TakeLeft ==
  /\ sorting = "merge" /\ Lpos < Lposend /\ (Rpos < Rposend => pre_data(Lpos) < pre_data(Rpos))
  /\ Take(Lpos) /\ Lpos' = Lpos + 1 /\ UNCHANGED Rpos

TakeRight ==
  /\ sorting = "merge" /\ Rpos < Rposend /\ (Lpos < Lposend => pre_data(Lpos) >= pre_data(Rpos))
  /\ Take(Rpos) /\ Rpos' = Rpos + 1 /\ UNCHANGED Lpos

NextSegment ==
  /\ sorting = "merge" /\ Lpos = Lposend /\ Rpos = Rposend /\ seg + 2 * seglen < lim
  /\ Segment(seglen, seg + 2 * seglen)
  /\ UNCHANGED <<mem, pending, input, pre, seglen, now_pos, sorting>>

\* wait(), and the swap of the buffers.
EndPass ==
  /\ sorting = "merge" /\ Lpos = Lposend /\ Rpos = Rposend /\ seg + 2 * seglen >= lim /\ Arrived
  /\ pre' = now_
  /\ StartPass(2 * seglen)
  /\ UNCHANGED <<mem, pending, input>>

SortDevice == Perform /\ UNCHANGED sorter

SortNext == FillPre \/ EndFill \/ TakeLeft \/ TakeRight \/ NextSegment \/ EndPass \/ SortDevice

SortSpec == SortInit /\ [][SortNext]_sortvars

-----------------------------------------------------------------------------
\* mergesort_demo: before each pass, and at the end, the strings of pre are those
\* of the input, every run of seglen is sorted, and no copy is in flight: the
\* passes overlap with the device without reading a string that has not arrived.
\* The loop ends when seglen reaches lim - 1, so the last of 2^k + 1 strings may
\* be left unsorted.
MergeSortRight ==
  sorting = "done" \/ (sorting = "merge" /\ seg = 0 /\ now_pos = 0) =>
    /\ pending = {}
    /\ \A k \in {pre_data(j) : j \in 0 .. lim - 1} \union {input[j] : j \in 1 .. lim} :
         Cardinality({j \in 0 .. lim - 1 : pre_data(j) = k}) = Cardinality({j \in 1 .. lim : input[j] = k})
    /\ \A j \in 1 .. lim - 1 : j % seglen # 0 => pre_data(j - 1) <= pre_data(j)
    /\ sorting = "done" => seglen >= lim - 1
=============================================================================

--------------------------- MODULE MixingBatchInv ---------------------------
(***************************************************************************)
(* The inductive invariant of the mixing build: RingInv of BatchTask for   *)
(* the batches, and MixInv, the counterpart of OpInv, for the operations,  *)
(* which may also wait in rdstrb.                                          *)
(***************************************************************************)
EXTENDS MixingBatch, BatchTaskInv

\* The operations in a sequence of entries, and that none is there twice.
Carried(s) == {s[i].op : i \in DOMAIN s} \ {Noop}
Single(s)  == \A i, j \in DOMAIN s : s[i].op = s[j].op /\ s[i].op # Noop => i = j

Buffered(r) == Carried(r.nega) \union Carried(r.posi)
Separate(r) == Single(r.nega) /\ Single(r.posi) /\ Carried(r.nega) \cap Carried(r.posi) = {}

Entry  == [op : Nat, size : Nat]
Buffer == [nega : Seq(Entry), posi : Seq(Entry), n : Int, counter : Int,
           credit : Int, credit_fix : Int, sum_credit : Int]

\* Every accepted operation has been executed, waits in rdstrb, or is in a
\* descriptor to run.
MixAccounted ==
  \A o \in 1 .. op_cnt :
    \/ o \in executed \/ o \in Buffered(rdstrb)
    \/ \E b \in Batches, i \in Positions : ToRun(b, i) /\ descs[b][i] = o

\* What waits in rdstrb waits there once, and nowhere else.
BufferedOnce ==
  /\ rdstrb \in Buffer /\ Separate(rdstrb)
  /\ Buffered(rdstrb) \subseteq (1 .. op_cnt) \ executed
  /\ \A b \in Batches, i \in Positions : ToRun(b, i) => descs[b][i] \notin Buffered(rdstrb)

\* wait() and check() leave nothing behind in rdstrb.
NothingBuffered == call \in {"wait", "check", "set_wq"} => Rd!empty(rdstrb)

MixInv ==
  /\ desc_idx = 0
  /\ RedistributeInv
  /\ MixAccounted /\ RunOnce /\ BufferedOnce
  /\ RecordsTrue
  /\ NothingBuffered /\ DoneMeansDone
=============================================================================

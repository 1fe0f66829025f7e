---------------------------- MODULE MixingBatch -----------------------------
(***************************************************************************)
(* DSAbatch_task built with DESCS_INBATCH_DESCRIPTORS_MIXING_ENABLE: an    *)
(* accepted operation waits in rdstrb, and submit_forward moves all that   *)
(* wait into the descriptors of the current batch in the order pop() gives *)
(* them.  desc_idx is 0 outside submit_forward, so empty() and count() do  *)
(* not see what waits in rdstrb.  The rest of the engine is BatchTask.     *)
(*                                                                         *)
(* A batch may be submitted with fewer descriptors than it has room for;   *)
(* neither the device nor resolve_error looks beyond desc_count, so the    *)
(* descriptors behind it are written as no-ops here.                       *)
(***************************************************************************)
EXTENDS BatchTask, Sequences, Functions

CONSTANT Sizes   \* sizes in KB of the operations the client submits

ASSUME MixingAssumption == Sizes \subseteq Nat

Rd == INSTANCE Redistribute

VARIABLES rdstrb,      \* the buffer
          desc_count   \* descriptors of each batch the device is told of

mvars == <<vars, rdstrb, desc_count>>

MixInit == Init /\ rdstrb = Rd!redistribute /\ desc_count = [b \in Batches |-> batch_siz]

\* submit_forward: the buffered operations become the batch.  Completion
\* records are cleared for the descriptors that are written.
mix_submit(r) ==
  LET p == Rd!pop_all(r)
      m == Len(p.out)
  IN  /\ submit_forward([i \in Positions |-> IF i < m THEN p.out[i + 1].op ELSE Noop],
                        [i \in Positions |-> IF i < m THEN NONE ELSE SUCCESS])
      /\ rdstrb' = p.rest
      /\ desc_count' = [desc_count EXCEPT ![batch_idx] = m]

MixAddOp ==
  /\ pc = "add"
  /\ op_cnt' = op_cnt + 1
  /\ IF batch_idx = NoBatch
       THEN UNCHANGED <<queues, batch_idx, desc_idx, memory, device, rdstrb, desc_count>>
       ELSE \E kb \in Sizes :
              LET r == Rd!push_back(rdstrb, [op |-> op_cnt + 1, size |-> kb])
              IN  IF Rd!should_submit(r, batch_siz)
                    THEN mix_submit(r)
                    ELSE rdstrb' = r /\ UNCHANGED <<queues, batch_idx, desc_idx, memory,
                                                    device, desc_count>>
  /\ Return(TRUE)
  /\ UNCHANGED <<executed, faults, call, locals>>

\* add_no_op until can_submit: a batch has at least two descriptors.
Padded(r) == IF Rd!can_submit(r) THEN r ELSE Rd!push_back(r, Rd!NoEntry)

MixPadAndSubmit ==
  IF Rd!empty(rdstrb)
    THEN UNCHANGED <<queues, batch_idx, desc_idx, memory, device, rdstrb, desc_count>>
    ELSE mix_submit(Padded(rdstrb))

MixCompletionCall(c) ==
  /\ pc = "idle"
  /\ call' = c
  /\ MixPadAndSubmit
  /\ pc' = IF c = "wait" THEN "wait" ELSE "collect"
  /\ UNCHANGED <<op_cnt, executed, faults, ret, locals>>

\* Only descriptors the device was told of can be unfinished.
MixBatchFails(b) ==
  /\ BatchFails(b)
  /\ \E i \in Positions : i < desc_count[b] /\ comps'[b][i] # SUCCESS
  /\ \A i \in Positions : i >= desc_count[b] => comps'[b][i] = SUCCESS

\* The actions of BatchTask that the mixing build shares.
Shared ==
  \/ SubmitCall \/ Clear \/ WaitTest
  \/ CollectStart \/ ScanEnd \/ ScanNoError \/ ScanError
  \/ DoneYes \/ DoneNo \/ PendingYes \/ PendingNo \/ AgainYes \/ AgainNo
  \/ CollectEnd
  \/ \E b \in Batches : BatchSucceeds(b) \/ MixBatchFails(b)

MixNext ==
  \/ MixAddOp
  \/ \E c \in {"wait", "check", "set_wq"} : MixCompletionCall(c)
  \/ Shared /\ UNCHANGED <<rdstrb, desc_count>>

MixSpec == MixInit /\ [][MixNext]_mvars

-----------------------------------------------------------------------------
Waiting == Range(rdstrb.nega) \union Range(rdstrb.posi)

InDescriptor(o) ==
  \E b \in Batches, i \in Positions :
    /\ descs[b][i] = o
    /\ \/ b = batch_idx /\ i < desc_idx
       \/ b \in device
       \/ b \in Elems(buzy_queue) /\ bcomp[b] = BATCH_FAIL /\ comps[b][i] # SUCCESS

\* An accepted operation is in exactly one of three places: it has been
\* executed, it is in a descriptor that will be (again) submitted, or it waits
\* in rdstrb, which the plain build does without.  The order pop() chooses
\* loses none and hands out none twice.
InOnePlace ==
  \A o \in 1 .. op_cnt :
    LET waiting == \E e \in Waiting : e.op = o
    IN  /\ o \in executed \/ InDescriptor(o) \/ waiting
        /\ ~(o \in executed /\ (InDescriptor(o) \/ waiting))
        /\ ~(InDescriptor(o) /\ waiting)

\* Outside submit_forward no pop phase is open and the sum of credits is that
\* of the entries that wait, so the next batch is mixed by its own operations;
\* and what waits will find a batch: one is current and it has room.
RedistributeInv ==
  /\ ~Rd!pop_phase(rdstrb)
  /\ rdstrb.sum_credit = Rd!Credits(rdstrb.nega) + Rd!Credits(rdstrb.posi)
  /\ Rd!entries(rdstrb) < batch_siz \/ (batch_siz = 1 /\ Rd!empty(rdstrb))
  /\ ~Rd!empty(rdstrb) => batch_idx # NoBatch /\ desc_idx = 0
=============================================================================

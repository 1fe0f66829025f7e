---------------------------- MODULE BatchTaskInv ----------------------------
(***************************************************************************)
(* The inductive invariant of BatchTask, in two layers.  RingInv is about  *)
(* batches: where each one is and whether the device owns it.  OpInv is    *)
(* about operations: where each one waits and that it waits in one place.  *)
(* Both hold when no retry can overtake collect() (NoOvertaking); the run  *)
(* batch_retry_race shows that they do not hold otherwise.                 *)
(***************************************************************************)
EXTENDS BatchTask

NoOvertaking == SlowRetry \/ MaxFaults = 0

InElement == pc \in {"done?", "pending?", "again?"}
InCollect == pc \in {"collect", "scan", "end"} \/ InElement

\* Batches are neither lost nor duplicated, counted instead of listed.
CountsAdd ==
  count(free_queue) + count(buzy_queue) + (IF batch_idx = NoBatch THEN 0 ELSE 1)
    = batch_capacity

\* There is no current batch only while none is free; collect() repairs this
\* before it returns.
NoCurrentNoFree ==
  /\ batch_idx = NoBatch => desc_idx = 0
  /\ batch_idx = NoBatch /\ ~InCollect => count(free_queue) = 0
  /\ pc = "add" => batch_idx # NoBatch

\* The device owns exactly the buzy batches whose status is still NONE.
DeviceOwnsPending ==
  /\ device \subseteq Elems(buzy_queue)
  /\ \A b \in Elems(buzy_queue) : b \in device <=> bcomp[b] = NONE

\* Where collect() is in the ring.
CursorOK ==
  /\ pc = "scan" => q_idx \in Live(buzy_queue) \union {buzy_queue.q_back}
  /\ InElement /\ ~resubmitted => /\ q_idx \in Live(buzy_queue)
                                  /\ buzy_queue.queue[q_idx] = cur
  /\ resubmitted => /\ InElement
                    /\ cur \in device
                    /\ next(buzy_queue, q_idx) \in Live(buzy_queue) \union {buzy_queue.q_back}

FailuresCounted ==
  resubmitted \/ (\E b \in Batches : bcomp[b] = BATCH_FAIL) => faults > 0

CallOK ==
  /\ pc = "add" => call = "submit"
  /\ pc = "wait" => call = "wait"
  /\ InCollect => call \in {"submit", "wait", "check", "set_wq"}
  /\ pc # "idle" /\ call = "submit" => op_cnt < MaxOps

RingInv ==
  /\ TypeOK
  /\ BatchesPartitioned
  /\ CountsAdd
  /\ NoCurrentNoFree
  /\ DeviceOwnsPending
  /\ CursorOK
  /\ FailuresCounted
  /\ CallOK

-----------------------------------------------------------------------------
\* The descriptors that still have to be run: those of the current batch that
\* are filled, those the device owns, and the unfinished ones of a failed batch.
ToRun(b, i) ==
  /\ descs[b][i] # Noop
  /\ \/ b = batch_idx /\ i < desc_idx
     \/ b \in device
     \/ b \in Elems(buzy_queue) /\ bcomp[b] = BATCH_FAIL /\ comps[b][i] # SUCCESS

\* Every accepted operation has been executed or is in a descriptor to run.
Accounted ==
  \A o \in 1 .. op_cnt :
    o \in executed \/ \E b \in Batches, i \in Positions : ToRun(b, i) /\ descs[b][i] = o

\* No operation is in two descriptors to run, none has been executed before,
\* and only accepted operations are there.
RunOnce ==
  /\ executed \subseteq 1 .. op_cnt
  /\ \A b \in Batches, i \in Positions :
       ToRun(b, i) => descs[b][i] \in (1 .. op_cnt) \ executed
  /\ \A b1, b2 \in Batches, i1, i2 \in Positions :
       ToRun(b1, i1) /\ ToRun(b2, i2) /\ descs[b1][i1] = descs[b2][i2]
         => b1 = b2 /\ i1 = i2

\* A completion record says SUCCESS only of a descriptor that was executed, and
\* is cleared in time: resolve_error never mistakes an old record for a new one.
RecordsTrue ==
  /\ \A i \in Positions : batch_idx # NoBatch /\ i < desc_idx => comps[batch_idx][i] = NONE
  /\ \A b \in device, i \in Positions : comps[b][i] = SUCCESS => descs[b][i] = Noop
  /\ \A b \in Elems(buzy_queue), i \in Positions :
       bcomp[b] = SUCCESS \/ (bcomp[b] = BATCH_FAIL /\ comps[b][i] = SUCCESS)
         => descs[b][i] \in executed \union {Noop}

\* wait() and check() leave no partly filled batch behind.
NothingPartial == call \in {"wait", "check", "set_wq"} => desc_idx = 0

OpInv == Accounted /\ RunOnce /\ RecordsTrue /\ NothingPartial /\ DoneMeansDone

IInv == RingInv /\ OpInv
=============================================================================

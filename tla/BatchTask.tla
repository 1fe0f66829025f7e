------------------------------ MODULE BatchTask ------------------------------
(***************************************************************************)
(* DSAbatch / DSAbatch_task: the batch engine.                             *)
(* (src/src/details/dsa_batch_task.cpp, src/src/interfaces/dsa_batch.cpp)  *)
(*                                                                         *)
(* One client thread fills the descriptors of the current batch, submits   *)
(* full batches to the device, and recycles finished ones in collect().    *)
(* The device (external) runs concurrently: it owns a batch from the       *)
(* enqcmd in do_op until it writes the batch's completion record.          *)
(*                                                                         *)
(* collect() reads the completion status, a volatile the device writes,    *)
(* up to four times per element (lines 455, 461, 465, 477); every read is  *)
(* a step of its own here, so the device can move between any two.  Code   *)
(* between two reads touches only memory of the client and is one step.    *)
(*                                                                         *)
(* A descriptor is reduced to the operation it carries, Noop or the number *)
(* of the operation; addresses and lengths are left to other modules.  In  *)
(* the mixing build accepted operations wait in DSAtask_redistribute and   *)
(* not in the descriptors; that build is not modelled here.                *)
(***************************************************************************)
EXTENDS BatchRecordQueue

CONSTANTS
  batch_capacity,               \* number of batches of the object
  batch_siz,                    \* descriptors per batch
  OutOfOrder,                   \* DESCS_OUT_OF_ORDER_RECYCLE_ENABLE
  OUT_OF_ORDER_RECYCLE_T_INIT,  \* recycle window (dsa_conf.hpp:16)
  SlowRetry,                    \* see DeviceMayFinish
  MaxOps,                       \* bound: operations the client submits
  MaxFaults                     \* bound: batches the device fails; 0 is the
                                \* FLAG_BLOCK_ON_FAULT build

\* alloc_descs exits unless batch_capacity >= 1 (line 112).
ASSUME BatchTaskAssumption ==
  /\ batch_capacity \in Nat \ {0}
  /\ batch_siz \in Nat \ {0}
  /\ OutOfOrder \in BOOLEAN
  /\ OUT_OF_ORDER_RECYCLE_T_INIT \in Nat \ {0}
  /\ SlowRetry \in BOOLEAN
  /\ MaxOps \in Nat
  /\ MaxFaults \in Nat

Batches   == 0 .. batch_capacity - 1
Positions == 0 .. batch_siz - 1
Noop      == 0
Ops       == 1 .. MaxOps

\* op_status() values.  Everything above SUCCESS is an error to collect();
\* BATCH_FAIL stands for the batch codes, PAGE_FAULT for a descriptor's 3.
NONE       == 0
SUCCESS    == 1
PAGE_FAULT == 3
BATCH_FAIL == 5

VARIABLES
  free_queue, buzy_queue,   \* the two rings
  batch_idx, desc_idx,      \* the batch being filled (or -1), next descriptor
  op_cnt,                   \* operations handed to add_op
  descs,                    \* descs[b][i]: operation of descriptor i of batch b
  comps,                    \* comps[b][i]: its completion status
  bcomp,                    \* bcomp[b]: completion status of the batch
  device,                   \* batches the device owns
  executed,                 \* operations whose descriptor the device completed
  faults,                   \* batches the device has failed so far
  pc, call, ret,            \* where the client is, its (last) call, its result
  q_idx, watch_cnt, watch_limit, cur,  \* locals of collect(); cur is the local batch_idx
  resubmitted               \* this iteration of collect() went through line 458

queues   == <<free_queue, buzy_queue>>
filling  == <<batch_idx, desc_idx, op_cnt>>
memory   == <<descs, comps, bcomp>>
hardware == <<device, executed, faults>>
client   == <<call, ret>>
locals   == <<q_idx, watch_cnt, watch_limit, cur, resubmitted>>
vars == <<queues, filling, memory, hardware, pc, client, locals>>

task_empty == empty(buzy_queue) /\ desc_idx = 0
\* Mutant of task_full: the limit of the ring instead of the number of batches.
task_full_RingLimit == count(buzy_queue) = batch_capacity + 1

task_full  == count(buzy_queue) = batch_capacity

-----------------------------------------------------------------------------
(* Init: the constructor, init() and the first set_wq(). *)

\* clear(): batch 0 is current, the others are free.
Renumbered(q) ==
  [clear(q) EXCEPT
     !.queue = [s \in Slots(q) |-> IF s < batch_capacity - 1 THEN s + 1 ELSE q.queue[s]],
     !.q_back = batch_capacity - 1, !.q_ecnt = batch_capacity - 1]

Blank(x) == [b \in Batches |-> [i \in Positions |-> x]]

Init ==
  /\ free_queue = Renumbered(init(batch_capacity + 1))
  /\ buzy_queue = init(batch_capacity + 1)
  /\ batch_idx = 0 /\ desc_idx = 0 /\ op_cnt = 0
  /\ descs = Blank(Noop) /\ comps = Blank(NONE) /\ bcomp = [b \in Batches |-> NONE]
  /\ device = {} /\ executed = {} /\ faults = 0
  /\ pc = "idle" /\ call = "none" /\ ret = FALSE
  /\ q_idx = 0 /\ watch_cnt = 0 /\ watch_limit = 0 /\ cur = 0 /\ resubmitted = FALSE

-----------------------------------------------------------------------------
(* Entering and leaving a call. *)

Return(r) == pc' = "idle" /\ ret' = r

\* The submit_* methods: spin on collect() while every batch is busy.
SubmitCall ==
  /\ pc = "idle" /\ op_cnt < MaxOps
  /\ call' = "submit"
  /\ pc' = IF task_full THEN "collect" ELSE "add"
  /\ UNCHANGED <<queues, filling, memory, hardware, ret, locals>>

\* submit_forward with do_op: hand the current batch, with descriptors d and
\* cleared completion records c, to the device and take the next free batch.
submit_forward(d, c) ==
  /\ descs' = [descs EXCEPT ![batch_idx] = d]
  /\ comps' = [comps EXCEPT ![batch_idx] = c]
  /\ bcomp' = [bcomp EXCEPT ![batch_idx] = NONE]
  /\ device' = device \union {batch_idx}
  /\ buzy_queue' = push_back(buzy_queue, batch_idx)
  /\ batch_idx' = front_value(free_queue)
  /\ free_queue' = pop_front(free_queue)
  /\ desc_idx' = 0

\* add_op: drop the operation when there is no current batch, else write a
\* descriptor and submit the batch when it was the last one.
AddOp ==
  /\ pc = "add"
  /\ op_cnt' = op_cnt + 1
  /\ IF batch_idx = NoBatch
       THEN UNCHANGED <<queues, batch_idx, desc_idx, memory, device>>
       ELSE LET d == [descs[batch_idx] EXCEPT ![desc_idx] = op_cnt + 1]
                c == [comps[batch_idx] EXCEPT ![desc_idx] = NONE]
            IN  IF desc_idx + 1 = batch_siz
                  THEN submit_forward(d, c)
                  ELSE /\ descs' = [descs EXCEPT ![batch_idx] = d]
                       /\ comps' = [comps EXCEPT ![batch_idx] = c]
                       /\ desc_idx' = desc_idx + 1
                       /\ UNCHANGED <<queues, batch_idx, bcomp, device>>
  /\ Return(TRUE)
  /\ UNCHANGED <<executed, faults, call, locals>>

\* The first lines of wait() and check(): a partly filled batch is padded with
\* no-ops and submitted.  set_wq() calls check().
PadAndSubmit ==
  IF desc_idx = 0
    THEN UNCHANGED <<queues, batch_idx, desc_idx, memory, device>>
    ELSE submit_forward(
           [i \in Positions |-> IF i < desc_idx THEN descs[batch_idx][i] ELSE Noop],
           [i \in Positions |-> IF i < desc_idx THEN comps[batch_idx][i] ELSE NONE])

CompletionCall(c) ==
  /\ pc = "idle"
  /\ call' = c
  /\ PadAndSubmit
  /\ pc' = IF c = "wait" THEN "wait" ELSE "collect"
  /\ UNCHANGED <<op_cnt, executed, faults, ret, locals>>

\* while( buzy_queue.empty() == false ) collect() ;
WaitTest ==
  /\ pc = "wait"
  /\ IF empty(buzy_queue) THEN Return(TRUE) ELSE pc' = "collect" /\ UNCHANGED ret
  /\ UNCHANGED <<queues, filling, memory, hardware, call, locals>>

\* clear(), which the experiments call on an object that has nothing to do.
Clear ==
  /\ pc = "idle" /\ task_empty
  /\ free_queue' = Renumbered(free_queue)
  /\ buzy_queue' = clear(buzy_queue)
  /\ batch_idx' = 0 /\ desc_idx' = 0
  /\ UNCHANGED <<op_cnt, memory, hardware, pc, client, locals>>

-----------------------------------------------------------------------------
(* collect(): one pass over buzy_queue.  recycle_pass is 1 in both builds, *)
(* so the outer loop and recheck never cause a second pass.                *)

CollectStart ==
  /\ pc = "collect"
  /\ q_idx' = buzy_queue.q_front
  /\ watch_cnt' = 0
  /\ watch_limit' = IF OutOfOrder THEN OUT_OF_ORDER_RECYCLE_T_INIT ELSE batch_capacity
  /\ pc' = "scan"
  /\ UNCHANGED <<queues, filling, memory, hardware, client, cur, resubmitted>>

Scanning == q_idx # buzy_queue.q_back /\ watch_cnt < watch_limit

ScanEnd ==
  /\ pc = "scan" /\ ~Scanning
  /\ pc' = "end"
  /\ UNCHANGED <<queues, filling, memory, hardware, client, locals>>

\* Line 455: no error.
ScanNoError ==
  /\ pc = "scan" /\ Scanning
  /\ cur' = buzy_queue.queue[q_idx]
  /\ bcomp[cur'] <= SUCCESS
  /\ pc' = "done?"
  /\ UNCHANGED <<queues, filling, memory, hardware, client,
                 q_idx, watch_cnt, watch_limit, resubmitted>>

\* resolve_error: descriptors that finished become no-ops, those that stopped
\* at a page fault are set to resume, those the device did not touch stay; a
\* no-op that finished keeps its SUCCESS.
ResolvedDesc_KeepDone(d, s) == d       \* mutant: finished descriptors run again
ResolvedDesc_DropFaulted(d, s) == Noop \* mutant: faulted descriptors are given up
ResolvedDesc(d, s) == IF s = SUCCESS THEN Noop ELSE d
ResolvedComp(d, s) == IF s = SUCCESS /\ d = Noop THEN SUCCESS ELSE NONE

resolve_error(b) ==
  /\ descs' = [descs EXCEPT ![b] = [i \in Positions |-> ResolvedDesc(@[i], comps[b][i])]]
  /\ comps' = [comps EXCEPT ![b] = [i \in Positions |-> ResolvedComp(descs[b][i], @[i])]]

\* Lines 455-460: an error.  The batch is unlinked, repaired, submitted again
\* and appended; the device does not own it until do_op, so the status read in
\* resolve_error (line 283) is the one of line 455.
ScanError ==
  /\ pc = "scan" /\ Scanning
  /\ cur' = buzy_queue.queue[q_idx]
  /\ bcomp[cur'] > SUCCESS
  /\ buzy_queue' = push_back(delay_front_and_pop(buzy_queue, q_idx), cur')
  /\ resolve_error(cur')
  /\ bcomp' = [bcomp EXCEPT ![cur'] = NONE]
  /\ device' = device \union {cur'}
  /\ resubmitted' = TRUE
  /\ pc' = "done?"
  /\ UNCHANGED <<free_queue, filling, executed, faults, client,
                 q_idx, watch_cnt, watch_limit>>

Advance ==
  /\ q_idx' = next(buzy_queue, q_idx)
  /\ watch_cnt' = watch_cnt + 1
  /\ resubmitted' = FALSE
  /\ pc' = "scan"

\* Mutant of Recycle: the batch stays in the buzy ring.
Recycle_KeepBuzy ==
  /\ free_queue' = push_back(free_queue, cur)
  /\ UNCHANGED buzy_queue

Recycle ==
  /\ free_queue' = push_back(free_queue, cur)
  /\ buzy_queue' = delay_front_and_pop(buzy_queue, q_idx)

\* Mutant of DoneYes: an error that arrives after line 455 counts as success.
DoneYes_AnyStatus ==
  /\ pc = "done?" /\ bcomp[cur] # NONE
  /\ Recycle
  /\ watch_limit' = watch_limit + 1
  /\ Advance
  /\ UNCHANGED <<filling, memory, hardware, client, cur>>

\* Line 461.
DoneYes ==
  /\ pc = "done?" /\ bcomp[cur] = SUCCESS
  /\ Recycle
  /\ watch_limit' = watch_limit + 1
  /\ Advance
  /\ UNCHANGED <<filling, memory, hardware, client, cur>>

DoneNo ==
  /\ pc = "done?" /\ bcomp[cur] # SUCCESS
  /\ pc' = "pending?"
  /\ UNCHANGED <<queues, filling, memory, hardware, client, locals>>

\* Line 465: still running.  The in-order build stops here.
PendingYes ==
  /\ pc = "pending?" /\ bcomp[cur] = NONE
  /\ pc' = IF OutOfOrder THEN "again?" ELSE "end"
  /\ resubmitted' = (OutOfOrder /\ resubmitted)
  /\ UNCHANGED <<queues, filling, memory, hardware, client,
                 q_idx, watch_cnt, watch_limit, cur>>

\* The device finished between lines 461 and 465: neither branch is taken.
PendingNo ==
  /\ pc = "pending?" /\ bcomp[cur] # NONE
  /\ Advance
  /\ UNCHANGED <<queues, filling, memory, hardware, client, watch_limit, cur>>

\* Line 477, out-of-order build only; the window does not grow here.
AgainYes ==
  /\ pc = "again?" /\ bcomp[cur] = SUCCESS
  /\ Recycle
  /\ Advance
  /\ UNCHANGED <<filling, memory, hardware, client, watch_limit, cur>>

AgainNo ==
  /\ pc = "again?" /\ bcomp[cur] # SUCCESS
  /\ Advance
  /\ UNCHANGED <<queues, filling, memory, hardware, client, watch_limit, cur>>

\* Lines 491-499 and the return to the caller.  set_wq() frees and allocates
\* descriptors and completion records when check() said that all is done.
CollectEnd ==
  /\ pc = "end"
  /\ IF batch_idx = NoBatch /\ ~task_full
       THEN batch_idx' = front_value(free_queue) /\ free_queue' = pop_front(free_queue)
       ELSE UNCHANGED <<batch_idx, free_queue>>
  /\ CASE call = "submit" -> /\ pc' = IF batch_idx' # NoBatch THEN "add" ELSE "collect"
                             /\ UNCHANGED <<ret, memory>>
       [] call = "wait"   -> pc' = "wait" /\ UNCHANGED <<ret, memory>>
       [] call = "check"  -> Return(task_empty) /\ UNCHANGED memory
       [] call = "set_wq" -> /\ Return(task_empty)
                             /\ IF task_empty
                                  THEN /\ descs' = Blank(Noop) /\ comps' = Blank(NONE)
                                       /\ bcomp' = [b \in Batches |-> NONE]
                                  ELSE UNCHANGED memory
  /\ q_idx' = 0 /\ watch_cnt' = 0 /\ watch_limit' = 0 /\ cur' = 0 /\ resubmitted' = FALSE
  /\ UNCHANGED <<buzy_queue, desc_idx, op_cnt, hardware, call>>

-----------------------------------------------------------------------------
(* The device (external). *)

\* With SlowRetry, a batch submitted again at line 458 is not finished before
\* the same iteration of collect() is over.  Nothing in the code ensures this:
\* it is a matter of some ten instructions against a round trip to the device.
DeviceMayFinish(b) == b \in device /\ ~(SlowRetry /\ resubmitted /\ b = cur)

OpsDone(b, s) == {descs[b][i] : i \in {j \in Positions : s[j] = SUCCESS}} \ {Noop}

BatchSucceeds(b) ==
  /\ DeviceMayFinish(b)
  /\ comps' = [comps EXCEPT ![b] = [i \in Positions |-> SUCCESS]]
  /\ bcomp' = [bcomp EXCEPT ![b] = SUCCESS]
  /\ executed' = executed \union OpsDone(b, [i \in Positions |-> SUCCESS])
  /\ device' = device \ {b}
  /\ UNCHANGED <<queues, filling, descs, faults, pc, client, locals>>

\* Some descriptor did not finish: it stopped at a page fault or was never
\* begun (its completion record is then not written).
BatchFails(b) ==
  /\ DeviceMayFinish(b) /\ faults < MaxFaults
  /\ \E s \in [Positions -> {NONE, SUCCESS, PAGE_FAULT}] :
       /\ \E i \in Positions : s[i] # SUCCESS
       /\ \A i \in Positions : s[i] = PAGE_FAULT => descs[b][i] # Noop
       /\ comps' = [comps EXCEPT ![b] =
                      [i \in Positions |-> IF s[i] = NONE THEN @[i] ELSE s[i]]]
       /\ executed' = executed \union OpsDone(b, s)
  /\ bcomp' = [bcomp EXCEPT ![b] = BATCH_FAIL]
  /\ device' = device \ {b}
  /\ faults' = faults + 1
  /\ UNCHANGED <<queues, filling, descs, pc, client, locals>>

-----------------------------------------------------------------------------
Calls == SubmitCall \/ (\E c \in {"wait", "check", "set_wq"} : CompletionCall(c)) \/ Clear

\* The client inside a call.
ClientStep ==
  \/ AddOp \/ WaitTest
  \/ CollectStart \/ ScanEnd \/ ScanNoError \/ ScanError
  \/ DoneYes \/ DoneNo \/ PendingYes \/ PendingNo \/ AgainYes \/ AgainNo
  \/ CollectEnd

DeviceStep(b) == BatchSucceeds(b) \/ BatchFails(b)

Next == Calls \/ ClientStep \/ (\E b \in Batches : DeviceStep(b))

\* The client thread runs inside a call; the device finishes what it owns.
Fairness == WF_vars(ClientStep) /\ \A b \in Batches : WF_vars(DeviceStep(b))

Spec == Init /\ [][Next]_vars
FairSpec == Spec /\ Fairness

-----------------------------------------------------------------------------
(* Properties. *)

\* Type invariant of the object, the device and collect()'s locals.
TypeOK ==
  /\ QueueType(batch_capacity + 1, free_queue)
  /\ QueueType(batch_capacity + 1, buzy_queue)
  /\ batch_idx \in Batches \union {NoBatch}
  /\ desc_idx \in 0 .. batch_siz - 1
  /\ op_cnt \in 0 .. MaxOps
  /\ descs \in [Batches -> [Positions -> Ops \union {Noop}]]
  /\ comps \in [Batches -> [Positions -> {NONE, SUCCESS, PAGE_FAULT}]]
  /\ bcomp \in [Batches -> {NONE, SUCCESS, BATCH_FAIL}]
  /\ device \in SUBSET Batches
  /\ executed \in SUBSET Ops
  /\ faults \in 0 .. MaxFaults
  /\ pc \in {"idle", "add", "wait", "collect", "scan", "done?", "pending?", "again?", "end"}
  /\ call \in {"none", "submit", "wait", "check", "set_wq"}
  /\ ret \in BOOLEAN
  /\ q_idx \in 0 .. batch_capacity
  /\ watch_cnt \in Nat
  /\ watch_limit \in Nat
  /\ cur \in Batches
  /\ resubmitted \in BOOLEAN

Current == {batch_idx} \ {NoBatch}

\* Every batch is in exactly one place, the current batch, the free ring or the
\* buzy ring, once, whatever order collect() recycles and re-queues them in.
BatchesPartitioned ==
  /\ RingOK(free_queue) /\ RingOK(buzy_queue)
  /\ Current \union Elems(free_queue) \union Elems(buzy_queue) = Batches
  /\ Elems(free_queue) \intersect Elems(buzy_queue) = {}
  /\ Current \intersect (Elems(free_queue) \union Elems(buzy_queue)) = {}

\* The guard of submit_* (full(), a count of the buzy ring) and the guard of
\* add_op (is_pos_valid(), the current batch) agree whenever the client is
\* outside a call, so no operation reaches the branch of add_op that drops it.
NoOpDropped ==
  /\ pc = "idle" => (batch_idx = NoBatch <=> task_full)
  /\ pc = "add" => batch_idx # NoBatch

\* The descriptors the device is going to run carry operations it has not run
\* yet: resubmitting a failed batch, padding one, or filling a recycled one
\* repeats nothing.
NothingRunsTwice ==
  \A b \in device, i \in Positions : descs[b][i] # Noop => descs[b][i] \notin executed

AllDone == executed = 1 .. op_cnt /\ device = {}

\* When wait() has returned, or check() has returned true (for set_wq too), all
\* submitted operations have been executed and the device owns no batch
\* (src/README.md: "batch.wait blocks until all submitted operations complete").
DoneMeansDone ==
  pc = "idle" /\ (call = "wait" \/ (call \in {"check", "set_wq"} /\ ret)) => AllDone

\* Nothing the client does changes the descriptors or completion records of a
\* batch while the device owns it.
DeviceMemoryUntouched ==
  [][\A b \in device \intersect device' :
        descs'[b] = descs[b] /\ comps'[b] = comps[b] /\ bcomp'[b] = bcomp[b]]_vars

\* A batch leaves the buzy ring only when every operation in it has been
\* executed, so no operation is lost with a recycled batch.
OnlyFinishedLeave ==
  [][\A b \in Elems(buzy_queue) \ Elems(buzy_queue') :
        \A i \in Positions : descs[b][i] \in executed \union {Noop}]_vars

\* The engine implements the service of BatchService, and every call returns
\* as long as the device finishes what it owns.
Service == INSTANCE BatchService WITH accepted <- op_cnt, active <- pc # "idle"
ImplementsService == Service!Spec
EveryCallReturns == Service!EveryCallReturns
=============================================================================

----------------------------- MODULE PureBatch ------------------------------
(***************************************************************************)
(* DSA_pure_batch_task (src/src/details/dsa_pure_batch_task.cpp): a batch  *)
(* without queues.  The client adds descriptors, check() submits them and  *)
(* polls; a batch that failed is repaired and submitted again.  Tasks are  *)
(* the objects of one client thread, which is in one call at a time.       *)
(* A descriptor is the number of its operation, or Noop.                   *)
(***************************************************************************)
EXTENDS Integers

CONSTANTS Tasks, batch_siz, MaxOps, MaxFaults  \* the last two are bounds

\* alloc_descs exits unless batch_siz is at least 2.
ASSUME PureBatchAssumption ==
  /\ batch_siz \in Nat /\ batch_siz >= 2
  /\ MaxOps \in Nat /\ MaxFaults \in Nat

Noop == 0
Positions == 0 .. batch_siz - 1

VARIABLES
  desc_cnt, is_doing_flag,   \* of each task
  descs, comps, bcomp,       \* its descriptors and completion records
  desc_count,                \* descriptors the device was told of
  device, executed, faults,  \* tasks the device owns, operations it has done
  op_cnt,                    \* operations added
  held,                      \* ghost: operations of the task that check() answers for
  pc                         \* "idle", or the task whose check() has submitted,
                             \* or the task whose check() has just returned true
object == <<desc_cnt, is_doing_flag, descs, comps, bcomp, desc_count>>
pvars == <<object, device, executed, faults, op_cnt, held, pc>>

Each(x) == [t \in Tasks |-> x]
Idle == [at |-> "idle", task |-> 0, resolve |-> FALSE]

PureInit ==
  /\ desc_cnt = Each(0) /\ is_doing_flag = Each(FALSE)
  /\ descs = Each([i \in Positions |-> Noop])
  /\ comps = Each([i \in Positions |-> "NONE"])
  /\ bcomp = Each("NONE") /\ desc_count = Each(batch_siz)
  /\ device = {} /\ executed = {} /\ faults = 0 /\ op_cnt = 0 /\ held = Each({})
  /\ pc = Idle

full(t)  == desc_cnt[t] = batch_siz

\* prepare_desc and forward_pos.
Put(t, op) ==
  /\ descs' = [descs EXCEPT ![t][desc_cnt[t]] = op]
  /\ comps' = [comps EXCEPT ![t][desc_cnt[t]] = "NONE"]
  /\ desc_cnt' = [desc_cnt EXCEPT ![t] = @ + 1]

\* The operation is dropped when the batch is full.  One that is added while
\* the batch is being done is not part of it, and success of the batch forgets
\* it; held does not count it.
add_op(t) ==
  /\ pc.at # "read" /\ op_cnt < MaxOps
  /\ op_cnt' = op_cnt + 1
  /\ IF full(t) THEN UNCHANGED <<descs, comps, desc_cnt, held>>
     ELSE /\ Put(t, op_cnt + 1)
          /\ held' = IF is_doing_flag[t] THEN held ELSE [held EXCEPT ![t] = @ \union {op_cnt + 1}]
  /\ pc' = Idle
  /\ UNCHANGED <<is_doing_flag, bcomp, desc_count, device, executed, faults>>

\* Mutant of Begin: the status of the last round is not cleared.
Begin_StaleStatus(t, n) ==
  /\ UNCHANGED bcomp
  /\ is_doing_flag' = [is_doing_flag EXCEPT ![t] = TRUE]
  /\ desc_count' = [desc_count EXCEPT ![t] = n]
  /\ device' = device \union {t}

\* do_op with n descriptors.
Begin(t, n) ==
  /\ bcomp' = [bcomp EXCEPT ![t] = "NONE"]
  /\ is_doing_flag' = [is_doing_flag EXCEPT ![t] = TRUE]
  /\ desc_count' = [desc_count EXCEPT ![t] = n]
  /\ device' = device \union {t}

\* The client calls do_op once per batch, and for two descriptors or more.
do_op(t) ==
  /\ pc.at # "read" /\ ~is_doing_flag[t] /\ desc_cnt[t] >= 2
  /\ Begin(t, desc_cnt[t])
  /\ pc' = Idle
  /\ UNCHANGED <<desc_cnt, descs, comps, executed, faults, op_cnt, held>>

\* check(), lines 210-212.
CheckSubmit(t, resolve) ==
  /\ pc.at # "read"
  /\ IF desc_cnt[t] = 0
       THEN pc' = [at |-> "true", task |-> t, resolve |-> resolve] /\ UNCHANGED <<object, device>>
       ELSE /\ IF desc_cnt[t] = 1 THEN Put(t, Noop) ELSE UNCHANGED <<descs, comps, desc_cnt>>
            /\ IF is_doing_flag[t] THEN UNCHANGED <<bcomp, is_doing_flag, desc_count, device>>
                                   ELSE Begin(t, desc_cnt'[t])
            /\ pc' = [at |-> "read", task |-> t, resolve |-> resolve]
  /\ UNCHANGED <<executed, faults, op_cnt, held>>

\* Lines 213-223.  A status that is not NONE any more does not change.
CheckNotYet ==
  /\ pc.at = "read" /\ bcomp[pc.task] = "NONE"
  /\ pc' = Idle
  /\ UNCHANGED <<object, device, executed, faults, op_cnt, held>>

CheckTrue ==
  /\ pc.at = "read" /\ bcomp[pc.task] = "SUCCESS"
  /\ is_doing_flag' = [is_doing_flag EXCEPT ![pc.task] = FALSE]
  /\ desc_cnt' = [desc_cnt EXCEPT ![pc.task] = 0]
  /\ pc' = [pc EXCEPT !.at = "true"]
  /\ UNCHANGED <<descs, comps, bcomp, desc_count, device, executed, faults, op_cnt, held>>

\* Mutant of Resolved: finished descriptors run again.
Resolved_KeepDone(d, c) == d
Resolved(d, c) == IF c = "SUCCESS" THEN Noop ELSE d

\* resolve_error looks at all batch_siz descriptors, those left over from a
\* longer batch included.
CheckFailed ==
  /\ pc.at = "read" /\ bcomp[pc.task] = "FAIL"
  /\ LET t == pc.task
     IN  IF ~pc.resolve THEN UNCHANGED <<object, device>>
         ELSE /\ comps' = [comps EXCEPT ![t] = [i \in Positions |->
                             IF @[i] = "SUCCESS" /\ descs[t][i] = Noop THEN @[i] ELSE "NONE"]]
              /\ descs' = [descs EXCEPT ![t] = [i \in Positions |-> Resolved(@[i], comps[t][i])]]
              /\ Begin(t, desc_cnt[t])
              /\ UNCHANGED desc_cnt
  /\ pc' = Idle
  /\ UNCHANGED <<executed, faults, op_cnt, held>>

\* clear() gives up what was added; it does nothing while the batch is done.
clear(t) ==
  /\ pc.at # "read"
  /\ IF is_doing_flag[t] THEN UNCHANGED <<desc_cnt, held>>
     ELSE desc_cnt' = [desc_cnt EXCEPT ![t] = 0] /\ held' = [held EXCEPT ![t] = {}]
  /\ pc' = Idle
  /\ UNCHANGED <<is_doing_flag, descs, comps, bcomp, desc_count, device, executed, faults, op_cnt>>

-----------------------------------------------------------------------------
(* The device (external). *)

Finishes(t, done, status) ==
  /\ comps' = [comps EXCEPT ![t] = [i \in Positions |-> IF i \in done THEN "SUCCESS" ELSE @[i]]]
  /\ executed' = executed \union ({descs[t][i] : i \in done} \ {Noop})
  /\ bcomp' = [bcomp EXCEPT ![t] = status]
  /\ device' = device \ {t}
  /\ UNCHANGED <<desc_cnt, is_doing_flag, descs, desc_count, op_cnt, held, pc>>

Told(t) == 0 .. desc_count[t] - 1

DeviceDone(t) == t \in device /\ Finishes(t, Told(t), "SUCCESS") /\ UNCHANGED faults

\* Some descriptor met a page fault or was not begun; both leave a record that
\* resolve_error turns into NONE.
DeviceFails(t) ==
  /\ t \in device /\ faults < MaxFaults
  /\ \E done \in SUBSET Told(t) : done # Told(t) /\ Finishes(t, done, "FAIL")
  /\ faults' = faults + 1

-----------------------------------------------------------------------------
Client(t) ==
  \/ add_op(t) \/ do_op(t) \/ clear(t)
  \/ \E resolve \in BOOLEAN : CheckSubmit(t, resolve)

Check  == CheckNotYet \/ CheckTrue \/ CheckFailed
Device(t) == DeviceDone(t) \/ DeviceFails(t)

PureNext == Check \/ \E t \in Tasks : Client(t) \/ Device(t)

PureSpec == PureInit /\ [][PureNext]_pvars

-----------------------------------------------------------------------------
\* When check() has returned true, every operation that was added before the
\* batch was submitted, and not cleared, has been executed, and the device is
\* done with the batch: retries, padding and left-over descriptors lose none.
TrueMeansExecuted ==
  pc.at = "true" => held[pc.task] \subseteq executed /\ pc.task \notin device

\* The descriptors the device is going to run have not been run before, however
\* often batches fail and whatever earlier batches left behind them.
NothingRunsTwice ==
  \A t \in device : \A i \in Told(t) : descs[t][i] # Noop => descs[t][i] \notin executed

\* What DSA_pure_batch_task promises.
PureBatchRight == TrueMeansExecuted /\ NothingRunsTwice

-----------------------------------------------------------------------------
(* The inductive invariant. *)

\* Positions of the batch that is being put together or done.
Live(t) == 0 .. desc_cnt[t] - 1

\* Type invariant.
PureTypes ==
  /\ desc_cnt \in [Tasks -> 0 .. batch_siz] /\ desc_count \in [Tasks -> 0 .. batch_siz]
  /\ is_doing_flag \in [Tasks -> BOOLEAN]
  /\ descs \in [Tasks -> [Positions -> Nat]]
  /\ comps \in [Tasks -> [Positions -> {"NONE", "SUCCESS"}]]
  /\ bcomp \in [Tasks -> {"NONE", "SUCCESS", "FAIL"}]
  /\ op_cnt \in Nat /\ executed \subseteq 1 .. op_cnt
  /\ held \in [Tasks -> SUBSET (1 .. op_cnt)]
  /\ device \subseteq Tasks
  /\ pc \in [at : {"idle", "read", "true"}, task : Tasks \union {0}, resolve : BOOLEAN]

\* The device has the batches that are being done and not answered; a check that
\* is going to read the answer, and one that has said true, know which it is.
Polled ==
  /\ \A t \in Tasks : t \in device <=> is_doing_flag[t] /\ bcomp[t] = "NONE"
  /\ \A t \in Tasks : is_doing_flag[t] => desc_count[t] >= 2 /\ desc_count[t] <= desc_cnt[t]
  /\ pc.at # "idle" => pc.task \in Tasks
  /\ pc.at = "read" => is_doing_flag[pc.task]
  /\ pc.at = "true" => ~is_doing_flag[pc.task] /\ desc_cnt[pc.task] = 0

\* An operation is in one place, and in no place that will run it again once it
\* has been executed: only a record of success of a batch that was answered
\* stands for an executed one.
OnePlace ==
  /\ \A t, u \in Tasks : \A i \in Live(t), j \in Live(u) :
       descs[t][i] = descs[u][j] /\ descs[t][i] # Noop => t = u /\ i = j
  /\ \A t \in Tasks : \A i \in Live(t) :
       descs[t][i] # Noop =>
         /\ descs[t][i] <= op_cnt
         /\ descs[t][i] \in executed <=> comps[t][i] = "SUCCESS"
         /\ comps[t][i] = "SUCCESS" => is_doing_flag[t] /\ bcomp[t] # "NONE"

\* What check() answers for has been executed, or the device is told of it.
HeldKept ==
  /\ \A t \in Tasks : \A o \in held[t] :
       o \in executed
         \/ \E i \in Live(t) : descs[t][i] = o /\ (is_doing_flag[t] => i < desc_count[t])
  /\ \A t \in Tasks : is_doing_flag[t] /\ bcomp[t] = "SUCCESS" =>
       \A i \in Told(t) : descs[t][i] # Noop => descs[t][i] \in executed

PureInv == PureTypes /\ Polled /\ OnePlace /\ HeldKept
=============================================================================

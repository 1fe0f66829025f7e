------------------------------- MODULE OooTest -------------------------------
(***************************************************************************)
(* The experiment that measures how far batches overtake each other        *)
(* (src/expr/paper/chapter3_5_OOO/ooo_test.cpp, method 1), a client of     *)
(* DSA_pure_batch_task: a round fills a row of tasks, submits one after    *)
(* the other until the first is done, and then waits for those that were   *)
(* submitted and clears the others.  The statistics are left out; they     *)
(* only read completion records.                                           *)
(***************************************************************************)
EXTENDS PureBatch

CONSTANTS
  TestSize,      \* operations of a round
  MaxRepeats     \* bound: rounds

\* There are 2000 tasks of 32 for 40000 operations.
ASSUME OooAssumption ==
  /\ TestSize \in Nat \ {0} /\ MaxRepeats \in Nat
  /\ 0 .. TestSize \div batch_siz \subseteq Tasks

VARIABLES
  phase, rounds,
  task_idx, added,   \* the task that is filled, the operations added
  start_id           \* of the loop over the tasks

ovars == <<pvars, phase, start_id, task_idx, added, rounds>>

OInit == PureInit /\ phase = "fill" /\ start_id = 0 /\ task_idx = 0 /\ added = 0 /\ rounds = 1

Returned == pc.at # "read"

Fill ==
  /\ phase = "fill" /\ added < TestSize
  /\ add_op(task_idx)
  /\ task_idx' = IF desc_cnt'[task_idx] = batch_siz THEN task_idx + 1 ELSE task_idx
  /\ added' = added + 1
  /\ UNCHANGED <<phase, start_id, rounds>>

StartScan ==
  /\ phase = "fill" /\ added = TestSize
  /\ phase' = "scan" /\ start_id' = 0
  /\ UNCHANGED <<pvars, task_idx, added, rounds>>

\* batch_tasks[start_id]->check( true )
ScanSubmit ==
  /\ phase = "scan" /\ start_id <= task_idx /\ Returned
  /\ CheckSubmit(start_id, TRUE)
  /\ phase' = "first"
  /\ UNCHANGED <<start_id, task_idx, added, rounds>>

\* batch_tasks[0]->check( true )
ScanFirst ==
  /\ phase = "first" /\ Returned
  /\ CheckSubmit(0, TRUE)
  /\ phase' = "scanned"
  /\ UNCHANGED <<start_id, task_idx, added, rounds>>

ScanNext ==
  /\ phase = "scanned" /\ Returned
  /\ IF pc.at = "true" \/ start_id = task_idx
       THEN phase' = "drain" /\ start_id' = 0
       ELSE phase' = "scan" /\ start_id' = start_id + 1
  /\ UNCHANGED <<pvars, task_idx, added, rounds>>

\* Mutant of Submitted: all tasks but the first are cleared when the scan ends.
Submitted_First(t) == t = 0 /\ is_doing_flag[t]
Submitted(t) == is_doing_flag[t]

DrainClear ==
  /\ phase = "drain" /\ start_id <= task_idx /\ ~Submitted(start_id)
  /\ clear(start_id)
  /\ start_id' = start_id + 1
  /\ UNCHANGED <<phase, task_idx, added, rounds>>

\* wait() is a loop of check( true ).
DrainWait ==
  /\ \/ phase = "drain" /\ start_id <= task_idx /\ Submitted(start_id)
     \/ phase = "waiting" /\ Returned /\ pc.at # "true"
  /\ CheckSubmit(start_id, TRUE)
  /\ phase' = "waiting"
  /\ UNCHANGED <<start_id, task_idx, added, rounds>>

DrainWaited ==
  /\ phase = "waiting" /\ pc.at = "true"
  /\ phase' = "drain" /\ start_id' = start_id + 1
  /\ UNCHANGED <<pvars, task_idx, added, rounds>>

NextRound ==
  /\ phase = "drain" /\ start_id > task_idx /\ rounds < MaxRepeats
  /\ phase' = "fill" /\ start_id' = 0 /\ task_idx' = 0 /\ added' = 0 /\ rounds' = rounds + 1
  /\ UNCHANGED pvars

Progress == Check \/ \E t \in Tasks : Device(t)

ONext ==
  \/ Fill \/ StartScan \/ ScanSubmit \/ ScanFirst \/ ScanNext
  \/ DrainClear \/ DrainWait \/ DrainWaited \/ NextRound
  \/ Progress /\ UNCHANGED <<phase, start_id, task_idx, added, rounds>>

OSpec == OInit /\ [][ONext]_ovars

-----------------------------------------------------------------------------
\* A round begins with empty tasks and an idle device, whatever order the
\* batches of the last one finished in, and all that was submitted in it has
\* been executed.
OooRoundsRight ==
  phase = "fill" /\ added = 0 =>
    /\ device = {}
    /\ \A t \in Tasks : desc_cnt[t] = 0 /\ ~is_doing_flag[t] /\ held[t] \subseteq executed

-----------------------------------------------------------------------------
(* The inductive invariant, together with PureInv. *)

Empty(t) == desc_cnt[t] = 0 /\ ~is_doing_flag[t]

\* The tasks behind the one that is filled are empty, those before it are full,
\* and nothing is submitted before all are filled.
FilledBefore ==
  /\ \A t \in Tasks : t \notin 0 .. task_idx => Empty(t)
  /\ phase = "fill" =>
       /\ \A t \in Tasks : ~is_doing_flag[t]
       /\ added = task_idx * batch_siz + desc_cnt[task_idx] /\ desc_cnt[task_idx] < batch_siz

\* A drain leaves empty tasks behind, and waits for one at a time.
DrainedBehind ==
  /\ phase \in {"scan", "first", "scanned", "waiting"} => start_id <= task_idx
  /\ phase \in {"drain", "waiting"} =>
       start_id <= task_idx + 1 /\ \A t \in Tasks : t \in 0 .. start_id - 1 => Empty(t)
  /\ phase = "waiting" /\ pc.at # "idle" => pc.task = start_id

OooTypes ==
  /\ phase \in {"fill", "scan", "first", "scanned", "drain", "waiting"}
  /\ task_idx \in Nat /\ 0 .. task_idx \subseteq Tasks
  /\ added \in 0 .. TestSize /\ start_id \in Nat

OooInv == PureInv /\ OooTypes /\ FilledBefore /\ DrainedBehind
=============================================================================

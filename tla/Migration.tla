------------------------------ MODULE Migration ------------------------------
(***************************************************************************)
(* test_migration of expr/paper/chapter5_1_pagemig: small and huge pages   *)
(* move from one node to another.  Method 2 cuts the huge ones in pieces   *)
(* and mixes these with the small ones.  Both pages of a task are drawn    *)
(* from pools, one for each node and size: tasks may share them.           *)
(***************************************************************************)
EXTENDS Copies

CONSTANTS
  HUGE, SPLIT,            \* size of a huge page (a small one has 1), pieces it is cut in
  EVERY,                  \* a piece is submitted with every EVERYth small page
  PoolPages,              \* the pages of a pool
  Mixes                   \* sequences of tasks

Migration_task == [len : {1, HUGE}, src : PoolPages, dest : PoolPages]

\* Huge pages are cut in 10 pieces; one goes with every 16th small page.
ASSUME MigrationAssumption ==
  /\ HUGE \in Nat /\ HUGE > 1 /\ SPLIT \in Nat \ {0} /\ EVERY \in Nat \ {0}
  /\ Mixes \subseteq Seq(Migration_task)

VARIABLES
  mig_method, tasks, i, small_submit,
  tasks_splits, now_split_id,
  migration

moving == <<mig_method, tasks, i, small_submit, tasks_splits, now_split_id, migration>>
mvars == <<mem, pending, moving>>

tasks_cnt == Len(tasks)
\* The units of the pools <<node, page, size of the page, unit>>, and those of
\* the pages of task k.
Units == {u \in {0, 1} \X PoolPages \X {1, HUGE} \X (0 .. HUGE - 1) : u[4] < u[3]}
From(k, j) == <<0, tasks[k].src, tasks[k].len, j>>
To(k, j) == <<1, tasks[k].dest, tasks[k].len, j>>
Task(k, from, siz) == {Copy("batch", To(k, j), From(k, j)) : j \in from .. from + siz - 1}

MigrationInit ==
  /\ mig_method \in 1 .. 2 /\ tasks \in Mixes
  /\ mem = [u \in Units |-> IF u[1] = 0 THEN u ELSE <<>>]
  /\ pending = {} /\ i = 1 /\ small_submit = 0 /\ tasks_splits = <<>> /\ now_split_id = 0
  /\ migration = "submit"

Naive ==
  /\ migration = "submit" /\ mig_method = 1 /\ i <= tasks_cnt
  /\ Submit(Task(i, 0, tasks[i].len)) /\ i' = i + 1
  /\ UNCHANGED <<mig_method, tasks, small_submit, tasks_splits, now_split_id, migration>>

\* SPLIT pieces of the same size: what is left of the division is not copied.
split_len == HUGE \div SPLIT
Split ==
  /\ migration = "submit" /\ mig_method = 2 /\ i <= tasks_cnt /\ tasks[i].len = HUGE
  /\ tasks_splits' = tasks_splits \o [j \in 1 .. SPLIT |-> Task(i, (j - 1) * split_len, split_len)]
  /\ i' = i + 1
  /\ UNCHANGED <<mem, pending, mig_method, tasks, small_submit, now_split_id, migration>>

\* Mutant of Left: the last piece of the queue is taken for its end.
Left_ButOne == Len(tasks_splits) > now_split_id + 1
Left == Len(tasks_splits) > now_split_id

Small ==
  /\ migration = "submit" /\ mig_method = 2 /\ i <= tasks_cnt /\ tasks[i].len # HUGE
  /\ small_submit' = small_submit + 1 /\ i' = i + 1
  /\ LET piece == (small_submit + 1) % EVERY = 0 /\ Left
     IN  /\ Submit(Task(i, 0, tasks[i].len) \union (IF piece THEN tasks_splits[now_split_id + 1] ELSE {}))
         /\ now_split_id' = IF piece THEN now_split_id + 1 ELSE now_split_id
  /\ UNCHANGED <<mig_method, tasks, tasks_splits, migration>>

Rest ==
  /\ migration = "submit" /\ mig_method = 2 /\ i > tasks_cnt /\ Left
  /\ Submit(tasks_splits[now_split_id + 1]) /\ now_split_id' = now_split_id + 1
  /\ UNCHANGED <<mig_method, tasks, i, small_submit, tasks_splits, migration>>

\* dsa_batch.wait()
EndMigration ==
  /\ migration = "submit" /\ i > tasks_cnt /\ ~(mig_method = 2 /\ Left) /\ Finished("batch")
  /\ migration' = "done"
  /\ UNCHANGED <<mem, pending, mig_method, tasks, i, small_submit, tasks_splits, now_split_id>>

MigrationDevice == Perform /\ UNCHANGED moving

MigrationNext == Naive \/ Split \/ Small \/ Rest \/ EndMigration \/ MigrationDevice

MigrationSpec == MigrationInit /\ [][MigrationNext]_mvars

-----------------------------------------------------------------------------
\* Of what check_correct compares, as much as is true when tasks share a
\* destination: when the time is taken nothing is in flight, and each unit of
\* the page a task copies to holds that unit of its source, or of the source of
\* another task to the same page, wherever the pieces were in the queue; but
\* for the last HUGE % SPLIT bytes of a huge page in method 2.
Migrated ==
  migration = "done" =>
    /\ pending = {}
    /\ \A k \in 1 .. tasks_cnt : \A j \in 0 .. tasks[k].len - 1 :
         \/ \E l \in 1 .. tasks_cnt : To(l, j) = To(k, j) /\ mem[To(k, j)] = mem[From(l, j)]
         \/ mig_method = 2 /\ tasks[k].len = HUGE /\ j >= SPLIT * split_len
=============================================================================

----------------------------- MODULE MCPrograms -----------------------------
(***************************************************************************)
(* Model checking of the programs of example/, expr/ and scripts/, each by *)
(* itself: running is the one of this behaviour.  The variables of the     *)
(* others stay as they are.                                                *)
(***************************************************************************)
EXTENDS ThreadShuffle, OooTest, PmemFile, Vector, Migration, SpeedTest, CoroShuffle, MergeSort, Setup,
        FaultBench

VARIABLE running

\* Two strings of each thread, of one or two bytes, to two threads.
MCStrings ==
  {s \in [{0, 1} \X {0, 1} -> [len : {1, 2}, hashv : {0, 1}]] :
     s[0, 0] = [len |-> 1, hashv |-> 0] /\ s[1, 0].len = 2}

\* Two to four tasks, at most two of them huge, between two pages of each pool
\* drawn in turn and two to copy to: the first of a size to page 0.
MCMixes ==
  LET mixes(n) == {[k \in 1 .. n |-> [len |-> l[k], src |-> k % 2, dest |-> d[k]]] :
                     l \in [1 .. n -> {1, HUGE}], d \in [1 .. n -> 0 .. 1]}
      isFirst(s, k) == \A j \in 1 .. k - 1 : s[j].len # s[k].len
  IN  {s \in mixes(2) \union mixes(3) \union mixes(4) :
         /\ Cardinality({k \in DOMAIN s : s[k].len = HUGE}) <= 2
         /\ \A k \in DOMAIN s : isFirst(s, k) => s[k].dest = 0}

\* Three elements of each coroutine, to two groups.
MCHashes == {h \in [(0 .. 1) \X (0 .. 2) -> {0, 1}] : h[0, 0] = 0}

\* The lists the speed tests run through, with few and short descriptors.
Run(p, lists) == {<<p, l, ToSet(l)>> : l \in lists}
Merged(p, Merge(_, _, _), lists, mixes) ==
  {<<p, Merge(l, k[1], k[2]), ToSet(l[1]) \union ToSet(l[2])>> : l \in lists, k \in mixes}
SomeLists == Lists(1, 1, 5) \union Lists(1, 2, 5)
MCTests ==
  Run("mixed", Mixed(1, 1, 5, 2) \union Mixed(1, 2, 5, 3) \union Mixed(2, 1, 4, 6))
  \union Merged("plus", Plus, SomeLists, {<<1, 1>>, <<2, 1>>, <<0, 3>>})
  \union Merged("batch_plus", InBatch, SomeLists \union Lists(2, 1, 5),
                {<<1, 1>>, <<2, 1>>, <<0, 3>>, <<2, 2>>})
  \union Run("in_batch", {Workload(s, b, 1, d) : s \in 1 .. 2, b \in 1 .. 2, d \in 0 .. 2})
  \union Run("align", {Testset(d, t) : d \in {1, 2, 5, 7}, t \in {2, 4}})
  \union Run("speed", UNION {Accesses(t) : t \in {4, 6}})
  \union Run("same_mem", {CopySet(3)})
  \union Run("engine_ooo", {Strided(5, s) : s \in {1, 3, 5}})
  \union Run("motivation", {Ranges(f, l, s) : f \in {0, 7, 9}, l \in [1 .. 3 -> {1, 3}],
                                              s \in {<<0, 7, 2>>, <<6, 3, 5>>}})

\* Strings to sort, some of them equal: odd numbers of them, and two.
MCInputs == UNION {[1 .. k -> 1 .. 3] : k \in {2, 3, 5}}

\* The command lines of scripts/ and others: queues and engines in any number,
\* shared and dedicated queues, one queue or engine at a time, queues too large.
Ask(w, e, g, s, q, b) == [w |-> w, e |-> e, g |-> g, s |-> s, q |-> q, b |-> b]
MCOptions ==
  {Ask(1, 1, 0, 0, -1, -1), Ask(3, 2, 0, 0, -1, -1), Ask(2, 3, 1, 2, -1, -1),
   Ask(1, 1, 0, 2, 0, 0), Ask(1, 1, 1, 2, 1, 0), Ask(1, 2, 1, 3, 2, 0),
   Ask(0, 2, 0, 0, -1, 1), Ask(0, 2, 0, 0, -1, -1), Ask(1, 1, 0, 0, 0, 0),
   Ask(1, 1, 0, 2, 1, -1), Ask(1, 1, 0, 1, 3, 1)}

-----------------------------------------------------------------------------
(* A program that is not running has not begun: its variables have values    *)
(* that none of its actions and none of its properties looks at.             *)

FaultUnused == /\ fault_method = "none" /\ op_type = "none" /\ frames = <<>> /\ data = <<>> /\ fault_at = "none"
               /\ task_id = 0 /\ tap_at = 0 /\ submitted = {} /\ faulted = {}
OooUnused == phase = "none" /\ start_id = 0 /\ task_idx = 0 /\ added = 0 /\ rounds = 0
TestUnused == /\ test = "none" /\ test_set = <<>> /\ generated = {} /\ loop = <<>> /\ id = 0
              /\ in_flight = {} /\ moved = {} /\ repeat = 0 /\ clock = "none"
\* Above all that the other programs copy to.
NoMapping == 100
PmemUnused == at = "none" /\ used_size = 0 /\ file_size = 0 /\ mapped = NoMapping /\ grow_to = 0
VectorUnused == /\ vec_method = 0 /\ vector_cap = 0 /\ vector_len = 0 /\ expanding_pos = 0
                /\ contents = <<>> /\ pushes = 0 /\ expanding = "none"
MigrationUnused == /\ mig_method = 0 /\ tasks = <<>> /\ i = 0 /\ small_submit = 0
                   /\ tasks_splits = <<>> /\ now_split_id = 0 /\ migration = "none"
CoroUnused == /\ hash = [e \in Items |-> group] /\ buc_cap = <<>> /\ barr = 0 /\ len = NoneYet /\ capacity = NoneYet
              /\ turn = 0 /\ co = [w \in Workers |-> [at |-> "over"]]
SortUnused == /\ input = <<>> /\ pre = "none" /\ seglen = 0 /\ seg = 0 /\ Lpos = 0 /\ Rpos = 0
              /\ now_pos = 0 /\ sorting = "none"
NoCopies == mem = <<>> /\ pending = {}

ShuffleUnused == Init /\ strings = CHOOSE s \in Strings : TRUE
PureUnused == PureInit /\ OooUnused
CopiersUnused == PmemUnused /\ VectorUnused /\ MigrationUnused /\ CoroUnused /\ SortUnused /\ NoCopies

\* The programs that share the memory of Copies.
CopierInit ==
  \/ running = "pmem_demo" /\ PmemInit /\ VectorUnused /\ MigrationUnused /\ CoroUnused /\ SortUnused
  \/ running = "vector_dsa" /\ VectorInit /\ PmemUnused /\ MigrationUnused /\ CoroUnused /\ SortUnused
  \/ running = "page_mig_dsa" /\ MigrationInit /\ PmemUnused /\ VectorUnused /\ CoroUnused /\ SortUnused
  \/ running = "coro_demo" /\ CoroInit /\ PmemUnused /\ VectorUnused /\ MigrationUnused /\ SortUnused
  \/ running = "mergesort_demo" /\ SortInit /\ PmemUnused /\ VectorUnused /\ MigrationUnused /\ CoroUnused

ProgramsInit ==
  \/ /\ ShuffleUnused /\ PureUnused /\ TestUnused /\ CopiersUnused /\ SetupInit
     /\ \/ running \in {"setup_dsa", "pure_batch"} /\ FaultUnused
        \/ running = "page_faults" /\ FaultInit
  \/ /\ FaultUnused /\ SetupInit
     /\ \/ running = "shuffle_dsa"  /\ Init /\ PureUnused /\ TestUnused /\ CopiersUnused
        \/ running = "ooo_test"     /\ OInit /\ ShuffleUnused /\ TestUnused /\ CopiersUnused
        \/ /\ ShuffleUnused /\ PureUnused
           /\ \/ running = "speed_tests" /\ TestInit /\ CopiersUnused
              \/ TestUnused /\ CopierInit

\* Bound: operations of a client that uses two pure batches as it likes.
AnyClientOps == 4

ooo == <<phase, start_id, task_idx, added, rounds>>
copiers == <<mem, pending, pmem, vector, moving, shuffling, sorter>>
allvars == <<vars, ovars, svars, setup, copiers, fvars, running>>

ProgramsNext ==
  \/ running = "shuffle_dsa" /\ Next /\ UNCHANGED <<ovars, svars, setup, copiers, fvars, running>>
  \/ /\ running = "pure_batch" /\ PureNext /\ op_cnt' <= AnyClientOps
     /\ UNCHANGED <<vars, ooo, svars, setup, copiers, fvars, running>>
  \/ running = "ooo_test" /\ ONext /\ UNCHANGED <<vars, svars, setup, copiers, fvars, running>>
  \/ running = "speed_tests" /\ TestNext /\ UNCHANGED <<vars, ovars, setup, copiers, fvars, running>>
  \/ /\ UNCHANGED <<vars, ovars, svars, setup, fvars, running>>
     /\ \/ running = "pmem_demo"    /\ PmemNext /\ UNCHANGED <<vector, moving, shuffling, sorter>>
        \/ running = "vector_dsa"   /\ VectorNext /\ UNCHANGED <<pmem, moving, shuffling, sorter>>
        \/ running = "page_mig_dsa" /\ MigrationNext /\ UNCHANGED <<pmem, vector, shuffling, sorter>>
        \/ running = "coro_demo"    /\ CoroNext /\ UNCHANGED <<pmem, vector, moving, sorter>>
        \/ running = "mergesort_demo" /\ SortNext /\ UNCHANGED <<pmem, vector, moving, shuffling>>
  \/ running = "setup_dsa" /\ SetupNext /\ UNCHANGED <<vars, ovars, svars, copiers, fvars, running>>
  \/ running = "page_faults" /\ FaultNext /\ UNCHANGED <<vars, ovars, svars, setup, copiers, running>>

ProgramsSpec == ProgramsInit /\ [][ProgramsNext]_allvars
=============================================================================

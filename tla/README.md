# LightDSA in TLA+

LightDSA is a user-space library for the Intel Data Streaming Accelerator. A
client thread writes descriptors, submits them with `enqcmd`, and polls
completion records that the device writes at its own pace. This directory holds
a TLA+ model of the library, TLC configurations that check it on small
instances, and TLAPS proofs. Paths below are relative to the repository root,
which the modules call `src/`.

## 1. Inventory

| Component | Source | State | Operations | Hard because |
|---|---|---|---|---|
| `batch_record_queue` | `src/details/dsa_batch_task.hpp:11-34`, `.cpp:9-50` | ring of batch indices: front, back, count | push_back, pop_front, delay_front_and_pop | removal from the middle, wrap-around, a count kept beside the cursors |
| `DSAbatch_task` | `src/details/dsa_batch_task.cpp` | free ring, buzy ring, current batch, descriptors, completion records | add_op, wait, check, collect, set_wq, clear | the device writes completion records between any two reads; retry after page faults |
| `DSAbatch` | `src/interfaces/dsa_batch.cpp` | counters | submit_*, check, wait | back-pressure when all batches are busy; alignment of destinations |
| `DSAtask_redistribute` | `src/details/dsa_batch_redistribute.cpp` | two stacks of entries, credits | push_back, pop | every entry must come out once, whatever the credits |
| `DSAtask` | `src/details/dsa_task.cpp` | one descriptor, one completion record, busy flag | set_op, do_op, check, solve_pf | resumption after a page fault, polling |
| `DSAop` | `src/interfaces/dsa_op.cpp` | counters | async_*, sync_*, wait, check, compare results | calls on a busy object, results after a resumption |
| `DSAallocator` | `src/details/dsa_allocator.cpp` | segment tree over 32-byte units | allocate, deallocate | lazy tree updates, alignment, leaves |
| `DSAagent` | `src/details/dsa_agent.cpp` | devices, work queues, round-robin counters | get_instance, get_wq | concurrent use by threads |
| `DSA_pure_batch_task` | `src/details/dsa_pure_batch_task.cpp` | one batch | add_op, check, wait | experiments only |
| `cpupath` | `src/details/dsa_cpupath.cpp` | none | memfill_cpu, compare_cpu, ... | word-wise loops with byte-wise tails |
| examples | `example/*.cpp` | buffers shared with copies in flight | merge sort, shuffle with coroutines, appending to a mapped file | buffers reused, remapped or read while the device copies |
| experiments | `expr/**` | lists of descriptors, rings of objects | speed tests, page-fault tests, out-of-order test, shuffle with threads, growing vector, page migration | what is timed must be what was asked for; threads share pools by atomics |
| set-up script | `scripts/setup_dsa.sh` | configuration of the device | unbind, configure, bind | runs follow each other, whole or interrupted |
| `util`, C interface, configuration | `src/details/util.*`, `dsa_util.*`, `dsa_conf.hpp`, `src/interfaces/*_c.*` | none | formatting, timing, wrappers | - |
| DSA hardware | external | descriptors it owns | runs a batch or a descriptor, faults | asynchronous, stops at a page fault |

Interaction: `DSAbatch` calls `DSAbatch_task`, which takes memory from
`DSAallocator` of its work queue (chosen by `DSAagent`) and shares descriptors
and completion records with the device. The client never blocks on the device;
it reads `status`, a volatile byte, in loops. There are no callbacks, no locks
in the engine, and nothing is persisted.

Per component, what makes it correct:

* ring: front, back and count agree; no index is in it twice; removal from the
  middle loses nothing.
* batch engine: every batch is in one place; the device owns exactly what is
  pending; each accepted operation runs exactly once although batches fail and
  are repaired; `wait` and a true `check` mean that all is done; every call
  returns.
* single operations: whatever number of page faults interrupts an operation,
  its result is that of an uninterrupted one, and no byte outside the
  destination changes.
* allocator: blocks never overlap; a request is refused only when it does not
  fit; the tree stays in its array.
* redistribution: what is pushed comes out once.
* agent: one instance; work queues are handed out in turn.

Hard behaviours: the device writes completion records between any two reads of
the client; batches finish out of order; page faults end a descriptor in the
middle and the library resumes it; everything is polled. There is no
persistence, so there are no crashes to recover from.

## 2. Modules

| Module | Models | State and actions |
|---|---|---|
| `BatchRecordQueue` | `batch_record_queue` | a queue is a record with the fields of the class; each method is an operator that returns the queue it leaves. Nothing prevents a misuse the code would not prevent. |
| `BatchTask` | `DSAbatch`, `DSAbatch_task` and the device around them | the rings, the current batch, descriptors and completion records; `SubmitCall`, `AddOp`, `CompletionCall`, `WaitTest`, `Clear`; `collect()` with one action per read of the status that the device writes (lines 455, 461, 465, 477) and branch; `BatchSucceeds`, `BatchFails` for the device |
| `BatchService` | what `src/README.md` promises of a batch object | accepted and executed operations, the call in progress |
| `BatchTaskInv` | - | the inductive invariant: `RingInv` (batches) and `OpInv` (operations) |
| `DataPath` | what operations do to memory; prefixes, CPU versions, touching | operators on memory as a function |
| `SingleOp` | `DSAop`, `DSAtask` and the device | memory, one descriptor, one completion record; `Invoke`, `AcceptOp`, `FinishOp`, `StillBusy`, `ResolveFault`, `OtherError`; `DeviceDone`, `DeviceFault`, `DeviceRejects` |
| `SingleOpInv` | - | its inductive invariants `PollInv`, `MemInv` and `CompareInv` |
| `Allocator` | `DSAallocator` | the nodes of the tree, the lengths of the blocks, the blocks in use; `allocate`, `deallocate`, which go down the tree by functions of the level |
| `Redistribute` | `DSAtask_redistribute` | the two stacks of entries, sums and credits; `push_back`, `pop`, `open_phase` as operators on a record |
| `MixingBatch` | the mixing build of `DSAbatch_task` | `BatchTask` with `add_op` and `wait` that go through `Redistribute` |
| `BatchData` | descriptors of a batch with addresses and bytes | memory, descriptors, records, `last_fault_addr_*`; `Submit` with prefixes, short operations and page touching, `ResolveError` entry by entry; the device writes memory |
| `CpuPath` | the loops of `dsa_cpupath.cpp` | one call and its result, word by word and byte by byte |
| `Agent` | `DSAagent` | the queues found, the singleton and its `once_flag`, ticket counters, threads, a fork; its inductive invariant `AgentInv` |
| `PureBatch` | `DSA_pure_batch_task` and the device | descriptors, records and flag of each task; its calls, `CheckTrue`, `CheckFailed` |
| `OooTest` | `ooo_test.cpp`, as the client of `PureBatch` | the round: fill, submit until the first is done, drain |
| `Copies` | what the programs see of the library | places and the items in them, copies in flight |
| `MergeSort`, `CoroShuffle`, `PmemFile` | `example/` | on `Copies`: passes over two buffers; coroutines with buffers and a barrier; a file mapped, filled, grown |
| `ThreadShuffle`, `Vector`, `Migration` | `chapter5_1_*` | threads with two atomics per pool; arrays that grow by one of three methods; tasks between pages drawn from pools, which tasks may share, and a queue of the pieces of huge ones |
| `Workloads` | the list generators of the speed tests | operators that return a list of descriptors |
| `SpeedTest` | the loops that time those lists | the list and the copies it is made from, objects in flight, what has moved, the clock |
| `FaultBench` | `chapter3_2_PF` | page tables of two arrays, the task whose turn it is and the page to be tapped next, the pages submitted, the faults met |
| `Setup` | `setup_dsa.sh` | the device's configuration, the command whose turn it is and the count of its loop; an action for each command, `LoopEnds`, `Interrupt` |
| `MixingBatchInv` | - | the operation layer of the invariant for the mixing build (`MixInv`) |
| `BatchDataInv` | - | the inductive invariant of `BatchData`, and the requests it is for (`SafeRequests`) |
| `Recursion` | - | lemmas on recursive functions of the numbers |
| `BatchTaskProofs`, `MixingBatchProofs`, `SingleOpProofs`, `BatchDataProofs` (also of `CpuPath`), `PartsProofs` (`Allocator`, `Agent`), `ProgramProofs` (`PureBatch`, `OooTest`, `ThreadShuffle`, `Setup`, `FaultBench`), `CopyingProofs` (`PmemFile`, `Vector`, `Migration`, `CoroShuffle`, `MergeSort`, `SpeedTest`) | - | theorems |
| `MCBatchTask`, `MCSingleOp`, `MCAllocator`, `MCBatchData`, `MCSpeedTest` | - | what TLC runs |
| `MCBatchBuilds`, `MCSingleOpBuilds` | - | two builds of a component, each by itself, in one run; the variable `build` says which one a behaviour is about |
| `MCParts`, `MCPrograms` | - | several parts, or programs, that do not interact, checked one by one in one run |

`BatchTask` extends `BatchRecordQueue` and instantiates `BatchService` with
`accepted <- op_cnt, active <- pc # "idle"`; `MixingBatch` extends `BatchTask`,
instantiates `Redistribute` and implements the same `BatchService`; `SingleOp`,
`BatchData` and `CpuPath` extend `DataPath`; `OooTest` extends `PureBatch`; the
programs on `Copies` rely on what `BatchService` promises.

`MCParts` extends `MCBatchData`, `Allocator`, `Agent` and `CpuPath`, `MCPrograms`
extends `ThreadShuffle`, `OooTest`, `Setup`, `FaultBench`, `SpeedTest` and those on
`Copies`: the properties that theorems are about keep their names. A variable says
which part or program a behaviour is about; the others stand still.

Granularity. The client is one thread. A step of it is the code between two
reads of a location the device writes. In `collect()` that is a step per read.
`DSAtask::check` reads the status once, and once it is not `NONE` the device
does not own the descriptor, so a whole `check()` is a step, and the loop of
`wait()` is a step per check.

Abstractions. In `BatchTask` a descriptor is the number of the operation it
carries, or `Noop`. In `SingleOp` operations have addresses and bytes, and the
units are scaled: a pattern has 4 bytes instead of 8, a cache line 8 instead of
64, a page 8 instead of 4096; `LEN_MOD` stands for 2^32. Statistics counters,
printing, `clwb` and the completion record's other fields are left out.
`BatchData` is the complement of `BatchTask`: bytes and addresses, but one batch
at a time, whose descriptors the device runs in any order. In the programs on
`Copies` an item is copied in one step; sizes are small numbers with the same
order and divisibility. In `FaultBench` a page is the unit of data, a page table
entry has the states absent, zero page, hole, on disk, present. `Setup` keeps the
order of the commands and what each does to the device. In `Allocator` a leaf
has 2 bytes instead of 32 in the runs: enough for the level below the leaves to
exist. Its tree has the nodes down to the bytes, and `this_len`, which the code
keeps in the nodes, is a function of its own; `allocator_leaf` is about the
nodes behind the array.

External parts. The device is modelled from what the code expects of it
(`src/details/dsa_util.hpp`, `DSAtask::check`, `resolve_error`): it may run what
it owns at any time and in any order, it stops with `PAGE_FAULT` at the start of
a piece or at a page boundary, it rejects ranges outside memory, and a batch
with an unfinished descriptor ends with a batch error. `DSAtask::check` and
`resolve_error` rely on all four.

## 3. Runs

| Run | Question | Bounds |
|---|---|---|
| `batch_builds` | default build: partition of batches, no loss or repetition, refinement of `BatchService`; mixing build: the same, every buffered operation is in one place, credits are kept | 2 batches of 3 descriptors, 4 operations (large and small in the mixing build), 1 failed batch |
| `batch_out_of_order` | recycle window: both layers of the inductive invariant, return of every call | 3 batches of 1, window 2, 5 operations, 1 failed batch |
| `batch_retry_race` | finding 1 of section 6 | 2 batches of 1, 3 operations, 1 failed batch |
| `batch_touch_source` | finding 5 | 1 batch of 2, 2 operations, 2 faults |
| `op_builds` | default build: results, polling, return of every call | 2 operations, 2 faults, a memory of 44 bytes |
| | the build with alignment, touching and CPU path: the same; a descriptor that is rejected | 2 operations, 1 fault |
| `op_resumed_fill`, `op_compare_offset`, `op_resumed_compare` | findings 2, 3 and 6 | 1 operation, 1 fault |
| `allocator_leaf` | finding 4 | 4 leaves |
| `parts` | allocator: blocks disjoint, longest run known, refusals justified | 8 leaves, 6 allocations, any deallocations |
| | agent: queues usable, own and dealt evenly | 2 threads, 2 devices of 1 to 3 queues, a fork, 4 uses |
| | CPU loops: same result as the device | up to 6 words and odd bytes |
| | batches with bytes: memory as expected, touching harmless | 1 batch of 2, 3 operations (one a fill that needs a prefix), 2 faults, 64 bytes |
| `programs` | pure batch: under any client, and under `ooo_test` | 2 tasks of 3, 2 failures; 4 operations of any client, 2 rounds of 5 |
| | merge sort: runs sorted after each pass | 2, 3 and 5 strings, 3 keys |
| | coroutines: no buffer reused too early, groups complete | 2 workers, 3 elements each, buffers of 2 |
| | mapped file: nothing lost by growing | a source of 10, extended by 3 |
| | threads: extents disjoint and gapless, every string copied once | 2 threads, 2 strings each, 2 rounds |
| | set-up: any run after any run | 4 runs of 11 command lines, 2 engines, 3 queues |
| | page faults: just those stated | 5 pages, tasks of 2, huge pages of 4 |
| | speed tests: whole lists timed, lists as promised | lists of up to 6, rings of 2, 2 repetitions |
| | vector: contents kept | 12 pushes, 3 arrays |
| | migration: units at their place in the right page | 4 tasks, 2 of them huge, of 3 units in 2 pieces; 2 pages in a pool |
| `inbatch_overflow` | finding 7 | lists of 4 and 5 |

Why the bounds are enough. Two batches make the rings wrap, let one batch
finish before another, and make every batch busy; four or five operations fill,
recycle and refill them. Three descriptors per batch separate "some finished" from "all
finished". One failed batch reaches every branch of `resolve_error`; the second
fault of `op_builds` resumes a resumed operation. What depends on more than
that is covered by the proofs, which have no bounds. `MaxOps`, `MaxFaults`,
`MaxCalls` and `MaxRuns` are the only bounds inside guards. Memory starts either with all
bytes different, so that any misplaced byte shows, or periodic with one
deviation, so that compares get past the first byte. Two threads
are enough for the races on two counters or two atomics, as every pair of threads
meets in the same places. Two workers and buffers of two elements make a
coroutine fill a buffer, offload it and need it again while it is copied. Five
strings make passes with a full, a short and a missing right run. Twelve pushes
reallocate twice with either method of growing. Four runs of the script reach a
configured, a half-configured, an interrupted and a repaired device. Four tasks to
two pages of a pool make tasks of either size share a destination, and huge pages of
three units in two pieces leave a remainder. Deadlock is not checked in `parts`, `programs` and
`inbatch_overflow`: they end when the bound is used up or the program is done.

The requests of `op_builds` leave out what section 6 lists: fills that a fault
brings out of step with their pattern, overlapping moves, and in the aligned build
moves shorter than their prefix and fills that are rotated wrongly. Prefixes of whole
words, a rotation by half a word (the same either way) and a prefix longer than a
word are there. A comparison that a fault brings out of step is there too, but
`CompareInStep` says nothing about it; `op_resumed_compare` does. Requests of
the batches in `parts` have sources and destinations that are pages apart.

## 4. Fairness

`EveryCallReturns` assumes that the client thread keeps running inside a call
(weak fairness of its steps; it never blocks, it spins) and that the device
finishes every descriptor or batch it owns (weak fairness of the device). The
code waits without a timeout, so nothing weaker would do. Nothing is assumed
about calls being made, or about which of several batches finishes first.
Faults are finite because of `MaxFaults`: a device that faults for ever keeps
`wait()` spinning for ever. Of single operations the property is that a call
returns or that the device has rejected the descriptor, which ends the process.

## 5. Proofs

All theorems are for every value of the constants that satisfies the assumptions
named here.

*Ring* (first part of `BatchTaskProofs`): lemmas on what push, pop and removal
from the middle do to the live positions and the elements.

*Batch engine, batches* (`BatchTaskProofs`): `RingInv` is inductive. It joins the
type invariant and the partition of batches with facts that make them inductive:
the counts add up (`CountsAdd`), there is no current batch only while none is free
(`NoCurrentNoFree`), the device owns exactly the busy batches whose status is
`NONE` (`DeviceOwnsPending`), and `collect()`'s cursor is in the ring
(`CursorOK`). From it follow `RingCorrect`, `TypeCorrect`, `Partition` and
`NeverDropped`.

*Batch engine, operations* (second part of `BatchTaskProofs`): `OpInv` is inductive relative to
`RingInv`. Every accepted operation has been executed or waits in a descriptor
(`Accounted`), it waits in one descriptor only and not after it was executed
(`RunOnce`), a completion record that says success is true (`RecordsTrue`),
`wait` and `check` leave no half-filled batch behind (`NothingPartial`), and what
counts as done is done (`DoneMeansDone`). Most actions move batches and leave the
work alone; lemmas state this once (`SameWork`), so that a step proof names only
the batch that changes. `OnceOnly`, `MemoryOfTheDevice`, `LeavesFinished` and
`CompletionMeansDone` follow. `EngineImplementsService` is the refinement: the
first states of the engine are first states of `BatchService`, and each step is a
step of the service or a stutter; an operation is executed by the service when the
device finishes it, also inside a batch that fails.

All this assumes `NoOvertaking`: either no batch ever fails, or a resubmitted batch
is not finished before the iteration of `collect()` that resubmitted it is over.
The code does not ensure this. `batch_retry_race` shows that it is needed: the
property it violates is the one `CompletionMeansDone` proves under the assumption.
Without faults, as in the `FLAG_BLOCK_ON_FAULT` build (`MaxFaults = 0`), the
assumption is vacuous.

*Mixing build* (`MixingBatchProofs`, also under `NoOvertaking`): `RingInv` and
`MixInv`, the counterpart of `OpInv` in which an operation may also wait in the
redistribute buffer. `RedistributeInv` is part of it; `InOnePlace` and the
refinement of the same `BatchService` follow. The heart is the pop loop: `pops` is
a recursive function, and `PopAll` shows that along any sequence of pops the
entries handed out and those still in the stacks are together those pushed, each
once, with the credits in step. That the recursive functions of the model satisfy
their equations is itself a lemma (`Iteration` in `Recursion`, by `AllNat`, from the
least element of a set of numbers).

*Single operations* (`SingleOpProofs`): `Polling` shows `PollInv` for every client
and device, with no assumption: a finished operation is not with the device, a
faulted one is never forgotten, an error never counts as success. `Untouched`
follows: the client changes neither descriptor nor record nor memory while the
device owns them. `MemoryRight` shows that results are as promised and that only
the destination changes (`NothingElseWritten` states the second part by itself).
Its invariant `MemInv` (`MemoryInvariant`) says: the descriptor is the end
of the request (`Fits`), and every byte that is not left to be written has the
value that was promised. Touching may put zeros into the bytes that are left,
which is why the invariant says nothing about those. The theorems assume
`SafeRequests`, in every build: lengths fit 32 bits; moves are disjoint, inside
memory, and not shorter than the prefix of the aligned build; fills begin at a word
and have a prefix of whole words, or have one byte value and a prefix that is whole
words or at least one. Section 6 shows what happens outside. `ComparesRight` is
`CompareInStep`, by `CompareInv`, for all requests whose length fits 32 bits: as long
as the pieces of a comparison begin in step with its pattern, those that are over
found no difference, and the last one reports the first, a least element. It is not
`CompareAsPromised`: a pattern that a fault brings out of step gives a wrong
answer (finding 6), and the offset is that within the last piece (finding 3).
`CompareInStep` says which requests cannot get out of step (`StaysInStep`), and
that any other is right if its last piece began in step, as one does that was not
resumed.

*Batches with bytes* (`BatchDataProofs`): `MemoryAsExpected` and `TouchesOwn`, by
`DataInv`: the client submits what is independent of what is pending
(`ClientWaits`), every descriptor is what is left of an accepted operation and no
source of one is written by another (`DescriptorsFit`, `LeftOf`), and every byte no
descriptor has yet to write is right (`RestIsRight`). The device may run the
descriptors of a batch in any order and stop each at any page. The theorems assume
`SafeRequests` of `BatchDataInv`: disjoint moves not shorter than their prefix,
fills from a word boundary or with one byte value, and operations whose two
operands `resolve_error` can tell apart (`TellsSides`). It is a condition on
`Requests`, and those of the run `parts` satisfy it (`FarAssumption` of `MCParts`,
which TLC evaluates). TLC found `DataInv` invariant on that instance before it was
proved.

*Pure batch* (`ProgramProofs`): `PureBatchRight` for any client and any number of
tasks, by `PureInv`: flags and records tell which batches the device has (`Polled`), an
operation is in one descriptor and will not run again (`OnePlace`), and what a
`check()` will answer for has been executed or is among what the device was told
(`HeldKept`).

*Rounds of `ooo_test`* (`ProgramProofs`): `OooRoundsCorrect` is `OooRoundsRight`. The
steps of `ooo_test` are steps of a client of the pure batch, so `PureInv` holds; on
top of it `OooInv` says that the tasks behind the one that is filled are empty and
those before it full (`FilledBefore`), and that a drain leaves empty tasks behind
(`DrainedBehind`), whether the scan stopped early or not. With no task submitted,
nothing is with the device, and `HeldKept` leaves only what was executed.
`OooAssumption` is that there are tasks enough for a round: the code has 2000 tasks
of 32 for its 40000 operations.

*Speed tests* (`CopyingProofs`): `SpeedTestsRight` is `WholeListTimed` for lists
of any length and rings of any positive size (`SpeedTestAssumption`). Its invariant:
while the clock runs, every copy before `id` has moved or is in flight, and each
copy in flight belongs to an object of the ring (`CopiesAccounted`); a loop over
single operations waits for the object before it submits, so no submission is
refused.

*File, vector, migration* (`CopyingProofs`): `PmemFileCorrect`, `VectorCorrect` and
`MigrationCorrect` have invariants of one shape. What is in flight is a copy the
program meant, from a source that does not change (`PmemOpen`, `BeingMoved`,
`MigrationTypes`); and whatever has been submitted is in its place or in flight
(`PmemData`, `BeingMoved`), or still in the queue of pieces (`Accounted`). So when
`wait()` has left nothing in flight, all is in its place, and what is unmapped,
freed or checked next is not being written or read. Tasks of a migration may share
pages, so a unit of a destination is only known to hold that unit of the source of some
task to that page. `UpAbove` is the rounding of the
file's size, `PiecesCover` that equal pieces of a huge page leave the remainder
only. What `Copies` says of the device is assumed: copies are done in any order,
each in one step.

*Coroutines* (`CopyingProofs`): `CoroShuffleCorrect` is `CoroShuffleRight` for any
numbers of coroutines, groups and elements and any size of buffer. The slots of the
buffers below `buffer_cnt` and of the groups below `len` hold, once the copies in
flight to them have landed, the elements submitted so far, each in one place
(`CoroKept`), and a copy in flight goes to such a slot, from one that is not written
(`CoroFlight`). A worker beyond the barrier has counted, and so has everyone else
(`CoroCounted`), hence `capacity` is the number of elements of a group;
`GroupsFit` makes what has been pushed and what is about to be fit into it.

*Merge sort* (`CopyingProofs`): `MergeSortCorrect` is `MergeSortRight` for strings of
any number and keys. While a pass is made, there is a numbering of the strings taken
from the two runs (`Numbers`) such that each place of `now` holds its string or has
the copy of it in flight (`Moves`), in an order no head of a run goes below
(`NowSorted`); `TakeLeft` and `TakeRight` are cases of one lemma, `Takes`. When
`wait()` has returned the numbering is a permutation, and composed with those of
the passes before it shows that the strings are still those of the input
(`PreKeeps`). That a segment begins at a multiple of `2 * seglen` (`Heads`) makes the
comparisons within a run those that `PreSorted` promises.

*Shuffle* (`ProgramProofs`): `ShuffleCorrect` is both halves of
`ThreadShuffleRight`, copies apart (`ExtentsApart`) and pools complete
(`PoolsTiled`), for any number of threads, strings and rounds. Its invariant
`ShuffleInv`: the indices given out are those below the pool's counter, once each
(`Indexed`); the room given out tiles the pool up to the other counter (`Tiled`),
although a thread holds room before it has an index and two threads may get them
in different orders; and each recorded string has been copied or has a copy in
flight whose thread is not joined (`InFlight`), which is what makes it safe to set
the counters back to 0 for the next round.

*Allocator* (`PartsProofs`): `AllocInv` for pools, leaves and alignments of any
power of two. Its heart is `describes`: a node that no pending mark above it hides
tells the longest free run of its interval and those at its ends, and a marked
interval is free, or taken, as a whole. A call changes nodes below one node only;
the lemmas `DescribesFrame` and `UnderApart` say that the rest goes on describing
what it did. `MarkingRight` and `FindingRight` follow the two descents by induction
over the level; that the recursive functions exist at every level is `LevelsExist`.
Blocks are whole leaves, so free runs of bytes begin and end at leaves, and the
root's `len` is that of the longest run of leaves (`RootAlwaysKnows`).
`BlocksAlwaysDisjoint` follows because what `_find` returns is free and long enough
to be aligned, `AllocateAnswers` because it returns -1 only if the root's `len` is
too short. `TreeDescribesFree` is the invariant itself. Sizes are not assumed to be
multiples of the leaf: `allocate` rounds them up, as alignments are.

*Agent* (`PartsProofs`): `AgentDealsRight` is `QueuesDealtRight` for any machine, any
number of threads and any interleaving, also in the child of a fork. `AgentInv`
counts tickets: what a counter has been drawn to is the queues handed out and the
threads that hold a device and have no queue of it yet (`TicketsDealt`), and of the
first c tickets of a counter modulo n each of the n gets its `Share`, which differ
by one at most. `OneConstructs` and `ForkedAlone` are the phases of `call_once` and
of `DSAinit_new_agent`: no thread uses an agent while another is made.

*CPU loops* (`BatchDataProofs`): `CpuLoopsRight` is `CpuDoesTheSame` for any length,
alignment and contents, and words and lines of any size. A byte is in a word or odd
by its quotient; the loop unrolled four times stops within the words
(`UnrolledStops`); the first byte that differs is in the first word that does
(`MatchedByWords`); and the lines written back are those of the first byte to the
last (`FlushLines`).

*Set-up script* (`ProgramProofs`): `SetupCorrect` is `SetupRight` for any device and
any sequence of runs, each ended by itself or interrupted between any two commands.
A run that unbinds builds what it was asked for step by step (`Unbinding`): queues
off, engines freed, sizes zeroed, then the first `nth` engines assigned and the first
`nth` queues configured; the device refuses none of them, as the queues before have
claimed `nth` times the size of one (`Claimed`, by induction). `Serving` holds of all
runs: a queue with a size has an engine in its group, except while a run takes both
away. `SetupAssumption` says that the device has at most the eight queues the script
enables and that who asks for queues asks for an engine. TLC found the invariant
`SetupInv` on the instance of `programs` before it was proved.

*Page-fault experiments* (`ProgramProofs`): `FaultsCorrect` is `FaultsAsStated` for
arrays, tasks and huge pages of any size, with `FaultBenchAssumption`: a huge page
(2 MB, 1 GB) is a whole number of tasks (32 KB). The page the device is at and the
page the CPU taps next move independently. The invariant `FaultInv` says of the
methods that should meet no fault that each page which is tapped by now, or was
filled before, is mapped for what the operation does to it (`NoFaults`), and that a
task is submitted only after its pages are tapped, by themselves or by the first page
of the task when they share a huge page (`TaskInHugePage`); of the others, that each
page not done yet still has its fault ahead of it, in one array, and each page done
has had it (`FaultEach`). A page once mapped stays mapped (`MappedReady`). Taps
store zeros, so the result also needs that no page is tapped after it was done
(`ResultSoFar`). TLC checked the invariant on five sizes before it was proved.

Only model-checked: all liveness; of the programs, the lists of the speed tests
(`ListsRight`: sums, shuffles and recursive functions over sequences of any length);
of single fills, a pattern rotated by half a word. Overlapping moves and whatever
else is outside `SafeRequests` is neither checked nor proved, but for the violations
of section 6.

## 6. What the models show about the code

1. `collect()` reads the status of a batch again after it resubmitted the batch
   (`dsa_batch_task.cpp:458-461`). If the batch has finished by then, the slot
   at `q_idx` is released for another batch, and a later `wait()` can return
   with a batch in flight (`batch_retry_race`).
2. A fill that is resumed after a number of bytes that is not a multiple of 8
   goes on with the wrong byte of its pattern (`dsa_task.cpp:122`,
   `op_resumed_fill`).
3. `compare_differ_offset()` is relative to the last piece after a page fault
   (`dsa_op.cpp:160`, `op_compare_offset`). `compare_res()` is right but for 6.
4. The leaf test of the allocator never holds (`dsa_allocator.cpp:109`), so a
   request for one leaf writes nodes behind the array (`allocator_leaf`).
   `parts` counts those words as the allocator's own.
5. `resolve_error` guesses which operand faulted from page numbers alone
   (`dsa_batch_task.cpp:308`), and the addresses it starts from are stored
   crossed (lines 107-108). A write fault of a move whose destination begins in
   the page after its source is taken for one of the source, and touching then
   writes zeros into the source (`batch_touch_source`).
6. A comparison with a pattern that is resumed after a number of bytes that is not
   a multiple of 8 begins its pattern anew (`dsa_task.cpp:130`), so `compare_res()`
   says of a region that matches that it differs, or the other way round
   (`op_resumed_compare`). Faults are at page boundaries: it takes a source off a
   word boundary and a pattern of different bytes.
7. `pipeline_mc_plus_inbatch` leaves small descriptors out when the big ones run
   out, allocates the sum of what is left (lines 48-56), and keeps the offsets of the
   whole layout (95-102): copies go beyond the arrays (`inbatch_overflow`). With no
   more small descriptors than big ones, as by default, none is left out (`ListsRight`).

Known limits met while modelling, with no run of their own:

* In the aligned build the pattern of a fill with an unaligned destination is
  rotated the wrong way (`dsa_op.cpp:48`), and a prefix shorter than 8 bytes
  starts its last store before the destination (line 49).
* In the aligned build a move shorter than its prefix copies the whole prefix
  and its length wraps (`dsa_op.cpp:79-83`); the device then rejects the
  descriptor and the process exits.
* Touching writes zeros into the destination before the source is read
  (`dsa_task.cpp:206`), so long moves must not overlap.
* `sync_*` ignores that `async_*` refused the operation (`dsa_op.cpp:116-139`).
* `do_op()` resets `last_fault_addr` (`dsa_task.cpp:223`), so the branch for
  frequent page faults (line 166) is never taken.
* `DSA_pure_batch_task`: what is added while the batch is being done is forgotten
  when it succeeds (line 214); `do_op()` on an empty batch submits it.
* `ooo_test`, method 0, leaves tasks alone that were never submitted; it deletes
  fewer tasks than it created.
* `mergesort_demo`: the loop ends at `seglen + 1 >= size`, so of 2^k + 1 strings
  the last may stay unsorted.
* `coro_demo`: touching runs one byte beyond the buffer (`j <= siz`); what is left at
  the end is offloaded group by group, empty groups as well (line 135). The model takes
  a copy of length 0 for one that copies nothing.
* `pmem_demo`: closing does not drain; the caller does.
* `shuffle_dsa`: the strings to shuffle are in `memory_pool_thr`, which is also
  where they are shuffled to (lines 119 and 140); the check compares hash values
  that are copied along, so it passes.
* `page_mig_dsa`: 2 MiB / 10 leaves 2 bytes of a huge page behind. Pages are drawn
  with replacement (lines 79-86): of 100000 small pages some 1200 share their
  destination, which then holds the page that is copied last. `check_correct` would
  report both if the contents differed; all pages hold the same byte.
* `memfill_cpu` and `compval_cpu` shift the pattern by 8i bits also for i >= 8
  (`dsa_cpupath.cpp:24`, `:63`), which C++ leaves undefined; `CpuPath` takes it
  modulo the word, as the processor does.
* `FaultBench` is about the default build: with `INTERLEAVED_PAGEFAULT_ENABLE` the
  library touches pages too, and the experiments meet fewer faults.
* `vector_dsa`: the destructor uses `delete[]` on memory of `malloc`.
* `DSA_speed` checks its result up to an `int` that 4 GiB truncates to 0;
  `alignment_speed` looks at 32 of its 128 operations.
* `pipeline_mc` with `mix_len` 0 never ends. `desc_speed` of
  `pipeline_mc_plus_inbatch` (line 86) divides by the descriptors asked for, also when
  some are left out.
* `setup_dsa.sh`: a run that was interrupted after its reset, followed by one
  with `-b 1`, enables queues no engine serves (`QueuesServed` excludes it).
  `OneRunIsEnough` is about runs without `-b` and without `-q`.
* `setup_dsa.sh`: the loops of `configure` (line 107) and of `assign_free_engine`
  (line 34) share the variable `i`, so the count of engines jumps to the number of
  the one just assigned. With engine 0 in another group, `-e2 -b0` assigns only one
  engine; and with `-b0` on an enabled device, which refuses each assignment, the
  loop goes on for ever if the first free engine has a number below `num_eng - 1`
  (`AssignEngine` has both; `OneRunIsEnough` is about runs without `-b`).
* `mutex_test`: the barrier is reset by stores that race with the next round's
  increments; if one is lost all threads spin for ever.

## 7. Not modelled

* `libaccel-config`, configuration files of `setup_dsa.sh`, removal of the driver.
* Several threads on one object or one allocator: the code has no locks and
  expects none to be needed.
* `mutex_test.cpp` and the experiments that only time one call in a loop.
* Destructors, statistics, printing, the wrappers of the C interface.

## 8. Plan

Done: the engine, in both builds, with its refinement of `BatchService` proved;
single operations with memory and comparisons, batches with bytes, the allocator,
the agent, the CPU loops, the pure batch and its rounds, the speed tests, the mapped
file, the vector, the migration, the merge sort, both shuffles, the set-up script and
the page-fault experiments proved; the lists of the speed tests and liveness
model-checked.

Left: the parts of section 7.

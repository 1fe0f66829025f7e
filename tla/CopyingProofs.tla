------------------------------ MODULE CopyingProofs ------------------------------
(***************************************************************************)
(* The programs that give copies to the device and go on: the file of      *)
(* pmem_demo, the vector of vector_dsa, the pages of page_mig_dsa, the     *)
(* lists of the speed tests, the coroutines of coro_demo and the strings   *)
(* of mergesort_demo.  None of them frees, unmaps, reuses, reads, or stops *)
(* the clock before the copies are made, for any sizes.                    *)
(***************************************************************************)
EXTENDS PmemFile, Vector, Migration, SpeedTest, CoroShuffle, MergeSort,
        FiniteSetTheorems, TLAPS

-----------------------------------------------------------------------------
(* The speed tests.                                                          *)

Kinds == {"batch", "op", "sync", "cpu"}
LoopOK == loop.kind \in Kinds /\ loop.objects \in Nat \ {0}

\* While the clock runs, every copy before id is in flight or done; when it does
\* not, nothing is in flight.
CopiesAccounted ==
  /\ in_flight \subseteq (0 .. loop.objects - 1) \X (0 .. id - 1)
  /\ clock = "on" => moved \union {f[2] : f \in in_flight} = 0 .. id - 1
  /\ clock = "off" => in_flight = {}

SpeedInv ==
  /\ LoopOK
  /\ cnt \in Nat /\ id \in 0 .. cnt /\ clock \in {"on", "off"}
  /\ CopiesAccounted
  /\ WholeListTimed

LEMMA SpeedStarts == ASSUME TestInit PROVE SpeedInv
<1> USE SpeedTestAssumption DEF TestInit
<1>1. PICK t \in Tests : /\ test = t[1] /\ test_set = t[2] /\ loop \in Loops[t[1]]
                         /\ id = 0 /\ in_flight = {} /\ moved = {} /\ repeat = 0 /\ clock = "off"
  OBVIOUS
<1>2. LoopOK
  BY <1>1 DEF LoopOK, Kinds, Loops, Loop, pipeline_loops, plus_loops, batch_plus_loops, in_batch_loops,
     align_loops, speed_loops, same_mem_loops, engine_ooo_loops, motivation_loops
<1>3. cnt \in Nat /\ id \in 0 .. cnt
  BY <1>1 DEF cnt
<1> QED
  BY <1>1, <1>2, <1>3 DEF SpeedInv, CopiesAccounted, WholeListTimed

LEMMA ObjectInRing == ASSUME SpeedInv PROVE obj \in 0 .. loop.objects - 1
  BY DEF SpeedInv, LoopOK, obj

LEMMA SpeedStep == ASSUME SpeedInv, [TestNext]_svars PROVE SpeedInv'
<1> USE DEF SpeedInv
<1>1. CASE Start
  BY <1>1 DEF Start, LoopOK, cnt, CopiesAccounted, WholeListTimed
<1>2. CASE SubmitNext
  <2> USE <1>2 DEF SubmitNext
  <2>1. obj \in 0 .. loop.objects - 1
    BY ObjectInRing
  <2>2. in_flight' = in_flight \union {<<obj, id>>}
    \* a ring that waits is never refused
    <3>1. loop.kind = "batch" \/ Quiet(obj)
      BY DEF ObjectFree, LoopOK, Kinds, Quiet
    <3> QED
      BY <3>1
  <2>3. LoopOK' /\ cnt' = cnt /\ id' \in 0 .. cnt /\ id' = id + 1
    BY DEF LoopOK, cnt
  <2>4. in_flight' \subseteq (0 .. loop.objects - 1) \X (0 .. id' - 1)
    BY <2>1, <2>2, <2>3 DEF CopiesAccounted, cnt
  <2>5. {f[2] : f \in in_flight'} = {f[2] : f \in in_flight} \union {id}
    <3> DEFINE c == <<obj, id>>
    <3>1. c[2] = id /\ in_flight' = in_flight \union {c}
      BY <2>2
    <3> HIDE DEF c
    <3> QED
      BY ONLY <3>1
  <2>6. moved' \union {f[2] : f \in in_flight'} = 0 .. id' - 1
    BY <2>3, <2>5 DEF CopiesAccounted, cnt
  <2> QED
    BY <2>3, <2>4, <2>6 DEF CopiesAccounted, WholeListTimed
<1>3. CASE CopyByCpu
  <2>1. moved' \union {f[2] : f \in in_flight'} = 0 .. id' - 1
    BY <1>3 DEF CopyByCpu, CopiesAccounted, cnt
  <2>2. in_flight' \subseteq (0 .. loop.objects - 1) \X (0 .. id' - 1)
    BY <1>3 DEF CopyByCpu, CopiesAccounted, cnt
  <2> QED
    BY <1>3, <2>1, <2>2 DEF CopyByCpu, LoopOK, cnt, CopiesAccounted, WholeListTimed
<1>4. CASE Stop
  <2>1. in_flight = {}
    BY <1>4 DEF Stop, Quiet, CopiesAccounted
  <2>2. moved = 0 .. cnt - 1
    BY <1>4, <2>1 DEF Stop, CopiesAccounted
  <2> QED
    BY <1>4, <2>1, <2>2 DEF Stop, LoopOK, cnt, CopiesAccounted, WholeListTimed
<1>5. CASE CopyMade
  <2>1. PICK f \in in_flight : in_flight' = in_flight \ {f} /\ moved' = moved \union {f[2]}
                            /\ UNCHANGED <<test, test_set, loop, id, repeat, clock>>
    BY <1>5 DEF CopyMade
  <2>2. clock = "on"
    BY <2>1 DEF CopiesAccounted
  <2>3. moved' \union {g[2] : g \in in_flight'} = moved \union {g[2] : g \in in_flight}
    BY <2>1
  <2> QED
    BY <2>1, <2>2, <2>3 DEF LoopOK, cnt, CopiesAccounted, WholeListTimed
<1>6. CASE UNCHANGED svars
  BY <1>6 DEF svars, LoopOK, cnt, CopiesAccounted, WholeListTimed
<1> QED
  BY <1>1, <1>2, <1>3, <1>4, <1>5, <1>6 DEF TestNext

\* A speed test never takes the time of a list that is not done: no copy is in
\* flight when the clock stops, and none was refused by a busy DSAop.
THEOREM SpeedTestsRight == TestSpec => []WholeListTimed
<1>1. TestInit => SpeedInv
  BY SpeedStarts
<1>2. SpeedInv /\ [TestNext]_svars => SpeedInv'
  BY SpeedStep
<1>3. SpeedInv => WholeListTimed
  BY DEF SpeedInv
<1> QED
  BY <1>1, <1>2, <1>3, PTL DEF TestSpec
-----------------------------------------------------------------------------
(* The mapped file.                                                          *)

\* The copy of the k-th unit of the source.
PieceCopy(k) == Copy("batch", File(k), Source(k))

\* The mapping is the file while there is one.  What is in flight is a copy of
\* appended data, and there is nothing in flight without a mapping.
PmemOpen ==
  /\ at \in {"append", "extend", "unmapped", "closed", "failed"}
  /\ used_size \in 0 .. SourceSize /\ file_size \in Nat /\ used_size <= file_size
  /\ at \in {"append", "extend"} => mapped = file_size
  /\ at \in {"extend", "unmapped"} => grow_to \in Nat /\ grow_to >= used_size
  /\ at \in {"unmapped", "closed", "failed"} => pending = {}
  /\ at = "closed" => file_size = SourceSize
  /\ \A c \in pending : \E k \in 0 .. used_size - 1 : c = PieceCopy(k)

\* The source does not change, and what was appended is in the file or in flight.
PmemData ==
  /\ mem = [p \in DOMAIN mem |-> mem[p]]
  /\ \A k \in 0 .. SourceSize - 1 :
       /\ File(k) \in DOMAIN mem /\ Source(k) \in DOMAIN mem
       /\ mem[Source(k)] = k
  /\ \A k \in 0 .. used_size - 1 : mem[File(k)] = k \/ PieceCopy(k) \in pending

PmemInv == PmemOpen /\ PmemData

LEMMA DivMod ==
  ASSUME NEW y \in Int, NEW a \in Nat \ {0}
  PROVE  y = a * (y \div a) + (y % a) /\ y \div a \in Int /\ y % a \in 0 .. a - 1
  OBVIOUS

LEMMA UpAbove == ASSUME NEW k \in Nat PROVE Up(k) \in Nat /\ Up(k) >= k
<1> DEFINE y == k + extend_size - 1
           q == y \div extend_size
<1>1. extend_size \in Nat \ {0} /\ y \in Nat
  BY PmemAssumption
<1> HIDE DEF y
<1>2. q \in Int /\ \E r \in 0 .. extend_size - 1 : y = extend_size * q + r
  <2>1. y \in Int
    BY <1>1
  <2>2. y = extend_size * q + (y % extend_size) /\ q \in Int /\ y % extend_size \in 0 .. extend_size - 1
    BY <1>1, <2>1, DivMod
  <2> HIDE DEF q
  <2> QED
    BY <2>2
<1> HIDE DEF q
<1>3. q * extend_size \in Int /\ q * extend_size = extend_size * q
  BY <1>1, <1>2
<1>4. q * extend_size >= y - (extend_size - 1)
  BY <1>1, <1>2, <1>3
<1>5. Up(k) = q * extend_size
  BY DEF Up, q, y
<1> QED
  BY <1>1, <1>3, <1>4, <1>5 DEF y

LEMMA FilesApart ==
  \A j, k \in Nat : /\ File(j) # Source(k) /\ (File(j) = File(k) => j = k)
                    /\ (Source(j) = Source(k) => j = k)
  BY DEF File, Source

LEMMA PmemStarts == PmemInit => PmemInv
<1> SUFFICES ASSUME PmemInit PROVE PmemInv
  OBVIOUS
<1> USE DEF PmemInit
<1>1. SourceSize \in Nat /\ extend_size \in Nat
  BY PmemAssumption
<1>2. PmemOpen
  BY <1>1 DEF PmemOpen
<1>3. ASSUME NEW k \in 0 .. SourceSize - 1
      PROVE  File(k) \in DOMAIN mem /\ Source(k) \in DOMAIN mem /\ mem[Source(k)] = k
  <2>1. k \in 0 .. MaxSize - 1
    BY <1>1, UpAbove DEF MaxSize
  <2> QED
    BY <2>1 DEF File, Source
<1>4. mem = [p \in DOMAIN mem |-> mem[p]] /\ 0 .. used_size - 1 = {}
  OBVIOUS
<1> QED
  BY <1>2, <1>3, <1>4 DEF PmemInv, PmemData

\* The device writes what it reads from the source into the file.
LEMMA PmemPerforms == ASSUME PmemInv, Perform, UNCHANGED pmem PROVE PmemInv'
<1>1. PICK c \in pending : mem' = [mem EXCEPT ![c.dst] = mem[c.src]] /\ pending' = pending \ {c}
  BY DEF Perform
<1>2. PICK k \in 0 .. used_size - 1 : c = PieceCopy(k)
  BY <1>1 DEF PmemInv, PmemOpen
<1>3. used_size \in 0 .. SourceSize /\ SourceSize \in Nat /\ k \in 0 .. SourceSize - 1
  BY <1>2, PmemAssumption DEF PmemInv, PmemOpen
<1>4. c.dst = File(k) /\ c.src = Source(k) /\ mem[Source(k)] = k /\ File(k) \in DOMAIN mem
  BY <1>2, <1>3 DEF PieceCopy, Copy, PmemInv, PmemData
<1>5. /\ mem' = [p \in DOMAIN mem |-> IF p = File(k) THEN k ELSE mem[p]]
      /\ DOMAIN mem' = DOMAIN mem
  BY <1>1, <1>4 DEF PmemInv, PmemData
<1>6. PmemOpen'
  BY <1>1 DEF PmemInv, PmemOpen, pmem
<1>7. \A j \in 0 .. SourceSize - 1 :
        File(j) \in DOMAIN mem' /\ Source(j) \in DOMAIN mem' /\ mem'[Source(j)] = j
  BY <1>3, <1>5, FilesApart DEF PmemInv, PmemData
<1>8. ASSUME NEW j \in 0 .. used_size - 1 PROVE mem'[File(j)] = j \/ PieceCopy(j) \in pending'
  <2>1. j \in 0 .. SourceSize - 1 /\ File(j) \in DOMAIN mem
    BY <1>3 DEF PmemInv, PmemData
  <2>2. CASE j = k
    BY <1>5, <2>1, <2>2
  <2>3. CASE j # k
    <3>1. File(j) # File(k) /\ PieceCopy(j) # PieceCopy(k)
      BY <1>3, <2>1, <2>3, FilesApart DEF PieceCopy, Copy
    <3> QED
      BY <1>1, <1>2, <1>5, <2>1, <3>1 DEF PmemInv, PmemData
  <2> QED
    BY <2>2, <2>3
<1>9. mem' = [p \in DOMAIN mem' |-> mem'[p]]
  BY <1>5
<1> QED
  BY <1>6, <1>7, <1>8, <1>9 DEF PmemInv, PmemData, pmem

LEMMA PmemStep == PmemInv /\ [PmemNext]_pmvars => PmemInv'
<1> SUFFICES ASSUME PmemInv, [PmemNext]_pmvars PROVE PmemInv'
  OBVIOUS
<1>1. PmemOpen /\ PmemData /\ SourceSize \in Nat
  BY PmemAssumption DEF PmemInv
<1>2. CASE AppendPiece
  <2>1. PICK siz \in Lengths \union {SourceSize - used_size} :
          /\ at = "append" /\ siz > 0 /\ used_size + siz <= SourceSize
          /\ IF used_size + siz > file_size
               THEN /\ at' = "extend"
                    /\ grow_to' = file_size + (Up(siz + used_size) - file_size)
                    /\ UNCHANGED <<mem, pending, used_size>>
               ELSE /\ Submit({Copy("batch", File(used_size + k), Source(used_size + k)) : k \in 0 .. siz - 1})
                    /\ used_size' = used_size + siz
                    /\ UNCHANGED <<at, grow_to>>
          /\ UNCHANGED <<file_size, mapped>>
    BY <1>2 DEF AppendPiece
  <2>2. siz \in Nat /\ used_size \in Nat
    <3>1. used_size \in 0 .. SourceSize
      BY <1>1 DEF PmemOpen
    <3>2. SourceSize - used_size \in Nat /\ used_size \in Nat
      BY <1>1, <3>1
    <3> QED
      BY <2>1, <3>2, PmemAssumption
  <2>3. CASE used_size + siz > file_size
    <3>1. Up(siz + used_size) \in Nat /\ Up(siz + used_size) >= siz + used_size
      BY <2>2, UpAbove
    <3>2. grow_to' \in Nat /\ grow_to' >= used_size
      BY <1>1, <2>1, <2>2, <2>3, <3>1 DEF PmemOpen
    <3>3. PmemOpen'
      BY <1>1, <2>1, <2>3, <3>2 DEF PmemOpen
    <3> QED
      BY <1>1, <2>1, <2>3, <3>3 DEF PmemInv, PmemData
  <2>4. CASE ~(used_size + siz > file_size)
    <3> DEFINE new == {Copy("batch", File(used_size + k), Source(used_size + k)) : k \in 0 .. siz - 1}
    <3>1. /\ pending' = pending \union new /\ mem' = mem
          /\ used_size' = used_size + siz /\ UNCHANGED <<at, grow_to, file_size, mapped>>
      BY <2>1, <2>4 DEF Submit
    <3>2. \A c \in new : \E k \in 0 .. used_size' - 1 : c = PieceCopy(k)
      <4> SUFFICES ASSUME NEW k \in 0 .. siz - 1
                   PROVE  \E j \in 0 .. used_size' - 1 : PieceCopy(used_size + k) = PieceCopy(j)
        BY DEF PieceCopy
      <4>1. used_size + k \in 0 .. used_size' - 1
        BY <2>2, <3>1
      <4> QED
        BY <4>1
    <3>3. \A c \in pending : \E k \in 0 .. used_size' - 1 : c = PieceCopy(k)
      BY <1>1, <2>2, <3>1 DEF PmemOpen
    <3>4. ASSUME NEW j \in 0 .. used_size' - 1 PROVE mem[File(j)] = j \/ PieceCopy(j) \in pending'
      <4>1. CASE j < used_size
        BY <1>1, <2>2, <3>1, <4>1 DEF PmemData
      <4>2. CASE ~(j < used_size)
        <5>1. j - used_size \in 0 .. siz - 1 /\ used_size + (j - used_size) = j
          BY <2>2, <3>1, <4>2
        <5>2. PieceCopy(j) \in new
          BY <5>1 DEF PieceCopy
        <5> QED
          BY <3>1, <5>2
      <4> QED
        BY <4>1, <4>2
    <3> HIDE DEF new
    <3>5. PmemOpen'
      BY <1>1, <2>1, <2>2, <2>4, <3>1, <3>2, <3>3 DEF PmemOpen
    <3> QED
      BY <1>1, <3>1, <3>4, <3>5 DEF PmemInv, PmemData
  <2> QED
    BY <2>3, <2>4
<1>3. CASE Unmap
  <2>1. pending = {}
    BY <1>1, <1>3 DEF Unmap, Drained, Finished, PmemOpen, PieceCopy, Copy
  <2> QED
    BY <1>1, <1>3, <2>1 DEF Unmap, PmemInv, PmemOpen, PmemData
<1>4. CASE Map
  <2> DEFINE touched(k) == k >= file_size /\ k < grow_to
                           /\ (k = grow_to - 1 \/ (k - file_size) % Stride = 0)
  <2>1. /\ mem' = [p \in DOMAIN mem |-> IF p[1] = "file" /\ touched(p[2]) THEN Touched ELSE mem[p]]
        /\ at = "unmapped" /\ at' = "append" /\ file_size' = grow_to /\ mapped' = grow_to
        /\ UNCHANGED <<pending, used_size, grow_to>>
    BY <1>4 DEF Map
  <2>2. \A k \in 0 .. used_size - 1 : ~touched(k)
    BY <1>1 DEF PmemOpen
  <2> HIDE DEF touched
  <2>3. /\ \A k \in 0 .. SourceSize - 1 : mem'[Source(k)] = mem[Source(k)]
        /\ \A k \in 0 .. used_size - 1 : mem'[File(k)] = mem[File(k)]
        /\ DOMAIN mem' = DOMAIN mem /\ mem' = [p \in DOMAIN mem' |-> mem'[p]]
    <3>1. \A k \in 0 .. used_size - 1 : k \in 0 .. SourceSize - 1
      BY <1>1 DEF PmemOpen
    <3>2. DOMAIN mem' = DOMAIN mem /\ mem' = [p \in DOMAIN mem' |-> mem'[p]]
      BY <2>1
    <3>3. ASSUME NEW k \in 0 .. SourceSize - 1 PROVE mem'[Source(k)] = mem[Source(k)]
      <4>1. Source(k) \in DOMAIN mem /\ Source(k)[1] # "file"
        BY <1>1 DEF PmemData, Source
      <4> QED
        BY <2>1, <4>1
    <3>4. ASSUME NEW k \in 0 .. used_size - 1 PROVE mem'[File(k)] = mem[File(k)]
      <4>1. File(k) \in DOMAIN mem /\ File(k)[2] = k
        BY <1>1, <3>1 DEF PmemData, File
      <4> QED
        BY <2>1, <2>2, <4>1
    <3> QED
      BY <3>2, <3>3, <3>4
  <2>4. PmemOpen'
    BY <1>1, <2>1 DEF PmemOpen
  <2> QED
    BY <1>1, <2>1, <2>3, <2>4 DEF PmemInv, PmemData
<1>5. CASE MapFails
  BY <1>1, <1>5 DEF MapFails, PmemInv, PmemOpen, PmemData
<1>6. CASE Close
  <2>1. pending = {}
    BY <1>1, <1>6 DEF Close, Drained, Finished, PmemOpen, PieceCopy, Copy
  <2> QED
    BY <1>1, <1>6, <2>1 DEF Close, PmemInv, PmemOpen, PmemData
<1>7. CASE PmemDevice
  BY <1>7, PmemPerforms DEF PmemDevice
<1>8. CASE UNCHANGED pmvars
  BY <1>1, <1>8 DEF pmvars, pmem, PmemInv, PmemOpen, PmemData
<1> QED
  BY <1>2, <1>3, <1>4, <1>5, <1>6, <1>7, <1>8 DEF PmemNext

\* Growing the file waits for the copies in flight and loses none of the data
\* that was appended, and what is closed is the whole file: for any lengths,
\* whatever is touched, and whether the mapping fails or not.
THEOREM PmemFileCorrect == PmemSpec => []PmemFileRight
<1>1. PmemInv => PmemFileRight
  <2> SUFFICES ASSUME PmemInv PROVE InsideTheMapping /\ AppendedIsKept
    BY DEF PmemFileRight
  <2>1. PmemOpen /\ PmemData
    BY DEF PmemInv
  <2>2. InsideTheMapping
    <3> SUFFICES ASSUME NEW c \in pending PROVE c.dst[2] < mapped
      BY DEF InsideTheMapping
    <3>1. PICK k \in 0 .. used_size - 1 : c = PieceCopy(k)
      BY <2>1 DEF PmemOpen
    <3>2. c.dst[2] = k
      BY <3>1 DEF PieceCopy, Copy, File
    <3>3. mapped = file_size
      BY <2>1 DEF PmemOpen
    <3> QED
      BY <2>1, <3>2, <3>3 DEF PmemOpen
  <2>3. AppendedIsKept
    BY <2>1 DEF AppendedIsKept, PmemOpen, PmemData, PieceCopy
  <2> QED
    BY <2>2, <2>3
<1> QED
  BY <1>1, PmemStarts, PmemStep, PTL DEF PmemSpec

-----------------------------------------------------------------------------
(* The vector.                                                               *)

Cells == UNION {Array(c) : c \in Capacities}

VectorTypes ==
  /\ vec_method \in 0 .. 2 /\ expanding \in {"no", "move", "wait"}
  /\ vector_cap \in Capacities /\ vector_len \in 0 .. vector_cap
  /\ contents \in Seq(Nat) /\ Len(contents) = vector_len /\ pushes \in Nat
  /\ mem \in [Cells -> Nat]

\* While an array is moved it is full, every element before expanding_pos has
\* been copied or is being copied, and nothing else is.
BeingMoved ==
  /\ 2 * vector_cap \in Capacities /\ vector_len = vector_cap
  /\ expanding_pos \in 0 .. vector_cap /\ (expanding = "wait" => expanding_pos = vector_cap)
  /\ \A c \in pending : \E k \in 0 .. expanding_pos - 1 : c = Element(k)
  /\ \A k \in 0 .. expanding_pos - 1 :
       Element(k) \in pending \/ mem[<<2 * vector_cap, k>>] = contents[k + 1]

VectorInv ==
  /\ VectorTypes
  /\ \A k \in 0 .. vector_len - 1 : mem[<<vector_cap, k>>] = contents[k + 1]
  /\ IF expanding = "no" THEN pending = {} ELSE BeingMoved

LEMMA CellsOf == \A c \in Capacities : \A k \in 0 .. c - 1 : <<c, k>> \in Cells
  BY DEF Cells, Array

\* A push at the end of the array that is in use from now on.
LEMMA Pushed ==
  ASSUME VectorTypes, NEW m \in [Cells -> Nat], NEW c \in Capacities, vector_len < c,
         \A k \in 0 .. vector_len - 1 : m[<<c, k>>] = contents[k + 1],
         Store(m, c), vector_cap' = c, UNCHANGED vec_method, expanding' = "no", pending' = {}
  PROVE  VectorInv'
<1>1. c \in Nat /\ vector_len \in Nat /\ x \in Nat
  BY VectorAssumption DEF VectorTypes, x
<1>2. <<c, vector_len>> \in Cells
  BY <1>1, CellsOf
<1>3. mem' = [m EXCEPT ![<<c, vector_len>>] = x] /\ vector_len' = vector_len + 1
      /\ contents' = Append(contents, x) /\ pushes' = x
  BY DEF Store
<1>4. /\ contents' \in Seq(Nat) /\ Len(contents') = vector_len'
      /\ \A k \in 1 .. vector_len : contents'[k] = contents[k]
      /\ contents'[vector_len + 1] = x
  BY <1>1, <1>3 DEF VectorTypes
<1>5. mem' \in [Cells -> Nat]
  BY <1>1, <1>3
<1>6. ASSUME NEW k \in 0 .. vector_len PROVE mem'[<<c, k>>] = contents'[k + 1]
  <2>1. CASE k = vector_len
    BY <1>2, <1>3, <1>4, <2>1
  <2>2. CASE k # vector_len
    <3>1. k \in 0 .. vector_len - 1 /\ k + 1 \in 1 .. vector_len /\ <<c, k>> \in Cells
      BY <1>1, <2>2, CellsOf
    <3>2. <<c, k>> # <<c, vector_len>>
      BY <2>2
    <3> QED
      BY <1>2, <1>3, <1>4, <3>1, <3>2
  <2> QED
    BY <2>1, <2>2
<1>7. VectorTypes'
  BY <1>1, <1>3, <1>4, <1>5 DEF VectorTypes
<1>8. \A k \in 0 .. vector_len' - 1 : mem'[<<vector_cap', k>>] = contents'[k + 1]
  <2>1. 0 .. vector_len' - 1 = 0 .. vector_len
    BY <1>1, <1>3
  <2> QED
    BY <1>6, <2>1
<1> QED
  BY <1>7, <1>8 DEF VectorInv

\* The array that is freed is not the one the elements are in.
LEMMA Grown ==
  ASSUME VectorTypes, vector_len = vector_cap, 2 * vector_cap \in Capacities,
         NEW m \in [Cells -> Nat],
         \A k \in 0 .. vector_cap - 1 : m[<<2 * vector_cap, k>>] = contents[k + 1],
         Grow(m), UNCHANGED vec_method, expanding' = "no", pending' = {}
  PROVE  VectorInv'
<1> DEFINE f == Moved(m)
           c == 2 * vector_cap
<1>1. vector_cap \in Nat \ {0}
  BY VectorAssumption DEF VectorTypes
<1>2. f \in [Cells -> Nat]
  BY DEF Moved, Garbage
<1>3. ASSUME NEW k \in 0 .. vector_len - 1 PROVE f[<<c, k>>] = contents[k + 1]
  <2>1. <<c, k>> \in Cells
    BY <1>1, CellsOf
  <2>2. <<c, k>>[1] # vector_cap
    BY <1>1
  <2> QED
    BY <2>1, <2>2 DEF Moved
<1>4. Store(f, c) /\ vector_cap' = c
  BY DEF Grow
<1>5. c \in Capacities /\ vector_len < c
  BY <1>1
<1> HIDE DEF f, c
<1> QED
  BY <1>2, <1>3, <1>4, <1>5, Pushed

\* The device moves an element of the old array to its place in the new one.
LEMMA VectorPerforms == ASSUME VectorInv, Perform, UNCHANGED vector PROVE VectorInv'
<1>1. PICK c \in pending : mem' = [mem EXCEPT ![c.dst] = mem[c.src]] /\ pending' = pending \ {c}
  BY DEF Perform
<1>2. BeingMoved /\ VectorTypes /\ expanding # "no"
  BY <1>1 DEF VectorInv
<1> DEFINE new == 2 * vector_cap
<1>3. PICK k \in 0 .. expanding_pos - 1 : c = Element(k)
  BY <1>1, <1>2 DEF BeingMoved
<1>4. vector_cap \in Nat \ {0} /\ new # vector_cap /\ new \in Capacities
      /\ expanding_pos \in 0 .. vector_cap /\ k \in 0 .. vector_cap - 1 /\ k \in 0 .. vector_len - 1
  BY <1>2, <1>3, VectorAssumption DEF VectorTypes, BeingMoved
<1> HIDE DEF new
<1>5. <<vector_cap, k>> \in Cells /\ mem[<<vector_cap, k>>] = contents[k + 1]
  BY <1>2, <1>4, CellsOf DEF VectorInv, VectorTypes
<1>6. mem' = [mem EXCEPT ![<<new, k>>] = contents[k + 1]]
  BY <1>1, <1>3, <1>5 DEF Element, Copy, new
<1>7. mem' \in [Cells -> Nat]
  BY <1>2, <1>5, <1>6 DEF VectorTypes
<1>8. VectorTypes'
  BY <1>2, <1>7 DEF VectorTypes, vector
<1>9. \A j \in 0 .. vector_len - 1 : mem'[<<vector_cap, j>>] = contents[j + 1]
  <2> SUFFICES ASSUME NEW j \in 0 .. vector_len - 1 PROVE mem'[<<vector_cap, j>>] = mem[<<vector_cap, j>>]
    BY DEF VectorInv
  <2>1. <<vector_cap, j>> # <<new, k>>
    BY <1>4
  <2>2. <<vector_cap, j>> \in Cells
    BY <1>2, <1>4, CellsOf DEF VectorTypes
  <2> QED
    BY <1>2, <1>6, <2>1, <2>2 DEF VectorTypes
<1>10. ASSUME NEW j \in 0 .. expanding_pos - 1
       PROVE  Element(j) \in pending' \/ mem'[<<new, j>>] = contents[j + 1]
  <2>1. <<new, j>> \in Cells /\ j \in Nat
    <3>1. j \in 0 .. new - 1
      BY <1>4 DEF new
    <3> QED
      BY <1>4, <3>1, CellsOf
  <2>2. CASE j = k
    BY <1>2, <1>6, <2>1, <2>2 DEF VectorTypes
  <2>3. CASE j # k
    <3>1. <<new, j>> # <<new, k>> /\ Element(j) # Element(k)
      BY <2>3 DEF Element, Copy
    <3>2. Element(j) \in pending \/ mem[<<new, j>>] = contents[j + 1]
      BY <1>2 DEF BeingMoved, new
    <3> QED
      BY <1>1, <1>2, <1>3, <1>6, <2>1, <3>1, <3>2 DEF VectorTypes
  <2> QED
    BY <2>2, <2>3
<1>11. BeingMoved'
  BY <1>1, <1>2, <1>10 DEF BeingMoved, vector, Element, new
<1> QED
  BY <1>2, <1>8, <1>9, <1>11 DEF VectorInv, vector

LEMMA VectorStarts == VectorInit => VectorInv
<1> SUFFICES ASSUME VectorInit PROVE VectorInv
  OBVIOUS
<1>1. mem \in [Cells -> Nat]
  BY DEF VectorInit, Cells, Garbage
<1> QED
  BY <1>1, VectorAssumption DEF VectorInit, VectorInv, VectorTypes

LEMMA VectorStep == VectorInv /\ [VectorNext]_vvars => VectorInv'
<1> SUFFICES ASSUME VectorInv, [VectorNext]_vvars PROVE VectorInv'
  OBVIOUS
<1>1. VectorTypes /\ vector_cap \in Nat \ {0}
  BY VectorAssumption DEF VectorInv, VectorTypes
<1>2. CASE PushBack
  <2>1. expanding = "no" /\ pending = {} /\ vector_len < vector_cap /\ Store(mem, vector_cap)
        /\ UNCHANGED <<vec_method, vector_cap, pending, expanding>>
    BY <1>1, <1>2 DEF PushBack, May, Full, VectorInv, VectorTypes
  <2> QED
    BY <1>1, <2>1, Pushed DEF VectorInv, VectorTypes
<1>3. CASE GrowByCpu
  <2> DEFINE m == [s \in DOMAIN mem |-> IF s[1] = 2 * vector_cap /\ s[2] < vector_cap
                                        THEN mem[<<vector_cap, s[2]>>] ELSE mem[s]]
  <2>1. expanding = "no" /\ pending = {} /\ vector_len = vector_cap /\ 2 * vector_cap \in Capacities
        /\ Grow(m) /\ UNCHANGED <<vec_method, pending, expanding>>
    BY <1>3 DEF GrowByCpu, May, Full, VectorInv
  <2>2. ASSUME NEW s \in Cells, s[1] = 2 * vector_cap, s[2] < vector_cap
        PROVE  <<vector_cap, s[2]>> \in Cells
    <3>1. s[2] \in 0 .. vector_cap - 1
      BY <1>1, <2>2, VectorAssumption DEF Cells, Array
    <3> QED
      BY <1>1, <3>1, CellsOf DEF VectorTypes
  <2>3. m \in [Cells -> Nat]
    BY <1>1, <2>2 DEF VectorTypes
  <2>4. ASSUME NEW k \in 0 .. vector_cap - 1 PROVE m[<<2 * vector_cap, k>>] = contents[k + 1]
    <3>1. <<2 * vector_cap, k>> \in Cells
      BY <1>1, <2>1, CellsOf
    <3>2. mem[<<vector_cap, k>>] = contents[k + 1]
      BY <2>1 DEF VectorInv
    <3> DEFINE s == <<2 * vector_cap, k>>
    <3>3. s[1] = 2 * vector_cap /\ s[2] = k /\ k < vector_cap
      BY <1>1
    <3>4. s \in DOMAIN mem
      BY <1>1, <3>1 DEF VectorTypes
    <3> HIDE DEF s
    <3>5. m[s] = mem[<<vector_cap, s[2]>>]
      BY <3>3, <3>4
    <3> QED
      BY <3>2, <3>3, <3>5 DEF s
  <2> HIDE DEF m
  <2> QED
    BY <1>1, <2>1, <2>3, <2>4, Grown
<1>4. CASE StartMove
  <2>1. /\ expanding = "no" /\ expanding' = "move" /\ pending = {} /\ expanding_pos' = 0
        /\ vector_len = vector_cap /\ 2 * vector_cap \in Capacities
        /\ UNCHANGED <<mem, pending, vec_method, vector_cap, vector_len, contents, pushes>>
    BY <1>4 DEF StartMove, May, Full, VectorInv
  <2>2. VectorTypes'
    BY <1>1, <2>1 DEF VectorTypes
  <2>3. BeingMoved'
    BY <1>1, <2>1 DEF BeingMoved
  <2> QED
    BY <2>1, <2>2, <2>3 DEF VectorInv
<1>5. CASE Move
  <2> DEFINE n == nxt_pos
             new == {Element(k) : k \in expanding_pos .. n - 1}
  <2>1. /\ expanding = "move" /\ expanding_pos' = n /\ expanding' = (IF n = vector_cap THEN "wait" ELSE "move")
        /\ pending' = pending \union new
        /\ UNCHANGED <<mem, vec_method, vector_cap, vector_len, contents, pushes>>
    BY <1>5 DEF Move, Submit
  <2>2. BeingMoved
    BY <2>1 DEF VectorInv
  <2>3. n \in expanding_pos .. vector_cap
    BY <1>1, <2>2, VectorAssumption DEF nxt_pos, BeingMoved
  <2> HIDE DEF n
  <2>4. VectorTypes'
    BY <1>1, <2>1 DEF VectorTypes
  <2>5. \A k : Element(k)' = Element(k)
    BY <2>1 DEF Element
  <2>6. BeingMoved'
    <3>1. expanding_pos \in 0 .. vector_cap /\ n \in 0 .. vector_cap
      BY <1>1, <2>2, <2>3 DEF BeingMoved
    <3>2. ASSUME NEW c \in pending' PROVE \E k \in 0 .. n - 1 : c = Element(k)
      <4>1. CASE c \in pending
        BY <2>2, <2>3, <3>1, <4>1 DEF BeingMoved
      <4>2. CASE c \in new
        BY <2>3, <3>1, <4>2
      <4> QED
        BY <2>1, <4>1, <4>2
    <3>3. ASSUME NEW k \in 0 .. n - 1
          PROVE  Element(k) \in pending' \/ mem[<<2 * vector_cap, k>>] = contents[k + 1]
      <4>1. k \in 0 .. expanding_pos - 1 \/ k \in expanding_pos .. n - 1
        BY <2>3, <3>1
      <4> QED
        BY <2>1, <2>2, <4>1 DEF BeingMoved
    <3> HIDE DEF new
    <3> QED
      BY <2>1, <2>2, <2>5, <3>1, <3>2, <3>3 DEF BeingMoved
  <2> QED
    BY <2>1, <2>4, <2>6 DEF VectorInv
<1>6. CASE EndMove
  <2>1. expanding = "wait" /\ BeingMoved /\ Grow(mem) /\ UNCHANGED <<pending, vec_method>> /\ expanding' = "no"
    BY <1>6 DEF EndMove, VectorInv
  <2>2. pending = {}
    BY <1>6, <2>1 DEF EndMove, AllMoved, Finished, BeingMoved, Element, Copy
  <2>3. \A k \in 0 .. vector_cap - 1 : mem[<<2 * vector_cap, k>>] = contents[k + 1]
    BY <2>1, <2>2 DEF BeingMoved
  <2> QED
    BY <1>1, <2>1, <2>2, <2>3, Grown DEF BeingMoved, VectorTypes
<1>7. CASE Clear
  BY <1>1, <1>7 DEF Clear, VectorInv, VectorTypes
<1>8. CASE VectorDevice
  BY <1>8, VectorPerforms DEF VectorDevice
<1>9. CASE UNCHANGED vvars
  BY <1>9 DEF vvars, vector, VectorInv, VectorTypes, BeingMoved, Element
<1> QED
  BY <1>2, <1>3, <1>4, <1>5, <1>6, <1>7, <1>8, <1>9 DEF VectorNext

\* A vector holds what was pushed, in order, after any number of pushes and
\* clears, whether the CPU, one operation or a batch moved it, and nothing of
\* the array that was freed is left for the device to read.
THEOREM VectorCorrect == VectorSpec => []VectorKept
<1>1. VectorInv => VectorKept
  <2> SUFFICES ASSUME VectorInv, expanding = "no"
               PROVE  pending = {} /\ [k \in 1 .. vector_len |-> mem[<<vector_cap, k - 1>>]] = contents
    BY DEF VectorKept
  <2>1. contents = [k \in 1 .. vector_len |-> contents[k]]
    BY DEF VectorInv, VectorTypes
  <2>2. ASSUME NEW k \in 1 .. vector_len PROVE mem[<<vector_cap, k - 1>>] = contents[k]
    <3>1. k - 1 \in 0 .. vector_len - 1 /\ (k - 1) + 1 = k
      BY VectorAssumption DEF VectorInv, VectorTypes
    <3> QED
      BY <3>1 DEF VectorInv
  <2> QED
    BY <2>1, <2>2 DEF VectorInv
<1> QED
  BY <1>1, VectorStarts, VectorStep, PTL DEF VectorSpec

-----------------------------------------------------------------------------
(* The migration of pages.                                                   *)

UnitCopy(k, j) == Copy("batch", To(k, j), From(k, j))
UnitsOf(k) == 0 .. tasks[k].len - 1
UnitCopies == UNION {{UnitCopy(k, j) : j \in UnitsOf(k)} : k \in 1 .. tasks_cnt}

\* The unit is one of a task that goes to the page.
Arrived_at(k, j) == \E l \in 1 .. tasks_cnt : To(l, j) = To(k, j) /\ mem[To(k, j)] = From(l, j)

\* What the division of a huge page leaves.
Remainder(k, j) == mig_method = 2 /\ tasks[k].len = HUGE /\ j >= SPLIT * split_len

\* The pieces from p on are still to be submitted.
InPieces(p, c) == \E q \in p .. Len(tasks_splits) : c \in tasks_splits[q]

MigrationTypes ==
  /\ mig_method \in 1 .. 2 /\ tasks \in Seq(Migration_task) /\ i \in 1 .. tasks_cnt + 1
  /\ small_submit \in Nat /\ migration \in {"submit", "done"}
  /\ tasks_splits \in Seq(SUBSET UnitCopies) /\ now_split_id \in 0 .. Len(tasks_splits)
  /\ mig_method = 1 => tasks_splits = <<>>
  /\ pending \subseteq UnitCopies
  /\ DOMAIN mem = Units /\ mem = [u \in Units |-> mem[u]]

\* The pages to be moved stay as they are, and each unit of the pages before the
\* i-th has been copied, is being copied, or waits in a piece.
Accounted ==
  /\ \A k \in 1 .. tasks_cnt : \A j \in UnitsOf(k) : mem[From(k, j)] = From(k, j)
  /\ \A k \in 1 .. i - 1 : \A j \in UnitsOf(k) :
       \/ Arrived_at(k, j) \/ UnitCopy(k, j) \in pending
       \/ InPieces(now_split_id + 1, UnitCopy(k, j)) \/ Remainder(k, j)

MigrationInv ==
  /\ MigrationTypes /\ Accounted
  /\ migration = "done" => pending = {} /\ i > tasks_cnt /\ ~(mig_method = 2 /\ Left)

LEMMA PlacesOf ==
  MigrationTypes =>
    \A k \in 1 .. tasks_cnt : \A j \in UnitsOf(k) :
      From(k, j) \in Units /\ To(k, j) \in Units /\ UnitCopy(k, j) \in UnitCopies
<1> SUFFICES ASSUME MigrationTypes, NEW k \in 1 .. tasks_cnt, NEW j \in UnitsOf(k)
             PROVE  From(k, j) \in Units /\ To(k, j) \in Units /\ UnitCopy(k, j) \in UnitCopies
  OBVIOUS
<1>1. tasks[k] \in Migration_task
  BY DEF MigrationTypes, tasks_cnt
<1>2. tasks[k].len \in {1, HUGE} /\ tasks[k].src \in PoolPages /\ tasks[k].dest \in PoolPages
  BY <1>1 DEF Migration_task
<1>3. j \in 0 .. HUGE - 1 /\ j < tasks[k].len
  BY <1>2, MigrationAssumption DEF UnitsOf
<1>4. From(k, j) \in Units /\ To(k, j) \in Units
  BY <1>2, <1>3 DEF Units, From, To
<1>5. UnitCopy(k, j) \in UnitCopies
  BY DEF UnitCopies
<1> QED
  BY <1>4, <1>5

\* No copy writes to a page to be moved, and copies of different tasks to one
\* unit are of tasks to one page.
LEMMA UnitsApart ==
  \A k, j, l, m : /\ From(k, j) # To(l, m)
                  /\ To(k, j) = To(l, m) => j = m
                  /\ UnitCopy(k, j) = UnitCopy(l, m) => To(k, j) = To(l, m)
  BY DEF From, To, UnitCopy, Copy

\* While the tasks stay as they are.
LEMMA SameTasks ==
  ASSUME UNCHANGED tasks
  PROVE  /\ tasks_cnt' = tasks_cnt /\ UnitCopies' = UnitCopies
         /\ \A k : UnitsOf(k)' = UnitsOf(k)
         /\ \A k, j : /\ From(k, j)' = From(k, j) /\ To(k, j)' = To(k, j)
                      /\ UnitCopy(k, j)' = UnitCopy(k, j)
                      /\ mem' = mem => Arrived_at(k, j)' = Arrived_at(k, j)
  BY DEF tasks_cnt, UnitCopies, UnitCopy, UnitsOf, From, To, Copy, Arrived_at

\* A page, or some of it.
LEMMA TaskCopies ==
  ASSUME NEW k \in 1 .. tasks_cnt, NEW f \in Nat, NEW s \in Nat, MigrationTypes, tasks[k].len \in Nat, f + s <= tasks[k].len
  PROVE  /\ Task(k, f, s) \subseteq UnitCopies
         /\ \A j \in f .. f + s - 1 : UnitCopy(k, j) \in Task(k, f, s)
<1>1. Task(k, f, s) = {UnitCopy(k, j) : j \in f .. f + s - 1}
  BY DEF Task, UnitCopy
<1>2. \A j \in f .. f + s - 1 : j \in UnitsOf(k)
  BY DEF UnitsOf
<1> QED
  BY <1>1, <1>2, PlacesOf

\* The pieces of a huge page are parts of it, and leave a remainder only.
LEMMA PiecesCover ==
  ASSUME MigrationTypes, NEW k \in 1 .. tasks_cnt, tasks[k].len = HUGE
  PROVE  /\ \A j \in 1 .. SPLIT : Task(k, (j - 1) * split_len, split_len) \subseteq UnitCopies
         /\ \A u \in UnitsOf(k) : u < SPLIT * split_len =>
              \E j \in 1 .. SPLIT : UnitCopy(k, u) \in Task(k, (j - 1) * split_len, split_len)
<1> DEFINE l == split_len
<1>1. HUGE \in Nat /\ SPLIT \in Nat \ {0}
  BY MigrationAssumption
<1>2. l \in Nat /\ SPLIT * l <= HUGE
  <2>1. HUGE = SPLIT * l + (HUGE % SPLIT) /\ l \in Int /\ HUGE % SPLIT \in 0 .. SPLIT - 1
    BY <1>1, DivMod DEF split_len
  <2>2. l >= 0
    BY <1>1 DEF split_len
  <2> HIDE DEF l
  <2> QED
    BY <1>1, <2>1, <2>2
<1> HIDE DEF l
<1>3. ASSUME NEW j \in 1 .. SPLIT
      PROVE  (j - 1) * l \in Nat /\ (j - 1) * l + l <= HUGE
  <2>1. (j - 1) * l + l = j * l /\ (j - 1) * l >= 0 /\ j * l <= SPLIT * l
    BY <1>1, <1>2
  <2> QED
    BY <1>1, <1>2, <2>1
<1>4. ASSUME NEW u \in UnitsOf(k), u < SPLIT * l
      PROVE  \E j \in 1 .. SPLIT : u \in (j - 1) * l .. (j - 1) * l + l - 1
  <2>1. u \in Nat /\ l \in Nat \ {0}
    BY <1>1, <1>2, <1>4 DEF UnitsOf
  <2> DEFINE q == u \div l
  <2>2. q \in Int /\ u = l * q + (u % l) /\ u % l \in 0 .. l - 1
    <3>1. u \in Int
      BY <2>1
    <3> QED
      BY ONLY <2>1, <3>1, DivMod
  <2>3. PICK r \in 0 .. l - 1 : u = l * q + r
    BY <2>2
  <2>4. q \in Int
    BY <2>2
  <2> HIDE DEF q
  <2>5. q >= 0
    BY <2>1, <2>3, <2>4
  <2>6. q < SPLIT
    <3> SUFFICES ASSUME q >= SPLIT PROVE FALSE
      BY <1>1, <2>4
    <3>1. l * q = l * SPLIT + l * (q - SPLIT) /\ l * (q - SPLIT) >= 0
      BY <1>1, <2>1, <2>4
    <3> QED
      BY <1>1, <1>4, <2>1, <2>3, <2>4, <3>1
  <2>7. q + 1 \in 1 .. SPLIT /\ ((q + 1) - 1) * l = l * q
    BY <1>1, <2>1, <2>4, <2>5, <2>6
  <2>8. u \in l * q .. l * q + l - 1
    BY <2>1, <2>3, <2>4
  <2> QED
    BY <2>7, <2>8
<1> QED
  BY <1>1, <1>2, <1>3, <1>4, TaskCopies DEF l

\* Pages, or pieces, that are submitted may be taken from what is left.
LEMMA Submitting ==
  ASSUME MigrationInv, migration = "submit", NEW cs \in SUBSET UnitCopies, Submit(cs),
         UNCHANGED <<mig_method, tasks, tasks_splits, migration>>,
         i' \in {i, i + 1}, i' <= tasks_cnt + 1,
         i' = i + 1 => \A j \in UnitsOf(i) : UnitCopy(i, j) \in cs,
         now_split_id' \in {now_split_id, now_split_id + 1}, now_split_id' <= Len(tasks_splits),
         now_split_id' = now_split_id + 1 => tasks_splits[now_split_id + 1] \subseteq cs,
         small_submit' \in Nat
  PROVE  MigrationInv'
<1>1. MigrationTypes /\ Accounted
  BY DEF MigrationInv
<1>2. pending' = pending \union cs /\ mem' = mem
  BY DEF Submit
<1>3. tasks_cnt' = tasks_cnt /\ UnitCopies' = UnitCopies /\ \A k : UnitsOf(k)' = UnitsOf(k)
  BY SameTasks
<1>4. tasks_cnt \in Nat /\ i \in 1 .. tasks_cnt + 1 /\ now_split_id \in Nat /\ Len(tasks_splits) \in Nat
  BY <1>1 DEF MigrationTypes, tasks_cnt
<1>5. MigrationTypes'
  BY <1>1, <1>2, <1>3, <1>4 DEF MigrationTypes
<1>6. ASSUME NEW k \in 1 .. i' - 1, NEW j \in UnitsOf(k)
      PROVE  \/ Arrived_at(k, j) \/ UnitCopy(k, j) \in pending'
             \/ InPieces(now_split_id' + 1, UnitCopy(k, j)) \/ Remainder(k, j)
  <2>1. CASE k = i
    <3>1. i' = i + 1
      <4>1. i \in Int
        BY <1>4
      <4>2. i \notin 1 .. i - 1
        BY <4>1
      <4>3. i' # i
        BY <4>2, <1>6, <2>1
      <4> QED
        BY <4>3
    <3>2. UnitCopy(k, j) \in cs
      BY <1>6, <2>1, <3>1
    <3> QED
      BY <1>2, <3>2
  <2>2. CASE k # i
    <3>1. k \in 1 .. i - 1
      <4>1. i \in Int /\ (i' = i \/ i' = i + 1)
        BY <1>4
      <4>2. k \in 1 .. i' - 1
        BY <1>6
      <4> QED
        BY ONLY <2>2, <4>1, <4>2
    <3>2. CASE InPieces(now_split_id + 1, UnitCopy(k, j))
      <4>1. PICK q \in now_split_id + 1 .. Len(tasks_splits) : UnitCopy(k, j) \in tasks_splits[q]
        BY <3>2 DEF InPieces
      <4>2. CASE q \in now_split_id' + 1 .. Len(tasks_splits)
        BY <4>1, <4>2 DEF InPieces
      <4>3. CASE q \notin now_split_id' + 1 .. Len(tasks_splits)
        <5>1. q = now_split_id + 1 /\ now_split_id' = now_split_id + 1
          BY <1>4, <4>3
        <5> QED
          BY <1>2, <4>1, <5>1
      <4> QED
        BY <4>2, <4>3
    <3> QED
      BY <1>1, <1>2, <3>1, <3>2 DEF Accounted
  <2> QED
    BY <2>1, <2>2
<1>7. Accounted'
  <2>1. \A k \in 1 .. tasks_cnt' : \A j \in UnitsOf(k)' : mem'[From(k, j)'] = From(k, j)'
    BY <1>1, <1>2, <1>3, SameTasks DEF Accounted
  <2>2. \A k, j : /\ Remainder(k, j)' = Remainder(k, j) /\ UnitCopy(k, j)' = UnitCopy(k, j)
                 /\ Arrived_at(k, j)' = Arrived_at(k, j)
    BY <1>2, SameTasks DEF Remainder
  <2>3. \A p, c : InPieces(p, c)' = InPieces(p, c)
    BY DEF InPieces
  <2> QED
    BY <1>2, <1>3, <1>6, <2>1, <2>2, <2>3 DEF Accounted, InPieces, Remainder
<1> QED
  BY <1>5, <1>7 DEF MigrationInv

LEMMA MigrationPerforms == ASSUME MigrationInv, Perform, UNCHANGED moving PROVE MigrationInv'
<1>1. PICK c \in pending : mem' = [mem EXCEPT ![c.dst] = mem[c.src]] /\ pending' = pending \ {c}
  BY DEF Perform
<1>2. MigrationTypes /\ Accounted /\ migration # "done"
  BY <1>1 DEF MigrationInv
<1>3. PICK k \in 1 .. tasks_cnt : \E m \in UnitsOf(k) : c = UnitCopy(k, m)
  BY <1>1, <1>2 DEF MigrationTypes, UnitCopies
<1> PICK j \in UnitsOf(k) : c = UnitCopy(k, j)
  BY <1>3
<1>4. mem[From(k, j)] = From(k, j) /\ To(k, j) \in Units
  BY <1>2, PlacesOf DEF Accounted
<1>5. mem' = [mem EXCEPT ![To(k, j)] = From(k, j)]
  BY <1>1, <1>3, <1>4 DEF UnitCopy, Copy
<1>6. UNCHANGED <<tasks_cnt, UnitCopies>> /\ \A l : UnitsOf(l)' = UnitsOf(l)
  BY SameTasks DEF moving
<1>7. DOMAIN mem' = Units /\ mem' = [u \in Units |-> mem'[u]]
        /\ \A u \in Units : mem'[u] = IF u = To(k, j) THEN From(k, j) ELSE mem[u]
  BY <1>2, <1>5 DEF MigrationTypes
<1>8. MigrationTypes'
  BY <1>1, <1>2, <1>6, <1>7 DEF MigrationTypes, moving
<1>9. \A l \in 1 .. tasks_cnt : \A m \in UnitsOf(l) : mem'[From(l, m)] = From(l, m)
  BY <1>2, <1>7, PlacesOf, UnitsApart DEF Accounted
<1>10. ASSUME NEW l \in 1 .. i - 1, NEW m \in UnitsOf(l)
       PROVE  \/ Arrived_at(l, m)' \/ UnitCopy(l, m) \in pending'
              \/ InPieces(now_split_id + 1, UnitCopy(l, m)) \/ Remainder(l, m)
  <2>1. l \in 1 .. tasks_cnt
    BY <1>2 DEF MigrationTypes, tasks_cnt
  <2>2. To(l, m) \in Units
    BY <1>2, <2>1, PlacesOf
  <2>3. \A n \in 1 .. tasks_cnt : To(n, m)' = To(n, m) /\ From(n, m)' = From(n, m)
    BY SameTasks DEF moving
  <2>4. CASE To(l, m) = To(k, j)
    <3>1. m = j /\ To(k, m) = To(l, m) /\ mem'[To(l, m)] = From(k, m)
      BY <1>7, <2>2, <2>4, UnitsApart
    <3> QED
      BY <1>6, <2>1, <2>3, <3>1 DEF Arrived_at
  <2>5. CASE To(l, m) # To(k, j)
    <3>1. UnitCopy(l, m) # c /\ mem'[To(l, m)] = mem[To(l, m)]
      BY <1>7, <2>2, <2>5, UnitsApart
    <3>2. Arrived_at(l, m) => Arrived_at(l, m)'
      BY <1>6, <2>1, <2>3, <3>1 DEF Arrived_at
    <3> QED
      BY <1>1, <1>2, <3>1, <3>2 DEF Accounted
  <2> QED
    BY <2>4, <2>5
<1>11. Accounted'
  <2>1. UNCHANGED <<tasks, i, now_split_id, tasks_splits, mig_method>>
    BY DEF moving
  <2>2. /\ \A l, m : From(l, m)' = From(l, m) /\ UnitCopy(l, m)' = UnitCopy(l, m)
        /\ \A l, m : Remainder(l, m)' = Remainder(l, m)
    BY <2>1, SameTasks DEF Remainder
  <2>3. \A l, m : InPieces(now_split_id + 1, UnitCopy(l, m))' = InPieces(now_split_id + 1, UnitCopy(l, m))
    BY <2>1, <2>2 DEF InPieces
  <2> QED
    BY <1>6, <1>9, <1>10, <2>1, <2>2, <2>3 DEF Accounted
<1> QED
  BY <1>2, <1>8, <1>11 DEF MigrationInv, moving

LEMMA MigrationStarts == MigrationInit => MigrationInv
<1> SUFFICES ASSUME MigrationInit PROVE MigrationInv
  OBVIOUS
<1>1. mig_method \in 1 .. 2 /\ tasks \in Seq(Migration_task) /\ pending = {} /\ i = 1 /\ small_submit = 0
      /\ tasks_splits = <<>> /\ now_split_id = 0 /\ migration = "submit"
  BY MigrationAssumption DEF MigrationInit
<1>2. mem = [u \in Units |-> IF u[1] = 0 THEN u ELSE <<>>]
  BY DEF MigrationInit
<1>3. MigrationTypes
  BY <1>1, <1>2 DEF MigrationTypes, tasks_cnt
<1>4. ASSUME NEW k \in 1 .. tasks_cnt, NEW j \in UnitsOf(k) PROVE mem[From(k, j)] = From(k, j)
  BY <1>2, <1>3, PlacesOf DEF From
<1> QED
  BY <1>1, <1>3, <1>4 DEF MigrationInv, Accounted

LEMMA MigrationStep == MigrationInv /\ [MigrationNext]_mvars => MigrationInv'
<1> SUFFICES ASSUME MigrationInv, [MigrationNext]_mvars PROVE MigrationInv'
  OBVIOUS
<1>1. MigrationTypes /\ Accounted
  BY DEF MigrationInv
<1>2. tasks_cnt \in Nat /\ i \in 1 .. tasks_cnt + 1 /\ now_split_id \in Nat /\ Len(tasks_splits) \in Nat
      /\ now_split_id <= Len(tasks_splits)
  BY <1>1 DEF MigrationTypes, tasks_cnt
<1>3. \A k \in 1 .. tasks_cnt : tasks[k].len \in Nat
  <2>1. \A k \in 1 .. tasks_cnt : tasks[k] \in Migration_task
    BY <1>1 DEF MigrationTypes, tasks_cnt
  <2> QED
    BY <2>1, MigrationAssumption DEF Migration_task
\* the page that is submitted as a whole
<1>4. ASSUME i <= tasks_cnt
      PROVE  Task(i, 0, tasks[i].len) \subseteq UnitCopies /\ \A j \in UnitsOf(i) : UnitCopy(i, j) \in Task(i, 0, tasks[i].len)
  <2>1. i \in 1 .. tasks_cnt /\ tasks[i].len \in Nat /\ 0 + tasks[i].len = tasks[i].len
    BY <1>2, <1>3, <1>4
  <2> QED
    BY <1>1, <2>1, TaskCopies DEF UnitsOf
\* the piece that is submitted next
<1>5. Left => /\ tasks_splits[now_split_id + 1] \subseteq UnitCopies
              /\ now_split_id + 1 <= Len(tasks_splits)
  BY <1>1, <1>2 DEF Left, MigrationTypes
<1>6. CASE Naive
  BY <1>1, <1>2, <1>4, <1>6, Submitting DEF Naive, MigrationTypes
<1>7. CASE Small
  <2> DEFINE piece == (small_submit + 1) % EVERY = 0 /\ Left
             cs == Task(i, 0, tasks[i].len) \union (IF piece THEN tasks_splits[now_split_id + 1] ELSE {})
  <2>1. /\ migration = "submit" /\ i <= tasks_cnt /\ i' = i + 1 /\ small_submit' = small_submit + 1
        /\ Submit(cs) /\ now_split_id' = IF piece THEN now_split_id + 1 ELSE now_split_id
        /\ UNCHANGED <<mig_method, tasks, tasks_splits, migration>>
    BY <1>7 DEF Small
  <2>2. piece => Left
    OBVIOUS
  <2> HIDE DEF piece
  <2>3. cs \in SUBSET UnitCopies /\ \A j \in UnitsOf(i) : UnitCopy(i, j) \in cs
    BY <1>4, <1>5, <2>1, <2>2
  <2>4. piece => tasks_splits[now_split_id + 1] \subseteq cs
    OBVIOUS
  <2> HIDE DEF cs
  <2>5. /\ now_split_id' \in {now_split_id, now_split_id + 1} /\ now_split_id' <= Len(tasks_splits)
        /\ now_split_id' = now_split_id + 1 => tasks_splits[now_split_id + 1] \subseteq cs
    BY <1>2, <1>5, <2>1, <2>2, <2>4
  <2>6. small_submit' \in Nat /\ i' \in {i, i + 1} /\ i' <= tasks_cnt + 1
    BY <1>1, <1>2, <2>1 DEF MigrationTypes
  <2> QED
    BY <2>1, <2>3, <2>5, <2>6, Submitting
<1>8. CASE Rest
  <2> DEFINE cs == tasks_splits[now_split_id + 1]
  <2>1. /\ migration = "submit" /\ Left /\ Submit(cs) /\ now_split_id' = now_split_id + 1
        /\ UNCHANGED <<mig_method, tasks, i, small_submit, tasks_splits, migration>>
    BY <1>8 DEF Rest
  <2>2. cs \in SUBSET UnitCopies /\ now_split_id' <= Len(tasks_splits)
    BY <1>5, <2>1
  <2>3. i' \in {i, i + 1} /\ i' # i + 1 /\ i' <= tasks_cnt + 1 /\ small_submit' \in Nat
    BY <1>1, <1>2, <2>1 DEF MigrationTypes
  <2> QED
    BY <2>1, <2>2, <2>3, Submitting
<1>9. CASE Split
  <2> DEFINE new == [j \in 1 .. SPLIT |-> Task(i, (j - 1) * split_len, split_len)]
  <2>1. /\ migration = "submit" /\ mig_method = 2 /\ i <= tasks_cnt /\ tasks[i].len = HUGE
        /\ tasks_splits' = tasks_splits \o new /\ i' = i + 1
        /\ UNCHANGED <<mem, pending, mig_method, tasks, small_submit, now_split_id, migration>>
    BY <1>9 DEF Split
  <2>2. i \in 1 .. tasks_cnt
    BY <1>2, <2>1
  <2>3. new \in Seq(SUBSET UnitCopies) /\ Len(new) = SPLIT
    BY <1>1, <2>1, <2>2, PiecesCover, MigrationAssumption
  <2>4. \A u \in UnitsOf(i) : u < SPLIT * split_len => \E j \in 1 .. SPLIT : UnitCopy(i, u) \in new[j]
    BY <1>1, <2>1, <2>2, PiecesCover
  <2> HIDE DEF new
  <2>5. /\ tasks_splits' \in Seq(SUBSET UnitCopies) /\ Len(tasks_splits') = Len(tasks_splits) + SPLIT
        /\ \A q \in 1 .. Len(tasks_splits) : tasks_splits'[q] = tasks_splits[q]
        /\ \A q \in 1 .. SPLIT : tasks_splits'[Len(tasks_splits) + q] = new[q]
    <3>1. tasks_splits \in Seq(SUBSET UnitCopies) /\ SPLIT \in Nat
      BY <1>1, MigrationAssumption DEF MigrationTypes
    <3>2. Len(tasks_splits) \in Nat /\ Len(tasks_splits \o new) = Len(tasks_splits) + SPLIT
      BY ONLY <2>3, <3>1
    <3>3. /\ tasks_splits \o new \in Seq(SUBSET UnitCopies)
          /\ \A q \in 1 .. Len(tasks_splits) : (tasks_splits \o new)[q] = tasks_splits[q]
          /\ \A q \in 1 .. SPLIT : (tasks_splits \o new)[Len(tasks_splits) + q] = new[q]
      BY ONLY <2>3, <3>1, <3>2
    <3>4. tasks_splits' = tasks_splits \o new
      BY <2>1
    <3> QED
      BY ONLY <3>2, <3>3, <3>4
  <2>6. UNCHANGED <<tasks_cnt, UnitCopies>> /\ \A k : UnitsOf(k)' = UnitsOf(k)
    BY <2>1, SameTasks
  <2>61. \A k, j : /\ From(k, j)' = From(k, j) /\ UnitCopy(k, j)' = UnitCopy(k, j)
                  /\ Arrived_at(k, j)' = Arrived_at(k, j) /\ Remainder(k, j)' = Remainder(k, j)
    BY <2>1, SameTasks DEF Remainder
  <2>7. SPLIT \in Nat
    BY MigrationAssumption
  <2>8. MigrationTypes'
    BY <1>1, <1>2, <2>1, <2>5, <2>6, <2>7 DEF MigrationTypes
  <2>9. ASSUME NEW k \in 1 .. i' - 1, NEW j \in UnitsOf(k)
        PROVE  \/ Arrived_at(k, j) \/ UnitCopy(k, j) \in pending
               \/ InPieces(now_split_id + 1, UnitCopy(k, j))' \/ Remainder(k, j)
    <3>1. CASE k = i
      <4>1. CASE j < SPLIT * split_len
        <5>1. PICK q \in 1 .. SPLIT : UnitCopy(k, j) \in new[q]
          BY <2>4, <2>9, <3>1, <4>1
        <5>2. Len(tasks_splits) + q \in now_split_id + 1 .. Len(tasks_splits')
          BY <1>2, <2>5, <2>7
        <5>3. UnitCopy(k, j) \in tasks_splits'[Len(tasks_splits) + q]
          BY <2>5, <5>1
        <5> QED
          BY <2>1, <2>61, <5>2, <5>3 DEF InPieces
      <4>2. CASE ~(j < SPLIT * split_len)
        <5>1. j \in Int /\ SPLIT * split_len \in Int
          BY <2>7, MigrationAssumption DEF UnitsOf, split_len
        <5> QED
          BY <2>1, <3>1, <4>2, <5>1 DEF Remainder
      <4> QED
        BY <4>1, <4>2
    <3>2. CASE k # i
      <4>1. k \in 1 .. i - 1
        BY <1>2, <2>1, <3>2
      <4>2. CASE InPieces(now_split_id + 1, UnitCopy(k, j))
        <5>1. PICK q \in now_split_id + 1 .. Len(tasks_splits) : UnitCopy(k, j) \in tasks_splits[q]
          BY <4>2 DEF InPieces
        <5>2. q \in now_split_id + 1 .. Len(tasks_splits') /\ tasks_splits'[q] = tasks_splits[q]
          BY <1>2, <2>5, <2>7
        <5> QED
          BY <2>1, <2>61, <5>1, <5>2 DEF InPieces
      <4> QED
        BY <1>1, <4>1, <4>2 DEF Accounted
    <3> QED
      BY <3>1, <3>2
  <2>10. Accounted'
    BY <1>1, <2>1, <2>6, <2>61, <2>9 DEF Accounted
  <2> QED
    BY <2>1, <2>8, <2>10 DEF MigrationInv
<1>10. CASE EndMigration
  <2>1. pending = {}
    BY <1>1, <1>10 DEF EndMigration, Finished, MigrationTypes, UnitCopies, UnitCopy, Copy
  <2>2. /\ i > tasks_cnt /\ ~(mig_method = 2 /\ Left) /\ migration' = "done"
        /\ UNCHANGED <<mem, pending, mig_method, tasks, i, small_submit, tasks_splits, now_split_id>>
    BY <1>10 DEF EndMigration
  <2>3. UNCHANGED <<tasks_cnt, UnitCopies, Left>> /\ \A k : UnitsOf(k)' = UnitsOf(k)
    BY <2>2, SameTasks DEF Left
  <2>4. MigrationTypes'
    BY <1>1, <2>2, <2>3 DEF MigrationTypes
  <2>5. /\ \A k, j : /\ From(k, j)' = From(k, j) /\ UnitCopy(k, j)' = UnitCopy(k, j)
                     /\ Arrived_at(k, j)' = Arrived_at(k, j) /\ Remainder(k, j)' = Remainder(k, j)
        /\ \A k, j : InPieces(now_split_id + 1, UnitCopy(k, j))' = InPieces(now_split_id + 1, UnitCopy(k, j))
    BY <2>2, SameTasks DEF Remainder, InPieces
  <2>6. Accounted'
    BY <1>1, <2>2, <2>3, <2>5 DEF Accounted
  <2> QED
    BY <2>1, <2>2, <2>3, <2>4, <2>6 DEF MigrationInv
<1>11. CASE MigrationDevice
  BY <1>11, MigrationPerforms DEF MigrationDevice
<1>12. CASE UNCHANGED mvars
  <2>1. UNCHANGED <<mem, pending, mig_method, tasks, i, small_submit, tasks_splits, now_split_id, migration>>
    BY <1>12 DEF mvars, moving
  <2>2. UNCHANGED <<tasks_cnt, UnitCopies, Left>> /\ \A k : UnitsOf(k)' = UnitsOf(k)
    BY <2>1, SameTasks DEF Left
  <2>3. /\ \A k, j : /\ From(k, j)' = From(k, j) /\ UnitCopy(k, j)' = UnitCopy(k, j)
                     /\ Arrived_at(k, j)' = Arrived_at(k, j) /\ Remainder(k, j)' = Remainder(k, j)
        /\ \A k, j : InPieces(now_split_id + 1, UnitCopy(k, j))' = InPieces(now_split_id + 1, UnitCopy(k, j))
    BY <2>1, SameTasks DEF Remainder, InPieces
  <2>4. Accounted'
    BY <1>1, <2>1, <2>2, <2>3 DEF Accounted
  <2> QED
    BY <1>1, <2>1, <2>2, <2>4 DEF MigrationInv, MigrationTypes
<1> QED
  BY <1>6, <1>7, <1>8, <1>9, <1>10, <1>11, <1>12 DEF MigrationNext

\* When the time is taken nothing is in flight and each unit of a page that is
\* copied to is that of the source of a task to that page, whichever pages are
\* huge or shared, and in whatever order pages, pieces and the device go on: all
\* but the remainder of a huge page that is cut.
THEOREM MigrationCorrect == MigrationSpec => []Migrated
<1>1. MigrationInv => Migrated
  <2> SUFFICES ASSUME MigrationInv, migration = "done"
               PROVE  /\ pending = {}
                      /\ \A k \in 1 .. tasks_cnt : \A j \in UnitsOf(k) :
                           \/ \E l \in 1 .. tasks_cnt : To(l, j) = To(k, j) /\ mem[To(k, j)] = mem[From(l, j)]
                           \/ Remainder(k, j)
    BY DEF Migrated, UnitsOf, Remainder
  <2>1. MigrationTypes /\ Accounted /\ pending = {} /\ i > tasks_cnt /\ ~(mig_method = 2 /\ Left)
    BY DEF MigrationInv
  <2>2. tasks_cnt \in Nat /\ i = tasks_cnt + 1 /\ now_split_id \in Nat /\ Len(tasks_splits) \in Nat
    BY <2>1 DEF MigrationTypes, tasks_cnt
  <2>3. \A c : ~InPieces(now_split_id + 1, c)
    BY <2>1, <2>2 DEF InPieces, Left, MigrationTypes
  <2>4. ASSUME NEW k \in 1 .. tasks_cnt, NEW j \in UnitsOf(k), Arrived_at(k, j)
        PROVE  \E l \in 1 .. tasks_cnt : To(l, j) = To(k, j) /\ mem[To(k, j)] = mem[From(l, j)]
    <3>1. PICK l \in 1 .. tasks_cnt : To(l, j) = To(k, j) /\ mem[To(k, j)] = From(l, j)
      BY <2>4 DEF Arrived_at
    <3>2. j \in UnitsOf(l)
      BY <3>1 DEF To, UnitsOf
    <3> QED
      BY <2>1, <3>1, <3>2 DEF Accounted
  <2>5. ASSUME NEW k \in 1 .. tasks_cnt, NEW j \in UnitsOf(k) PROVE Arrived_at(k, j) \/ Remainder(k, j)
    BY <2>1, <2>2, <2>3 DEF Accounted
  <2> QED
    BY <2>1, <2>4, <2>5
<1> QED
  BY <1>1, MigrationStarts, MigrationStep, PTL DEF MigrationSpec

-----------------------------------------------------------------------------
(* The coroutines of coro_demo.                                              *)

\* What a place holds, once the copies to it are made.
Held(m, copies, p) ==
  IF \E c \in copies : c.dst = p THEN m[(CHOOSE c \in copies : c.dst = p).src] ELSE m[p]
Holds(p) == Held(mem, pending, p)

\* The slots of a buffer that are in use: those of the buffer that is moved are
\* the group's already.
Filled(w, g) == IF co[w].at = "moving" /\ co[w].buf = g THEN {} ELSE 0 .. co[w].buffer_cnt[g] - 1
Placed(g) == {after_dsa(g, k) : k \in 0 .. len[g] - 1}
Buffered(w, g) == {Slot(w, g, k) : k \in Filled(w, g)}
InUse == (UNION {Buffered(u[1], u[2]) : u \in Workers \X Groups}) \union (UNION {Placed(g) : g \in Groups})
GroupOf(p) == IF p[1] = "buffer" THEN p[3] ELSE p[2]

Submitted == {e \in Items : e[2] < co[e[1]].i}
Of(g) == {e \in Items : hash[e] = g}

CoroStates == {"count", "barrier", "copy", "offload", "moving", "over"}
Coroutine == [at : CoroStates, i : 0 .. element_per_co, left : 0 .. group, buf : Nat,
              buffer_cnt : [Groups -> 0 .. buffer_size]]

CoroTypes ==
  /\ hash \in [Items -> Groups]
  /\ buc_cap \in [Groups -> Nat] /\ len \in [Groups -> Nat] /\ capacity \in [Groups -> Nat]
  /\ barr \in -1 .. coro /\ turn \in Workers /\ co \in [Workers -> Coroutine]
  /\ mem = [p \in Storage |-> mem[p]]
  /\ \A e \in Items : mem[before(e)] = e

\* A buffer is only full while it is offloaded; it is empty before the barrier,
\* after it was offloaded in the last loop, and at the end.
CoroBuffers ==
  \A w \in Workers :
    /\ co[w].at \in {"count", "barrier"} => co[w].i = 0
    /\ co[w].at \in {"count", "barrier", "over"} => \A g \in Groups : co[w].buffer_cnt[g] = 0
    /\ co[w].at = "over" \/ co[w].left > 0 => co[w].i = element_per_co
    /\ \A g \in Groups : g < co[w].left =>
         \/ co[w].buffer_cnt[g] = 0
         \/ co[w].at \in {"offload", "moving"} /\ co[w].buf = g
    /\ co[w].at \in {"offload", "moving"} => co[w].buf \in Groups
    /\ \A g \in Groups : co[w].buffer_cnt[g] = buffer_size => co[w].at \in {"offload", "moving"} /\ co[w].buf = g

\* The barrier: everyone has counted when worker 0 allocates, nobody pushes before.
CoroCounted ==
  /\ \A g \in Groups : buc_cap[g] = Cardinality({e \in Of(g) : co[e[1]].at # "count"})
  /\ barr = -1 => /\ \A w \in Workers : co[w].at # "count"
                  /\ \A g \in Groups : capacity[g] = Cardinality(Of(g))
  /\ barr # -1 => /\ barr = Cardinality({w \in Workers : co[w].at = "count"})
                  /\ \A w \in Workers : co[w].at \in {"count", "barrier"}
                  /\ \A g \in Groups : len[g] = 0

\* A copy in flight fills a slot that is in use, or moves a buffer to its group.
CoroFlight ==
  /\ \A c \in pending :
       \/ \E w \in Workers, g \in Groups, e \in Items : \E k \in Filled(w, g) :
            c = Copy(batch_(w, g), Slot(w, g, k), before(e))
       \/ \E w \in Workers, k \in 0 .. buffer_size - 1 : \E m \in 0 .. len[co[w].buf] - 1 :
            /\ co[w].at = "moving"
            /\ c = Copy(memcpy_(w), after_dsa(co[w].buf, m), Slot(w, co[w].buf, k))
  /\ \A c \in pending, d \in pending : c.dst = d.dst => c = d

\* The places in use hold the elements submitted, each of them once.
CoroKept ==
  /\ \A p \in InUse : Holds(p) \in Submitted /\ hash[Holds(p)] = GroupOf(p)
  /\ \A p \in InUse, q \in InUse : Holds(p) = Holds(q) => p = q
  /\ \A e \in Submitted : \E p \in InUse : Holds(p) = e

CoroInv == CoroTypes /\ CoroBuffers /\ CoroCounted /\ CoroFlight /\ CoroKept

\* No place is two places.
LEMMA PlacesDiffer ==
  /\ \A w, g, k, v, h, l : Slot(w, g, k) = Slot(v, h, l) => w = v /\ g = h /\ k = l
  /\ \A g, k, h, l : after_dsa(g, k) = after_dsa(h, l) => g = h /\ k = l
  /\ \A w, g, k, h, l : Slot(w, g, k) # after_dsa(h, l)
  /\ \A e \in Items : \A w, g, k : before(e) # Slot(w, g, k) /\ before(e) # after_dsa(g, k)
  /\ \A e \in Items, f \in Items : before(e) = before(f) => e = f
  BY DEF Slot, after_dsa, before, Items

LEMMA HeldLands ==
  ASSUME NEW m, NEW copies, \A c \in copies, d \in copies : c.dst = d.dst => c = d, NEW c \in copies
  PROVE  Held(m, copies, c.dst) = m[c.src]
<1> DEFINE same == CHOOSE d \in copies : d.dst = c.dst
<1>1. same \in copies /\ same.dst = c.dst
  OBVIOUS
<1>2. same = c
  BY <1>1
<1> QED
  BY <1>2 DEF Held

LEMMA HeldStays ==
  ASSUME NEW m, NEW copies, NEW p, \A c \in copies : c.dst # p
  PROVE  Held(m, copies, p) = m[p]
  BY DEF Held

\* What is in use is a slot or a place of a group.
PlacesInUse ==
  /\ \A w \in Workers, g \in Groups : \A k \in Filled(w, g) : Slot(w, g, k) \in InUse
  /\ \A g \in Groups : \A k \in 0 .. len[g] - 1 : after_dsa(g, k) \in InUse
  /\ \A p \in InUse : \/ \E w \in Workers, g \in Groups : \E k \in Filled(w, g) : p = Slot(w, g, k)
                      \/ \E g \in Groups : \E k \in 0 .. len[g] - 1 : p = after_dsa(g, k)

LEMMA UsedPlaces == PlacesInUse
<1>1. ASSUME NEW p \in InUse
      PROVE  \/ \E w \in Workers, g \in Groups : \E k \in Filled(w, g) : p = Slot(w, g, k)
             \/ \E g \in Groups : \E k \in 0 .. len[g] - 1 : p = after_dsa(g, k)
  <2>1. CASE \E u \in Workers \X Groups : p \in Buffered(u[1], u[2])
    BY <2>1 DEF Buffered
  <2>2. CASE \E g \in Groups : p \in Placed(g)
    BY <2>2 DEF Placed
  <2> QED
    BY <2>1, <2>2 DEF InUse
<1>2. ASSUME NEW w \in Workers, NEW g \in Groups, NEW k \in Filled(w, g) PROVE Slot(w, g, k) \in InUse
  <2>1. <<w, g>> \in Workers \X Groups /\ Slot(w, g, k) \in Buffered(<<w, g>>[1], <<w, g>>[2])
    BY DEF Buffered
  <2> QED
    BY <2>1 DEF InUse
<1>3. ASSUME NEW g \in Groups, NEW k \in 0 .. len[g] - 1 PROVE after_dsa(g, k) \in InUse
  BY DEF InUse, Placed
<1> QED
  BY <1>1, <1>2, <1>3 DEF PlacesInUse

LEMMA GroupOfPlace ==
  /\ \A w, g, k : GroupOf(Slot(w, g, k)) = g
  /\ \A g, k : GroupOf(after_dsa(g, k)) = g
  BY DEF GroupOf, Slot, after_dsa

LEMMA FiniteItems ==
  /\ IsFiniteSet(Items) /\ IsFiniteSet(Workers)
  /\ \A s \in SUBSET Items : IsFiniteSet(s) /\ Cardinality(s) \in Nat /\ Cardinality(s) <= Cardinality(Items)
<1> USE CoroAssumption
<1>1. IsFiniteSet(Workers) /\ IsFiniteSet(0 .. element_per_co - 1)
  BY FS_Interval DEF Workers
<1>2. IsFiniteSet(Items)
  BY <1>1, FS_Product DEF Items
<1> QED
  BY <1>1, <1>2, FS_Subset, FS_CardinalityType

\* A group never holds more than the elements that hash to it.
LEMMA GroupsFit ==
  ASSUME CoroTypes, CoroKept, NEW g \in Groups
  PROVE  len[g] <= Cardinality(Of(g)) /\ len[g] \in Nat
<1> DEFINE f == [k \in 0 .. len[g] - 1 |-> Holds(after_dsa(g, k))]
<1>1. len[g] \in Nat
  BY DEF CoroTypes
<1>2. \A k \in 0 .. len[g] - 1 : Holds(after_dsa(g, k)) \in Of(g)
  BY UsedPlaces, GroupOfPlace DEF CoroKept, Submitted, Of, PlacesInUse
<1>3. f \in Injection(0 .. len[g] - 1, Of(g))
  <2>1. f \in [0 .. len[g] - 1 -> Of(g)]
    BY <1>2
  <2>2. ASSUME NEW k \in 0 .. len[g] - 1, NEW l \in 0 .. len[g] - 1, f[k] = f[l] PROVE k = l
    <3>1. Holds(after_dsa(g, k)) = Holds(after_dsa(g, l))
      BY <2>2
    <3> HIDE DEF f
    <3>2. after_dsa(g, k) = after_dsa(g, l)
      BY <3>1, UsedPlaces DEF CoroKept, PlacesInUse
    <3> QED
      BY <3>2, PlacesDiffer
  <2> QED
    BY <2>1, <2>2 DEF Injection, IsInjective
<1>4. IsFiniteSet(Of(g))
  BY FiniteItems DEF Of
<1>5. Cardinality(0 .. len[g] - 1) = len[g]
  BY <1>1, FS_Interval
<1>6. Cardinality(0 .. len[g] - 1) <= Cardinality(Of(g))
  <2> HIDE DEF f
  <2> QED
    BY <1>3, <1>4, FS_Injection
<1> QED
  BY <1>1, <1>5, <1>6

\* The two kinds of copies in flight.
FillCopy(c, w, g, k, e) ==
  /\ w \in Workers /\ g \in Groups /\ e \in Items /\ k \in Filled(w, g)
  /\ c = Copy(batch_(w, g), Slot(w, g, k), before(e))
MoveCopy(c, w, k, m) ==
  /\ w \in Workers /\ k \in 0 .. buffer_size - 1 /\ m \in 0 .. len[co[w].buf] - 1
  /\ co[w].at = "moving" /\ c = Copy(memcpy_(w), after_dsa(co[w].buf, m), Slot(w, co[w].buf, k))

LEMMA InFlightIs ==
  ASSUME CoroFlight, NEW c \in pending
  PROVE  (\E w, g, k, e : FillCopy(c, w, g, k, e)) \/ \E w, k, m : MoveCopy(c, w, k, m)
<1>1. CASE \E w \in Workers, g \in Groups, e \in Items : \E k \in Filled(w, g) :
             c = Copy(batch_(w, g), Slot(w, g, k), before(e))
  BY <1>1 DEF FillCopy
<1>2. CASE \E w \in Workers, k \in 0 .. buffer_size - 1 : \E m \in 0 .. len[co[w].buf] - 1 :
             /\ co[w].at = "moving"
             /\ c = Copy(memcpy_(w), after_dsa(co[w].buf, m), Slot(w, co[w].buf, k))
  BY <1>2 DEF MoveCopy
<1> QED
  BY <1>1, <1>2 DEF CoroFlight

\* The places that copies go to are in use, and no copy leaves one of them.
LEMMA FlightPlaces ==
  ASSUME CoroTypes, CoroBuffers, CoroFlight
  PROVE  /\ \A c \in pending : c.dst \in InUse
         /\ \A c \in pending, d \in pending : c.dst # d.src
         /\ \A c \in pending : \A e \in Items : c.dst # before(e)
<1>1. ASSUME NEW c \in pending PROVE c.dst \in InUse /\ \A e \in Items : c.dst # before(e)
  <2>1. ASSUME NEW w, NEW g, NEW k, NEW e, FillCopy(c, w, g, k, e) PROVE <1>1!2
    BY <2>1, UsedPlaces, PlacesDiffer DEF Copy, FillCopy, PlacesInUse
  <2>2. ASSUME NEW w, NEW k, NEW m, MoveCopy(c, w, k, m) PROVE <1>1!2
    <3>1. co[w].buf \in Groups /\ c.dst = after_dsa(co[w].buf, m)
      BY <2>2 DEF MoveCopy, CoroBuffers, Copy
    <3>2. c.dst \in InUse
      BY <2>2, <3>1, UsedPlaces DEF MoveCopy, PlacesInUse
    <3> QED
      BY <3>1, <3>2, PlacesDiffer
  <2> QED
    BY <2>1, <2>2, InFlightIs
<1>2. ASSUME NEW c \in pending, NEW d \in pending PROVE c.dst # d.src
  <2>1. ASSUME NEW w, NEW g, NEW k, NEW e, FillCopy(d, w, g, k, e) PROVE c.dst # d.src
    BY <1>1, <2>1 DEF FillCopy, Copy
  <2>2. ASSUME NEW w, NEW k, NEW m, MoveCopy(d, w, k, m) PROVE c.dst # d.src
    <3>1. w \in Workers /\ Filled(w, co[w].buf) = {} /\ d.src = Slot(w, co[w].buf, k)
      BY <2>2 DEF MoveCopy, Filled, Copy
    <3>2. ASSUME NEW v, NEW g, NEW l, NEW e, FillCopy(c, v, g, l, e) PROVE c.dst # d.src
      <4>1. c.dst = Slot(v, g, l) /\ l \in Filled(v, g)
        BY <3>2 DEF FillCopy, Copy
      <4> QED
        BY <3>1, <4>1, PlacesDiffer
    <3>3. ASSUME NEW v, NEW l, NEW n, MoveCopy(c, v, l, n) PROVE c.dst # d.src
      BY <3>1, <3>3, PlacesDiffer DEF MoveCopy, Copy
    <3> QED
      BY <3>2, <3>3, InFlightIs
  <2> QED
    BY <2>1, <2>2, InFlightIs
<1> QED
  BY <1>1, <1>2

LEMMA UsedExists == ASSUME CoroTypes, CoroKept PROVE InUse \subseteq Storage
<1> USE CoroAssumption
<1>1. ASSUME NEW w \in Workers, NEW g \in Groups, NEW k \in Filled(w, g) PROVE Slot(w, g, k) \in Storage
  <2>1. co[w].buffer_cnt[g] \in 0 .. buffer_size
    BY DEF CoroTypes, Coroutine
  <2>2. k \in 0 .. buffer_size - 1
    BY <2>1 DEF Filled
  <2> QED
    BY <2>2 DEF Storage
<1>2. ASSUME NEW g \in Groups, NEW k \in 0 .. len[g] - 1 PROVE after_dsa(g, k) \in Storage
  <2>1. Cardinality(Of(g)) \in Nat /\ Cardinality(Of(g)) <= Cardinality(Items) /\ Cardinality(Items) \in Nat
    BY FiniteItems DEF Of
  <2>2. len[g] <= Cardinality(Of(g)) /\ len[g] \in Nat
    BY GroupsFit
  <2>3. k \in 0 .. Cardinality(Items) - 1
    BY <2>1, <2>2
  <2> QED
    BY <2>3 DEF Storage
<1> QED
  BY <1>1, <1>2, UsedPlaces DEF PlacesInUse

\* What is in use depends on the buffers and on the groups only.
LEMMA SameUse ==
  ASSUME len' = len, \A w \in Workers, g \in Groups : Filled(w, g)' = Filled(w, g)
  PROVE  InUse' = InUse
<1>1. ASSUME NEW u \in Workers \X Groups PROVE Buffered(u[1], u[2])' = Buffered(u[1], u[2])
  BY DEF Buffered
<1>2. \A g \in Groups : Placed(g)' = Placed(g)
  BY DEF Placed
<1> QED
  BY <1>1, <1>2 DEF InUse

LEMMA SameKept ==
  ASSUME CoroKept, UNCHANGED <<mem, pending, hash>>, InUse' = InUse, Submitted' = Submitted
  PROVE  CoroKept'
<1>1. \A p : Holds(p)' = Holds(p)
  BY DEF Holds
<1> QED
  BY <1>1 DEF CoroKept

\* A copy that is made changes nothing but mem.
LEMMA CoroPerforms == ASSUME CoroInv, Perform, UNCHANGED shuffling PROVE CoroInv'
<1> USE DEF CoroInv
<1>1. PICK c \in pending : mem' = [mem EXCEPT ![c.dst] = mem[c.src]] /\ pending' = pending \ {c}
  BY DEF Perform
<1>2. c.dst \in InUse /\ c.dst \in Storage
  BY FlightPlaces, UsedExists
<1>3. UNCHANGED <<hash, buc_cap, barr, len, capacity, turn, co>>
  BY DEF shuffling
<1>4. CoroTypes'
  <2>1. mem' = [p \in Storage |-> mem'[p]]
    BY <1>1, <1>2 DEF CoroTypes
  <2>2. \A e \in Items : mem'[before(e)] = e
    <3> SUFFICES ASSUME NEW e \in Items PROVE mem'[before(e)] = e
      OBVIOUS
    <3>1. before(e) \in Storage /\ before(e) # c.dst
      BY FlightPlaces DEF Storage
    <3> QED
      BY <1>1, <3>1 DEF CoroTypes
  <2> QED
    BY <1>3, <2>1, <2>2 DEF CoroTypes
<1>5. CoroBuffers'
  BY <1>3 DEF CoroBuffers
<1>6. CoroCounted'
  BY <1>3 DEF CoroCounted, Of
<1>7. CoroFlight'
  BY <1>1, <1>3 DEF CoroFlight, Filled
<1>8. ASSUME NEW p \in InUse PROVE Holds(p)' = Holds(p)
  <2> USE UsedExists
  <2>0. /\ \A d \in pending, f \in pending : d.dst = f.dst => d = f
        /\ \A d \in pending', f \in pending' : d.dst = f.dst => d = f
    BY <1>1 DEF CoroFlight
  <2>1. CASE p = c.dst
    <3>1. \A d \in pending' : d.dst # p
      BY <1>1, <2>0, <2>1
    <3>2. Holds(p)' = mem'[p]
      BY <3>1, HeldStays DEF Holds
    <3>3. Holds(p) = mem[c.src]
      BY <2>0, <2>1, HeldLands DEF Holds
    <3>4. mem'[p] = mem[c.src]
      BY <1>1, <1>2, <2>1 DEF CoroTypes
    <3> QED
      BY <3>2, <3>3, <3>4
  <2>2. CASE p # c.dst /\ \E d \in pending : d.dst = p
    <3>1. PICK d \in pending : d.dst = p
      BY <2>2
    <3>2. d \in pending' /\ d.src # c.dst
      BY <1>1, <2>2, <3>1, FlightPlaces
    <3>3. Holds(p)' = mem'[d.src]
      BY <2>0, <3>1, <3>2, HeldLands DEF Holds
    <3>4. Holds(p) = mem[d.src]
      BY <2>0, <3>1, HeldLands DEF Holds
    <3>5. mem'[d.src] = mem[d.src]
      BY <1>1, <3>2 DEF CoroTypes
    <3> QED
      BY <3>3, <3>4, <3>5
  <2>3. CASE p # c.dst /\ \A d \in pending : d.dst # p
    <3>1. \A d \in pending' : d.dst # p
      BY <1>1, <2>3
    <3>2. Holds(p)' = mem'[p] /\ Holds(p) = mem[p]
      BY <2>3, <3>1, HeldStays DEF Holds
    <3> QED
      BY <1>1, <2>3, <3>2 DEF CoroTypes
  <2> QED
    BY <2>1, <2>2, <2>3
<1>9. InUse' = InUse /\ Submitted' = Submitted
  BY <1>3, SameUse DEF Filled, Submitted
<1>10. CoroKept'
  BY <1>3, <1>8, <1>9 DEF CoroKept
<1> QED
  BY <1>4, <1>5, <1>6, <1>7, <1>10

LEMMA CoroStarts == CoroInit => CoroInv
<1> SUFFICES ASSUME CoroInit PROVE CoroInv
  OBVIOUS
<1> USE CoroAssumption DEF CoroInit, NoneYet
<1>1. CoroTypes
  <2>1. \A e \in Items : mem[before(e)] = e
    <3> SUFFICES ASSUME NEW e \in Items PROVE mem[before(e)] = e
      OBVIOUS
    <3>1. before(e)[1] = "before" /\ e = <<before(e)[2], before(e)[3]>>
      BY DEF before, Items
    <3>2. before(e) \in Storage
      BY DEF Storage
    <3> QED
      BY <3>1, <3>2
  <2>2. co \in [Workers -> Coroutine]
    BY DEF Coroutine, CoroStates
  <2>3. buc_cap \in [Groups -> Nat] /\ len \in [Groups -> Nat] /\ capacity \in [Groups -> Nat]
    OBVIOUS
  <2>4. barr \in -1 .. coro /\ turn \in Workers
    BY DEF Workers
  <2>5. mem = [p \in Storage |-> mem[p]]
    OBVIOUS
  <2> QED
    BY <2>1, <2>2, <2>3, <2>4, <2>5 DEF CoroTypes
<1>2. \A w \in Workers : co[w].at = "count" /\ co[w].i = 0 /\ \A g \in Groups : co[w].buffer_cnt[g] = 0
  OBVIOUS
<1>3. CoroBuffers
  BY <1>2 DEF CoroBuffers
<1>4. CoroCounted
  <2>1. ASSUME NEW g \in Groups PROVE buc_cap[g] = Cardinality({e \in Of(g) : co[e[1]].at # "count"})
    <3>1. {e \in Of(g) : co[e[1]].at # "count"} = {}
      BY <1>2 DEF Of, Items
    <3> QED
      BY <3>1, FS_EmptySet
  <2>2. barr = Cardinality({w \in Workers : co[w].at = "count"})
    <3>1. {w \in Workers : co[w].at = "count"} = 0 .. coro - 1
      BY <1>2 DEF Workers
    <3>2. Cardinality(0 .. coro - 1) = coro
      BY FS_Interval
    <3> QED
      BY <3>1, <3>2
  <2> QED
    BY <1>2, <2>1, <2>2 DEF CoroCounted
<1>5. CoroFlight
  BY DEF CoroFlight
<1>6. InUse = {} /\ Submitted = {}
  <2>1. InUse = {}
    BY <1>2, UsedPlaces DEF Filled, PlacesInUse
  <2> QED
    BY <1>2, <2>1 DEF Submitted, Items
<1>7. CoroKept
  BY <1>6 DEF CoroKept
<1> QED
  BY <1>1, <1>3, <1>4, <1>5, <1>7 DEF CoroInv

LEMMA YieldGoes == ASSUME CoroTypes, Yield PROVE turn' \in Workers
  BY DEF Yield, CoroTypes

LEMMA CoroWaits ==
  ASSUME CoroInv, turn' \in Workers, UNCHANGED <<mem, pending, hash, buc_cap, barr, len, capacity, co>>
  PROVE  CoroInv'
<1> USE DEF CoroInv
<1>1. CoroTypes' /\ CoroBuffers' /\ CoroCounted'
  BY DEF CoroTypes, CoroBuffers, CoroCounted, Of
<1>2. CoroFlight'
  BY DEF CoroFlight, Filled
<1>3. InUse' = InUse /\ Submitted' = Submitted
  BY SameUse DEF Filled, Submitted
<1> QED
  BY <1>1, <1>2, <1>3, SameKept

\* The DSAop of a worker that does not wait for it is idle.
LEMMA NotMoving ==
  ASSUME CoroInv, NEW w \in Workers, co[w].at # "moving" PROVE Finished(memcpy_(w))
<1> SUFFICES ASSUME NEW c \in pending PROVE c.by # memcpy_(w)
  BY DEF Finished
<1>1. ASSUME NEW v, NEW g, NEW k, NEW e, FillCopy(c, v, g, k, e) PROVE c.by # memcpy_(w)
  BY <1>1 DEF FillCopy, Copy, batch_, memcpy_
<1>2. ASSUME NEW v, NEW k, NEW m, MoveCopy(c, v, k, m) PROVE c.by # memcpy_(w)
  BY <1>2 DEF MoveCopy, Copy, memcpy_
<1> QED
  BY <1>1, <1>2, InFlightIs DEF CoroInv

\* A coroutine that goes on without submitting anything.
LEMMA Stepped ==
  ASSUME CoroInv, NEW r \in Coroutine, Go(r), r.i = me.i, Finished(memcpy_(turn)),
         \A w \in Workers, g \in Groups : w = turn => Filled(w, g)' = Filled(w, g),
         UNCHANGED <<mem, pending, hash, len>>
  PROVE  co' \in [Workers -> Coroutine] /\ CoroFlight' /\ CoroKept'
<1> USE DEF CoroInv
<1>1. turn \in Workers /\ co' = [co EXCEPT ![turn] = r] /\ co \in [Workers -> Coroutine]
  BY DEF Go, CoroTypes
<1>2. co' \in [Workers -> Coroutine] /\ co'[turn] = r /\ \A w \in Workers : w # turn => co'[w] = co[w]
  BY <1>1
<1>3. \A w \in Workers, g \in Groups : Filled(w, g)' = Filled(w, g)
  <2> SUFFICES ASSUME NEW w \in Workers, NEW g \in Groups, w # turn PROVE Filled(w, g)' = Filled(w, g)
    OBVIOUS
  <2> QED
    BY <1>2 DEF Filled
<1>4. CoroFlight'
  <2>1. ASSUME NEW c \in pending
        PROVE \/ \E w \in Workers, g \in Groups, e \in Items : \E k \in Filled(w, g)' :
                   c = Copy(batch_(w, g), Slot(w, g, k), before(e))
              \/ \E w \in Workers, k \in 0 .. buffer_size - 1 : \E m \in 0 .. len[co'[w].buf] - 1 :
                   /\ co'[w].at = "moving"
                   /\ c = Copy(memcpy_(w), after_dsa(co'[w].buf, m), Slot(w, co'[w].buf, k))
    <3>1. ASSUME NEW w, NEW g, NEW k, NEW e, FillCopy(c, w, g, k, e) PROVE <2>1!2
      BY <1>3, <3>1 DEF FillCopy
    <3>2. ASSUME NEW w, NEW k, NEW m, MoveCopy(c, w, k, m) PROVE <2>1!2
      <4>1. w \in Workers /\ w # turn
        BY <3>2 DEF MoveCopy, Copy, Finished
      <4> QED
        BY <1>2, <3>2, <4>1 DEF MoveCopy
    <3> QED
      BY <3>1, <3>2, InFlightIs
  <2> QED
    BY <2>1 DEF CoroFlight
<1>5. InUse' = InUse
  BY <1>3, SameUse
<1>6. Submitted' = Submitted
  BY <1>2 DEF Submitted, me, Items
<1> QED
  BY <1>2, <1>4, <1>5, <1>6, SameKept

\* A coroutine that is not moving a buffer, before or after, fills the same slots.
LEMMA SteppedAside ==
  ASSUME CoroInv, NEW r \in Coroutine, Go(r), r.i = me.i, r.buffer_cnt = me.buffer_cnt,
         me.at # "moving", r.at # "moving", UNCHANGED <<mem, pending, hash, len>>
  PROVE  co' \in [Workers -> Coroutine] /\ CoroFlight' /\ CoroKept'
<1>1. turn \in Workers /\ co'[turn] = r /\ \A w \in Workers : w # turn => co'[w] = co[w]
  BY DEF Go, CoroTypes, CoroInv
<1>2. Finished(memcpy_(turn))
  BY <1>1, NotMoving DEF me
<1>3. \A w \in Workers, g \in Groups : w = turn => Filled(w, g)' = Filled(w, g)
  BY <1>1 DEF Filled, me
<1> QED
  BY <1>2, <1>3, Stepped

LEMMA CountStep == ASSUME CoroInv, Count PROVE CoroInv'
<1> USE DEF CoroInv, Count
<1> USE CoroAssumption
<1> DEFINE r == [me EXCEPT !.at = "barrier"]
<1>1. turn \in Workers /\ me \in Coroutine
  BY DEF CoroTypes, me
<1>2. r \in Coroutine /\ r.i = me.i /\ r.buffer_cnt = me.buffer_cnt /\ r.left = me.left
      /\ r.at = "barrier" /\ Go(r)
  BY <1>1 DEF Coroutine, CoroStates, GoTo
<1> HIDE DEF r
<1>3. co' \in [Workers -> Coroutine] /\ CoroFlight' /\ CoroKept'
  BY <1>2, SteppedAside
<1>4. co'[turn] = r /\ \A w \in Workers : w # turn => co'[w] = co[w]
  BY <1>1, <1>2 DEF Go, CoroTypes
<1>5. barr # -1 /\ co[turn].at = "count"
  BY <1>1 DEF CoroCounted, me
<1>6. barr' = Cardinality({w \in Workers : co'[w].at = "count"}) /\ barr' \in 0 .. coro
  <2> DEFINE before_ == {w \in Workers : co[w].at = "count"}
  <2>1. {w \in Workers : co'[w].at = "count"} = before_ \ {turn}
    BY <1>1, <1>2, <1>4
  <2>2. IsFiniteSet(before_)
    BY FiniteItems, FS_Subset
  <2>3. turn \in before_
    BY <1>1, <1>5
  <2>4. Cardinality(before_ \ {turn}) = Cardinality(before_) - 1 /\ IsFiniteSet(before_ \ {turn})
    BY <2>2, <2>3, FS_RemoveElement
  <2>5. Cardinality(before_ \ {turn}) \in Nat
    BY <2>4, FS_CardinalityType
  <2>6. barr = Cardinality(before_) /\ barr \in -1 .. coro
    BY <1>5 DEF CoroCounted, CoroTypes
  <2>7. barr' = barr - 1
    BY DEF Count
  <2> HIDE DEF before_
  <2>8. barr' = Cardinality(before_ \ {turn}) /\ barr' \in 0 .. coro
    BY ONLY <2>4, <2>5, <2>6, <2>7, CoroAssumption
  <2> QED
    BY ONLY <2>1, <2>8
<1>7. ASSUME NEW g \in Groups
      PROVE  /\ buc_cap'[g] = Cardinality({e \in Of(g) : co'[e[1]].at # "count"})
             /\ buc_cap'[g] \in Nat
  <2> DEFINE mine == {k \in 0 .. element_per_co - 1 : hash[<<turn, k>>] = g}
             old == {e \in Of(g) : co[e[1]].at # "count"}
             new == {<<turn, k>> : k \in mine}
             f == [k \in mine |-> <<turn, k>>]
  <2>1. {e \in Of(g) : co'[e[1]].at # "count"} = old \union new
    <3>1. ASSUME NEW e \in Items, e[1] = turn PROVE e = <<turn, e[2]>> /\ e[2] \in 0 .. element_per_co - 1
      BY <3>1 DEF Items
    <3>2. \A k \in 0 .. element_per_co - 1 : <<turn, k>> \in Items /\ <<turn, k>>[1] = turn
      BY <1>1 DEF Items
    <3>3. \A e \in Items : e[1] \in Workers
      BY DEF Items
    <3> QED
      BY <1>2, <1>4, <1>5, <3>1, <3>2, <3>3 DEF Of
  <2>2. IsFiniteSet(mine) /\ IsFiniteSet(old)
    <3>1. IsFiniteSet(0 .. element_per_co - 1)
      BY FS_Interval
    <3>2. old \subseteq Items
      BY DEF Of
    <3> QED
      BY <3>1, <3>2, FS_Subset, FiniteItems
  <2>3. f \in Bijection(mine, new)
    BY DEF Bijection, Injection, Surjection, IsInjective
  <2>4. IsFiniteSet(new) /\ Cardinality(new) = Cardinality(mine)
    <3> HIDE DEF f, new, mine
    <3>1. ExistsBijection(mine, new)
      BY <2>3 DEF ExistsBijection
    <3> QED
      BY ONLY <2>2, <3>1, FS_Bijection
  <2>5. old \intersect new = {}
    <3>1. \A e \in new : e[1] = turn
      <4>1. \A k : <<turn, k>>[1] = turn
        OBVIOUS
      <4> QED
        BY ONLY <4>1
    <3>2. \A e \in old : e[1] # turn
      BY <1>5
    <3> QED
      BY ONLY <3>1, <3>2
  <2>6. Cardinality(old \union new) = Cardinality(old) + Cardinality(new)
    <3> HIDE DEF old, new
    <3>1. Cardinality(old \union new) = Cardinality(old) + Cardinality(new) - Cardinality(old \intersect new)
      BY <2>2, <2>4, FS_Union
    <3>2. Cardinality(old \intersect new) = 0
      BY <2>5, FS_EmptySet
    <3>3. Cardinality(old) \in Nat /\ Cardinality(new) \in Nat
      BY <2>2, <2>4, FS_CardinalityType
    <3> QED
      BY ONLY <3>1, <3>2, <3>3
  <2>7. buc_cap[g] = Cardinality(old) /\ buc_cap[g] \in Nat /\ Cardinality(mine) \in Nat
    BY <2>2, FS_CardinalityType DEF CoroCounted, CoroTypes
  <2>8. buc_cap'[g] = buc_cap[g] + Cardinality(mine)
    BY DEF Count
  <2> HIDE DEF old, new, mine
  <2>9. buc_cap'[g] = Cardinality(old \union new) /\ buc_cap'[g] \in Nat
    BY ONLY <2>4, <2>6, <2>7, <2>8
  <2> QED
    BY ONLY <2>1, <2>9
<1>8. CoroTypes'
  <2>1. buc_cap' \in [Groups -> Nat]
    BY <1>7
  <2> QED
    BY <1>1, <1>3, <1>6, <2>1 DEF CoroTypes
<1>9. CoroBuffers'
  BY <1>1, <1>2, <1>4, <1>5 DEF CoroBuffers, me
<1>10. CoroCounted'
  <2>1. \A g \in Groups : Of(g)' = Of(g)
    BY DEF Of
  <2>2. \A w \in Workers : co'[w].at \in {"count", "barrier"}
    BY <1>2, <1>4, <1>5 DEF CoroCounted
  <2>3. barr' # -1 /\ \A g \in Groups : len'[g] = 0
    BY <1>5, <1>6 DEF CoroCounted
  <2> QED
    BY <1>6, <1>7, <2>1, <2>2, <2>3 DEF CoroCounted
<1> QED
  BY <1>3, <1>8, <1>9, <1>10

\* After the barrier, nothing that the coroutines do changes what was counted.
LEMMA StillCounted ==
  ASSUME CoroCounted, barr = -1, UNCHANGED <<hash, buc_cap, barr, capacity>>,
         \A w \in Workers : (co'[w].at # "count") = (co[w].at # "count")
  PROVE  CoroCounted'
<1>1. \A g \in Groups : Of(g)' = Of(g)
  BY DEF Of
<1>2. \A g \in Groups : {e \in Of(g) : co'[e[1]].at # "count"} = {e \in Of(g) : co[e[1]].at # "count"}
  BY DEF Of, Items
<1> QED
  BY <1>1, <1>2 DEF CoroCounted

LEMMA BarrierStep == ASSUME CoroInv, Barrier PROVE CoroInv'
<1> USE CoroAssumption DEF CoroInv
<1>1. turn \in Workers /\ me \in Coroutine /\ me = co[turn] /\ me.at = "barrier"
  BY DEF CoroTypes, me, Barrier
<1>2. UNCHANGED <<mem, pending, hash, buc_cap, len>>
  BY DEF Barrier
<1>3. CASE Passed /\ GoTo("copy") /\ UNCHANGED <<barr, capacity, turn>>
  <2> DEFINE r == [me EXCEPT !.at = "copy"]
  <2>1. r \in Coroutine /\ r.i = me.i /\ r.buffer_cnt = me.buffer_cnt /\ r.left = me.left
        /\ r.at = "copy" /\ Go(r)
    BY <1>1, <1>3 DEF Coroutine, CoroStates, GoTo
  <2> HIDE DEF r
  <2>2. co' \in [Workers -> Coroutine] /\ CoroFlight' /\ CoroKept'
    BY <1>1, <1>2, <2>1, SteppedAside
  <2>3. co'[turn] = r /\ \A w \in Workers : w # turn => co'[w] = co[w]
    BY <1>1, <2>1 DEF Go, CoroTypes
  <2>4. CoroTypes'
    BY <1>2, <1>3, <2>2 DEF CoroTypes
  <2>5. CoroBuffers'
    BY <1>1, <2>1, <2>3 DEF CoroBuffers
  <2>6. CoroCounted'
    <3>1. \A w \in Workers : (co'[w].at # "count") = (co[w].at # "count")
      BY <1>1, <2>1, <2>3
    <3> QED
      BY <1>2, <1>3, <3>1, StillCounted DEF Passed
  <2> QED
    BY <2>2, <2>4, <2>5, <2>6
<1>4. CASE ~Passed /\ turn = 0 /\ barr = 0 /\ capacity' = buc_cap /\ barr' = -1 /\ UNCHANGED <<turn, co>>
  <2>1. CoroTypes' /\ CoroBuffers' /\ CoroFlight'
    BY <1>2, <1>4 DEF CoroTypes, CoroBuffers, CoroFlight, Filled
  <2>2. InUse' = InUse /\ Submitted' = Submitted
    BY <1>2, <1>4, SameUse DEF Filled, Submitted
  <2>3. \A w \in Workers : co[w].at # "count"
    <3> DEFINE waiting == {w \in Workers : co[w].at = "count"}
    <3>1. IsFiniteSet(waiting) /\ Cardinality(waiting) = 0
      BY <1>4, FiniteItems, FS_Subset DEF CoroCounted
    <3>2. waiting = {}
      BY <3>1, FS_EmptySet
    <3> QED
      BY <3>2
  <2>4. \A g \in Groups : {e \in Of(g) : co[e[1]].at # "count"} = Of(g) /\ Of(g)' = Of(g)
    BY <1>2, <2>3 DEF Of, Items
  <2>5. CoroCounted'
    BY <1>2, <1>4, <2>3, <2>4 DEF CoroCounted
  <2> QED
    BY <1>2, <2>1, <2>2, <2>5, SameKept
<1>5. CASE ~Passed /\ UNCHANGED <<barr, capacity, co>> /\ Yield
  BY <1>2, <1>5, YieldGoes, CoroWaits
<1> QED
  BY <1>3, <1>4, <1>5 DEF Barrier

LEMMA LeftoverStep == ASSUME CoroInv, Leftover PROVE CoroInv'
<1> USE CoroAssumption DEF CoroInv
<1>1. turn \in Workers /\ me \in Coroutine /\ me = co[turn] /\ me.at = "copy" /\ me.i = element_per_co
  BY DEF CoroTypes, me, Leftover
<1>2. UNCHANGED <<mem, pending, hash, buc_cap, barr, len, capacity>>
  BY DEF Leftover
<1>3. PICK r \in Coroutine :
        /\ Go(r) /\ turn' \in Workers /\ r.i = me.i /\ r.buffer_cnt = me.buffer_cnt
        /\ \/ r.at = "over" /\ r.left = me.left /\ \A g \in Groups : me.buffer_cnt[g] = 0
           \/ r.at = "offload" /\ r.buf \in Groups /\ r.buf = me.left /\ r.left = me.left + 1
  <2>1. CASE me.left = group /\ GoTo("over") /\ Yield
    <3> DEFINE r == [me EXCEPT !.at = "over"]
    <3>1. r \in Coroutine /\ r.i = me.i /\ r.buffer_cnt = me.buffer_cnt /\ r.at = "over"
          /\ r.left = me.left /\ Go(r)
      BY <1>1, <2>1 DEF Coroutine, CoroStates, GoTo
    <3>2. \A g \in Groups : me.buffer_cnt[g] = 0
      BY <1>1, <2>1 DEF CoroBuffers, Groups
    <3> QED
      BY <2>1, <3>1, <3>2, YieldGoes
  <2>2. CASE /\ me.left < group /\ UNCHANGED turn
             /\ Go([me EXCEPT !.at = "offload", !.buf = me.left, !.left = me.left + 1])
    <3> DEFINE g == me.left
               r == [me EXCEPT !.at = "offload", !.buf = g, !.left = g + 1]
    <3>1. g \in Nat /\ g \in Groups /\ g + 1 \in 0 .. group
      BY <1>1, <2>2 DEF Coroutine, Groups
    <3>2. r \in Coroutine /\ r.i = me.i /\ r.buffer_cnt = me.buffer_cnt /\ r.at = "offload"
          /\ r.buf = g /\ r.left = g + 1
      BY <1>1, <3>1 DEF Coroutine, CoroStates
    <3>3. Go(r)
      BY <2>2
    <3> HIDE DEF r
    <3> QED
      BY <1>1, <2>2, <3>1, <3>2, <3>3
  <2> QED
    BY <2>1, <2>2 DEF Leftover
<1>4. co' \in [Workers -> Coroutine] /\ CoroFlight' /\ CoroKept'
  BY <1>1, <1>2, <1>3, SteppedAside
<1>5. co'[turn] = r /\ \A w \in Workers : w # turn => co'[w] = co[w]
  BY <1>1, <1>3 DEF Go, CoroTypes
<1>6. CoroTypes'
  BY <1>2, <1>3, <1>4 DEF CoroTypes
<1>7. CoroBuffers'
  <2>1. \A g \in Groups : me.buffer_cnt[g] # buffer_size
    BY <1>1 DEF CoroBuffers
  <2>2. ASSUME NEW g \in Groups, g < r.left, r.at = "offload" PROVE me.buffer_cnt[g] = 0 \/ r.buf = g
    <3>1. g \in Nat /\ me.left \in Nat
      BY <1>1 DEF Groups, Coroutine
    <3>2. g < me.left \/ g = r.buf
      BY <1>3, <2>2, <3>1
    <3> QED
      BY <1>1, <3>2 DEF CoroBuffers
  <2> QED
    BY <1>1, <1>3, <1>5, <2>1, <2>2 DEF CoroBuffers
<1>8. CoroCounted'
  <2>1. \A w \in Workers : (co'[w].at # "count") = (co[w].at # "count")
    BY <1>1, <1>3, <1>5
  <2>2. barr = -1
    BY <1>1 DEF CoroCounted
  <2> QED
    BY <1>2, <2>1, <2>2, StillCounted
<1> QED
  BY <1>4, <1>6, <1>7, <1>8

LEMMA MovingStep == ASSUME CoroInv, Moving PROVE CoroInv'
<1> USE CoroAssumption DEF CoroInv
<1>1. turn \in Workers /\ me \in Coroutine /\ me = co[turn] /\ me.at = "moving" /\ me.buf \in Groups
  BY DEF CoroTypes, me, Moving, CoroBuffers
<1>2. UNCHANGED <<mem, pending, hash, buc_cap, barr, len, capacity>>
  BY DEF Moving
<1>3. CASE UNCHANGED co /\ Yield
  BY <1>2, <1>3, YieldGoes, CoroWaits
<1>4. CASE /\ Settled(memcpy_(turn)) /\ UNCHANGED turn
           /\ Go([me EXCEPT !.at = "copy", !.buffer_cnt = [@ EXCEPT ![me.buf] = 0]])
  <2> DEFINE r == [me EXCEPT !.at = "copy", !.buffer_cnt = [@ EXCEPT ![me.buf] = 0]]
  <2>1. r \in Coroutine /\ r.i = me.i /\ r.left = me.left /\ r.at = "copy" /\ Go(r)
    <3>1. [me.buffer_cnt EXCEPT ![me.buf] = 0] \in [Groups -> 0 .. buffer_size]
      BY <1>1 DEF Coroutine
    <3>2. r = [me EXCEPT !.at = "copy", !.buffer_cnt = [me.buffer_cnt EXCEPT ![me.buf] = 0]]
      OBVIOUS
    <3>3. r \in Coroutine /\ r.i = me.i /\ r.left = me.left /\ r.at = "copy"
      BY <1>1, <3>1, <3>2 DEF Coroutine, CoroStates
    <3>4. Go(r)
      BY <1>4
    <3> QED
      BY <3>3, <3>4
  <2>2. r.buffer_cnt = [me.buffer_cnt EXCEPT ![me.buf] = 0] /\ me.buffer_cnt \in [Groups -> 0 .. buffer_size]
    BY <1>1 DEF Coroutine
  <2> HIDE DEF r
  <2>3. \A g \in Groups : r.buffer_cnt[g] = IF g = me.buf THEN 0 ELSE me.buffer_cnt[g]
    BY <2>2
  <2>4. co'[turn] = r /\ \A w \in Workers : w # turn => co'[w] = co[w]
    BY <1>1, <2>1 DEF Go, CoroTypes
  <2>5. \A w \in Workers, g \in Groups : w = turn => Filled(w, g)' = Filled(w, g)
    BY <1>1, <2>1, <2>3, <2>4 DEF Filled
  <2>6. co' \in [Workers -> Coroutine] /\ CoroFlight' /\ CoroKept'
    BY <1>2, <1>4, <2>1, <2>5, Stepped DEF Settled
  <2>7. CoroTypes'
    BY <1>2, <1>4, <2>6 DEF CoroTypes
  <2>8. CoroBuffers'
    <3>1. \A g \in Groups : r.buffer_cnt[g] # buffer_size
      BY <1>1, <2>3 DEF CoroBuffers
    <3>2. \A g \in Groups : g < r.left => r.buffer_cnt[g] = 0
      BY <1>1, <2>1, <2>3 DEF CoroBuffers
    <3>3. r.left > 0 => r.i = element_per_co
      BY <1>1, <2>1 DEF CoroBuffers
    <3> QED
      BY <1>1, <2>1, <2>4, <3>1, <3>2, <3>3 DEF CoroBuffers
  <2>9. CoroCounted'
    <3>1. \A w \in Workers : (co'[w].at # "count") = (co[w].at # "count")
      BY <1>1, <2>1, <2>4
    <3>2. barr = -1
      BY <1>1 DEF CoroCounted
    <3> QED
      BY <1>2, <3>1, <3>2, StillCounted
  <2> QED
    BY <2>6, <2>7, <2>8, <2>9
<1> QED
  BY <1>3, <1>4 DEF Moving

\* New copies change what the places they go to hold, and no other.
LEMMA HoldsOld ==
  ASSUME mem' = mem, NEW cs, pending' = pending \union cs,
         \A c \in pending', d \in pending' : c.dst = d.dst => c = d
  PROVE  /\ \A p : (\A c \in cs : c.dst # p) => Holds(p)' = Holds(p)
         /\ \A c \in cs : Holds(c.dst)' = mem[c.src]
<1>1. ASSUME NEW p, \A c \in cs : c.dst # p PROVE Holds(p)' = Holds(p)
  <2>1. CASE \E d \in pending : d.dst = p
    <3>1. PICK d \in pending : d.dst = p
      BY <2>1
    <3>2. Holds(p) = mem[d.src]
      BY <3>1, HeldLands DEF Holds
    <3>3. Holds(p)' = mem[d.src]
      BY <3>1, HeldLands DEF Holds
    <3> QED
      BY <3>2, <3>3
  <2>2. CASE \A d \in pending : d.dst # p
    <3>1. \A d \in pending' : d.dst # p
      BY <1>1, <2>2
    <3>2. Holds(p) = mem[p]
      BY <2>2, HeldStays DEF Holds
    <3>3. Holds(p)' = mem[p]
      BY <3>1, HeldStays DEF Holds
    <3> QED
      BY <3>2, <3>3
  <2> QED
    BY <2>1, <2>2
<1>2. ASSUME NEW c \in cs PROVE Holds(c.dst)' = mem[c.src]
  BY HeldLands DEF Holds
<1> QED
  BY <1>1, <1>2

LEMMA CopyStep == ASSUME CoroInv, CopyElement PROVE CoroInv'
<1> USE CoroAssumption DEF CoroInv
<1>0. PICK v, e, h, n, p, c, r :
        /\ v = turn /\ e = <<v, me.i>> /\ h = hash[e] /\ n = me.buffer_cnt[h]
        /\ p = Slot(v, h, n) /\ c = Copy(batch_(v, h), p, before(e))
        /\ r = [at |-> IF n + 1 = buffer_size THEN "offload" ELSE "copy",
                i |-> me.i + 1, left |-> me.left, buf |-> h, buffer_cnt |-> [me.buffer_cnt EXCEPT ![h] = n + 1]]
  OBVIOUS
<1>1. /\ v \in Workers /\ me \in Coroutine /\ me = co[v] /\ co[v].at = "copy" /\ co[v].i = me.i
      /\ me.i \in 0 .. element_per_co - 1
  BY <1>0 DEF CoroTypes, me, CopyElement, Coroutine
<1>2. e \in Items /\ h \in Groups /\ e[1] = v /\ e[2] = me.i
  BY <1>0, <1>1 DEF Items, CoroTypes
<1>3. n \in 0 .. buffer_size - 1 /\ \A g \in Groups : me.buffer_cnt[g] \in 0 .. buffer_size - 1
  <2>1. \A g \in Groups : me.buffer_cnt[g] \in 0 .. buffer_size /\ me.buffer_cnt[g] # buffer_size
    BY <1>1 DEF CoroBuffers, Coroutine
  <2> QED
    BY <1>0, <1>2, <2>1
<1>4. /\ mem' = mem /\ pending' = pending \union {c} /\ co' = [co EXCEPT ![v] = r]
      /\ UNCHANGED <<hash, buc_cap, barr, len, capacity, turn>>
  BY <1>0 DEF CopyElement, Submit, Go
<1>5. /\ r \in Coroutine /\ r.i = me.i + 1 /\ r.at \in {"offload", "copy"} /\ r.buf = h
      /\ n + 1 = buffer_size => r.at = "offload"
      /\ \A g \in Groups : r.buffer_cnt[g] = IF g = h THEN n + 1 ELSE me.buffer_cnt[g]
  <2>1. me.buffer_cnt \in [Groups -> 0 .. buffer_size]
    BY <1>1 DEF Coroutine
  <2>2. [me.buffer_cnt EXCEPT ![h] = n + 1] \in [Groups -> 0 .. buffer_size]
    BY <1>2, <1>3, <2>1
  <2>3. h \in Nat
    BY <1>2 DEF Groups
  <2>4. r \in Coroutine
    BY <1>0, <1>1, <2>2, <2>3 DEF Coroutine, CoroStates
  <2> QED
    BY <1>0, <1>2, <2>1, <2>4
<1>6. co' \in [Workers -> Coroutine] /\ co'[v] = r /\ \A w \in Workers : w # v => co'[w] = co[w]
  BY <1>1, <1>4, <1>5 DEF CoroTypes
<1>7. /\ \A w \in Workers, g \in Groups :
           Filled(w, g)' = IF w = v /\ g = h THEN Filled(w, g) \union {n} ELSE Filled(w, g)
      /\ n \notin Filled(v, h)
  <2>1. Filled(v, h) = 0 .. n - 1
    BY <1>0, <1>1 DEF Filled
  <2>2. Filled(v, h)' = 0 .. n
    <3>1. co'[v].at # "moving" /\ co'[v].buffer_cnt[h] = n + 1
      BY <1>2, <1>5, <1>6
    <3> QED
      BY <1>3, <3>1 DEF Filled
  <2>3. ASSUME NEW g \in Groups, g # h PROVE Filled(v, g)' = Filled(v, g)
    BY <1>1, <1>5, <1>6, <2>3 DEF Filled
  <2>4. ASSUME NEW w \in Workers, NEW g \in Groups, w # v PROVE Filled(w, g)' = Filled(w, g)
    BY <1>6, <2>4 DEF Filled
  <2>5. 0 .. n = (0 .. n - 1) \union {n} /\ n \notin 0 .. n - 1
    BY <1>3
  <2> QED
    BY ONLY <2>1, <2>2, <2>3, <2>4, <2>5
<1>8. InUse' = InUse \union {p} /\ p \notin InUse
  <2>1. PlacesInUse /\ PlacesInUse'
    BY UsedPlaces, PTL
  <2>2. p \notin InUse
    BY <1>0, <1>7, <2>1, PlacesDiffer DEF PlacesInUse
  <2>3. p \in InUse'
    <3>1. n \in Filled(v, h)'
      BY <1>1, <1>2, <1>7
    <3> QED
      BY <1>0, <1>1, <1>2, <2>1, <3>1 DEF PlacesInUse
  <2>4. ASSUME NEW q \in InUse PROVE q \in InUse'
    <3>1. ASSUME NEW w \in Workers, NEW g \in Groups, NEW k \in Filled(w, g), q = Slot(w, g, k) PROVE q \in InUse'
      <4>1. k \in Filled(w, g)'
        BY <1>7
      <4> QED
        BY <2>1, <3>1, <4>1 DEF PlacesInUse
    <3>2. CASE \E g \in Groups : \E k \in 0 .. len[g] - 1 : q = after_dsa(g, k)
      BY <1>4, <2>1, <3>2 DEF PlacesInUse
    <3> QED
      BY <2>1, <3>1, <3>2 DEF PlacesInUse
  <2>5. ASSUME NEW q \in InUse', q # p PROVE q \in InUse
    <3>1. ASSUME NEW w \in Workers, NEW g \in Groups, NEW k \in Filled(w, g)', q = Slot(w, g, k) PROVE q \in InUse
      <4>1. k \in Filled(w, g)
        BY <1>0, <1>7, <2>5, <3>1
      <4> QED
        BY <2>1, <3>1, <4>1 DEF PlacesInUse
    <3>2. CASE \E g \in Groups : \E k \in 0 .. len[g] - 1 : q = after_dsa(g, k)
      BY <2>1, <3>2 DEF PlacesInUse
    <3> QED
      BY <1>4, <2>1, <3>1, <3>2 DEF PlacesInUse
  <2> QED
    BY <2>2, <2>3, <2>4, <2>5
<1>9. \A d \in pending', f \in pending' : d.dst = f.dst => d = f
  <2>1. \A d \in pending : d.dst \in InUse
    BY FlightPlaces
  <2>2. c.dst = p
    BY <1>0 DEF Copy
  <2> QED
    BY <1>4, <1>8, <2>1, <2>2 DEF CoroFlight
<1>10. Holds(p)' = e /\ \A q \in InUse : Holds(q)' = Holds(q)
  <2>1. c.dst = p /\ c.src = before(e) /\ mem[before(e)] = e
    BY <1>0, <1>2 DEF Copy, CoroTypes
  <2>2. pending' = pending \union {c} /\ mem' = mem
    BY <1>4
  <2>3. /\ \A q : (\A d \in {c} : d.dst # q) => Holds(q)' = Holds(q)
        /\ \A d \in {c} : Holds(d.dst)' = mem[d.src]
    BY <1>9, <2>2, HoldsOld
  <2>4. Holds(p)' = e
    BY <2>1, <2>3
  <2> QED
    BY <1>8, <2>1, <2>3, <2>4
<1>11. Submitted' = Submitted \union {e} /\ e \notin Submitted
  <2>1. \A f \in Items : f[1] = v => (f[2] < me.i + 1 <=> f[2] < me.i \/ f = e)
    BY <1>0, <1>1, <1>2 DEF Items
  <2>2. \A f \in Items : f[1] # v => f # e /\ f[1] \in Workers
    BY <1>2 DEF Items
  <2>3. ~(e[2] < co[e[1]].i)
    BY <1>1, <1>2
  <2>4. \A f \in Items : f[2] < co'[f[1]].i <=> (f[2] < co[f[1]].i \/ f = e)
    BY <1>1, <1>2, <1>5, <1>6, <2>1, <2>2
  <2> QED
    BY <1>2, <2>3, <2>4 DEF Submitted
<1>12. CoroTypes'
  BY <1>4, <1>6 DEF CoroTypes
<1>13. CoroBuffers'
  <2>1. \A g \in Groups : r.buffer_cnt[g] = buffer_size => r.at = "offload" /\ r.buf = g
    BY <1>2, <1>3, <1>5
  <2>2. r.at \in {"offload", "copy"} /\ r.buf \in Groups
    BY <1>2, <1>5
  <2>3. r.left = 0
    <3>1. me.left \in Nat /\ ~(me.left > 0)
      BY <1>1 DEF CoroBuffers, Coroutine
    <3> QED
      BY <1>0, <3>1
  <2>4. \A g \in Groups : ~(g < r.left)
    BY <2>3 DEF Groups
  <2> QED
    BY <1>6, <2>1, <2>2, <2>3, <2>4 DEF CoroBuffers
<1>14. CoroCounted'
  <2>1. \A w \in Workers : (co'[w].at # "count") = (co[w].at # "count")
    BY <1>1, <1>5, <1>6
  <2>2. barr = -1
    BY <1>1 DEF CoroCounted
  <2> QED
    BY <1>4, <2>1, <2>2, StillCounted
<1>15. CoroFlight'
  <2>1. ASSUME NEW d \in pending'
        PROVE \/ \E w \in Workers, g \in Groups, f \in Items : \E k \in Filled(w, g)' :
                   d = Copy(batch_(w, g), Slot(w, g, k), before(f))
              \/ \E w \in Workers, k \in 0 .. buffer_size - 1 : \E m \in 0 .. len[co'[w].buf] - 1 :
                   /\ co'[w].at = "moving"
                   /\ d = Copy(memcpy_(w), after_dsa(co'[w].buf, m), Slot(w, co'[w].buf, k))
    <3>1. CASE d = c
      <4>1. n \in Filled(v, h)'
        BY <1>1, <1>2, <1>7
      <4> QED
        BY <1>0, <1>1, <1>2, <3>1, <4>1
    <3>2. ASSUME d \in pending, NEW w, NEW g, NEW k, NEW f, FillCopy(d, w, g, k, f) PROVE <2>1!2
      <4>1. k \in Filled(w, g)'
        BY <1>7, <3>2 DEF FillCopy
      <4> QED
        BY <3>2, <4>1 DEF FillCopy
    <3>3. ASSUME d \in pending, NEW w, NEW k, NEW m, MoveCopy(d, w, k, m) PROVE <2>1!2
      <4>1. w \in Workers /\ w # v
        BY <1>1, <3>3 DEF MoveCopy
      <4> QED
        BY <1>6, <3>3, <4>1 DEF MoveCopy
    <3> QED
      BY <1>4, <3>1, <3>2, <3>3, InFlightIs
  <2> QED
    BY <1>4, <1>9, <2>1 DEF CoroFlight
<1>16. CoroKept'
  <2>1. GroupOf(p) = h /\ hash[e] = h
    BY <1>0, GroupOfPlace
  <2>2. \A q \in InUse' : Holds(q)' \in Submitted' /\ hash'[Holds(q)'] = GroupOf(q)
    BY <1>4, <1>8, <1>10, <1>11, <2>1 DEF CoroKept
  <2>3. \A q \in InUse', s \in InUse' : Holds(q)' = Holds(s)' => q = s
    BY <1>8, <1>10, <1>11 DEF CoroKept
  <2>4. \A f \in Submitted' : \E q \in InUse' : Holds(q)' = f
    BY <1>8, <1>10, <1>11 DEF CoroKept
  <2> QED
    BY <2>2, <2>3, <2>4 DEF CoroKept
<1> QED
  BY <1>12, <1>13, <1>14, <1>15, <1>16

LEMMA OffloadStep == ASSUME CoroInv, Offload PROVE CoroInv'
<1> USE CoroAssumption DEF CoroInv
<1>0. PICK v, g, n, l, cs, r :
        /\ v = turn /\ g = me.buf /\ n = me.buffer_cnt[g] /\ l = len[g]
        /\ cs = {Copy(memcpy_(v), after_dsa(g, l + k), Slot(v, g, k)) : k \in 0 .. n - 1}
        /\ r = [me EXCEPT !.at = "moving"]
  OBVIOUS
<1>1. /\ v \in Workers /\ me \in Coroutine /\ me = co[v] /\ co[v].at = "offload"
      /\ g \in Groups /\ n \in 0 .. buffer_size /\ l \in Nat /\ co[v].buf = g /\ co[v].buffer_cnt[g] = n
  <2>1. v \in Workers /\ me \in Coroutine /\ me = co[v] /\ co[v].at = "offload"
    BY <1>0 DEF CoroTypes, me, Offload
  <2>2. g \in Groups
    BY <1>0, <2>1 DEF CoroBuffers
  <2> QED
    BY <1>0, <2>1, <2>2 DEF CoroTypes, Coroutine
<1>2. CASE UNCHANGED <<mem, pending, len, co>> /\ Yield
  <2>1. UNCHANGED <<hash, buc_cap, barr, capacity>>
    BY DEF Offload
  <2> QED
    BY <1>2, <2>1, YieldGoes, CoroWaits
<1>3. CASE /\ Settled(batch_(turn, me.buf)) /\ Submit(Offloaded)
           /\ len' = [len EXCEPT ![me.buf] = @ + me.buffer_cnt[me.buf]]
           /\ GoTo("moving") /\ UNCHANGED turn
  <2>1. /\ mem' = mem /\ pending' = pending \union cs /\ len' = [len EXCEPT ![g] = l + n]
        /\ co' = [co EXCEPT ![v] = r] /\ UNCHANGED <<hash, buc_cap, barr, capacity, turn>>
    BY <1>0, <1>3 DEF Offload, Submit, Offloaded, GoTo, Go
  <2>2. /\ r \in Coroutine /\ r.i = me.i /\ r.left = me.left /\ r.at = "moving" /\ r.buf = g
        /\ r.buffer_cnt = me.buffer_cnt
    BY <1>0, <1>1 DEF Coroutine, CoroStates
  <2>3. co' \in [Workers -> Coroutine] /\ co'[v] = r /\ \A w \in Workers : w # v => co'[w] = co[w]
    BY <1>1, <2>1, <2>2 DEF CoroTypes
  <2>4. len' \in [Groups -> Nat] /\ len'[g] = l + n /\ \A h \in Groups : h # g => len'[h] = len[h]
    BY <1>1, <2>1 DEF CoroTypes
  <2>5. \A d \in pending : d.by # batch_(v, g)
    BY <1>0, <1>3 DEF Settled, Finished
  <2>6. Filled(v, g) = 0 .. n - 1
    BY <1>1 DEF Filled
  <2>7. \A w \in Workers, h \in Groups : Filled(w, h)' = IF w = v /\ h = g THEN {} ELSE Filled(w, h)
    <3>1. Filled(v, g)' = {}
      BY <2>2, <2>3 DEF Filled
    <3>2. ASSUME NEW h \in Groups, h # g PROVE Filled(v, h)' = Filled(v, h)
      BY <1>1, <2>2, <2>3, <3>2 DEF Filled
    <3>3. ASSUME NEW w \in Workers, NEW h \in Groups, w # v PROVE Filled(w, h)' = Filled(w, h)
      BY <2>3, <3>3 DEF Filled
    <3> QED
      BY <3>1, <3>2, <3>3
  <2>8. PlacesInUse /\ PlacesInUse'
    BY UsedPlaces, PTL
  <2>9. ASSUME NEW k \in 0 .. n - 1
        PROVE Slot(v, g, k) \in InUse /\ after_dsa(g, l + k) \in InUse' /\ after_dsa(g, l + k) \notin InUse
    <3>1. Slot(v, g, k) \in InUse
      BY <1>1, <2>6, <2>8 DEF PlacesInUse
    <3>2. l + k \in 0 .. len'[g] - 1 /\ l + k \notin 0 .. len[g] - 1
      BY <1>0, <1>1, <2>4
    <3>3. after_dsa(g, l + k) \in InUse'
      BY <1>1, <2>8, <3>2 DEF PlacesInUse
    <3>4. after_dsa(g, l + k) \notin InUse
      BY <2>8, <3>2, PlacesDiffer DEF PlacesInUse
    <3> QED
      BY <3>1, <3>3, <3>4
  <2>10. ASSUME NEW q \in InUse, \A k \in 0 .. n - 1 : q # Slot(v, g, k) PROVE q \in InUse'
    <3>1. ASSUME NEW w \in Workers, NEW h \in Groups, NEW k \in Filled(w, h), q = Slot(w, h, k) PROVE q \in InUse'
      <4>1. k \in Filled(w, h)'
        BY <2>6, <2>7, <2>10, <3>1
      <4> QED
        BY <2>8, <3>1, <4>1 DEF PlacesInUse
    <3>2. ASSUME NEW h \in Groups, NEW k \in 0 .. len[h] - 1, q = after_dsa(h, k) PROVE q \in InUse'
      <4>1. k \in 0 .. len'[h] - 1
        BY <1>0, <1>1, <2>4
      <4> QED
        BY <2>8, <3>2, <4>1 DEF PlacesInUse
    <3> QED
      BY <2>8, <3>1, <3>2 DEF PlacesInUse
  <2>11. ASSUME NEW q \in InUse', \A k \in 0 .. n - 1 : q # after_dsa(g, l + k)
         PROVE  q \in InUse /\ \A k : q # Slot(v, g, k)
    <3>1. ASSUME NEW w \in Workers, NEW h \in Groups, NEW k \in Filled(w, h)', q = Slot(w, h, k)
          PROVE  q \in InUse /\ \A j : q # Slot(v, g, j)
      <4>1. k \in Filled(w, h) /\ (w # v \/ h # g)
        BY <2>7
      <4>2. q \in InUse
        BY <2>8, <3>1, <4>1 DEF PlacesInUse
      <4> QED
        BY <3>1, <4>1, <4>2, PlacesDiffer
    <3>2. ASSUME NEW h \in Groups, NEW k \in 0 .. len'[h] - 1, q = after_dsa(h, k)
          PROVE  q \in InUse /\ \A j : q # Slot(v, g, j)
      <4>1. k \in 0 .. len[h] - 1
        <5>1. CASE h = g
          <6>1. SUFFICES ASSUME k \notin 0 .. len[h] - 1 PROVE FALSE
            OBVIOUS
          <6>2. k \in l .. l + n - 1
            BY <1>0, <1>1, <2>4, <5>1, <6>1
          <6>3. k - l \in 0 .. n - 1 /\ l + (k - l) = k
            BY <1>1, <6>2
          <6> QED
            BY <2>11, <3>2, <5>1, <6>3
        <5>2. CASE h # g
          BY <2>4, <5>2
        <5> QED
          BY <5>1, <5>2
      <4>2. q \in InUse
        BY <2>8, <3>2, <4>1 DEF PlacesInUse
      <4> QED
        BY <3>2, <4>2, PlacesDiffer
    <3> QED
      BY <2>8, <3>1, <3>2 DEF PlacesInUse
  <2>12. \A d \in cs : \E k \in 0 .. n - 1 : /\ d = Copy(memcpy_(v), after_dsa(g, l + k), Slot(v, g, k))
                                            /\ d.dst = after_dsa(g, l + k) /\ d.src = Slot(v, g, k)
    BY <1>0 DEF Copy
  <2>13. \A d \in pending', f \in pending' : d.dst = f.dst => d = f
    <3>1. \A d \in pending : d.dst \in InUse
      BY FlightPlaces
    <3>2. \A d \in cs : d.dst \notin InUse
      BY <2>9, <2>12
    <3>3. ASSUME NEW d \in cs, NEW f \in cs, d.dst = f.dst PROVE d = f
      <4>1. PICK k \in 0 .. n - 1 : /\ d = Copy(memcpy_(v), after_dsa(g, l + k), Slot(v, g, k))
                                    /\ d.dst = after_dsa(g, l + k)
        BY <2>12
      <4>2. PICK j \in 0 .. n - 1 : /\ f = Copy(memcpy_(v), after_dsa(g, l + j), Slot(v, g, j))
                                    /\ f.dst = after_dsa(g, l + j)
        BY <2>12
      <4>3. l + k = l + j
        BY <3>3, <4>1, <4>2, PlacesDiffer
      <4>4. k = j
        BY <1>1, <4>3
      <4> QED
        BY <4>1, <4>2, <4>4
    <3> QED
      BY <2>1, <3>1, <3>2, <3>3 DEF CoroFlight
  <2>14. \A q \in InUse : Holds(q)' = Holds(q)
    <3>1. \A d \in cs : d.dst \notin InUse
      BY <2>9, <2>12
    <3> QED
      BY <2>1, <2>13, <3>1, HoldsOld
  <2>15. ASSUME NEW k \in 0 .. n - 1 PROVE Holds(after_dsa(g, l + k))' = Holds(Slot(v, g, k))
    <3>1. \A d \in pending : d.dst # Slot(v, g, k)
      <4> SUFFICES ASSUME NEW d \in pending, d.dst = Slot(v, g, k) PROVE FALSE
        OBVIOUS
      <4>1. ASSUME NEW w, NEW h, NEW j, NEW e, FillCopy(d, w, h, j, e) PROVE FALSE
        <5>1. d.by = batch_(w, h) /\ d.dst = Slot(w, h, j)
          BY <4>1 DEF FillCopy, Copy
        <5>2. Slot(w, h, j) = Slot(v, g, k)
          BY <5>1
        <5>3. w = v /\ h = g
          BY ONLY <5>2, PlacesDiffer
        <5> QED
          BY <2>5, <5>1, <5>3
      <4>2. ASSUME NEW w, NEW j, NEW m, MoveCopy(d, w, j, m) PROVE FALSE
        BY <4>2, PlacesDiffer DEF MoveCopy, Copy
      <4> QED
        BY <4>1, <4>2, InFlightIs
    <3>2. Holds(Slot(v, g, k)) = mem[Slot(v, g, k)]
      BY <3>1, HeldStays DEF Holds
    <3>3. PICK d \in cs : d.dst = after_dsa(g, l + k) /\ d.src = Slot(v, g, k)
      <4> DEFINE d == Copy(memcpy_(v), after_dsa(g, l + k), Slot(v, g, k))
      <4>1. d \in cs
        BY <1>0
      <4>2. d.dst = after_dsa(g, l + k) /\ d.src = Slot(v, g, k)
        BY DEF Copy
      <4> HIDE DEF d
      <4> QED
        BY <4>1, <4>2
    <3>4. Holds(d.dst)' = mem[d.src]
      BY <2>1, <2>13, HoldsOld
    <3> QED
      BY <3>2, <3>3, <3>4
  <2>16. CoroTypes'
    BY <2>1, <2>3, <2>4 DEF CoroTypes
  <2>17. CoroBuffers'
    <3>1. \A h \in Groups : r.buffer_cnt[h] = buffer_size => h = g
      BY <1>1, <2>2 DEF CoroBuffers
    <3>2. r.left > 0 => r.i = element_per_co
      BY <1>1, <2>2 DEF CoroBuffers
    <3>3. \A h \in Groups : h < r.left => r.buffer_cnt[h] = 0 \/ r.buf = h
      BY <1>1, <2>2 DEF CoroBuffers
    <3> QED
      BY <1>1, <2>2, <2>3, <3>1, <3>2, <3>3 DEF CoroBuffers
  <2>18. CoroCounted'
    <3>1. \A w \in Workers : (co'[w].at # "count") = (co[w].at # "count")
      BY <1>1, <2>2, <2>3
    <3>2. barr = -1
      BY <1>1 DEF CoroCounted
    <3> QED
      BY <2>1, <3>1, <3>2, StillCounted
  <2>19. CoroFlight'
    <3>1. ASSUME NEW d \in pending'
          PROVE \/ \E w \in Workers, h \in Groups, f \in Items : \E k \in Filled(w, h)' :
                     d = Copy(batch_(w, h), Slot(w, h, k), before(f))
                \/ \E w \in Workers, k \in 0 .. buffer_size - 1 : \E m \in 0 .. len'[co'[w].buf] - 1 :
                     /\ co'[w].at = "moving"
                     /\ d = Copy(memcpy_(w), after_dsa(co'[w].buf, m), Slot(w, co'[w].buf, k))
      <4>1. CASE d \in cs
        <5>1. PICK k \in 0 .. n - 1 : d = Copy(memcpy_(v), after_dsa(g, l + k), Slot(v, g, k))
          BY <2>12, <4>1
        <5>2. k \in 0 .. buffer_size - 1 /\ l + k \in 0 .. len'[co'[v].buf] - 1
          BY <1>1, <2>2, <2>3, <2>4
        <5>3. co'[v].at = "moving" /\ co'[v].buf = g
          BY <2>2, <2>3
        <5> QED
          BY <1>1, <5>1, <5>2, <5>3
      <4>2. ASSUME d \in pending, NEW w, NEW h, NEW k, NEW f, FillCopy(d, w, h, k, f) PROVE <3>1!2
        <5>1. d.by = batch_(w, h)
          BY <4>2 DEF FillCopy, Copy
        <5>2. k \in Filled(w, h)'
          BY <2>5, <2>7, <4>2, <5>1 DEF FillCopy
        <5> QED
          BY <4>2, <5>2 DEF FillCopy
      <4>3. ASSUME d \in pending, NEW w, NEW k, NEW m, MoveCopy(d, w, k, m) PROVE <3>1!2
        <5>1. w \in Workers /\ w # v /\ co'[w] = co[w] /\ co[w].buf \in Groups
          BY <1>1, <2>3, <4>3 DEF MoveCopy, CoroBuffers
        <5>2. m \in 0 .. len'[co'[w].buf] - 1
          BY <1>0, <1>1, <2>4, <4>3, <5>1 DEF MoveCopy
        <5> QED
          BY <4>3, <5>1, <5>2 DEF MoveCopy
      <4> QED
        BY <2>1, <4>1, <4>2, <4>3, InFlightIs
    <3> QED
      BY <2>13, <3>1 DEF CoroFlight
  <2>20. Submitted' = Submitted
    BY <1>1, <2>2, <2>3 DEF Submitted, Items
  <2>21. CoroKept'
    \* what a place held, the same place or the one its copy goes to holds
    <3>1. ASSUME NEW q \in InUse'
          PROVE  \E s \in InUse : /\ Holds(q)' = Holds(s) /\ GroupOf(q) = GroupOf(s)
                                  /\ \/ q = s /\ \A k : q # Slot(v, g, k)
                                     \/ \E k \in 0 .. n - 1 : q = after_dsa(g, l + k) /\ s = Slot(v, g, k)
      <4>1. CASE \E k \in 0 .. n - 1 : q = after_dsa(g, l + k)
        <5>1. PICK k \in 0 .. n - 1 : q = after_dsa(g, l + k)
          BY <4>1
        <5>2. Slot(v, g, k) \in InUse /\ Holds(q)' = Holds(Slot(v, g, k))
          BY <2>9, <2>15, <5>1
        <5> QED
          BY <5>1, <5>2, GroupOfPlace
      <4>2. CASE \A k \in 0 .. n - 1 : q # after_dsa(g, l + k)
        BY <2>11, <2>14, <4>2
      <4> QED
        BY <4>1, <4>2
    <3>2. \A q \in InUse' : Holds(q)' \in Submitted' /\ hash'[Holds(q)'] = GroupOf(q)
      BY <2>1, <2>20, <3>1 DEF CoroKept
    <3>3. ASSUME NEW q \in InUse', NEW s \in InUse', Holds(q)' = Holds(s)' PROVE q = s
      BY <3>1, <3>3, PlacesDiffer DEF CoroKept
    <3>4. ASSUME NEW f \in Submitted' PROVE \E q \in InUse' : Holds(q)' = f
      <4>1. PICK s \in InUse : Holds(s) = f
        BY <2>20 DEF CoroKept
      <4>2. CASE \E k \in 0 .. n - 1 : s = Slot(v, g, k)
        BY <2>9, <2>15, <4>1, <4>2
      <4>3. CASE \A k \in 0 .. n - 1 : s # Slot(v, g, k)
        BY <2>10, <2>14, <4>1, <4>3
      <4> QED
        BY <4>2, <4>3
    <3> QED
      BY <3>2, <3>3, <3>4 DEF CoroKept
  <2> QED
    BY <2>16, <2>17, <2>18, <2>19, <2>21
<1> QED
  BY <1>2, <1>3 DEF Offload

LEMMA CoroStep == CoroInv /\ [CoroNext]_cvars => CoroInv'
<1> SUFFICES ASSUME CoroInv, [CoroNext]_cvars PROVE CoroInv'
  OBVIOUS
<1>1. CASE Count
  BY <1>1, CountStep
<1>2. CASE Barrier
  BY <1>2, BarrierStep
<1>3. CASE CopyElement
  BY <1>3, CopyStep
<1>4. CASE Leftover
  BY <1>4, LeftoverStep
<1>5. CASE Offload
  BY <1>5, OffloadStep
<1>6. CASE Moving
  BY <1>6, MovingStep
<1>7. CASE CoroDevice
  BY <1>7, CoroPerforms DEF CoroDevice
<1>8. CASE UNCHANGED cvars
  <2>1. turn' \in Workers /\ UNCHANGED <<mem, pending, hash, buc_cap, barr, len, capacity, co>>
    BY <1>8 DEF cvars, shuffling, CoroInv, CoroTypes
  <2> QED
    BY <2>1, CoroWaits
<1> QED
  BY <1>1, <1>2, <1>3, <1>4, <1>5, <1>6, <1>7, <1>8 DEF CoroNext

\* When all are over, what is in use are the groups, and nothing is in flight.
LEMMA CoroEnds == ASSUME CoroInv PROVE Shuffled
<1> USE CoroAssumption DEF CoroInv
<1> SUFFICES ASSUME \A w \in Workers : co[w].at = "over", NEW g \in Groups
             PROVE  /\ len[g] = Cardinality({e \in Items : hash[e] = g})
                    /\ {mem[after_dsa(g, k)] : k \in 0 .. len[g] - 1} = {e \in Items : hash[e] = g}
  BY DEF Shuffled
<1>1. \A w \in Workers, h \in Groups : Filled(w, h) = {}
  BY DEF Filled, CoroBuffers
<1>2. pending = {}
  <2> SUFFICES ASSUME NEW c \in pending PROVE FALSE
    OBVIOUS
  <2>1. ASSUME NEW w, NEW h, NEW k, NEW e, FillCopy(c, w, h, k, e) PROVE FALSE
    BY <1>1, <2>1 DEF FillCopy
  <2>2. ASSUME NEW w, NEW k, NEW m, MoveCopy(c, w, k, m) PROVE FALSE
    BY <2>2 DEF MoveCopy
  <2> QED
    BY <2>1, <2>2, InFlightIs
<1>3. \A p : Holds(p) = mem[p]
  BY <1>2, HeldStays DEF Holds
<1>4. \A p \in InUse : \E h \in Groups : \E k \in 0 .. len[h] - 1 : p = after_dsa(h, k)
  BY <1>1, UsedPlaces DEF PlacesInUse
<1>5. Submitted = Items
  BY DEF Submitted, Items, CoroBuffers
<1>6. \A k \in 0 .. len[g] - 1 : after_dsa(g, k) \in InUse /\ mem[after_dsa(g, k)] \in Of(g)
  BY <1>3, UsedPlaces, GroupOfPlace DEF PlacesInUse, CoroKept, Submitted, Of
<1>7. ASSUME NEW e \in Of(g) PROVE \E k \in 0 .. len[g] - 1 : mem[after_dsa(g, k)] = e
  <2>1. e \in Submitted /\ hash[e] = g
    BY <1>5 DEF Of
  <2>2. PICK p \in InUse : Holds(p) = e
    BY <2>1 DEF CoroKept
  <2>3. mem[p] = e /\ GroupOf(p) = g
    BY <1>3, <2>1, <2>2 DEF CoroKept
  <2>4. PICK h \in Groups : \E k \in 0 .. len[h] - 1 : p = after_dsa(h, k)
    BY <1>4
  <2>5. h = g
    BY <2>3, <2>4, GroupOfPlace
  <2> QED
    BY <2>3, <2>4, <2>5
<1>8. {mem[after_dsa(g, k)] : k \in 0 .. len[g] - 1} = Of(g)
  BY <1>6, <1>7
<1>9. len[g] = Cardinality(Of(g))
  <2> DEFINE f == [k \in 0 .. len[g] - 1 |-> mem[after_dsa(g, k)]]
  <2>1. \A k \in 0 .. len[g] - 1, j \in 0 .. len[g] - 1 : f[k] = f[j] => k = j
    <3>1. ASSUME NEW k \in 0 .. len[g] - 1, NEW j \in 0 .. len[g] - 1,
                 mem[after_dsa(g, k)] = mem[after_dsa(g, j)]
          PROVE  k = j
      <4>1. after_dsa(g, k) = after_dsa(g, j)
        BY <1>3, <1>6, <3>1 DEF CoroKept
      <4> QED
        BY <4>1, PlacesDiffer
    <3> QED
      BY <3>1
  <2>2. f \in Bijection(0 .. len[g] - 1, Of(g))
    <3>1. f \in [0 .. len[g] - 1 -> Of(g)]
      BY <1>6
    <3>2. \A e \in Of(g) : \E k \in 0 .. len[g] - 1 : f[k] = e
      BY <1>7
    <3> HIDE DEF f
    <3> QED
      BY <2>1, <3>1, <3>2 DEF Bijection, Injection, Surjection, IsInjective
  <2>3. ExistsBijection(0 .. len[g] - 1, Of(g))
    <3> HIDE DEF f
    <3> QED
      BY <2>2 DEF ExistsBijection
  <2>4. IsFiniteSet(0 .. len[g] - 1) /\ Cardinality(0 .. len[g] - 1) = len[g]
    <3>1. len[g] \in Nat
      BY DEF CoroTypes
    <3>2. IsFiniteSet(0 .. len[g] - 1)
      BY <3>1, FS_Interval
    <3>3. Cardinality(0 .. len[g] - 1) = len[g]
      BY ONLY <3>1, FS_Interval
    <3> QED
      BY <3>2, <3>3
  <2> QED
    BY ONLY <2>3, <2>4, FS_Bijection
<1> QED
  BY <1>8, <1>9 DEF Of

LEMMA CoroRight == ASSUME CoroInv PROVE CoroShuffleRight
<1> USE DEF CoroInv
<1>1. BuffersSettle
  BY FlightPlaces DEF BuffersSettle, CoroFlight
<1>2. PushFits
  <2> SUFFICES ASSUME NEW g \in Groups PROVE len[g] <= capacity[g]
    BY DEF PushFits
  <2>1. CASE barr = -1
    BY <2>1, GroupsFit DEF CoroCounted
  <2>2. CASE barr # -1
    BY <2>2 DEF CoroCounted, CoroTypes
  <2> QED
    BY <2>1, <2>2
<1>3. Shuffled
  BY CoroEnds
<1> QED
  BY <1>1, <1>2, <1>3 DEF CoroShuffleRight

\* coro_demo: for any number of coroutines, groups, elements and any size of the
\* buffers, no buffer is reused while it is copied from, nobody pushes more than
\* worker 0 has allocated, and each group ends with its elements, each once.
THEOREM CoroShuffleCorrect == CoroSpec => []CoroShuffleRight
<1>1. CoroInit => CoroInv
  BY CoroStarts
<1>2. CoroInv /\ [CoroNext]_cvars => CoroInv'
  BY CoroStep
<1>3. CoroInv => CoroShuffleRight
  BY CoroRight
<1> QED
  BY <1>1, <1>2, <1>3, PTL DEF CoroSpec

-----------------------------------------------------------------------------
(* The merge sort of mergesort_demo.                                         *)

\* f numbers the elements of S by 0 .. n - 1.
Numbers(f, n, S) ==
  /\ f \in [0 .. n - 1 -> S]
  /\ \A j \in 0 .. n - 1, k \in 0 .. n - 1 : f[j] = f[k] => j = k
  /\ \A s \in S : \E j \in 0 .. n - 1 : f[j] = s

\* The copies of the first pass, and of a merge.
ToPre(k) == Copy("batch", String("a", k), String("in", k))
ToNow(k, j) == Copy("batch", String(now_, k), String(pre, j))

AllStrings == Strings_in("in") \union Strings_in("a") \union Strings_in("b")
SortTypes ==
  /\ input \in Inputs
  /\ mem = [s \in AllStrings |-> mem[s]] /\ \A s \in AllStrings : mem[s] \in Nat
  /\ pre \in {"a", "b"} /\ sorting \in {"fill", "merge", "done"}
  /\ seglen \in Nat \ {0} /\ seg \in Nat /\ Lpos \in Nat /\ Rpos \in Nat /\ now_pos \in Nat

\* Every string before seg is in pre, or on its way.
Filling ==
  /\ pre = "a" /\ seg <= lim
  /\ pending \subseteq {ToPre(k) : k \in 0 .. seg - 1}
  /\ \A k \in 0 .. lim - 1 : mem[String("in", k)] = input[k + 1]
  /\ \A k \in 0 .. seg - 1 : mem[String("a", k)] = input[k + 1] \/ ToPre(k) \in pending

\* The strings of pre are those of the input, in runs that are sorted.
PreKeeps == \E g \in [0 .. lim - 1 -> 0 .. lim - 1] :
  Numbers(g, lim, 0 .. lim - 1) /\ \A k \in 0 .. lim - 1 : pre_data(k) = input[g[k] + 1]
PreSorted == \A j \in 1 .. lim - 1 : j % seglen # 0 => pre_data(j - 1) <= pre_data(j)

\* The strings of two runs are taken from their heads.
Heads ==
  /\ \E q \in Nat : seg = q * (2 * seglen)
  /\ seg < lim
  /\ Lpos \in seg .. Lposend /\ Rpos \in Lposend .. Rposend
  /\ now_pos = Lpos + Rpos - Lposend

Taken == (0 .. Lpos - 1) \union (Lposend .. Rpos - 1)

\* f tells which string of pre each string of now is, or will be.
Moves(f) ==
  /\ Numbers(f, now_pos, Taken)
  /\ pending \subseteq {ToNow(k, f[k]) : k \in 0 .. now_pos - 1}
  /\ \A k \in 0 .. now_pos - 1 : mem[String(now_, k)] = pre_data(f[k]) \/ ToNow(k, f[k]) \in pending

\* What is to come is not below what has been taken.
NowSorted(f) ==
  /\ \A k \in 1 .. now_pos - 1 : k % (2 * seglen) # 0 => pre_data(f[k - 1]) <= pre_data(f[k])
  /\ now_pos > seg => /\ Lpos < Lposend => pre_data(f[now_pos - 1]) <= pre_data(Lpos)
                      /\ Rpos < Rposend => pre_data(f[now_pos - 1]) <= pre_data(Rpos)

Merging == \E f \in [0 .. now_pos - 1 -> 0 .. lim - 1] : Moves(f) /\ NowSorted(f)

SortInv ==
  /\ SortTypes
  /\ sorting = "fill" => Filling
  /\ sorting # "fill" => PreKeeps /\ PreSorted
  /\ sorting = "merge" => Heads /\ Merging
  /\ sorting = "done" => pending = {} /\ seglen + 1 >= lim


LEMMA StringsDiffer ==
  /\ \A b, k, c, j : String(b, k) = String(c, j) => b = c /\ k = j
  /\ \A k : ToPre(k).dst = String("a", k) /\ ToPre(k).src = String("in", k) /\ ToPre(k).by = "batch"
  /\ \A k, j : ToNow(k, j).dst = String(now_, k) /\ ToNow(k, j).src = String(pre, j) /\ ToNow(k, j).by = "batch"
  BY DEF String, ToPre, ToNow, Copy

LEMMA InStrings ==
  ASSUME NEW k \in 0 .. lim - 1
  PROVE  String("in", k) \in AllStrings /\ String("a", k) \in AllStrings /\ String("b", k) \in AllStrings
  BY DEF AllStrings, Strings_in

LEMMA Keys ==
  ASSUME SortTypes
  PROVE  lim \in Nat /\ \A j \in 1 .. lim : input[j] \in Nat
<1>1. input \in Seq(Nat)
  BY SortAssumption DEF SortTypes
<1> QED
  BY <1>1 DEF lim

LEMMA WithinLim ==
  ASSUME SortTypes, NEW k \in Nat
  PROVE  /\ Within(k) \in Nat /\ Within(k) <= lim /\ Within(k) <= k
         /\ (Within(k) = k \/ Within(k) = lim) /\ (k < lim => Within(k) = k)
  BY Keys DEF Within

LEMMA PreIsNat ==
  ASSUME SortTypes, NEW k \in 0 .. lim - 1
  PROVE  pre_data(k) \in Nat
  BY InStrings DEF SortTypes, pre_data

\* Between two multiples that follow each other there is none.
LEMMA BetweenMultiples ==
  ASSUME NEW s \in Nat \ {0}, NEW q \in Nat, NEW k \in Nat, q * s < k, k < q * s + s
  PROVE  k % s # 0
<1> DEFINE d == k \div s
<1>1. k = s * d + (k % s) /\ d \in Int
  BY DivMod
<1> HIDE DEF d
<1> SUFFICES ASSUME k % s = 0 PROVE FALSE
  OBVIOUS
<1>2. k = s * d
  BY <1>1
<1>3. CASE d <= q
  <2>1. s * d <= s * q
    BY <1>1, <1>3
  <2> QED
    BY <1>2, <2>1
<1>4. CASE d >= q + 1
  <2>1. s * d >= s * (q + 1)
    BY <1>1, <1>4
  <2>2. s * (q + 1) = q * s + s
    OBVIOUS
  <2> QED
    BY <1>2, <2>1, <2>2, <1>1
<1> QED
  BY <1>1, <1>3, <1>4

LEMMA MultipleMod ==
  ASSUME NEW s \in Nat \ {0}, NEW q \in Nat
  PROVE  (q * s) % s = 0
<1> DEFINE y == q * s
           d == y \div s
           r == y % s
<1>1. y \in Nat
  OBVIOUS
<1> HIDE DEF y
<1>2. y = s * d + r /\ d \in Int /\ r \in 0 .. s - 1
  BY <1>1, DivMod
<1> HIDE DEF d, r
<1>3. CASE d <= q - 1
  <2>1. s * d <= s * (q - 1)
    BY <1>2, <1>3
  <2>2. s * (q - 1) = y - s
    BY DEF y
  <2> QED
    BY <1>1, <1>2, <2>1, <2>2
<1>4. CASE d >= q + 1
  <2>1. s * d >= s * (q + 1)
    BY <1>2, <1>4
  <2>2. s * (q + 1) = y + s
    BY DEF y
  <2> QED
    BY <1>1, <1>2, <2>1, <2>2
<1>5. CASE d = q
  <2>1. s * d = y
    BY <1>5 DEF y
  <2>2. r = 0
    BY <1>1, <1>2, <2>1
  <2> QED
    BY <2>2 DEF r, y
<1> QED
  BY <1>2, <1>3, <1>4, <1>5

\* The heads are in the strings, the left run before the right one.
LEMMA HeadsFit ==
  ASSUME SortTypes, Heads
  PROVE  /\ Lposend \in Nat /\ Rposend \in Nat /\ lim \in Nat
         /\ seg <= Lposend /\ Lposend <= Rposend /\ Rposend <= lim
         /\ Lpos <= Lposend /\ Lposend <= Rpos /\ Rpos <= Rposend
         /\ now_pos <= Rpos /\ now_pos \in Nat /\ seg <= now_pos
         /\ Lposend <= seg + seglen /\ Rposend <= seg + 2 * seglen
         /\ Rpos < Rposend => Lposend = seg + seglen
<1>1. seg + seglen \in Nat /\ seg + 2 * seglen \in Nat /\ seg \in Nat /\ seglen \in Nat \ {0}
  BY DEF SortTypes
<1>2. /\ Lposend \in Nat /\ Lposend <= lim /\ Lposend <= seg + seglen
      /\ (Lposend = seg + seglen \/ Lposend = lim)
  BY <1>1, WithinLim DEF Lposend
<1>3. /\ Rposend \in Nat /\ Rposend <= lim /\ Rposend <= seg + 2 * seglen
      /\ (Rposend = seg + 2 * seglen \/ Rposend = lim)
  BY <1>1, WithinLim DEF Rposend
<1>4. seg < lim /\ Lpos \in seg .. Lposend /\ Rpos \in Lposend .. Rposend /\ now_pos = Lpos + Rpos - Lposend
  BY DEF Heads
<1>5. lim \in Nat
  BY Keys
<1>6. Lposend <= Rposend
  BY <1>1, <1>2, <1>3, <1>4, <1>5
<1> QED
  BY <1>1, <1>2, <1>3, <1>4, <1>5, <1>6

LEMMA TakenStrings ==
  ASSUME SortTypes, Heads
  PROVE  Taken \subseteq 0 .. lim - 1
  BY HeadsFit DEF Taken, SortTypes

\* The device does a copy: what it was to bring has arrived.
LEMMA SortPerforms == ASSUME SortInv, Perform, UNCHANGED sorter PROVE SortInv'
<1> USE DEF SortInv
<1>1. PICK c \in pending : mem' = [mem EXCEPT ![c.dst] = mem[c.src]] /\ pending' = pending \ {c}
  BY DEF Perform
<1>2. /\ input' = input /\ pre' = pre /\ seglen' = seglen /\ seg' = seg
      /\ Lpos' = Lpos /\ Rpos' = Rpos /\ now_pos' = now_pos /\ sorting' = sorting
  BY DEF sorter
<1>3. lim' = lim /\ now_' = now_ /\ AllStrings' = AllStrings /\ lim \in Nat
  BY <1>2, Keys DEF lim, now_, AllStrings, Strings_in
<1>4. SortTypes
  OBVIOUS
<1>5. ASSUME c.dst \in AllStrings, c.src \in AllStrings PROVE SortTypes'
  <2>1. mem' = [s \in AllStrings |-> mem'[s]]
    BY <1>1, <1>4 DEF SortTypes
  <2>2. ASSUME NEW s \in AllStrings PROVE mem'[s] \in Nat
    <3>1. mem'[s] = IF s = c.dst THEN mem[c.src] ELSE mem[s]
      BY <1>1, <1>4 DEF SortTypes
    <3> QED
      BY <3>1, <1>4, <1>5 DEF SortTypes
  <2> QED
    BY <1>2, <1>3, <1>4, <2>1, <2>2 DEF SortTypes
<1>6. \A s \in AllStrings : s # c.dst => mem'[s] = mem[s]
  BY <1>1, <1>4 DEF SortTypes
<1>7. c.dst \in AllStrings => mem'[c.dst] = mem[c.src]
  BY <1>1, <1>4 DEF SortTypes
<1>8. CASE sorting = "fill"
  <2>1. Filling
    BY <1>8
  <2>2. PICK j \in 0 .. seg - 1 : c = ToPre(j)
    BY <2>1 DEF Filling
  <2>3. j \in 0 .. lim - 1 /\ c.dst = String("a", j) /\ c.src = String("in", j)
    BY <2>1, <2>2, <1>3, <1>4, StringsDiffer DEF Filling, SortTypes
  <2>4. SortTypes'
    BY <2>3, <1>5, InStrings
  <2>5. \A k \in 0 .. lim - 1 : mem'[String("in", k)] = input[k + 1]
    BY <2>1, <2>3, <1>6, InStrings, StringsDiffer DEF Filling
  <2>6. ASSUME NEW k \in 0 .. seg - 1 PROVE mem'[String("a", k)] = input[k + 1] \/ ToPre(k) \in pending'
    <3>1. k \in 0 .. lim - 1
      BY <2>1, <1>3, <1>4 DEF Filling, SortTypes
    <3>2. CASE k = j
      <4>1. mem'[String("a", k)] = mem[String("in", k)]
        BY <3>2, <2>3, <1>7, InStrings
      <4> QED
        BY <4>1, <3>1, <2>1 DEF Filling
    <3>3. CASE k # j
      <4>1. ToPre(k) # c
        BY <2>2, <3>3, StringsDiffer
      <4>2. mem'[String("a", k)] = mem[String("a", k)]
        BY <3>1, <3>3, <2>3, <1>6, InStrings, StringsDiffer
      <4> QED
        BY <4>1, <4>2, <2>1, <1>1 DEF Filling
    <3> QED
      BY <3>2, <3>3
  <2>7. \A k : ToPre(k)' = ToPre(k) /\ String("a", k)' = String("a", k) /\ String("in", k)' = String("in", k)
    BY DEF ToPre, String, Copy
  <2>8. Filling'
    BY <2>1, <2>5, <2>6, <2>7, <1>1, <1>2, <1>3 DEF Filling
  <2> QED
    BY <2>4, <2>8, <1>8, <1>2
<1>9. CASE sorting = "merge"
  <2>1. Heads /\ PreKeeps /\ PreSorted
    BY <1>9
  <2>2. PICK f \in [0 .. now_pos - 1 -> 0 .. lim - 1] : Moves(f) /\ NowSorted(f)
    BY <1>9 DEF Merging
  <2>3. PICK j \in 0 .. now_pos - 1 : c = ToNow(j, f[j])
    BY <2>2 DEF Moves
  <2>4. now_pos <= lim /\ now_pos \in Nat
    BY <2>1, <1>4, HeadsFit DEF SortTypes
  <2>5. /\ j \in 0 .. lim - 1 /\ f[j] \in 0 .. lim - 1
        /\ c.dst = String(now_, j) /\ c.src = String(pre, f[j])
    BY <2>2, <2>3, <2>4, <1>3, StringsDiffer
  <2>6. \A k \in 0 .. lim - 1 : String(now_, k) \in AllStrings /\ String(pre, k) \in AllStrings
    BY <1>4, InStrings DEF now_, SortTypes
  <2>7. SortTypes'
    BY <2>5, <2>6, <1>5
  <2>8. pre # now_
    BY <1>4 DEF now_, SortTypes
  <2>9. ASSUME NEW k \in 0 .. lim - 1 PROVE pre_data(k)' = pre_data(k)
    <3>1. String(pre, k) # c.dst
      BY <2>5, <2>8, StringsDiffer
    <3>2. mem'[String(pre, k)] = mem[String(pre, k)]
      BY <3>1, <2>6, <1>6
    <3> QED
      BY <3>2, <1>2 DEF pre_data, String
  <2>10. \A k, l : ToNow(k, l)' = ToNow(k, l) /\ String(now_, k)' = String(now_, k)
    BY <1>2, <1>3 DEF ToNow, String, Copy
  <2>11. ASSUME NEW k \in 0 .. now_pos - 1
         PROVE  mem'[String(now_, k)] = pre_data(f[k]) \/ ToNow(k, f[k]) \in pending'
    <3>1. k \in 0 .. lim - 1
      BY <2>4, <1>3
    <3>2. CASE k = j
      <4>1. mem'[String(now_, k)] = mem[String(pre, f[k])]
        BY <3>2, <2>5, <2>6, <1>7
      <4> QED
        BY <4>1 DEF pre_data
    <3>3. CASE k # j
      <4>1. ToNow(k, f[k]) # c
        BY <2>3, <3>3, StringsDiffer
      <4>2. mem'[String(now_, k)] = mem[String(now_, k)]
        BY <3>1, <3>3, <2>5, <2>6, <1>6, StringsDiffer
      <4> QED
        BY <4>1, <4>2, <2>2, <1>1 DEF Moves
    <3> QED
      BY <3>2, <3>3
  <2>12. Taken' = Taken /\ Lposend' = Lposend /\ Rposend' = Rposend
    BY <1>2, <1>3 DEF Taken, Lposend, Rposend, Within
  <2>13. \A k \in 0 .. now_pos - 1 : f[k] \in 0 .. lim - 1
    BY <2>2
  <2>14. Moves(f)'
    <3>1. Numbers(f, now_pos, Taken)'
      BY <2>2, <2>12, <1>2 DEF Moves, Numbers
    <3>2. pending' \subseteq {ToNow(k, f[k]) : k \in 0 .. now_pos - 1}
      BY <2>2, <1>1 DEF Moves
    <3> QED
      BY <3>1, <3>2, <2>9, <2>10, <2>11, <2>13, <1>2 DEF Moves
  <2>15. NowSorted(f)'
    <3>1. /\ Lpos < Lposend => Lpos \in 0 .. lim - 1
          /\ Rpos < Rposend => Rpos \in 0 .. lim - 1
      BY <2>1, <1>4, HeadsFit DEF SortTypes
    <3>2. \A k \in 0 .. now_pos - 1 : pre_data(f[k])' = pre_data(f[k])
      BY <2>9, <2>13
    <3>3. now_pos > seg => now_pos - 1 \in 0 .. now_pos - 1
      BY <2>4, <1>4 DEF SortTypes
    <3>4. \A k \in 1 .. now_pos - 1 : k - 1 \in 0 .. now_pos - 1 /\ k \in 0 .. now_pos - 1
      BY <2>4
    <3>5. /\ Lpos < Lposend => pre_data(Lpos)' = pre_data(Lpos)
          /\ Rpos < Rposend => pre_data(Rpos)' = pre_data(Rpos)
      BY <3>1, <2>9, <1>2
    <3> QED
      BY <3>2, <3>3, <3>4, <3>5, <2>2, <2>12, <1>2 DEF NowSorted
  <2>16. PreKeeps'
    <3>1. PICK g \in [0 .. lim - 1 -> 0 .. lim - 1] :
            Numbers(g, lim, 0 .. lim - 1) /\ \A k \in 0 .. lim - 1 : pre_data(k) = input[g[k] + 1]
      BY <2>1 DEF PreKeeps
    <3>2. Numbers(g, lim, 0 .. lim - 1)'
      BY <3>1, <1>3 DEF Numbers
    <3>3. \A k \in 0 .. lim - 1 : pre_data(k)' = input'[g[k] + 1]
      BY <3>1, <2>9, <1>2
    <3> QED
      BY <3>1, <3>2, <3>3, <1>3 DEF PreKeeps
  <2>17. PreSorted'
    BY <2>1, <2>9, <1>2, <1>3 DEF PreSorted
  <2>18. Heads'
    BY <2>1, <2>12, <1>2, <1>3 DEF Heads
  <2>19. Merging'
    BY <2>2, <2>14, <2>15, <1>2, <1>3 DEF Merging
  <2> QED
    BY <2>7, <2>16, <2>17, <2>18, <2>19, <1>2, <1>9
<1>10. CASE sorting = "done"
  BY <1>10
<1> QED
  BY <1>4, <1>8, <1>9, <1>10 DEF SortTypes

LEMMA SortStarts == ASSUME SortInit PROVE SortInv
<1>1. /\ input \in Inputs /\ pending = {} /\ pre = "a" /\ sorting = "fill"
      /\ seglen = 1 /\ seg = 0 /\ Lpos = 0 /\ Rpos = 0 /\ now_pos = 0
      /\ mem = [s \in AllStrings |-> IF s[1] = "in" THEN input[s[2] + 1] ELSE Stale]
  BY DEF SortInit, AllStrings
<1>2. lim \in Nat /\ \A j \in 1 .. lim : input[j] \in Nat
  <2>1. input \in Seq(Nat)
    BY <1>1, SortAssumption
  <2> QED
    BY <2>1 DEF lim
<1>3. \A s \in AllStrings : mem[s] \in Nat
  <2>1. ASSUME NEW s \in AllStrings PROVE mem[s] \in Nat
    <3>1. \E k \in 0 .. lim - 1 : s = String("in", k) \/ s = String("a", k) \/ s = String("b", k)
      BY DEF AllStrings, Strings_in
    <3>2. PICK k \in 0 .. lim - 1 : s = String("in", k) \/ s = String("a", k) \/ s = String("b", k)
      BY <3>1
    <3>3. mem[s] = IF s[1] = "in" THEN input[s[2] + 1] ELSE Stale
      BY <1>1
    <3> QED
      BY <3>2, <3>3, <1>2 DEF String, Stale
  <2> QED
    BY <2>1
<1>4. SortTypes
  BY <1>1, <1>3 DEF SortTypes
<1>5. \A k \in 0 .. lim - 1 : mem[String("in", k)] = input[k + 1]
  <2>1. ASSUME NEW k \in 0 .. lim - 1 PROVE mem[String("in", k)] = input[k + 1]
    BY <1>1, InStrings DEF String
  <2> QED
    BY <2>1
<1> QED
  BY <1>1, <1>2, <1>4, <1>5 DEF SortInv, Filling

LEMMA FillStep == ASSUME SortInv, FillPre PROVE SortInv'
<1>1. /\ sorting = "fill" /\ seg < lim /\ pending' = pending \union {ToPre(seg)} /\ mem' = mem
      /\ input' = input /\ pre' = pre /\ seglen' = seglen /\ seg' = seg + 1
      /\ Lpos' = Lpos /\ Rpos' = Rpos /\ now_pos' = now_pos /\ sorting' = sorting
  BY DEF FillPre, Submit, ToPre
<1>2. SortTypes /\ Filling
  BY <1>1 DEF SortInv
<1>3. lim' = lim /\ AllStrings' = AllStrings /\ lim \in Nat
  BY <1>1, <1>2, Keys DEF lim, AllStrings, Strings_in
<1>4. SortTypes'
  BY <1>1, <1>2, <1>3 DEF SortTypes
<1>5. \A k : ToPre(k)' = ToPre(k) /\ String("a", k)' = String("a", k) /\ String("in", k)' = String("in", k)
  BY DEF ToPre, String, Copy
<1>6. pending' \subseteq {ToPre(k) : k \in 0 .. (seg + 1) - 1}
  BY <1>1, <1>2 DEF Filling, SortTypes
<1>7. ASSUME NEW k \in 0 .. (seg + 1) - 1 PROVE mem[String("a", k)] = input[k + 1] \/ ToPre(k) \in pending'
  BY <1>1, <1>2 DEF Filling, SortTypes
<1>8. Filling'
  <2>1. pre' = "a" /\ seg' <= lim' /\ seg' = seg + 1
    BY <1>1, <1>2, <1>3 DEF Filling, SortTypes
  <2>2. pending' \subseteq {ToPre(k)' : k \in 0 .. seg' - 1}
    BY <1>5, <1>6, <2>1
  <2>3. \A k \in 0 .. lim' - 1 : mem'[String("in", k)'] = input'[k + 1]
    BY <1>1, <1>2, <1>3, <1>5 DEF Filling
  <2>4. \A k \in 0 .. seg' - 1 : mem'[String("a", k)'] = input'[k + 1] \/ ToPre(k)' \in pending'
    BY <1>1, <1>5, <1>7, <2>1
  <2> QED
    BY <2>1, <2>2, <2>3, <2>4 DEF Filling
<1> QED
  BY <1>1, <1>4, <1>8 DEF SortInv

\* A pass begins with nothing taken.
LEMMA PassStarts ==
  ASSUME SortTypes, NEW s \in Nat \ {0}, StartPass(s), pending = {},
         UNCHANGED <<mem, pending, input>>, pre' \in {"a", "b"}, PreKeeps',
         \A j \in 1 .. lim - 1 : j % s # 0 => pre_data(j - 1)' <= pre_data(j)'
  PROVE  SortInv'
<1>1. seglen' = s /\ now_pos' = 0 /\ mem' = mem /\ pending' = {} /\ input' = input
  BY DEF StartPass
<1>2. lim' = lim /\ AllStrings' = AllStrings /\ lim \in Nat
  BY <1>1, Keys DEF lim, AllStrings, Strings_in
<1>3. PreSorted'
  BY <1>1, <1>2 DEF PreSorted
<1>4. CASE s + 1 >= lim
  <2>1. sorting' = "done" /\ seg' = seg /\ Lpos' = Lpos /\ Rpos' = Rpos
    BY <1>2, <1>4 DEF StartPass
  <2>2. SortTypes'
    BY <1>1, <1>2, <2>1 DEF SortTypes
  <2> QED
    BY <1>1, <1>2, <1>3, <1>4, <2>1, <2>2 DEF SortInv
<1>5. CASE s + 1 < lim
  <2>1. sorting' = "merge" /\ seg' = 0 /\ Lpos' = 0 /\ Rpos' = Within(s)
    BY <1>2, <1>5 DEF StartPass, Segment
  <2>2. Within(s) \in Nat /\ Within(2 * s) \in Nat /\ Within(s) <= Within(2 * s)
    BY <1>2 DEF Within
  <2>3. SortTypes'
    BY <1>1, <1>2, <2>1, <2>2 DEF SortTypes
  <2>4. Lposend' = Within(s) /\ Rposend' = Within(2 * s)
    BY <1>1, <1>2, <2>1 DEF Lposend, Rposend, Within
  <2>5. seg' = 0 * (2 * seglen') /\ 0 \in Nat
    BY <1>1, <2>1
  <2>6. Heads'
    <3>1. Lpos' \in seg' .. Lposend' /\ Rpos' \in Lposend' .. Rposend'
      BY <2>1, <2>2, <2>4
    <3>2. now_pos' = Lpos' + Rpos' - Lposend' /\ seg' < lim'
      BY <1>1, <1>2, <1>5, <2>1, <2>2, <2>4
    <3>3. \E q \in Nat : seg' = q * (2 * seglen')
      BY <2>5
    <3> QED
      BY <3>1, <3>2, <3>3 DEF Heads
  <2>7. Taken' = {}
    BY <2>1, <2>2, <2>4 DEF Taken
  <2> DEFINE none == [k \in 0 .. 0 - 1 |-> 0]
  <2>8. none \in [0 .. 0 - 1 -> 0 .. lim - 1] /\ Moves(none)' /\ NowSorted(none)'
    <3>1. 0 .. 0 - 1 = {} /\ 1 .. 0 - 1 = {}
      OBVIOUS
    <3>2. Numbers(none, now_pos, Taken)'
      BY <1>1, <2>7, <3>1 DEF Numbers
    <3>3. Moves(none)'
      BY <1>1, <3>1, <3>2 DEF Moves
    <3>4. NowSorted(none)'
      BY <1>1, <2>1, <3>1 DEF NowSorted
    <3> QED
      BY <3>1, <3>3, <3>4
  <2> HIDE DEF none
  <2>9. Merging'
    BY <1>1, <1>2, <2>8 DEF Merging
  <2> QED
    BY <1>3, <2>1, <2>3, <2>6, <2>9 DEF SortInv
<1> QED
  BY <1>2, <1>4, <1>5

LEMMA EndFillStep == ASSUME SortInv, EndFill PROVE SortInv'
<1>1. /\ sorting = "fill" /\ seg = lim /\ Arrived /\ StartPass(1)
      /\ mem' = mem /\ pending' = pending /\ input' = input /\ pre' = pre
  BY DEF EndFill
<1>2. SortTypes /\ Filling
  BY <1>1 DEF SortInv
<1>3. pending = {}
  BY <1>1, <1>2, StringsDiffer DEF Filling, Arrived, Finished
<1>4. lim' = lim /\ lim \in Nat
  BY <1>1, <1>2, Keys DEF lim
<1>5. ASSUME NEW k \in 0 .. lim - 1 PROVE pre_data(k)' = input[k + 1]
  BY <1>1, <1>2, <1>3 DEF pre_data, Filling, String
<1>6. PreKeeps'
  <2> DEFINE same == [k \in 0 .. lim - 1 |-> k]
  <2>1. same \in [0 .. lim - 1 -> 0 .. lim - 1] /\ Numbers(same, lim, 0 .. lim - 1)
    BY DEF Numbers
  <2>2. \A k \in 0 .. lim - 1 : pre_data(k)' = input'[same[k] + 1]
    BY <1>1, <1>5
  <2>3. Numbers(same, lim, 0 .. lim - 1)'
    BY <1>4, <2>1 DEF Numbers
  <2> HIDE DEF same
  <2> QED
    BY <1>4, <2>1, <2>2, <2>3 DEF PreKeeps
<1>7. \A j \in 1 .. lim - 1 : j % 1 = 0
  BY <1>4
<1> QED
  BY <1>1, <1>2, <1>3, <1>6, <1>7, PassStarts DEF SortTypes

\* The string from goes to the end of now.
LEMMA Takes ==
  ASSUME SortInv, sorting = "merge", NEW from \in 0 .. lim - 1, from \notin Taken, Take(from),
         Lpos' \in Nat, Rpos' \in Nat, Heads', Lposend' = Lposend, Rposend' = Rposend,
         Taken' = Taken \union {from},
         NEW f \in [0 .. now_pos - 1 -> 0 .. lim - 1], Moves(f), NowSorted(f),
         now_pos > seg => pre_data(f[now_pos - 1]) <= pre_data(from),
         Lpos' < Lposend => Lpos' \in 0 .. lim - 1 /\ pre_data(from) <= pre_data(Lpos'),
         Rpos' < Rposend => Rpos' \in 0 .. lim - 1 /\ pre_data(from) <= pre_data(Rpos')
  PROVE  SortInv'
<1>1. /\ mem' = mem /\ pending' = pending \union {ToNow(now_pos, from)} /\ now_pos' = now_pos + 1
      /\ input' = input /\ pre' = pre /\ seglen' = seglen /\ seg' = seg /\ sorting' = sorting
  BY DEF Take, Submit, ToNow
<1>2. SortTypes /\ Heads /\ PreKeeps /\ PreSorted
  BY DEF SortInv
<1>3. lim' = lim /\ now_' = now_ /\ AllStrings' = AllStrings /\ lim \in Nat
  BY <1>1, <1>2, Keys DEF lim, now_, AllStrings, Strings_in
<1>4. now_pos \in Nat /\ seg \in Nat /\ seg <= now_pos
  BY <1>2, HeadsFit DEF SortTypes
<1>5. SortTypes'
  BY <1>1, <1>2, <1>3, <1>4 DEF SortTypes
<1>6. PreKeeps' /\ PreSorted'
  <2>1. \A k : pre_data(k)' = pre_data(k)
    BY <1>1 DEF pre_data, String
  <2> QED
    BY <1>1, <1>2, <1>3, <2>1 DEF PreKeeps, PreSorted, Numbers
<1>7. \A k, j : ToNow(k, j)' = ToNow(k, j) /\ String(now_, k)' = String(now_, k)
  BY <1>1, <1>3 DEF ToNow, String, Copy
<1>8. PICK h \in [0 .. now_pos -> 0 .. lim - 1] : h[now_pos] = from /\ \A k \in 0 .. now_pos - 1 : h[k] = f[k]
  <2> DEFINE longer == [k \in 0 .. now_pos |-> IF k = now_pos THEN from ELSE f[k]]
  <2>1. longer \in [0 .. now_pos -> 0 .. lim - 1]
    BY <1>4
  <2>2. longer[now_pos] = from /\ \A k \in 0 .. now_pos - 1 : longer[k] = f[k]
    BY <1>4
  <2> QED
    BY <2>1, <2>2
<1>9. h \in [0 .. now_pos -> Taken \union {from}]
  <2>1. ASSUME NEW k \in 0 .. now_pos PROVE h[k] \in Taken \union {from}
    BY <1>4, <1>8 DEF Moves, Numbers
  <2> QED
    BY <2>1, <1>8
<1>12. Numbers(h, now_pos + 1, Taken \union {from})
  <2>1. \A k \in 0 .. now_pos - 1 : f[k] \in Taken
    BY DEF Moves, Numbers
  <2>2. ASSUME NEW j \in 0 .. now_pos, NEW k \in 0 .. now_pos, h[j] = h[k] PROVE j = k
    <3>1. CASE j \in 0 .. now_pos - 1 /\ k \in 0 .. now_pos - 1
      BY <3>1, <2>2, <1>8 DEF Moves, Numbers
    <3>2. CASE j = now_pos /\ k \in 0 .. now_pos - 1
      BY <3>2, <2>1, <2>2, <1>8
    <3>3. CASE k = now_pos /\ j \in 0 .. now_pos - 1
      BY <3>3, <2>1, <2>2, <1>8
    <3>4. \A l \in 0 .. now_pos : l = now_pos \/ l \in 0 .. now_pos - 1
      BY <1>4
    <3> QED
      BY <3>1, <3>2, <3>3, <3>4
  <2>3. ASSUME NEW s \in Taken \union {from} PROVE \E j \in 0 .. now_pos : h[j] = s
    <3>1. CASE s = from
      BY <3>1, <1>4, <1>8
    <3>2. CASE s \in Taken
      <4>1. PICK j \in 0 .. now_pos - 1 : f[j] = s
        BY <3>2 DEF Moves, Numbers
      <4>2. j \in 0 .. now_pos
        BY <1>4
      <4> QED
        BY <4>1, <4>2, <1>8
    <3> QED
      BY <3>1, <3>2
  <2>4. (now_pos + 1) - 1 = now_pos
    BY <1>4
  <2> QED
    BY <1>9, <2>2, <2>3, <2>4 DEF Numbers
<1>13. (now_pos + 1) - 1 = now_pos /\ \A k \in 0 .. now_pos : k = now_pos \/ k \in 0 .. now_pos - 1
  BY <1>4
<1>14. Moves(h)'
  <2>1. Numbers(h, now_pos, Taken)'
    BY <1>1, <1>12 DEF Numbers
  <2>2. pending' \subseteq {ToNow(k, h[k]) : k \in 0 .. now_pos}
    <3>1. ASSUME NEW c \in pending' PROVE \E k \in 0 .. now_pos : c = ToNow(k, h[k])
      <4>1. CASE c = ToNow(now_pos, from)
        BY <4>1, <1>4, <1>8
      <4>2. CASE c \in pending
        <5>1. PICK k \in 0 .. now_pos - 1 : c = ToNow(k, f[k])
          BY <4>2 DEF Moves
        <5>2. k \in 0 .. now_pos
          BY <1>4
        <5> QED
          BY <5>1, <5>2, <1>8
      <4> QED
        BY <4>1, <4>2, <1>1
    <3> QED
      BY <3>1
  <2>3. ASSUME NEW k \in 0 .. now_pos
        PROVE  mem[String(now_, k)] = pre_data(h[k]) \/ ToNow(k, h[k]) \in pending'
    <3>1. CASE k = now_pos
      BY <3>1, <1>1, <1>8
    <3>2. CASE k \in 0 .. now_pos - 1
      BY <3>2, <1>1, <1>8 DEF Moves
    <3> QED
      BY <3>1, <3>2, <1>13
  <2>4. \A k : pre_data(k)' = pre_data(k)
    BY <1>1 DEF pre_data, String
  <2>5. now_pos' - 1 = now_pos
    BY <1>1, <1>13
  <2>6. pending' \subseteq {ToNow(k, h[k])' : k \in 0 .. now_pos' - 1}
    BY <2>2, <2>5, <1>7
  <2>7. \A k \in 0 .. now_pos' - 1 : mem'[String(now_, k)'] = pre_data(h[k])' \/ ToNow(k, h[k])' \in pending'
    BY <2>3, <2>4, <2>5, <1>7, <1>1
  <2> QED
    BY <2>1, <2>6, <2>7 DEF Moves
<1>15. NowSorted(h)'
  <2>1. \A k : pre_data(k)' = pre_data(k)
    BY <1>1 DEF pre_data, String
  <2>2. ASSUME NEW k \in 1 .. now_pos, k % (2 * seglen) # 0 PROVE pre_data(h[k - 1]) <= pre_data(h[k])
    <3>1. CASE k = now_pos
      <4>1. PICK q \in Nat : seg = q * (2 * seglen)
        BY <1>2 DEF Heads
      <4>2. 2 * seglen \in Nat \ {0}
        BY <1>2 DEF SortTypes
      <4>3. now_pos > seg
        BY <3>1, <4>1, <4>2, <2>2, <1>4, MultipleMod
      <4>4. now_pos - 1 \in 0 .. now_pos - 1
        BY <4>3, <1>4
      <4> QED
        BY <3>1, <4>3, <4>4, <1>8
    <3>2. CASE k \in 1 .. now_pos - 1
      <4>1. k \in 0 .. now_pos - 1 /\ k - 1 \in 0 .. now_pos - 1
        BY <3>2, <1>4
      <4> QED
        BY <3>2, <4>1, <2>2, <1>8 DEF NowSorted
    <3> QED
      BY <3>1, <3>2, <1>4
  <2>3. Lposend' = Lposend /\ Rposend' = Rposend /\ now_pos' - 1 = now_pos
    BY <1>1, <1>13
  <2>4. \A k \in 1 .. now_pos' - 1 : k % (2 * seglen') # 0 => pre_data(h[k - 1])' <= pre_data(h[k])'
    BY <2>1, <2>2, <2>3, <1>1
  <2>5. h[now_pos' - 1] = from
    BY <2>3, <1>8
  <2>6. /\ Lpos' < Lposend' => pre_data(h[now_pos - 1])' <= pre_data(Lpos)'
        /\ Rpos' < Rposend' => pre_data(h[now_pos - 1])' <= pre_data(Rpos)'
    <3>1. pre_data(h[now_pos - 1])' = pre_data(from)
      BY <2>1, <2>5, <1>1 DEF pre_data, String
    <3>2. pre_data(Lpos)' = pre_data(Lpos') /\ pre_data(Rpos)' = pre_data(Rpos')
      BY <1>1 DEF pre_data, String
    <3> QED
      BY <3>1, <3>2
  <2> QED
    BY <2>4, <2>6 DEF NowSorted
<1>16. Merging'
  BY <1>1, <1>3, <1>8, <1>13, <1>14, <1>15 DEF Merging
<1> QED
  BY <1>1, <1>5, <1>6, <1>16 DEF SortInv

\* Next to each other in a run of pre.
LEMMA RunSorted ==
  ASSUME SortTypes, PreSorted, NEW q \in Nat, NEW k \in Nat,
         q * seglen <= k, k + 1 < q * seglen + seglen, k + 1 < lim
  PROVE  pre_data(k) <= pre_data(k + 1)
<1>1. seglen \in Nat \ {0} /\ lim \in Nat
  BY Keys DEF SortTypes
<1>2. q * seglen \in Nat
  BY <1>1
<1>3. (k + 1) % seglen # 0
  <2>1. q * seglen < k + 1
    BY <1>1, <1>2
  <2>2. k + 1 \in Nat /\ k + 1 < q * seglen + seglen
    OBVIOUS
  <2> QED
    BY ONLY <1>1, <2>1, <2>2, q \in Nat, BetweenMultiples
<1>4. k + 1 \in 1 .. lim - 1 /\ (k + 1) - 1 = k
  BY <1>1
<1> QED
  BY <1>3, <1>4 DEF PreSorted

\* The two runs that are merged begin at multiples of seglen.
LEMMA RunsOfHeads ==
  ASSUME SortTypes, Heads
  PROVE  /\ \E q \in Nat : seg = q * seglen
         /\ \E q \in Nat : seg + seglen = q * seglen
<1>1. PICK q \in Nat : seg = q * (2 * seglen)
  BY DEF Heads
<1>2. seglen \in Nat \ {0}
  BY DEF SortTypes
<1>3. seg = (2 * q) * seglen /\ seg + seglen = (2 * q + 1) * seglen
  BY <1>1, <1>2
<1>4. 2 * q \in Nat /\ 2 * q + 1 \in Nat
  OBVIOUS
<1> QED
  BY <1>3, <1>4

LEMMA TakeLeftStep == ASSUME SortInv, TakeLeft PROVE SortInv'
<1>1. /\ sorting = "merge" /\ Lpos < Lposend /\ (Rpos < Rposend => pre_data(Lpos) < pre_data(Rpos))
      /\ Take(Lpos) /\ Lpos' = Lpos + 1 /\ Rpos' = Rpos
  BY DEF TakeLeft
<1>2. SortTypes /\ Heads /\ PreSorted
  BY <1>1 DEF SortInv
<1>3. PICK f \in [0 .. now_pos - 1 -> 0 .. lim - 1] : Moves(f) /\ NowSorted(f)
  BY <1>1 DEF SortInv, Merging
<1>4. /\ Lposend \in Nat /\ Rposend \in Nat /\ lim \in Nat /\ seg \in Nat /\ Lpos \in Nat /\ Rpos \in Nat
      /\ seg <= Lpos /\ Lposend <= Rpos /\ Rpos <= Rposend /\ Rposend <= lim
      /\ now_pos = Lpos + Rpos - Lposend /\ now_pos \in Nat /\ Lposend <= seg + seglen /\ seglen \in Nat \ {0}
  BY <1>2, HeadsFit DEF SortTypes, Heads
<1>5. input' = input /\ seglen' = seglen /\ seg' = seg /\ now_pos' = now_pos + 1
  BY <1>1 DEF Take
<1>6. lim' = lim /\ Lposend' = Lposend /\ Rposend' = Rposend
  BY <1>5 DEF lim, Lposend, Rposend, Within
<1>7. Heads'
  <2>1. \E q \in Nat : seg' = q * (2 * seglen')
    BY <1>2, <1>5 DEF Heads
  <2>2. seg' < lim' /\ Lpos' \in seg' .. Lposend' /\ Rpos' \in Lposend' .. Rposend'
    BY <1>1, <1>2, <1>4, <1>5, <1>6 DEF Heads
  <2>3. now_pos' = Lpos' + Rpos' - Lposend'
    BY <1>1, <1>4, <1>5, <1>6
  <2> QED
    BY <2>1, <2>2, <2>3 DEF Heads
<1>8. Taken' = Taken \union {Lpos} /\ Lpos \notin Taken /\ Lpos \in 0 .. lim - 1
  BY <1>1, <1>4, <1>6 DEF Taken
<1>9. Lpos' < Lposend => Lpos' \in 0 .. lim - 1 /\ pre_data(Lpos) <= pre_data(Lpos')
  <2> SUFFICES ASSUME Lpos + 1 < Lposend PROVE Lpos + 1 \in 0 .. lim - 1 /\ pre_data(Lpos) <= pre_data(Lpos + 1)
    BY <1>1
  <2>1. PICK q \in Nat : seg = q * seglen
    BY <1>2, RunsOfHeads
  <2>2. q * seglen <= Lpos /\ Lpos + 1 < q * seglen + seglen /\ Lpos + 1 < lim
    BY <1>4, <2>1
  <2>3. pre_data(Lpos) <= pre_data(Lpos + 1)
    BY <1>2, <1>4, <2>2, RunSorted
  <2> QED
    BY <1>4, <2>2, <2>3
<1>10. Rpos' < Rposend => Rpos' \in 0 .. lim - 1 /\ pre_data(Lpos) <= pre_data(Rpos')
  <2> SUFFICES ASSUME Rpos < Rposend PROVE Rpos \in 0 .. lim - 1 /\ pre_data(Lpos) <= pre_data(Rpos)
    BY <1>1
  <2>1. Rpos \in 0 .. lim - 1
    BY <1>4
  <2>2. pre_data(Lpos) \in Nat /\ pre_data(Rpos) \in Nat
    BY <1>2, <1>8, <2>1, PreIsNat
  <2> QED
    BY <1>1, <2>1, <2>2
<1>11. now_pos > seg => pre_data(f[now_pos - 1]) <= pre_data(Lpos)
  BY <1>1, <1>3 DEF NowSorted
<1>12. Lpos' \in Nat /\ Rpos' \in Nat
  BY <1>1, <1>4
<1> QED
  BY <1>1, <1>3, <1>6, <1>7, <1>8, <1>9, <1>10, <1>11, <1>12, Takes

LEMMA TakeRightStep == ASSUME SortInv, TakeRight PROVE SortInv'
<1>1. /\ sorting = "merge" /\ Rpos < Rposend /\ (Lpos < Lposend => pre_data(Lpos) >= pre_data(Rpos))
      /\ Take(Rpos) /\ Rpos' = Rpos + 1 /\ Lpos' = Lpos
  BY DEF TakeRight
<1>2. SortTypes /\ Heads /\ PreSorted
  BY <1>1 DEF SortInv
<1>3. PICK f \in [0 .. now_pos - 1 -> 0 .. lim - 1] : Moves(f) /\ NowSorted(f)
  BY <1>1 DEF SortInv, Merging
<1>4. /\ Lposend \in Nat /\ Rposend \in Nat /\ lim \in Nat /\ seg \in Nat /\ Lpos \in Nat /\ Rpos \in Nat
      /\ seg <= Lpos /\ Lpos <= Lposend /\ Lposend <= Rpos /\ Rpos <= Rposend /\ Rposend <= lim
      /\ now_pos = Lpos + Rpos - Lposend /\ now_pos \in Nat /\ seglen \in Nat \ {0}
      /\ Lposend = seg + seglen /\ Rposend <= seg + 2 * seglen
  BY <1>1, <1>2, HeadsFit DEF SortTypes, Heads
<1>5. input' = input /\ seglen' = seglen /\ seg' = seg /\ now_pos' = now_pos + 1
  BY <1>1 DEF Take
<1>6. lim' = lim /\ Lposend' = Lposend /\ Rposend' = Rposend
  BY <1>5 DEF lim, Lposend, Rposend, Within
<1>7. Heads'
  <2>1. \E q \in Nat : seg' = q * (2 * seglen')
    BY <1>2, <1>5 DEF Heads
  <2>2. seg' < lim' /\ Lpos' \in seg' .. Lposend' /\ Rpos' \in Lposend' .. Rposend'
    BY <1>1, <1>2, <1>4, <1>5, <1>6 DEF Heads
  <2>3. now_pos' = Lpos' + Rpos' - Lposend'
    BY <1>1, <1>4, <1>5, <1>6
  <2> QED
    BY <2>1, <2>2, <2>3 DEF Heads
<1>8. Taken' = Taken \union {Rpos} /\ Rpos \notin Taken /\ Rpos \in 0 .. lim - 1
  BY <1>1, <1>4, <1>6 DEF Taken
<1>9. Rpos' < Rposend => Rpos' \in 0 .. lim - 1 /\ pre_data(Rpos) <= pre_data(Rpos')
  <2> SUFFICES ASSUME Rpos + 1 < Rposend PROVE Rpos + 1 \in 0 .. lim - 1 /\ pre_data(Rpos) <= pre_data(Rpos + 1)
    BY <1>1
  <2>1. PICK q \in Nat : seg + seglen = q * seglen
    BY <1>2, RunsOfHeads
  <2>2. q * seglen <= Rpos /\ Rpos + 1 < q * seglen + seglen /\ Rpos + 1 < lim
    BY <1>4, <2>1
  <2>3. pre_data(Rpos) <= pre_data(Rpos + 1)
    BY <1>2, <1>4, <2>2, RunSorted
  <2> QED
    BY <1>4, <2>2, <2>3
<1>10. Lpos' < Lposend => Lpos' \in 0 .. lim - 1 /\ pre_data(Rpos) <= pre_data(Lpos')
  <2> SUFFICES ASSUME Lpos < Lposend PROVE Lpos \in 0 .. lim - 1 /\ pre_data(Rpos) <= pre_data(Lpos)
    BY <1>1
  <2>1. Lpos \in 0 .. lim - 1
    BY <1>4
  <2>2. pre_data(Lpos) \in Nat /\ pre_data(Rpos) \in Nat
    BY <1>2, <1>8, <2>1, PreIsNat
  <2> QED
    BY <1>1, <2>1, <2>2
<1>11. now_pos > seg => pre_data(f[now_pos - 1]) <= pre_data(Rpos)
  BY <1>1, <1>3 DEF NowSorted
<1>12. Lpos' \in Nat /\ Rpos' \in Nat
  BY <1>1, <1>4
<1> QED
  BY <1>1, <1>3, <1>6, <1>7, <1>8, <1>9, <1>10, <1>11, <1>12, Takes

\* The next two runs begin where these end.
LEMMA NextSegmentStep == ASSUME SortInv, NextSegment PROVE SortInv'
<1>1. /\ sorting = "merge" /\ Lpos = Lposend /\ Rpos = Rposend /\ seg + 2 * seglen < lim
      /\ seg' = seg + 2 * seglen /\ Lpos' = seg + 2 * seglen /\ Rpos' = Within(seg + 2 * seglen + seglen)
      /\ mem' = mem /\ pending' = pending /\ input' = input /\ pre' = pre
      /\ seglen' = seglen /\ now_pos' = now_pos /\ sorting' = sorting
  BY DEF NextSegment, Segment
<1>2. SortTypes /\ Heads /\ PreKeeps /\ PreSorted
  BY <1>1 DEF SortInv
<1>3. lim' = lim /\ AllStrings' = AllStrings /\ lim \in Nat /\ now_' = now_
  BY <1>1, <1>2, Keys DEF lim, AllStrings, Strings_in, now_
<1>4. seg \in Nat /\ seglen \in Nat \ {0} /\ seg' \in Nat
  BY <1>1, <1>2 DEF SortTypes
<1>5. PICK q \in Nat : seg = q * (2 * seglen)
  BY <1>2 DEF Heads
<1>6. Rposend = seg + 2 * seglen /\ now_pos = Rposend /\ Lposend \in Nat /\ Lposend <= Rposend
  BY <1>1, <1>2, <1>3, <1>4, WithinLim, HeadsFit DEF Rposend, Heads
<1>7. /\ Lposend' = Within(seg' + seglen) /\ Rposend' = Within(seg' + 2 * seglen) /\ Rpos' = Lposend'
      /\ seg' + seglen \in Nat /\ seg' + 2 * seglen \in Nat
  BY <1>1, <1>3, <1>4 DEF Lposend, Rposend, Within
<1>8. Lposend' \in Nat /\ Rposend' \in Nat /\ Lposend' <= Rposend' /\ seg' <= Lposend'
  BY <1>1, <1>3, <1>4, <1>7 DEF Within
<1>9. SortTypes'
  BY <1>1, <1>2, <1>3, <1>4, <1>7, <1>8 DEF SortTypes
<1>10. Heads'
  <2>1. seg' = (q + 1) * (2 * seglen') /\ q + 1 \in Nat
    <3>1. (q + 1) * (2 * seglen) = q * (2 * seglen) + 2 * seglen
      BY <1>4
    <3> QED
      BY <1>1, <1>5, <3>1
  <2>2. \E d \in Nat : seg' = d * (2 * seglen')
    BY <2>1
  <2>3. seg' < lim' /\ Lpos' \in seg' .. Lposend' /\ Rpos' \in Lposend' .. Rposend'
    BY <1>1, <1>3, <1>4, <1>7, <1>8
  <2>4. now_pos' = Lpos' + Rpos' - Lposend'
    BY <1>1, <1>4, <1>6, <1>7, <1>8
  <2> QED
    BY <2>2, <2>3, <2>4 DEF Heads
<1>11. Taken' = Taken
  BY <1>1, <1>4, <1>6, <1>7, <1>8 DEF Taken
<1>12. PICK f \in [0 .. now_pos - 1 -> 0 .. lim - 1] : Moves(f) /\ NowSorted(f)
  BY <1>1 DEF SortInv, Merging
<1>13. \A k, j : pre_data(k)' = pre_data(k) /\ ToNow(k, j)' = ToNow(k, j) /\ String(now_, k)' = String(now_, k)
  BY <1>1, <1>3 DEF pre_data, String, ToNow, Copy
<1>14. Moves(f)'
  <2>1. Numbers(f, now_pos, Taken)'
    BY <1>1, <1>11, <1>12 DEF Moves, Numbers
  <2> QED
    BY <1>1, <1>12, <1>13, <2>1 DEF Moves
<1>15. NowSorted(f)'
  BY <1>1, <1>4, <1>6, <1>12, <1>13 DEF NowSorted
<1>16. Merging'
  BY <1>1, <1>3, <1>12, <1>14, <1>15 DEF Merging
<1>17. PreKeeps'
  <2>1. PICK g \in [0 .. lim - 1 -> 0 .. lim - 1] :
          Numbers(g, lim, 0 .. lim - 1) /\ \A k \in 0 .. lim - 1 : pre_data(k) = input[g[k] + 1]
    BY <1>2 DEF PreKeeps
  <2>2. Numbers(g, lim, 0 .. lim - 1)' /\ \A k \in 0 .. lim - 1 : pre_data(k)' = input'[g[k] + 1]
    BY <1>1, <1>3, <1>13, <2>1 DEF Numbers
  <2> QED
    BY <1>3, <2>1, <2>2 DEF PreKeeps
<1>18. PreSorted'
  BY <1>1, <1>2, <1>3, <1>13 DEF PreSorted
<1> QED
  BY <1>1, <1>9, <1>10, <1>16, <1>17, <1>18 DEF SortInv

\* A pass is over when all strings are taken; now becomes pre.
LEMMA EndPassStep == ASSUME SortInv, EndPass PROVE SortInv'
<1>1. /\ sorting = "merge" /\ Lpos = Lposend /\ Rpos = Rposend /\ seg + 2 * seglen >= lim /\ Arrived
      /\ pre' = now_ /\ StartPass(2 * seglen)
      /\ mem' = mem /\ pending' = pending /\ input' = input
  BY DEF EndPass
<1>2. SortTypes /\ Heads /\ PreKeeps
  BY <1>1 DEF SortInv
<1>3. lim' = lim /\ lim \in Nat
  BY <1>1, <1>2, Keys DEF lim
<1>4. Rposend = lim /\ now_pos = lim /\ seglen \in Nat \ {0} /\ seg \in Nat
  <2>1. seg \in Nat /\ seglen \in Nat \ {0} /\ seg + 2 * seglen \in Nat
    BY <1>2 DEF SortTypes
  <2>2. Rposend = lim
    BY <1>1, <1>3, <2>1 DEF Rposend, Within
  <2> QED
    BY <1>1, <1>2, <2>1, <2>2, HeadsFit DEF Heads
<1>5. Taken = 0 .. lim - 1
  BY <1>1, <1>2, <1>3, <1>4, HeadsFit DEF Taken
<1>6. PICK f \in [0 .. now_pos - 1 -> 0 .. lim - 1] : Moves(f) /\ NowSorted(f)
  BY <1>1 DEF SortInv, Merging
<1>7. pending = {}
  BY <1>1, <1>6, StringsDiffer DEF Moves, Arrived, Finished
<1>8. Numbers(f, lim, 0 .. lim - 1)
  BY <1>4, <1>5, <1>6 DEF Moves
<1>9. \A k \in 0 .. lim - 1 : pre_data(k)' = pre_data(f[k])
  <2>1. ASSUME NEW k \in 0 .. lim - 1 PROVE pre_data(k)' = pre_data(f[k])
    <3>1. mem[String(now_, k)] = pre_data(f[k])
      BY <1>4, <1>6, <1>7 DEF Moves
    <3> QED
      BY <1>1, <3>1 DEF pre_data, String
  <2> QED
    BY <2>1
<1>10. PreKeeps'
  <2>1. PICK g \in [0 .. lim - 1 -> 0 .. lim - 1] :
          Numbers(g, lim, 0 .. lim - 1) /\ \A k \in 0 .. lim - 1 : pre_data(k) = input[g[k] + 1]
    BY <1>2 DEF PreKeeps
  <2>2. \A k \in 0 .. lim - 1 : f[k] \in 0 .. lim - 1 /\ g[k] \in 0 .. lim - 1
    BY <1>4, <1>6, <2>1
  <2>3. PICK h \in [0 .. lim - 1 -> 0 .. lim - 1] : \A k \in 0 .. lim - 1 : h[k] = g[f[k]]
    <3> DEFINE both == [k \in 0 .. lim - 1 |-> g[f[k]]]
    <3>1. both \in [0 .. lim - 1 -> 0 .. lim - 1] /\ \A k \in 0 .. lim - 1 : both[k] = g[f[k]]
      BY <2>2
    <3> HIDE DEF both
    <3> QED
      BY <3>1
  <2>4. ASSUME NEW j \in 0 .. lim - 1, NEW k \in 0 .. lim - 1, h[j] = h[k] PROVE j = k
    <3>1. f[j] = f[k]
      <4>1. g[f[j]] = g[f[k]]
        BY <2>3, <2>4
      <4>2. f[j] \in 0 .. lim - 1 /\ f[k] \in 0 .. lim - 1
        BY <2>2
      <4> QED
        BY <2>1, <4>1, <4>2 DEF Numbers
    <3> QED
      BY <3>1, <1>8 DEF Numbers
  <2>5. ASSUME NEW s \in 0 .. lim - 1 PROVE \E j \in 0 .. lim - 1 : h[j] = s
    <3>1. PICK k \in 0 .. lim - 1 : g[k] = s
      BY <2>1 DEF Numbers
    <3>2. PICK j \in 0 .. lim - 1 : f[j] = k
      BY <1>8 DEF Numbers
    <3> QED
      BY <2>3, <3>1, <3>2
  <2>6. Numbers(h, lim, 0 .. lim - 1)
    BY <2>3, <2>4, <2>5 DEF Numbers
  <2>7. \A k \in 0 .. lim - 1 : pre_data(k)' = input'[h[k] + 1]
    BY <1>1, <1>9, <2>1, <2>2, <2>3
  <2>8. Numbers(h, lim, 0 .. lim - 1)'
    BY <1>3, <2>6 DEF Numbers
  <2> QED
    BY <1>3, <2>3, <2>7, <2>8 DEF PreKeeps
<1>11. ASSUME NEW j \in 1 .. lim - 1, j % (2 * seglen) # 0 PROVE pre_data(j - 1)' <= pre_data(j)'
  <2>1. j \in 0 .. lim - 1 /\ j - 1 \in 0 .. lim - 1
    BY <1>3
  <2>2. pre_data(f[j - 1]) <= pre_data(f[j])
    BY <1>4, <1>6, <1>11 DEF NowSorted
  <2> QED
    BY <1>9, <2>1, <2>2
<1>12. pre' \in {"a", "b"} /\ 2 * seglen \in Nat \ {0}
  BY <1>1, <1>2, <1>4 DEF now_, SortTypes
<1> QED
  BY <1>1, <1>2, <1>7, <1>10, <1>11, <1>12, PassStarts

LEMMA SortStep == SortInv /\ [SortNext]_sortvars => SortInv'
<1> SUFFICES ASSUME SortInv, [SortNext]_sortvars PROVE SortInv'
  OBVIOUS
<1>1. CASE FillPre
  BY <1>1, FillStep
<1>2. CASE EndFill
  BY <1>2, EndFillStep
<1>3. CASE TakeLeft
  BY <1>3, TakeLeftStep
<1>4. CASE TakeRight
  BY <1>4, TakeRightStep
<1>5. CASE NextSegment
  BY <1>5, NextSegmentStep
<1>6. CASE EndPass
  BY <1>6, EndPassStep
<1>7. CASE SortDevice
  BY <1>7, SortPerforms DEF SortDevice
<1>8. CASE UNCHANGED sortvars
  <2>1. /\ mem' = mem /\ pending' = pending /\ input' = input /\ pre' = pre /\ seglen' = seglen /\ seg' = seg
        /\ Lpos' = Lpos /\ Rpos' = Rpos /\ now_pos' = now_pos /\ sorting' = sorting
    BY <1>8 DEF sortvars, sorter
  <2>2. lim' = lim /\ now_' = now_
    BY <2>1 DEF lim, now_
  <2>3. Lposend' = Lposend /\ Rposend' = Rposend
    BY <2>1, <2>2 DEF Lposend, Rposend, Within
  <2>4. SortTypes' = SortTypes
    BY <2>1, <2>2 DEF SortTypes, AllStrings, Strings_in, String
  <2>5. Filling' = Filling
    BY <2>1, <2>2 DEF Filling, ToPre, Copy, String
  <2>6. PreKeeps' = PreKeeps /\ PreSorted' = PreSorted
    BY <2>1, <2>2 DEF PreKeeps, PreSorted, Numbers, pre_data, String
  <2>7. Heads' = Heads
    BY <2>1, <2>2, <2>3 DEF Heads
  <2>8. Merging' = Merging
    BY <2>1, <2>2, <2>3 DEF Merging, Moves, NowSorted, Numbers, Taken, ToNow, Copy, pre_data, String
  <2> QED
    BY <2>1, <2>2, <2>4, <2>5, <2>6, <2>7, <2>8 DEF SortInv
<1> QED
  BY <1>1, <1>2, <1>3, <1>4, <1>5, <1>6, <1>7, <1>8 DEF SortNext

\* As many strings of pre as of the input have a key.
LEMMA SameCounts ==
  ASSUME SortTypes, PreKeeps, NEW k
  PROVE  Cardinality({j \in 0 .. lim - 1 : pre_data(j) = k}) = Cardinality({j \in 1 .. lim : input[j] = k})
<1> DEFINE mine == {j \in 0 .. lim - 1 : pre_data(j) = k}
           theirs == {j \in 1 .. lim : input[j] = k}
<1>1. PICK g \in [0 .. lim - 1 -> 0 .. lim - 1] :
        Numbers(g, lim, 0 .. lim - 1) /\ \A l \in 0 .. lim - 1 : pre_data(l) = input[g[l] + 1]
  BY DEF PreKeeps
<1>2. lim \in Nat /\ \A l \in 0 .. lim - 1 : g[l] \in 0 .. lim - 1 /\ g[l] + 1 \in 1 .. lim
  <2>1. lim \in Nat
    BY Keys
  <2>2. ASSUME NEW l \in 0 .. lim - 1 PROVE g[l] \in 0 .. lim - 1
    BY <1>1
  <2>3. ASSUME NEW l \in 0 .. lim - 1 PROVE g[l] + 1 \in 1 .. lim
    BY <2>1, <2>2
  <2> QED
    BY <2>1, <2>2, <2>3
<1>3. IsFiniteSet(mine)
  <2>1. IsFiniteSet(0 .. lim - 1) /\ mine \subseteq 0 .. lim - 1
    BY <1>2, FS_Interval
  <2> HIDE DEF mine
  <2> QED
    BY <2>1, FS_Subset
<1> DEFINE b == [j \in mine |-> g[j] + 1]
<1>4. b \in [mine -> theirs]
  BY <1>1, <1>2
<1>5. ASSUME NEW j \in mine, NEW l \in mine, b[j] = b[l] PROVE j = l
  <2>1. g[j] + 1 = g[l] + 1
    BY <1>5
  <2>2. g[j] = g[l]
    BY <1>2, <2>1
  <2> QED
    BY <1>1, <2>2 DEF Numbers
<1>6. ASSUME NEW t \in theirs PROVE \E j \in mine : b[j] = t
  <2>1. t - 1 \in 0 .. lim - 1 /\ (t - 1) + 1 = t
    BY <1>2
  <2>2. PICK j \in 0 .. lim - 1 : g[j] = t - 1
    BY <1>1, <2>1 DEF Numbers
  <2>3. j \in mine
    BY <1>1, <2>1, <2>2
  <2> QED
    BY <2>1, <2>2, <2>3
<1> HIDE DEF b, mine, theirs
<1>7. b \in Bijection(mine, theirs)
  BY <1>4, <1>5, <1>6 DEF Bijection, Injection, Surjection, IsInjective
<1>8. Cardinality(mine) = Cardinality(theirs)
  BY <1>3, <1>7, FS_Bijection DEF ExistsBijection
<1> QED
  BY <1>8 DEF mine, theirs

LEMMA SortedRuns == ASSUME SortInv PROVE MergeSortRight
<1> SUFFICES ASSUME sorting = "done" \/ (sorting = "merge" /\ seg = 0 /\ now_pos = 0)
             PROVE  /\ pending = {} /\ PreKeeps /\ PreSorted
                    /\ sorting = "done" => seglen >= lim - 1
  BY SameCounts DEF MergeSortRight, PreSorted, SortInv
<1>1. PreKeeps /\ PreSorted
  BY DEF SortInv
<1>2. CASE sorting = "done"
  <2>1. pending = {} /\ seglen + 1 >= lim /\ seglen \in Nat /\ lim \in Nat
    BY <1>2, Keys DEF SortInv, SortTypes
  <2> QED
    BY <1>1, <2>1
<1>3. CASE sorting = "merge" /\ now_pos = 0
  <2>1. PICK f \in [0 .. now_pos - 1 -> 0 .. lim - 1] : Moves(f)
    BY <1>3 DEF SortInv, Merging
  <2>2. pending = {}
    BY <1>3, <2>1 DEF Moves
  <2> QED
    BY <1>1, <1>3, <2>2
<1> QED
  BY <1>2, <1>3

\* mergesort_demo: for any strings, whenever a pass begins and at the end, what
\* the device has moved are the strings of the input, in sorted runs of seglen,
\* and no copy is in flight; the last pass made runs of lim - 1 strings or more.
THEOREM MergeSortCorrect == SortSpec => []MergeSortRight
<1>1. SortInit => SortInv
  BY SortStarts
<1>2. SortInv => MergeSortRight
  BY SortedRuns
<1> QED
  BY <1>1, <1>2, SortStep, PTL DEF SortSpec
=============================================================================

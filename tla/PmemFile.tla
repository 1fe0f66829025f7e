------------------------------ MODULE PmemFile -------------------------------
(***************************************************************************)
(* example/pmem_demo.cpp: a mapped file that grows while data is appended  *)
(* to it by a DSAbatch.  Growing unmaps the file, so the copies in flight  *)
(* have to be drained first.  Sizes are in units of appended data; the     *)
(* file is new (main unlinks it) and use_dsa = 1.                          *)
(***************************************************************************)
EXTENDS Copies

CONSTANTS
  extend_size,          \* the file grows to a multiple of this
  Lengths,              \* lengths of the appended pieces
  SourceSize,           \* size of the source file
  Stride                \* of the writes that touch the new pages

ASSUME PmemAssumption ==
  /\ extend_size \in Nat \ {0} /\ SourceSize \in Nat /\ Stride \in Nat \ {0}
  /\ Lengths \subseteq Nat

VARIABLES
  at,                   \* "append", "extend", "unmapped", "closed", "failed"
  used_size, file_size,
  mapped,               \* units mapped at pmem_addr, 0: none
  grow_to               \* new_size of the extension under way

pmem == <<at, used_size, file_size, mapped, grow_to>>
pmvars == <<mem, pending, pmem>>

Hole == -1              \* what no piece contains
Touched == -2

File(k) == <<"file", k>>
Source(k) == <<"source", k>>
Up(n) == ((n + extend_size - 1) \div extend_size) * extend_size
MaxSize == Up(SourceSize)

PmemInit ==
  /\ mem = [p \in {File(k) : k \in 0 .. MaxSize - 1} \union {Source(k) : k \in 0 .. SourceSize - 1}
              |-> IF p[1] = "source" THEN p[2] ELSE Hole]
  /\ pending = {} /\ at = "append"
  /\ used_size = 0 /\ file_size = extend_size /\ mapped = extend_size /\ grow_to = 0

\* pm_file_append; the pieces are taken from the source in order.
AppendPiece ==
  \E len \in Lengths \union {SourceSize - used_size} :
    /\ at = "append" /\ len > 0 /\ used_size + len <= SourceSize
    /\ IF used_size + len > file_size
         THEN /\ at' = "extend"
              /\ grow_to' = file_size + (Up(len + used_size) - file_size)
              /\ UNCHANGED <<mem, pending, used_size>>
         ELSE /\ Submit({Copy("batch", File(used_size + k), Source(used_size + k)) : k \in 0 .. len - 1})
              /\ used_size' = used_size + len
              /\ UNCHANGED <<at, grow_to>>
    /\ UNCHANGED <<file_size, mapped>>

\* Mutant of Drained: extend does not wait for the batch.
Drained_Not == TRUE
\* pmem_custom_drain()
Drained == Finished("batch")

\* pm_file_extend up to pmem_unmap.
Unmap ==
  /\ at = "extend" /\ Drained
  /\ at' = "unmapped" /\ mapped' = 0
  /\ UNCHANGED <<mem, pending, used_size, file_size, grow_to>>

\* pmem_map_file succeeds, and the new pages are touched: what was in the
\* file stays, what is new is overwritten.
Map ==
  /\ at = "unmapped"
  /\ at' = "append" /\ file_size' = grow_to /\ mapped' = grow_to
  /\ LET touched(k) == k >= file_size /\ k < grow_to /\ (k = grow_to - 1 \/ (k - file_size) % Stride = 0)
     IN  mem' = [p \in DOMAIN mem |->
                   IF p[1] = "file" /\ touched(p[2]) THEN Touched ELSE mem[p]]
  /\ UNCHANGED <<pending, used_size, grow_to>>

\* pmem_map_file fails: append returns 0 and main gives up.
MapFails == at = "unmapped" /\ at' = "failed" /\ UNCHANGED <<mem, pending, used_size, file_size, mapped, grow_to>>

\* main: the last drain, then pm_file_close, which does not drain itself.
Close ==
  /\ at = "append" /\ used_size = SourceSize /\ Drained
  /\ at' = "closed" /\ mapped' = 0 /\ file_size' = used_size
  /\ UNCHANGED <<mem, pending, used_size, grow_to>>

PmemDevice == Perform /\ UNCHANGED pmem

PmemNext == AppendPiece \/ Unmap \/ Map \/ MapFails \/ Close \/ PmemDevice

PmemSpec == PmemInit /\ [][PmemNext]_pmvars

-----------------------------------------------------------------------------
\* A copy in flight lands inside what is mapped; it is never left to a
\* mapping that is gone.
InsideTheMapping == \A c \in pending : c.dst[2] < mapped

\* The appended data is in the file, except for what is still in flight,
\* whatever growing has touched, and at the end it is the whole file.
AppendedIsKept ==
  /\ used_size <= file_size
  /\ \A k \in 0 .. used_size - 1 :
        mem[File(k)] = k \/ Copy("batch", File(k), Source(k)) \in pending
  /\ at = "closed" => pending = {} /\ file_size = SourceSize

\* Growing the file waits for the copies, and loses none of the data.
PmemFileRight == InsideTheMapping /\ AppendedIsKept
=============================================================================

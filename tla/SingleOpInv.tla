---------------------------- MODULE SingleOpInv ----------------------------
(***************************************************************************)
(* The inductive invariants of SingleOp.  PollInv is about the completion  *)
(* record: who may look at it and what it tells.  MemInv is about memory:  *)
(* a byte that is not waiting to be written has the value that was         *)
(* promised.  CompareInv is about comparisons: what the pieces that are    *)
(* over have found.                                                        *)
(***************************************************************************)
EXTENDS SingleOp

\* The device writes the completion record once, when it hands the descriptor
\* back, so a record that says anything belongs to the submission before it.
PollInv ==
  /\ DOMAIN comp = {"status", "bytes_completed", "result", "fault_addr", "wr"}
  /\ owned => comp.status = NONE
  /\ comp.status \in {NONE, SUCCESS, PAGE_FAULT, BAD}
  /\ FinishedMeansQuiet
  /\ NothingForgotten
  /\ ErrorNotSuccess

\* The requests of calls, and the operation accepted last, are requests of the
\* client.
Requested ==
  /\ call.kind \in {"async", "sync"} => call.req \in Requests
  /\ req \in Requests \union {NoReq}

-----------------------------------------------------------------------------
Unfinished == is_doing_flag /\ comp.status # SUCCESS

\* Bytes of the descriptor the device had done when it stopped.
Part == IF comp.status = PAGE_FAULT THEN comp.bytes_completed ELSE 0

\* Bytes that are still to be written.
Left == IF Unfinished /\ Writes(desc.opcode)
          THEN Bytes(desc.dst + Part, desc.size - Part) ELSE {}

\* Descriptor d is the end of request r.
Fits(d, r) ==
  /\ DOMAIN d = {"opcode", "src", "dst", "pat", "size"}
  /\ d.opcode = r.opcode /\ d.size \in Nat
  /\ Writes(r.opcode) =>
       /\ d.dst \in Int
       /\ d.dst + d.size = r.dest + r.len /\ d.dst >= r.dest
  /\ r.opcode = "MEMMOVE" => d.src - d.dst = r.src - r.dest /\ d.src \in Int
  /\ r.opcode = "MEMFILL" =>
       /\ d.dst % WORD = 0 \/ OneByte(r.pat)
       /\ \A j \in 0 .. WORD - 1 : d.pat[j] = r.pat[(d.dst - r.dest + j) % WORD]

\* A fault record tells where in the descriptor the device stopped.
RecordFits ==
  comp.status = PAGE_FAULT =>
    /\ comp.bytes_completed \in 0 .. desc.size - 1
    /\ desc.opcode = "MEMFILL" =>
         comp.bytes_completed = 0 \/ (desc.dst + comp.bytes_completed) % PAGE = 0
    /\ comp.wr \in BOOLEAN
    /\ comp.wr => Writes(desc.opcode) /\ comp.fault_addr = desc.dst + comp.bytes_completed

MemInv ==
  /\ DOMAIN mem = Mem /\ DOMAIN before = Mem
  /\ mem = [x \in Mem |-> mem[x]] /\ before = [x \in Mem |-> before[x]]
  /\ is_doing_flag => req # NoReq
  /\ Unfinished => Fits(desc, req) /\ RecordFits
  /\ req # NoReq => \A x \in Mem \ Left : mem[x] = Promised[x]

Disjoint(r) == Bytes(r.src, r.len) \intersect Bytes(r.dest, r.len) = {}

\* Bytes of a request the CPU does so that the device begins at a line.
Prefix(r) ==
  CASE ~DESCS_ADDRESS_ALIGNMENT -> 0
    [] DESCS_ADDRESS_ALIGNMENT /\ r.opcode = "MEMMOVE" -> align64_diff(r.dest)
    [] DESCS_ADDRESS_ALIGNMENT /\ r.opcode # "MEMMOVE" -> fill_diff(r.dest, r.len)

\* The requests for which MemInv is proved: moves between disjoint regions that are
\* not shorter than their prefix; fills from a word boundary (the run
\* op_resumed_fill shows why) whose prefix is whole words, or with one byte and a
\* prefix of at least a word (new_pattern rotates the wrong way).
SafeRequest(r) ==
  /\ r.len < LEN_MOD
  /\ r.opcode = "MEMMOVE" =>
       Bytes(r.src, r.len) \subseteq Mem /\ Disjoint(r) /\ Prefix(r) <= r.len
  /\ r.opcode = "MEMFILL" =>
       \/ r.dest % WORD = 0 /\ Prefix(r) % WORD = 0
       \/ OneByte(r.pat) /\ (Prefix(r) % WORD = 0 \/ Prefix(r) >= WORD)

SafeRequests == \A r \in Requests : SafeRequest(r)
-----------------------------------------------------------------------------
(* Comparing.  CompareInv: as long as the pieces of a comparison began in     *)
(* step, those that are over found no difference, and the piece the device    *)
(* has is the rest of it.                                                     *)

\* Offset i of the last request compares equal.
SameAt(i) ==
  before[req.src + i] = IF req.opcode = "COMPARE" THEN before[req.dest + i]
                                                 ELSE req.pat[i % WORD]

\* Pieces of a comparison with a pattern begin at its start or at a page.
AtPage(n) == req.opcode = "COMPVAL" => n = 0 \/ (req.src + n) % WORD = 0

MemoryShape == DOMAIN mem = Mem /\ mem = [x \in Mem |-> mem[x]]

Comparison ==
  IsCompare(req) =>
    /\ mem = before
    /\ desc.opcode = req.opcode /\ desc.size \in 0 .. req.len
    /\ desc.src = req.src + Compared
    /\ req.opcode = "COMPARE" => desc.dst = req.dest + Compared
    /\ req.opcode = "COMPVAL" => desc.pat = req.pat
    /\ AtPage(Compared)
    /\ InStep(Compared) => \A i \in 0 .. Compared - 1 : SameAt(i)
    /\ comp.status = PAGE_FAULT =>
         /\ comp.bytes_completed \in 0 .. desc.size /\ comp.wr = FALSE
         /\ AtPage(Compared + comp.bytes_completed)
         /\ InStep(Compared + comp.bytes_completed) =>
              \A i \in 0 .. Compared + comp.bytes_completed - 1 : SameAt(i)
    /\ comp.status = SUCCESS /\ InStep(Compared) =>
         /\ comp.result = 0 <=> \A i \in 0 .. req.len - 1 : SameAt(i)
         /\ comp.bytes_completed = FirstDifference - Compared
    /\ ~is_doing_flag => comp.status = SUCCESS

CompareInv == MemoryShape /\ Comparison

\* Lengths that xfer_size can hold.
ShortCompares == \A r \in Requests : IsCompare(r) => r.len < LEN_MOD
=============================================================================

------------------------------ MODULE BatchData ------------------------------
(***************************************************************************)
(* The data side of DSAbatch: addresses, lengths and page faults of the    *)
(* descriptors in a batch.  (src/src/interfaces/dsa_batch.cpp,             *)
(* src/src/details/dsa_batch_task.cpp)                                     *)
(*                                                                         *)
(* The object has one batch, so that recycling, which BatchTask is about,  *)
(* stays out of the way: collect() reads the status once per step.  The    *)
(* device runs a batch in one step.  A union of the descriptor is a field  *)
(* here: the pattern of a fill is also its src, the pattern of a           *)
(* comparison its dst (dsa_rdstrb_entry).                                  *)
(***************************************************************************)
EXTENDS DataPath, Sequences

CONSTANTS
  batch_siz,
  DESCS_ADDRESS_ALIGNMENT, INTERLEAVED_PAGEFAULT_ENABLE, SHORT,  \* build switches
  DSA_PAGE_FAULT_TOUCH_LEN, DSA_PF_LEN_LIMIT,
  Mem, Memory,          \* the addresses and what they hold at first
  Requests,             \* what the client may ask for
  MaxOps, MaxFaults     \* bounds: operations accepted, batches that fail

Opcodes == {"NOOP", "MEMMOVE", "MEMFILL", "COMPARE", "COMPVAL", "CFLUSH"}

\* An operation of the client, and a descriptor.
Operations == [opcode : Opcodes, src : Int, dst : Int, size : Nat, pat : [0 .. WORD - 1 -> Int]]

ASSUME BatchDataAssumption ==
  /\ batch_siz \in Nat /\ batch_siz >= 2
  /\ DESCS_ADDRESS_ALIGNMENT \in BOOLEAN /\ INTERLEAVED_PAGEFAULT_ENABLE \in BOOLEAN /\ SHORT \in Nat
  /\ DSA_PAGE_FAULT_TOUCH_LEN \in Nat /\ DSA_PAGE_FAULT_TOUCH_LEN > PAGE /\ DSA_PF_LEN_LIMIT \in Nat
  /\ Mem \subseteq Int /\ Memory \in [Mem -> Int]
  /\ Requests \subseteq Operations
  /\ MaxOps \in Nat /\ MaxFaults \in Nat

NULL == 0
Noop == [opcode |-> "NOOP", src |-> 0, dst |-> 0, pat |-> [j \in 0 .. WORD - 1 |-> 0], size |-> 0]

VARIABLES
  mem,        \* memory, shared with the device
  descs,      \* descriptors of the batch so far
  comps,      \* their completion records
  last_fault, \* last_fault_addr_src and last_fault_addr_dst
  batch,      \* "filling", "device", "error" or "success"
  pc, req,    \* where the client is; the operation it is submitting
  accepted, faults,  \* counters of the bounds
  pending,    \* accepted operations that nobody has waited for
  expected,   \* what memory holds when all accepted operations are over
  touches     \* what the last step touched, and for which descriptor

engine == <<descs, comps, last_fault, batch>>
ghosts == <<pending, expected>>
vars == <<mem, engine, pc, req, accepted, faults, ghosts, touches>>

Init ==
  /\ mem = Memory /\ expected = Memory
  /\ descs = <<>> /\ comps = <<>> /\ last_fault = <<>> /\ batch = "filling"
  /\ pc = "idle" /\ req = Noop /\ accepted = 0 /\ faults = 0
  /\ pending = {} /\ touches = {}

Dest(r)     == IF Writes(r.opcode) THEN Bytes(r.dst, r.size) ELSE {}
Operands(r) == (IF UsesSrc(r.opcode) THEN Bytes(r.src, r.size) ELSE {})
               \union (IF UsesDst(r.opcode) THEN Bytes(r.dst, r.size) ELSE {})

\* What k bytes of descriptor d do to memory m.
Effect(m, d, k) ==
  CASE d.opcode = "MEMMOVE" -> Copy(m, d.dst, d.src, k)
    [] d.opcode = "MEMFILL" -> Fill(m, d.dst, d.pat, k)
    [] OTHER                -> m

-----------------------------------------------------------------------------
(* submit_*: the part the CPU does and the descriptor that is left. *)

ShortToCpu(r) == Writes(r.opcode) /\ r.size < SHORT

Prefix(r) == CASE ~DESCS_ADDRESS_ALIGNMENT -> 0
               [] DESCS_ADDRESS_ALIGNMENT /\ r.opcode = "MEMMOVE" -> align64_diff(r.dst)
               [] DESCS_ADDRESS_ALIGNMENT /\ r.opcode = "MEMFILL" -> fill_diff(r.dst, r.size)
               [] OTHER -> 0

OnCpu(r) ==
  LET d == Prefix(r)
  IN  CASE ShortToCpu(r) -> Effect(mem, r, r.size)
        [] ~ShortToCpu(r) /\ r.opcode = "MEMFILL" -> fill_prefix(mem, r.dst, r.pat, d)
        [] OTHER -> Effect(mem, r, d)

Desc(op, src, dst, size, pat) ==
  [opcode |-> op, src |-> src, dst |-> dst, size |-> size, pat |-> pat]

\* A flush is widened to whole lines instead.
Rest(r) ==
  LET d   == Prefix(r)
      off == IF DESCS_ADDRESS_ALIGNMENT THEN r.dst % LINE ELSE 0
      pad == IF DESCS_ADDRESS_ALIGNMENT THEN (LINE - ((r.size + off) % LINE)) % LINE ELSE 0
  IN  CASE r.opcode = "MEMMOVE" -> Desc("MEMMOVE", r.src + d, r.dst + d, r.size - d, r.pat)
        [] r.opcode = "MEMFILL" -> Desc("MEMFILL", r.src, r.dst + d, r.size - d, rest_pattern(r.pat, d))
        [] r.opcode = "CFLUSH"  -> Desc("CFLUSH", r.src, r.dst - off, r.size + off + pad, r.pat)
        [] OTHER -> r

-----------------------------------------------------------------------------
(* Touching pages. *)

Touch(at, len, wr) == [at |-> at, len |-> len, wr |-> wr]

\* Mutant of Leading: the source of a move is touched like its destination.
Leading_WriteBoth(d) ==
  LET len == Min2(d.size, DSA_PAGE_FAULT_TOUCH_LEN)
  IN  IF ~INTERLEAVED_PAGEFAULT_ENABLE \/ d.size < DSA_PAGE_FAULT_TOUCH_LEN - PAGE THEN {}
      ELSE (IF UsesSrc(d.opcode) THEN {Touch(d.src, len, Writes(d.opcode))} ELSE {})
           \union (IF UsesDst(d.opcode) THEN {Touch(d.dst, len, Writes(d.opcode))} ELSE {})

\* submit_forward: the leading pages of the long descriptors.
Leading(d) ==
  LET len == Min2(d.size, DSA_PAGE_FAULT_TOUCH_LEN)
  IN  IF \/ ~INTERLEAVED_PAGEFAULT_ENABLE
         \/ d.size < DSA_PAGE_FAULT_TOUCH_LEN - PAGE
         \/ d.opcode = "CFLUSH"
        THEN {}
      ELSE (IF UsesSrc(d.opcode) THEN {Touch(d.src, len, FALSE)} ELSE {})
           \union (IF UsesDst(d.opcode) THEN {Touch(d.dst, len, Writes(d.opcode))} ELSE {})

\* The touches of all descriptors: memory afterwards and the ghost.
Touching(m, ds, TouchesOf(_)) ==
  LET all == UNION {TouchesOf(i) : i \in DOMAIN ds}
  IN  /\ mem' = [x \in Mem |->
                   IF \E t \in all : t.wr /\ x \in Touched(t.at, t.len) THEN 0 ELSE m[x]]
      /\ touches' = UNION {{[desc |-> ds[i], touch |-> t] : t \in TouchesOf(i)} : i \in DOMAIN ds}

None == [status |-> "NONE", done |-> 0, fault_addr |-> NULL, wr |-> FALSE]

\* The addresses are crossed, as in prepare_desc.
NoFaultYet(d) == [src |-> IF UsesDst(d.opcode) THEN d.dst ELSE NULL,
                  dst |-> IF UsesSrc(d.opcode) THEN d.src ELSE NULL]

submit_forward(m, ds) ==
  /\ Touching(m, ds, LAMBDA i : Leading(ds[i]))
  /\ descs' = ds
  /\ comps' = [i \in DOMAIN ds |-> None]
  /\ last_fault' = [i \in DOMAIN ds |-> NoFaultYet(ds[i])]
  /\ batch' = "device"

-----------------------------------------------------------------------------
(* The client. *)

\* Two operations in flight may not write what the other one uses.
Independent(r) ==
  \A p \in pending : /\ Dest(r) \intersect Operands(p) = {}
                     /\ Operands(r) \intersect Dest(p) = {}

\* While the batch is busy submit_* spins on collect().
Submit(r) ==
  /\ pc = "idle" /\ accepted < MaxOps /\ Independent(r)
  /\ req' = r
  /\ pc' = IF batch = "filling" THEN "add" ELSE "submit"
  /\ touches' = {}
  /\ UNCHANGED <<mem, engine, accepted, faults, ghosts>>

\* submit_* and add_op.
Add ==
  /\ pc = "add"
  /\ accepted' = accepted + 1
  /\ pending' = pending \union {req} /\ expected' = Effect(expected, req, req.size)
  /\ IF ShortToCpu(req)
       THEN mem' = OnCpu(req) /\ touches' = {} /\ UNCHANGED engine
       ELSE LET ds == Append(descs, Rest(req))
            IN  IF Len(ds) = batch_siz
                  THEN submit_forward(OnCpu(req), ds)
                  ELSE descs' = ds /\ mem' = OnCpu(req) /\ touches' = {}
                       /\ UNCHANGED <<comps, last_fault, batch>>
  /\ pc' = "idle"
  /\ UNCHANGED <<req, faults>>

Wait ==
  /\ pc = "idle"
  /\ IF batch = "filling" /\ descs # <<>>
       THEN submit_forward(mem, [i \in 1 .. batch_siz |-> IF i <= Len(descs) THEN descs[i] ELSE Noop])
       ELSE touches' = {} /\ UNCHANGED <<mem, engine>>
  /\ pc' = "wait"
  /\ UNCHANGED <<req, accepted, faults, ghosts>>

\* collect() recycles the batch.
Recycle ==
  /\ pc \in {"submit", "wait"} /\ batch = "success"
  /\ batch' = "filling" /\ descs' = <<>> /\ comps' = <<>> /\ last_fault' = <<>>
  /\ touches' = {}
  /\ UNCHANGED <<mem, pc, req, accepted, faults, ghosts>>

\* The loop of submit_* or wait() ends.
Leave ==
  /\ pc \in {"submit", "wait"} /\ batch = "filling"
  /\ pc' = IF pc = "submit" THEN "add" ELSE "idle"
  /\ pending' = IF pc = "wait" THEN {} ELSE pending
  /\ touches' = {}
  /\ UNCHANGED <<mem, engine, req, accepted, faults, expected>>

\* Mutant of PF_adjust_desc: the destination stays where it was.
PF_adjust_desc_KeepDst(d, k) ==
  Desc(d.opcode, IF UsesSrc(d.opcode) THEN d.src + k ELSE d.src, d.dst, d.size - k, d.pat)

PF_adjust_desc(d, k) ==
  Desc(d.opcode, IF UsesSrc(d.opcode) THEN d.src + k ELSE d.src,
                 IF UsesDst(d.opcode) THEN d.dst + k ELSE d.dst, d.size - k, d.pat)

\* resolve_error for one descriptor.
Resolved(d, c) ==
  CASE c.status = "SUCCESS"    -> Noop
    [] c.status = "PAGE_FAULT" -> PF_adjust_desc(d, c.done)
    [] c.status = "NONE"       -> d

\* Whose fault it was is guessed from the resumed descriptor: the source's when
\* the page of the fault is the first one that begins at or after src.
Side(d, c) == IF (d.src + PAGE - 1) \div PAGE = c.fault_addr \div PAGE THEN "src" ELSE "dst"

\* A fault close to the last one has the pages that follow touched.
Following(d, c, last) ==
  LET side == Side(d, c)
  IN  IF /\ INTERLEAVED_PAGEFAULT_ENABLE /\ c.status = "PAGE_FAULT"
         /\ last[side] # NULL /\ c.fault_addr - last[side] < DSA_PF_LEN_LIMIT
        THEN {Touch(d[side], Min2(d.size, DSA_PAGE_FAULT_TOUCH_LEN), c.wr)} ELSE {}

\* collect() repairs a batch that failed and submits it again.
ResolveError ==
  /\ pc \in {"submit", "wait"} /\ batch = "error"
  /\ LET ds == [i \in DOMAIN descs |-> Resolved(descs[i], comps[i])]
     IN  /\ Touching(mem, ds, LAMBDA i : Following(ds[i], comps[i], last_fault[i]))
         /\ descs' = ds
         /\ last_fault' =
              [i \in DOMAIN descs |->
                 IF INTERLEAVED_PAGEFAULT_ENABLE /\ comps[i].status = "PAGE_FAULT"
                   THEN [last_fault[i] EXCEPT ![Side(ds[i], comps[i])] = comps[i].fault_addr]
                   ELSE last_fault[i]]
  /\ comps' = [i \in DOMAIN descs |-> None]
  /\ batch' = "device"
  /\ UNCHANGED <<pc, req, accepted, faults, ghosts>>

-----------------------------------------------------------------------------
(* The device (external). *)

MatchLen(d) ==
  CASE d.opcode = "COMPARE" -> Match(mem, d.src, d.dst, d.size)
    [] d.opcode = "COMPVAL" -> MatchPattern(mem, d.src, d.pat, d.size)
    [] OTHER                -> d.size

Done(d) == [status |-> "SUCCESS", done |-> d.size, fault_addr |-> NULL, wr |-> FALSE]

\* Stops of descriptor d: a page of an operand is missing after k bytes.
Stop(d, side, k) ==
  [status |-> "PAGE_FAULT", done |-> k, fault_addr |-> d[side] + k,
   wr |-> (side = "dst" /\ Writes(d.opcode))]
Sides(d) == {side \in {"src", "dst"} : IF side = "src" THEN UsesSrc(d.opcode) ELSE UsesDst(d.opcode)}
Faults(d) ==
  UNION {{Stop(d, side, k) : k \in {j \in 0 .. d.size - 1 : /\ j = 0 \/ (d[side] + j) % PAGE = 0
                                                            /\ j <= MatchLen(d)}} : side \in Sides(d)}

\* What descriptor d leaves at address x of its destination.
Byte(m, d, x) ==
  IF d.opcode = "MEMMOVE" THEN m[d.src + (x - d.dst)] ELSE d.pat[(x - d.dst) % WORD]

\* The descriptors of a batch run at the same time.  Which of two writers of a
\* byte is the last does not matter: the client has no two of them in flight.
Executes(cs) ==
  /\ comps' = cs
  /\ LET writers(x) == {i \in DOMAIN descs : /\ Writes(descs[i].opcode)
                                             /\ x \in Bytes(descs[i].dst, cs[i].done)}
     IN  mem' = [x \in Mem |-> IF writers(x) = {} THEN mem[x]
                               ELSE Byte(mem, descs[CHOOSE i \in writers(x) : TRUE], x)]
  /\ touches' = {}
  /\ UNCHANGED <<descs, last_fault, pc, req, accepted, ghosts>>

DeviceDone ==
  /\ batch = "device" /\ batch' = "success"
  /\ Executes([i \in DOMAIN descs |-> Done(descs[i])])
  /\ UNCHANGED faults

\* One descriptor stops at a page fault; each other one is finished or has not
\* been begun.
DeviceFault ==
  /\ batch = "device" /\ batch' = "error" /\ faults < MaxFaults
  /\ \E i \in DOMAIN descs, begun \in SUBSET DOMAIN descs : \E f \in Faults(descs[i]) :
       Executes([j \in DOMAIN descs |-> IF j = i THEN f
                                        ELSE IF j \in begun THEN Done(descs[j]) ELSE None])
  /\ faults' = faults + 1

-----------------------------------------------------------------------------
ClientStep == Add \/ Recycle \/ Leave \/ ResolveError
DeviceStep == DeviceDone \/ DeviceFault

Next == (\E r \in Requests : Submit(r)) \/ Wait \/ ClientStep \/ DeviceStep

Spec == Init /\ [][Next]_vars

-----------------------------------------------------------------------------
(* Properties. *)

\* Memory is at all times what the accepted operations make of it, but for the
\* destinations of those nobody has waited for: the prefix on the CPU, padding,
\* page faults, resumed and repeated descriptors and touched pages leave no
\* trace, and after wait() every byte is as promised.
MemoryAsExpected ==
  \A x \in Mem : mem[x] = expected[x] \/ \E r \in pending : x \in Dest(r)

\* Only addresses a descriptor will write are touched for writing, and only
\* addresses it uses are read (util.cpp:151 and 162).
TouchesOwn ==
  \A t \in touches :
    Touched(t.touch.at, t.touch.len) \subseteq
      IF t.touch.wr THEN Dest(t.desc) ELSE Operands(t.desc)
=============================================================================

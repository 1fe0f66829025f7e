------------------------------ MODULE SingleOp ------------------------------
(***************************************************************************)
(* DSAop / DSAtask: one descriptor, one completion record, one client      *)
(* thread that polls it.  (src/src/interfaces/dsa_op.cpp,                  *)
(* src/src/details/dsa_task.cpp)                                           *)
(*                                                                         *)
(* The device (external) runs the descriptor it was given, or stops at a   *)
(* page fault after a part of it; check() then resolves the fault, moves   *)
(* the descriptor to the part that is left and submits it again.  check()  *)
(* reads the status once and the device does not own the descriptor when   *)
(* it is not NONE, so a check and what follows it in the same call is one  *)
(* step.  The loop of wait() is a step per check.                          *)
(***************************************************************************)
EXTENDS DataPath

CONSTANTS
  DESCS_ADDRESS_ALIGNMENT,       \* build switch: align write addresses
  INTERLEAVED_PAGEFAULT_ENABLE,  \* build switch: touch pages
  SHORT,                         \* below this length the CPU does it (SHORT_TO_CPU);
                                 \* 0 when the switch is off
  TOUCH_LEN,                     \* 128 KB: pages touched before a submit
  DSA_PF_LEN_LIMIT,              \* faults this close are frequent
  LEN_MOD,                       \* 2^32, the range of xfer_size
  Mem,                           \* addresses
  Memories,                      \* possible initial contents
  Requests,                      \* what the client may ask for
  MaxOps,                        \* bound: operations accepted
  MaxFaults                      \* bound: page faults; 0 with FLAG_BLOCK_ON_FAULT

Opcodes == {"MEMMOVE", "MEMFILL", "COMPARE", "COMPVAL", "CFLUSH"}
Patterns == [0 .. WORD - 1 -> Int]

ASSUME SingleOpAssumption ==
  /\ DESCS_ADDRESS_ALIGNMENT \in BOOLEAN /\ INTERLEAVED_PAGEFAULT_ENABLE \in BOOLEAN
  /\ SHORT \in Nat /\ TOUCH_LEN \in Nat \ {0} /\ DSA_PF_LEN_LIMIT \in Nat
  /\ LEN_MOD \in Nat \ {0}
  /\ Mem \subseteq Int \ {0}
  /\ \A m \in Memories : m \in [Mem -> Int]
  /\ \A r \in Requests :
       /\ r.opcode \in Opcodes /\ r.dest \in Int /\ r.src \in Int /\ r.len \in Nat
       /\ DOMAIN r.pat = 0 .. WORD - 1
       /\ \A j \in 0 .. WORD - 1 : r.pat[j] \in Int
  /\ MaxOps \in Nat /\ MaxFaults \in Nat

\* op_status(); BAD stands for every other error.
NONE == 0
SUCCESS == 1
PAGE_FAULT == 3
BAD == 4

NULL == 0
NoPattern == [j \in 0 .. WORD - 1 |-> 0]
NoReq == [opcode |-> "NOOP", dest |-> 0, src |-> 0, len |-> 0, pat |-> NoPattern]

VARIABLES
  mem,                   \* memory, shared with the device
  desc, comp,            \* the descriptor and its completion record
  is_doing_flag,
  last_fault_addr, page_fault_resolving,
  owned,                 \* the device owns the descriptor
  pc, call, ret,         \* where the client is, its (last) call, its result
  req, before,           \* the operation accepted last; memory at that time
  accepted, faults       \* counters of the bounds

object   == <<desc, is_doing_flag, last_fault_addr, page_fault_resolving>>
history  == <<req, before, accepted>>
vars == <<mem, object, comp, owned, pc, call, ret, history, faults>>

NoDesc == [opcode |-> "NOOP", src |-> 0, dst |-> 0, pat |-> NoPattern, size |-> 0]

Init ==
  /\ mem \in Memories
  /\ desc = NoDesc
  /\ comp = [status |-> NONE, bytes_completed |-> 0, result |-> 0, fault_addr |-> 0, wr |-> FALSE]
  /\ is_doing_flag = FALSE
  /\ last_fault_addr = NULL /\ page_fault_resolving = 0
  /\ owned = FALSE
  /\ pc = "idle" /\ call = [kind |-> "none", req |-> NoReq] /\ ret = FALSE
  /\ req = NoReq /\ before = mem /\ accepted = 0 /\ faults = 0

-----------------------------------------------------------------------------
(* Submission. *)

\* Mutant of Leading: the write touch goes to the source.
Leading_SwapSides(m, d) ==
  IF INTERLEAVED_PAGEFAULT_ENABLE /\ d.size > TOUCH_LEN
    THEN touch_trigger_pf(m, d.src, TOUCH_LEN, Writes(d.opcode))
    ELSE m

\* do_op() touches the leading pages of long operations before it submits.
Leading(m, d) ==
  IF INTERLEAVED_PAGEFAULT_ENABLE /\ d.size > TOUCH_LEN
    THEN touch_trigger_pf(m, d.dst, TOUCH_LEN, Writes(d.opcode))
    ELSE m

\* Mutant of do_op: the status of the last round is not cleared.
do_op_StaleStatus(m, d) ==
  /\ mem' = Leading(m, d)
  /\ desc' = d
  /\ is_doing_flag' = TRUE
  /\ last_fault_addr' = NULL
  /\ owned' = TRUE
  /\ UNCHANGED comp

\* do_op() with the reset of the status by its callers (prepare_desc, solve_pf);
\* m is the memory the steps before it left.
do_op(m, d) ==
  /\ mem' = Leading(m, d)
  /\ desc' = d
  /\ comp' = [comp EXCEPT !.status = NONE]
  /\ is_doing_flag' = TRUE
  /\ last_fault_addr' = NULL
  /\ owned' = TRUE

\* xfer_size has 32 bits.
Descriptor(op, src, dst, pat, size) ==
  [opcode |-> op, src |-> src, dst |-> dst, pat |-> pat, size |-> size % LEN_MOD]

async_memmove(r) ==
  LET d == IF DESCS_ADDRESS_ALIGNMENT THEN align64_diff(r.dest) ELSE 0
  IN  do_op(Copy(mem, r.dest, r.src, d),
            Descriptor("MEMMOVE", r.src + d, r.dest + d, r.pat, r.len - d))

async_memfill(r) ==
  LET d == IF DESCS_ADDRESS_ALIGNMENT THEN fill_diff(r.dest, r.len) ELSE 0
  IN  do_op(fill_prefix(mem, r.dest, r.pat, d),
            Descriptor("MEMFILL", 0, r.dest + d, rest_pattern(r.pat, d), r.len - d))

async_compare(r) == do_op(mem, Descriptor("COMPARE", r.src, r.dest, r.pat, r.len))

async_comp_pattern(r) == do_op(mem, Descriptor("COMPVAL", r.src, 0, r.pat, r.len))

\* The flushed range is widened to whole cache lines.
async_flush(r) ==
  LET off == IF DESCS_ADDRESS_ALIGNMENT THEN r.dest % LINE ELSE 0
      len == r.len + off
      pad == IF DESCS_ADDRESS_ALIGNMENT /\ len % LINE # 0 THEN LINE - (len % LINE) ELSE 0
  IN  do_op(mem, Descriptor("CFLUSH", 0, r.dest - off, r.pat, len + pad))

\* SHORT_TO_CPU: memmove_cpu, memfill_cpu.
ShortToCpu(r) == Writes(r.opcode) /\ r.len < SHORT

OnCpu(r) ==
  /\ mem' = IF r.opcode = "MEMMOVE" THEN Copy(mem, r.dest, r.src, r.len)
                                    ELSE Fill(mem, r.dest, r.pat, r.len)
  /\ is_doing_flag' = FALSE
  /\ UNCHANGED <<desc, comp, last_fault_addr, owned>>

\* The rest of async_* when its check() said true.
Submit(r) ==
  /\ CASE ShortToCpu(r)            -> OnCpu(r)
       [] r.opcode = "MEMMOVE" /\ ~ShortToCpu(r) -> async_memmove(r)
       [] r.opcode = "MEMFILL" /\ ~ShortToCpu(r) -> async_memfill(r)
       [] r.opcode = "COMPARE"     -> async_compare(r)
       [] r.opcode = "COMPVAL"     -> async_comp_pattern(r)
       [] r.opcode = "CFLUSH"      -> async_flush(r)
  /\ UNCHANGED page_fault_resolving
  /\ req' = r /\ before' = mem /\ accepted' = accepted + 1

-----------------------------------------------------------------------------
(* check(). *)

\* Mutant of CheckTrue: every answer of the device counts as success.
CheckTrue_AnyAnswer == ~is_doing_flag \/ comp.status # NONE

\* is_doing_flag is off, or the status is SUCCESS.
CheckTrue  == ~is_doing_flag \/ comp.status = SUCCESS
CheckNone  == is_doing_flag /\ comp.status = NONE
CheckFault == is_doing_flag /\ comp.status = PAGE_FAULT
CheckError == is_doing_flag /\ comp.status = BAD

\* Mutants of PF_adjust_desc: the length is not reduced; the addresses stay.
PF_adjust_desc_KeepSize(d, k) ==
  [d EXCEPT !.src = IF UsesSrc(d.opcode) THEN @ + k ELSE @,
            !.dst = IF UsesDst(d.opcode) THEN @ + k ELSE @]
PF_adjust_desc_KeepAddr(d, k) == [d EXCEPT !.size = @ - k]

\* Move the descriptor past the k bytes that are done.
PF_adjust_desc(d, k) ==
  [d EXCEPT !.size = @ - k,
            !.src = IF UsesSrc(d.opcode) THEN @ + k ELSE @,
            !.dst = IF UsesDst(d.opcode) THEN @ + k ELSE @]

\* Mutant of solve_pf: the rest is not submitted.
solve_pf_NoSubmit ==
  /\ desc' = PF_adjust_desc(desc, comp.bytes_completed)
  /\ comp' = [comp EXCEPT !.status = NONE]
  /\ UNCHANGED <<mem, is_doing_flag, last_fault_addr, page_fault_resolving, owned>>

\* solve_pf() and do_op().  "*t = *t" leaves the memory as it is.  When faults
\* are frequent the pages that follow are touched.
solve_pf ==
  LET d == PF_adjust_desc(desc, comp.bytes_completed)
      frequent == /\ INTERLEAVED_PAGEFAULT_ENABLE
                  /\ last_fault_addr # NULL
                  /\ comp.fault_addr - last_fault_addr < DSA_PF_LEN_LIMIT
  IN  /\ do_op(IF frequent
                 THEN touch_trigger_pf(mem, comp.fault_addr, Min2(d.size, TOUCH_LEN), comp.wr)
                 ELSE mem, d)
      /\ page_fault_resolving' = page_fault_resolving + (IF frequent THEN 1 ELSE 0)

-----------------------------------------------------------------------------
(* Calls: async_*, sync_*, check() and wait(). *)

Return(r) == pc' = "idle" /\ ret' = r

Invoke(kind, r) ==
  /\ pc = "idle"
  /\ call' = [kind |-> kind, req |-> r]
  /\ pc' = IF kind = "wait" THEN "wait" ELSE "check"
  /\ UNCHANGED <<mem, object, comp, owned, ret, history, faults>>

Calls == \/ \E kind \in {"check", "wait"} : Invoke(kind, NoReq)
         \/ \E kind \in {"async", "sync"}, r \in Requests :
              accepted < MaxOps /\ Invoke(kind, r)

\* Mutant of AcceptOp: an operation is accepted whatever check() says.
AcceptOp_Unchecked ==
  /\ pc = "check" /\ call.kind \in {"async", "sync"}
  /\ Submit(call.req)
  /\ IF call.kind = "sync" THEN pc' = "wait" /\ UNCHANGED ret ELSE Return(TRUE)
  /\ UNCHANGED <<call, faults>>

\* The first check of async_* and sync_*, when the object is free.
AcceptOp ==
  /\ pc = "check" /\ call.kind \in {"async", "sync"} /\ CheckTrue
  /\ Submit(call.req)
  /\ IF call.kind = "sync" THEN pc' = "wait" /\ UNCHANGED ret ELSE Return(TRUE)
  /\ UNCHANGED <<call, faults>>

\* check() and the loop of wait(), when the operation is over.
FinishOp ==
  /\ pc = "wait" \/ (pc = "check" /\ call.kind = "check")
  /\ CheckTrue
  /\ is_doing_flag' = FALSE
  /\ Return(TRUE)
  /\ UNCHANGED <<mem, desc, last_fault_addr, page_fault_resolving, comp, owned,
                 call, history, faults>>

\* check() said false: async_* gives up, sync_* goes on to wait().
GiveUp ==
  CASE pc = "wait"                         -> UNCHANGED <<pc, ret>>
    [] pc = "check" /\ call.kind = "sync"  -> pc' = "wait" /\ UNCHANGED ret
    [] pc = "check" /\ call.kind # "sync"  -> Return(FALSE)

StillBusy ==
  /\ pc \in {"check", "wait"} /\ CheckNone
  /\ GiveUp
  /\ UNCHANGED <<mem, object, comp, owned, call, history, faults>>

ResolveFault ==
  /\ pc \in {"check", "wait"} /\ CheckFault
  /\ solve_pf
  /\ GiveUp
  /\ UNCHANGED <<call, history, faults>>

\* exit( -1 )
OtherError ==
  /\ pc \in {"check", "wait"} /\ CheckError
  /\ pc' = "exited"
  /\ UNCHANGED <<mem, object, comp, owned, call, ret, history, faults>>

-----------------------------------------------------------------------------
(* The device (external). *)

Effect(d, k) ==
  CASE d.opcode = "MEMMOVE" -> Copy(mem, d.dst, d.src, k)
    [] d.opcode = "MEMFILL" -> Fill(mem, d.dst, d.pat, k)
    [] OTHER                -> mem

MatchLen(d) ==
  CASE d.opcode = "COMPARE" -> Match(mem, d.src, d.dst, d.size)
    [] d.opcode = "COMPVAL" -> MatchPattern(mem, d.src, d.pat, d.size)
    [] OTHER                -> d.size

\* The device reaches only memory that exists.
InRange(d) == /\ UsesSrc(d.opcode) => Bytes(d.src, d.size) \subseteq Mem
              /\ UsesDst(d.opcode) => Bytes(d.dst, d.size) \subseteq Mem

\* A compare stops at the first difference and reports its offset.
DeviceDone ==
  /\ owned /\ InRange(desc)
  /\ mem' = Effect(desc, desc.size)
  /\ comp' = [comp EXCEPT !.status = SUCCESS,
                          !.bytes_completed = MatchLen(desc),
                          !.result = IF MatchLen(desc) = desc.size THEN 0 ELSE 1]
  /\ owned' = FALSE
  /\ UNCHANGED <<object, pc, call, ret, history, faults>>

\* A page of the source or the destination is missing after k bytes.
DeviceFault ==
  /\ owned /\ InRange(desc) /\ faults < MaxFaults
  /\ \E side \in {"src", "dst"}, k \in 0 .. desc.size - 1 :
       /\ IF side = "src" THEN UsesSrc(desc.opcode) ELSE UsesDst(desc.opcode)
       /\ k = 0 \/ (desc[side] + k) % PAGE = 0
       /\ k <= MatchLen(desc)
       /\ mem' = Effect(desc, k)
       /\ comp' = [comp EXCEPT !.status = PAGE_FAULT, !.bytes_completed = k,
                               !.fault_addr = desc[side] + k,
                               !.wr = (side = "dst" /\ Writes(desc.opcode))]
  /\ owned' = FALSE /\ faults' = faults + 1
  /\ UNCHANGED <<object, pc, call, ret, history>>

DeviceRejects ==
  /\ owned /\ ~InRange(desc)
  /\ comp' = [comp EXCEPT !.status = BAD]
  /\ owned' = FALSE
  /\ UNCHANGED <<mem, object, pc, call, ret, history, faults>>

-----------------------------------------------------------------------------
ClientStep == AcceptOp \/ FinishOp \/ StillBusy \/ ResolveFault \/ OtherError
DeviceStep == DeviceDone \/ DeviceFault \/ DeviceRejects

Next == Calls \/ ClientStep \/ DeviceStep

Fairness == WF_vars(ClientStep) /\ WF_vars(DeviceStep)
Spec == Init /\ [][Next]_vars
FairSpec == Spec /\ Fairness

-----------------------------------------------------------------------------
(* Properties. *)

\* Type invariant.
TypeOK ==
  /\ mem \in [Mem -> Int]
  /\ desc \in [opcode : Opcodes \union {"NOOP"}, src : Int, dst : Int, pat : Patterns,
               size : 0 .. LEN_MOD - 1]
  /\ comp \in [status : {NONE, SUCCESS, PAGE_FAULT, BAD}, bytes_completed : Nat,
               result : {0, 1}, fault_addr : Int, wr : BOOLEAN]
  /\ is_doing_flag \in BOOLEAN /\ owned \in BOOLEAN
  /\ last_fault_addr \in Int /\ page_fault_resolving \in Nat
  /\ pc \in {"idle", "check", "wait", "exited"}
  /\ ret \in BOOLEAN
  /\ accepted \in 0 .. MaxOps /\ faults \in 0 .. MaxFaults

\* What the caller of the operation may expect of memory when it is over.
Promised ==
  CASE req.opcode = "MEMMOVE" -> Copy(before, req.dest, req.src, req.len)
    [] req.opcode = "MEMFILL" -> Fill(before, req.dest, req.pat, req.len)
    [] OTHER                  -> before

Over == pc = "idle" /\ req # NoReq /\ ~is_doing_flag

\* When the object says an operation is over, memory is what one uninterrupted
\* operation makes of it: prefix, faults, resumptions and touched pages leave no
\* trace (src/README.md:152-153).
ResultAsPromised == Over => mem = Promised

\* At no time does an operation change a byte outside its destination.
OnlyDestChanges ==
  req # NoReq =>
    \A x \in Mem : (Writes(req.opcode) => x \notin Bytes(req.dest, req.len))
                     => mem[x] = before[x]

IsCompare(r) == r.opcode \in {"COMPARE", "COMPVAL"}

FirstDifference ==
  IF req.opcode = "COMPARE" THEN Match(before, req.src, req.dest, req.len)
                            ELSE MatchPattern(before, req.src, req.pat, req.len)

\* compare_res() is 0 exactly when the regions match (src/README.md:187-188).
CompareAsPromised ==
  Over /\ IsCompare(req) => (comp.result = 0 <=> FirstDifference = req.len)

OneByte(p) == \A i, j \in 0 .. WORD - 1 : p[i] = p[j]

\* A resumed comparison starts with the first byte of its pattern again: at
\* offset n of the request that is still the right one.
InStep(n) == req.opcode = "COMPVAL" => n % WORD = 0 \/ OneByte(req.pat)

\* Bytes of the request that descriptors before this one have compared.
Compared == req.len - desc.size

\* Requests no resumption brings out of step: two regions, a pattern compared
\* from a word boundary on, a pattern of equal bytes.
StaysInStep(r) == r.opcode = "COMPVAL" => r.src % WORD = 0 \/ OneByte(r.pat)

\* For those requests, and for any other whose last piece began in step (for one,
\* when it was not resumed), compare_res() is 0 exactly when the regions match,
\* and compare_differ_offset() is the first difference counted from where the last
\* piece began.  The run op_resumed_compare shows what happens to the rest.
CompareInStep ==
  Over /\ IsCompare(req) /\ (StaysInStep(req) \/ InStep(Compared)) =>
    /\ comp.result = 0 <=> FirstDifference = req.len
    /\ comp.bytes_completed = FirstDifference - Compared

\* compare_differ_offset() is the offset of the first difference, or the length
\* (src/README.md:189).
OffsetAsPromised ==
  Over /\ IsCompare(req) => comp.bytes_completed = FirstDifference

\* While the device owns the descriptor the client touches neither it, nor the
\* completion record, nor memory.
DescriptorUntouched ==
  [][owned /\ owned' => UNCHANGED <<desc, comp, mem>>]_vars

\* An operation is reported as finished only when the device is done with it.
FinishedMeansQuiet == ~is_doing_flag => ~owned

\* A page fault is always noticed: the descriptor of an operation that is not
\* over is with the device or waits for a check.
NothingForgotten ==
  is_doing_flag => owned \/ comp.status # NONE

\* A descriptor the device rejected is never reported as finished.
ErrorNotSuccess == comp.status = BAD => is_doing_flag

\* Every call returns as long as the device answers, unless it rejects the
\* descriptor.
EveryCallReturns == pc \in {"check", "wait"} ~> pc = "idle" \/ comp.status = BAD
=============================================================================

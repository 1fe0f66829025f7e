-------------------------- MODULE SingleOpProofs --------------------------
(***************************************************************************)
(* Theorems about SingleOp, for every memory, every request, any number of *)
(* operations and any number of page faults.                               *)
(***************************************************************************)
EXTENDS SingleOpInv, WellFoundedInduction, TLAPS

-----------------------------------------------------------------------------
(* Polling. *)

\* The first state satisfies the polling invariant.
LEMMA PollInit == Init => PollInv
  BY DEF Init, PollInv, FinishedMeansQuiet, NothingForgotten, ErrorNotSuccess,
         NONE, SUCCESS, PAGE_FAULT, BAD

\* do_op hands a descriptor with a cleared record to the device, whatever the
\* memory and the descriptor are.
LEMMA DoOpPolls ==
  ASSUME NEW m, NEW d, PollInv, do_op(m, d)
  PROVE  PollInv'
  BY DEF do_op, PollInv, FinishedMeansQuiet, NothingForgotten, ErrorNotSuccess,
         NONE, SUCCESS, PAGE_FAULT, BAD

\* A new operation ends up on the CPU or with the device.
LEMMA SubmitPolls ==
  ASSUME NEW r, r.opcode \in Opcodes, PollInv, CheckTrue, Submit(r)
  PROVE  PollInv'
<1>1. CASE ShortToCpu(r)
  <2>1. OnCpu(r)
    BY <1>1 DEF Submit, ShortToCpu, Writes
  <2> QED
    BY <2>1 DEF OnCpu, CheckTrue, PollInv, FinishedMeansQuiet, NothingForgotten,
                ErrorNotSuccess, NONE, SUCCESS, PAGE_FAULT, BAD
<1>2. CASE ~ShortToCpu(r)
  <2>1. async_memmove(r) \/ async_memfill(r) \/ async_compare(r)
          \/ async_comp_pattern(r) \/ async_flush(r)
    BY <1>2 DEF Submit, Opcodes
  <2>2. \E m, d : do_op(m, d)
    BY <2>1 DEF async_memmove, async_memfill, async_compare, async_comp_pattern, async_flush
  <2> QED
    BY <2>2, DoOpPolls
<1> QED
  BY <1>1, <1>2

\* No step breaks the polling invariant; only submissions and the device touch
\* the record, and they alternate.
LEMMA PollStep ==
  ASSUME PollInv, \A r \in Requests : r.opcode \in Opcodes,
         call.kind \in {"async", "sync"} => call.req \in Requests,
         [Next]_vars
  PROVE  PollInv'
<1> USE DEF PollInv, FinishedMeansQuiet, NothingForgotten, ErrorNotSuccess,
            NONE, SUCCESS, PAGE_FAULT, BAD
<1>1. CASE Calls
  BY <1>1 DEF Calls, Invoke, object
<1>2. CASE AcceptOp
  <2>1. call.req.opcode \in Opcodes /\ CheckTrue /\ Submit(call.req)
    BY <1>2 DEF AcceptOp
  <2> QED
    BY <2>1, SubmitPolls
<1>3. CASE FinishOp
  BY <1>3 DEF FinishOp, CheckTrue
<1>4. CASE StillBusy
  BY <1>4 DEF StillBusy, object
<1>5. CASE ResolveFault
  <2>1. \E m, d : do_op(m, d)
    BY <1>5 DEF ResolveFault, solve_pf
  <2> QED
    BY <2>1, DoOpPolls
<1>6. CASE OtherError
  BY <1>6 DEF OtherError, object
<1>7. CASE DeviceDone
  BY <1>7 DEF DeviceDone, object
<1>8. CASE DeviceFault
  BY <1>8 DEF DeviceFault, object
<1>9. CASE DeviceRejects
  BY <1>9 DEF DeviceRejects, object
<1>10. CASE UNCHANGED vars
  BY <1>10 DEF vars, object
<1> QED
  BY <1>1, <1>2, <1>3, <1>4, <1>5, <1>6, <1>7, <1>8, <1>9, <1>10
  DEF Next, ClientStep, DeviceStep

-----------------------------------------------------------------------------
(* Where requests come from. *)

\* Requests have an opcode DSAop uses, addresses and a length.
LEMMA RequestType ==
  ASSUME NEW r \in Requests
  PROVE  /\ r.opcode \in Opcodes /\ r.dest \in Int /\ r.src \in Int /\ r.len \in Nat
         /\ r # NoReq
  BY SingleOpAssumption DEF NoReq, Opcodes

\* Every step keeps them so.
LEMMA RequestedStep == Requested /\ [Next]_vars => Requested'
<1> SUFFICES ASSUME Requested, [Next]_vars PROVE Requested'
  OBVIOUS
<1>1. CASE Calls
  BY <1>1 DEF Requested, Calls, Invoke, history
<1>2. CASE AcceptOp
  BY <1>2 DEF Requested, AcceptOp, Submit
<1>3. CASE FinishOp \/ StillBusy \/ ResolveFault \/ OtherError
  BY <1>3 DEF Requested, FinishOp, StillBusy, ResolveFault, OtherError, history
<1>4. CASE DeviceDone \/ DeviceFault \/ DeviceRejects
  BY <1>4 DEF Requested, DeviceDone, DeviceFault, DeviceRejects, history
<1>5. CASE UNCHANGED vars
  BY <1>5 DEF Requested, vars, history
<1> QED
  BY <1>1, <1>2, <1>3, <1>4, <1>5 DEF Next, ClientStep, DeviceStep

\* The polling protocol is correct for every client and every device: an
\* operation is over only when the device is done with it, a faulted one is
\* never forgotten, and an error is never taken for success (check(), wait()
\* and async_* of dsa_task.cpp and dsa_op.cpp).
THEOREM Polling == Spec => [](PollInv /\ Requested)
<1>1. Init => PollInv /\ Requested
  BY PollInit DEF Init, Requested
<1>2. PollInv /\ Requested /\ [Next]_vars => (PollInv /\ Requested)'
  BY PollStep, RequestedStep, RequestType DEF Requested
<1> QED
  BY <1>1, <1>2, PTL DEF Spec

\* The client leaves the descriptor, the completion record and memory alone
\* while the device owns them.
THEOREM Untouched == Spec => DescriptorUntouched
<1>1. PollInv /\ [Next]_vars => [owned /\ owned' => UNCHANGED <<desc, comp, mem>>]_vars
  <2> SUFFICES ASSUME PollInv, Next, owned, owned' PROVE UNCHANGED <<desc, comp, mem>>
    BY DEF vars
  <2>1. CheckNone /\ ~CheckTrue /\ ~CheckFault
    BY DEF PollInv, FinishedMeansQuiet, CheckNone, CheckTrue, CheckFault, NONE, SUCCESS, PAGE_FAULT
  <2>2. CASE Calls
    BY <2>2 DEF Calls, Invoke, object
  <2>3. CASE ClientStep
    BY <2>3, <2>1 DEF ClientStep, AcceptOp, FinishOp, StillBusy, ResolveFault, OtherError, object
  <2>4. CASE DeviceStep
    BY <2>4 DEF DeviceStep, DeviceDone, DeviceFault, DeviceRejects
  <2> QED
    BY <2>2, <2>3, <2>4 DEF Next
<1> QED
  BY <1>1, Polling, PTL DEF Spec, DescriptorUntouched

-----------------------------------------------------------------------------
(* Numbers. *)

\* A set of natural numbers has a least member: the order is well-founded.
LEMMA LeastNat ==
  ASSUME NEW S \in SUBSET Nat, S # {}
  PROVE  \E m \in S : \A k \in S : m <= k
<1> DEFINE R == OpToRel(<, Nat)
<1>1. IsWellFoundedOn(R, Nat)
  BY NatLessThanWellFounded
<1>2. \A x, y \in Nat : x < y => <<x, y>> \in R
  BY DEF OpToRel
<1> HIDE DEF R
<1>3. PICK m \in S : \A y \in S : ~ (<<y, m>> \in R)
  BY <1>1, WFMin
<1>4. ASSUME NEW k \in S, ~(m <= k) PROVE FALSE
  <2>1. k \in Nat /\ m \in Nat
    OBVIOUS
  <2>2. k < m
    BY <2>1, <1>4
  <2>3. <<k, m>> \in R
    BY <1>2, <2>1, <2>2
  <2> QED
    BY <2>3, <1>3
<1> QED
  BY <1>4

\* FirstOf is the length exactly when there is nothing to find, and otherwise
\* everything before it is not in the set.
LEMMA FirstOfSpec ==
  ASSUME NEW len \in Nat, NEW S \in SUBSET (0 .. len - 1)
  PROVE  /\ FirstOf(S, len) \in 0 .. len
         /\ FirstOf(S, len) = len <=> S = {}
         /\ \A i \in 0 .. FirstOf(S, len) - 1 : i \notin S
         /\ FirstOf(S, len) # len => FirstOf(S, len) \in S
<1>1. CASE S = {}
  BY <1>1 DEF FirstOf
<1>2. CASE S # {}
  <2>1. \E m \in S : \A k \in S : m <= k
    <3>1. S \in SUBSET Nat
      OBVIOUS
    <3> QED
      BY <3>1, <1>2, LeastNat
  <2>2. FirstOf(S, len) \in S /\ \A k \in S : FirstOf(S, len) <= k
    BY <1>2, <2>1 DEF FirstOf
  <2> DEFINE f == FirstOf(S, len)
  <2>3. f \in S /\ \A k \in S : f <= k
    BY <2>2
  <2> HIDE DEF f
  <2>4. f \in 0 .. len - 1
    BY <2>3
  <2>5. f \in 0 .. len /\ f # len /\ \A i \in 0 .. f - 1 : i \notin S
    BY <2>3, <2>4
  <2> QED
    BY <1>2, <2>3, <2>5 DEF f
<1> QED
  BY <1>1, <1>2

\* No other number is.
LEMMA FirstOfIs ==
  ASSUME NEW len \in Nat, NEW S \in SUBSET (0 .. len - 1), NEW m \in 0 .. len,
         \A i \in 0 .. m - 1 : i \notin S, m # len => m \in S
  PROVE  FirstOf(S, len) = m
<1> DEFINE f == FirstOf(S, len)
<1>1. f \in 0 .. len /\ (\A i \in 0 .. f - 1 : i \notin S) /\ (f # len => f \in S)
  BY FirstOfSpec
<1> HIDE DEF f
<1>2. f = m
  <2>1. CASE f < m
    BY <1>1, <2>1
  <2>2. CASE m < f
    BY <1>1, <2>2
  <2> QED
    BY <1>1, <2>1, <2>2
<1> QED
  BY <1>2 DEF f

\* Division with remainder.
LEMMA DivMod ==
  ASSUME NEW a \in Int, NEW w \in Nat \ {0}
  PROVE  a = w * (a \div w) + (a % w) /\ a \div w \in Int /\ a % w \in 0 .. w - 1
  OBVIOUS

LEMMA Remainder ==
  ASSUME NEW w \in Nat \ {0}, NEW q \in Int, NEW r \in 0 .. w - 1
  PROVE  (w * q + r) % w = r
  OBVIOUS

\* A multiple of w does not change remainders.
LEMMA ShiftMod ==
  ASSUME NEW w \in Nat \ {0}, NEW a \in Int, NEW b \in Int, a % w = 0
  PROVE  (a + b) % w = b % w
<1> DEFINE p == a \div w
           q == b \div w
           r == b % w
<1>1. a = w * p /\ p \in Int
  BY DivMod
<1>2. b = w * q + r /\ q \in Int /\ r \in 0 .. w - 1
  BY DivMod
<1> HIDE DEF p, q, r
<1>3. a + b = w * (p + q) + r /\ p + q \in Int
  BY <1>1, <1>2
<1>4. (w * (p + q) + r) % w = r
  BY <1>2, <1>3, Remainder
<1>5. (w * q + r) % w = r
  BY <1>2, Remainder
<1> QED
  BY <1>2, <1>3, <1>4, <1>5

\* A multiple of a multiple of w is a multiple of w.
LEMMA MultipleMod ==
  ASSUME NEW w \in Nat \ {0}, NEW v \in Nat \ {0}, NEW a \in Int, v % w = 0, a % v = 0
  PROVE  a % w = 0
<1> DEFINE p == v \div w
           q == a \div v
<1>1. v = w * p /\ p \in Int
  BY DivMod
<1>2. a = v * q /\ q \in Int
  BY DivMod
<1> HIDE DEF p, q
<1> DEFINE t == p * q
<1>3. t \in Int /\ a = w * t + 0
  BY <1>1, <1>2
<1> HIDE DEF t
<1>4. 0 \in 0 .. w - 1
  OBVIOUS
<1>5. (w * t + 0) % w = 0
  BY <1>3, <1>4, Remainder
<1> QED
  BY <1>3, <1>5

\* Page boundaries are word boundaries.
LEMMA PageWord ==
  ASSUME NEW a \in Int, a % PAGE = 0
  PROVE  a % WORD = 0
<1>1. /\ WORD \in Nat \ {0} /\ LINE \in Nat \ {0} /\ PAGE \in Nat \ {0}
      /\ LINE % WORD = 0 /\ PAGE % LINE = 0
  BY DataPathAssumption
<1>2. PAGE \in Int
  BY <1>1
<1>3. PAGE % WORD = 0
  BY <1>1, <1>2, MultipleMod
<1> QED
  BY <1>1, <1>3, MultipleMod

\* Taking a remainder first makes no difference.
LEMMA AddMod ==
  ASSUME NEW w \in Nat \ {0}, NEW a \in Int, NEW b \in Int
  PROVE  (a + (b % w)) % w = (a + b) % w
<1> DEFINE q == b \div w
           r == b % w
           t == w * q
<1>1. b = t + r /\ q \in Int /\ r \in 0 .. w - 1
  BY DivMod
<1>2. t % w = 0
  <2>1. 0 \in 0 .. w - 1 /\ t = w * q + 0
    BY <1>1
  <2> QED
    BY <1>1, <2>1, Remainder
<1>3. t \in Int
  BY <1>1
<1> HIDE DEF q, r, t
<1>4. a + b = t + (a + r) /\ a + r \in Int
  BY <1>1, <1>3
<1>5. (t + (a + r)) % w = (a + r) % w
  BY <1>2, <1>3, <1>4, ShiftMod
<1> QED
  BY <1>4, <1>5 DEF r

-----------------------------------------------------------------------------
(* Memory. *)

\* The invariant holds at the start, when nothing has been asked for.
LEMMA MemInit == Init => MemInv
<1> SUFFICES ASSUME Init PROVE MemInv
  OBVIOUS
<1>1. mem \in [Mem -> Int] /\ before = mem
  BY SingleOpAssumption DEF Init
<1> QED
  BY <1>1 DEF Init, MemInv, NoDesc, Unfinished

\* The leading pages do_op touches lie inside what the descriptor writes.
LEMMA LeadingInside ==
  ASSUME NEW m, NEW d, d.size \in Int, Writes(d.opcode) => d.dst \in Int
  PROVE  /\ DOMAIN Leading(m, d) = DOMAIN m
         /\ Leading(m, d) = [x \in DOMAIN m |-> Leading(m, d)[x]] \/ Leading(m, d) = m
         /\ \A x \in DOMAIN m :
              (Writes(d.opcode) => x \notin Bytes(d.dst, d.size)) => Leading(m, d)[x] = m[x]
<1>1. CASE Leading(m, d) = m
  BY <1>1
<1>2. CASE Leading(m, d) # m
  <2>1. /\ Leading(m, d) = touch_trigger_pf(m, d.dst, TOUCH_LEN, Writes(d.opcode))
        /\ d.size > TOUCH_LEN
    BY <1>2 DEF Leading
  <2>2. ASSUME NEW x \in DOMAIN m, Writes(d.opcode) => x \notin Bytes(d.dst, d.size)
        PROVE  Leading(m, d)[x] = m[x]
    <3>1. Writes(d.opcode) => x \notin Bytes(d.dst, TOUCH_LEN)
      BY <2>1, <2>2, SingleOpAssumption DEF Bytes
    <3>2. CASE Writes(d.opcode)
      BY <3>1, <3>2, <2>1, SingleOpAssumption DEF touch_trigger_pf, Touched, Bytes
    <3>3. CASE ~Writes(d.opcode)
      BY <3>3, <2>1 DEF touch_trigger_pf
    <3> QED
      BY <3>2, <3>3
  <2> QED
    BY <2>1, <2>2 DEF touch_trigger_pf
<1> QED
  BY <1>1, <1>2

\* xfer_size holds every length below LEN_MOD.
LEMMA SmallMod ==
  ASSUME NEW a \in Nat, NEW b \in Nat \ {0}, a < b
  PROVE  a % b = a
  OBVIOUS

\* do_op keeps the invariant when the descriptor fits the request and the bytes
\* outside it are as promised.
LEMMA DoOpMem ==
  ASSUME PollInv, NEW m, NEW d, do_op(m, d), req' # NoReq, Fits(d, req'),
         DOMAIN m = Mem, m = [x \in Mem |-> m[x]],
         DOMAIN before' = Mem, before' = [x \in Mem |-> before'[x]],
         \A x \in Mem : (Writes(d.opcode) => x \notin Bytes(d.dst, d.size))
                          => m[x] = Promised'[x]
  PROVE  MemInv'
<1> DEFINE touched == Leading(m, d)
<1>1. d.size \in Int /\ (Writes(d.opcode) => d.dst \in Int)
  BY DEF Fits
<1>2. /\ DOMAIN touched = Mem /\ touched = [x \in Mem |-> touched[x]]
      /\ \A x \in Mem : (Writes(d.opcode) => x \notin Bytes(d.dst, d.size))
                          => touched[x] = Promised'[x]
  BY <1>1, LeadingInside
<1>3. mem' = touched /\ desc' = d /\ is_doing_flag' /\ comp'.status = NONE
  BY DEF do_op, PollInv
<1> HIDE DEF touched
<1>4. Left' = IF Writes(d.opcode) THEN Bytes(d.dst, d.size) ELSE {}
  BY <1>1, <1>3 DEF Left, Unfinished, Part, NONE, SUCCESS, PAGE_FAULT
<1>5. Fits(desc, req)' /\ RecordFits'
  BY <1>3 DEF Fits, RecordFits, NONE, PAGE_FAULT
<1>6. \A x \in Mem \ Left' : mem'[x] = Promised'[x]
  BY <1>2, <1>3, <1>4
<1> QED
  BY <1>2, <1>3, <1>5, <1>6 DEF MemInv

\* The distance to the next cache line is less than a line.
LEMMA AlignRange ==
  ASSUME NEW a \in Int
  PROVE  a % LINE \in 0 .. LINE - 1 /\ align64_diff(a) \in 0 .. LINE - 1
<1>1. LINE \in Nat \ {0}
  BY DataPathAssumption
<1>2. a % LINE \in 0 .. LINE - 1
  BY <1>1
<1> QED
  BY <1>1, <1>2 DEF align64_diff

\* A length field is a natural number.
LEMMA DescriptorSize ==
  ASSUME NEW op, NEW src, NEW dst, NEW pat, NEW size \in Int
  PROVE  Descriptor(op, src, dst, pat, size).size \in Nat
  BY SingleOpAssumption DEF Descriptor

\* Descriptors that write nothing leave memory as it was.
LEMMA ReadOnlyMem ==
  ASSUME PollInv, MemInv, NEW r \in Requests, req' = r, before' = mem,
         NEW op \in {"COMPARE", "COMPVAL", "CFLUSH"}, r.opcode = op,
         NEW src, NEW dst, NEW size \in Int,
         do_op(mem, Descriptor(op, src, dst, r.pat, size))
  PROVE  MemInv'
<1> DEFINE d == Descriptor(op, src, dst, r.pat, size)
<1>1. Fits(d, r) /\ ~Writes(d.opcode)
  BY DescriptorSize DEF Fits, Descriptor, Writes
<1>2. Promised' = mem
  BY DEF Promised
<1>3. r # NoReq /\ DOMAIN mem = Mem /\ mem = [x \in Mem |-> mem[x]]
  BY RequestType DEF MemInv
<1> HIDE DEF d
<1> QED
  BY <1>1, <1>2, <1>3, DoOpMem DEF d

\* Offsets into a pattern.
LEMMA PatternRange ==
  ASSUME NEW a \in Int
  PROVE  a % WORD \in 0 .. WORD - 1
  BY DataPathAssumption

\* What the CPU does of a fill before the descriptor: whole words, or one more
\* word that overlaps them, which is right for a pattern of equal bytes.
LEMMA PrefixFilled ==
  ASSUME NEW m, DOMAIN m = Mem, NEW a \in Int, NEW d \in Nat, NEW p,
         d % WORD = 0 \/ (OneByte(p) /\ d >= WORD)
  PROVE  fill_prefix(m, a, p, d) = Fill(m, a, p, d)
<1> DEFINE w == WORD * (d \div WORD)
           n == d % WORD
           words == Fill(m, a, p, w)
<1>1. d = w + n /\ n \in 0 .. WORD - 1 /\ w \in Int /\ WORD \in Nat \ {0}
  BY DataPathAssumption, DivMod
<1> HIDE DEF w
<1>2. CASE n = 0
  <2>1. w = d
    BY <1>1, <1>2
  <2> QED
    BY <1>2, <2>1 DEF fill_prefix, w
<1>3. CASE n # 0
  <2> DEFINE b == a + d - WORD
             q == new_pattern(p, n)
  <2>1. OneByte(p) /\ d >= WORD /\ b \in Int
    BY <1>1, <1>3
  <2>2. fill_prefix(m, a, p, d) = Fill(words, b, q, WORD)
    BY <1>3 DEF fill_prefix, Store, w
  <2>3. words = [x \in Mem |-> IF x \in Bytes(a, w) THEN p[(x - a) % WORD] ELSE m[x]]
    BY DEF Fill
  <2> HIDE DEF words, b, q, n
  <2>4. Fill(words, b, q, WORD)
          = [x \in Mem |-> IF x \in Bytes(b, WORD) THEN q[(x - b) % WORD] ELSE words[x]]
    BY <2>3 DEF Fill
  <2>5. ASSUME NEW x \in Mem
        PROVE  (IF x \in Bytes(b, WORD) THEN q[(x - b) % WORD] ELSE words[x])
                 = (IF x \in Bytes(a, d) THEN p[(x - a) % WORD] ELSE m[x])
    <3>1. x \in Int
      BY SingleOpAssumption
    <3>2. x \in Bytes(a, d) <=> x \in Bytes(b, WORD) \/ x \in Bytes(a, w)
      BY <1>1, <2>1, <3>1 DEF Bytes, b
    <3>3. q[(x - b) % WORD] = p[(x - a) % WORD]
      <4>1. x - b \in Int /\ x - a \in Int
        BY <2>1, <3>1
      <4>2. (x - b) % WORD \in 0 .. WORD - 1 /\ (x - a) % WORD \in 0 .. WORD - 1
        BY <4>1, PatternRange
      <4>3. ((x - b) % WORD) - n \in Int
        BY <1>1, <4>2
      <4>4. (((x - b) % WORD) - n) % WORD \in 0 .. WORD - 1
        BY <4>3, PatternRange
      <4>5. q[(x - b) % WORD] = p[(((x - b) % WORD) - n) % WORD]
        BY <4>2 DEF q, new_pattern
      <4> QED
        BY <2>1, <4>2, <4>4, <4>5 DEF OneByte
    <3>4. words[x] = IF x \in Bytes(a, w) THEN p[(x - a) % WORD] ELSE m[x]
      BY <2>3
    <3> QED
      BY <3>2, <3>3, <3>4, Zenon
  <2> QED
    BY <2>2, <2>4, <2>5 DEF Fill
<1> QED
  BY <1>2, <1>3

\* The descriptor of a fill continues the pattern of the request.
LEMMA RestFits ==
  ASSUME NEW r \in Requests, SafeRequest(r), r.opcode = "MEMFILL", NEW k \in Nat,
         k = Prefix(r), NEW j \in 0 .. WORD - 1
  PROVE  rest_pattern(r.pat, k)[j] = r.pat[(k + j) % WORD]
<1>1. WORD \in Nat \ {0} /\ k + j \in Int /\ j \in Nat
  BY DataPathAssumption
<1>2. (k + j) % WORD \in 0 .. WORD - 1
  BY <1>1, PatternRange
<1>3. CASE k % WORD = 0
  <2>1. (k + j) % WORD = j % WORD
    BY <1>1, <1>3, ShiftMod
  <2>2. j % WORD = j
    BY <1>1
  <2> QED
    BY <1>3, <2>1, <2>2 DEF rest_pattern
<1>4. CASE k % WORD # 0
  <2>1. OneByte(r.pat)
    BY <1>4 DEF SafeRequest
  <2> DEFINE n == k % WORD
  <2>2. rest_pattern(r.pat, k)[j] = r.pat[(j - n) % WORD]
    BY <1>4 DEF rest_pattern, new_pattern
  <2>3. j - n \in Int
    BY <1>1, PatternRange
  <2>4. (j - n) % WORD \in 0 .. WORD - 1
    BY <2>3, PatternRange
  <2> QED
    BY <1>2, <2>1, <2>2, <2>4 DEF OneByte
<1> QED
  BY <1>3, <1>4

\* Submitting a safe request establishes the invariant for it.
LEMMA SubmitMem ==
  ASSUME PollInv, MemInv, NEW r \in Requests, SafeRequest(r), CheckTrue, Submit(r)
  PROVE  MemInv'
<1>1. /\ req' = r /\ before' = mem /\ r # NoReq
      /\ DOMAIN mem = Mem /\ mem = [x \in Mem |-> mem[x]]
      /\ r.opcode \in Opcodes /\ r.dest \in Int /\ r.src \in Int /\ r.len \in Nat
  BY RequestType DEF Submit, MemInv
<1>2. CASE ShortToCpu(r)
  <2>1. OnCpu(r) /\ r.opcode \in {"MEMMOVE", "MEMFILL"}
    BY <1>2 DEF Submit, ShortToCpu, Writes
  <2>2. mem' = Promised' /\ DOMAIN mem' = Mem /\ mem' = [x \in Mem |-> mem'[x]]
    BY <1>1, <2>1 DEF OnCpu, Promised, Copy, Fill
  <2> QED
    BY <1>1, <2>1, <2>2 DEF OnCpu, MemInv, Unfinished
<1>3. CASE ~ShortToCpu(r) /\ r.opcode = "MEMMOVE"
  <2> DEFINE k == IF DESCS_ADDRESS_ALIGNMENT THEN align64_diff(r.dest) ELSE 0
             m == Copy(mem, r.dest, r.src, k)
             d == Descriptor("MEMMOVE", r.src + k, r.dest + k, r.pat, r.len - k)
  <2>1. do_op(m, d)
    BY <1>3 DEF Submit, async_memmove
  <2>2. k \in 0 .. r.len
    <3>1. k = Prefix(r) /\ k <= r.len
      BY <1>3, SingleOpAssumption DEF SafeRequest, Prefix
    <3>2. k \in Nat
      BY <1>1, AlignRange, DataPathAssumption
    <3> QED
      BY <1>1, <3>1, <3>2
  <2> HIDE DEF k
  <2>3. (r.len - k) % LEN_MOD = r.len - k
    <3>1. r.len - k \in Nat /\ LEN_MOD \in Nat \ {0} /\ r.len - k < LEN_MOD
      BY <1>1, <2>2, SingleOpAssumption DEF SafeRequest
    <3> QED
      BY <3>1, SmallMod
  <2>4. Fits(d, r) /\ Writes(d.opcode)
    BY <1>1, <1>3, <2>2, <2>3 DEF Fits, Descriptor, Writes
  <2>5. /\ DOMAIN m = Mem /\ m = [x \in Mem |-> m[x]]
        /\ \A x \in Mem : x \notin Bytes(r.dest + k, r.len - k)
                            => m[x] = Copy(mem, r.dest, r.src, r.len)[x]
    BY <1>1, <2>2 DEF Copy, Bytes
  <2>6. Promised' = Copy(mem, r.dest, r.src, r.len)
    BY <1>1, <1>3 DEF Promised
  <2>7. d.dst = r.dest + k /\ d.size = r.len - k
    BY <2>3 DEF Descriptor
  <2> HIDE DEF m, d
  <2> QED
    BY <1>1, <2>1, <2>4, <2>5, <2>6, <2>7, DoOpMem
<1>4. CASE ~ShortToCpu(r) /\ r.opcode = "MEMFILL"
  <2> DEFINE k == IF DESCS_ADDRESS_ALIGNMENT THEN fill_diff(r.dest, r.len) ELSE 0
             m == fill_prefix(mem, r.dest, r.pat, k)
             d == Descriptor("MEMFILL", 0, r.dest + k, rest_pattern(r.pat, k), r.len - k)
  <2>1. do_op(m, d)
    BY <1>4 DEF Submit, async_memfill
  <2>2. k \in 0 .. r.len /\ k = Prefix(r)
    <3>1. align64_diff(r.dest) \in Nat
      BY <1>1, AlignRange, DataPathAssumption
    <3>2. fill_diff(r.dest, r.len) \in 0 .. r.len
      BY <1>1, <3>1 DEF fill_diff, Min2
    <3> QED
      BY <1>1, <1>4, <3>2, SingleOpAssumption DEF Prefix
  <2> HIDE DEF k
  <2>3. (r.len - k) % LEN_MOD = r.len - k
    <3>1. r.len - k \in Nat /\ LEN_MOD \in Nat \ {0} /\ r.len - k < LEN_MOD
      BY <1>1, <2>2, SingleOpAssumption DEF SafeRequest
    <3> QED
      BY <3>1, SmallMod
  <2>4. (r.dest + k) % WORD = 0 \/ OneByte(r.pat)
    <3>1. r.dest \in Int /\ k \in Int /\ WORD \in Nat \ {0}
      BY <1>1, <2>2, DataPathAssumption
    <3>2. r.dest % WORD = 0 => (r.dest + k) % WORD = k % WORD
      BY <3>1, ShiftMod
    <3> QED
      BY <1>4, <2>2, <3>2 DEF SafeRequest
  <2>5. /\ d.opcode = "MEMFILL" /\ d.dst = r.dest + k /\ d.size = r.len - k
        /\ d.pat = rest_pattern(r.pat, k)
        /\ DOMAIN d = {"opcode", "src", "dst", "pat", "size"}
    BY <2>3 DEF Descriptor
  <2> HIDE DEF d
  <2>6. \A j \in 0 .. WORD - 1 : d.pat[j] = r.pat[(d.dst - r.dest + j) % WORD]
    <3> SUFFICES ASSUME NEW j \in 0 .. WORD - 1
                 PROVE  d.pat[j] = r.pat[(d.dst - r.dest + j) % WORD]
      OBVIOUS
    <3>1. d.dst - r.dest + j = k + j /\ k \in Nat
      BY <1>1, <2>2, <2>5, DataPathAssumption
    <3> QED
      BY <1>4, <2>2, <2>5, <3>1, RestFits
  <2>7. Fits(d, r) /\ Writes(d.opcode)
    BY <1>1, <1>4, <2>2, <2>4, <2>5, <2>6 DEF Fits, Writes
  <2>8. m = Fill(mem, r.dest, r.pat, k)
    <3>1. k % WORD = 0 \/ (OneByte(r.pat) /\ k >= WORD)
      BY <1>4, <2>2 DEF SafeRequest
    <3> QED
      BY <1>1, <2>2, <3>1, PrefixFilled
  <2> HIDE DEF m
  <2>9. /\ DOMAIN m = Mem /\ m = [x \in Mem |-> m[x]]
        /\ \A x \in Mem : x \notin Bytes(r.dest + k, r.len - k)
                            => m[x] = Fill(mem, r.dest, r.pat, r.len)[x]
    BY <1>1, <2>2, <2>8 DEF Fill, Bytes
  <2>10. Promised' = Fill(mem, r.dest, r.pat, r.len)
    BY <1>1, <1>4 DEF Promised
  <2> QED
    BY <1>1, <2>1, <2>5, <2>7, <2>9, <2>10, DoOpMem
<1>5. CASE r.opcode \in {"COMPARE", "COMPVAL", "CFLUSH"}
  <2>1. CASE r.opcode = "COMPARE"
    <3>1. do_op(mem, Descriptor("COMPARE", r.src, r.dest, r.pat, r.len))
      BY <2>1 DEF Submit, ShortToCpu, Writes, async_compare
    <3> QED
      BY <1>1, <2>1, <3>1, ReadOnlyMem
  <2>2. CASE r.opcode = "COMPVAL"
    <3>1. do_op(mem, Descriptor("COMPVAL", r.src, 0, r.pat, r.len))
      BY <2>2 DEF Submit, ShortToCpu, Writes, async_comp_pattern
    <3> QED
      BY <1>1, <2>2, <3>1, ReadOnlyMem
  <2>3. CASE r.opcode = "CFLUSH"
    <3> DEFINE off == IF DESCS_ADDRESS_ALIGNMENT THEN r.dest % LINE ELSE 0
               len == r.len + off
               pad == IF DESCS_ADDRESS_ALIGNMENT /\ len % LINE # 0
                        THEN LINE - (len % LINE) ELSE 0
    <3>1. off \in Int /\ len \in Int
      BY <1>1, AlignRange
    <3>2. pad \in Int
      BY <3>1, AlignRange, DataPathAssumption
    <3>3. do_op(mem, Descriptor("CFLUSH", 0, r.dest - off, r.pat, len + pad))
      BY <2>3 DEF Submit, ShortToCpu, Writes, async_flush
    <3>4. len + pad \in Int
      BY <3>1, <3>2
    <3> HIDE DEF off, len, pad
    <3> QED
      BY <1>1, <2>3, <3>3, <3>4, ReadOnlyMem
  <2> QED
    BY <1>5, <2>1, <2>2, <2>3
<1> QED
  BY <1>1, <1>2, <1>3, <1>4, <1>5 DEF Opcodes, ShortToCpu, Writes

\* solve_pf resumes exactly what is left.
LEMMA ResolveMem ==
  ASSUME PollInv, MemInv, Requested, CheckFault, solve_pf, UNCHANGED history
  PROVE  MemInv'
<1> DEFINE k == comp.bytes_completed
           d == PF_adjust_desc(desc, k)
<1>1. /\ Fits(desc, req) /\ RecordFits /\ req # NoReq /\ req \in Requests
      /\ comp.status = PAGE_FAULT /\ Unfinished
      /\ DOMAIN mem = Mem /\ mem = [x \in Mem |-> mem[x]]
  BY DEF MemInv, CheckFault, Unfinished, PAGE_FAULT, SUCCESS, Requested
<1>2. req' = req /\ before' = before /\ Promised' = Promised
  BY DEF history, Promised
<1>3. k \in 0 .. desc.size - 1 /\ desc.size \in Nat
  BY <1>1 DEF RecordFits, Fits
<1>4. /\ d.opcode = desc.opcode /\ d.size = desc.size - k /\ d.pat = desc.pat
      /\ DOMAIN d = {"opcode", "src", "dst", "pat", "size"}
      /\ Writes(desc.opcode) => d.dst = desc.dst + k
      /\ desc.opcode = "MEMMOVE" => d.src = desc.src + k
  BY <1>1 DEF PF_adjust_desc, Fits, UsesSrc, UsesDst, Writes
<1> HIDE DEF d, k
<1>5. Fits(d, req)
  <2>1. d.size \in Nat /\ d.opcode = req.opcode
    BY <1>1, <1>3, <1>4 DEF Fits
  <2>2. ASSUME Writes(req.opcode)
        PROVE  d.dst \in Int /\ d.dst + d.size = req.dest + req.len /\ d.dst >= req.dest
    <3>1. /\ desc.dst \in Int /\ desc.dst + desc.size = req.dest + req.len
          /\ desc.dst >= req.dest /\ d.dst = desc.dst + k /\ d.size = desc.size - k
      BY <1>1, <1>4, <2>2 DEF Fits
    <3>2. req.dest \in Int /\ req.len \in Nat
      BY <1>1, RequestType
    <3> QED
      BY <1>3, <3>1, <3>2
  <2>3. ASSUME req.opcode = "MEMMOVE"
        PROVE  d.src - d.dst = req.src - req.dest /\ d.src \in Int
    <3>1. /\ desc.dst \in Int /\ desc.src \in Int /\ desc.src - desc.dst = req.src - req.dest
          /\ d.dst = desc.dst + k /\ d.src = desc.src + k
      BY <1>1, <1>4, <2>3 DEF Fits, Writes
    <3> QED
      BY <1>3, <3>1
  <2>4. ASSUME req.opcode = "MEMFILL"
        PROVE  /\ d.dst % WORD = 0 \/ OneByte(req.pat)
               /\ \A j \in 0 .. WORD - 1 : d.pat[j] = req.pat[(d.dst - req.dest + j) % WORD]
    <3>1. /\ desc.dst \in Int /\ d.dst = desc.dst + k /\ d.pat = desc.pat
          /\ desc.dst % WORD = 0 \/ OneByte(req.pat)
          /\ \A j \in 0 .. WORD - 1 : desc.pat[j] = req.pat[(desc.dst - req.dest + j) % WORD]
          /\ k = 0 \/ (desc.dst + k) % PAGE = 0
      BY <1>1, <1>4, <2>4 DEF Fits, RecordFits, Writes, k
    <3>2. req.dest \in Int /\ k \in Int /\ WORD \in Nat \ {0} /\ 0 % WORD = 0
      BY <1>1, <1>3, RequestType, DataPathAssumption
    <3>3. OneByte(req.pat) \/ (k % WORD = 0 /\ d.dst % WORD = 0)
      <4>1. SUFFICES ASSUME desc.dst % WORD = 0 PROVE k % WORD = 0 /\ d.dst % WORD = 0
        BY <3>1
      <4>2. CASE k = 0
        BY <3>1, <3>2, <4>1, <4>2
      <4>3. CASE (desc.dst + k) % PAGE = 0
        <5>1. desc.dst + k \in Int
          BY <3>1, <3>2
        <5>2. (desc.dst + k) % WORD = 0
          BY <4>3, <5>1, PageWord
        <5>3. (desc.dst + k) % WORD = k % WORD
          BY <3>1, <3>2, <4>1, ShiftMod
        <5> QED
          BY <3>1, <5>2, <5>3
      <4> QED
        BY <3>1, <4>2, <4>3
    <3>4. ASSUME NEW j \in 0 .. WORD - 1
          PROVE  d.pat[j] = req.pat[(d.dst - req.dest + j) % WORD]
      <4> DEFINE e == desc.dst - req.dest + j
      <4>1. e \in Int /\ k + e \in Int /\ d.dst - req.dest + j = k + e
        <5>1. desc.dst \in Int /\ req.dest \in Int /\ k \in Int /\ j \in Int
          BY <3>1, <3>2
        <5> QED
          BY <3>1, <5>1
      <4>2. d.pat[j] = req.pat[e % WORD]
        BY <3>1
      <4>3. e % WORD \in 0 .. WORD - 1 /\ (k + e) % WORD \in 0 .. WORD - 1
        BY <4>1, PatternRange
      <4>4. k % WORD = 0 => (k + e) % WORD = e % WORD
        BY <3>2, <4>1, ShiftMod
      <4> HIDE DEF e
      <4> QED
        BY <3>3, <4>1, <4>2, <4>3, <4>4 DEF OneByte
    <3> QED
      BY <3>3, <3>4
  <2> QED
    BY <1>1, <1>4, <2>1, <2>2, <2>3, <2>4 DEF Fits
<1>6. Left = IF Writes(d.opcode) THEN Bytes(d.dst, d.size) ELSE {}
  BY <1>1, <1>3, <1>4 DEF Left, Part, k
<1>7. PICK m : /\ do_op(m, d)
               /\ m = mem \/ m = touch_trigger_pf(mem, comp.fault_addr,
                                                Min2(d.size, TOUCH_LEN), comp.wr)
  BY DEF solve_pf, d, k
<1>8. /\ DOMAIN m = Mem /\ m = [x \in Mem |-> m[x]]
      /\ \A x \in Mem \ Left : m[x] = mem[x]
  <2>1. CASE m = mem
    BY <2>1, <1>1
  <2>2. CASE m = touch_trigger_pf(mem, comp.fault_addr, Min2(d.size, TOUCH_LEN), comp.wr)
    <3>1. CASE comp.wr
      <4>1. Writes(d.opcode) /\ comp.fault_addr = d.dst /\ d.dst \in Int
        BY <1>1, <1>4, <1>5, <3>1 DEF RecordFits, Fits, k
      <4>2. Min2(d.size, TOUCH_LEN) \in 1 .. d.size
        BY <1>3, <1>4, SingleOpAssumption DEF Min2
      <4> QED
        BY <1>1, <1>3, <1>4, <1>6, <2>2, <4>1, <4>2 DEF touch_trigger_pf, Touched, Bytes
    <3>2. CASE ~comp.wr
      BY <1>1, <2>2, <3>2 DEF touch_trigger_pf
    <3> QED
      BY <3>1, <3>2
  <2> QED
    BY <1>7, <2>1, <2>2
<1>9. \A x \in Mem : (Writes(d.opcode) => x \notin Bytes(d.dst, d.size)) => m[x] = Promised'[x]
  BY <1>1, <1>2, <1>6, <1>8 DEF MemInv
<1> QED
  BY <1>1, <1>2, <1>5, <1>7, <1>8, <1>9, DoOpMem DEF MemInv

\* The device brings the first k bytes of its piece to what was promised.
LEMMA EffectMem ==
  ASSUME MemInv, Requested, Unfinished, comp.status = NONE, InRange(desc),
         SafeRequests, NEW k \in 0 .. desc.size
  PROVE  /\ DOMAIN Effect(desc, k) = Mem
         /\ Effect(desc, k) = [x \in Mem |-> Effect(desc, k)[x]]
         /\ \A x \in Mem :
              (Writes(desc.opcode) => x \notin Bytes(desc.dst + k, desc.size - k))
                => Effect(desc, k)[x] = Promised[x]
<1>1. /\ Fits(desc, req) /\ req # NoReq /\ req \in Requests /\ SafeRequest(req)
      /\ DOMAIN mem = Mem /\ mem = [x \in Mem |-> mem[x]]
      /\ DOMAIN before = Mem
      /\ req.opcode \in Opcodes /\ req.dest \in Int /\ req.src \in Int /\ req.len \in Nat
  BY RequestType DEF MemInv, Requested, SafeRequests, Unfinished
<1>2. Left = IF Writes(desc.opcode) THEN Bytes(desc.dst, desc.size) ELSE {}
  BY <1>1 DEF Left, Part, NONE, PAGE_FAULT, Fits, Writes
<1>3. \A x \in Mem \ Left : mem[x] = Promised[x]
  BY <1>1 DEF MemInv
<1>4. CASE req.opcode = "MEMMOVE"
  <2>1. /\ desc.opcode = "MEMMOVE" /\ desc.size \in Nat /\ desc.dst \in Int /\ desc.src \in Int
        /\ desc.dst + desc.size = req.dest + req.len /\ desc.dst >= req.dest
        /\ desc.src - desc.dst = req.src - req.dest
    BY <1>1, <1>4 DEF Fits, Writes
  <2>2. Left = Bytes(desc.dst, desc.size)
    BY <1>2, <2>1 DEF Writes
  <2>3. Promised = Copy(before, req.dest, req.src, req.len)
    BY <1>4 DEF Promised
  <2>4. Effect(desc, k) = Copy(mem, desc.dst, desc.src, k)
    BY <2>1 DEF Effect
  <2>5. Bytes(req.src, req.len) \subseteq Mem /\ Disjoint(req)
    BY <1>1, <1>4 DEF SafeRequest
  <2>6. ASSUME NEW s \in Bytes(desc.src, desc.size)
        PROVE  s \in Mem /\ mem[s] = before[s]
    <3>1. s \in Bytes(req.src, req.len)
      BY <1>1, <2>1 DEF Bytes
    <3>2. s \in Mem /\ s \notin Bytes(req.dest, req.len)
      BY <3>1, <2>5 DEF Disjoint
    <3>3. Bytes(desc.dst, desc.size) \subseteq Bytes(req.dest, req.len)
      BY <1>1, <2>1 DEF Bytes
    <3>4. s \notin Left
      BY <2>2, <3>2, <3>3
    <3> QED
      BY <1>1, <1>3, <2>3, <3>2, <3>4 DEF Copy
  <2>7. ASSUME NEW x \in Mem, x \notin Bytes(desc.dst + k, desc.size - k)
        PROVE  Effect(desc, k)[x] = Promised[x]
    <3>1. CASE x \in Bytes(desc.dst, k)
      <4>1. x - desc.dst \in Int /\ desc.src + (x - desc.dst) = req.src + (x - req.dest)
        BY <1>1, <2>1, <3>1 DEF Bytes
      <4>2. x \in Bytes(req.dest, req.len)
        BY <1>1, <2>1, <3>1 DEF Bytes
      <4>3. desc.src + (x - desc.dst) \in Bytes(desc.src, desc.size)
        BY <2>1, <3>1 DEF Bytes
      <4>4. Effect(desc, k)[x] = mem[desc.src + (x - desc.dst)]
        BY <1>1, <2>4, <3>1 DEF Copy
      <4>5. Promised[x] = before[req.src + (x - req.dest)]
        BY <1>1, <2>3, <4>2 DEF Copy
      <4> QED
        BY <2>6, <4>1, <4>3, <4>4, <4>5
    <3>2. CASE x \notin Bytes(desc.dst, k)
      <4>1. x \notin Left
        BY <2>1, <2>2, <2>7, <3>2 DEF Bytes
      <4> QED
        BY <1>1, <1>3, <2>4, <3>2, <4>1 DEF Copy
    <3> QED
      BY <3>1, <3>2
  <2> QED
    BY <1>1, <2>1, <2>4, <2>7 DEF Copy, Writes
<1>5. CASE req.opcode = "MEMFILL"
  <2>1. /\ desc.opcode = "MEMFILL" /\ desc.size \in Nat /\ desc.dst \in Int
        /\ desc.dst + desc.size = req.dest + req.len /\ desc.dst >= req.dest
        /\ \A j \in 0 .. WORD - 1 : desc.pat[j] = req.pat[(desc.dst - req.dest + j) % WORD]
    BY <1>1, <1>5 DEF Fits, Writes
  <2>2. Left = Bytes(desc.dst, desc.size)
    BY <1>2, <2>1 DEF Writes
  <2>3. Promised = Fill(before, req.dest, req.pat, req.len)
    BY <1>5 DEF Promised
  <2>4. Effect(desc, k) = Fill(mem, desc.dst, desc.pat, k)
    BY <2>1 DEF Effect
  <2>6. ASSUME NEW x \in Mem, x \notin Bytes(desc.dst + k, desc.size - k)
        PROVE  Effect(desc, k)[x] = Promised[x]
    <3>1. CASE x \in Bytes(desc.dst, k)
      <4>1. x \in Bytes(req.dest, req.len) /\ x - desc.dst \in Int /\ x - req.dest \in Int
        BY <1>1, <2>1, <3>1 DEF Bytes
      <4>2. (x - desc.dst) % WORD \in 0 .. WORD - 1
        BY <4>1, PatternRange
      <4>3. Effect(desc, k)[x] = desc.pat[(x - desc.dst) % WORD]
        BY <1>1, <2>4, <3>1 DEF Fill
      <4>4. Promised[x] = req.pat[(x - req.dest) % WORD]
        BY <1>1, <2>3, <4>1 DEF Fill
      <4>5. ((desc.dst - req.dest) + ((x - desc.dst) % WORD)) % WORD = (x - req.dest) % WORD
        <5>1. /\ desc.dst - req.dest \in Int /\ WORD \in Nat \ {0}
              /\ (desc.dst - req.dest) + (x - desc.dst) = x - req.dest
          BY <1>1, <2>1, <3>1, DataPathAssumption DEF Bytes
        <5>2. ((desc.dst - req.dest) + ((x - desc.dst) % WORD)) % WORD
                = ((desc.dst - req.dest) + (x - desc.dst)) % WORD
          BY <4>1, <5>1, AddMod
        <5> QED
          BY <5>1, <5>2
      <4>6. desc.pat[(x - desc.dst) % WORD]
              = req.pat[((desc.dst - req.dest) + ((x - desc.dst) % WORD)) % WORD]
        <5> DEFINE j == (x - desc.dst) % WORD
        <5>1. j \in 0 .. WORD - 1
          BY <4>2
        <5> HIDE DEF j
        <5>2. desc.pat[j] = req.pat[((desc.dst - req.dest) + j) % WORD]
          BY <2>1, <5>1
        <5> QED
          BY <5>2 DEF j
      <4> QED
        BY <4>3, <4>4, <4>5, <4>6
    <3>2. CASE x \notin Bytes(desc.dst, k)
      <4>1. x \notin Left
        BY <2>1, <2>2, <2>6, <3>2 DEF Bytes
      <4> QED
        BY <1>1, <1>3, <2>4, <3>2, <4>1 DEF Fill
    <3> QED
      BY <3>1, <3>2
  <2> QED
    BY <1>1, <2>1, <2>4, <2>6 DEF Fill, Writes
<1>6. CASE req.opcode \in {"COMPARE", "COMPVAL", "CFLUSH"}
  <2>1. ~Writes(desc.opcode) /\ Effect(desc, k) = mem
    BY <1>1, <1>6 DEF Fits, Writes, Effect
  <2> QED
    BY <1>1, <1>2, <1>3, <2>1
<1> QED
  BY <1>1, <1>4, <1>5, <1>6 DEF Opcodes

\* Steps that leave memory, the record and the operation alone.
LEMMA QuietMem ==
  ASSUME MemInv, UNCHANGED <<mem, desc, comp, req, before>>,
         is_doing_flag' = is_doing_flag \/ (CheckTrue /\ is_doing_flag' = FALSE)
  PROVE  MemInv'
<1>1. Promised' = Promised
  BY DEF Promised
<1>2. CASE is_doing_flag' = is_doing_flag
  <2>1. Unfinished' = Unfinished /\ Left' = Left
    BY <1>2 DEF Unfinished, Left, Part
  <2> QED
    BY <1>1, <1>2, <2>1 DEF MemInv, Fits, RecordFits
<1>3. CASE CheckTrue /\ is_doing_flag' = FALSE
  <2>1. ~Unfinished /\ ~Unfinished' /\ Left = {} /\ Left' = {}
    BY <1>3 DEF CheckTrue, Unfinished, Left
  <2> QED
    BY <1>1, <1>3, <2>1 DEF MemInv
<1> QED
  BY <1>2, <1>3

\* Every step keeps memory as promised outside the bytes that are left.
LEMMA MemStep ==
  ASSUME SafeRequests, PollInv, Requested, MemInv, [Next]_vars
  PROVE  MemInv'
<1>1. CASE Calls
  BY <1>1, QuietMem DEF Calls, Invoke, object, history
<1>2. CASE AcceptOp
  <2>1. call.req \in Requests /\ CheckTrue /\ Submit(call.req)
    BY <1>2 DEF AcceptOp, Requested
  <2> QED
    BY <2>1, SubmitMem DEF SafeRequests
<1>3. CASE FinishOp
  BY <1>3, QuietMem DEF FinishOp, history
<1>4. CASE StillBusy
  BY <1>4, QuietMem DEF StillBusy, object, history
<1>5. CASE ResolveFault
  BY <1>5, ResolveMem DEF ResolveFault
<1>6. CASE OtherError
  BY <1>6, QuietMem DEF OtherError, object, history
<1>7. ASSUME owned
      PROVE  Unfinished /\ comp.status = NONE /\ Fits(desc, req) /\ req # NoReq
  BY <1>7 DEF PollInv, FinishedMeansQuiet, Unfinished, MemInv, NONE, SUCCESS
<1>8. ASSUME UNCHANGED <<object, history>>
      PROVE  Promised' = Promised /\ desc' = desc /\ req' = req /\ before' = before
             /\ is_doing_flag' = is_doing_flag
  BY <1>8 DEF object, history, Promised
<1>9. CASE DeviceDone
  <2>1. /\ owned /\ InRange(desc) /\ mem' = Effect(desc, desc.size) /\ comp'.status = SUCCESS
        /\ UNCHANGED <<object, history>>
    BY <1>9 DEF DeviceDone, PollInv
  <2>2. desc.size \in 0 .. desc.size /\ ~Unfinished' /\ Left' = {}
    BY <1>7, <2>1 DEF Fits, Unfinished, Left
  <2>3. Bytes(desc.dst + desc.size, desc.size - desc.size) = {} \/ ~Writes(desc.opcode)
    BY <1>7, <2>1 DEF Fits, Bytes
  <2>4. /\ DOMAIN mem' = Mem /\ mem' = [x \in Mem |-> mem'[x]]
        /\ \A x \in Mem : mem'[x] = Promised[x]
    BY <1>7, <2>1, <2>2, <2>3, EffectMem
  <2> QED
    BY <1>7, <1>8, <2>1, <2>2, <2>4 DEF MemInv
<1>10. CASE DeviceFault
  <2>1. PICK side \in {"src", "dst"}, k \in 0 .. desc.size - 1 :
          /\ IF side = "src" THEN UsesSrc(desc.opcode) ELSE UsesDst(desc.opcode)
          /\ k = 0 \/ (desc[side] + k) % PAGE = 0
          /\ mem' = Effect(desc, k)
          /\ comp' = [comp EXCEPT !.status = PAGE_FAULT, !.bytes_completed = k,
                                  !.fault_addr = desc[side] + k,
                                  !.wr = (side = "dst" /\ Writes(desc.opcode))]
    BY <1>10 DEF DeviceFault
  <2>2. owned /\ InRange(desc) /\ UNCHANGED <<object, history>>
    BY <1>10 DEF DeviceFault
  <2>3. /\ comp'.status = PAGE_FAULT /\ comp'.bytes_completed = k
        /\ comp'.wr = (side = "dst" /\ Writes(desc.opcode))
        /\ comp'.fault_addr = desc[side] + k
    BY <2>1 DEF PollInv
  <2>4. RecordFits' /\ Fits(desc, req)' /\ Unfinished'
    <3>1. Fits(desc, req)' /\ Unfinished'
      BY <1>7, <1>8, <2>2, <2>3 DEF Fits, Unfinished, PAGE_FAULT, SUCCESS
    <3>2. comp'.wr \in BOOLEAN
      BY <2>3 DEF Writes
    <3>3. comp'.wr => Writes(desc.opcode) /\ comp'.fault_addr = desc.dst + k
      BY <2>3
    <3>4. desc.opcode = "MEMFILL" => k = 0 \/ (desc.dst + k) % PAGE = 0
      BY <2>1 DEF UsesSrc
    <3> QED
      BY <1>8, <2>2, <2>3, <3>1, <3>2, <3>3, <3>4 DEF RecordFits
  <2>5. Left' = IF Writes(desc.opcode) THEN Bytes(desc.dst + k, desc.size - k) ELSE {}
    BY <1>8, <2>2, <2>3, <2>4 DEF Left, Part
  <2>6. k \in 0 .. desc.size
    BY <1>7, <2>2 DEF Fits
  <2>7. /\ DOMAIN mem' = Mem /\ mem' = [x \in Mem |-> mem'[x]]
        /\ \A x \in Mem \ Left' : mem'[x] = Promised[x]
    BY <1>7, <2>1, <2>2, <2>5, <2>6, EffectMem
  <2> QED
    BY <1>7, <1>8, <2>2, <2>4, <2>7 DEF MemInv
<1>11. CASE DeviceRejects
  <2>1. owned /\ mem' = mem /\ comp'.status = BAD /\ UNCHANGED <<object, history>>
    BY <1>11 DEF DeviceRejects, PollInv
  <2>2. Unfinished' /\ RecordFits' /\ Fits(desc, req)'
    BY <1>7, <1>8, <2>1 DEF Unfinished, RecordFits, Fits, BAD, SUCCESS, PAGE_FAULT
  <2>3. Left' = Left
    BY <1>7, <1>8, <2>1, <2>2 DEF Left, Part, BAD, NONE, PAGE_FAULT
  <2> QED
    BY <1>7, <1>8, <2>1, <2>2, <2>3 DEF MemInv
<1>12. CASE UNCHANGED vars
  BY <1>12, QuietMem DEF vars, object, history
<1> QED
  BY <1>1, <1>2, <1>3, <1>4, <1>5, <1>6, <1>9, <1>10, <1>11, <1>12
  DEF Next, ClientStep, DeviceStep

\* MemInv says what is promised of finished operations and of bystanders.
LEMMA MemInvImplies ==
  ASSUME SafeRequests, MemInv, Requested
  PROVE  ResultAsPromised /\ OnlyDestChanges
<1>1. ResultAsPromised
  <2> SUFFICES ASSUME Over PROVE mem = Promised
    BY DEF ResultAsPromised
  <2>1. Left = {} /\ req # NoReq
    BY DEF Over, Left, Unfinished
  <2>2. \A x \in Mem : mem[x] = Promised[x]
    BY <2>1 DEF MemInv
  <2>3. Promised = [x \in Mem |-> Promised[x]]
    BY DEF Promised, Copy, Fill, MemInv
  <2> QED
    BY <2>2, <2>3 DEF MemInv
<1>2. OnlyDestChanges
  <2> SUFFICES ASSUME req # NoReq, NEW x \in Mem,
                      Writes(req.opcode) => x \notin Bytes(req.dest, req.len)
               PROVE  mem[x] = before[x]
    BY DEF OnlyDestChanges
  <2>1. Promised[x] = before[x]
    BY DEF Promised, Copy, Fill, Writes, MemInv
  <2>2. x \notin Left
    <3>1. CASE Unfinished /\ Writes(desc.opcode)
      <4>1. /\ desc.opcode = req.opcode /\ desc.size \in Nat /\ desc.dst \in Int
            /\ desc.dst + desc.size = req.dest + req.len /\ desc.dst >= req.dest
            /\ RecordFits
        BY <3>1 DEF MemInv, Fits
      <4>2. Part \in Nat
        BY <4>1 DEF Part, RecordFits
      <4>3. req.dest \in Int /\ req.len \in Nat
        BY RequestType DEF Requested
      <4>4. Bytes(desc.dst + Part, desc.size - Part) \subseteq Bytes(req.dest, req.len)
        BY <4>1, <4>2, <4>3 DEF Bytes
      <4> QED
        BY <3>1, <4>1, <4>4 DEF Left
    <3>2. CASE ~(Unfinished /\ Writes(desc.opcode))
      BY <3>2 DEF Left
    <3> QED
      BY <3>1, <3>2
  <2> QED
    BY <2>1, <2>2 DEF MemInv
<1> QED
  BY <1>1, <1>2

\* For requests that do not meet one of the known limits (SafeRequest) an
\* operation has the result of an uninterrupted one, whatever the sizes, the
\* number of faults and the build: prefix, resumptions and touched pages leave
\* no trace (async_*, check and PF_adjust_desc).
THEOREM MemoryRight ==
  ASSUME SafeRequests
  PROVE  Spec => [](ResultAsPromised /\ OnlyDestChanges)
<1>1. Init => MemInv
  BY MemInit
<1>2. PollInv /\ Requested /\ MemInv /\ [Next]_vars => MemInv'
  BY MemStep
<1>3. Requested /\ MemInv => ResultAsPromised /\ OnlyDestChanges
  BY MemInvImplies
<1> QED
  BY <1>1, <1>2, <1>3, Polling, PTL DEF Spec

\* At no moment, between faults and resumptions either, has a byte outside the
\* destination of the last request changed (touching a page included).
THEOREM NothingElseWritten == ASSUME SafeRequests PROVE Spec => []OnlyDestChanges
  BY MemoryRight, PTL

-----------------------------------------------------------------------------
(* Comparing. *)

\* do_op changes no memory for a comparison.
LEMMA CompareDoOp ==
  ASSUME NEW m, NEW d, IsCompare(d), DOMAIN m = Mem, m = [x \in Mem |-> m[x]]
  PROVE  Leading(m, d) = m
<1>1. ~Writes(d.opcode)
  BY DEF IsCompare, Writes
<1>2. touch_trigger_pf(m, d.dst, TOUCH_LEN, Writes(d.opcode)) = m
  BY <1>1 DEF touch_trigger_pf
<1> QED
  BY <1>2 DEF Leading

\* A comparison starts with everything to do, and everything else is none of
\* the invariant's business.
LEMMA CompareSubmit ==
  ASSUME PollInv, CheckTrue, NEW r \in Requests, Submit(r), MemoryShape,
         IsCompare(r) => r.len < LEN_MOD
  PROVE  Comparison'
<1>1. req' = r /\ before' = mem /\ r.len \in Nat
  BY RequestType DEF Submit
<1>2. SUFFICES ASSUME IsCompare(r) PROVE Comparison'
  BY <1>1 DEF Comparison, IsCompare
<1>3. ~ShortToCpu(r) /\ r.len % LEN_MOD = r.len
  BY <1>1, <1>2, SmallMod, SingleOpAssumption DEF ShortToCpu, Writes, IsCompare
<1>4. async_compare(r) \/ async_comp_pattern(r)
  BY <1>2, <1>3 DEF Submit, IsCompare
<1> DEFINE d == Descriptor(r.opcode, r.src, IF r.opcode = "COMPARE" THEN r.dest ELSE 0,
                           r.pat, r.len)
<1>9. do_op(mem, d)
  BY <1>2, <1>3, <1>4 DEF Submit, IsCompare, async_compare, async_comp_pattern
<1>10. /\ d.opcode = r.opcode /\ d.size = r.len /\ d.src = r.src /\ d.pat = r.pat
       /\ r.opcode = "COMPARE" => d.dst = r.dest
  BY <1>3 DEF Descriptor
<1> HIDE DEF d
<1>5. /\ desc'.opcode = r.opcode /\ desc'.size = r.len /\ desc'.src = r.src
      /\ r.opcode = "COMPARE" => desc'.dst = r.dest
      /\ desc'.pat = r.pat
      /\ mem' = Leading(mem, desc') /\ comp'.status = NONE /\ is_doing_flag'
  BY <1>9, <1>10 DEF do_op, PollInv
<1>6. mem' = mem
  BY <1>2, <1>5, CompareDoOp DEF IsCompare, MemoryShape
<1>7. Compared' = 0
  BY <1>1, <1>5 DEF Compared
<1>8. r.src \in Int /\ r.dest \in Int /\ r.opcode \in {"COMPARE", "COMPVAL"}
  BY <1>2, RequestType DEF IsCompare
<1> QED
  BY <1>1, <1>5, <1>6, <1>7, <1>8
  DEF Comparison, AtPage, NONE, SUCCESS, PAGE_FAULT

\* Memory stays a function on its addresses, whatever is submitted.
LEMMA ShapeStep ==
  ASSUME MemoryShape, Requested, [Next]_vars
  PROVE  MemoryShape'
<1>1. ASSUME NEW m, NEW d, DOMAIN m = Mem, m = [x \in Mem |-> m[x]], do_op(m, d)
      PROVE  MemoryShape'
  BY <1>1 DEF do_op, Leading, touch_trigger_pf, MemoryShape
<1>2. CASE AcceptOp
  <2>1. Submit(call.req)
    BY <1>2 DEF AcceptOp
  <2>2. CASE OnCpu(call.req)
    BY <2>2 DEF OnCpu, Copy, Fill, MemoryShape
  <2>3. CASE async_memmove(call.req)
    BY <2>3, <1>1 DEF async_memmove, Copy, MemoryShape
  <2>4. CASE async_memfill(call.req)
    <3> DEFINE r == call.req
               d == IF DESCS_ADDRESS_ALIGNMENT THEN fill_diff(r.dest, r.len) ELSE 0
               m == fill_prefix(mem, r.dest, r.pat, d)
    <3>1. DOMAIN m = Mem /\ m = [x \in Mem |-> m[x]]
      BY DEF fill_prefix, Store, Fill, MemoryShape
    <3>2. do_op(m, Descriptor("MEMFILL", 0, r.dest + d, rest_pattern(r.pat, d), r.len - d))
      BY <2>4 DEF async_memfill
    <3> QED
      BY <3>1, <3>2, <1>1
  <2>5. CASE async_compare(call.req) \/ async_comp_pattern(call.req) \/ async_flush(call.req)
    BY <2>5, <1>1 DEF async_compare, async_comp_pattern, async_flush, MemoryShape
  <2>7. call.req.opcode \in Opcodes
    BY <1>2, RequestType DEF AcceptOp, Requested
  <2>8. \/ OnCpu(call.req) \/ async_memmove(call.req) \/ async_memfill(call.req)
        \/ async_compare(call.req) \/ async_comp_pattern(call.req) \/ async_flush(call.req)
    BY <2>1, <2>7 DEF Submit, Opcodes, ShortToCpu, Writes
  <2> QED
    BY <2>2, <2>3, <2>4, <2>5, <2>8
<1>3. CASE ResolveFault
  <2>1. \E m, d : DOMAIN m = Mem /\ m = [x \in Mem |-> m[x]] /\ do_op(m, d)
    BY <1>3 DEF ResolveFault, solve_pf, touch_trigger_pf, MemoryShape
  <2> QED
    BY <2>1, <1>1
<1>4. CASE DeviceDone \/ DeviceFault
  BY <1>4 DEF DeviceDone, DeviceFault, Effect, Copy, Fill, MemoryShape
<1>5. CASE UNCHANGED mem
  BY <1>5 DEF MemoryShape
<1>6. Calls \/ FinishOp \/ StillBusy \/ OtherError \/ DeviceRejects \/ UNCHANGED vars
        => UNCHANGED mem
  BY DEF Calls, Invoke, FinishOp, StillBusy, OtherError, DeviceRejects, vars
<1> QED
  BY <1>2, <1>3, <1>4, <1>5, <1>6 DEF Next, ClientStep, DeviceStep

\* A piece that ends in step began in step, because both places are page
\* boundaries of the region or its start.
LEMMA StepBack ==
  ASSUME Requested, IsCompare(req), NEW c \in Nat, NEW n \in Nat, c <= n,
         AtPage(c), AtPage(n), InStep(n)
  PROVE  InStep(c)
<1>1. SUFFICES ASSUME req.opcode = "COMPVAL", ~OneByte(req.pat) PROVE c % WORD = 0
  BY DEF InStep
<1>2. req.src \in Int /\ WORD \in Nat \ {0} /\ 0 % WORD = 0
  BY RequestType, DataPathAssumption DEF Requested, IsCompare, NoReq
<1>3. n % WORD = 0
  BY <1>1 DEF InStep
<1>4. CASE c = 0
  BY <1>2, <1>4
<1>5. CASE c # 0
  <2>1. (req.src + c) % WORD = 0 /\ (req.src + n) % WORD = 0
    BY <1>1, <1>5 DEF AtPage
  <2>2. req.src + n = n + req.src /\ (n + req.src) % WORD = req.src % WORD
    BY <1>2, <1>3, ShiftMod
  <2>3. req.src % WORD = 0
    BY <2>1, <2>2
  <2>4. c \in Int
    OBVIOUS
  <2>5. (req.src + c) % WORD = c % WORD
    BY <1>2, <2>3, <2>4, ShiftMod
  <2> QED
    BY <2>1, <2>5
<1> QED
  BY <1>4, <1>5

\* The requests that are always in step.
LEMMA AlwaysInStep ==
  ASSUME Requested, IsCompare(req), NEW c \in Nat, AtPage(c), StaysInStep(req)
  PROVE  InStep(c)
<1>1. SUFFICES ASSUME req.opcode = "COMPVAL", ~OneByte(req.pat) PROVE c % WORD = 0
  BY DEF InStep
<1>2. req.src \in Int /\ WORD \in Nat \ {0} /\ 0 % WORD = 0
  BY RequestType, DataPathAssumption DEF Requested, IsCompare, NoReq
<1>3. req.src % WORD = 0
  BY <1>1 DEF StaysInStep
<1>4. (req.src + c) % WORD = c % WORD
  <2>1. c \in Int
    OBVIOUS
  <2> QED
    BY <1>2, <1>3, <2>1, ShiftMod
<1> QED
  BY <1>1, <1>2, <1>4 DEF AtPage

\* A piece of a comparison compares what the request compares, further on.
LEMMA PieceSame ==
  ASSUME CompareInv, IsCompare(req), Requested, InStep(Compared),
         NEW j \in 0 .. desc.size - 1
  PROVE  SameAt(Compared + j) <=>
           mem[desc.src + j] = IF desc.opcode = "COMPARE" THEN mem[desc.dst + j]
                                                          ELSE desc.pat[j % WORD]
<1>1. /\ mem = before /\ desc.opcode = req.opcode /\ desc.size \in 0 .. req.len
      /\ desc.src = req.src + Compared
      /\ req.opcode = "COMPARE" => desc.dst = req.dest + Compared
      /\ req.opcode = "COMPVAL" => desc.pat = req.pat
      /\ InStep(Compared)
  BY DEF CompareInv, Comparison
<1>2. req \in Requests
  BY DEF Requested, IsCompare, NoReq
<1>3. req.src \in Int /\ req.dest \in Int /\ req.len \in Nat /\ Compared \in Nat /\ j \in Nat
  BY <1>1, <1>2, RequestType DEF Compared
<1>4. desc.src + j = req.src + (Compared + j)
  BY <1>1, <1>3
<1>5. CASE req.opcode = "COMPARE"
  <2>1. desc.dst + j = req.dest + (Compared + j)
    BY <1>1, <1>3, <1>5
  <2> QED
    BY <1>1, <1>4, <1>5, <2>1 DEF SameAt
<1>6. CASE req.opcode = "COMPVAL"
  <2>1. req.pat[(Compared + j) % WORD] = req.pat[j % WORD]
    <3>1. WORD \in Nat \ {0} /\ Compared + j \in Int /\ Compared \in Int /\ j \in Int
      BY <1>3, DataPathAssumption
    <3>2. CASE Compared % WORD = 0
      <4>1. (Compared + j) % WORD = j % WORD
        BY <3>1, <3>2, ShiftMod
      <4> QED
        BY <4>1
    <3>3. CASE OneByte(req.pat)
      <4>1. (Compared + j) % WORD \in 0 .. WORD - 1 /\ j % WORD \in 0 .. WORD - 1
        BY <1>3, <3>1, DivMod
      <4> QED
        BY <3>3, <4>1 DEF OneByte
    <3> QED
      BY <1>1, <1>6, <3>2, <3>3 DEF InStep
  <2> QED
    BY <1>1, <1>4, <1>6, <2>1 DEF SameAt
<1> QED
  BY <1>5, <1>6 DEF IsCompare

\* What the device finds out about the piece it was given.
LEMMA MatchSame ==
  ASSUME CompareInv, IsCompare(req), Requested, InStep(Compared)
  PROVE  /\ MatchLen(desc) \in 0 .. desc.size
         /\ \A i \in 0 .. Compared + MatchLen(desc) - 1 : SameAt(i)
         /\ MatchLen(desc) = desc.size <=> \A i \in 0 .. req.len - 1 : SameAt(i)
         /\ FirstDifference = Compared + MatchLen(desc)
<1> DEFINE n == desc.size
           S == {j \in 0 .. n - 1 : ~SameAt(Compared + j)}
           k == FirstOf(S, n)
<1>1. /\ desc.opcode = req.opcode /\ n \in 0 .. req.len
      /\ \A i \in 0 .. Compared - 1 : SameAt(i)
  BY DEF CompareInv, Comparison
<1>2. req \in Requests
  BY DEF Requested, IsCompare, NoReq
<1>3. req.len \in Nat /\ n \in Nat /\ Compared \in Nat /\ Compared + n = req.len
  BY <1>1, <1>2, RequestType DEF Compared
<1>4. MatchLen(desc) = k
  <2>1. CASE req.opcode = "COMPARE"
    <3>1. S = {i \in 0 .. n - 1 : mem[desc.src + i] # mem[desc.dst + i]}
      BY <1>1, <2>1, PieceSame
    <3> QED
      BY <1>1, <2>1, <3>1 DEF MatchLen, Match
  <2>2. CASE req.opcode = "COMPVAL"
    <3>1. S = {i \in 0 .. n - 1 : mem[desc.src + i] # desc.pat[i % WORD]}
      BY <1>1, <2>2, PieceSame
    <3> QED
      BY <1>1, <2>2, <3>1 DEF MatchLen, MatchPattern
  <2> QED
    BY <2>1, <2>2 DEF IsCompare
<1>5. /\ k \in 0 .. n /\ (k = n <=> S = {})
      /\ \A i \in 0 .. k - 1 : i \notin S
      /\ k # n => k \in S
  <2>1. S \in SUBSET (0 .. n - 1)
    OBVIOUS
  <2> HIDE DEF S, n
  <2> QED
    BY <1>3, <2>1, FirstOfSpec
<1>6. \A i \in 0 .. Compared + k - 1 : SameAt(i)
  <2> SUFFICES ASSUME NEW i \in 0 .. Compared + k - 1 PROVE SameAt(i)
    OBVIOUS
  <2>1. CASE i < Compared
    BY <1>1, <1>3, <2>1
  <2>2. CASE i >= Compared
    <3>1. i - Compared \in 0 .. k - 1 /\ i - Compared \in 0 .. n - 1
          /\ Compared + (i - Compared) = i
      BY <1>3, <1>5, <2>2
    <3>2. i - Compared \notin S
      BY <3>1, <1>5
    <3> QED
      BY <3>1, <3>2
  <2> QED
    BY <1>3, <2>1, <2>2
<1>7. k = n <=> \A i \in 0 .. req.len - 1 : SameAt(i)
  <2>1. ASSUME \A i \in 0 .. req.len - 1 : SameAt(i) PROVE S = {}
    BY <1>3, <2>1
  <2> QED
    BY <1>3, <1>5, <1>6, <2>1
<1>8. FirstDifference = Compared + k
  <2> DEFINE T == {i \in 0 .. req.len - 1 : ~SameAt(i)}
  <2>1. FirstDifference = FirstOf(T, req.len)
    BY DEF FirstDifference, Match, MatchPattern, SameAt, IsCompare
  <2>2. T \in SUBSET (0 .. req.len - 1) /\ Compared + k \in 0 .. req.len
    BY <1>3, <1>5
  <2>3. \A i \in 0 .. Compared + k - 1 : i \notin T
    BY <1>6
  <2>4. Compared + k # req.len => Compared + k \in T
    BY <1>3, <1>5, <2>2
  <2> HIDE DEF T, k
  <2>5. ASSUME NEW f, f = Compared + k PROVE FirstOf(T, req.len) = f
    <3>1. req.len \in Nat /\ f \in 0 .. req.len
      BY <1>3, <2>2, <2>5
    <3>2. \A i \in 0 .. f - 1 : i \notin T
      BY <1>3, <1>5, <2>3, <2>5, <3>1
    <3>3. f # req.len => f \in T
      BY <2>4, <2>5
    <3> QED
      BY <2>2, <3>1, <3>2, <3>3, FirstOfIs
  <2> QED
    BY <2>1, <2>5
<1> QED
  BY <1>4, <1>5, <1>6, <1>7, <1>8

\* Resolving a fault goes on where the device stopped.
LEMMA CompareResolve ==
  ASSUME PollInv, CompareInv, Requested, CheckFault, solve_pf, UNCHANGED <<req, before>>
  PROVE  Comparison'
<1> DEFINE k == comp.bytes_completed
           d == PF_adjust_desc(desc, k)
<1>1. SUFFICES ASSUME IsCompare(req) PROVE Comparison'
  BY DEF Comparison, IsCompare
<1>2. comp.status = PAGE_FAULT /\ Comparison /\ is_doing_flag
  BY DEF CheckFault, CompareInv
<1>3. /\ mem = before /\ desc.opcode = req.opcode /\ desc.size \in 0 .. req.len
      /\ desc.src = req.src + Compared
      /\ req.opcode = "COMPARE" => desc.dst = req.dest + Compared
      /\ req.opcode = "COMPVAL" => desc.pat = req.pat
      /\ k \in 0 .. desc.size /\ AtPage(Compared + k)
      /\ InStep(Compared + k) => \A i \in 0 .. Compared + k - 1 : SameAt(i)
  BY <1>1, <1>2 DEF Comparison
<1>4. req \in Requests
  BY <1>1 DEF Requested, IsCompare, NoReq
<1>5. req.src \in Int /\ req.dest \in Int /\ req.len \in Nat
  BY <1>4, RequestType
<1>6. /\ d.opcode = req.opcode /\ d.size = desc.size - k /\ d.src = desc.src + k
      /\ req.opcode = "COMPARE" => d.dst = desc.dst + k
      /\ req.opcode = "COMPVAL" => d.pat = desc.pat
  BY <1>1, <1>3 DEF PF_adjust_desc, IsCompare, UsesSrc, UsesDst
<1> HIDE DEF d
<1>7. desc' = d /\ comp'.status = NONE /\ is_doing_flag' /\ mem' = mem
  <2>1. PICK m : do_op(m, d) /\ (m = mem \/ \E a, n : m = touch_trigger_pf(mem, a, n, comp.wr))
    BY DEF solve_pf, d
  <2>2. m = mem
    BY <1>1, <1>2, <2>1 DEF Comparison, CompareInv, MemoryShape, touch_trigger_pf
  <2>3. Leading(m, d) = m
    BY <1>1, <1>6, <2>2, CompareDoOp DEF CompareInv, MemoryShape, IsCompare
  <2> QED
    BY <2>1, <2>2, <2>3 DEF do_op, PollInv
<1>8. Compared' = Compared + k /\ Compared \in Nat
  BY <1>3, <1>5, <1>6, <1>7 DEF Compared
<1>9. desc'.size \in 0 .. req.len /\ desc'.src = req.src + Compared'
      /\ (req.opcode = "COMPARE" => desc'.dst = req.dest + Compared')
  BY <1>3, <1>5, <1>6, <1>7, <1>8
<1> QED
  BY <1>1, <1>3, <1>6, <1>7, <1>8, <1>9
  DEF Comparison, AtPage, InStep, SameAt, NONE, SUCCESS, PAGE_FAULT

\* The device finishes the piece it has.
LEMMA CompareDone ==
  ASSUME PollInv, CompareInv, Requested, DeviceDone
  PROVE  Comparison'
<1>1. SUFFICES ASSUME IsCompare(req) PROVE Comparison'
  BY DEF Comparison, IsCompare, DeviceDone, history
<1>2. desc.opcode = req.opcode /\ mem = before /\ desc.size \in 0 .. req.len
  BY <1>1 DEF CompareInv, Comparison
<1>3. /\ mem' = mem /\ comp'.status = SUCCESS /\ comp'.bytes_completed = MatchLen(desc)
      /\ comp'.result = IF MatchLen(desc) = desc.size THEN 0 ELSE 1
      /\ UNCHANGED <<desc, is_doing_flag, req, before>>
  BY <1>1, <1>2 DEF DeviceDone, Effect, IsCompare, PollInv, object, history
<1>4. ASSUME InStep(Compared)
      PROVE  /\ comp'.result = 0 <=> \A i \in 0 .. req.len - 1 : SameAt(i)
             /\ comp'.bytes_completed = FirstDifference - Compared
  <2>1. /\ MatchLen(desc) \in 0 .. desc.size
        /\ MatchLen(desc) = desc.size <=> \A i \in 0 .. req.len - 1 : SameAt(i)
        /\ FirstDifference = Compared + MatchLen(desc)
    BY <1>1, <1>4, MatchSame
  <2>2. req.len \in Nat
    BY <1>1, RequestType DEF Requested, IsCompare, NoReq
  <2>3. Compared \in Int /\ MatchLen(desc) \in Int
    BY <1>2, <2>1, <2>2 DEF Compared
  <2> QED
    BY <1>3, <2>1, <2>3
<1>5. UNCHANGED <<Compared, FirstDifference>>
  BY <1>3 DEF Compared, FirstDifference
<1> QED
  BY <1>1, <1>3, <1>4, <1>5
  DEF CompareInv, Comparison, AtPage, InStep, SameAt, Compared, SUCCESS, PAGE_FAULT

\* The device stops at a page fault: what it did found no difference, if it is in
\* step there, and the place is a word boundary.
LEMMA CompareFault ==
  ASSUME PollInv, CompareInv, Requested, DeviceFault
  PROVE  Comparison'
<1>1. SUFFICES ASSUME IsCompare(req) PROVE Comparison'
  BY DEF Comparison, IsCompare, DeviceFault, history
<1>2. PICK side \in {"src", "dst"}, k \in 0 .. desc.size - 1 :
       /\ IF side = "src" THEN UsesSrc(desc.opcode) ELSE UsesDst(desc.opcode)
       /\ k = 0 \/ (desc[side] + k) % PAGE = 0
       /\ k <= MatchLen(desc)
       /\ mem' = Effect(desc, k)
       /\ comp' = [comp EXCEPT !.status = PAGE_FAULT, !.bytes_completed = k,
                               !.fault_addr = desc[side] + k,
                               !.wr = (side = "dst" /\ Writes(desc.opcode))]
  BY DEF DeviceFault
<1>3. /\ mem = before /\ desc.opcode = req.opcode /\ desc.size \in 0 .. req.len
      /\ desc.src = req.src + Compared /\ AtPage(Compared)
  BY <1>1 DEF CompareInv, Comparison
<1>4. /\ mem' = mem /\ comp'.status = PAGE_FAULT /\ comp'.bytes_completed = k
      /\ comp'.wr = FALSE
      /\ UNCHANGED <<desc, is_doing_flag, req, before>>
  <2>1. ~Writes(desc.opcode) /\ Effect(desc, k) = mem
    BY <1>1, <1>3 DEF Effect, IsCompare, Writes
  <2> QED
    BY <1>2, <2>1 DEF DeviceFault, PollInv, object, history
<1>5. req \in Requests
  BY <1>1 DEF Requested, IsCompare, NoReq
<1>6. req.src \in Int /\ req.len \in Nat /\ Compared \in Nat /\ k \in Nat
  BY <1>3, <1>5, RequestType DEF Compared
<1>7. AtPage(Compared + k)
  <2>1. SUFFICES ASSUME req.opcode = "COMPVAL", Compared + k # 0
                 PROVE  (req.src + (Compared + k)) % WORD = 0
    BY DEF AtPage
  <2>2. CASE k = 0
    BY <1>3, <1>6, <2>1, <2>2 DEF AtPage
  <2>3. CASE k # 0
    <3>1. side = "src"
      BY <1>2, <1>3, <2>1 DEF UsesDst
    <3>2. (req.src + (Compared + k)) % PAGE = 0 /\ req.src + (Compared + k) \in Int
      <4>1. desc.src + k = req.src + (Compared + k)
        BY <1>3, <1>6
      <4> QED
        BY <1>2, <1>6, <2>3, <3>1, <4>1
    <3> QED
      BY <3>2, PageWord
  <2> QED
    BY <2>2, <2>3
<1>8. ASSUME InStep(Compared + k)
      PROVE  \A i \in 0 .. Compared + k - 1 : SameAt(i)
  <2>1. InStep(Compared)
    <3>1. Compared + k \in Nat /\ Compared <= Compared + k
      BY <1>6
    <3> QED
      BY <1>1, <1>3, <1>6, <1>7, <1>8, <3>1, StepBack
  <2>2. /\ \A i \in 0 .. Compared + MatchLen(desc) - 1 : SameAt(i)
        /\ MatchLen(desc) \in Int
    BY <1>1, <1>3, <2>1, MatchSame
  <2> QED
    BY <1>2, <1>6, <2>2
<1>9. Comparison /\ k \in 0 .. desc.size
  BY <1>3, <1>6 DEF CompareInv
<1>10. is_doing_flag
  BY DEF DeviceFault, PollInv, FinishedMeansQuiet
<1> QED
  BY <1>1, <1>4, <1>7, <1>8, <1>9, <1>10
  DEF Comparison, AtPage, InStep, SameAt, Compared, SUCCESS, PAGE_FAULT

\* Steps that change nothing a comparison is about.
LEMMA CompareQuiet ==
  ASSUME Comparison, UNCHANGED <<mem, before, req, desc, comp>>,
         ~is_doing_flag' => ~is_doing_flag \/ comp.status = SUCCESS
  PROVE  Comparison'
  BY DEF Comparison, AtPage, InStep, SameAt, Compared, FirstDifference

\* Every step of the specification keeps the invariant.
LEMMA CompareStep ==
  ASSUME ShortCompares, PollInv, Requested, CompareInv, [Next]_vars
  PROVE  CompareInv'
<1>1. MemoryShape'
  BY ShapeStep DEF CompareInv
<1> SUFFICES Comparison'
  BY <1>1 DEF CompareInv
<1>2. CASE Calls \/ StillBusy \/ OtherError \/ UNCHANGED vars
  BY <1>2, CompareQuiet
  DEF CompareInv, Calls, Invoke, StillBusy, OtherError, vars, object, history
<1>3. CASE AcceptOp
  BY <1>3, CompareSubmit DEF AcceptOp, CompareInv, Requested, ShortCompares
<1>4. CASE FinishOp
  BY <1>4, CompareQuiet DEF FinishOp, CompareInv, CheckTrue, history
<1>5. CASE ResolveFault
  BY <1>5, CompareResolve DEF ResolveFault, history
<1>6. CASE DeviceDone
  BY <1>6, CompareDone
<1>7. CASE DeviceFault
  BY <1>7, CompareFault
<1>8. CASE DeviceRejects
  BY <1>8 DEF DeviceRejects, CompareInv, Comparison, AtPage, InStep, SameAt, Compared, PollInv,
              FinishedMeansQuiet, object, history, BAD, SUCCESS, PAGE_FAULT
<1> QED
  BY <1>2, <1>3, <1>4, <1>5, <1>6, <1>7, <1>8 DEF Next, ClientStep, DeviceStep

\* Whatever the regions, the pattern, the number of faults and the build: a
\* comparison whose last piece began in step - so any comparison of two regions,
\* any with a pattern from a word boundary on or of equal bytes, and any that was
\* not resumed - reports a difference exactly when there is one, and where it is
\* within that piece (compare_res, compare_differ_offset, PF_adjust_desc).
THEOREM ComparesRight ==
  ASSUME ShortCompares
  PROVE  Spec => []CompareInStep
<1>1. Init => CompareInv
  BY SingleOpAssumption DEF Init, CompareInv, MemoryShape, Comparison, IsCompare, NoReq
<1>2. PollInv /\ Requested /\ CompareInv /\ [Next]_vars => CompareInv'
  BY CompareStep
<1>3. Requested /\ CompareInv => CompareInStep
  <2> SUFFICES ASSUME Requested, Comparison, Over, IsCompare(req),
                      StaysInStep(req) \/ InStep(Compared)
               PROVE  /\ comp.result = 0 <=> FirstDifference = req.len
                      /\ comp.bytes_completed = FirstDifference - Compared
    BY DEF CompareInStep, CompareInv, IsCompare
  <2> DEFINE S == {i \in 0 .. req.len - 1 : ~SameAt(i)}
  <2>1. req.len \in Nat
    BY RequestType DEF Requested, IsCompare, NoReq
  <2>2. InStep(Compared)
    <3>1. AtPage(Compared) /\ Compared \in Nat
      BY <2>1 DEF Comparison, Compared
    <3> QED
      BY <3>1, AlwaysInStep
  <2>3. (comp.result = 0 <=> S = {}) /\ comp.bytes_completed = FirstDifference - Compared
    BY <2>2 DEF Over, Comparison
  <2>4. FirstDifference = FirstOf(S, req.len)
    BY DEF FirstDifference, Match, MatchPattern, SameAt, IsCompare
  <2>5. S \in SUBSET (0 .. req.len - 1)
    OBVIOUS
  <2> HIDE DEF S
  <2>6. FirstOf(S, req.len) = req.len <=> S = {}
    BY <2>1, <2>5, FirstOfSpec
  <2> QED
    BY <2>3, <2>4, <2>6
<1> QED
  BY <1>1, <1>2, <1>3, Polling, PTL DEF Spec

\* The memory invariant itself: at every moment, a byte the operation does not
\* still have to write has the value it will have in the end.
THEOREM MemoryInvariant == ASSUME SafeRequests PROVE Spec => []MemInv
<1>1. Init => MemInv
  BY MemInit
<1>2. PollInv /\ Requested /\ MemInv /\ [Next]_vars => MemInv'
  BY MemStep
<1> QED
  BY <1>1, <1>2, Polling, PTL DEF Spec
=============================================================================

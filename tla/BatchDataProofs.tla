--------------------------- MODULE BatchDataProofs ---------------------------
(***************************************************************************)
(* Batches of any size, operations on any memory, any number of page       *)
(* faults: after wait() memory is what the operations were to make of it,  *)
(* and pages are touched only where the operation may.                     *)
(***************************************************************************)
EXTENDS BatchDataInv, CpuPath, SequenceTheorems, Recursion

-----------------------------------------------------------------------------
(* Numbers. *)

LEMMA Sizes ==
  /\ WORD \in Nat \ {0} /\ LINE \in Nat \ {0} /\ PAGE \in Nat \ {0}
  /\ LINE % WORD = 0 /\ PAGE % LINE = 0
  BY DataPathAssumption

LEMMA DivMod ==
  ASSUME NEW a \in Int, NEW w \in Nat \ {0}
  PROVE  a = w * (a \div w) + (a % w) /\ a \div w \in Int /\ a % w \in 0 .. w - 1
  OBVIOUS

LEMMA Remainder ==
  ASSUME NEW w \in Nat \ {0}, NEW q \in Int, NEW r \in 0 .. w - 1
  PROVE  (w * q + r) % w = r
  OBVIOUS

\* A multiple of w does not change remainders.
LEMMA ShiftMod ==
  ASSUME NEW w \in Nat \ {0}, NEW a \in Int, NEW b \in Int, a % w = 0
  PROVE  (a + b) % w = b % w
<1> DEFINE p == a \div w
           q == b \div w
           r == b % w
<1>1. a = w * p /\ p \in Int
  BY DivMod
<1>2. b = w * q + r /\ q \in Int /\ r \in 0 .. w - 1
  BY DivMod
<1> HIDE DEF p, q, r
<1>3. a + b = w * (p + q) + r /\ p + q \in Int
  BY <1>1, <1>2
<1>4. (w * (p + q) + r) % w = r
  BY <1>2, <1>3, Remainder
<1> QED
  BY <1>3, <1>4 DEF r

LEMMA MultipleMod ==
  ASSUME NEW w \in Nat \ {0}, NEW v \in Nat \ {0}, NEW a \in Int, v % w = 0, a % v = 0
  PROVE  a % w = 0
<1> DEFINE p == v \div w
           q == a \div v
<1>1. v = w * p /\ p \in Int
  BY DivMod
<1>2. a = v * q /\ q \in Int
  BY DivMod
<1> HIDE DEF p, q
<1>3. a = w * (p * q) + 0 /\ p * q \in Int
  BY <1>1, <1>2
<1>4. 0 \in 0 .. w - 1
  OBVIOUS
<1>5. (w * (p * q) + 0) % w = 0
  BY <1>3, <1>4, Remainder
<1> QED
  BY <1>3, <1>5

\* A page boundary is a word boundary.
LEMMA PageWord ==
  ASSUME NEW a \in Int, a % PAGE = 0
  PROVE  a % WORD = 0
<1>1. a % LINE = 0
  BY Sizes, MultipleMod
<1> QED
  BY <1>1, Sizes, MultipleMod

-----------------------------------------------------------------------------
(* What operations do, byte by byte. *)

\* The first k bytes of an operation, byte by byte.
LEMMA EffectByte ==
  ASSUME NEW m \in [Mem -> Int], NEW d \in Operations, NEW k \in Int,
         d.opcode = "MEMMOVE" => Bytes(d.src, k) \subseteq Mem
  PROVE  /\ Effect(m, d, k) \in [Mem -> Int]
         /\ \A x \in Mem : Effect(m, d, k)[x] =
              IF Writes(d.opcode) /\ x \in Bytes(d.dst, k) THEN Byte(m, d, x) ELSE m[x]
<1>0. /\ d.opcode \in Opcodes /\ d.src \in Int /\ d.dst \in Int /\ d.size \in Nat
      /\ d.pat \in [0 .. WORD - 1 -> Int] /\ DOMAIN m = Mem /\ Mem \subseteq Int
  BY BatchDataAssumption DEF Operations
<1>1. CASE d.opcode = "MEMMOVE"
  <2>1. ASSUME NEW x \in Mem, x \in Bytes(d.dst, k) PROVE m[d.src + (x - d.dst)] \in Int
    <3>1. d.src + (x - d.dst) \in Bytes(d.src, k)
      BY <1>0, <2>1 DEF Bytes
    <3> QED
      BY <1>1, <3>1
  <2>2. Effect(m, d, k) = [x \in Mem |-> IF x \in Bytes(d.dst, k) THEN m[d.src + (x - d.dst)] ELSE m[x]]
    BY <1>0, <1>1 DEF Effect, Copy
  <2> QED
    BY <1>1, <2>1, <2>2 DEF Byte, Writes
<1>2. CASE d.opcode = "MEMFILL"
  <2>1. ASSUME NEW x \in Mem PROVE d.pat[(x - d.dst) % WORD] \in Int
    <3>1. x - d.dst \in Int
      BY <1>0
    <3>2. (x - d.dst) % WORD \in 0 .. WORD - 1
      BY <3>1, Sizes
    <3> QED
      BY <1>0, <3>2
  <2>2. Effect(m, d, k) = [x \in Mem |-> IF x \in Bytes(d.dst, k) THEN d.pat[(x - d.dst) % WORD] ELSE m[x]]
    BY <1>0, <1>2 DEF Effect, Fill
  <2> QED
    BY <1>2, <2>1, <2>2 DEF Byte, Writes
<1>3. CASE d.opcode \notin {"MEMMOVE", "MEMFILL"}
  BY <1>0, <1>3 DEF Effect, Writes
<1> QED
  BY <1>1, <1>2, <1>3

LEMMA AlignRange ==
  ASSUME NEW a \in Int
  PROVE  a % LINE \in 0 .. LINE - 1 /\ align64_diff(a) \in 0 .. LINE - 1
<1>1. a % LINE \in 0 .. LINE - 1
  BY Sizes
<1> QED
  BY <1>1, Sizes DEF align64_diff

\* What the CPU does of a request.
LEMMA ByCpuRange ==
  ASSUME NEW r \in Requests, SafeRequest(r), Writes(r.opcode)
  PROVE  ByCpu(r) \in 0 .. r.size
<1>1. r.opcode \in {"MEMMOVE", "MEMFILL"} /\ r.dst \in Int /\ r.size \in Nat
  BY BatchDataAssumption DEF Operations, Writes
<1>2. align64_diff(r.dst) \in Nat
  BY <1>1, AlignRange, Sizes
<1>3. fill_diff(r.dst, r.size) \in Nat
  BY <1>1, <1>2 DEF fill_diff, Min2
<1>4. DESCS_ADDRESS_ALIGNMENT \in BOOLEAN
  BY BatchDataAssumption
<1>5. Prefix(r) \in Nat
  BY <1>1, <1>2, <1>3, <1>4 DEF Prefix
<1> QED
  BY <1>1, <1>5 DEF ByCpu, SafeRequest

\* A pattern of one byte looks the same from everywhere.
LEMMA SameEverywhere ==
  ASSUME NEW p \in [0 .. WORD - 1 -> Int], OneByte(p), NEW n \in Int
  PROVE  /\ new_pattern(p, n) = p
         /\ \A i, j \in Int : p[i % WORD] = p[j % WORD]
<1>1. \A i \in Int : i % WORD \in 0 .. WORD - 1
  BY Sizes
<1>2. \A i, j \in Int : p[i % WORD] = p[j % WORD]
  BY <1>1 DEF OneByte
<1>3. ASSUME NEW j \in 0 .. WORD - 1 PROVE p[(j - n) % WORD] = p[j]
  <2>1. j - n \in Int
    OBVIOUS
  <2>2. (j - n) % WORD \in 0 .. WORD - 1
    BY <1>1, <2>1
  <2> QED
    BY <2>2 DEF OneByte
<1>4. new_pattern(p, n) = [j \in 0 .. WORD - 1 |-> p[j]]
  BY <1>3 DEF new_pattern
<1> QED
  BY <1>2, <1>4

\* The prefix of a fill.
LEMMA PrefixFilled ==
  ASSUME NEW m \in [Mem -> Int], NEW a \in Int, NEW d \in Nat, NEW p \in [0 .. WORD - 1 -> Int],
         d % WORD = 0 \/ (OneByte(p) /\ d >= WORD)
  PROVE  fill_prefix(m, a, p, d) = Fill(m, a, p, d)
<1> DEFINE w == WORD * (d \div WORD)
           words == Fill(m, a, p, w)
<1>1. d = w + (d % WORD) /\ d % WORD \in 0 .. WORD - 1 /\ w \in Int /\ WORD \in Nat \ {0}
  BY Sizes, DivMod
<1> HIDE DEF w
<1>2. CASE d % WORD = 0
  <2>1. w = d
    BY <1>1, <1>2
  <2> QED
    BY <1>2, <2>1 DEF fill_prefix, w
<1>3. CASE d % WORD # 0
  <2>1. OneByte(p) /\ d >= WORD
    BY <1>3
  <2>2. fill_prefix(m, a, p, d) = Fill(words, a + d - WORD, p, WORD)
    BY <1>1, <1>3, <2>1, SameEverywhere DEF fill_prefix, Store, w
  <2>3. words = [x \in Mem |-> IF x \in Bytes(a, w) THEN p[(x - a) % WORD] ELSE m[x]]
    BY DEF Fill
  <2> HIDE DEF words
  <2>4. Fill(words, a + d - WORD, p, WORD)
          = [x \in Mem |-> IF x \in Bytes(a + d - WORD, WORD)
                             THEN p[(x - (a + d - WORD)) % WORD] ELSE words[x]]
    BY <2>3 DEF Fill
  <2>5. ASSUME NEW x \in Mem
        PROVE  (IF x \in Bytes(a + d - WORD, WORD) THEN p[(x - (a + d - WORD)) % WORD] ELSE words[x])
                 = (IF x \in Bytes(a, d) THEN p[(x - a) % WORD] ELSE m[x])
    <3>1. x \in Int
      BY BatchDataAssumption
    <3>2. x \in Bytes(a, d) <=> x \in Bytes(a + d - WORD, WORD) \/ x \in Bytes(a, w)
      BY <1>1, <2>1, <3>1 DEF Bytes
    <3>3. p[(x - (a + d - WORD)) % WORD] = p[(x - a) % WORD]
      <4>1. x - (a + d - WORD) \in Int /\ x - a \in Int
        BY <1>1, <3>1
      <4> QED
        BY <2>1, <4>1, SameEverywhere
    <3>4. words[x] = IF x \in Bytes(a, w) THEN p[(x - a) % WORD] ELSE m[x]
      BY <2>3
    <3> QED
      BY <3>2, <3>3, <3>4, Zenon
  <2> QED
    BY <2>2, <2>4, <2>5 DEF Fill
<1> QED
  BY <1>2, <1>3

LEMMA OnCpuEffect ==
  ASSUME NEW r \in Requests, SafeRequest(r), mem \in [Mem -> Int]
  PROVE  OnCpu(r) = Effect(mem, r, ByCpu(r))
<1>1. /\ r \in Operations /\ r.opcode \in {"MEMMOVE", "MEMFILL", "COMPARE", "CFLUSH"}
      /\ r.dst \in Int /\ r.pat \in [0 .. WORD - 1 -> Int]
  BY BatchDataAssumption DEF SafeRequest, Operations
<1>2. CASE ShortToCpu(r)
  BY <1>2 DEF OnCpu, ByCpu
<1>3. CASE ~ShortToCpu(r) /\ r.opcode = "MEMFILL"
  <2>1. /\ Prefix(r) \in Nat
        /\ Prefix(r) % WORD = 0 \/ (OneByte(r.pat) /\ Prefix(r) >= WORD)
    BY <1>1, <1>3, ByCpuRange DEF ByCpu, SafeRequest, Writes, Operations
  <2>2. OnCpu(r) = Fill(mem, r.dst, r.pat, Prefix(r))
    BY <1>1, <1>3, <2>1, PrefixFilled DEF OnCpu
  <2> QED
    BY <1>3, <2>2 DEF ByCpu, Effect
<1>4. CASE ~ShortToCpu(r) /\ r.opcode # "MEMFILL"
  BY <1>4 DEF OnCpu, ByCpu
<1> QED
  BY <1>2, <1>3, <1>4

-----------------------------------------------------------------------------
(* The descriptor that is left of a request. *)

LEMMA RestFits ==
  ASSUME NEW r \in Requests, SafeRequest(r), ~ShortToCpu(r)
  PROVE  /\ Rest(r) \in Operations /\ Rest(r).opcode = r.opcode
         /\ Writes(r.opcode) => Rest(r).dst = r.dst + ByCpu(r) /\ Rest(r).size = r.size - ByCpu(r)
         /\ r.opcode = "MEMMOVE" => Rest(r).src = r.src + ByCpu(r)
         /\ r.opcode = "MEMFILL" => Rest(r).pat = r.pat /\ (ByCpu(r) % WORD = 0 \/ OneByte(r.pat))
         /\ SafeDescriptor(Rest(r))
         /\ Dest(Rest(r)) \subseteq Dest(r) /\ Source(Rest(r)) \subseteq Source(r)
<1> DEFINE d == Rest(r)
           k == ByCpu(r)
<1>1. /\ r \in Operations /\ r.opcode \in {"MEMMOVE", "MEMFILL", "COMPARE", "CFLUSH"}
      /\ r.src \in Int /\ r.dst \in Int /\ r.size \in Nat /\ r.pat \in [0 .. WORD - 1 -> Int]
  BY BatchDataAssumption DEF SafeRequest, Operations
<1>2. k = Prefix(r)
  BY DEF ByCpu
<1>3. Writes(r.opcode) => k \in 0 .. r.size
  BY ByCpuRange
<1>4. CASE r.opcode = "MEMMOVE"
  <2>1. k \in 0 .. r.size
    BY <1>3, <1>4 DEF Writes
  <2>2. d = Desc("MEMMOVE", r.src + k, r.dst + k, r.size - k, r.pat)
    BY <1>2, <1>4 DEF Rest
  <2> HIDE DEF d, k
  <2>3. d.opcode = "MEMMOVE" /\ d.src = r.src + k /\ d.dst = r.dst + k /\ d.size = r.size - k /\ d \in Operations
    BY <1>1, <1>4, <2>1, <2>2 DEF Operations, Opcodes, Desc
  <2>4. Dest(d) \subseteq Dest(r) /\ Source(d) \subseteq Source(r)
    <3>1. Bytes(d.dst, d.size) \subseteq Bytes(r.dst, r.size) /\ Bytes(d.src, d.size) \subseteq Bytes(r.src, r.size)
      <4>1. \A x \in Int, y \in Nat : \A z \in 0 .. y : Bytes(x + z, y - z) \subseteq Bytes(x, y)
        BY DEF Bytes
      <4> QED
        BY <1>1, <2>1, <2>3, <4>1
    <3> QED
      BY <1>4, <2>3, <3>1 DEF Dest, Source, Writes
  <2>5. SafeDescriptor(d)
    BY <1>1, <1>4, <2>3, <2>4 DEF SafeRequest, SafeDescriptor, d
  <2> QED
    BY <1>4, <2>3, <2>4, <2>5 DEF d, k
<1>5. CASE r.opcode = "MEMFILL"
  <2>1. k \in 0 .. r.size /\ ((k % WORD = 0 /\ r.dst % WORD = 0) \/ OneByte(r.pat))
    BY <1>2, <1>3, <1>5 DEF Writes, SafeRequest
  <2>2. d = Desc("MEMFILL", r.src, r.dst + k, r.size - k, r.pat)
    <3>1. k % WORD \in Int
      BY <1>1, <2>1, Sizes
    <3>2. rest_pattern(r.pat, k) = r.pat
      BY <1>1, <2>1, <3>1, SameEverywhere DEF rest_pattern
    <3> QED
      BY <1>2, <1>5, <3>2 DEF Rest
  <2> HIDE DEF d, k
  <2>3. d.opcode = "MEMFILL" /\ d.dst = r.dst + k /\ d.size = r.size - k /\ d.pat = r.pat /\ d \in Operations
    BY <1>1, <1>5, <2>1, <2>2 DEF Operations, Opcodes, Desc
  <2>4. Dest(d) \subseteq Dest(r) /\ Source(d) = {}
    BY <1>1, <1>5, <2>1, <2>3 DEF Dest, Source, Writes, Bytes
  <2>5. k % WORD = 0 /\ r.dst % WORD = 0 => d.dst % WORD = 0
    <3> SUFFICES ASSUME k % WORD = 0, r.dst % WORD = 0 PROVE d.dst % WORD = 0
      OBVIOUS
    <3>1. k \in Int /\ r.dst \in Int /\ WORD \in Nat \ {0} /\ k % WORD = 0
      BY <1>1, <2>1, Sizes
    <3>2. (k + r.dst) % WORD = r.dst % WORD
      BY ONLY <3>1, ShiftMod
    <3> QED
      BY <1>1, <2>1, <2>3, <3>2
  <2>6. SafeDescriptor(d)
    BY <1>1, <1>5, <2>1, <2>3, <2>4, <2>5 DEF SafeRequest, SafeDescriptor, d
  <2> QED
    BY <1>5, <2>1, <2>3, <2>4, <2>6 DEF d, k
<1>6. CASE r.opcode = "COMPARE"
  BY <1>1, <1>6 DEF Rest, Writes, SafeDescriptor, Source, Dest
<1>7. CASE r.opcode = "CFLUSH"
  <2> DEFINE off == IF DESCS_ADDRESS_ALIGNMENT THEN r.dst % LINE ELSE 0
             pad == IF DESCS_ADDRESS_ALIGNMENT THEN (LINE - ((r.size + off) % LINE)) % LINE ELSE 0
  <2>0. DESCS_ADDRESS_ALIGNMENT \in BOOLEAN /\ r.dst % LINE \in 0 .. LINE - 1
    BY <1>1, AlignRange, BatchDataAssumption
  <2>1. off \in Nat
    BY <2>0, Sizes
  <2>2. pad \in Nat
    <3>1. (r.size + off) % LINE \in 0 .. LINE - 1
      BY <1>1, <2>1, Sizes
    <3>2. LINE - ((r.size + off) % LINE) \in Int
      BY <3>1, Sizes
    <3>3. (LINE - ((r.size + off) % LINE)) % LINE \in 0 .. LINE - 1
      BY <3>2, Sizes, DivMod
    <3> QED
      BY <3>3, Sizes
  <2>3. d = Desc("CFLUSH", r.src, r.dst - off, r.size + off + pad, r.pat)
    BY <1>7 DEF Rest
  <2> HIDE DEF off, pad, d
  <2>4. d.opcode = "CFLUSH" /\ d \in Operations
    BY <1>1, <1>7, <2>1, <2>2, <2>3 DEF Operations, Opcodes, Desc
  <2>5. Dest(d) = {} /\ Source(d) = {}
    BY <2>4 DEF Dest, Source, Writes
  <2>6. SafeDescriptor(d)
    BY <1>7, <2>4, <2>5 DEF SafeDescriptor, SafeRequest, d
  <2> QED
    BY <1>7, <2>4, <2>5, <2>6 DEF d, Writes
<1> QED
  BY <1>1, <1>4, <1>5, <1>6, <1>7

-----------------------------------------------------------------------------
(* Bytes and what they come from. *)

LEMMA Fields ==
  ASSUME NEW d \in Operations
  PROVE  /\ d.opcode \in Opcodes /\ d.src \in Int /\ d.dst \in Int /\ d.size \in Nat
         /\ d.pat \in [0 .. WORD - 1 -> Int]
  BY DEF Operations

LEMMA DescType ==
  ASSUME NEW op \in Opcodes, NEW src \in Int, NEW dst \in Int, NEW size \in Nat,
         NEW pat \in [0 .. WORD - 1 -> Int]
  PROVE  Desc(op, src, dst, size, pat) \in Operations
  BY DEF Desc, Operations

\* A byte that is written depends on the source only.
LEMMA SameByte ==
  ASSUME NEW d \in Operations, NEW m, NEW n, NEW x \in Dest(d),
         \A y \in Source(d) : m[y] = n[y]
  PROVE  Byte(m, d, x) = Byte(n, d, x)
<1>1. CASE d.opcode = "MEMMOVE"
  <2>1. x \in Bytes(d.dst, d.size)
    BY <1>1 DEF Dest, Writes
  <2>2. d.src + (x - d.dst) \in Bytes(d.src, d.size)
    BY <2>1, Fields DEF Bytes
  <2> QED
    BY <1>1, <2>2 DEF Byte, Source
<1> QED
  BY <1>1 DEF Byte

LEMMA DestType ==
  ASSUME NEW d \in Operations
  PROVE  Dest(d) \subseteq Int /\ Source(d) \subseteq Int
  BY Fields DEF Dest, Source, Bytes

LEMMA OperandsCover ==
  ASSUME NEW d \in Operations
  PROVE  Dest(d) \subseteq Operands(d) /\ Source(d) \subseteq Operands(d)
  BY DEF Dest, Source, Operands, UsesSrc, UsesDst, Writes

\* Moving the beginning of a fill by words does not change its bytes.
LEMMA ShiftByte ==
  ASSUME NEW d \in Operations, NEW e \in Operations, NEW k \in Int, NEW m, NEW x \in Int,
         Writes(d.opcode), e.opcode = d.opcode, e.dst = d.dst + k,
         d.opcode = "MEMMOVE" => e.src = d.src + k,
         d.opcode = "MEMFILL" => e.pat = d.pat /\ (k % WORD = 0 \/ OneByte(d.pat))
  PROVE  Byte(m, e, x) = Byte(m, d, x)
<1>1. CASE d.opcode = "MEMMOVE"
  <2>1. e.src + (x - e.dst) = d.src + (x - d.dst)
    BY <1>1, Fields
  <2> QED
    BY <1>1, <2>1 DEF Byte
<1>2. CASE d.opcode = "MEMFILL"
  <2> DEFINE a == x - e.dst
  <2>1. a \in Int /\ k \in Int /\ x - d.dst = k + a /\ WORD \in Nat \ {0} /\ x - d.dst \in Int
    BY Fields, Sizes
  <2> HIDE DEF a
  <2>2. CASE k % WORD = 0
    <3>1. (k + a) % WORD = a % WORD
      BY ONLY <2>1, <2>2, ShiftMod
    <3> QED
      BY <1>2, <2>1, <3>1 DEF Byte, a
  <2>3. CASE OneByte(d.pat)
    <3>1. a % WORD \in 0 .. WORD - 1 /\ (x - d.dst) % WORD \in 0 .. WORD - 1
      BY <2>1, DivMod
    <3>2. d.pat[a % WORD] = d.pat[(x - d.dst) % WORD]
      BY <2>3, <3>1 DEF OneByte
    <3> QED
      BY <1>2, <3>2 DEF Byte, a
  <2> QED
    BY <1>2, <2>2, <2>3
<1> QED
  BY <1>1, <1>2 DEF Writes

LEMMA RestByte ==
  ASSUME NEW r \in Requests, SafeRequest(r), ~ShortToCpu(r), Writes(r.opcode), NEW m, NEW x \in Int
  PROVE  Byte(m, Rest(r), x) = Byte(m, r, x)
<1>1. r \in Operations
  BY BatchDataAssumption
<1>2. ByCpu(r) \in Int
  BY ByCpuRange, Fields, <1>1
<1> QED
  BY <1>1, <1>2, RestFits, ShiftByte

\* What is left of a descriptor when it is submitted again.
LEMMA ResolvedFits ==
  ASSUME NEW d \in Operations, NEW c, SafeDescriptor(d), RecordFits(d, c)
  PROVE  /\ Resolved(d, c) \in Operations
         /\ SafeDescriptor(Resolved(d, c))
         /\ Source(Resolved(d, c)) \subseteq Source(d)
         /\ Dest(Resolved(d, c)) =
              IF Writes(d.opcode) THEN Bytes(d.dst + c.done, d.size - c.done) ELSE {}
         /\ Dest(Resolved(d, c)) \subseteq Dest(d)
         /\ \A m : \A x \in Dest(Resolved(d, c)) : Byte(m, Resolved(d, c), x) = Byte(m, d, x)
         /\ Writes(Resolved(d, c).opcode) => Writes(d.opcode)
<1> DEFINE e == Resolved(d, c)
<1>0. c.status \in {"NONE", "SUCCESS", "PAGE_FAULT"} /\ d.src \in Int /\ d.dst \in Int /\ d.size \in Nat
      /\ d.opcode \in Opcodes /\ d.pat \in [0 .. WORD - 1 -> Int] /\ WORD \in Nat \ {0}
  BY Fields, Sizes DEF RecordFits
<1>1. CASE c.status = "SUCCESS"
  <2>1. e = Noop /\ c.done = d.size
    BY <1>1 DEF Resolved, RecordFits
  <2>2. e \in Operations /\ e.opcode = "NOOP"
    BY <2>1 DEF Noop, Operations, Opcodes
  <2>3. Source(e) = {} /\ Dest(e) = {} /\ ~Writes(e.opcode)
    BY <2>2 DEF Source, Dest, Writes
  <2>4. Bytes(d.dst + c.done, d.size - c.done) = {}
    BY <1>0, <2>1 DEF Bytes
  <2>5. SafeDescriptor(e)
    BY <2>2, <2>3 DEF SafeDescriptor
  <2> HIDE DEF e
  <2> QED
    BY <2>2, <2>3, <2>4, <2>5 DEF e
<1>2. CASE c.status = "NONE"
  <2>1. e = d /\ c.done = 0
    BY <1>2 DEF Resolved, RecordFits
  <2>2. Dest(d) = IF Writes(d.opcode) THEN Bytes(d.dst + 0, d.size - 0) ELSE {}
    BY <1>0 DEF Dest, Bytes
  <2> HIDE DEF e
  <2> QED
    BY <2>1, <2>2 DEF e
<1>3. CASE c.status = "PAGE_FAULT"
  <2> DEFINE k == c.done
  <2>1. e = PF_adjust_desc(d, k) /\ k \in 0 .. d.size - 1
        /\ (d.opcode = "MEMFILL" => k = 0 \/ (d.dst + k) % PAGE = 0)
        /\ d.opcode \in {"MEMMOVE", "MEMFILL", "COMPARE", "CFLUSH"}
    BY <1>3 DEF Resolved, RecordFits
  <2> HIDE DEF e, k
  <2>2. e = Desc(d.opcode, IF UsesSrc(d.opcode) THEN d.src + k ELSE d.src, d.dst + k, d.size - k, d.pat)
    BY <2>1 DEF PF_adjust_desc, UsesDst
  <2>3. /\ e.opcode = d.opcode /\ e.dst = d.dst + k /\ e.size = d.size - k /\ e.pat = d.pat
        /\ e.src = IF UsesSrc(d.opcode) THEN d.src + k ELSE d.src
    BY <2>2 DEF Desc
  <2>4. e \in Operations
    <3>1. k \in Int /\ d.size - k \in Nat /\ d.dst + k \in Int /\ d.src + k \in Int
      BY <1>0, <2>1
    <3>2. (IF UsesSrc(d.opcode) THEN d.src + k ELSE d.src) \in Int
      BY <1>0, <3>1
    <3> QED
      BY ONLY <1>0, <2>2, <3>1, <3>2, DescType
  <2>5. Dest(e) = IF Writes(d.opcode) THEN Bytes(d.dst + k, d.size - k) ELSE {}
    BY <2>3 DEF Dest
  <2>6. Dest(e) \subseteq Dest(d)
    <3>1. k \in Int /\ k >= 0
      BY <1>0, <2>1
    <3>2. Bytes(d.dst + k, d.size - k) \subseteq Bytes(d.dst, d.size)
      BY ONLY <1>0, <3>1 DEF Bytes
    <3> QED
      BY <2>5, <3>2 DEF Dest
  <2>7. Source(e) \subseteq Source(d)
    BY <1>0, <2>1, <2>3 DEF Source, Bytes, UsesSrc
  <2>8. d.opcode = "MEMFILL" /\ d.dst % WORD = 0 => e.dst % WORD = 0 /\ k % WORD = 0
    <3> SUFFICES ASSUME d.opcode = "MEMFILL", d.dst % WORD = 0
                 PROVE  (d.dst + k) % WORD = 0 /\ k % WORD = 0
      BY <2>3
    <3>1. d.dst \in Int /\ k \in Int /\ WORD \in Nat \ {0}
      BY <1>0, <2>1
    <3>2. (d.dst + k) % WORD = k % WORD
      BY ONLY <3>1, d.dst % WORD = 0, ShiftMod
    <3>3. CASE k = 0
      BY <3>1, <3>3
    <3>4. CASE (d.dst + k) % PAGE = 0
      BY <3>1, <3>2, <3>4, PageWord
    <3> QED
      BY <2>1, <3>3, <3>4
  <2>9. ASSUME d.opcode \in {"MEMMOVE", "MEMFILL", "CFLUSH"} PROVE TellsSides(e)
    <3>1. TellsSides(d)
      BY <2>9 DEF SafeDescriptor
    <3>2. SUFFICES ASSUME NEW j \in 0 .. e.size - 1
                   PROVE  ((IF e.opcode = "MEMMOVE" THEN e.src + j ELSE e.src) + PAGE - 1) \div PAGE
                            # (e.dst + j) \div PAGE
      BY DEF TellsSides
    <3>3. k + j \in 0 .. d.size - 1
      BY <1>0, <2>1, <2>3, <3>2
    <3>4. ((IF d.opcode = "MEMMOVE" THEN d.src + (k + j) ELSE d.src) + PAGE - 1) \div PAGE
            # (d.dst + (k + j)) \div PAGE
      BY <3>1, <3>3 DEF TellsSides
    <3>5. (IF e.opcode = "MEMMOVE" THEN e.src + j ELSE e.src)
            = (IF d.opcode = "MEMMOVE" THEN d.src + (k + j) ELSE d.src)
      BY <1>0, <2>1, <2>3, <2>9, <3>2 DEF UsesSrc
    <3>6. e.dst + j = d.dst + (k + j)
      BY <1>0, <2>1, <2>3, <3>2
    <3> QED
      BY <3>4, <3>5, <3>6
  <2>10. SafeDescriptor(e)
    BY <2>3, <2>7, <2>8, <2>9 DEF SafeDescriptor
  <2>11. ASSUME NEW m, NEW x \in Dest(e) PROVE Byte(m, e, x) = Byte(m, d, x)
    <3>1. Writes(d.opcode)
      BY <2>5, <2>11
    <3>2. x \in Int /\ k \in Int
      BY <2>1, <2>4, <2>11, DestType
    <3>3. d.opcode = "MEMMOVE" => e.src = d.src + k
      BY <2>3 DEF UsesSrc
    <3>4. d.opcode = "MEMFILL" => k % WORD = 0 \/ OneByte(d.pat)
      BY <2>8 DEF SafeDescriptor
    <3> QED
      BY <2>3, <2>4, <3>1, <3>2, <3>3, <3>4, ShiftByte
  <2> QED
    BY <2>3, <2>4, <2>5, <2>6, <2>7, <2>10, <2>11 DEF e, k
<1> QED
  BY <1>0, <1>1, <1>2, <1>3

-----------------------------------------------------------------------------
(* Touched pages. *)

\* Touch t of descriptor d stays inside its operands.
OwnTouch(d, t) ==
  Touched(t.at, t.len) \subseteq IF t.wr THEN Dest(d) ELSE Operands(d)

LEMMA TouchLength ==
  ASSUME NEW size \in Nat, size >= 1
  PROVE  /\ Min2(size, DSA_PAGE_FAULT_TOUCH_LEN) \in 1 .. size
         /\ \A a \in Int : Touched(a, Min2(size, DSA_PAGE_FAULT_TOUCH_LEN)) \subseteq Bytes(a, size)
<1>1. Min2(size, DSA_PAGE_FAULT_TOUCH_LEN) \in 1 .. size
  BY BatchDataAssumption, Sizes DEF Min2
<1>2. ASSUME NEW a \in Int, NEW len \in 1 .. size PROVE Touched(a, len) \subseteq Bytes(a, size)
  BY DEF Touched, Bytes
<1> QED
  BY <1>1, <1>2

LEMMA LeadingOwn ==
  ASSUME NEW d \in Operations, NEW t \in Leading(d)
  PROVE  OwnTouch(d, t)
<1>1. /\ d.size >= DSA_PAGE_FAULT_TOUCH_LEN - PAGE /\ d.opcode # "CFLUSH"
      /\ \/ UsesSrc(d.opcode) /\ t = Touch(d.src, Min2(d.size, DSA_PAGE_FAULT_TOUCH_LEN), FALSE)
         \/ UsesDst(d.opcode) /\ t = Touch(d.dst, Min2(d.size, DSA_PAGE_FAULT_TOUCH_LEN), Writes(d.opcode))
  <2>1. d.size \in Int /\ DSA_PAGE_FAULT_TOUCH_LEN - PAGE \in Int
    BY Fields, Sizes, BatchDataAssumption
  <2>2. ~(d.size < DSA_PAGE_FAULT_TOUCH_LEN - PAGE)
    BY Zenon DEF Leading
  <2>3. /\ d.opcode # "CFLUSH"
        /\ \/ UsesSrc(d.opcode) /\ t = Touch(d.src, Min2(d.size, DSA_PAGE_FAULT_TOUCH_LEN), FALSE)
           \/ UsesDst(d.opcode) /\ t = Touch(d.dst, Min2(d.size, DSA_PAGE_FAULT_TOUCH_LEN), Writes(d.opcode))
    BY Zenon DEF Leading
  <2>4. d.size >= DSA_PAGE_FAULT_TOUCH_LEN - PAGE
    BY <2>1, <2>2
  <2> QED
    BY <2>3, <2>4, Zenon
<1>2. d.size \in Nat /\ d.size >= 1 /\ d.src \in Int /\ d.dst \in Int
  BY <1>1, Fields, Sizes, BatchDataAssumption
<1>3. CASE UsesSrc(d.opcode) /\ t = Touch(d.src, Min2(d.size, DSA_PAGE_FAULT_TOUCH_LEN), FALSE)
  <2>1. Touched(t.at, t.len) \subseteq Bytes(d.src, d.size) /\ t.wr = FALSE
    BY <1>2, <1>3, TouchLength DEF Touch
  <2> QED
    BY <1>3, <2>1 DEF OwnTouch, Operands
<1>4. CASE UsesDst(d.opcode) /\ t = Touch(d.dst, Min2(d.size, DSA_PAGE_FAULT_TOUCH_LEN), Writes(d.opcode))
  <2>1. Touched(t.at, t.len) \subseteq Bytes(d.dst, d.size) /\ t.wr = Writes(d.opcode)
    BY <1>2, <1>4, TouchLength DEF Touch
  <2> QED
    BY <1>4, <2>1 DEF OwnTouch, Operands, Dest
<1> QED
  BY <1>1, <1>3, <1>4

\* Side finds the operand that faulted.
LEMMA FollowingOwn ==
  ASSUME NEW d \in Operations, NEW c, SafeDescriptor(d), RecordFits(d, c),
         NEW last, NEW t \in Following(Resolved(d, c), c, last)
  PROVE  OwnTouch(Resolved(d, c), t)
<1> DEFINE e == Resolved(d, c)
           side == Side(e, c)
<1>1. c.status = "PAGE_FAULT" /\ t = Touch(e[side], Min2(e.size, DSA_PAGE_FAULT_TOUCH_LEN), c.wr)
  BY DEF Following
<1>2. /\ c.done \in 0 .. d.size - 1 /\ c.wr \in BOOLEAN
      /\ d.opcode = "MEMFILL" => c.wr
      /\ c.wr => Writes(d.opcode)
      /\ c.wr \/ d.opcode = "CFLUSH" => c.fault_addr = d.dst + c.done
      /\ d.opcode \in {"MEMMOVE", "MEMFILL", "COMPARE", "CFLUSH"}
  BY <1>1 DEF RecordFits
<1>3. e \in Operations /\ SafeDescriptor(e)
  BY ResolvedFits
<1>4. e = Desc(d.opcode, IF UsesSrc(d.opcode) THEN d.src + c.done ELSE d.src, d.dst + c.done,
               d.size - c.done, d.pat)
  BY <1>1, <1>2 DEF Resolved, PF_adjust_desc, UsesDst
<1>5. e.opcode = d.opcode /\ e.dst = d.dst + c.done /\ e.size = d.size - c.done
  BY <1>4 DEF Desc
<1>6. e.size \in Nat /\ e.size >= 1 /\ e.src \in Int /\ e.dst \in Int
  BY <1>2, <1>3, <1>5, Fields
<1> HIDE DEF e
<1>7. side \in {"src", "dst"}
  BY DEF Side
<1>8. c.wr \/ d.opcode = "CFLUSH" => side = "dst"
  <2> SUFFICES ASSUME c.wr \/ d.opcode = "CFLUSH" PROVE side = "dst"
    OBVIOUS
  <2>1. TellsSides(e) /\ 0 \in 0 .. e.size - 1 /\ c.fault_addr = e.dst
    BY <1>2, <1>3, <1>5, <1>6 DEF SafeDescriptor, Writes
  <2>2. ((IF e.opcode = "MEMMOVE" THEN e.src + 0 ELSE e.src) + PAGE - 1) \div PAGE # (e.dst + 0) \div PAGE
    BY <2>1 DEF TellsSides
  <2>3. (e.src + PAGE - 1) \div PAGE # c.fault_addr \div PAGE
    BY <1>6, <2>1, <2>2
  <2> QED
    BY <2>3 DEF Side
<1>9. t.wr = c.wr /\ Touched(t.at, t.len) \subseteq Bytes(IF side = "src" THEN e.src ELSE e.dst, e.size)
  <2>1. e[side] = IF side = "src" THEN e.src ELSE e.dst
    BY <1>7
  <2>2. t.at = (IF side = "src" THEN e.src ELSE e.dst) /\ t.len = Min2(e.size, DSA_PAGE_FAULT_TOUCH_LEN) /\ t.wr = c.wr
    BY <1>1, <2>1 DEF Touch, e
  <2>3. t.at \in Int
    BY <1>6, <2>2
  <2> QED
    BY <1>6, <2>2, <2>3, TouchLength
<1>10. CASE c.wr
  BY <1>2, <1>5, <1>8, <1>9, <1>10 DEF OwnTouch, Dest, e
<1>11. CASE ~c.wr
  <2>1. Bytes(IF side = "src" THEN e.src ELSE e.dst, e.size) \subseteq Operands(e)
    BY <1>2, <1>5, <1>7, <1>8, <1>11 DEF Operands, UsesSrc, UsesDst
  <2> QED
    BY <1>9, <1>11, <2>1 DEF OwnTouch, e
<1> QED
  BY <1>2, <1>10, <1>11

-----------------------------------------------------------------------------
(* Submission. *)

LEMMA Indexed ==
  ASSUME NEW ds \in Seq(Operations), NEW i \in DOMAIN ds
  PROVE  ds[i] \in Operations
  OBVIOUS

LEMMA SubmitForward ==
  ASSUME NEW m \in [Mem -> Int], NEW ds \in Seq(Operations), submit_forward(m, ds)
  PROVE  /\ mem' \in [Mem -> Int]
         /\ \A x \in Mem : (\A i \in DOMAIN ds : x \notin Dest(ds[i])) => mem'[x] = m[x]
         /\ TouchesOwn'
         /\ descs' = ds /\ batch' = "device"
         /\ DOMAIN comps' = DOMAIN ds /\ \A i \in DOMAIN ds : comps'[i] = None
<1> DEFINE all == UNION {Leading(ds[i]) : i \in DOMAIN ds}
<1>1. /\ mem' = [x \in Mem |-> IF \E t \in all : t.wr /\ x \in Touched(t.at, t.len) THEN 0 ELSE m[x]]
      /\ touches' = UNION {{[desc |-> ds[i], touch |-> t] : t \in Leading(ds[i])} : i \in DOMAIN ds}
  BY DEF submit_forward, Touching
<1>2. \A i \in DOMAIN ds : \A t \in Leading(ds[i]) : OwnTouch(ds[i], t)
  BY Indexed, LeadingOwn
<1>3. mem' \in [Mem -> Int]
  BY <1>1
<1>4. ASSUME NEW x \in Mem, \A i \in DOMAIN ds : x \notin Dest(ds[i]) PROVE mem'[x] = m[x]
  <2>1. ASSUME NEW t \in all, t.wr, x \in Touched(t.at, t.len) PROVE FALSE
    <3>1. PICK i \in DOMAIN ds : t \in Leading(ds[i])
      OBVIOUS
    <3>2. Touched(t.at, t.len) \subseteq Dest(ds[i])
      BY <1>2, <2>1, <3>1 DEF OwnTouch
    <3> QED
      BY <1>4, <2>1, <3>2
  <2> QED
    BY <1>1, <2>1
<1>5. TouchesOwn'
  <2>1. ASSUME NEW u \in touches'
        PROVE  Touched(u.touch.at, u.touch.len) \subseteq
                 IF u.touch.wr THEN Dest(u.desc) ELSE Operands(u.desc)
    <3>1. PICK i \in DOMAIN ds : u \in {[desc |-> ds[i], touch |-> t] : t \in Leading(ds[i])}
      BY <1>1, <2>1
    <3>2. PICK t \in Leading(ds[i]) : u = [desc |-> ds[i], touch |-> t]
      BY <3>1
    <3>3. OwnTouch(ds[i], t) /\ u.desc = ds[i] /\ u.touch = t
      BY <1>2, <3>2
    <3> QED
      BY <3>3 DEF OwnTouch
  <2> QED
    BY <2>1, Zenon DEF TouchesOwn
<1> QED
  BY <1>3, <1>4, <1>5 DEF submit_forward

\* The invariant after a submission: touched bytes are in destinations.
LEMMA Submitted ==
  ASSUME NEW ds \in Seq(Operations), descs' = ds, batch' = "device",
         DOMAIN comps' = DOMAIN ds, \A i \in DOMAIN ds : comps'[i] = None,
         mem' \in [Mem -> Int], expected' \in [Mem -> Int],
         LeftOf(ds, pending', expected'),
         \A x \in Mem : (\A i \in DOMAIN ds : x \notin Dest(ds[i])) => mem'[x] = expected'[x],
         pc' \in {"idle", "submit", "wait"},
         pc' = "submit" => req' \in Requests /\ Independent(req)'
  PROVE  DataInv'
<1>1. DataTypes'
  BY DEF DataTypes, None
<1>2. ClientWaits'
  BY DEF ClientWaits
<1>3. DescriptorsFit'
  BY DEF DescriptorsFit, RecordFits, None
<1>4. RestIsRight'
  <2> SUFFICES ASSUME NEW x \in Mem, \A i \in DOMAIN ds : x \notin Remaining(i)' PROVE mem'[x] = expected'[x]
    BY DEF RestIsRight
  <2>1. ASSUME NEW i \in DOMAIN ds PROVE x \notin Dest(ds[i])
    <3>1. Remaining(i)' = IF Writes(ds[i].opcode) THEN Bytes(ds[i].dst + 0, ds[i].size - 0) ELSE {}
      BY DEF Remaining, DoneOf, None
    <3>2. ds[i].dst \in Int /\ ds[i].size \in Int
      BY Indexed, Fields
    <3> QED
      BY <3>1, <3>2 DEF Dest
  <2> QED
    BY <2>1
<1> QED
  BY <1>1, <1>2, <1>3, <1>4 DEF DataInv

-----------------------------------------------------------------------------
(* What the invariant says of the present. *)

LEMMA RemainingInside ==
  ASSUME DataInv, NEW i \in DOMAIN descs
  PROVE  /\ descs[i] \in Operations /\ SafeDescriptor(descs[i])
         /\ DoneOf(i) \in 0 .. descs[i].size
         /\ Remaining(i) \subseteq Dest(descs[i])
         /\ batch \in {"filling", "device"} => Remaining(i) = Dest(descs[i])
         /\ batch = "success" => Remaining(i) = {}
<1>1. descs[i] \in Operations /\ SafeDescriptor(descs[i])
  BY Indexed DEF DataInv, DataTypes, DescriptorsFit, LeftOf
<1>2. descs[i].size \in Nat /\ descs[i].dst \in Int
  BY <1>1, Fields
<1>3. /\ DoneOf(i) \in 0 .. descs[i].size
      /\ batch \in {"filling", "device"} => DoneOf(i) = 0
      /\ batch = "success" => DoneOf(i) = descs[i].size
  <2>1. CASE batch = "filling"
    BY <1>2, <2>1 DEF DoneOf
  <2>2. CASE batch # "filling"
    <3>1. RecordFits(descs[i], comps[i]) /\ DoneOf(i) = comps[i].done
      BY <2>2 DEF DataInv, DescriptorsFit, DoneOf
    <3>2. /\ batch = "device" => comps[i].status = "NONE"
          /\ batch = "success" => comps[i].status = "SUCCESS"
      BY DEF DataInv, DataTypes
    <3> QED
      BY <1>2, <2>2, <3>1, <3>2 DEF RecordFits
  <2> QED
    BY <2>1, <2>2
<1>4. Bytes(descs[i].dst + DoneOf(i), descs[i].size - DoneOf(i)) \subseteq Bytes(descs[i].dst, descs[i].size)
  BY <1>2, <1>3 DEF Bytes
<1>5. batch \in {"filling", "device"} =>
        Bytes(descs[i].dst + DoneOf(i), descs[i].size - DoneOf(i)) = Bytes(descs[i].dst, descs[i].size)
  BY <1>2, <1>3 DEF Bytes
<1>6. batch = "success" => Bytes(descs[i].dst + DoneOf(i), descs[i].size - DoneOf(i)) = {}
  BY <1>2, <1>3 DEF Bytes
<1> QED
  BY <1>1, <1>3, <1>4, <1>5, <1>6 DEF Remaining, Dest

LEMMA Settled ==
  ASSUME DataInv, NEW x \in Mem, \A i \in DOMAIN descs : x \notin Dest(descs[i])
  PROVE  mem[x] = expected[x]
  BY RemainingInside DEF DataInv, RestIsRight

\* Descriptors write what pending operations write.
LEMMA WritesPending ==
  ASSUME DataInv, NEW i \in DOMAIN descs, NEW x \in Dest(descs[i])
  PROVE  \E p \in pending : x \in Dest(p)
<1>1. Writes(descs[i].opcode)
  BY DEF Dest
<1> QED
  BY <1>1 DEF DataInv, DescriptorsFit, LeftOf

\* What an operation reads that is independent of the pending ones.
LEMMA SourcesSettled ==
  ASSUME DataInv, NEW r \in Operations, Independent(r), Source(r) \subseteq Mem, NEW y \in Source(r)
  PROVE  mem[y] = expected[y]
<1>1. y \in Mem /\ y \in Operands(r)
  BY OperandsCover
<1>2. \A i \in DOMAIN descs : y \notin Dest(descs[i])
  BY <1>1, WritesPending DEF Independent
<1> QED
  BY <1>1, <1>2, Settled

-----------------------------------------------------------------------------
(* An operation is added. *)

\* The operation that is submitted.
LEMMA Request ==
  ASSUME DataInv, SafeRequests, pc \in {"submit", "add"}
  PROVE  /\ req \in Requests /\ req \in Operations /\ SafeRequest(req) /\ Independent(req)
         /\ Source(req) \subseteq Mem /\ Source(req) \cap Dest(req) = {}
<1>1. req \in Requests /\ req \in Operations /\ SafeRequest(req) /\ Independent(req)
  BY BatchDataAssumption DEF DataInv, ClientWaits, SafeRequests
<1> QED
  BY <1>1 DEF SafeRequest, Source

LEMMA AddMemory ==
  ASSUME DataInv, SafeRequests, pc = "add", expected' = Effect(expected, req, req.size)
  PROVE  /\ expected' \in [Mem -> Int] /\ OnCpu(req) \in [Mem -> Int]
         /\ \A x \in Mem \ Dest(req) : expected'[x] = expected[x] /\ OnCpu(req)[x] = mem[x]
         /\ \A x \in Mem \cap Dest(req) :
              /\ expected'[x] = Byte(expected, req, x)
              /\ ShortToCpu(req) \/ x \notin Dest(Rest(req)) => OnCpu(req)[x] = expected'[x]
<1> DEFINE k == ByCpu(req)
<1>1. /\ req \in Requests /\ req \in Operations /\ SafeRequest(req) /\ Independent(req)
      /\ Source(req) \subseteq Mem
  BY Request
<1>2. mem \in [Mem -> Int] /\ expected \in [Mem -> Int]
  BY DEF DataInv, DataTypes
<1>3. req.size \in Nat /\ req.dst \in Int /\ req.src \in Int /\ req.size \in Int
  BY <1>1, Fields
<1>4. OnCpu(req) = Effect(mem, req, k)
  BY <1>1, <1>2, OnCpuEffect
<1>5. CASE ~Writes(req.opcode)
  <2>1. Effect(mem, req, k) = mem /\ Effect(expected, req, req.size) = expected /\ Dest(req) = {}
    BY <1>5 DEF Effect, Writes, Dest
  <2> QED
    BY <1>2, <1>4, <2>1
<1>6. CASE Writes(req.opcode)
  <2>1. k \in 0 .. req.size
    BY <1>1, <1>6, ByCpuRange
  <2> HIDE DEF k
  <2>2. Dest(req) = Bytes(req.dst, req.size) /\ Bytes(req.dst, k) \subseteq Bytes(req.dst, req.size)
    BY <1>3, <1>6, <2>1 DEF Dest, Bytes
  <2>3. req.opcode = "MEMMOVE" => Bytes(req.src, req.size) \subseteq Mem /\ Bytes(req.src, k) \subseteq Mem
    <3>1. Bytes(req.src, k) \subseteq Bytes(req.src, req.size)
      BY <1>3, <2>1 DEF Bytes
    <3> QED
      BY <1>1, <3>1 DEF Source
  <2>4. /\ expected' \in [Mem -> Int]
        /\ \A x \in Mem : expected'[x] = IF x \in Dest(req) THEN Byte(expected, req, x) ELSE expected[x]
    BY <1>1, <1>2, <1>3, <1>6, <2>2, <2>3, EffectByte
  <2>5. /\ OnCpu(req) \in [Mem -> Int]
        /\ \A x \in Mem : OnCpu(req)[x] = IF x \in Bytes(req.dst, k) THEN Byte(mem, req, x) ELSE mem[x]
    <3>1. k \in Int
      BY <1>3, <2>1
    <3> QED
      BY <1>1, <1>2, <1>4, <1>6, <2>3, <3>1, EffectByte
  <2>6. ASSUME NEW x \in Mem \cap Dest(req), ShortToCpu(req) \/ x \notin Dest(Rest(req))
        PROVE  OnCpu(req)[x] = expected'[x]
    <3>1. x \in Bytes(req.dst, k)
      <4>1. CASE ShortToCpu(req)
        BY <2>2, <2>6, <4>1 DEF k, ByCpu
      <4>2. CASE ~ShortToCpu(req)
        <5>1. Dest(Rest(req)) = Bytes(req.dst + k, req.size - k)
          BY <1>1, <1>6, <4>2, RestFits DEF k, Dest
        <5>2. x \in Bytes(req.dst, req.size) /\ x \notin Bytes(req.dst + k, req.size - k)
          BY <2>2, <2>6, <4>2, <5>1
        <5> QED
          BY <1>3, <2>1, <5>2 DEF Bytes
      <4> QED
        BY <4>1, <4>2
    <3>2. Byte(mem, req, x) = Byte(expected, req, x)
      BY <1>1, <2>6, SameByte, SourcesSettled
    <3> QED
      BY <2>4, <2>5, <2>6, <3>1, <3>2
  <2> QED
    BY <2>2, <2>4, <2>5, <2>6
<1> QED
  BY <1>5, <1>6

\* The descriptors there are stay what is left of operations.
LEMMA AddKeeps ==
  ASSUME DataInv, SafeRequests, pc = "add", expected' = Effect(expected, req, req.size),
         pending' = pending \union {req}
  PROVE  LeftOf(descs, pending', expected')
<1>1. /\ req \in Requests /\ req \in Operations /\ SafeRequest(req) /\ Independent(req)
      /\ Source(req) \subseteq Mem
  BY Request
<1>2. ASSUME NEW i \in DOMAIN descs, NEW x \in Dest(descs[i]) \cap Mem
      PROVE  expected'[x] = Byte(expected', descs[i], x)
  <2>1. Writes(descs[i].opcode)
    BY <1>2 DEF Dest
  <2>2. /\ descs[i] \in Operations /\ SafeDescriptor(descs[i])
        /\ expected[x] = Byte(expected, descs[i], x)
    BY <1>2, RemainingInside DEF DataInv, DescriptorsFit, LeftOf
  <2>3. PICK p \in pending : Dest(descs[i]) \subseteq Dest(p) /\ Source(descs[i]) \subseteq Operands(p)
    BY <2>1 DEF DataInv, DescriptorsFit, LeftOf
  <2>4. Dest(p) \subseteq Operands(p)
    BY DEF Dest, Operands, Writes, UsesDst
  <2>5. Dest(req) \cap Operands(p) = {}
    BY <1>1 DEF Independent
  <2>6. expected'[x] = expected[x]
    BY <1>2, <2>3, <2>4, <2>5, AddMemory
  <2>7. \A y \in Source(descs[i]) : expected'[y] = expected[y]
    BY <2>2, <2>3, <2>5, AddMemory DEF SafeDescriptor
  <2>8. Byte(expected', descs[i], x) = Byte(expected, descs[i], x)
    BY <1>2, <2>2, <2>7, SameByte
  <2> QED
    BY <2>2, <2>6, <2>8
<1> QED
  BY <1>2 DEF DataInv, DescriptorsFit, LeftOf

\* So are they with what is left of the new one.
LEMMA AddAppends ==
  ASSUME DataInv, SafeRequests, pc = "add", expected' = Effect(expected, req, req.size),
         pending' = pending \union {req}, ~ShortToCpu(req)
  PROVE  LET ds == Append(descs, Rest(req))
         IN  /\ ds \in Seq(Operations) /\ Len(ds) = Len(descs) + 1
             /\ LeftOf(ds, pending', expected')
             /\ \A x \in Mem : (\A i \in DOMAIN ds : x \notin Dest(ds[i])) => OnCpu(req)[x] = expected'[x]
<1> DEFINE ds == Append(descs, Rest(req))
           d == Rest(req)
<1>1. /\ req \in Requests /\ req \in Operations /\ SafeRequest(req) /\ Independent(req)
      /\ Source(req) \subseteq Mem /\ Source(req) \cap Dest(req) = {}
  BY Request
<1>2. /\ d \in Operations /\ d.opcode = req.opcode /\ SafeDescriptor(d)
      /\ Dest(d) \subseteq Dest(req) /\ Source(d) \subseteq Source(req)
  BY <1>1, RestFits
<1>3. LeftOf(descs, pending', expected') /\ descs \in Seq(Operations)
  BY AddKeeps DEF DataInv, DataTypes
<1>4. /\ ds \in Seq(Operations) /\ Len(ds) = Len(descs) + 1
      /\ DOMAIN ds = 1 .. Len(descs) + 1 /\ DOMAIN descs = 1 .. Len(descs) /\ Len(descs) \in Nat
      /\ \A i \in DOMAIN descs : ds[i] = descs[i]
      /\ ds[Len(descs) + 1] = d
  BY <1>2, <1>3
<1>5. \A i \in DOMAIN ds : i \in DOMAIN descs \/ i = Len(descs) + 1
  BY <1>4
<1> HIDE DEF ds, d
<1>6. ASSUME NEW i \in DOMAIN descs
      PROVE  Dest(descs[i]) \cap Source(d) = {} /\ Dest(d) \cap Source(descs[i]) = {}
  <2>1. CASE Writes(descs[i].opcode)
    <3>1. PICK p \in pending : Dest(descs[i]) \subseteq Dest(p) /\ Source(descs[i]) \subseteq Operands(p)
      BY <2>1 DEF DataInv, DescriptorsFit, LeftOf
    <3>2. Dest(req) \cap Operands(p) = {} /\ Operands(req) \cap Dest(p) = {}
      BY <1>1 DEF Independent
    <3> QED
      BY <1>1, <1>2, <3>1, <3>2, OperandsCover
  <2>2. CASE ~Writes(descs[i].opcode)
    BY <2>2 DEF Dest, Source, Writes
  <2> QED
    BY <2>1, <2>2
<1>7. ASSUME NEW x \in Dest(d) \cap Mem PROVE expected'[x] = Byte(expected', d, x)
  <2>1. Writes(req.opcode) /\ x \in Dest(req) /\ x \in Int
    BY <1>1, <1>2, <1>7, DestType DEF Dest
  <2>2. expected'[x] = Byte(expected, req, x)
    BY <1>7, <2>1, AddMemory
  <2>3. \A y \in Source(req) : expected'[y] = expected[y]
    BY <1>1, AddMemory
  <2>4. Byte(expected', req, x) = Byte(expected, req, x)
    BY <1>1, <2>1, <2>3, SameByte
  <2>5. Byte(expected', d, x) = Byte(expected', req, x)
    BY <1>1, <2>1, RestByte DEF d
  <2> QED
    BY <2>2, <2>4, <2>5
<1>8. Writes(d.opcode) =>
        \E p \in pending' : Dest(d) \subseteq Dest(p) /\ Source(d) \subseteq Operands(p)
  BY <1>1, <1>2, OperandsCover
<1>9. Dest(d) \cap Source(d) = {}
  BY <1>1, <1>2
<1>10. ASSUME NEW i \in DOMAIN ds
       PROVE  /\ SafeDescriptor(ds[i])
              /\ Writes(ds[i].opcode) =>
                   \E p \in pending' : Dest(ds[i]) \subseteq Dest(p) /\ Source(ds[i]) \subseteq Operands(p)
              /\ \A j \in DOMAIN ds : Dest(ds[i]) \cap Source(ds[j]) = {}
              /\ \A x \in Dest(ds[i]) \cap Mem : expected'[x] = Byte(expected', ds[i], x)
  <2>1. CASE i \in DOMAIN descs
    <3>1. ds[i] = descs[i]
      BY <1>4, <2>1
    <3>2. \A j \in DOMAIN ds : Dest(ds[i]) \cap Source(ds[j]) = {}
      BY <1>3, <1>4, <1>5, <1>6, <2>1, <3>1 DEF LeftOf
    <3> QED
      BY <1>3, <2>1, <3>1, <3>2 DEF LeftOf
  <2>2. CASE i = Len(descs) + 1
    <3>1. ds[i] = d
      BY <1>4, <2>2
    <3>2. \A j \in DOMAIN ds : Dest(d) \cap Source(ds[j]) = {}
      BY <1>4, <1>5, <1>6, <1>9
    <3> QED
      BY <1>2, <1>7, <1>8, <3>1, <3>2
  <2> QED
    BY <1>5, <2>1, <2>2
<1>11. LeftOf(ds, pending', expected')
  BY <1>10 DEF LeftOf
<1>12. ASSUME NEW x \in Mem, \A i \in DOMAIN ds : x \notin Dest(ds[i]) PROVE OnCpu(req)[x] = expected'[x]
  <2>1. x \notin Dest(d) /\ \A i \in DOMAIN descs : x \notin Dest(descs[i])
    BY <1>4, <1>12
  <2>2. CASE x \in Dest(req)
    BY <1>12, <2>1, <2>2, AddMemory DEF d
  <2>3. CASE x \notin Dest(req)
    BY <1>12, <2>1, <2>3, AddMemory, Settled
  <2> QED
    BY <2>2, <2>3
<1> QED
  BY <1>4, <1>11, <1>12 DEF ds

\* The invariant while the batch is filling.
LEMMA Filling ==
  ASSUME batch' = "filling", descs' \in Seq(Operations), Len(descs') < batch_siz,
         mem' \in [Mem -> Int], expected' \in [Mem -> Int],
         LeftOf(descs', pending', expected'),
         \A x \in Mem : (\A i \in DOMAIN descs' : x \notin Dest(descs'[i])) => mem'[x] = expected'[x],
         pc' \in {"idle", "submit", "add", "wait"}, ClientWaits'
  PROVE  DataInv'
<1>1. DataTypes'
  BY DEF DataTypes
<1>2. DescriptorsFit'
  BY DEF DescriptorsFit
<1>3. RestIsRight'
  <2>1. ASSUME NEW i \in DOMAIN descs' PROVE Remaining(i)' = Dest(descs'[i])
    <3>1. Remaining(i)' = IF Writes(descs'[i].opcode)
                            THEN Bytes(descs'[i].dst + 0, descs'[i].size - 0) ELSE {}
      BY DEF Remaining, DoneOf
    <3>2. descs'[i].dst \in Int /\ descs'[i].size \in Int
      BY Indexed, Fields
    <3> QED
      BY <3>1, <3>2 DEF Dest
  <2> QED
    BY <2>1 DEF RestIsRight
<1> QED
  BY <1>1, <1>2, <1>3 DEF DataInv

LEMMA NothingTouched == ASSUME touches' = {} PROVE TouchesOwn'
  BY DEF TouchesOwn

LEMMA AddStep ==
  ASSUME DataInv, SafeRequests, Add
  PROVE  DataInv' /\ TouchesOwn'
<1> DEFINE ds == Append(descs, Rest(req))
<1>1. /\ pc = "add" /\ pc' = "idle" /\ pending' = pending \union {req}
      /\ expected' = Effect(expected, req, req.size)
  BY DEF Add
<1>2. /\ batch = "filling" /\ descs \in Seq(Operations) /\ Len(descs) < batch_siz
      /\ batch_siz \in Nat
  BY <1>1, BatchDataAssumption DEF DataInv, ClientWaits, DataTypes
<1>3. expected' \in [Mem -> Int] /\ OnCpu(req) \in [Mem -> Int]
  BY <1>1, AddMemory
<1>4. ClientWaits'
  BY <1>1 DEF ClientWaits
<1>5. CASE ShortToCpu(req)
  <2>1. mem' = OnCpu(req) /\ touches' = {} /\ descs' = descs /\ batch' = batch
    BY <1>5 DEF Add, engine
  <2>2. LeftOf(descs', pending', expected')
    BY <1>1, <2>1, AddKeeps
  <2>3. ASSUME NEW x \in Mem, \A i \in DOMAIN descs' : x \notin Dest(descs'[i])
        PROVE  mem'[x] = expected'[x]
    <3>1. CASE x \in Dest(req)
      BY <1>1, <1>5, <2>1, <3>1, AddMemory
    <3>2. CASE x \notin Dest(req)
      BY <1>1, <2>1, <2>3, <3>2, AddMemory, Settled
    <3> QED
      BY <3>1, <3>2
  <2>4. DataInv'
    BY <1>1, <1>2, <1>3, <1>4, <2>1, <2>2, <2>3, Filling
  <2> QED
    BY <2>1, <2>4, NothingTouched
<1>6. CASE ~ShortToCpu(req)
  <2>1. /\ ds \in Seq(Operations) /\ Len(ds) = Len(descs) + 1
        /\ LeftOf(ds, pending', expected')
        /\ \A x \in Mem : (\A i \in DOMAIN ds : x \notin Dest(ds[i])) => OnCpu(req)[x] = expected'[x]
    BY <1>1, <1>6, AddAppends
  <2>2. CASE Len(ds) = batch_siz
    <3>1. submit_forward(OnCpu(req), ds)
      BY <1>6, <2>2 DEF Add
    <3> HIDE DEF ds
    <3>2. /\ mem' \in [Mem -> Int] /\ TouchesOwn'
          /\ \A x \in Mem : (\A i \in DOMAIN ds : x \notin Dest(ds[i])) => mem'[x] = OnCpu(req)[x]
          /\ descs' = ds /\ batch' = "device"
          /\ DOMAIN comps' = DOMAIN ds /\ \A i \in DOMAIN ds : comps'[i] = None
      BY <1>3, <2>1, <3>1, SubmitForward
    <3>3. DataInv'
      BY <1>1, <1>3, <2>1, <3>2, Submitted
    <3> QED
      BY <3>2, <3>3
  <2>3. CASE Len(ds) # batch_siz
    <3>1. descs' = ds /\ mem' = OnCpu(req) /\ touches' = {} /\ batch' = batch
      BY <1>6, <2>3 DEF Add
    <3>2. Len(ds) < batch_siz
      BY <1>2, <2>1, <2>3
    <3> HIDE DEF ds
    <3>3. DataInv'
      BY <1>1, <1>2, <1>3, <1>4, <2>1, <3>1, <3>2, Filling
    <3> QED
      BY <3>1, <3>3, NothingTouched
  <2> QED
    BY <2>2, <2>3
<1> QED
  BY <1>5, <1>6

LEMMA WaitStep ==
  ASSUME DataInv, Wait
  PROVE  DataInv' /\ TouchesOwn'
<1> DEFINE ds == [i \in 1 .. batch_siz |-> IF i <= Len(descs) THEN descs[i] ELSE Noop]
<1>1. /\ pc' = "wait" /\ UNCHANGED <<req, pending, expected>>
      /\ descs \in Seq(Operations) /\ mem \in [Mem -> Int] /\ expected \in [Mem -> Int]
  BY DEF Wait, ghosts, DataInv, DataTypes
<1>2. CASE batch = "filling" /\ descs # <<>>
  <2>1. submit_forward(mem, ds)
    BY <1>2 DEF Wait
  <2>2. Noop \in Operations /\ Dest(Noop) = {} /\ Source(Noop) = {} /\ SafeDescriptor(Noop)
        /\ ~Writes(Noop.opcode)
    <3>1. Noop.opcode = "NOOP"
      BY DEF Noop
    <3>2. Noop \in Operations
      BY DEF Noop, Operations, Opcodes
    <3>3. Dest(Noop) = {} /\ Source(Noop) = {} /\ ~Writes(Noop.opcode)
      BY <3>1 DEF Dest, Source, Writes
    <3> QED
      BY <3>1, <3>2, <3>3 DEF SafeDescriptor
  <2>3. Len(descs) < batch_siz /\ batch_siz \in Nat /\ Len(descs) \in Nat /\ DOMAIN descs = 1 .. Len(descs)
    BY <1>1, <1>2, BatchDataAssumption DEF DataInv, DataTypes
  <2>4. ds \in Seq(Operations) /\ DOMAIN ds = 1 .. batch_siz
    <3>1. \A i \in 1 .. batch_siz : ds[i] \in Operations
      BY <1>1, <2>2, <2>3, Indexed
    <3>2. ds \in [1 .. batch_siz -> Operations]
      BY <3>1
    <3> QED
      BY <2>3, <3>2
  <2>5. \A i \in DOMAIN descs : i \in DOMAIN ds /\ ds[i] = descs[i]
    BY <2>3
  <2>6. \A i \in DOMAIN ds : (i \in DOMAIN descs /\ ds[i] = descs[i]) \/ ds[i] = Noop
    BY <2>3
  <2> HIDE DEF ds
  <2>7. LeftOf(ds, pending', expected')
    <3>1. LeftOf(descs, pending, expected)
      BY DEF DataInv, DescriptorsFit
    <3>2. ASSUME NEW i \in DOMAIN ds
          PROVE  /\ SafeDescriptor(ds[i])
                 /\ Writes(ds[i].opcode) =>
                      \E p \in pending : Dest(ds[i]) \subseteq Dest(p) /\ Source(ds[i]) \subseteq Operands(p)
                 /\ \A j \in DOMAIN ds : Dest(ds[i]) \cap Source(ds[j]) = {}
                 /\ \A x \in Dest(ds[i]) \cap Mem : expected[x] = Byte(expected, ds[i], x)
      <4>1. CASE i \in DOMAIN descs /\ ds[i] = descs[i]
        <5>1. \A j \in DOMAIN ds : Dest(ds[i]) \cap Source(ds[j]) = {}
          BY <2>2, <2>6, <3>1, <4>1 DEF LeftOf
        <5> QED
          BY <3>1, <4>1, <5>1 DEF LeftOf
      <4>2. CASE ds[i] = Noop
        BY <2>2, <4>2
      <4> QED
        BY <2>6, <4>1, <4>2
    <3> QED
      BY <1>1, <3>2 DEF LeftOf
  <2>8. /\ mem' \in [Mem -> Int] /\ TouchesOwn'
        /\ \A x \in Mem : (\A i \in DOMAIN ds : x \notin Dest(ds[i])) => mem'[x] = mem[x]
        /\ descs' = ds /\ batch' = "device"
        /\ DOMAIN comps' = DOMAIN ds /\ \A i \in DOMAIN ds : comps'[i] = None
    BY <1>1, <2>1, <2>4, SubmitForward
  <2>9. \A x \in Mem : (\A i \in DOMAIN ds : x \notin Dest(ds[i])) => mem'[x] = expected'[x]
    BY <1>1, <2>5, <2>8, Settled
  <2>10. DataInv'
    BY <1>1, <2>4, <2>7, <2>8, <2>9, Submitted
  <2> QED
    BY <2>8, <2>10
<1>3. CASE ~(batch = "filling" /\ descs # <<>>)
  <2>1. touches' = {} /\ UNCHANGED <<mem, descs, comps, batch, expected, pending, req>>
    BY <1>1, <1>3 DEF Wait, engine
  <2>2. DataTypes' /\ ClientWaits'
    BY <1>1, <1>3, <2>1 DEF DataInv, DataTypes, ClientWaits
  <2>3. DescriptorsFit' /\ RestIsRight'
    BY <2>1 DEF DataInv, DescriptorsFit, RestIsRight, Remaining, DoneOf
  <2> QED
    BY <2>1, <2>2, <2>3, NothingTouched DEF DataInv
<1> QED
  BY <1>2, <1>3

LEMMA SubmitStep ==
  ASSUME DataInv, NEW r \in Requests, Submit(r)
  PROVE  DataInv' /\ TouchesOwn'
<1>1. /\ touches' = {} /\ req' = r /\ Independent(r) /\ pc' = IF batch = "filling" THEN "add" ELSE "submit"
      /\ UNCHANGED <<mem, descs, comps, batch, pending, expected>>
  BY DEF Submit, engine, ghosts
<1>2. DataTypes' /\ ClientWaits'
  BY <1>1 DEF DataInv, DataTypes, ClientWaits, Independent
<1>3. DescriptorsFit' /\ RestIsRight'
  BY <1>1 DEF DataInv, DescriptorsFit, RestIsRight, Remaining, DoneOf
<1> QED
  BY <1>1, <1>2, <1>3, NothingTouched DEF DataInv

LEMMA RecycleStep ==
  ASSUME DataInv, Recycle
  PROVE  DataInv' /\ TouchesOwn'
<1>1. /\ batch = "success" /\ batch' = "filling" /\ descs' = <<>> /\ touches' = {}
      /\ pc \in {"submit", "wait"}
      /\ UNCHANGED <<mem, pc, req, pending, expected>>
  BY DEF Recycle, ghosts
<1>2. /\ <<>> \in Seq(Operations) /\ Len(<<>>) = 0 /\ 0 < batch_siz
      /\ \A i \in DOMAIN <<>> : FALSE
  BY BatchDataAssumption
<1>3. LeftOf(descs', pending', expected')
  BY <1>1, <1>2 DEF LeftOf
<1>4. ASSUME NEW x \in Mem PROVE mem'[x] = expected'[x]
  BY <1>1, RemainingInside DEF DataInv, RestIsRight
<1>5. ClientWaits'
  BY <1>1 DEF DataInv, ClientWaits, Independent
<1>6. DataInv'
  BY <1>1, <1>2, <1>3, <1>4, <1>5, Filling DEF DataInv, DataTypes
<1> QED
  BY <1>1, <1>6, NothingTouched

LEMMA LeaveStep ==
  ASSUME DataInv, Leave
  PROVE  DataInv' /\ TouchesOwn'
<1>1. /\ batch = "filling" /\ touches' = {} /\ pc \in {"submit", "wait"}
      /\ pc' = IF pc = "submit" THEN "add" ELSE "idle"
      /\ pending' = IF pc = "wait" THEN {} ELSE pending
      /\ UNCHANGED <<mem, descs, comps, batch, req, expected>>
  BY DEF Leave, engine
<1>2. pc = "wait" => descs = <<>>
  BY <1>1 DEF DataInv, ClientWaits
<1>3. DataTypes' /\ ClientWaits'
  BY <1>1 DEF DataInv, DataTypes, ClientWaits, Independent
<1>4. DescriptorsFit'
  <2>1. CASE pc = "wait"
    <3>1. \A i \in DOMAIN <<>> : FALSE
      OBVIOUS
    <3> QED
      BY <1>1, <1>2, <2>1, <3>1 DEF DescriptorsFit, LeftOf
  <2>2. CASE pc = "submit"
    BY <1>1, <2>2 DEF DataInv, DescriptorsFit
  <2> QED
    BY <1>1, <2>1, <2>2
<1>5. RestIsRight'
  BY <1>1 DEF DataInv, RestIsRight, Remaining, DoneOf
<1> QED
  BY <1>1, <1>3, <1>4, <1>5, NothingTouched DEF DataInv

-----------------------------------------------------------------------------
(* A batch that failed is submitted again. *)

LEMMA ResolveStep ==
  ASSUME DataInv, ResolveError
  PROVE  DataInv' /\ TouchesOwn'
<1> DEFINE ds == [i \in DOMAIN descs |-> Resolved(descs[i], comps[i])]
           follow(i) == Following(ds[i], comps[i], last_fault[i])
           all == UNION {follow(i) : i \in DOMAIN ds}
<1>1. /\ batch = "error" /\ batch' = "device" /\ descs' = ds
      /\ comps' = [i \in DOMAIN descs |-> None]
      /\ UNCHANGED <<pc, req, pending, expected>> /\ pc \in {"submit", "wait"}
  BY DEF ResolveError, ghosts
<1>2. /\ mem' = [x \in Mem |-> IF \E t \in all : t.wr /\ x \in Touched(t.at, t.len) THEN 0 ELSE mem[x]]
      /\ touches' = UNION {{[desc |-> ds[i], touch |-> t] : t \in follow(i)} : i \in DOMAIN ds}
  BY DEF ResolveError, Touching
<1>3. /\ descs \in Seq(Operations) /\ mem \in [Mem -> Int] /\ expected \in [Mem -> Int]
      /\ DOMAIN descs = 1 .. Len(descs) /\ Len(descs) \in Nat /\ DOMAIN ds = DOMAIN descs
  BY DEF DataInv, DataTypes
<1>4. ASSUME NEW i \in DOMAIN descs
      PROVE  /\ descs[i] \in Operations /\ SafeDescriptor(descs[i]) /\ RecordFits(descs[i], comps[i])
             /\ ds[i] = Resolved(descs[i], comps[i])
  BY <1>1, RemainingInside DEF DataInv, DescriptorsFit
<1>5. ASSUME NEW i \in DOMAIN descs
      PROVE  /\ ds[i] \in Operations /\ SafeDescriptor(ds[i])
             /\ Source(ds[i]) \subseteq Source(descs[i]) /\ Dest(ds[i]) \subseteq Dest(descs[i])
             /\ Dest(ds[i]) = Remaining(i)
             /\ \A m : \A x \in Dest(ds[i]) : Byte(m, ds[i], x) = Byte(m, descs[i], x)
             /\ Writes(ds[i].opcode) => Writes(descs[i].opcode)
  <2>1. Remaining(i) = IF Writes(descs[i].opcode)
                         THEN Bytes(descs[i].dst + comps[i].done, descs[i].size - comps[i].done) ELSE {}
    BY <1>1 DEF Remaining, DoneOf
  <2> HIDE DEF ds
  <2>2. descs[i] \in Operations /\ SafeDescriptor(descs[i]) /\ RecordFits(descs[i], comps[i])
    BY <1>4
  <2>3. /\ Resolved(descs[i], comps[i]) \in Operations
        /\ SafeDescriptor(Resolved(descs[i], comps[i]))
        /\ Source(Resolved(descs[i], comps[i])) \subseteq Source(descs[i])
        /\ Dest(Resolved(descs[i], comps[i])) = Remaining(i)
        /\ Dest(Resolved(descs[i], comps[i])) \subseteq Dest(descs[i])
        /\ \A m : \A x \in Dest(Resolved(descs[i], comps[i])) :
             Byte(m, Resolved(descs[i], comps[i]), x) = Byte(m, descs[i], x)
        /\ Writes(Resolved(descs[i], comps[i]).opcode) => Writes(descs[i].opcode)
    BY <2>1, <2>2, ResolvedFits
  <2>4. ds[i] = Resolved(descs[i], comps[i])
    BY <1>4
  <2> QED
    BY <2>3, <2>4
<1>6. ASSUME NEW i \in DOMAIN descs, NEW t \in follow(i) PROVE OwnTouch(ds[i], t)
  BY <1>4, <1>6, FollowingOwn
<1>7. ds \in Seq(Operations)
  <2>1. ds \in [1 .. Len(descs) -> Operations]
    BY <1>3, <1>5
  <2> QED
    BY <1>3, <2>1
<1> HIDE DEF ds
<1>8. LeftOf(ds, pending', expected')
  <2>1. LeftOf(descs, pending, expected)
    BY DEF DataInv, DescriptorsFit
  <2>2. ASSUME NEW i \in DOMAIN descs
        PROVE  /\ SafeDescriptor(ds[i])
               /\ Writes(ds[i].opcode) =>
                    \E p \in pending : Dest(ds[i]) \subseteq Dest(p) /\ Source(ds[i]) \subseteq Operands(p)
               /\ \A j \in DOMAIN descs : Dest(ds[i]) \cap Source(ds[j]) = {}
               /\ \A x \in Dest(ds[i]) \cap Mem : expected[x] = Byte(expected, ds[i], x)
    <3>1. Writes(ds[i].opcode) =>
            \E p \in pending : Dest(ds[i]) \subseteq Dest(p) /\ Source(ds[i]) \subseteq Operands(p)
      BY <1>5, <2>1 DEF LeftOf
    <3>2. \A j \in DOMAIN descs : Dest(ds[i]) \cap Source(ds[j]) = {}
      BY <1>5, <2>1 DEF LeftOf
    <3>3. \A x \in Dest(ds[i]) \cap Mem : expected[x] = Byte(expected, ds[i], x)
      BY <1>5, <2>1 DEF LeftOf
    <3> QED
      BY <1>5, <3>1, <3>2, <3>3
  <2> QED
    BY <1>1, <1>3, <2>2 DEF LeftOf
<1>9. mem' \in [Mem -> Int]
  BY <1>2, <1>3
<1>10. ASSUME NEW x \in Mem, \A i \in DOMAIN ds : x \notin Dest(ds[i]) PROVE mem'[x] = expected'[x]
  <2>1. ASSUME NEW t \in all, t.wr, x \in Touched(t.at, t.len) PROVE FALSE
    <3>1. PICK i \in DOMAIN ds : t \in follow(i)
      OBVIOUS
    <3>2. Touched(t.at, t.len) \subseteq Dest(ds[i])
      BY <1>3, <1>6, <2>1, <3>1 DEF OwnTouch
    <3> QED
      BY <1>10, <2>1, <3>2
  <2>2. mem'[x] = mem[x]
    BY <1>2, <2>1
  <2>3. mem[x] = expected[x]
    BY <1>3, <1>5, <1>10 DEF DataInv, RestIsRight
  <2> QED
    BY <1>1, <2>2, <2>3
<1>11. DataInv'
  <2>1. pc' = "submit" => req' \in Requests /\ Independent(req)'
    BY <1>1 DEF DataInv, ClientWaits, Independent
  <2>2. DOMAIN comps' = DOMAIN ds /\ \A i \in DOMAIN ds : comps'[i] = None
    BY <1>1, <1>3
  <2> QED
    BY <1>1, <1>3, <1>7, <1>8, <1>9, <1>10, <2>1, <2>2, Submitted
<1>12. TouchesOwn'
  <2>1. ASSUME NEW u \in touches'
        PROVE  Touched(u.touch.at, u.touch.len) \subseteq
                 IF u.touch.wr THEN Dest(u.desc) ELSE Operands(u.desc)
    <3>1. PICK i \in DOMAIN ds : u \in {[desc |-> ds[i], touch |-> t] : t \in follow(i)}
      BY <1>2, <2>1
    <3>2. PICK t \in follow(i) : u = [desc |-> ds[i], touch |-> t]
      BY <3>1
    <3>3. OwnTouch(ds[i], t) /\ u.desc = ds[i] /\ u.touch = t
      BY <1>3, <1>6, <3>2
    <3> QED
      BY <3>3 DEF OwnTouch
  <2> QED
    BY <2>1, Zenon DEF TouchesOwn
<1> QED
  BY <1>11, <1>12

-----------------------------------------------------------------------------
(* The device. *)

\* What a batch leaves behind, whatever part of it was run.
LEMMA ExecuteStep ==
  ASSUME DataInv, batch = "device", NEW cs, DOMAIN cs = DOMAIN descs,
         \A i \in DOMAIN descs : RecordFits(descs[i], cs[i]),
         batch' \in {"error", "success"},
         batch' = "success" => \A i \in DOMAIN descs : cs[i].status = "SUCCESS",
         Executes(cs)
  PROVE  DataInv' /\ TouchesOwn'
<1> DEFINE writers(x) == {i \in DOMAIN descs : /\ Writes(descs[i].opcode)
                                               /\ x \in Bytes(descs[i].dst, cs[i].done)}
           last(x) == CHOOSE i \in writers(x) : TRUE
<1>1. /\ comps' = cs /\ touches' = {} /\ UNCHANGED <<descs, pc, req, pending, expected>>
      /\ mem' = [x \in Mem |-> IF writers(x) = {} THEN mem[x] ELSE Byte(mem, descs[last(x)], x)]
  BY DEF Executes, ghosts
<1>2. descs \in Seq(Operations) /\ mem \in [Mem -> Int] /\ expected \in [Mem -> Int] /\ pc # "add"
  BY DEF DataInv, DataTypes, ClientWaits
<1>3. ASSUME NEW i \in DOMAIN descs
      PROVE  /\ descs[i] \in Operations /\ descs[i].dst \in Int /\ descs[i].size \in Nat
             /\ cs[i].done \in 0 .. descs[i].size
             /\ Writes(descs[i].opcode) => Dest(descs[i]) = Bytes(descs[i].dst, descs[i].size)
             /\ Bytes(descs[i].dst, cs[i].done) \subseteq Bytes(descs[i].dst, descs[i].size)
  <2>1. descs[i] \in Operations /\ descs[i].dst \in Int /\ descs[i].size \in Nat
    BY RemainingInside, Fields
  <2>2. cs[i].done \in 0 .. descs[i].size
    <3>1. RecordFits(descs[i], cs[i])
      OBVIOUS
    <3> QED
      BY <2>1, <3>1 DEF RecordFits
  <2> QED
    BY <2>1, <2>2 DEF Dest, Bytes
<1>4. ASSUME NEW i \in DOMAIN descs, NEW x \in Dest(descs[i]) \cap Mem
      PROVE  Byte(mem, descs[i], x) = expected[x]
  <2>1. expected[x] = Byte(expected, descs[i], x)
    BY DEF DataInv, DescriptorsFit, LeftOf
  <2>2. ASSUME NEW y \in Source(descs[i]) PROVE mem[y] = expected[y]
    <3>1. y \in Mem
      BY RemainingInside DEF SafeDescriptor
    <3>2. \A j \in DOMAIN descs : y \notin Dest(descs[j])
      BY DEF DataInv, DescriptorsFit, LeftOf
    <3> QED
      BY <3>1, <3>2, Settled
  <2>3. Byte(mem, descs[i], x) = Byte(expected, descs[i], x)
    BY <1>3, <2>2, SameByte
  <2> QED
    BY <2>1, <2>3
<1>5. ASSUME NEW x \in Mem, writers(x) # {} PROVE mem'[x] = expected[x]
  <2>1. last(x) \in writers(x)
    BY <1>5
  <2> HIDE DEF last
  <2>2. last(x) \in DOMAIN descs /\ x \in Dest(descs[last(x)])
    BY <1>3, <2>1
  <2>3. mem'[x] = Byte(mem, descs[last(x)], x)
    BY <1>1, <1>5
  <2> QED
    BY <1>4, <2>2, <2>3
<1>6. ASSUME NEW x \in Mem, writers(x) = {} PROVE mem'[x] = mem[x]
  BY <1>1, <1>6
<1> HIDE DEF writers, last
<1>7. mem' \in [Mem -> Int]
  <2>1. \A x \in Mem : mem'[x] \in Int
    BY <1>2, <1>5, <1>6
  <2> QED
    BY <1>1, <2>1
<1>8. DataTypes' /\ ClientWaits' /\ DescriptorsFit'
  <2>1. DataTypes'
    BY <1>1, <1>2, <1>7 DEF DataInv, DataTypes
  <2>2. ClientWaits'
    BY <1>1, <1>2 DEF DataInv, ClientWaits, Independent
  <2>3. DescriptorsFit'
    BY <1>1 DEF DataInv, DescriptorsFit
  <2> QED
    BY <2>1, <2>2, <2>3
<1>9. RestIsRight'
  <2> SUFFICES ASSUME NEW x \in Mem, \A i \in DOMAIN descs : x \notin Remaining(i)'
               PROVE  mem'[x] = expected[x]
    BY <1>1 DEF RestIsRight
  <2>1. CASE writers(x) # {}
    BY <1>5, <2>1
  <2>2. CASE writers(x) = {}
    <3>1. ASSUME NEW i \in DOMAIN descs PROVE x \notin Dest(descs[i])
      <4>1. CASE Writes(descs[i].opcode)
        <5>1. x \notin Bytes(descs[i].dst, cs[i].done)
          BY <2>2, <4>1 DEF writers
        <5>2. Remaining(i)' = Bytes(descs[i].dst + cs[i].done, descs[i].size - cs[i].done)
          BY <1>1, <4>1 DEF Remaining, DoneOf
        <5>3. x \notin Bytes(descs[i].dst + cs[i].done, descs[i].size - cs[i].done)
          BY <5>2
        <5>4. x \in Int
          BY BatchDataAssumption
        <5>5. x \notin Bytes(descs[i].dst, descs[i].size)
          BY <1>3, <5>1, <5>3, <5>4 DEF Bytes
        <5> QED
          BY <1>3, <4>1, <5>5
      <4>2. CASE ~Writes(descs[i].opcode)
        BY <4>2 DEF Dest
      <4> QED
        BY <4>1, <4>2
    <3> QED
      BY <1>6, <2>2, <3>1, Settled
  <2> QED
    BY <2>1, <2>2
<1> QED
  BY <1>1, <1>8, <1>9, NothingTouched DEF DataInv

LEMMA DoneFits ==
  ASSUME NEW d \in Operations
  PROVE  RecordFits(d, Done(d)) /\ RecordFits(d, None) /\ Done(d).status = "SUCCESS"
  BY DEF RecordFits, Done, None

\* A page fault is where the device says it is.
LEMMA FaultFits ==
  ASSUME NEW d \in Operations, SafeDescriptor(d), NEW f \in Faults(d)
  PROVE  RecordFits(d, f)
<1>1. PICK side \in Sides(d), k \in 0 .. d.size - 1 :
        f = Stop(d, side, k) /\ (k = 0 \/ (d[side] + k) % PAGE = 0)
  BY DEF Faults
<1>2. /\ f.status = "PAGE_FAULT" /\ f.done = k /\ f.fault_addr = d[side] + k
      /\ f.wr = (side = "dst" /\ Writes(d.opcode))
  BY <1>1 DEF Stop
<1>3. /\ side \in {"src", "dst"}
      /\ side = "src" => UsesSrc(d.opcode)
      /\ side = "dst" => UsesDst(d.opcode)
  BY DEF Sides
<1>4. d.opcode \in {"MEMMOVE", "MEMFILL", "COMPARE", "CFLUSH"}
  BY <1>3 DEF SafeDescriptor, UsesSrc, UsesDst
<1>5. d.opcode \in {"MEMFILL", "CFLUSH"} => side = "dst"
  BY <1>3 DEF UsesSrc
<1>6. f.wr \in BOOLEAN /\ (f.wr => side = "dst" /\ Writes(d.opcode))
  BY <1>2
<1>7. d.opcode = "MEMFILL" => f.wr
  BY <1>2, <1>5 DEF Writes
<1> QED
  BY <1>1, <1>2, <1>4, <1>5, <1>6, <1>7 DEF RecordFits

LEMMA DeviceDoneStep ==
  ASSUME DataInv, DeviceDone
  PROVE  DataInv' /\ TouchesOwn'
<1> DEFINE cs == [i \in DOMAIN descs |-> Done(descs[i])]
<1>1. batch = "device" /\ batch' = "success" /\ Executes(cs)
  BY DEF DeviceDone
<1>2. \A i \in DOMAIN descs : RecordFits(descs[i], cs[i]) /\ cs[i].status = "SUCCESS"
  BY RemainingInside, DoneFits
<1>3. DOMAIN cs = DOMAIN descs
  OBVIOUS
<1> HIDE DEF cs
<1> QED
  BY <1>1, <1>2, <1>3, ExecuteStep

LEMMA DeviceFaultStep ==
  ASSUME DataInv, DeviceFault
  PROVE  DataInv' /\ TouchesOwn'
<1>1. batch = "device" /\ batch' = "error"
  BY DEF DeviceFault
<1>2. PICK i \in DOMAIN descs, begun \in SUBSET DOMAIN descs : \E f \in Faults(descs[i]) :
        Executes([j \in DOMAIN descs |-> IF j = i THEN f
                                         ELSE IF j \in begun THEN Done(descs[j]) ELSE None])
  BY DEF DeviceFault
<1>3. PICK f \in Faults(descs[i]) :
        Executes([j \in DOMAIN descs |-> IF j = i THEN f
                                         ELSE IF j \in begun THEN Done(descs[j]) ELSE None])
  BY <1>2
<1> DEFINE cs == [j \in DOMAIN descs |-> IF j = i THEN f
                                         ELSE IF j \in begun THEN Done(descs[j]) ELSE None]
<1>4. ASSUME NEW j \in DOMAIN descs PROVE RecordFits(descs[j], cs[j])
  <2>1. descs[j] \in Operations /\ SafeDescriptor(descs[j])
    BY RemainingInside
  <2>2. CASE j = i
    BY <2>1, <2>2, FaultFits
  <2>3. CASE j # i
    BY <2>1, <2>3, DoneFits
  <2> QED
    BY <2>2, <2>3
<1>5. DOMAIN cs = DOMAIN descs /\ Executes(cs)
  BY <1>3
<1> HIDE DEF cs
<1> QED
  BY <1>1, <1>4, <1>5, ExecuteStep

-----------------------------------------------------------------------------
(* Every step. *)

LEMMA DataInit ==
  ASSUME Init
  PROVE  DataInv /\ TouchesOwn
<1>1. /\ mem = Memory /\ expected = Memory /\ descs = <<>> /\ batch = "filling" /\ pc = "idle"
      /\ touches = {} /\ \A i \in DOMAIN <<>> : FALSE
  BY DEF Init
<1>2. DataTypes
  BY <1>1, BatchDataAssumption DEF DataTypes
<1> QED
  BY <1>1, <1>2 DEF DataInv, ClientWaits, DescriptorsFit, LeftOf, RestIsRight, TouchesOwn

LEMMA DataStep ==
  ASSUME SafeRequests, DataInv, TouchesOwn, [Next]_vars
  PROVE  DataInv' /\ TouchesOwn'
<1>1. CASE UNCHANGED vars
  <2>1. UNCHANGED <<mem, descs, comps, batch, pc, req, pending, expected, touches>>
    BY <1>1 DEF vars, engine, ghosts
  <2>2. DataTypes' /\ ClientWaits'
    BY <2>1 DEF DataInv, DataTypes, ClientWaits, Independent
  <2>3. DescriptorsFit' /\ RestIsRight'
    BY <2>1 DEF DataInv, DescriptorsFit, RestIsRight, Remaining, DoneOf
  <2> QED
    BY <2>1, <2>2, <2>3 DEF DataInv, TouchesOwn
<1>2. ASSUME NEW r \in Requests, Submit(r) PROVE DataInv' /\ TouchesOwn'
  BY <1>2, SubmitStep
<1>3. CASE Wait
  BY <1>3, WaitStep
<1>4. CASE Add
  BY <1>4, AddStep
<1>5. CASE Recycle
  BY <1>5, RecycleStep
<1>6. CASE Leave
  BY <1>6, LeaveStep
<1>7. CASE ResolveError
  BY <1>7, ResolveStep
<1>8. CASE DeviceDone
  BY <1>8, DeviceDoneStep
<1>9. CASE DeviceFault
  BY <1>9, DeviceFaultStep
<1> QED
  BY <1>1, <1>2, <1>3, <1>4, <1>5, <1>6, <1>7, <1>8, <1>9 DEF Next, ClientStep, DeviceStep

LEMMA DataInvariant ==
  ASSUME SafeRequests
  PROVE  Spec => [](DataInv /\ TouchesOwn)
<1>1. Init => DataInv /\ TouchesOwn
  BY DataInit
<1>2. DataInv /\ TouchesOwn /\ [Next]_vars => (DataInv /\ TouchesOwn)'
  BY DataStep
<1> QED
  BY <1>1, <1>2, PTL DEF Spec

LEMMA DataInvMemory ==
  ASSUME DataInv
  PROVE  MemoryAsExpected
<1> SUFFICES ASSUME NEW x \in Mem, \A r \in pending : x \notin Dest(r) PROVE mem[x] = expected[x]
  BY DEF MemoryAsExpected
<1>1. \A i \in DOMAIN descs : x \notin Dest(descs[i])
  BY WritesPending
<1> QED
  BY <1>1, Settled

\* Whatever the prefix on the CPU, the padding, the touched pages and the page
\* faults the device stops at, memory is what the accepted operations make of
\* it, but for the destinations of those nobody has waited for (DSAbatch::wait,
\* submit_forward and resolve_error).
THEOREM BatchMemoryCorrect ==
  ASSUME SafeRequests
  PROVE  Spec => []MemoryAsExpected
<1>1. DataInv => MemoryAsExpected
  BY DataInvMemory
<1> QED
  BY <1>1, DataInvariant, PTL

\* Every page that submit_forward or resolve_error touches belongs to the
\* descriptor it is touched for, and is written only when that descriptor
\* writes it.
THEOREM BatchTouchesCorrect ==
  ASSUME SafeRequests
  PROVE  Spec => []TouchesOwn
  BY DataInvariant, PTL

-----------------------------------------------------------------------------
(* The loops of dsa_cpupath.cpp, which stand in for short descriptors. *)

LEMMA Quotient ==
  ASSUME NEW w \in Nat \ {0}, NEW q \in Int, NEW r \in 0 .. w - 1
  PROVE  (w * q + r) \div w = q
<1> DEFINE x == w * q + r
           p == x \div w
<1>1. x \in Int /\ x = w * p + (x % w) /\ p \in Int
  BY DivMod
<1>2. x % w = r
  BY Remainder
<1>3. w * p + r = w * q + r
  BY <1>1, <1>2
<1> HIDE DEF x
<1>4. w * (p - q) = 0
  BY <1>1, <1>3
<1>5. p - q = 0
  BY <1>1, <1>4
<1> QED
  BY <1>1, <1>5 DEF x

\* A quotient is monotone.
LEMMA QuotientMonotone ==
  ASSUME NEW w \in Nat \ {0}, NEW a \in Int, NEW b \in Int, a <= b
  PROVE  a \div w <= b \div w
<1> DEFINE p == a \div w
           q == b \div w
<1>1. a = w * p + (a % w) /\ p \in Int /\ a % w \in 0 .. w - 1
  BY DivMod
<1>2. b = w * q + (b % w) /\ q \in Int /\ b % w \in 0 .. w - 1
  BY DivMod
<1> HIDE DEF p, q
<1>3. w * q + w > w * p
  BY <1>1, <1>2
<1>4. w * (q + 1 - p) > 0 /\ q + 1 - p \in Int
  BY <1>1, <1>2, <1>3
<1>5. q + 1 - p > 0
  BY <1>4
<1> QED
  BY <1>1, <1>2, <1>5 DEF p, q

\* The first of a set of numbers below len.
LEMMA FirstOfLeast ==
  ASSUME NEW len \in Nat, NEW S \in SUBSET Nat, S # {}
  PROVE  FirstOf(S, len) \in S /\ \A j \in S : FirstOf(S, len) <= j
<1>1. PICK k \in S : \A j \in S : k <= j
  <2> DEFINE T == {n \in Nat : \A j \in S : n < j}
  <2> SUFFICES ASSUME \A k \in S : \E j \in S : j < k PROVE FALSE
    OBVIOUS
  <2>1. 0 \in T
    <3>1. ASSUME NEW j \in S PROVE 0 < j
      <4>1. j # 0
        OBVIOUS
      <4> QED
        BY <4>1
    <3> QED
      BY <3>1
  <2>2. \A n \in T : n + 1 \in T
    <3> SUFFICES ASSUME NEW n \in T, NEW j \in S PROVE n + 1 < j
      OBVIOUS
    <3>1. n < j /\ n \in Nat /\ j \in Nat
      OBVIOUS
    <3>2. j # n + 1
      <4> SUFFICES ASSUME j = n + 1 PROVE FALSE
        OBVIOUS
      <4>1. PICK i \in S : i < j
        OBVIOUS
      <4>2. n < i /\ i \in Nat
        OBVIOUS
      <4> QED
        BY <3>1, <4>1, <4>2
    <3> QED
      BY <3>1, <3>2
  <2>3. T = Nat
    <3>1. T \in SUBSET Nat
      OBVIOUS
    <3> HIDE DEF T
    <3> QED
      BY <2>1, <2>2, <3>1, AllNat
  <2>4. PICK k \in S : TRUE
    OBVIOUS
  <2>5. k \in T
    BY <2>3, <2>4
  <2> QED
    BY <2>5
<1> QED
  BY <1>1 DEF FirstOf

LEMMA FirstOfIs ==
  ASSUME NEW len \in Nat, NEW S \in SUBSET Nat, NEW k \in S, \A j \in S : k <= j
  PROVE  FirstOf(S, len) = k
<1> DEFINE x == FirstOf(S, len)
<1>1. x \in S /\ x <= k
  BY FirstOfLeast
<1> HIDE DEF x
<1>2. x \in Nat /\ k \in Nat /\ k <= x
  BY <1>1
<1>3. x = k
  BY <1>1, <1>2
<1> QED
  BY <1>3 DEF x

LEMMA WordPositive == WORD \in Nat \ {0} /\ LINE \in Nat \ {0}
  BY DataPathAssumption

\* The bytes of a region, by words and after the last word.
LEMMA ByWords ==
  ASSUME NEW len \in Nat
  PROVE  LET W == word_cnt(len)
         IN  /\ W \in Nat /\ W * WORD <= len
             /\ \A i \in 0 .. W - 1, j \in 0 .. WORD - 1 :
                  /\ i * WORD + j \in 0 .. len - 1 /\ i * WORD + j < W * WORD
                  /\ (i * WORD + j) \div WORD = i /\ (i * WORD + j) % WORD = j
             /\ \A x \in 0 .. len - 1 :
                  \/ x \in odd_bytes(len)
                  \/ x \div WORD \in 0 .. W - 1
             /\ \A x \in 0 .. len - 1 :
                  x % WORD \in 0 .. WORD - 1 /\ (x \div WORD) * WORD + (x % WORD) = x
<1> DEFINE W == word_cnt(len)
<1> USE WordPositive
<1>1. W \in Nat /\ W * WORD <= len /\ len < W * WORD + WORD
  <2>1. len = WORD * (len \div WORD) + (len % WORD) /\ len \div WORD \in Int /\ len % WORD \in 0 .. WORD - 1
    BY DivMod
  <2>2. 0 \div WORD = 0
    BY Quotient
  <2>3. 0 <= len \div WORD
    BY <2>2, QuotientMonotone
  <2> QED
    BY <2>1, <2>3 DEF word_cnt
<1> HIDE DEF W
<1>2. ASSUME NEW i \in 0 .. W - 1, NEW j \in 0 .. WORD - 1
      PROVE  /\ i * WORD + j \in 0 .. len - 1 /\ i * WORD + j < W * WORD
             /\ (i * WORD + j) \div WORD = i /\ (i * WORD + j) % WORD = j
  <2>1. i \in Nat /\ i + 1 <= W
    BY <1>1
  <2>2. (W - (i + 1)) * WORD >= 0
    BY <1>1, <2>1
  <2>3. i * WORD + WORD <= W * WORD /\ i * WORD \in Nat
    BY <1>1, <2>1, <2>2
  <2>4. i * WORD + j = WORD * i + j
    BY <2>1
  <2>5. (WORD * i + j) \div WORD = i /\ (WORD * i + j) % WORD = j
    BY <2>1, Quotient, Remainder
  <2> QED
    BY <1>1, <2>3, <2>4, <2>5
<1>3. ASSUME NEW x \in 0 .. len - 1
      PROVE  /\ x \in odd_bytes(len) \/ x \div WORD \in 0 .. W - 1
             /\ x % WORD \in 0 .. WORD - 1 /\ (x \div WORD) * WORD + (x % WORD) = x
  <2> DEFINE q == x \div WORD
  <2>1. x = WORD * q + (x % WORD) /\ q \in Int /\ x % WORD \in 0 .. WORD - 1
    BY DivMod
  <2>2. 0 \div WORD = 0 /\ 0 <= q
    BY Quotient, QuotientMonotone
  <2> HIDE DEF q
  <2>3. q * WORD + (x % WORD) = x
    BY <2>1
  <2>4. CASE W * WORD <= x
    BY <2>1, <2>3, <2>4, <1>1 DEF odd_bytes, W, q
  <2>5. CASE x < W * WORD
    <3>1. (W - q) * WORD > 0
      BY <1>1, <2>1, <2>3, <2>5
    <3>2. W - q > 0
      BY <1>1, <2>1, <3>1
    <3> QED
      BY <1>1, <2>1, <2>2, <2>3, <3>2 DEF q
  <2> QED
    BY <1>1, <2>4, <2>5
<1> QED
  BY <1>1, <1>2, <1>3 DEF W

\* The first byte that differs is found by way of the first word that differs.
LEMMA MatchedByWords ==
  ASSUME NEW len \in Nat, NEW bad \in SUBSET (0 .. len - 1), NEW ws \in SUBSET (0 .. word_cnt(len) - 1),
         \A i \in 0 .. word_cnt(len) - 1 :
            i \in ws <=> \E j \in 0 .. WORD - 1 : i * WORD + j \in bad
  PROVE  matched(len, ws, bad) = FirstOf(bad, len)
<1> DEFINE W == word_cnt(len)
<1> USE WordPositive
<1>1. W \in Nat
  BY ByWords
<1>2. CASE ws = {}
  <2>1. ASSUME NEW x \in bad PROVE x \in odd_bytes(len)
    <3> DEFINE q == x \div WORD
               r == x % WORD
    <3>1. r \in 0 .. WORD - 1 /\ q * WORD + r = x /\ (x \in odd_bytes(len) \/ q \in 0 .. W - 1)
      BY ByWords
    <3> HIDE DEF q, r, W
    <3>2. q \in 0 .. W - 1 => q * WORD + r \notin bad
      BY <1>2, <3>1 DEF W
    <3> QED
      BY <3>1, <3>2
  <2>2. bad \intersect odd_bytes(len) = bad
    BY <2>1
  <2> QED
    BY <1>2, <2>2 DEF matched
<1>3. CASE ws # {}
  <2> DEFINE w == FirstOf(ws, len)
             bytes == {w * WORD + j : j \in 0 .. WORD - 1}
             x == FirstOf(bad \intersect bytes, len)
  <2>1. w \in ws /\ \A j \in ws : w <= j
    <3>1. ws \in SUBSET Nat
      BY <1>1
    <3> QED
      BY <1>3, <3>1, FirstOfLeast
  <2> HIDE DEF w
  <2>2. w \in Nat /\ w \in 0 .. W - 1
    BY <1>1, <2>1
  <2>3. bad \intersect bytes # {}
    BY <2>1
  <2>4. bad \in SUBSET Nat /\ bad \intersect bytes \in SUBSET Nat
    <3>1. bad \in SUBSET Nat
      OBVIOUS
    <3> HIDE DEF bytes
    <3> QED
      BY <3>1
  <2>5. x \in bad \intersect bytes /\ \A y \in bad \intersect bytes : x <= y
    BY <2>3, <2>4, FirstOfLeast
  <2> HIDE DEF x
  <2>6. PICK j \in 0 .. WORD - 1 : x = w * WORD + j
    BY <2>5
  <2>7. ASSUME NEW y \in bad PROVE x <= y
    <3> DEFINE q == y \div WORD
               r == y % WORD
    <3>1. r \in 0 .. WORD - 1 /\ q * WORD + r = y /\ y \in 0 .. len - 1
      BY ByWords
    <3>2. CASE y \in odd_bytes(len)
      <4>1. x < W * WORD
        BY ByWords, <2>2, <2>6
      <4> QED
        BY <1>1, <3>2, <4>1, <2>2, <2>6 DEF odd_bytes
    <3>3. CASE q \in 0 .. W - 1
      <4>1. q \in ws
        BY <3>1, <3>3
      <4>2. w <= q /\ q \in Nat
        BY <2>1, <4>1, <1>1
      <4>3. CASE q = w
        <5>1. y \in bytes
          BY <3>1, <4>3
        <5> QED
          BY <2>5, <5>1
      <4>4. CASE w < q
        <5> HIDE DEF q, r
        <5>1. (q - w - 1) * WORD >= 0
          BY <2>2, <4>2, <4>4
        <5>2. q * WORD >= w * WORD + WORD
          BY <2>2, <4>2, <5>1
        <5> QED
          BY <2>2, <2>6, <3>1, <4>2, <5>2
      <4> QED
        BY <2>2, <4>2, <4>3, <4>4
    <3> QED
      BY ByWords, <3>2, <3>3
  <2>8. FirstOf(bad, len) = x
    BY <2>4, <2>5, <2>7, FirstOfIs
  <2> QED
    BY <1>3, <2>8 DEF matched, w, x
<1> QED
  BY <1>2, <1>3

\* Words are compared as wholes: two differ when a byte of them does.
LEMMA CompareRight ==
  ASSUME NEW m, NEW a \in Nat, NEW b \in Nat, NEW len \in Nat
  PROVE  compare_cpu(m, a, b, len) = Match(m, a, b, len)
<1> DEFINE bad == {i \in 0 .. len - 1 : m[a + i] # m[b + i]}
           ws == {i \in 0 .. word_cnt(len) - 1 : word(m, a, i) # word(m, b, i)}
<1>1. ASSUME NEW i \in 0 .. word_cnt(len) - 1
      PROVE  i \in ws <=> \E j \in 0 .. WORD - 1 : i * WORD + j \in bad
  <2>1. \A j \in 0 .. WORD - 1 : i * WORD + j \in 0 .. len - 1
    BY ByWords
  <2>2. word(m, a, i) # word(m, b, i)
          <=> \E j \in 0 .. WORD - 1 : m[a + i * WORD + j] # m[b + i * WORD + j]
    BY DEF word
  <2>3. ASSUME NEW j \in 0 .. WORD - 1
        PROVE  a + i * WORD + j = a + (i * WORD + j) /\ b + i * WORD + j = b + (i * WORD + j)
    <3>1. word_cnt(len) \in Nat /\ i \in Nat /\ i * WORD \in Int /\ j \in Int
      BY ByWords, WordPositive
    <3> HIDE DEF bad, ws
    <3> QED
      BY <3>1
  <2> QED
    BY <2>1, <2>2, <2>3
<1>2. bad \in SUBSET (0 .. len - 1) /\ ws \in SUBSET (0 .. word_cnt(len) - 1)
  OBVIOUS
<1> HIDE DEF bad, ws
<1>3. matched(len, ws, bad) = FirstOf(bad, len)
  BY <1>1, <1>2, MatchedByWords
<1> QED
  BY <1>3 DEF compare_cpu, Match, bad, ws

LEMMA CompvalRight ==
  ASSUME NEW m, NEW a \in Nat, NEW p \in [0 .. WORD - 1 -> Int], NEW len \in Nat
  PROVE  compval_cpu(m, a, p, len) = MatchPattern(m, a, p, len)
<1> DEFINE bad == {i \in 0 .. len - 1 : m[a + i] # p[i % WORD]}
           ws == {i \in 0 .. word_cnt(len) - 1 : word(m, a, i) # p}
<1>1. ASSUME NEW i \in 0 .. word_cnt(len) - 1
      PROVE  i \in ws <=> \E j \in 0 .. WORD - 1 : i * WORD + j \in bad
  <2>1. \A j \in 0 .. WORD - 1 : i * WORD + j \in 0 .. len - 1 /\ (i * WORD + j) % WORD = j
    BY ByWords
  <2>2. word(m, a, i) # p <=> \E j \in 0 .. WORD - 1 : m[a + i * WORD + j] # p[j]
    BY DEF word
  <2>3. ASSUME NEW j \in 0 .. WORD - 1
        PROVE  a + i * WORD + j = a + (i * WORD + j)
    <3>1. word_cnt(len) \in Nat /\ i \in Nat /\ i * WORD \in Int /\ j \in Int
      BY ByWords, WordPositive
    <3> HIDE DEF bad, ws
    <3> QED
      BY <3>1
  <2> QED
    BY <2>1, <2>2, <2>3
<1>2. bad \in SUBSET (0 .. len - 1) /\ ws \in SUBSET (0 .. word_cnt(len) - 1)
  OBVIOUS
<1> HIDE DEF bad, ws
<1>3. matched(len, ws, bad) = FirstOf(bad, len)
  BY <1>1, <1>2, MatchedByWords
<1> QED
  BY <1>3 DEF compval_cpu, MatchPattern, bad, ws

\* Wherever the loop unrolled four times stops, the next one goes on.
LEMMA UnrolledStops ==
  ASSUME NEW w \in Nat
  PROVE  unrolled(w) \in 0 .. w
<1> DEFINE Stops(f) == f = [i \in 0 .. w |-> IF i + 4 < w THEN f[i + 4] ELSE i]
           last == [i \in 0 .. w |-> IF i < w THEN i + 4 * ((w - 1 - i) \div 4) ELSE i]
           from == CHOOSE f : Stops(f)
<1>1. Stops(last)
  <2>1. ASSUME NEW i \in 0 .. w, i + 4 < w PROVE last[i] = last[i + 4]
    <3>1. i + 4 \in 0 .. w /\ i < w
      BY <2>1
    <3>2. (w - 1 - i) \div 4 = (w - 1 - (i + 4)) \div 4 + 1
      BY <2>1
    <3> QED
      BY <2>1, <3>1, <3>2
  <2>2. ASSUME NEW i \in 0 .. w, ~ (i + 4 < w) PROVE last[i] = i
    BY <2>2
  <2> QED
    BY <2>1, <2>2
<1>2. Stops(from)
  <2> HIDE DEF Stops
  <2> QED
    BY <1>1
<1> HIDE DEF last
<1>3. unrolled(w) = from[0]
  BY DEF unrolled
<1> HIDE DEF from
<1>4. from = [i \in 0 .. w |-> IF i + 4 < w THEN from[i + 4] ELSE i]
  BY <1>2
<1> HIDE DEF Stops
<1> DEFINE T == {n \in Nat : \A i \in 0 .. w : w - i <= n => from[i] \in 0 .. w}
<1>5. 0 \in T
  <2>1. ASSUME NEW i \in 0 .. w, w - i <= 0 PROVE from[i] \in 0 .. w
    BY <1>4, <2>1
  <2> QED
    BY <2>1
<1>6. ASSUME NEW n \in T PROVE n + 1 \in T
  <2> SUFFICES ASSUME NEW i \in 0 .. w, w - i <= n + 1 PROVE from[i] \in 0 .. w
    OBVIOUS
  <2>1. CASE i + 4 < w
    <3>1. from[i] = from[i + 4] /\ i + 4 \in 0 .. w /\ w - (i + 4) <= n
      BY <1>4, <2>1
    <3> QED
      BY <3>1
  <2>2. CASE ~ (i + 4 < w)
    BY <1>4, <2>2
  <2> QED
    BY <2>1, <2>2
<1>7. T = Nat
  <2>1. T \in SUBSET Nat
    OBVIOUS
  <2> HIDE DEF T
  <2> QED
    BY <1>5, <1>6, <2>1, AllNat
<1>8. w \in T
  BY <1>7
<1> QED
  BY <1>3, <1>8

LEMMA FillRight ==
  ASSUME NEW m, NEW a \in Nat, NEW p, NEW len \in Nat, DOMAIN m \subseteq Int
  PROVE  memfill_cpu(m, a, p, len) = Fill(m, a, p, len)
<1> DEFINE W == word_cnt(len)
           filled == {i * WORD + j : i \in whole_words(W), j \in 0 .. WORD - 1}
<1> USE WordPositive
<1>1. W \in Nat
  BY ByWords
<1>2. whole_words(W) = 0 .. W - 1
  BY <1>1, UnrolledStops DEF whole_words
<1> HIDE DEF W
<1>3. ASSUME NEW i \in Int PROVE i \in filled \union odd_bytes(len) <=> i \in 0 .. len - 1
  <2>1. ASSUME i \in filled PROVE i \in 0 .. len - 1
    <3>1. PICK k \in 0 .. W - 1, j \in 0 .. WORD - 1 : i = k * WORD + j
      BY <1>2, <2>1
    <3> QED
      BY <3>1, ByWords DEF W
  <2>2. ASSUME i \in odd_bytes(len) PROVE i \in 0 .. len - 1
    <3>1. W * WORD \in Nat
      BY <1>1
    <3> QED
      BY <2>2, <3>1 DEF odd_bytes, W
  <2>3. ASSUME i \in 0 .. len - 1, i \notin odd_bytes(len) PROVE i \in filled
    <3> DEFINE q == i \div WORD
               r == i % WORD
    <3>1. q \in 0 .. W - 1 /\ r \in 0 .. WORD - 1 /\ q * WORD + r = i
      BY <2>3, ByWords DEF W
    <3> HIDE DEF q, r
    <3>2. q \in whole_words(W)
      BY <1>2, <3>1
    <3>3. q * WORD + r \in filled
      BY <3>1, <3>2
    <3> HIDE DEF filled
    <3> QED
      BY <3>1, <3>3
  <2> QED
    BY <2>1, <2>2, <2>3
\* the shift by 8i bits, of a pattern of 8 * WORD bits
<1>4. ASSUME NEW i \in Int PROVE ((i * 8) % (8 * WORD)) \div 8 = i % WORD
  <2> DEFINE q == i \div WORD
             r == i % WORD
  <2>1. i = WORD * q + r /\ q \in Int /\ r \in 0 .. WORD - 1
    BY DivMod
  <2> HIDE DEF q, r
  <2>2. i * 8 = (8 * WORD) * q + 8 * r /\ 8 * r \in 0 .. (8 * WORD) - 1 /\ 8 * WORD \in Nat \ {0}
    BY <2>1
  <2>3. (i * 8) % (8 * WORD) = 8 * r
    <3> DEFINE v == 8 * WORD
               s == 8 * r
    <3>1. v \in Nat \ {0} /\ s \in 0 .. v - 1 /\ i * 8 = v * q + s
      BY <2>2
    <3> HIDE DEF v, s
    <3>2. (v * q + s) % v = s
      BY <2>1, <3>1, Remainder
    <3> QED
      BY <3>1, <3>2 DEF v, s
  <2>4. (8 * r) \div 8 = r
    BY <2>1
  <2> QED
    BY <2>3, <2>4 DEF r
<1>5. ASSUME NEW x \in DOMAIN m
      PROVE  LET i == x - a
             IN  (CASE i \in filled         -> p[i % WORD]
                    [] i \in odd_bytes(len) -> p[((i * 8) % (8 * WORD)) \div 8]
                    [] OTHER                -> m[x])
                 = IF x \in Bytes(a, len) THEN p[(x - a) % WORD] ELSE m[x]
  <2> DEFINE i == x - a
  <2>1. i \in Int /\ (x \in Bytes(a, len) <=> i \in 0 .. len - 1)
    BY DEF Bytes
  <2> HIDE DEF i, filled
  <2>2. (CASE i \in filled         -> p[i % WORD]
           [] i \in odd_bytes(len) -> p[((i * 8) % (8 * WORD)) \div 8]
           [] OTHER                -> m[x])
        = IF i \in 0 .. len - 1 THEN p[i % WORD] ELSE m[x]
    BY <1>3, <1>4, <2>1
  <2> QED
    BY <2>1, <2>2 DEF i
<1> HIDE DEF filled
<1> QED
  BY <1>5 DEF memfill_cpu, Fill, filled, W

\* A line is written back for every LINE bytes up to the end of the last line.
LEMMA FlushLines ==
  ASSUME NEW a \in Nat, NEW len \in Nat
  PROVE  flush_cpu(a, len) = {l \in Nat : a \div LINE <= l /\ l <= (a + len - 1) \div LINE}
<1> DEFINE b == a + len - 1
           s == a \div LINE
           r == a % LINE
           e == b \div LINE
           f == b % LINE
<1> USE WordPositive
<1>1. a = LINE * s + r /\ s \in Int /\ r \in 0 .. LINE - 1
  BY DivMod
<1>2. b \in Int /\ b = LINE * e + f /\ e \in Int /\ f \in 0 .. LINE - 1
  <2>1. b \in Int
    OBVIOUS
  <2> HIDE DEF b
  <2> QED
    BY <2>1, DivMod
<1>3. s \in Nat
  <2>1. 0 \div LINE = 0 /\ 0 \div LINE <= a \div LINE
    BY Quotient, QuotientMonotone
  <2> QED
    BY <1>1, <2>1
<1>4. flush_cpu(a, len) = {(a + k * LINE) \div LINE : k \in {k \in 0 .. len : a + k * LINE <= e * LINE + LINE - 1}}
  BY DEF flush_cpu
<1>5. b = a + len - 1
  OBVIOUS
<1> HIDE DEF b, s, r, e, f
<1>6. ASSUME NEW k \in Nat PROVE (a + k * LINE) \div LINE = s + k
  <2>1. a + k * LINE = LINE * (s + k) + r
    BY <1>1
  <2> QED
    BY <1>1, <2>1, Quotient
<1>7. ASSUME NEW k \in Nat PROVE a + k * LINE <= e * LINE + LINE - 1 <=> s + k <= e
  <2>1. a + k * LINE = (s + k) * LINE + r
    BY <1>1
  <2>2. ASSUME s + k <= e PROVE a + k * LINE <= e * LINE + LINE - 1
    <3>1. (e - (s + k)) * LINE >= 0
      BY <1>1, <1>2, <2>2
    <3>2. (s + k) * LINE <= e * LINE
      BY <1>1, <1>2, <3>1
    <3> QED
      BY <1>1, <1>2, <2>1, <3>2
  <2>3. ASSUME s + k > e PROVE ~ (a + k * LINE <= e * LINE + LINE - 1)
    <3>1. ((s + k) - (e + 1)) * LINE >= 0
      BY <1>1, <1>2, <2>3
    <3>2. (s + k) * LINE >= e * LINE + LINE
      BY <1>1, <1>2, <3>1
    <3> QED
      BY <1>1, <1>2, <2>1, <3>2
  <2> QED
    BY <1>1, <1>2, <2>2, <2>3
\* the region has no more lines than bytes
<1>8. e <= s + len
  <2> SUFFICES ASSUME e > s + len PROVE FALSE
    BY <1>1, <1>2
  <2>1. (e - (s + len + 1)) * LINE >= 0
    BY <1>1, <1>2
  <2>2. e * LINE >= s * LINE + len * LINE + LINE
    BY <1>1, <1>2, <2>1
  <2>3. len * (LINE - 1) >= 0
    OBVIOUS
  <2>4. len * LINE >= len
    BY <2>3
  <2> QED
    BY <1>1, <1>2, <1>5, <2>2, <2>4
<1>9. ASSUME NEW l \in flush_cpu(a, len) PROVE l \in Nat /\ s <= l /\ l <= e
  <2>1. PICK k \in 0 .. len : a + k * LINE <= e * LINE + LINE - 1 /\ l = (a + k * LINE) \div LINE
    BY <1>4
  <2>2. k \in Nat /\ l = s + k /\ s + k <= e
    BY <2>1, <1>6, <1>7
  <2> QED
    BY <2>2, <1>3
<1>10. ASSUME NEW l \in Nat, s <= l, l <= e PROVE l \in flush_cpu(a, len)
  <2> DEFINE k == l - s
  <2>1. k \in 0 .. len /\ s + k = l
    BY <1>2, <1>3, <1>8, <1>10
  <2> HIDE DEF k
  <2>2. k \in Nat /\ (a + k * LINE) \div LINE = l /\ a + k * LINE <= e * LINE + LINE - 1
    <3>1. k \in Nat
      BY <2>1
    <3> QED
      BY <1>6, <1>7, <1>10, <2>1, <3>1
  <2> QED
    BY <1>4, <2>1, <2>2
<1>11. flush_cpu(a, len) = {l \in Nat : s <= l /\ l <= e}
  BY <1>9, <1>10
<1> QED
  BY <1>11 DEF s, e, b

LEMMA FlushRight ==
  ASSUME NEW a \in Nat, NEW len \in Nat
  PROVE  IF len = 0 THEN flush_cpu(a, len) \subseteq {a \div LINE}
         ELSE flush_cpu(a, len) = {x \div LINE : x \in Bytes(a, len)}
<1> DEFINE b == a + len - 1
           s == a \div LINE
           e == b \div LINE
<1> USE WordPositive
<1>1. s \in Int /\ e \in Int /\ b \in Int
  BY DivMod
<1>2. flush_cpu(a, len) = {l \in Nat : s <= l /\ l <= e}
  BY FlushLines
<1>3. CASE len = 0
  <2>1. e <= s
    <3>1. b <= a
      BY <1>3
    <3> QED
      BY <3>1, <1>1, QuotientMonotone
  <2> HIDE DEF s, e
  <2>2. flush_cpu(a, len) \subseteq {s}
    BY <1>1, <1>2, <2>1
  <2> QED
    BY <1>3, <2>2 DEF s
<1>4. CASE len # 0
  <2>1. ASSUME NEW x \in Bytes(a, len) PROVE x \div LINE \in flush_cpu(a, len)
    <3>1. x \in Nat /\ a <= x /\ x <= b
      BY <1>4 DEF Bytes
    <3>2. s <= x \div LINE /\ x \div LINE <= e /\ x \div LINE \in Int
      <4> HIDE DEF b
      <4>1. s <= x \div LINE
        BY <3>1, QuotientMonotone
      <4>0. x \div LINE \in Int
        BY <3>1, DivMod
      <4>2. x \div LINE <= b \div LINE
        BY <1>1, <3>1, QuotientMonotone
      <4> QED
        BY <4>0, <4>1, <4>2
    <3>3. 0 \div LINE = 0 /\ 0 \div LINE <= x \div LINE
      BY <3>1, Quotient, QuotientMonotone
    <3> HIDE DEF s, e
    <3> QED
      BY <1>2, <3>2, <3>3
  <2>2. ASSUME NEW l \in flush_cpu(a, len) PROVE \E x \in Bytes(a, len) : l = x \div LINE
    <3>1. l \in Nat /\ s <= l /\ l <= e
      BY <1>2
    <3>2. CASE l = s
      <4>1. a \in Bytes(a, len)
        BY <1>4 DEF Bytes
      <4> QED
        BY <3>2, <4>1
    <3>3. CASE s < l
      <4> DEFINE x == LINE * l + 0
                 r == a % LINE
                 f == b % LINE
      <4>1. a = LINE * s + r /\ r \in 0 .. LINE - 1 /\ b = LINE * e + f /\ f \in 0 .. LINE - 1
        <5>1. a = LINE * s + r /\ r \in 0 .. LINE - 1
          BY DivMod
        <5> HIDE DEF b
        <5>2. b = LINE * e + f /\ f \in 0 .. LINE - 1
          BY <1>1, DivMod
        <5> QED
          BY <5>1, <5>2
      <4>2. x \div LINE = l /\ x \in Nat
        BY <3>1, Quotient
      <4> HIDE DEF s, e, r, f
      <4>3. LINE * (l - (s + 1)) >= 0 /\ LINE * (e - l) >= 0
        BY <1>1, <3>1, <3>3
      <4>4. LINE * l >= LINE * s + LINE /\ LINE * e >= LINE * l
        BY <1>1, <3>1, <4>3
      <4>5. a <= x /\ x <= b
        BY <1>1, <3>1, <4>1, <4>4
      <4> HIDE DEF x
      <4>6. x \in Bytes(a, len)
        BY <4>2, <4>5 DEF Bytes
      <4> QED
        BY <4>2, <4>6
    <3> QED
      BY <1>1, <3>1, <3>2, <3>3
  <2>3. flush_cpu(a, len) = {x \div LINE : x \in Bytes(a, len)}
    BY <2>1, <2>2
  <2> QED
    BY <1>4, <2>3
<1> QED
  BY <1>3, <1>4

\* What the CPU does with a short operation is what the device would have done.
THEOREM CpuLoopsRight == CpuSpec => []CpuDoesTheSame
<1> DEFINE CpuInv == call \in Calls /\ (out = <<>> \/ out = Result(call))
<1>1. CpuInit => CpuInv
  BY DEF CpuInit
<1>2. CpuInv /\ [CpuNext]_cvars => CpuInv'
  BY DEF CpuNext, cvars
<1>3. CpuInv => CpuDoesTheSame
  <2> SUFFICES ASSUME CpuInv, out # <<>> PROVE CpuDoesTheSame
    BY DEF CpuDoesTheSame
  <2> DEFINE c == call
  <2>1. c.a \in Nat /\ c.b \in Nat /\ c.len \in Nat /\ c.p \in [0 .. WORD - 1 -> Int]
        /\ DOMAIN c.m \subseteq Int
    BY CpuPathAssumption DEF Calls
  <2>2. out.fill = Fill(c.m, c.a, c.p, c.len)
    BY <2>1, FillRight DEF Result
  <2>3. out.compare = Match(c.m, c.a, c.b, c.len)
    BY <2>1, CompareRight DEF Result
  <2>4. out.compval = MatchPattern(c.m, c.a, c.p, c.len)
    BY <2>1, CompvalRight DEF Result
  <2>5. IF c.len = 0 THEN out.flush \subseteq {c.a \div LINE}
        ELSE out.flush = {x \div LINE : x \in Bytes(c.a, c.len)}
    BY <2>1, FlushRight DEF Result
  <2> QED
    BY <2>2, <2>3, <2>4, <2>5 DEF CpuDoesTheSame
<1> QED
  BY <1>1, <1>2, <1>3, PTL DEF CpuSpec
=============================================================================

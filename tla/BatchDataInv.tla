---------------------------- MODULE BatchDataInv -----------------------------
(***************************************************************************)
(* Why the memory is right: the inductive invariant of BatchData.  Every   *)
(* descriptor is what is left of an operation nobody has waited for, its   *)
(* sources are not written meanwhile, and all bytes that no descriptor has *)
(* yet to write hold what they should.                                     *)
(***************************************************************************)
EXTENDS BatchData

OneByte(p) == \A i, j \in 0 .. WORD - 1 : p[i] = p[j]

\* Side tells a fault of the destination of d, or of what is left of d, from
\* one of its source.
TellsSides(d) ==
  \A k \in 0 .. d.size - 1 :
    ((IF d.opcode = "MEMMOVE" THEN d.src + k ELSE d.src) + PAGE - 1) \div PAGE # (d.dst + k) \div PAGE

\* What the CPU writes of an operation.
ByCpu(r) == IF ShortToCpu(r) THEN r.size ELSE Prefix(r)

Source(d) == IF d.opcode = "MEMMOVE" THEN Bytes(d.src, d.size) ELSE {}

\* The requests for which the memory is right: moves between disjoint regions
\* that are not shorter than their prefix, fills from a word boundary or with one
\* byte, whose prefix is whole words or, with one byte, no shorter than a word
\* (new_pattern rotates the wrong way), and faults that Side attributes to the
\* right operand (the run batch_touch_source shows why).  A
\* fault in a comparison with a pattern has the pattern touched.
SafeRequest(r) ==
  /\ r.opcode \in {"MEMMOVE", "MEMFILL", "COMPARE", "CFLUSH"}
  /\ r.opcode = "MEMMOVE" => Source(r) \subseteq Mem /\ Source(r) \cap Dest(r) = {}
  /\ r.opcode \in {"MEMMOVE", "MEMFILL"} => ByCpu(r) <= r.size
  /\ r.opcode = "MEMFILL" /\ ~ShortToCpu(r) =>
       \/ Prefix(r) % WORD = 0 /\ r.dst % WORD = 0
       \/ OneByte(r.pat) /\ (Prefix(r) % WORD = 0 \/ Prefix(r) >= WORD)
  /\ r.opcode # "COMPARE" /\ ~ShortToCpu(r) => TellsSides(Rest(r))

SafeRequests == \A r \in Requests : SafeRequest(r)

-----------------------------------------------------------------------------
SafeDescriptor(d) ==
  /\ d.opcode # "COMPVAL"
  /\ Source(d) \subseteq Mem
  /\ d.opcode = "MEMFILL" => d.dst % WORD = 0 \/ OneByte(d.pat)
  /\ d.opcode \in {"MEMMOVE", "MEMFILL", "CFLUSH"} => TellsSides(d)

\* The completion record of d says where the device stopped.
RecordFits(d, c) ==
  /\ c.status \in {"NONE", "SUCCESS", "PAGE_FAULT"}
  /\ c.status = "NONE" => c.done = 0
  /\ c.status = "SUCCESS" => c.done = d.size
  /\ c.status = "PAGE_FAULT" =>
       /\ c.done \in 0 .. d.size - 1 /\ c.wr \in BOOLEAN
       /\ d.opcode = "MEMFILL" => c.wr /\ (c.done = 0 \/ (d.dst + c.done) % PAGE = 0)
       /\ c.wr => Writes(d.opcode)
       /\ c.wr \/ d.opcode = "CFLUSH" => c.fault_addr = d.dst + c.done
       /\ d.opcode \in {"MEMMOVE", "MEMFILL", "COMPARE", "CFLUSH"}

DataTypes ==
  /\ mem \in [Mem -> Int] /\ expected \in [Mem -> Int]
  /\ descs \in Seq(Operations)
  /\ batch \in {"filling", "device", "error", "success"} /\ pc \in {"idle", "submit", "add", "wait"}
  /\ batch = "filling" => Len(descs) < batch_siz
  /\ batch # "filling" => DOMAIN comps = DOMAIN descs
  /\ batch \in {"device", "success"} =>
       \A i \in DOMAIN descs : comps[i].status = IF batch = "device" THEN "NONE" ELSE "SUCCESS"

\* Where the client is.
ClientWaits ==
  /\ pc \in {"submit", "add"} => req \in Requests /\ Independent(req)
  /\ pc = "add" => batch = "filling"
  /\ pc = "wait" /\ batch = "filling" => descs = <<>>

\* Bytes of descriptor i the device has done.
DoneOf(i) == IF batch = "filling" THEN 0 ELSE comps[i].done

\* Bytes that descriptor i has yet to write.
Remaining(i) ==
  IF Writes(descs[i].opcode)
    THEN Bytes(descs[i].dst + DoneOf(i), descs[i].size - DoneOf(i)) ELSE {}

\* The descriptors ds are what is left of operations in ops, none writes what
\* another one reads, and m is memory when all of them are over.
LeftOf(ds, ops, m) ==
  \A i \in DOMAIN ds :
    /\ SafeDescriptor(ds[i])
    /\ Writes(ds[i].opcode) =>
         \E p \in ops : Dest(ds[i]) \subseteq Dest(p) /\ Source(ds[i]) \subseteq Operands(p)
    /\ \A j \in DOMAIN ds : Dest(ds[i]) \cap Source(ds[j]) = {}
    /\ \A x \in Dest(ds[i]) \cap Mem : m[x] = Byte(m, ds[i], x)

DescriptorsFit ==
  /\ LeftOf(descs, pending, expected)
  /\ batch # "filling" => \A i \in DOMAIN descs : RecordFits(descs[i], comps[i])

RestIsRight ==
  \A x \in Mem : (\A i \in DOMAIN descs : x \notin Remaining(i)) => mem[x] = expected[x]

DataInv == DataTypes /\ ClientWaits /\ DescriptorsFit /\ RestIsRight
=============================================================================

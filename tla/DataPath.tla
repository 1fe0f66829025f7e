------------------------------ MODULE DataPath ------------------------------
(***************************************************************************)
(* What the operations do to memory: the device's semantics of a           *)
(* descriptor, the prefix that the CPU handles when destinations are       *)
(* aligned (DESCS_ADDRESS_ALIGNMENT), the CPU versions of short operations *)
(* and page touching.  Memory is a function from addresses to bytes; a     *)
(* store outside its domain is lost, so models leave a margin around the   *)
(* buffers.  A 64-bit pattern is a sequence of bytes indexed from 0, the   *)
(* lowest first.                                                           *)
(***************************************************************************)
EXTENDS Integers

CONSTANTS
  WORD,     \* bytes of a pattern (8)
  LINE,     \* bytes of a cache line, the unit of alignment (64)
  PAGE      \* bytes of a page (4096)

ASSUME DataPathAssumption ==
  /\ WORD \in Nat \ {0} /\ LINE \in Nat \ {0} /\ PAGE \in Nat \ {0}
  /\ LINE % WORD = 0 /\ PAGE % LINE = 0

\* The operands of an opcode.
UsesSrc(op) == op \in {"MEMMOVE", "COMPARE", "COMPVAL"}
UsesDst(op) == op \in {"MEMMOVE", "MEMFILL", "COMPARE", "CFLUSH"}
Writes(op)  == op \in {"MEMMOVE", "MEMFILL"}

Min2(a, b) == IF a < b THEN a ELSE b

\* len bytes from address a on.
Bytes(a, len) == a .. a + len - 1

\* What a fill, and a copy, of len bytes does: pattern p repeated from a on,
\* the bytes at s as they were before.  memfill_cpu shifts its pattern by 8i bits
\* for the last bytes; the shift instruction of the build takes that modulo 64.
Fill(mem, a, p, len) ==
  [x \in DOMAIN mem |-> IF x \in Bytes(a, len) THEN p[(x - a) % WORD] ELSE mem[x]]
Copy(mem, d, s, len) ==
  [x \in DOMAIN mem |-> IF x \in Bytes(d, len) THEN mem[s + (x - d)] ELSE mem[x]]

\* Length of the common prefix of two regions, and of a region and a pattern.
FirstOf(S, len) == IF S = {} THEN len ELSE CHOOSE i \in S : \A j \in S : i <= j
Match(mem, a, b, len) ==
  FirstOf({i \in 0 .. len - 1 : mem[a + i] # mem[b + i]}, len)
MatchPattern(mem, a, p, len) ==
  FirstOf({i \in 0 .. len - 1 : mem[a + i] # p[i % WORD]}, len)

-----------------------------------------------------------------------------
(* The prefix up to the next cache line. *)

align64_diff(dest) == IF dest % LINE = 0 THEN 0 ELSE LINE - (dest % LINE)

\* ( pattern >> ( 64 - 8n ) ) | ( pattern << 8n ), 0 < n < 8.
new_pattern(p, n) == [j \in 0 .. WORD - 1 |-> p[(j - n) % WORD]]

\* *(uint64_t*)a = p
Store(mem, a, p) == Fill(mem, a, p, WORD)

fill_diff(dest, len) == Min2(len, align64_diff(dest))

\* The fill of d prefix bytes: whole words of the pattern, then one word of the
\* rotated pattern that ends where the prefix ends.
fill_prefix(mem, dest, p, d) ==
  LET words == Fill(mem, dest, p, WORD * (d \div WORD))
  IN  IF d % WORD = 0 THEN words
      ELSE Store(words, dest + d - WORD, new_pattern(p, d % WORD))

\* The pattern the descriptor gets.
rest_pattern(p, d) == IF d % WORD = 0 THEN p ELSE new_pattern(p, d % WORD)

-----------------------------------------------------------------------------
\* Addresses touch_trigger_pf visits: one per page from a on, and the last one.
Touched(a, len) ==
  {x \in Bytes(a, len) : (x - a) % PAGE = 0} \union {a + len - 1}

\* Touching for write stores a zero.
touch_trigger_pf(mem, a, len, wr) ==
  [x \in DOMAIN mem |-> IF wr /\ x \in Touched(a, len) THEN 0 ELSE mem[x]]
=============================================================================

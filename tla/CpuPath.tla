------------------------------- MODULE CpuPath -------------------------------
(***************************************************************************)
(* The loops with which the CPU does an operation                          *)
(* (src/src/details/dsa_cpupath.cpp): by words, then byte by byte, as      *)
(* functions of memory, compared with the operators of DataPath that the   *)
(* other modules use for them.                                             *)
(***************************************************************************)
EXTENDS DataPath

CONSTANTS Regions, Lengths, Memories, Patterns  \* addresses, lengths, contents and patterns

ASSUME CpuPathAssumption ==
  /\ Regions \subseteq Nat /\ Lengths \subseteq Nat
  /\ Patterns \subseteq [0 .. WORD - 1 -> Int]
  /\ \A m \in Memories : DOMAIN m \subseteq Int

VARIABLES call, out       \* a call and its result; <<>>: none yet
cvars == <<call, out>>

word(m, a, i) == [j \in 0 .. WORD - 1 |-> m[a + i * WORD + j]]
word_cnt(len) == len \div WORD
odd_bytes(len) == word_cnt(len) * WORD .. len - 1

\* The index at which the loop unrolled four times stops.
unrolled(w) ==
  LET from[i \in 0 .. w] == IF i + 4 < w THEN from[i + 4] ELSE i IN from[0]

\* Mutant of whole_words: the loop over the words that are left starts late.
whole_words_Late(w) == (0 .. unrolled(w) - 1) \union (unrolled(w) + 1 .. w - 1)
whole_words(w) == (0 .. unrolled(w) - 1) \union (unrolled(w) .. w - 1)

\* The pattern is shifted by 8i bits, i up to len - 1: C++ leaves a shift by the
\* width of the word or more undefined (dsa_cpupath.cpp:24, 63).  Here it is modulo
\* that width, as the processor does it.
memfill_cpu(m, dest, p, len) ==
  LET filled == {i * WORD + j : i \in whole_words(word_cnt(len)), j \in 0 .. WORD - 1}
  IN  [x \in DOMAIN m |-> LET i == x - dest IN
         CASE i \in filled         -> p[i % WORD]
           [] i \in odd_bytes(len) -> p[((i * 8) % (8 * WORD)) \div 8]
           [] OTHER                -> m[x]]

\* The matched length, given the words and the bytes that differ: a byte of the
\* first such word, or one after the last word.
matched(len, ws, bad) ==
  FirstOf(bad \intersect
            IF ws = {} THEN odd_bytes(len)
                       ELSE {FirstOf(ws, len) * WORD + j : j \in 0 .. WORD - 1}, len)

compare_cpu(m, a, b, len) ==
  matched(len, {i \in 0 .. word_cnt(len) - 1 : word(m, a, i) # word(m, b, i)},
          {i \in 0 .. len - 1 : m[a + i] # m[b + i]})

compval_cpu(m, a, p, len) ==
  matched(len, {i \in 0 .. word_cnt(len) - 1 : word(m, a, i) # p},
          {i \in 0 .. len - 1 : m[a + i] # p[i % WORD]})

\* The lines written back; one at least, unless the region is empty and aligned.
flush_cpu(a, len) ==
  LET endline == ((a + len - 1) \div LINE) * LINE + LINE - 1
  IN  {(a + k * LINE) \div LINE : k \in {k \in 0 .. len : a + k * LINE <= endline}}

-----------------------------------------------------------------------------
Calls == [m : Memories, a : Regions, b : Regions, len : Lengths, p : Patterns]

Result(c) ==
  [fill |-> memfill_cpu(c.m, c.a, c.p, c.len), compare |-> compare_cpu(c.m, c.a, c.b, c.len),
   compval |-> compval_cpu(c.m, c.a, c.p, c.len), flush |-> flush_cpu(c.a, c.len)]

CpuInit == call \in Calls /\ out = <<>>
CpuNext == out = <<>> /\ out' = Result(call) /\ UNCHANGED call
CpuSpec == CpuInit /\ [][CpuNext]_cvars

\* The loops do what the descriptor they stand in for does: the same bytes, the
\* same matched length, whatever the alignment and the odd bytes at the end,
\* and the lines that are written back are those of the region.
CpuDoesTheSame ==
  out # <<>> =>
    LET c == call  lines == {x \div LINE : x \in Bytes(c.a, c.len)}
    IN  /\ out.fill = Fill(c.m, c.a, c.p, c.len)
        /\ out.compare = Match(c.m, c.a, c.b, c.len)
        /\ out.compval = MatchPattern(c.m, c.a, c.p, c.len)
        /\ IF c.len = 0 THEN out.flush \subseteq {c.a \div LINE} ELSE out.flush = lines
=============================================================================

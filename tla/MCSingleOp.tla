----------------------------- MODULE MCSingleOp -----------------------------
(***************************************************************************)
(* Small memories and requests for SingleOp: bytes are their own addresses *)
(* (every misplaced byte shows), or repeat the pattern but for a byte.     *)
(***************************************************************************)
EXTENDS SingleOpInv

MCMem == 1 .. 44
Distinct == [a \in MCMem |-> 100 + a]
Periodic == [a \in MCMem |-> CASE a \in {13, 37} -> 9
                               [] a \in 30 .. 44 \ {37} -> 7
                               [] OTHER -> 1 + (a % WORD)]
MCMemories == {Distinct, Periodic}
MCDistinct == {Distinct}
MCPeriodic == {Periodic}

Pat == [j \in 0 .. WORD - 1 |-> 1 + j]
Uniform == [j \in 0 .. WORD - 1 |-> 7]
\* What Periodic holds from address 6 on.
Shifted == [j \in 0 .. WORD - 1 |-> 1 + ((6 + j) % WORD)]

R(op, dest, src, len, p) == [opcode |-> op, dest |-> dest, src |-> src, len |-> len, pat |-> p]

\* Comparisons that stay in step, with the regions alike or not.
Compares == {R("COMPARE", 20, 4, len, Pat) : len \in {7, 16}}
            \union {R("COMPVAL", 0, 4, len, Pat) : len \in {9, 16}}
            \union {R("COMPVAL", 0, 30, 9, Uniform)}
\* Those a page boundary brings out of step.
UnalignedCompares == {R("COMPVAL", 0, 6, len, Shifted) : len \in {7, 9}}
Flush == {R("CFLUSH", 21, 0, 10, Pat)}

\* A region that ends outside of memory: the device rejects it.
OutOfMemory == R("COMPARE", 40, 4, 12, Pat)

\* Any address for moves and for fills with one byte; word-aligned
\* destinations for the other fills.
MCRequests ==
  {R("MEMMOVE", 22, 3, len, Pat) : len \in {3, 13}}
  \union {R("MEMFILL", 24, 0, 14, Pat), R("MEMFILL", 21, 0, 9, Uniform)}
  \union Compares \union Flush \union {R("COMPVAL", 0, 6, 9, Shifted)}

\* The same for the optimised build: what is not short is longer than its prefix.
\* The prefix of a fill is whole words, or the pattern is rotated by half of it.
MCAlignedRequests ==
  {R("MEMMOVE", 22, 3, len, Pat) : len \in {2, 14}} \union {R("MEMMOVE", 24, 3, 18, Pat)}
  \union {R("MEMFILL", 20, 0, len, Pat) : len \in {2, 17}}
  \union {R("MEMFILL", 24, 0, 18, Uniform), R("MEMFILL", 19, 0, 9, Uniform),
          R("MEMFILL", 18, 0, 17, Pat)}
  \union Compares \union Flush \union {R("COMPVAL", 0, 6, 9, Shifted), OutOfMemory}

UnalignedFill == {R("MEMFILL", 21, 0, 14, Pat)}
=============================================================================

---------------------------- MODULE MCBatchData -----------------------------
(* Operations for BatchData.  Bytes are different at first, but for the     *)
(* low ones, which repeat so that a comparison has something to do.         *)
EXTENDS BatchDataInv

MCMem     == 1 .. 64
MCMemory  == [a \in MCMem |-> 100 + (IF a <= 21 THEN a % 7 ELSE a)]
MCPattern == 1000

Pat(p) == [j \in 0 .. WORD - 1 |-> p + j]
R(op, dst, src, size) == [opcode |-> op, dst |-> dst, src |-> src, size |-> size, pat |-> Pat(1)]

\* Moves whose source and destination are pages apart, fills of whole words and
\* one of a single byte, comparisons and flushes, aligned and not, shorter and
\* longer than a page.
Far == {R("MEMMOVE", 42, 3, 19), R("MEMMOVE", 42, 3, 2), R("MEMFILL", 28, MCPattern, 13),
        R("MEMFILL", 62, MCPattern, 2), R("COMPARE", 10, 3, 12), R("CFLUSH", 50, 0, 5),
        [R("MEMFILL", 26, MCPattern, 13) EXCEPT !.pat = [j \in 0 .. WORD - 1 |-> 5]]}

\* A move whose destination begins in the page after the start of its source.
Near == {R("MEMMOVE", 24, 17, 7)}
=============================================================================

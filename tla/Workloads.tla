------------------------------ MODULE Workloads -------------------------------
(***************************************************************************)
(* The lists of copies the speed tests of expr/ make, as functions of      *)
(* their command line and of what rand() and random_shuffle() return.      *)
(* Sizes are in units of the smallest copy; a list is a sequence of        *)
(* OffLen, off_src and off_dest being offsets in two arrays.               *)
(***************************************************************************)
EXTENDS Integers, SequencesExt

CONSTANTS BIG_LEN, SMALL_LEN, COPY_LEN,
          bsiz,               \* descriptors of a batch
          array_len,
          INT_RANGE           \* 2^32: the values of an int

OffLen(src, dest, len) == [src |-> src, dest |-> dest, len |-> len]

\* big_cnt big ones, small_cnt small ones, and again.
IsBig(k, big_cnt, small_cnt) == (k - 1) % (big_cnt + small_cnt) < big_cnt

\* n extents one after the other, from offset 0.
Laid(n, big_at(_)) ==
  LET len(k) == IF big_at(k) THEN BIG_LEN ELSE SMALL_LEN
  IN  [k \in 1 .. n |-> LET off == MapThenSumSet(len, 1 .. k - 1) IN OffLen(off, off, len(k))]

OfLen(l, s) == SelectSeq(s, LAMBDA e : e.len = l)
Shuffles(s) == SetToSeqs(ToSet(s))

\* The next big one or the next small one, by position.
Dealt(n, big, small, big_at(_)) ==
  [k \in 1 .. n |-> LET bigs == Cardinality({j \in 1 .. k : big_at(j)})
                    IN  IF big_at(k) THEN big[bigs] ELSE small[k - bigs]]

\* Mutant of Part: the loop ends one early.
Part_Short(s, from, to) == SubSeq(s, from + 1, to - 1)
Part(s, from, to) == SubSeq(s, from + 1, to)
MinOf(a, b) == IF a < b THEN a ELSE b

-----------------------------------------------------------------------------
(* pipeline_mc.cpp: mix_len > 0, else the loops do not end.                *)

Mixed(small_cnt, big_cnt, desc_cnt, mix_len) ==
  LET seg == mix_len \div (big_cnt + small_cnt)
      big_at(k) == IsBig(k, seg * big_cnt, seg * small_cnt)
      all == Laid(desc_cnt, big_at)
  IN  {Dealt(desc_cnt, b, s, big_at) :
         b \in Shuffles(OfLen(BIG_LEN, all)), s \in Shuffles(OfLen(SMALL_LEN, all))}

Lists(small_cnt, big_cnt, desc_cnt) ==
  LET all == Laid(desc_cnt, LAMBDA k : IsBig(k, big_cnt, small_cnt))
  IN  Shuffles(OfLen(BIG_LEN, all)) \X Shuffles(OfLen(SMALL_LEN, all))

(* pipeline_mc_plus.cpp: mix_big and mix_small in turn while there are both. *)

Plus(l, mix_small, mix_big) ==
  LET big == l[1]  small == l[2]
      after[b \in 0 .. Len(big), s \in 0 .. Len(small)] ==
        IF b = Len(big) \/ s = Len(small)
        THEN Part(big, b, Len(big)) \o Part(small, s, Len(small))
        ELSE LET b1 == MinOf(b + mix_big, Len(big))  s1 == MinOf(s + mix_small, Len(small))
             IN  Part(big, b, b1) \o Part(small, s, s1) \o after[b1, s1]
  IN  after[0, 0]

(* pipeline_mc_plus_inbatch.cpp: the same, but inside a batch, which has     *)
(* half of each; the list ends with the big ones.                            *)

InBatch(l, mix_small, mix_big) ==
  LET big == l[1]  small == l[2]  half == bsiz \div 2
      batch[b \in 0 .. Len(big), s \in 0 .. Len(small), x \in 0 .. half, y \in 0 .. half] ==
        LET x1 == MinOf(MinOf(x + mix_big, half), Len(big) - b)
            y1 == MinOf(MinOf(y + mix_small, half), Len(small) - s)
            rest(u, v) == Part(big, b + u, MinOf(b + half, Len(big)))
                            \o Part(small, s + v, MinOf(s + half, Len(small)))
        IN  IF bsiz - x - y < mix_big + mix_small \/ half \in {x, y} THEN rest(x, y)
            ELSE Part(big, b + x, b + x1) \o Part(small, s + y, s + y1)
                   \o (IF b + x1 = Len(big) \/ s + y1 = Len(small) THEN rest(x1, y1)
                       ELSE batch[b, s, x1, y1])
      from[b \in 0 .. Len(big)] ==
        IF b = Len(big) THEN <<>>
        ELSE batch[b, MinOf(b, Len(small)), 0, 0] \o from[MinOf(b + half, Len(big))]
  IN  from[0]

(* in_batch_pipe.cpp: groups of bsiz, mixed or one size after the other.   *)

Workload(small_cnt, big_cnt, group_cnt, is_divide) ==
  LET in(k) == ((k - 1) % bsiz) + 1
      group_big == Cardinality({k \in 1 .. bsiz : IsBig(k, big_cnt, small_cnt)})
      group_small == bsiz - group_big
      all == Laid(group_cnt * bsiz, LAMBDA k : in(k) > group_small)
      big_at(k) == CASE is_divide = 0 -> IsBig(in(k), big_cnt, small_cnt)
                     [] is_divide = 1 -> in(k) <= group_big
                     [] is_divide = 2 -> in(k) > group_small
  IN  Dealt(group_cnt * bsiz, OfLen(BIG_LEN, all), OfLen(SMALL_LEN, all), big_at)

-----------------------------------------------------------------------------
(* alignment_speed.cpp: from the start again at the end of the array.      *)
Testset(desc_cnt, transfer_size) ==
  LET off(i) == ((i - 1) % (array_len \div transfer_size)) * transfer_size
  IN  [i \in 1 .. desc_cnt |-> OffLen(off(i), off(i), transfer_size)]

(* DSA_speed.cpp: all of the array, in order or not.                       *)
Accesses(transfer_size) ==
  LET all == Testset(array_len \div transfer_size, transfer_size) IN {all} \union Shuffles(all)

\* How far their check reads: an int holds min( tot_xfersize , array_len ).
Checked(tot_xfersize) ==
  LET lim == MinOf(tot_xfersize, array_len) % INT_RANGE
  IN  0 .. (IF lim < INT_RANGE \div 2 THEN lim ELSE lim - INT_RANGE) - 1

(* diff_desc_same_mem.cpp *)
CopySet(tdesc) == [i \in 1 .. tdesc |-> OffLen(0, 0, COPY_LEN)]

(* engine_ooo.cpp *)
Strided(desc_cnt, stride) ==
  LET off[i \in 1 .. desc_cnt] ==
        IF i = 1 THEN 0 ELSE LET o == off[i - 1] + stride IN IF o + COPY_LEN >= array_len THEN 0 ELSE o
  IN  [i \in 1 .. desc_cnt |-> OffLen(off[i], off[i], COPY_LEN)]

(* motivation.cpp: lens[i] bytes from srcs[i], the source chosen freely.   *)
Ranges(first, lens, srcs) ==
  LET n == Len(lens)
      off[i \in 1 .. n] == LET o == IF i = 1 THEN first ELSE off[i - 1] + lens[i - 1]
                           IN  IF o + lens[i] > array_len THEN 0 ELSE o
  IN  [i \in 1 .. n |-> OffLen(srcs[i] % (array_len - lens[i]), off[i], lens[i])]
=============================================================================

----------------------------- MODULE Allocator -----------------------------
(***************************************************************************)
(* DSAallocator: the pool from which descriptors and completion records of *)
(* a work queue are taken.  (src/src/details/dsa_allocator.cpp)            *)
(*                                                                         *)
(* A segment tree over the bytes of the pool keeps, for the interval of    *)
(* each node, the length of its longest free run and of the free runs at   *)
(* its two ends.  A node whose whole interval was taken or freed carries a *)
(* push_down mark, and what lies below it is out of date until push_down   *)
(* passes the mark on.                                                     *)
(*                                                                         *)
(* A node at level k is one of 2^k bytes.  The recursions of the code go   *)
(* down the levels and are recursive functions of the level.               *)
(***************************************************************************)
EXTENDS Integers, FiniteSetsExt

CONSTANTS
  pool_size,     \* bytes of the pool
  UNIT,          \* bytes of a leaf (32)
  Sizes,         \* what clients ask for
  Alignments,
  Unwritten,     \* what malloc leaves in a node
  MaxCalls       \* bound: calls of allocate()

Pow2[k \in Nat] == IF k = 0 THEN 1 ELSE 2 * Pow2[k - 1]
PowerOfTwo(x) == \E k \in 0 .. x : x = Pow2[k]

\* Nodes down to the bytes; the array of the code has those down to the leaves.
Ids   == 1 .. 2 * pool_size - 1
Node  == [l_len : Int, r_len : Int, len : Int, push_down : BOOLEAN, pd_flag : BOOLEAN]
Trees == [Ids -> Node]

\* alloc_descs (dsa_batch_task.cpp:117-123) asks for alignments of 32 and 64.
ASSUME AllocatorAssumption ==
  /\ pool_size \in Nat /\ UNIT \in Nat /\ UNIT >= 2 /\ pool_size > UNIT
  /\ PowerOfTwo(pool_size) /\ PowerOfTwo(UNIT)
  /\ Sizes \subseteq Nat /\ MaxCalls \in Nat /\ Unwritten \in Node
  /\ Alignments \subseteq Nat /\ \A a \in Alignments : PowerOfTwo(a) /\ a % UNIT = 0

nullptr == -1                     \* nullptr, and the -1 of _find
leaf_cnt == pool_size \div UNIT
levels   == CHOOSE k \in 0 .. pool_size : Pow2[k] = pool_size

VARIABLES
  node,         \* the tree
  this_len,     \* leaves of the block that starts at a leaf
  used_size,
  live,         \* blocks handed out: their first bytes and sizes
  request, ret, \* the last call, if it was an allocate(), and its result
  calls         \* counter of the bound

avars == <<node, this_len, used_size, live, request, ret, calls>>

-----------------------------------------------------------------------------
(* The tree. *)

Mid(lf, rg) == (lf + rg) \div 2
MaxOf(a, b) == IF a > b THEN a ELSE b

mark_node(n, id, pd_flag, node_len) ==
  LET free == IF pd_flag THEN 0 ELSE node_len
  IN  [n EXCEPT ![id] = [l_len |-> free, r_len |-> free, len |-> free,
                         push_down |-> TRUE, pd_flag |-> pd_flag]]

push_down(n, id, lf, rg) ==
  IF ~n[id].push_down THEN n
  ELSE LET mid   == Mid(lf, rg)
           left  == mark_node(n, 2 * id, n[id].pd_flag, mid - lf + 1)
           right == mark_node(left, 2 * id + 1, n[id].pd_flag, rg - mid)
       IN  [right EXCEPT ![id].push_down = FALSE]

\* Mutant of update_node: runs across the middle are not seen.
update_node_NoMiddle(n, id, lf, rg) ==
  LET l == n[2 * id]
      r == n[2 * id + 1]
  IN  [n EXCEPT ![id].l_len = l.l_len, ![id].r_len = r.r_len, ![id].len = MaxOf(l.len, r.len)]

update_node(n, id, lf, rg) ==
  LET mid == Mid(lf, rg)
      l   == n[2 * id]
      r   == n[2 * id + 1]
  IN  [n EXCEPT
         ![id].l_len = l.l_len + (IF l.l_len = mid - lf + 1 THEN r.l_len ELSE 0),
         ![id].r_len = r.r_len + (IF r.r_len = rg - mid THEN l.r_len ELSE 0),
         ![id].len   = MaxOf(MaxOf(l.len, r.len), l.r_len + r.l_len)]

\* _alloc (taken) and _dealloc (free) of L .. R differ in the mark only.  A byte
\* that is reached is in the range.
marking(L, R, taken) ==
  LET mark[k \in Nat] == [n \in Trees |-> [id \in Ids |-> [lf \in Nat |->
        LET rg  == lf + Pow2[k] - 1
            mid == Mid(lf, rg)
            n0  == push_down(n, id, lf, rg)
            n1  == IF L <= mid THEN mark[k - 1][n0][2 * id][lf] ELSE n0
            n2  == IF R > mid THEN mark[k - 1][n1][2 * id + 1][mid + 1] ELSE n1
        IN  IF k = 0 \/ (L <= lf /\ rg <= R) THEN mark_node(n, id, taken, rg - lf + 1)
            ELSE update_node(n2, id, lf, rg)]]]
  IN  mark

mark_range(n, L, R, taken) == marking(L, R, taken)[levels][n][1][0]

\* _find: the first byte of a free run of size bytes, and the tree it leaves.
\* As written, "rg - lf == 32" holds of no node, because a leaf spans UNIT - 1;
\* size is at least UNIT, so that no byte passes the first test.
finding(size) ==
  LET find[k \in Nat] == [n \in Trees |-> [id \in Ids |-> [lf \in Nat |->
        LET rg  == lf + Pow2[k] - 1
            mid == Mid(lf, rg)
            m   == push_down(n, id, lf, rg)
            l   == m[2 * id]
            r   == m[2 * id + 1]
        IN  IF k = 0 \/ n[id].len < size THEN [pos |-> nullptr, tree |-> n]
            ELSE IF rg - lf = UNIT THEN [pos |-> lf, tree |-> n]
            ELSE IF l.len >= size THEN find[k - 1][m][2 * id][lf]
            ELSE IF l.r_len + r.l_len >= size THEN [pos |-> mid - l.r_len + 1, tree |-> m]
            ELSE IF r.len >= size THEN find[k - 1][m][2 * id + 1][mid + 1]
            ELSE [pos |-> nullptr, tree |-> m]]]]
  IN  find

find(n, size) == finding(size)[levels][n][1][0]

-----------------------------------------------------------------------------
(* Operations. *)

RoundUp(x, a) == IF x % a = 0 THEN x ELSE x + a - (x % a)

\* Mutant of Slack: no room to move the block to its alignment.
Slack_None(alignment) == 0

\* What is searched for in addition, so that the block can be aligned.
Slack(alignment) == IF alignment = UNIT THEN 0 ELSE alignment

NoRequest == [size |-> 0, alignment |-> UNIT]

AllocInit ==
  /\ node = mark_node([id \in Ids |-> Unwritten], 1, FALSE, pool_size)
  /\ this_len = [u \in 0 .. leaf_cnt - 1 |-> 0]
  /\ used_size = 0
  /\ live = {} /\ request = NoRequest /\ ret = nullptr /\ calls = 0

\* allocate(0) and requests that do not fit give nullptr.
allocate(size_, alignment) ==
  LET size  == RoundUp(size_, alignment)
      found == find(node, size + Slack(alignment))
      Lpos  == RoundUp(found.pos, alignment)
  IN  /\ calls < MaxCalls /\ calls' = calls + 1
      /\ request' = [size |-> size, alignment |-> alignment]
      /\ IF size_ = 0
           THEN ret' = nullptr /\ UNCHANGED <<node, this_len, used_size, live>>
         ELSE IF found.pos = nullptr
           THEN /\ ret' = nullptr /\ node' = found.tree
                /\ UNCHANGED <<this_len, used_size, live>>
         ELSE /\ node' = mark_range(found.tree, Lpos, Lpos + size - 1, TRUE)
              /\ this_len' = [this_len EXCEPT ![Lpos \div UNIT] = size \div UNIT]
              /\ used_size' = used_size + size
              /\ live' = live \union {[ptr |-> Lpos, size |-> size]}
              /\ ret' = Lpos

\* Clients free what they were given, once; nullptr is ignored.
deallocate(ptr) ==
  LET len == this_len[ptr \div UNIT] * UNIT
  IN  /\ used_size' = used_size - len
      /\ node' = mark_range(node, ptr, ptr + len - 1, FALSE)
      /\ live' = {b \in live : b.ptr # ptr}
      /\ request' = NoRequest /\ ret' = nullptr
      /\ UNCHANGED <<this_len, calls>>

AllocNext == \/ \E size \in Sizes, alignment \in Alignments : allocate(size, alignment)
        \/ \E b \in live : deallocate(b.ptr)

AllocSpec == AllocInit /\ [][AllocNext]_avars

-----------------------------------------------------------------------------
(* Properties. *)

Pool == 0 .. pool_size - 1
Block(b) == b.ptr .. b.ptr + b.size - 1
Taken == UNION {Block(b) : b \in live}

\* The longest run of free leaves, in bytes, from the blocks alone.
FreeLeaves == {u \in 0 .. leaf_cnt - 1 : u * UNIT \notin Taken}
LongestFree ==
  UNIT * Max({0} \union {k \in 1 .. leaf_cnt :
                          \E u \in 0 .. leaf_cnt - k : u .. u + k - 1 \subseteq FreeLeaves})

\* No two blocks in use overlap, none leaves the pool, each starts at a multiple
\* of the leaf, however the tree has been marked and pushed down before.
BlocksDisjoint ==
  /\ Taken \subseteq Pool
  /\ \A b \in live : b.ptr % UNIT = 0
  /\ \A b1, b2 \in live : b1 # b2 => Block(b1) \intersect Block(b2) = {}

\* The root always knows the longest free run: marks that were not pushed down
\* yet and runs across the middle of nodes are accounted for.
RootKnowsLongest == node[1].len = LongestFree

\* allocate() gives an aligned block, or nullptr when the request is empty or no
\* free run is long enough for the block and its alignment.
AnswerRight ==
  [][request' # request \/ ret' # ret =>
       IF ret' = nullptr
         THEN \/ request'.size = 0
              \/ LongestFree < request'.size + Slack(request'.alignment)
         ELSE /\ ret' % request'.alignment = 0
              /\ ret' .. ret' + request'.size - 1 \subseteq Pool \ Taken]_avars

\* The nodes lie in the array: ids are below 2 * leaf_cnt (dsa_allocator.cpp:49).
NodesInArray == \A id \in Ids : node[id] # Unwritten => id <= 2 * leaf_cnt - 1

-----------------------------------------------------------------------------
(* The inductive invariant: the tree describes the bytes that are free. *)

Free == Pool \ Taken

\* What node nd says of lf .. rg is right when the bytes of F are free.
LeftRun(l, lf, rg, F) ==
  /\ l \in 0 .. rg - lf + 1 /\ lf .. lf + l - 1 \subseteq F
  /\ l <= rg - lf => lf + l \notin F
RightRun(r, lf, rg, F) ==
  /\ r \in 0 .. rg - lf + 1 /\ rg - r + 1 .. rg \subseteq F
  /\ r <= rg - lf => rg - r \notin F
LongestRun(len, lf, rg, F) ==
  /\ \E a \in lf .. rg : a + len - 1 <= rg /\ a .. a + len - 1 \subseteq F
  /\ \A a, b \in lf .. rg : a .. b \subseteq F => b - a + 1 <= len

Tells(nd, lf, rg, F) ==
  /\ LeftRun(nd.l_len, lf, rg, F) /\ RightRun(nd.r_len, lf, rg, F)
  /\ nd.len \in Nat /\ LongestRun(nd.len, lf, rg, F)

\* A node is right and so are those below it, unless it is marked: then its
\* interval is free, or taken, as a whole.
describes(n, F) ==
  LET right[k \in Nat] == [id \in Nat |-> [lf \in Nat |->
        LET rg == lf + Pow2[k] - 1
        IN  /\ Tells(n[id], lf, rg, F)
            /\ IF n[id].push_down
                 THEN lf .. rg \subseteq (IF n[id].pd_flag THEN Pool \ F ELSE F)
                 ELSE k > 0 => /\ right[k - 1][2 * id][lf]
                               /\ right[k - 1][2 * id + 1][lf + Pow2[k - 1]]]]
  IN  right

\* Blocks are whole leaves of the pool, apart, and this_len knows their sizes.
BlocksKnown ==
  \A b \in live :
    /\ b.ptr \in Pool /\ b.size \in Nat \ {0} /\ Block(b) \subseteq Pool
    /\ b.ptr % UNIT = 0 /\ b.size % UNIT = 0
    /\ b.size = UNIT * this_len[b.ptr \div UNIT]

AllocInv ==
  /\ node \in Trees /\ this_len \in [0 .. leaf_cnt - 1 -> Nat]
  /\ BlocksKnown /\ BlocksDisjoint
  /\ describes(node, Free)[levels][1][0]
=============================================================================

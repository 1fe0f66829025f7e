---------------------------- MODULE PartsProofs ----------------------------
(***************************************************************************)
(* Proofs about two of the parts of MCParts.  The allocator: for pools and *)
(* leaves of any size, any requests and any order of allocations and       *)
(* deallocations the tree describes the free bytes, so blocks are disjoint *)
(* and a request is refused only when it does not fit.  The agent: for any *)
(* number of threads, any machine and any number of uses, forked or not,   *)
(* queues are dealt evenly.                                                *)
(***************************************************************************)
EXTENDS Allocator, Agent, Recursion, FiniteSetTheorems, SequenceTheorems

-----------------------------------------------------------------------------
(* Powers of two. *)

LEMMA Pow2Spec ==
  /\ Pow2 \in [Nat -> Nat] /\ Pow2[0] = 1
  /\ \A k \in Nat : Pow2[k + 1] = 2 * Pow2[k]
<1> DEFINE g == [a \in Nat \X Nat |-> 2 * a[2]]
           Doubles(f) == f = [k \in Nat |-> IF k = 0 THEN 1 ELSE 2 * f[k - 1]]
<1>1. g \in [Nat \X Nat -> Nat]
  OBVIOUS
<1>2. \A k \in Nat, t \in Nat : g[<<k, t>>] = 2 * t
  OBVIOUS
<1> HIDE DEF g
<1>3. PICK f \in [Nat -> Nat] : f[0] = 1 /\ \A k \in Nat : f[k + 1] = g[<<k, f[k]>>]
  <2>1. \E f : Iterates(f, Nat, 1, g)
    BY <1>1, Iteration
  <2> QED
    BY <2>1 DEF Iterates
<1>4. ASSUME NEW k \in Nat \ {0} PROVE f[k] = 2 * f[k - 1]
  <2>1. k - 1 \in Nat /\ (k - 1) + 1 = k
    OBVIOUS
  <2>2. f[(k - 1) + 1] = g[<<k - 1, f[k - 1]>>]
    BY <1>3, <2>1
  <2> QED
    BY <1>2, <1>3, <2>1, <2>2
<1>5. Doubles(f)
  BY <1>3, <1>4
<1>6. Pow2 = CHOOSE h : Doubles(h)
  BY DEF Pow2
<1>7. Doubles(Pow2)
  <2> HIDE DEF Doubles
  <2> QED
    BY <1>5, <1>6
<1>8. \A k \in Nat : Pow2[k] = IF k = 0 THEN 1 ELSE 2 * Pow2[k - 1]
  BY <1>7
<1>9. \A k \in Nat : Pow2[k + 1] = 2 * Pow2[k]
  <2> TAKE k \in Nat
  <2>1. k + 1 \in Nat /\ k + 1 # 0 /\ (k + 1) - 1 = k
    OBVIOUS
  <2> QED
    BY <1>8, <2>1
<1>10. Pow2 \in [Nat -> Nat]
  <2> DEFINE T == {k \in Nat : Pow2[k] \in Nat}
  <2>1. T = Nat
    <3>1. 0 \in T
      BY <1>8
    <3>2. \A k \in T : k + 1 \in T
      BY <1>9
    <3>3. T \in SUBSET Nat
      OBVIOUS
    <3> HIDE DEF T
    <3> QED
      BY <3>1, <3>2, <3>3, AllNat
  <2>2. \A k \in Nat : Pow2[k] \in Nat
    BY <2>1
  <2> HIDE DEF T
  <2> QED
    BY <1>7, <2>2
<1> QED
  BY <1>8, <1>9, <1>10

LEMMA Pow2Positive == \A k \in Nat : Pow2[k] \in Nat \ {0}
<1> DEFINE T == {k \in Nat : Pow2[k] # 0}
<1>1. 0 \in T
  BY Pow2Spec
<1>2. \A k \in T : k + 1 \in T
  BY Pow2Spec
<1>3. T \in SUBSET Nat
  OBVIOUS
<1>4. T = Nat
  <2> HIDE DEF T
  <2> QED
    BY <1>1, <1>2, <1>3, AllNat
<1> QED
  BY <1>4, Pow2Spec

\* Bytes of a node at level k.
Size(k) == Pow2[k]

LEMMA SizeDoubles ==
  /\ Size(0) = 1
  /\ \A k \in Nat : Size(k) \in Nat \ {0} /\ Size(k + 1) = 2 * Size(k)
  BY Pow2Spec, Pow2Positive DEF Size

-----------------------------------------------------------------------------
(* The recursive functions satisfy their equations. *)

\* One level of _alloc and _dealloc, with what the level below it does.
MarkLevel(L, R, taken, k, below) ==
  [n \in Trees |-> [id \in Ids |-> [lf \in Nat |->
     LET rg  == lf + Pow2[k] - 1
         mid == Mid(lf, rg)
         n0  == push_down(n, id, lf, rg)
         n1  == IF L <= mid THEN below[n0][2 * id][lf] ELSE n0
         n2  == IF R > mid THEN below[n1][2 * id + 1][mid + 1] ELSE n1
     IN  IF k = 0 \/ (L <= lf /\ rg <= R) THEN mark_node(n, id, taken, rg - lf + 1)
         ELSE update_node(n2, id, lf, rg)]]]

\* One level of _find.
FindLevel(size, k, below) ==
  [n \in Trees |-> [id \in Ids |-> [lf \in Nat |->
     LET rg  == lf + Pow2[k] - 1
         mid == Mid(lf, rg)
         m   == push_down(n, id, lf, rg)
         l   == m[2 * id]
         r   == m[2 * id + 1]
     IN  IF k = 0 \/ n[id].len < size THEN [pos |-> nullptr, tree |-> n]
         ELSE IF rg - lf = UNIT THEN [pos |-> lf, tree |-> n]
         ELSE IF l.len >= size THEN below[m][2 * id][lf]
         ELSE IF l.r_len + r.l_len >= size THEN [pos |-> mid - l.r_len + 1, tree |-> m]
         ELSE IF r.len >= size THEN below[m][2 * id + 1][mid + 1]
         ELSE [pos |-> nullptr, tree |-> m]]]]

\* One level of describes.
RightLevel(n, F, k, below) ==
  [id \in Nat |-> [lf \in Nat |->
     LET rg == lf + Pow2[k] - 1
     IN  /\ Tells(n[id], lf, rg, F)
         /\ IF n[id].push_down
              THEN lf .. rg \subseteq (IF n[id].pd_flag THEN Pool \ F ELSE F)
              ELSE k > 0 => /\ below[2 * id][lf]
                            /\ below[2 * id + 1][lf + Pow2[k - 1]]]]

\* The ids of a node at level k and of those below it.
UnderLevel(k, below) ==
  [id \in Nat |-> {id} \union (IF k = 0 THEN {} ELSE below[2 * id] \union below[2 * id + 1])]

under[k \in Nat] ==
  [id \in Nat |-> {id} \union (IF k = 0 THEN {} ELSE under[k - 1][2 * id] \union under[k - 1][2 * id + 1])]

\* The four descents, so that they are shown to be well defined once.
Level(p, k, below) ==
  CASE p[1] = "mark"  -> MarkLevel(p[2], p[3], p[4], k, below)
    [] p[1] = "find"  -> FindLevel(p[2], k, below)
    [] p[1] = "right" -> RightLevel(p[2], p[3], k, below)
    [] OTHER          -> UnderLevel(k, below)

LEMMA LevelZero == \A p, F, G : Level(p, 0, F) = Level(p, 0, G)
<1> SUFFICES ASSUME NEW p, NEW F, NEW G PROVE Level(p, 0, F) = Level(p, 0, G)
  OBVIOUS
<1>1. MarkLevel(p[2], p[3], p[4], 0, F) = MarkLevel(p[2], p[3], p[4], 0, G)
  BY DEF MarkLevel
<1>2. FindLevel(p[2], 0, F) = FindLevel(p[2], 0, G)
  BY DEF FindLevel
<1>3. RightLevel(p[2], p[3], 0, F) = RightLevel(p[2], p[3], 0, G)
  BY DEF RightLevel
<1>4. UnderLevel(0, F) = UnderLevel(0, G)
  BY DEF UnderLevel
<1> QED
  BY <1>1, <1>2, <1>3, <1>4 DEF Level

LEMMA LevelsExist ==
  ASSUME NEW p
  PROVE  \E f : f = [k \in Nat |-> Level(p, k, f[k - 1])]
<1> DEFINE Step(k, F) == Level(p, k, F)
           Base == Level(p, 0, p)
           Steps(n, f) == f[0] = Base /\ \A k \in 0 .. n - 1 : f[k + 1] = Step(k + 1, f[k])
           Some == {n \in Nat : \E f : Steps(n, f)}
<1>0. \A F : Level(p, 0, F) = Base
  BY LevelZero
<1> HIDE DEF Step, Base
<1>1. Some = Nat
  <2>1. 0 \in Some
    <3>1. Steps(0, [k \in 0 .. 0 |-> Base])
      OBVIOUS
    <3> QED
      BY <3>1
  <2>2. ASSUME NEW n \in Some PROVE n + 1 \in Some
    <3>1. PICK f : Steps(n, f)
      OBVIOUS
    <3> DEFINE h == [k \in 0 .. n + 1 |-> IF k = n + 1 THEN Step(n + 1, f[n]) ELSE f[k]]
    <3>2. h[0] = Base
      BY <3>1
    <3>3. ASSUME NEW k \in 0 .. n PROVE h[k + 1] = Step(k + 1, h[k])
      <4>1. k \in 0 .. n + 1 /\ k + 1 \in 0 .. n + 1 /\ k # n + 1
        OBVIOUS
      <4>2. h[k] = f[k]
        BY <4>1
      <4>3. CASE k = n
        BY <4>1, <4>2, <4>3
      <4>4. CASE k # n
        <5>1. k \in 0 .. n - 1 /\ k + 1 # n + 1
          BY <4>4
        <5>2. f[k + 1] = Step(k + 1, f[k])
          BY <3>1, <5>1
        <5> QED
          BY <4>1, <4>2, <5>1, <5>2
      <4> QED
        BY <4>3, <4>4
    <3> HIDE DEF h
    <3>4. Steps(n + 1, h)
      BY <3>2, <3>3
    <3> QED
      BY <3>4
  <2> HIDE DEF Some
  <2>3. Some \in SUBSET Nat
    BY DEF Some
  <2> QED
    BY <2>1, <2>2, <2>3, AllNat
<1> DEFINE part[n \in Nat] == CHOOSE f : Steps(n, f)
           whole == [n \in Nat |-> part[n][n]]
<1>2. ASSUME NEW n \in Nat PROVE Steps(n, part[n])
  <2>1. \E f : Steps(n, f)
    BY <1>1
  <2> HIDE DEF Steps
  <2> QED
    BY <2>1
<1> HIDE DEF part
<1>3. ASSUME NEW n \in Nat PROVE part[n + 1][n] = part[n][n]
  <2> DEFINE f == part[n]
             h == part[n + 1]
             Same == {k \in Nat : k <= n => h[k] = f[k]}
  <2>1. Steps(n, f) /\ Steps(n + 1, h)
    <3>1. n + 1 \in Nat
      OBVIOUS
    <3> HIDE DEF Steps
    <3> QED
      BY <1>2, <3>1
  <2> HIDE DEF f, h
  <2>2. 0 \in Same
    BY <2>1
  <2>3. ASSUME NEW k \in Same PROVE k + 1 \in Same
    <3> SUFFICES ASSUME k + 1 <= n PROVE h[k + 1] = f[k + 1]
      OBVIOUS
    <3>1. k \in 0 .. n - 1 /\ k \in 0 .. (n + 1) - 1 /\ h[k] = f[k]
      OBVIOUS
    <3> QED
      BY <2>1, <3>1
  <2>4. Same = Nat
    <3> HIDE DEF Same
    <3>1. Same \in SUBSET Nat
      BY DEF Same
    <3> QED
      BY <2>2, <2>3, <3>1, AllNat
  <2>5. n \in Same
    BY <2>4
  <2> QED
    BY <2>5 DEF f, h
<1>4. whole[0] = Base
  BY <1>2
<1>5. ASSUME NEW k \in Nat PROVE whole[k + 1] = Step(k + 1, whole[k])
  <2>1. k + 1 \in Nat /\ k \in 0 .. (k + 1) - 1
    OBVIOUS
  <2>2. part[k + 1][k + 1] = Step(k + 1, part[k + 1][k])
    BY <1>2, <2>1
  <2> QED
    BY <1>3, <2>1, <2>2
<1>6. ASSUME NEW k \in Nat PROVE whole[k] = Level(p, k, whole[k - 1])
  <2>1. CASE k = 0
    BY <1>0, <1>4, <2>1
  <2>2. CASE k # 0
    <3>1. k - 1 \in Nat /\ (k - 1) + 1 = k
      BY <2>2
    <3>2. whole[(k - 1) + 1] = Step((k - 1) + 1, whole[k - 1])
      BY <1>5, <3>1
    <3> HIDE DEF whole
    <3> QED
      BY <3>1, <3>2 DEF Step
  <2> QED
    BY <2>1, <2>2
<1>7. whole = [k \in Nat |-> Level(p, k, whole[k - 1])]
  BY <1>6
<1> QED
  BY <1>7

LEMMA MarkingSpec ==
  ASSUME NEW L, NEW R, NEW taken
  PROVE  \A k \in Nat : marking(L, R, taken)[k] = MarkLevel(L, R, taken, k, marking(L, R, taken)[k - 1])
<1> DEFINE p == <<"mark", L, R, taken>>
           Marks(f) == f = [k \in Nat |-> MarkLevel(L, R, taken, k, f[k - 1])]
           r == marking(L, R, taken)
<1>1. \A k, F : Level(p, k, F) = MarkLevel(L, R, taken, k, F)
  BY DEF Level
<1>2. \E f : Marks(f)
  <2> HIDE DEF p
  <2>1. PICK f : f = [k \in Nat |-> Level(p, k, f[k - 1])]
    BY LevelsExist
  <2>2. [k \in Nat |-> Level(p, k, f[k - 1])] = [k \in Nat |-> MarkLevel(L, R, taken, k, f[k - 1])]
    BY <1>1
  <2> QED
    BY <2>1, <2>2
<1>3. r = CHOOSE f : Marks(f)
  BY DEF marking, MarkLevel
<1> HIDE DEF r
<1>4. Marks(r)
  <2> HIDE DEF Marks
  <2> QED
    BY <1>2, <1>3
<1> QED
  BY <1>4 DEF r

LEMMA FindingSpec ==
  ASSUME NEW size
  PROVE  \A k \in Nat : finding(size)[k] = FindLevel(size, k, finding(size)[k - 1])
<1> DEFINE p == <<"find", size>>
           Finds(f) == f = [k \in Nat |-> FindLevel(size, k, f[k - 1])]
           r == finding(size)
<1>1. \A k, F : Level(p, k, F) = FindLevel(size, k, F)
  BY DEF Level
<1>2. \E f : Finds(f)
  <2> HIDE DEF p
  <2>1. PICK f : f = [k \in Nat |-> Level(p, k, f[k - 1])]
    BY LevelsExist
  <2>2. [k \in Nat |-> Level(p, k, f[k - 1])] = [k \in Nat |-> FindLevel(size, k, f[k - 1])]
    BY <1>1
  <2> QED
    BY <2>1, <2>2
<1>3. r = CHOOSE f : Finds(f)
  BY DEF finding, FindLevel
<1> HIDE DEF r
<1>4. Finds(r)
  <2> HIDE DEF Finds
  <2> QED
    BY <1>2, <1>3
<1> QED
  BY <1>4 DEF r

LEMMA DescribesSpec ==
  ASSUME NEW n, NEW F
  PROVE  \A k \in Nat : describes(n, F)[k] = RightLevel(n, F, k, describes(n, F)[k - 1])
<1> DEFINE p == <<"right", n, F>>
           Rights(f) == f = [k \in Nat |-> RightLevel(n, F, k, f[k - 1])]
           r == describes(n, F)
<1>1. \A k, G : Level(p, k, G) = RightLevel(n, F, k, G)
  BY DEF Level
<1>2. \E f : Rights(f)
  <2> HIDE DEF p
  <2>1. PICK f : f = [k \in Nat |-> Level(p, k, f[k - 1])]
    BY LevelsExist
  <2>2. [k \in Nat |-> Level(p, k, f[k - 1])] = [k \in Nat |-> RightLevel(n, F, k, f[k - 1])]
    BY <1>1
  <2> QED
    BY <2>1, <2>2
<1>3. r = CHOOSE f : Rights(f)
  BY DEF describes, RightLevel
<1> HIDE DEF r
<1>4. Rights(r)
  <2> HIDE DEF Rights
  <2> QED
    BY <1>2, <1>3
<1> QED
  BY <1>4 DEF r

LEMMA UnderSpec == \A k \in Nat : under[k] = UnderLevel(k, under[k - 1])
<1> DEFINE p == <<"under">>
           Unders(f) == f = [k \in Nat |-> UnderLevel(k, f[k - 1])]
<1>1. \A k, F : Level(p, k, F) = UnderLevel(k, F)
  BY DEF Level
<1>2. \E f : Unders(f)
  <2> HIDE DEF p
  <2>1. PICK f : f = [k \in Nat |-> Level(p, k, f[k - 1])]
    BY LevelsExist
  <2>2. [k \in Nat |-> Level(p, k, f[k - 1])] = [k \in Nat |-> UnderLevel(k, f[k - 1])]
    BY <1>1
  <2> QED
    BY <2>1, <2>2
<1>3. under = CHOOSE f : Unders(f)
  BY DEF under, UnderLevel
<1>4. Unders(under)
  <2> HIDE DEF Unders
  <2> QED
    BY <1>2, <1>3
<1> QED
  BY <1>4

-----------------------------------------------------------------------------
(* The nodes below a node. *)

Below(k, id) == under[k][id]

LEMMA UnderNext ==
  ASSUME NEW k \in Nat, NEW id \in Nat
  PROVE  /\ Below(0, id) = {id}
         /\ Below(k + 1, id) = {id} \union Below(k, 2 * id) \union Below(k, 2 * id + 1)
<1>1. Below(0, id) = {id}
  <2>1. under[0] = UnderLevel(0, under[0 - 1])
    BY UnderSpec
  <2> QED
    BY <2>1 DEF UnderLevel, Below
<1>2. k + 1 \in Nat /\ k + 1 # 0 /\ (k + 1) - 1 = k
  OBVIOUS
<1>3. under[k + 1] = UnderLevel(k + 1, under[(k + 1) - 1])
  BY <1>2, UnderSpec
<1> QED
  BY <1>1, <1>2, <1>3 DEF UnderLevel, Below

LEMMA UnderSelf ==
  ASSUME NEW k \in Nat, NEW id \in Nat
  PROVE  id \in Below(k, id)
<1>1. under[k] = UnderLevel(k, under[k - 1])
  BY UnderSpec
<1> QED
  BY <1>1 DEF UnderLevel, Below

\* Ids grow on the way down.
LEMMA UnderAbove ==
  \A k \in Nat : \A id \in Nat \ {0} : Below(k, id) \subseteq {x \in Nat : id <= x}
<1> DEFINE T == {k \in Nat : \A id \in Nat \ {0} : Below(k, id) \subseteq {x \in Nat : id <= x}}
<1>1. 0 \in T
  BY UnderNext
<1>2. ASSUME NEW k \in T PROVE k + 1 \in T
  <2> SUFFICES ASSUME NEW id \in Nat \ {0} PROVE Below(k + 1, id) \subseteq {x \in Nat : id <= x}
    OBVIOUS
  <2>1. 2 * id \in Nat \ {0} /\ 2 * id + 1 \in Nat \ {0} /\ id <= 2 * id
    OBVIOUS
  <2>2. Below(k, 2 * id) \subseteq {x \in Nat : 2 * id <= x}
    BY <2>1
  <2>3. Below(k, 2 * id + 1) \subseteq {x \in Nat : 2 * id + 1 <= x}
    BY <2>1
  <2> QED
    BY <2>1, <2>2, <2>3, UnderNext
<1>3. T \in SUBSET Nat
  OBVIOUS
<1>4. T = Nat
  <2> HIDE DEF T
  <2> QED
    BY <1>1, <1>2, <1>3, AllNat
<1> QED
  BY <1>4

\* Nodes on the same level, or so, have nothing below them in common.
LEMMA UnderApart ==
  \A k \in Nat : \A a, b \in Nat \ {0} :
    a < b /\ b < 2 * a => Below(k, a) \cap Below(k, b) = {}
<1> DEFINE Apart(k) == \A a, b \in Nat \ {0} :
             a < b /\ b < 2 * a => Below(k, a) \cap Below(k, b) = {}
           T == {k \in Nat : Apart(k)}
<1>1. 0 \in T
  BY UnderNext
<1>2. ASSUME NEW k \in T PROVE k + 1 \in T
  <2> SUFFICES ASSUME NEW a \in Nat \ {0}, NEW b \in Nat \ {0}, a < b, b < 2 * a
               PROVE  Below(k + 1, a) \cap Below(k + 1, b) = {}
    OBVIOUS
  <2>1. /\ 2 * a \in Nat \ {0} /\ 2 * a + 1 \in Nat \ {0}
        /\ 2 * b \in Nat \ {0} /\ 2 * b + 1 \in Nat \ {0}
        /\ 2 * a < 2 * b /\ 2 * b < 2 * (2 * a) /\ 2 * a < 2 * b + 1 /\ 2 * b + 1 < 2 * (2 * a)
        /\ 2 * a + 1 < 2 * b /\ 2 * b < 2 * (2 * a + 1)
        /\ 2 * a + 1 < 2 * b + 1 /\ 2 * b + 1 < 2 * (2 * a + 1)
        /\ a < 2 * b /\ a < 2 * b + 1 /\ b < 2 * a /\ b < 2 * a + 1
    OBVIOUS
  <2>2. Apart(k)
    OBVIOUS
  <2>3. /\ Below(k, 2 * a) \cap Below(k, 2 * b) = {}
        /\ Below(k, 2 * a) \cap Below(k, 2 * b + 1) = {}
        /\ Below(k, 2 * a + 1) \cap Below(k, 2 * b) = {}
        /\ Below(k, 2 * a + 1) \cap Below(k, 2 * b + 1) = {}
    BY <2>1, <2>2
  <2>4. /\ a \notin Below(k, 2 * b) /\ a \notin Below(k, 2 * b + 1)
        /\ b \notin Below(k, 2 * a) /\ b \notin Below(k, 2 * a + 1)
    BY <2>1, UnderAbove
  <2>5. /\ Below(k + 1, a) = {a} \union Below(k, 2 * a) \union Below(k, 2 * a + 1)
        /\ Below(k + 1, b) = {b} \union Below(k, 2 * b) \union Below(k, 2 * b + 1)
    BY UnderNext
  <2> QED
    BY <2>3, <2>4, <2>5
<1>3. T \in SUBSET Nat
  OBVIOUS
<1>4. T = Nat
  <2> HIDE DEF T
  <2> QED
    BY <1>1, <1>2, <1>3, AllNat
<1> QED
  BY <1>4

LEMMA ChildrenApart ==
  ASSUME NEW k \in Nat, NEW id \in Nat \ {0}
  PROVE  /\ 2 * id \in Nat \ {0} /\ 2 * id + 1 \in Nat \ {0}
         /\ Below(k, 2 * id) \cap Below(k, 2 * id + 1) = {}
         /\ id \notin Below(k, 2 * id) /\ id \notin Below(k, 2 * id + 1)
         /\ 2 * id \notin Below(k, 2 * id + 1)
<1>1. 2 * id \in Nat \ {0} /\ 2 * id + 1 \in Nat \ {0} /\ 2 * id < 2 * id + 1
      /\ 2 * id + 1 < 2 * (2 * id) /\ id < 2 * id
  OBVIOUS
<1> QED
  BY <1>1, UnderApart, UnderAbove

-----------------------------------------------------------------------------
(* What describes says depends on the nodes and the bytes below alone. *)

Correct(n, F, k, id, lf) == describes(n, F)[k][id][lf]

LEMMA DescribesNext ==
  ASSUME NEW n, NEW F, NEW k \in Nat, NEW id \in Nat, NEW lf \in Nat
  PROVE  Correct(n, F, k, id, lf) <=>
           /\ Tells(n[id], lf, lf + Size(k) - 1, F)
           /\ IF n[id].push_down
                THEN lf .. lf + Size(k) - 1 \subseteq (IF n[id].pd_flag THEN Pool \ F ELSE F)
                ELSE k > 0 => /\ Correct(n, F, k - 1, 2 * id, lf)
                              /\ Correct(n, F, k - 1, 2 * id + 1, lf + Size(k - 1))
<1> DEFINE below == describes(n, F)[k - 1]
<1>1. describes(n, F)[k] = RightLevel(n, F, k, below)
  BY DescribesSpec
<1> HIDE DEF below
<1>2. RightLevel(n, F, k, below)[id][lf] <=>
        /\ Tells(n[id], lf, lf + Size(k) - 1, F)
        /\ IF n[id].push_down
             THEN lf .. lf + Size(k) - 1 \subseteq (IF n[id].pd_flag THEN Pool \ F ELSE F)
             ELSE k > 0 => /\ below[2 * id][lf]
                           /\ below[2 * id + 1][lf + Size(k - 1)]
  BY DEF RightLevel, Size
<1> QED
  BY <1>1, <1>2 DEF below, Correct

SameBytes(F, G, lf, rg) == \A x \in lf .. rg : x \in F <=> x \in G

LEMMA TellsSame ==
  ASSUME NEW nd, NEW lf \in Nat, NEW rg \in Nat, NEW F, NEW G, SameBytes(F, G, lf, rg),
         Tells(nd, lf, rg, F)
  PROVE  Tells(nd, lf, rg, G)
<1>1. LeftRun(nd.l_len, lf, rg, G)
  BY DEF Tells, LeftRun, SameBytes
<1>2. RightRun(nd.r_len, lf, rg, G)
  BY DEF Tells, RightRun, SameBytes
<1>3. LongestRun(nd.len, lf, rg, G)
  <2> DEFINE len == nd.len
  <2>1. len \in Nat /\ LongestRun(len, lf, rg, F)
    BY DEF Tells
  <2> HIDE DEF len
  <2>2. PICK a \in lf .. rg : a + len - 1 <= rg /\ a .. a + len - 1 \subseteq F
    BY <2>1 DEF LongestRun
  <2>3. a .. a + len - 1 \subseteq lf .. rg
    BY <2>1, <2>2
  <2>4. a .. a + len - 1 \subseteq G
    BY <2>2, <2>3 DEF SameBytes
  <2>5. ASSUME NEW b \in lf .. rg, NEW c \in lf .. rg, b .. c \subseteq G PROVE c - b + 1 <= len
    <3>1. b .. c \subseteq lf .. rg
      OBVIOUS
    <3>2. b .. c \subseteq F
      BY <2>5, <3>1 DEF SameBytes
    <3> QED
      BY <2>1, <3>2 DEF LongestRun
  <2>6. LongestRun(len, lf, rg, G)
    BY <2>2, <2>4, <2>5 DEF LongestRun
  <2> QED
    BY <2>6 DEF len
<1> QED
  BY <1>1, <1>2, <1>3 DEF Tells

LEMMA DescribesSame ==
  ASSUME NEW n, NEW m, NEW F, NEW G, NEW i \in Nat, NEW j \in Nat \ {0}, NEW a \in Nat,
         \A x \in Below(i, j) : n[x] = m[x],
         SameBytes(F, G, a, a + Size(i) - 1),
         Correct(n, F, i, j, a)
  PROVE  Correct(m, G, i, j, a)
<1> DEFINE Same(k) == \A id \in Nat \ {0}, lf \in Nat :
             /\ \A x \in Below(k, id) : n[x] = m[x]
             /\ SameBytes(F, G, lf, lf + Size(k) - 1)
             /\ Correct(n, F, k, id, lf)
             => Correct(m, G, k, id, lf)
           T == {k \in Nat : Same(k)}
<1>1. ASSUME NEW k \in Nat, NEW id \in Nat \ {0}, NEW lf \in Nat,
             \A x \in Below(k, id) : n[x] = m[x],
             SameBytes(F, G, lf, lf + Size(k) - 1),
             Correct(n, F, k, id, lf),
             k > 0 => /\ Correct(n, F, k - 1, 2 * id, lf) => Correct(m, G, k - 1, 2 * id, lf)
                      /\ Correct(n, F, k - 1, 2 * id + 1, lf + Size(k - 1))
                           => Correct(m, G, k - 1, 2 * id + 1, lf + Size(k - 1))
      PROVE  Correct(m, G, k, id, lf)
  <2> DEFINE rg == lf + Size(k) - 1
  <2>1. rg \in Nat
    BY SizeDoubles
  <2>2. id \in Below(k, id)
    BY UnderSelf
  <2>3. n[id] = m[id]
    BY <1>1, <2>2
  <2> HIDE DEF rg
  <2>4. SameBytes(F, G, lf, rg) /\ Tells(n[id], lf, rg, F)
    BY <1>1, DescribesNext DEF rg
  <2>5. Tells(m[id], lf, rg, G)
    BY <2>1, <2>3, <2>4, TellsSame
  <2>6. lf .. rg \subseteq F => lf .. rg \subseteq G
    BY <2>4 DEF SameBytes
  <2>7. lf .. rg \subseteq Pool \ F => lf .. rg \subseteq Pool \ G
    BY <2>4 DEF SameBytes
  <2>8. IF n[id].push_down
          THEN lf .. rg \subseteq (IF n[id].pd_flag THEN Pool \ F ELSE F)
          ELSE k > 0 => /\ Correct(n, F, k - 1, 2 * id, lf)
                        /\ Correct(n, F, k - 1, 2 * id + 1, lf + Size(k - 1))
    BY <1>1, DescribesNext DEF rg
  <2>9. IF m[id].push_down
          THEN lf .. rg \subseteq (IF m[id].pd_flag THEN Pool \ G ELSE G)
          ELSE k > 0 => /\ Correct(m, G, k - 1, 2 * id, lf)
                        /\ Correct(m, G, k - 1, 2 * id + 1, lf + Size(k - 1))
    BY <1>1, <2>3, <2>6, <2>7, <2>8
  <2> QED
    BY <2>5, <2>9, DescribesNext DEF rg
<1>2. 0 \in T
  BY <1>1
<1>3. ASSUME NEW k \in T PROVE k + 1 \in T
  <2> SUFFICES ASSUME NEW id \in Nat \ {0}, NEW lf \in Nat,
                      \A x \in Below(k + 1, id) : n[x] = m[x],
                      SameBytes(F, G, lf, lf + Size(k + 1) - 1),
                      Correct(n, F, k + 1, id, lf)
               PROVE  Correct(m, G, k + 1, id, lf)
    OBVIOUS
  <2>1. Same(k) /\ k \in Nat /\ k + 1 \in Nat /\ (k + 1) - 1 = k
    OBVIOUS
  <2>2. Size(k) \in Nat \ {0} /\ Size(k + 1) = 2 * Size(k)
    BY <2>1, SizeDoubles
  <2>3. Below(k, 2 * id) \subseteq Below(k + 1, id) /\ Below(k, 2 * id + 1) \subseteq Below(k + 1, id)
    BY UnderNext
  <2>4. SameBytes(F, G, lf, lf + Size(k) - 1)
        /\ SameBytes(F, G, lf + Size(k), lf + Size(k) + Size(k) - 1)
    BY <2>2 DEF SameBytes
  <2>5. 2 * id \in Nat \ {0} /\ 2 * id + 1 \in Nat \ {0} /\ lf + Size(k) \in Nat
    BY <2>2
  <2>6. /\ Correct(n, F, k, 2 * id, lf) => Correct(m, G, k, 2 * id, lf)
        /\ Correct(n, F, k, 2 * id + 1, lf + Size(k))
             => Correct(m, G, k, 2 * id + 1, lf + Size(k))
    BY <2>1, <2>3, <2>4, <2>5
  <2> HIDE DEF Same
  <2> QED
    BY <1>1, <2>1, <2>6
<1>4. T \in SUBSET Nat
  OBVIOUS
<1>5. T = Nat
  <2> HIDE DEF T
  <2> QED
    BY <1>2, <1>3, <1>4, AllNat
<1> QED
  BY <1>5

LEMMA DescribesFrame ==
  ASSUME NEW n, NEW m, NEW F, NEW k \in Nat, NEW id \in Nat \ {0}, NEW lf \in Nat,
         \A x \in Below(k, id) : m[x] = n[x], Correct(n, F, k, id, lf)
  PROVE  Correct(m, F, k, id, lf)
<1>1. SameBytes(F, F, lf, lf + Size(k) - 1)
  BY DEF SameBytes
<1> QED
  BY <1>1, DescribesSame

-----------------------------------------------------------------------------
(* The lengths of a node from those of its children. *)

LEMMA LeftRuns ==
  ASSUME NEW lf \in Nat, NEW P \in Nat \ {0}, NEW F, NEW l, NEW r,
         LeftRun(l, lf, lf + P - 1, F), LeftRun(r, lf + P, lf + 2 * P - 1, F)
  PROVE  LeftRun(l + (IF l = P THEN r ELSE 0), lf, lf + 2 * P - 1, F)
<1>1. l \in 0 .. P /\ r \in 0 .. P
  BY DEF LeftRun
<1>2. CASE l = P
  <2>1. lf .. lf + (l + r) - 1 = (lf .. lf + l - 1) \union (lf + P .. lf + P + r - 1)
    BY <1>1, <1>2
  <2>2. r <= (lf + 2 * P - 1) - (lf + P) => lf + P + r \notin F
    BY DEF LeftRun
  <2> QED
    BY <1>1, <1>2, <2>1, <2>2 DEF LeftRun
<1>3. CASE l # P
  BY <1>1, <1>3 DEF LeftRun
<1> QED
  BY <1>2, <1>3

LEMMA RightRuns ==
  ASSUME NEW lf \in Nat, NEW P \in Nat \ {0}, NEW F, NEW l, NEW r,
         RightRun(l, lf, lf + P - 1, F), RightRun(r, lf + P, lf + 2 * P - 1, F)
  PROVE  RightRun(r + (IF r = P THEN l ELSE 0), lf, lf + 2 * P - 1, F)
<1> DEFINE rg == lf + 2 * P - 1
           mid == lf + P - 1
<1>1. l \in 0 .. P /\ r \in 0 .. P /\ rg \in Nat /\ mid \in Nat /\ rg = mid + P
  BY DEF RightRun
<1>2. CASE r = P
  <2>1. rg - (r + l) + 1 .. rg = (mid - l + 1 .. mid) \union (rg - r + 1 .. rg)
    BY <1>1, <1>2
  <2>2. l <= mid - lf => mid - l \notin F
    BY DEF RightRun
  <2>3. (mid - l + 1 .. mid) \subseteq F /\ (rg - r + 1 .. rg) \subseteq F
    BY DEF RightRun
  <2>4. r + l <= rg - lf => rg - (r + l) \notin F
    BY <1>1, <1>2, <2>2
  <2>5. r + l \in 0 .. rg - lf + 1
    BY <1>1
  <2> QED
    BY <1>2, <2>1, <2>3, <2>4, <2>5 DEF RightRun
<1>3. CASE r # P
  BY <1>1, <1>3 DEF RightRun
<1> QED
  BY <1>2, <1>3

LEMMA LongestRuns ==
  ASSUME NEW lf \in Nat, NEW P \in Nat \ {0}, NEW F,
         NEW lenL \in Nat, NEW lenR \in Nat, NEW r, NEW l,
         LongestRun(lenL, lf, lf + P - 1, F), LongestRun(lenR, lf + P, lf + 2 * P - 1, F),
         RightRun(r, lf, lf + P - 1, F), LeftRun(l, lf + P, lf + 2 * P - 1, F)
  PROVE  LongestRun(MaxOf(MaxOf(lenL, lenR), r + l), lf, lf + 2 * P - 1, F)
<1> DEFINE rg == lf + 2 * P - 1
           mid == lf + P - 1
           len == MaxOf(MaxOf(lenL, lenR), r + l)
<1>1. r \in 0 .. P /\ l \in 0 .. P /\ rg \in Nat /\ mid \in Nat /\ mid + 1 = lf + P /\ rg = mid + P
  BY DEF RightRun, LeftRun
<1>2. len \in Nat /\ lenL <= len /\ lenR <= len /\ r + l <= len /\ len \in {lenL, lenR, r + l}
  BY <1>1 DEF MaxOf
<1>3. \E a \in lf .. rg : a + len - 1 <= rg /\ a .. a + len - 1 \subseteq F
  <2>1. CASE len = lenL
    <3>1. PICK a \in lf .. mid : a + lenL - 1 <= mid /\ a .. a + lenL - 1 \subseteq F
      BY DEF LongestRun
    <3>2. a \in lf .. rg /\ a + lenL - 1 <= rg
      BY <1>1, <3>1
    <3> HIDE DEF len, rg
    <3> QED
      BY <2>1, <3>1, <3>2
  <2>2. CASE len = lenR
    <3>1. PICK a \in mid + 1 .. rg : a + lenR - 1 <= rg /\ a .. a + lenR - 1 \subseteq F
      BY <1>1 DEF LongestRun
    <3>2. a \in lf .. rg /\ a + lenR - 1 <= rg
      BY <1>1, <3>1
    <3> HIDE DEF len, rg
    <3> QED
      BY <2>2, <3>1, <3>2
  <2>3. CASE len = r + l
    <3>1. mid - r + 1 .. mid \subseteq F /\ mid + 1 .. mid + l \subseteq F
      BY <1>1 DEF RightRun, LeftRun
    <3>2. CASE r = 0 /\ l = 0
      <4>1. lf \in lf .. rg /\ lf + len - 1 <= rg /\ lf .. lf + len - 1 = {}
        BY <1>1, <2>3, <3>2
      <4> QED
        BY <4>1
    <3>3. CASE ~ (r = 0 /\ l = 0)
      <4> DEFINE a == mid - r + 1
      <4>1. a \in lf .. rg /\ a + len - 1 <= rg
        BY <1>1, <2>3, <3>3
      <4>2. a .. a + len - 1 = (mid - r + 1 .. mid) \union (mid + 1 .. mid + l)
        BY <1>1, <2>3, <3>3
      <4> QED
        BY <3>1, <4>1, <4>2
    <3> QED
      BY <3>2, <3>3
  <2> QED
    BY <1>2, <2>1, <2>2, <2>3
<1>4. ASSUME NEW a \in lf .. rg, NEW b \in lf .. rg, a .. b \subseteq F PROVE b - a + 1 <= len
  <2>1. CASE b <= mid
    <3>1. CASE a <= mid
      <4>1. a \in lf .. mid /\ b \in lf .. mid
        BY <2>1, <3>1, <1>1
      <4>2. b - a + 1 <= lenL
        BY <1>4, <4>1 DEF LongestRun
      <4> QED
        BY <1>2, <4>1, <4>2
    <3>2. CASE mid < a
      BY <1>1, <1>2, <2>1, <3>2
    <3> QED
      BY <1>1, <3>1, <3>2
  <2>2. CASE mid < a
    <3>1. CASE mid < b
      <4>1. a \in mid + 1 .. rg /\ b \in mid + 1 .. rg
        BY <2>2, <3>1, <1>1
      <4>2. b - a + 1 <= lenR
        BY <1>1, <1>4, <4>1 DEF LongestRun
      <4> QED
        BY <1>2, <4>1, <4>2
    <3> QED
      BY <1>1, <1>2, <2>2, <3>1
  <2>3. CASE a <= mid /\ mid < b
    <3>1. mid - r < a
      <4> SUFFICES ASSUME a <= mid - r PROVE FALSE
        BY <1>1
      <4>1. mid - r \in a .. b /\ r <= mid - lf
        BY <1>1, <2>3
      <4>2. mid - r \notin F
        BY <1>1, <4>1 DEF RightRun
      <4> QED
        BY <1>4, <4>1, <4>2
    <3>2. b <= mid + l
      <4> SUFFICES ASSUME mid + l < b PROVE FALSE
        BY <1>1
      <4>1. (mid + 1) + l \in a .. b /\ l <= rg - (mid + 1)
        BY <1>1, <2>3
      <4>2. (mid + 1) + l \notin F
        BY <1>1, <4>1 DEF LeftRun
      <4> QED
        BY <1>4, <4>1, <4>2
    <3> QED
      BY <1>1, <1>2, <3>1, <3>2
  <2> QED
    BY <1>1, <2>1, <2>2, <2>3
<1> QED
  BY <1>3, <1>4 DEF LongestRun

-----------------------------------------------------------------------------
(* mark_node, push_down and update_node. *)

LEMMA Constants ==
  /\ pool_size \in Nat \ {0} /\ UNIT \in Nat /\ UNIT >= 2 /\ nullptr = -1
  /\ Unwritten \in Node /\ Pool \subseteq Nat
  BY AllocatorAssumption DEF nullptr, Pool

\* The ids at level k have room below them.
IdOK(k, id) == id \in Nat \ {0} /\ (id + 1) * Size(k) <= 2 * pool_size

LEMMA IdsDown ==
  ASSUME NEW k \in Nat, NEW id, IdOK(k, id)
  PROVE  /\ id \in Ids
         /\ k > 0 => IdOK(k - 1, 2 * id) /\ IdOK(k - 1, 2 * id + 1)
<1>1. Size(k) \in Nat \ {0} /\ id \in Nat \ {0} /\ pool_size \in Nat
  BY SizeDoubles, Constants DEF IdOK
<1>2. id + 1 <= (id + 1) * Size(k)
  <2> DEFINE P == Size(k) - 1
  <2>1. P \in Nat /\ (id + 1) * Size(k) = (id + 1) * P + (id + 1) /\ (id + 1) * P >= 0
    BY <1>1
  <2> HIDE DEF P
  <2>2. (id + 1) * P \in Int
    BY <1>1, <2>1
  <2> QED
    BY <1>1, <2>1, <2>2
<1>3. id \in Ids
  BY <1>1, <1>2 DEF IdOK, Ids
<1>4. ASSUME k > 0 PROVE IdOK(k - 1, 2 * id) /\ IdOK(k - 1, 2 * id + 1)
  <2> DEFINE P == Size(k - 1)
  <2>1. k - 1 \in Nat /\ (k - 1) + 1 = k
    BY <1>4
  <2>2. P \in Nat \ {0} /\ Size(k) = 2 * P
    BY <2>1, SizeDoubles
  <2> HIDE DEF P
  <2>3. (id + 1) * (2 * P) <= 2 * pool_size
    BY <2>2 DEF IdOK
  <2>4. (2 * id + 1 + 1) * P = (id + 1) * (2 * P)
    BY <1>1, <2>2
  <2>5. (2 * id + 1) * P + P = (2 * id + 1 + 1) * P
    BY <1>1, <2>2
  <2>6. (2 * id + 1) * P \in Int /\ (2 * id + 1 + 1) * P \in Int
    BY <1>1, <2>2
  <2>7. (2 * id + 1) * P <= 2 * pool_size /\ (2 * id + 1 + 1) * P <= 2 * pool_size
    BY <1>1, <2>2, <2>3, <2>4, <2>5, <2>6
  <2> QED
    BY <1>1, <2>7 DEF IdOK, P
<1> QED
  BY <1>3, <1>4

LEMMA UnderIds == \A k \in Nat : \A id : IdOK(k, id) => Below(k, id) \subseteq Ids
<1> DEFINE T == {k \in Nat : \A id : IdOK(k, id) => Below(k, id) \subseteq Ids}
<1>1. 0 \in T
  <2> SUFFICES ASSUME NEW id, IdOK(0, id) PROVE Below(0, id) \subseteq Ids
    OBVIOUS
  <2>1. id \in Nat /\ id \in Ids
    BY IdsDown DEF IdOK
  <2> QED
    BY <2>1, UnderNext
<1>2. ASSUME NEW k \in T PROVE k + 1 \in T
  <2> SUFFICES ASSUME NEW id, IdOK(k + 1, id) PROVE Below(k + 1, id) \subseteq Ids
    OBVIOUS
  <2>1. k + 1 \in Nat /\ k + 1 > 0 /\ (k + 1) - 1 = k /\ k \in Nat
    OBVIOUS
  <2>2. id \in Nat /\ id \in Ids /\ IdOK(k, 2 * id) /\ IdOK(k, 2 * id + 1)
    <3>1. id \in Ids /\ (k + 1 > 0 => IdOK((k + 1) - 1, 2 * id) /\ IdOK((k + 1) - 1, 2 * id + 1))
      BY <2>1, IdsDown
    <3> QED
      BY <2>1, <3>1 DEF IdOK
  <2>3. Below(k, 2 * id) \subseteq Ids /\ Below(k, 2 * id + 1) \subseteq Ids
    BY <2>2
  <2> QED
    BY <2>1, <2>2, <2>3, UnderNext
<1>3. T \in SUBSET Nat
  OBVIOUS
<1>4. T = Nat
  <2> HIDE DEF T
  <2> QED
    BY <1>1, <1>2, <1>3, AllNat
<1> QED
  BY <1>4

\* All bytes of an interval are free, or none.
Whole(flag, lf, rg, F) == lf .. rg \subseteq (IF flag THEN Pool \ F ELSE F)

LEMMA WholeTells ==
  ASSUME NEW lf \in Nat, NEW rg \in Nat, lf <= rg, NEW F, NEW flag \in BOOLEAN,
         Whole(flag, lf, rg, F), NEW nd,
         LET len == IF flag THEN 0 ELSE rg - lf + 1
         IN  nd.l_len = len /\ nd.r_len = len /\ nd.len = len
  PROVE  Tells(nd, lf, rg, F)
<1>1. CASE flag
  <2>1. \A x \in lf .. rg : x \notin F
    BY <1>1 DEF Whole
  <2>2. LeftRun(0, lf, rg, F) /\ RightRun(0, lf, rg, F)
    BY <2>1 DEF LeftRun, RightRun
  <2>3. LongestRun(0, lf, rg, F)
    BY <2>1 DEF LongestRun
  <2> QED
    BY <1>1, <2>2, <2>3 DEF Tells
<1>2. CASE ~flag
  <2> DEFINE len == rg - lf + 1
  <2>1. lf .. rg \subseteq F
    BY <1>2 DEF Whole
  <2>2. len \in Nat /\ lf + len - 1 = rg
    OBVIOUS
  <2>3. LeftRun(len, lf, rg, F) /\ RightRun(len, lf, rg, F)
    BY <2>1 DEF LeftRun, RightRun
  <2>4. LongestRun(len, lf, rg, F)
    BY <2>1, <2>2 DEF LongestRun
  <2> QED
    BY <1>2, <2>2, <2>3, <2>4 DEF Tells
<1> QED
  BY <1>1, <1>2

LEMMA MarkNode ==
  ASSUME NEW n \in Trees, NEW k \in Nat, NEW id \in Ids, NEW lf \in Nat, NEW flag \in BOOLEAN, NEW F,
         NEW P, P = Size(k), Whole(flag, lf, lf + P - 1, F)
  PROVE  /\ mark_node(n, id, flag, P) \in Trees
         /\ \A x \in Ids \ {id} : mark_node(n, id, flag, P)[x] = n[x]
         /\ Correct(mark_node(n, id, flag, P), F, k, id, lf)
<1> DEFINE rg == lf + P - 1
           len == IF flag THEN 0 ELSE P
           nd == [l_len |-> len, r_len |-> len, len |-> len, push_down |-> TRUE, pd_flag |-> flag]
           m == mark_node(n, id, flag, P)
<1>1. P \in Nat \ {0}
  BY SizeDoubles
<1>2. nd \in Node
  BY <1>1 DEF Node
<1>3. m = [n EXCEPT ![id] = nd]
  BY DEF mark_node
<1> HIDE DEF m
<1>4. m \in Trees /\ m[id] = nd /\ \A x \in Ids \ {id} : m[x] = n[x]
  BY <1>2, <1>3 DEF Trees
<1>5. rg \in Nat /\ lf <= rg /\ rg - lf + 1 = P
  BY <1>1
<1>6. Whole(flag, lf, rg, F)
  OBVIOUS
<1> HIDE DEF rg
<1>7. Tells(nd, lf, rg, F)
  BY <1>5, <1>6, WholeTells
<1>8. Tells(m[id], lf, rg, F) /\ m[id].push_down /\ m[id].pd_flag = flag
  BY <1>4, <1>7
<1>9. id \in Nat
  BY DEF Ids
<1>10. Correct(m, F, k, id, lf)
  BY <1>6, <1>8, <1>9, DescribesNext DEF Whole, rg
<1> QED
  BY <1>4, <1>10 DEF m

\* A level and the one below it.
LEMMA Halves ==
  ASSUME NEW k \in Nat, k > 0, NEW lf \in Nat
  PROVE  LET P == Size(k - 1)  rg == lf + Size(k) - 1
         IN  /\ k - 1 \in Nat /\ (k - 1) + 1 = k
             /\ P \in Nat \ {0} /\ Size(k) = 2 * P /\ rg = lf + 2 * P - 1
             /\ Mid(lf, rg) = lf + P - 1 /\ Mid(lf, rg) + 1 = lf + P
             /\ Mid(lf, rg) - lf + 1 = P /\ rg - Mid(lf, rg) = P
<1> DEFINE P == Size(k - 1)
<1>1. k - 1 \in Nat /\ (k - 1) + 1 = k
  OBVIOUS
<1>2. P \in Nat \ {0} /\ Size(k) = 2 * P
  BY <1>1, SizeDoubles
<1> HIDE DEF P
<1>3. Mid(lf, lf + 2 * P - 1) = lf + P - 1
  BY <1>2 DEF Mid
<1> QED
  BY <1>1, <1>2, <1>3 DEF P

LEMMA PushDown ==
  ASSUME NEW n \in Trees, NEW k \in Nat, k > 0, NEW id, IdOK(k, id), NEW lf \in Nat, NEW F,
         Correct(n, F, k, id, lf),
         NEW m, m = push_down(n, id, lf, lf + Size(k) - 1)
  PROVE  /\ m \in Trees
         /\ \A x \in Ids \ Below(k, id) : m[x] = n[x]
         /\ ~ m[id].push_down /\ m[id].len = n[id].len
         /\ Tells(m[id], lf, lf + Size(k) - 1, F)
         /\ Correct(m, F, k - 1, 2 * id, lf)
         /\ Correct(m, F, k - 1, 2 * id + 1, lf + Size(k - 1))
<1> DEFINE P == Size(k - 1)
           rg == lf + Size(k) - 1
<1>1. /\ k - 1 \in Nat /\ P \in Nat \ {0} /\ rg = lf + 2 * P - 1 /\ lf + P \in Nat
      /\ Mid(lf, rg) - lf + 1 = P /\ rg - Mid(lf, rg) = P
  <2>1. /\ k - 1 \in Nat /\ P \in Nat \ {0} /\ rg = lf + 2 * P - 1
        /\ Mid(lf, rg) - lf + 1 = P /\ rg - Mid(lf, rg) = P
    BY Halves
  <2> HIDE DEF P, rg
  <2> QED
    BY <2>1
<1>2. id \in Nat \ {0} /\ id \in Ids /\ 2 * id \in Ids /\ 2 * id + 1 \in Ids
  BY IdsDown, <1>1 DEF IdOK
<1>3. id # 2 * id /\ id # 2 * id + 1 /\ 2 * id # 2 * id + 1
  BY <1>2
<1>4. {id, 2 * id, 2 * id + 1} \subseteq Below(k, id)
  <2>1. Below((k - 1) + 1, id) = {id} \union Below(k - 1, 2 * id) \union Below(k - 1, 2 * id + 1)
    BY <1>1, <1>2, UnderNext
  <2>3. 2 * id \in Below(k - 1, 2 * id) /\ 2 * id + 1 \in Below(k - 1, 2 * id + 1)
    BY <1>1, <1>2, UnderSelf
  <2> QED
    BY <2>1, <2>3
<1>5. Tells(n[id], lf, rg, F)
  BY <1>2, DescribesNext
<1>6. n[id].pd_flag \in BOOLEAN
  BY <1>2 DEF Trees, Node
<1>7. CASE ~ n[id].push_down
  <2>1. m = n
    BY <1>7 DEF push_down
  <2>2. Correct(n, F, k - 1, 2 * id, lf) /\ Correct(n, F, k - 1, 2 * id + 1, lf + P)
    BY <1>2, <1>7, DescribesNext
  <2> QED
    BY <1>5, <1>7, <2>1, <2>2
<1>8. CASE n[id].push_down
  <2>0. PICK flag \in BOOLEAN : flag = n[id].pd_flag
    BY <1>6
  <2> DEFINE left == mark_node(n, 2 * id, flag, P)
             right == mark_node(left, 2 * id + 1, flag, P)
  <2>1. m = [right EXCEPT ![id].push_down = FALSE]
    BY <1>1, <1>8, <2>0 DEF push_down
  <2>2. Whole(flag, lf, rg, F)
    BY <1>2, <1>8, <2>0, DescribesNext DEF Whole
  <2>3. Whole(flag, lf, lf + P - 1, F) /\ Whole(flag, lf + P, lf + P + P - 1, F)
    <3> HIDE DEF P
    <3> QED
      BY <1>1, <2>2 DEF Whole
  <2>4. /\ left \in Trees
        /\ \A x \in Ids \ {2 * id} : left[x] = n[x]
        /\ Correct(left, F, k - 1, 2 * id, lf)
    <3>1. P = Size(k - 1)
      OBVIOUS
    <3> HIDE DEF P, rg
    <3> QED
      BY <1>1, <1>2, <2>3, <3>1, MarkNode
  <2>5. /\ right \in Trees
        /\ \A x \in Ids \ {2 * id + 1} : right[x] = left[x]
        /\ Correct(right, F, k - 1, 2 * id + 1, lf + P)
    <3>1. P = Size(k - 1)
      OBVIOUS
    <3> HIDE DEF P, rg, left
    <3> QED
      BY <1>1, <1>2, <2>3, <2>4, <3>1, MarkNode, SMTT(60)
  <2> HIDE DEF left, right
  <2>6. m \in Trees /\ (\A x \in Ids \ {id} : m[x] = right[x])
        /\ m[id] = [right[id] EXCEPT !.push_down = FALSE]
    <3> DEFINE nd == [right[id] EXCEPT !.push_down = FALSE]
    <3>1. nd \in Node
      BY <1>2, <2>5 DEF Trees, Node
    <3>2. m = [right EXCEPT ![id] = nd]
      BY <2>1
    <3> HIDE DEF nd
    <3>3. m \in Trees /\ (\A x \in Ids \ {id} : m[x] = right[x]) /\ m[id] = nd
      BY <1>2, <2>5, <3>1, <3>2 DEF Trees
    <3> QED
      BY <3>3 DEF nd
  <2>7. right[id] = n[id] /\ n[id] \in Node
    BY <1>2, <1>3, <2>4, <2>5 DEF Trees
  <2>8. /\ ~ m[id].push_down /\ m[id].len = n[id].len
        /\ m[id].l_len = n[id].l_len /\ m[id].r_len = n[id].r_len
    BY <2>6, <2>7 DEF Node
  <2>9. Tells(m[id], lf, rg, F)
    BY <1>5, <2>8 DEF Tells
  <2>10. \A x \in Ids \ Below(k, id) : m[x] = n[x]
    BY <1>4, <2>4, <2>5, <2>6
  <2>11. /\ Below(k - 1, 2 * id) \cap Below(k - 1, 2 * id + 1) = {}
         /\ id \notin Below(k - 1, 2 * id) /\ id \notin Below(k - 1, 2 * id + 1)
         /\ 2 * id \in Nat \ {0} /\ 2 * id + 1 \in Nat \ {0}
    BY <1>1, <1>2, ChildrenApart
  <2>12. Below(k - 1, 2 * id) \subseteq Ids /\ Below(k - 1, 2 * id + 1) \subseteq Ids
    BY <1>1, IdsDown, UnderIds
  <2>13. /\ \A x \in Below(k - 1, 2 * id) : m[x] = left[x]
         /\ \A x \in Below(k - 1, 2 * id + 1) : m[x] = right[x]
    <3>1. 2 * id + 1 \in Below(k - 1, 2 * id + 1)
      BY <1>1, <1>2, UnderSelf
    <3>2. 2 * id + 1 \notin Below(k - 1, 2 * id)
      BY <2>11, <3>1
    <3> QED
      BY <2>5, <2>6, <2>11, <2>12, <3>2
  <2>14. Correct(m, F, k - 1, 2 * id, lf)
    <3>1. \A x \in Below(k - 1, 2 * id) : m[x] = left[x]
      BY <2>13
    <3> QED
      BY <1>1, <2>4, <2>11, <3>1, DescribesFrame
  <2>15. Correct(m, F, k - 1, 2 * id + 1, lf + P)
    <3>1. \A x \in Below(k - 1, 2 * id + 1) : m[x] = right[x]
      BY <2>13
    <3> HIDE DEF P
    <3> QED
      BY <1>1, <2>5, <2>11, <3>1, DescribesFrame
  <2> QED
    BY <2>6, <2>8, <2>9, <2>10, <2>14, <2>15
<1> QED
  BY <1>7, <1>8

LEMMA UpdateNode ==
  ASSUME NEW n \in Trees, NEW k \in Nat, k > 0, NEW id, IdOK(k, id), NEW lf \in Nat, NEW F,
         ~ n[id].push_down,
         Correct(n, F, k - 1, 2 * id, lf), Correct(n, F, k - 1, 2 * id + 1, lf + Size(k - 1)),
         NEW m, m = update_node(n, id, lf, lf + Size(k) - 1)
  PROVE  /\ m \in Trees
         /\ \A x \in Ids \ {id} : m[x] = n[x]
         /\ Correct(m, F, k, id, lf)
<1> DEFINE P == Size(k - 1)
           rg == lf + Size(k) - 1
           l == n[2 * id]
           r == n[2 * id + 1]
           ll == l.l_len + (IF l.l_len = P THEN r.l_len ELSE 0)
           rl == r.r_len + (IF r.r_len = P THEN l.r_len ELSE 0)
           ml == MaxOf(MaxOf(l.len, r.len), l.r_len + r.l_len)
           nd == [l_len |-> ll, r_len |-> rl, len |-> ml,
                  push_down |-> n[id].push_down, pd_flag |-> n[id].pd_flag]
<1>1. /\ k - 1 \in Nat /\ P \in Nat \ {0} /\ rg = lf + 2 * P - 1 /\ lf + P \in Nat
      /\ Mid(lf, rg) - lf + 1 = P /\ rg - Mid(lf, rg) = P
  <2>1. /\ k - 1 \in Nat /\ P \in Nat \ {0} /\ rg = lf + 2 * P - 1
        /\ Mid(lf, rg) - lf + 1 = P /\ rg - Mid(lf, rg) = P
    BY Halves
  <2> HIDE DEF P, rg
  <2> QED
    BY <2>1
<1>2. id \in Nat \ {0} /\ id \in Ids /\ 2 * id \in Ids /\ 2 * id + 1 \in Ids
      /\ 2 * id \in Nat \ {0} /\ 2 * id + 1 \in Nat \ {0}
  BY IdsDown, <1>1 DEF IdOK
<1>3. n[id] \in Node /\ l \in Node /\ r \in Node
  BY <1>2 DEF Trees
<1>4. Tells(l, lf, lf + P - 1, F) /\ Tells(r, lf + P, lf + P + P - 1, F)
  <2>1. Tells(n[2 * id], lf, lf + Size(k - 1) - 1, F)
    BY <1>1, <1>2, DescribesNext
  <2>2. Tells(n[2 * id + 1], lf + Size(k - 1), lf + Size(k - 1) + Size(k - 1) - 1, F)
    BY <1>1, <1>2, DescribesNext
  <2> QED
    BY <2>1, <2>2
<1>5. m = [n EXCEPT ![id] = nd]
  <2>1. m = [n EXCEPT ![id].l_len = ll, ![id].r_len = rl, ![id].len = ml]
    BY <1>1 DEF update_node
  <2> HIDE DEF ll, rl, ml
  <2> QED
    BY <1>2, <1>3, <2>1 DEF Trees, Node
<1> HIDE DEF P, rg
<1>6. lf + 2 * P - 1 = rg /\ lf + P + P - 1 = rg
  BY <1>1
<1>7. Tells(nd, lf, rg, F)
  <2>1. /\ LeftRun(l.l_len, lf, lf + P - 1, F) /\ RightRun(l.r_len, lf, lf + P - 1, F)
        /\ LongestRun(l.len, lf, lf + P - 1, F) /\ l.len \in Nat
    BY <1>4 DEF Tells
  <2>2. /\ LeftRun(r.l_len, lf + P, lf + 2 * P - 1, F) /\ RightRun(r.r_len, lf + P, lf + 2 * P - 1, F)
        /\ LongestRun(r.len, lf + P, lf + 2 * P - 1, F) /\ r.len \in Nat
    BY <1>4, <1>6 DEF Tells
  <2> HIDE DEF l, r
  <2>3. LeftRun(ll, lf, lf + 2 * P - 1, F)
    BY <1>1, <2>1, <2>2, LeftRuns
  <2>4. RightRun(rl, lf, lf + 2 * P - 1, F)
    BY <1>1, <2>1, <2>2, RightRuns
  <2>5. LongestRun(ml, lf, lf + 2 * P - 1, F)
    BY <1>1, <2>1, <2>2, LongestRuns
  <2>6. ml \in Nat
    <3>1. l.r_len \in Nat /\ r.l_len \in Nat
      BY <1>1, <2>1, <2>2 DEF LeftRun, RightRun
    <3> QED
      BY <2>1, <2>2, <3>1 DEF MaxOf
  <2> HIDE DEF ll, rl, ml
  <2> QED
    BY <1>6, <2>3, <2>4, <2>5, <2>6 DEF Tells
<1>8. nd \in Node
  <2>1. ll \in Int /\ rl \in Int
    BY <1>3 DEF Node
  <2>2. ml \in Int
    BY <1>3 DEF Node, MaxOf
  <2> HIDE DEF ll, rl, ml
  <2> QED
    BY <1>3, <2>1, <2>2 DEF Node
<1> HIDE DEF l, r
<1>9. ~ nd.push_down
  BY DEF nd
<1> HIDE DEF nd
<1>10. m \in Trees /\ m[id] = nd /\ \A x \in Ids \ {id} : m[x] = n[x]
  BY <1>2, <1>5, <1>8 DEF Trees
<1>11. Below(k - 1, 2 * id) \subseteq Ids /\ Below(k - 1, 2 * id + 1) \subseteq Ids
  BY <1>1, IdsDown, UnderIds
<1>12. id \notin Below(k - 1, 2 * id) /\ id \notin Below(k - 1, 2 * id + 1)
  BY <1>1, <1>2, ChildrenApart
<1>13. Correct(m, F, k - 1, 2 * id, lf)
  <2>1. \A x \in Below(k - 1, 2 * id) : m[x] = n[x]
    BY <1>10, <1>11, <1>12
  <2> QED
    BY <1>1, <1>2, <2>1, DescribesFrame
<1>14. Correct(m, F, k - 1, 2 * id + 1, lf + P)
  <2>1. \A x \in Below(k - 1, 2 * id + 1) : m[x] = n[x]
    BY <1>10, <1>11, <1>12
  <2>2. Correct(n, F, k - 1, 2 * id + 1, lf + P)
    BY DEF P
  <2> QED
    BY <1>1, <1>2, <2>1, <2>2, DescribesFrame
<1>15. Correct(m, F, k, id, lf)
  BY <1>2, <1>7, <1>9, <1>10, <1>13, <1>14, DescribesNext DEF P, rg
<1> QED
  BY <1>10, <1>15

-----------------------------------------------------------------------------
(* _alloc and _dealloc. *)

Marked(L, R, taken, k, n, id, lf) == marking(L, R, taken)[k][n][id][lf]

Marks(L, R, lf, rg) == L <= lf /\ rg <= R

LEMMA MarkedNext ==
  ASSUME NEW L \in Nat, NEW R \in Nat, NEW taken \in BOOLEAN,
         NEW k \in Nat, NEW n \in Trees, NEW id \in Ids, NEW lf \in Nat
  PROVE  LET rg  == lf + Size(k) - 1
             mid == Mid(lf, rg)
             n0  == push_down(n, id, lf, rg)
             n1  == IF L <= mid THEN Marked(L, R, taken, k - 1, n0, 2 * id, lf) ELSE n0
             n2  == IF R > mid THEN Marked(L, R, taken, k - 1, n1, 2 * id + 1, mid + 1) ELSE n1
         IN  Marked(L, R, taken, k, n, id, lf) =
               IF k = 0 \/ Marks(L, R, lf, rg) THEN mark_node(n, id, taken, rg - lf + 1)
               ELSE update_node(n2, id, lf, rg)
<1> DEFINE below == marking(L, R, taken)[k - 1]
           rg  == lf + Size(k) - 1
           mid == Mid(lf, rg)
           n0  == push_down(n, id, lf, rg)
           n1  == IF L <= mid THEN below[n0][2 * id][lf] ELSE n0
           n2  == IF R > mid THEN below[n1][2 * id + 1][mid + 1] ELSE n1
<1>1. marking(L, R, taken)[k] = MarkLevel(L, R, taken, k, below)
  BY MarkingSpec
<1> HIDE DEF below
<1>2. MarkLevel(L, R, taken, k, below)[n][id][lf] =
        IF k = 0 \/ Marks(L, R, lf, rg) THEN mark_node(n, id, taken, rg - lf + 1)
        ELSE update_node(n2, id, lf, rg)
  BY DEF MarkLevel, Size, Marks
<1>3. Marked(L, R, taken, k, n, id, lf) =
        IF k = 0 \/ Marks(L, R, lf, rg) THEN mark_node(n, id, taken, rg - lf + 1)
        ELSE update_node(n2, id, lf, rg)
  BY <1>1, <1>2 DEF Marked
<1> QED
  BY <1>3 DEF below, Marked

\* The bytes that are free once L .. R are taken, or free.
After(F, L, R, taken) == IF taken THEN F \ (L .. R) ELSE F \union (L .. R)

\* What _alloc and _dealloc are to do with the tree.
MarksRight(F, L, R, taken, k, id, lf, n, m) ==
  /\ m \in Trees
  /\ \A x \in Ids \ Below(k, id) : m[x] = n[x]
  /\ Correct(m, After(F, L, R, taken), k, id, lf)

LEMMA MarkedWhole ==
  ASSUME NEW L \in Nat, NEW R \in Nat, NEW taken \in BOOLEAN, NEW F, L .. R \subseteq Pool,
         NEW k \in Nat, NEW n \in Trees, NEW id, IdOK(k, id), NEW lf \in Nat,
         Marks(L, R, lf, lf + Size(k) - 1)
  PROVE  MarksRight(F, L, R, taken, k, id, lf, n, Marked(L, R, taken, k, n, id, lf))
<1> DEFINE P == Size(k)
           G == After(F, L, R, taken)
           m == Marked(L, R, taken, k, n, id, lf)
<1>1. P \in Nat \ {0} /\ id \in Ids /\ id \in Nat
  BY SizeDoubles, IdsDown DEF IdOK
<1>2. m = mark_node(n, id, taken, P)
  <2>1. m = mark_node(n, id, taken, lf + P - 1 - lf + 1)
    BY <1>1, MarkedNext
  <2>2. lf + P - 1 - lf + 1 = P
    BY <1>1
  <2> HIDE DEF P, m
  <2> QED
    BY <2>1, <2>2
<1>3. Whole(taken, lf, lf + P - 1, G)
  <2>1. lf .. lf + P - 1 \subseteq L .. R
    BY <1>1 DEF Marks
  <2> HIDE DEF P
  <2> QED
    BY <2>1 DEF Whole, After
<1>4. P = Size(k)
  OBVIOUS
<1> HIDE DEF P, m, G
<1>5. m \in Trees /\ (\A x \in Ids \ {id} : m[x] = n[x]) /\ Correct(m, G, k, id, lf)
  BY <1>1, <1>2, <1>3, <1>4, MarkNode, SMTT(60)
<1>6. id \in Below(k, id)
  BY <1>1, UnderSelf
<1> QED
  BY <1>5, <1>6 DEF MarksRight, m, G

MarksLevel(F, L, R, taken, k) ==
  \A n \in Trees, id \in Nat, lf \in Nat :
    /\ IdOK(k, id) /\ Correct(n, F, k, id, lf)
    /\ L <= lf + Size(k) - 1 /\ lf <= R
    => MarksRight(F, L, R, taken, k, id, lf, n, Marked(L, R, taken, k, n, id, lf))

LEMMA MarkedParts ==
  ASSUME NEW L \in Nat, NEW R \in Nat, NEW taken \in BOOLEAN, NEW F,
         NEW k \in Nat, k > 0, MarksLevel(F, L, R, taken, k - 1),
         NEW n \in Trees, NEW id, IdOK(k, id), NEW lf \in Nat, Correct(n, F, k, id, lf),
         L <= lf + Size(k) - 1, lf <= R, ~ Marks(L, R, lf, lf + Size(k) - 1)
  PROVE  MarksRight(F, L, R, taken, k, id, lf, n, Marked(L, R, taken, k, n, id, lf))
<1> DEFINE P == Size(k - 1)
           rg == lf + Size(k) - 1
           mid == Mid(lf, rg)
           G == After(F, L, R, taken)
           i == 2 * id
           j == 2 * id + 1
           n0 == push_down(n, id, lf, rg)
           n1 == IF L <= mid THEN Marked(L, R, taken, k - 1, n0, i, lf) ELSE n0
           n2 == IF R > mid THEN Marked(L, R, taken, k - 1, n1, j, mid + 1) ELSE n1
           m == Marked(L, R, taken, k, n, id, lf)
<1>1. /\ k - 1 \in Nat /\ P \in Nat \ {0} /\ rg = lf + 2 * P - 1
      /\ mid = lf + P - 1 /\ mid + 1 = lf + P
  BY Halves
<1>2. id \in Nat \ {0} /\ id \in Ids /\ i \in Nat \ {0} /\ j \in Nat \ {0} /\ i \in Ids /\ j \in Ids
      /\ IdOK(k - 1, i) /\ IdOK(k - 1, j)
  BY IdsDown, <1>1 DEF IdOK
<1>3. m = update_node(n2, id, lf, rg)
  BY <1>2, MarkedNext
<1>4. /\ n0 \in Trees
      /\ \A x \in Ids \ Below(k, id) : n0[x] = n[x]
      /\ ~ n0[id].push_down
      /\ Correct(n0, F, k - 1, i, lf) /\ Correct(n0, F, k - 1, j, lf + P)
  BY PushDown
<1>5. /\ Below(k - 1, i) \cap Below(k - 1, j) = {}
      /\ id \notin Below(k - 1, i) /\ id \notin Below(k - 1, j)
  BY <1>1, <1>2, ChildrenApart
<1>6. Below(k - 1, i) \subseteq Ids /\ Below(k - 1, j) \subseteq Ids
  BY <1>1, <1>2, UnderIds
<1>7. Below(k, id) = {id} \union Below(k - 1, i) \union Below(k - 1, j)
  <2>1. Below((k - 1) + 1, id) = {id} \union Below(k - 1, 2 * id) \union Below(k - 1, 2 * id + 1)
    BY <1>1, <1>2, UnderNext
  <2> QED
    BY <2>1, <1>1
<1>8. L .. R \subseteq Int
  OBVIOUS
<1>9. P = Size(k - 1) /\ lf + P \in Nat
  BY <1>1
<1>10. lf <= rg /\ L <= rg
  BY <1>1
<1> HIDE DEF n0, P, mid, G, i, j
<1>11. /\ n1 \in Trees
       /\ \A x \in Ids \ Below(k - 1, i) : n1[x] = n0[x]
       /\ Correct(n1, G, k - 1, i, lf)
  <2>1. CASE L <= mid
    <3>1. L <= lf + Size(k - 1) - 1
      BY <1>1, <1>9, <2>1
    <3>2. MarksRight(F, L, R, taken, k - 1, i, lf, n0, Marked(L, R, taken, k - 1, n0, i, lf))
      BY <1>2, <1>4, <3>1 DEF MarksLevel
    <3>3. n1 = Marked(L, R, taken, k - 1, n0, i, lf)
      BY <2>1
    <3> QED
      BY <3>2, <3>3 DEF MarksRight, G
  <2>2. CASE ~ (L <= mid)
    <3>1. n1 = n0
      BY <2>2
    <3>2. SameBytes(F, G, lf, lf + Size(k - 1) - 1)
      <4>1. \A x \in lf .. lf + P - 1 : x \notin L .. R
        BY <1>1, <2>2
      <4> QED
        BY <4>1, <1>9 DEF SameBytes, After, G
    <3> HIDE DEF n1
    <3>3. Correct(n1, G, k - 1, i, lf)
      BY <1>1, <1>2, <1>4, <3>1, <3>2, DescribesSame
    <3> QED
      BY <1>4, <3>1, <3>3
  <2> QED
    BY <2>1, <2>2
<1> HIDE DEF n1
<1>12. Correct(n1, F, k - 1, j, lf + P)
  <2>1. \A x \in Below(k - 1, j) : n1[x] = n0[x]
    BY <1>5, <1>6, <1>11
  <2> QED
    BY <1>1, <1>2, <1>4, <1>9, <2>1, DescribesFrame
<1>13. /\ n2 \in Trees
       /\ \A x \in Ids \ Below(k - 1, j) : n2[x] = n1[x]
       /\ Correct(n2, G, k - 1, j, lf + P)
  <2>1. CASE R > mid
    <3>1. L <= (lf + P) + Size(k - 1) - 1 /\ lf + P <= R
      BY <1>1, <1>9, <1>10, <2>1
    <3>2. MarksRight(F, L, R, taken, k - 1, j, lf + P, n1, Marked(L, R, taken, k - 1, n1, j, lf + P))
      BY <1>2, <1>9, <1>11, <1>12, <3>1 DEF MarksLevel
    <3>3. n2 = Marked(L, R, taken, k - 1, n1, j, lf + P)
      BY <1>1, <2>1
    <3> QED
      BY <3>2, <3>3 DEF MarksRight, G
  <2>2. CASE ~ (R > mid)
    <3>1. n2 = n1
      BY <2>2
    <3>2. SameBytes(F, G, lf + P, lf + P + Size(k - 1) - 1)
      <4>1. \A x \in lf + P .. lf + P + P - 1 : x \notin L .. R
        BY <1>1, <2>2
      <4> QED
        BY <4>1, <1>9 DEF SameBytes, After, G
    <3> HIDE DEF n2
    <3>3. Correct(n2, G, k - 1, j, lf + P)
      BY <1>1, <1>2, <1>9, <1>12, <3>1, <3>2, DescribesSame
    <3> QED
      BY <1>11, <3>1, <3>3
  <2> QED
    BY <2>1, <2>2
<1> HIDE DEF n2, m, rg
<1>14. Correct(n2, G, k - 1, i, lf)
  <2>1. \A x \in Below(k - 1, i) : n2[x] = n1[x]
    BY <1>5, <1>6, <1>13
  <2> QED
    BY <1>1, <1>2, <1>11, <2>1, DescribesFrame
<1>15. ~ n2[id].push_down
  BY <1>2, <1>4, <1>5, <1>11, <1>13
<1>16. m \in Trees /\ (\A x \in Ids \ {id} : m[x] = n2[x]) /\ Correct(m, G, k, id, lf)
  BY <1>3, <1>13, <1>14, <1>15, UpdateNode DEF i, j, P, rg
<1>17. \A x \in Ids \ Below(k, id) : m[x] = n[x]
  BY <1>4, <1>7, <1>11, <1>13, <1>16
<1> QED
  BY <1>16, <1>17 DEF MarksRight, m, G

\* _alloc and _dealloc leave the tree right about the bytes left free.
LEMMA MarkingRight ==
  ASSUME NEW L \in Nat, NEW R \in Nat, NEW taken \in BOOLEAN, NEW F, L .. R \subseteq Pool
  PROVE  \A k \in Nat : MarksLevel(F, L, R, taken, k)
<1> DEFINE T == {k \in Nat : MarksLevel(F, L, R, taken, k)}
<1>1. ASSUME NEW k \in Nat, k > 0 => MarksLevel(F, L, R, taken, k - 1)
      PROVE  MarksLevel(F, L, R, taken, k)
  <2> SUFFICES ASSUME NEW n \in Trees, NEW id \in Nat, NEW lf \in Nat, IdOK(k, id),
                      Correct(n, F, k, id, lf), L <= lf + Size(k) - 1, lf <= R
               PROVE  MarksRight(F, L, R, taken, k, id, lf, n, Marked(L, R, taken, k, n, id, lf))
    BY DEF MarksLevel
  <2>1. CASE Marks(L, R, lf, lf + Size(k) - 1)
    BY <2>1, MarkedWhole
  <2>2. CASE ~ Marks(L, R, lf, lf + Size(k) - 1)
    <3>1. k > 0
      <4> SUFFICES ASSUME k = 0 PROVE FALSE
        OBVIOUS
      <4>1. lf + Size(k) - 1 = lf
        BY SizeDoubles
      <4> QED
        BY <2>2, <4>1 DEF Marks
    <3> QED
      BY <1>1, <2>2, <3>1, MarkedParts
  <2> QED
    BY <2>1, <2>2
<1>2. 0 \in T
  BY <1>1
<1>3. ASSUME NEW k \in T PROVE k + 1 \in T
  <2>1. k + 1 \in Nat /\ (k + 1) - 1 = k /\ MarksLevel(F, L, R, taken, k)
    OBVIOUS
  <2> QED
    BY <1>1, <2>1
<1>4. T \in SUBSET Nat
  OBVIOUS
<1>5. T = Nat
  <2> HIDE DEF T
  <2> QED
    BY <1>2, <1>3, <1>4, AllNat
<1> QED
  BY <1>5

-----------------------------------------------------------------------------
(* Multiples of the leaf. *)

Mult(x) == \E q \in Int : x = UNIT * q

LEMMA MultSum ==
  ASSUME NEW a, NEW b, Mult(a), Mult(b)
  PROVE  Mult(a + b) /\ Mult(a - b)
<1>1. PICK p \in Int : a = UNIT * p
  BY DEF Mult
<1>2. PICK q \in Int : b = UNIT * q
  BY DEF Mult
<1>3. a + b = UNIT * (p + q) /\ a - b = UNIT * (p - q) /\ p + q \in Int /\ p - q \in Int
  BY <1>1, <1>2, Constants
<1> QED
  BY <1>3 DEF Mult

LEMMA MultBasic == Mult(0) /\ Mult(UNIT)
<1>1. 0 = UNIT * 0 /\ UNIT = UNIT * 1
  BY Constants
<1> QED
  BY <1>1 DEF Mult

LEMMA MultTimes ==
  ASSUME NEW a, NEW c \in Int, Mult(a)
  PROVE  Mult(a * c)
<1>1. PICK p \in Int : a = UNIT * p
  BY DEF Mult
<1>2. a * c = UNIT * (p * c) /\ p * c \in Int
  BY <1>1, Constants
<1> QED
  BY <1>2 DEF Mult

LEMMA MultAtLeast ==
  ASSUME NEW x \in Int, Mult(x), x > 0
  PROVE  x >= UNIT
<1>1. PICK p \in Int : x = UNIT * p
  BY DEF Mult
<1>2. p >= 1
  <2> SUFFICES ASSUME p <= 0 PROVE FALSE
    BY <1>1
  <2>1. UNIT * p <= 0
    BY <1>1, Constants
  <2> QED
    BY <1>1, <2>1
<1>3. UNIT * p = UNIT * (p - 1) + UNIT /\ UNIT * (p - 1) >= 0 /\ UNIT * (p - 1) \in Int
  BY <1>2, Constants
<1> QED
  BY <1>1, <1>3, Constants

LEMMA DivMod ==
  ASSUME NEW x \in Int, NEW a \in Nat \ {0}
  PROVE  x = a * (x \div a) + (x % a) /\ x \div a \in Int /\ x % a \in 0 .. a - 1
  OBVIOUS

\* The quotient and the remainder are the only ones.
LEMMA DivOnly ==
  ASSUME NEW a \in Nat \ {0}, NEW p \in Int, NEW r \in 0 .. a - 1
  PROVE  (a * p + r) \div a = p /\ (a * p + r) % a = r
<1> DEFINE x == a * p + r
           q == x \div a
           s == x % a
<1>1. x \in Int
  OBVIOUS
<1> HIDE DEF x
<1>2. q \in Int /\ s \in 0 .. a - 1 /\ x = a * q + s
  BY <1>1, DivMod
<1> HIDE DEF q, s
<1>3. a * p + r = a * q + s
  BY <1>2 DEF x
<1>4. p = q
  <2>1. CASE p < q
    <3>1. a * q = a * p + a * (q - p) /\ a * (q - p) = a * (q - p - 1) + a /\ a * (q - p - 1) >= 0
      BY <1>2, <2>1
    <3>2. a * q \in Int /\ a * p \in Int /\ a * (q - p) \in Int /\ a * (q - p - 1) \in Int
      BY <1>2
    <3> QED
      BY <1>2, <1>3, <3>1, <3>2
  <2>2. CASE q < p
    <3>1. a * p = a * q + a * (p - q) /\ a * (p - q) = a * (p - q - 1) + a /\ a * (p - q - 1) >= 0
      BY <1>2, <2>2
    <3>2. a * q \in Int /\ a * p \in Int /\ a * (p - q) \in Int /\ a * (p - q - 1) \in Int
      BY <1>2
    <3> QED
      BY <1>2, <1>3, <3>1, <3>2
  <2> QED
    BY <1>2, <2>1, <2>2
<1>5. r = s
  BY <1>2, <1>3, <1>4
<1> QED
  BY <1>4, <1>5 DEF q, s, x

LEMMA MultMod ==
  ASSUME NEW x \in Int
  PROVE  Mult(x) <=> x % UNIT = 0
<1>1. UNIT \in Nat \ {0}
  BY Constants
<1>2. ASSUME Mult(x) PROVE x % UNIT = 0
  <2>1. PICK p \in Int : x = UNIT * p
    BY <1>2 DEF Mult
  <2>2. 0 \in 0 .. UNIT - 1 /\ UNIT * p + 0 = x
    BY <1>1, <2>1
  <2>3. (UNIT * p + 0) % UNIT = 0
    BY <1>1, <2>2, DivOnly
  <2> QED
    BY <2>2, <2>3
<1>3. ASSUME x % UNIT = 0 PROVE Mult(x)
  <2> DEFINE q == x \div UNIT
             r == x % UNIT
  <2>1. x = UNIT * q + r /\ q \in Int
    BY <1>1, DivMod
  <2>2. r = 0
    BY <1>3
  <2> HIDE DEF q, r
  <2>3. x = UNIT * q
    BY <1>1, <2>1, <2>2
  <2> QED
    BY <2>1, <2>3 DEF Mult
<1> QED
  BY <1>2, <1>3

\* The leaves are a level above the bytes, and levels above it whole leaves.
LEMMA LeafLevel == \E u \in Nat \ {0} : Size(u) = UNIT
<1>1. PICK u \in 0 .. UNIT : UNIT = Pow2[u]
  BY AllocatorAssumption DEF PowerOfTwo
<1>2. u \in Nat /\ Size(u) = UNIT
  BY <1>1, Constants DEF Size
<1>3. u # 0
  BY <1>2, SizeDoubles, Constants
<1> QED
  BY <1>2, <1>3

LEMMA LevelSizes ==
  ASSUME NEW u \in Nat, Size(u) = UNIT
  PROVE  \A k \in Nat : /\ k >= u => Mult(Size(k))
                        /\ k > u => Size(k) >= 2 * UNIT
                        /\ k <= u => Size(k) <= UNIT
<1>0. UNIT \in Nat /\ UNIT >= 2
  BY Constants
<1>1. \A k \in Nat : Size(k) \in Nat \ {0} /\ Size(k + 1) = 2 * Size(k)
  BY SizeDoubles
<1>2. \A k \in Nat : k > u => Mult(Size(k)) /\ Size(k) >= 2 * UNIT
  <2> DEFINE T == {k \in Nat : k > u => Mult(Size(k)) /\ Size(k) >= 2 * UNIT}
  <2>1. 0 \in T
    OBVIOUS
  <2>2. ASSUME NEW k \in T PROVE k + 1 \in T
    <3> SUFFICES ASSUME k + 1 > u PROVE Mult(Size(k + 1)) /\ Size(k + 1) >= 2 * UNIT
      OBVIOUS
    <3>1. Mult(Size(k)) /\ Size(k) >= UNIT
      <4>1. CASE k = u
        BY <4>1, MultBasic, <1>0
      <4>2. CASE k # u
        BY <4>2, <1>0, <1>1
      <4> QED
        BY <4>1, <4>2
    <3>2. Mult(Size(k) + Size(k)) /\ Size(k + 1) = Size(k) + Size(k)
      BY <1>1, <3>1, MultSum
    <3> QED
      BY <1>0, <1>1, <3>1, <3>2
  <2>3. T \in SUBSET Nat
    OBVIOUS
  <2>4. T = Nat
    <3> HIDE DEF T
    <3> QED
      BY <2>1, <2>2, <2>3, AllNat
  <2> QED
    BY <2>4
<1>3. \A j \in Nat : j <= u => Size(u - j) <= UNIT
  <2> DEFINE T == {j \in Nat : j <= u => Size(u - j) <= UNIT}
  <2>1. 0 \in T
    BY <1>0
  <2>2. ASSUME NEW j \in T PROVE j + 1 \in T
    <3> SUFFICES ASSUME j + 1 <= u PROVE Size(u - (j + 1)) <= UNIT
      OBVIOUS
    <3>1. u - (j + 1) \in Nat /\ (u - (j + 1)) + 1 = u - j
      OBVIOUS
    <3>2. Size(u - j) = 2 * Size(u - (j + 1)) /\ Size(u - (j + 1)) \in Nat
      BY <1>1, <3>1
    <3> QED
      BY <1>0, <3>2
  <2>3. T \in SUBSET Nat
    OBVIOUS
  <2>4. T = Nat
    <3> HIDE DEF T
    <3> QED
      BY <2>1, <2>2, <2>3, AllNat
  <2> QED
    BY <2>4
<1>4. ASSUME NEW k \in Nat, k <= u PROVE Size(k) <= UNIT
  <2>1. u - k \in Nat /\ u - (u - k) = k
    BY <1>4
  <2> QED
    BY <1>3, <1>4, <2>1
<1> QED
  BY <1>2, <1>4, MultBasic

-----------------------------------------------------------------------------
(* _find. *)

Found(size, k, n, id, lf) == finding(size)[k][n][id][lf]

\* One level of the descent.
FoundStep(size, k, n, id, lf) ==
  LET rg  == lf + Size(k) - 1
      mid == Mid(lf, rg)
      m   == push_down(n, id, lf, rg)
      l   == m[2 * id]
      r   == m[2 * id + 1]
  IN  IF k = 0 \/ n[id].len < size THEN [pos |-> nullptr, tree |-> n]
      ELSE IF rg - lf = UNIT THEN [pos |-> lf, tree |-> n]
      ELSE IF l.len >= size THEN Found(size, k - 1, m, 2 * id, lf)
      ELSE IF l.r_len + r.l_len >= size THEN [pos |-> mid - l.r_len + 1, tree |-> m]
      ELSE IF r.len >= size THEN Found(size, k - 1, m, 2 * id + 1, mid + 1)
      ELSE [pos |-> nullptr, tree |-> m]

LEMMA FoundNext ==
  ASSUME NEW size \in Nat, NEW k \in Nat, NEW n \in Trees, NEW id \in Ids, NEW lf \in Nat
  PROVE  Found(size, k, n, id, lf) = FoundStep(size, k, n, id, lf)
<1> DEFINE below == finding(size)[k - 1]
           rg  == lf + Size(k) - 1
           mid == Mid(lf, rg)
           m   == push_down(n, id, lf, rg)
           l   == m[2 * id]
           r   == m[2 * id + 1]
<1>1. finding(size)[k] = FindLevel(size, k, below)
  BY FindingSpec
<1> HIDE DEF below
<1>2. FindLevel(size, k, below)[n][id][lf] =
               IF k = 0 \/ n[id].len < size THEN [pos |-> nullptr, tree |-> n]
               ELSE IF rg - lf = UNIT THEN [pos |-> lf, tree |-> n]
               ELSE IF l.len >= size THEN below[m][2 * id][lf]
               ELSE IF l.r_len + r.l_len >= size THEN [pos |-> mid - l.r_len + 1, tree |-> m]
               ELSE IF r.len >= size THEN below[m][2 * id + 1][mid + 1]
               ELSE [pos |-> nullptr, tree |-> m]
  BY DEF FindLevel, Size
<1>3. Found(size, k, n, id, lf) = FindLevel(size, k, below)[n][id][lf]
  BY <1>1 DEF Found
<1> QED
  BY <1>2, <1>3 DEF below, Found, FoundStep

\* What _find is to give, and to leave.
FindsRight(F, size, k, id, lf, n, f) ==
  /\ f.tree \in Trees
  /\ \A x \in Ids \ Below(k, id) : f.tree[x] = n[x]
  /\ Correct(f.tree, F, k, id, lf)
  /\ IF n[id].len < size THEN f.pos = nullptr
     ELSE /\ f.pos \in Int /\ lf <= f.pos /\ f.pos + size <= lf + Size(k)
          /\ f.pos .. f.pos + size - 1 \subseteq F
          /\ Mult(f.pos)

FindsLevel(F, size, k) ==
  \A n \in Trees, id \in Nat, lf \in Nat :
    IdOK(k, id) /\ Correct(n, F, k, id, lf) /\ Mult(lf)
    => FindsRight(F, size, k, id, lf, n, Found(size, k, n, id, lf))

LEMMA LongestOnly ==
  ASSUME NEW x \in Nat, NEW y \in Nat, NEW lf \in Nat, NEW rg \in Nat, NEW F,
         LongestRun(x, lf, rg, F), LongestRun(y, lf, rg, F)
  PROVE  x = y
<1>1. ASSUME NEW p \in Nat, NEW q \in Nat, LongestRun(p, lf, rg, F), LongestRun(q, lf, rg, F)
      PROVE  p <= q
  <2>1. PICK a \in lf .. rg : a + p - 1 <= rg /\ a .. a + p - 1 \subseteq F
    BY <1>1 DEF LongestRun
  <2>2. CASE p = 0
    BY <2>2
  <2>3. CASE p # 0
    <3> DEFINE b == a + p - 1
    <3>1. b \in lf .. rg /\ a .. b \subseteq F /\ b - a + 1 = p
      BY <2>1, <2>3
    <3> HIDE DEF b
    <3>2. b - a + 1 <= q
      BY <1>1, <3>1 DEF LongestRun
    <3> QED
      BY <3>1, <3>2
  <2> QED
    BY <2>2, <2>3
<1> QED
  BY <1>1

\* A free run changes at the edges of leaves.
Edges(F) == \A x \in Int : Mult(x) \/ (x \in F <=> x - 1 \in F)

\* What a node and its children say of the longest run.
LEMMA Children ==
  ASSUME NEW n \in Trees, NEW k \in Nat, k > 0, NEW id, IdOK(k, id), NEW lf \in Nat, NEW F,
         Tells(n[id], lf, lf + Size(k) - 1, F),
         Correct(n, F, k - 1, 2 * id, lf), Correct(n, F, k - 1, 2 * id + 1, lf + Size(k - 1))
  PROVE  LET P == Size(k - 1)
             l == n[2 * id]
             r == n[2 * id + 1]
         IN  /\ l.len \in Nat /\ r.len \in Nat /\ l.r_len \in 0 .. P /\ r.l_len \in 0 .. P
             /\ l.len <= P /\ r.len <= P
             /\ n[id].len = MaxOf(MaxOf(l.len, r.len), l.r_len + r.l_len)
             /\ lf + P - l.r_len .. lf + P + r.l_len - 1 \subseteq F
             /\ l.r_len < P => lf + P - l.r_len - 1 \notin F
<1> DEFINE P == Size(k - 1)
           l == n[2 * id]
           r == n[2 * id + 1]
           mid == lf + P - 1
           rg == lf + 2 * P - 1
<1>1. /\ k - 1 \in Nat /\ P \in Nat \ {0} /\ lf + Size(k) - 1 = rg /\ lf + P \in Nat
  <2>1. k - 1 \in Nat /\ P \in Nat \ {0} /\ lf + Size(k) - 1 = rg
    BY Halves
  <2> HIDE DEF P, rg
  <2> QED
    BY <2>1
<1>2. 2 * id \in Nat /\ 2 * id + 1 \in Nat
  BY DEF IdOK
<1>3. Tells(l, lf, mid, F) /\ Tells(r, lf + P, lf + P + P - 1, F)
  BY <1>1, <1>2, DescribesNext
<1>4. Tells(n[id], lf, rg, F)
  BY <1>1
<1> DEFINE len == n[id].len
           ln == l.len
           rn == r.len
           lr == l.r_len
           rl == r.l_len
<1> HIDE DEF P
<1>5. /\ RightRun(lr, lf, lf + P - 1, F) /\ LongestRun(ln, lf, lf + P - 1, F) /\ ln \in Nat
      /\ LeftRun(rl, lf + P, lf + 2 * P - 1, F) /\ LongestRun(rn, lf + P, lf + 2 * P - 1, F) /\ rn \in Nat
      /\ LongestRun(len, lf, lf + 2 * P - 1, F) /\ len \in Nat
  <2>1. lf + P + P - 1 = lf + 2 * P - 1
    BY <1>1
  <2> QED
    BY <1>3, <1>4, <2>1 DEF Tells
<1> HIDE DEF l, r, len, ln, rn, lr, rl
<1>6. lr \in 0 .. P /\ rl \in 0 .. P
  BY <1>1, <1>5 DEF RightRun, LeftRun
<1>7. len = MaxOf(MaxOf(ln, rn), lr + rl)
  <2> DEFINE x == MaxOf(MaxOf(ln, rn), lr + rl)
  <2>1. LongestRun(x, lf, lf + 2 * P - 1, F)
    BY <1>1, <1>5, LongestRuns
  <2>2. x \in Nat
    BY <1>5, <1>6 DEF MaxOf
  <2>3. lf + 2 * P - 1 \in Nat
    BY <1>1
  <2> HIDE DEF x
  <2>4. len = x
    BY <1>5, <2>1, <2>2, <2>3, LongestOnly
  <2> QED
    BY <2>4 DEF x
<1>8. ln <= P /\ rn <= P
  BY <1>1, <1>5 DEF LongestRun
<1>9. lf + P - lr .. lf + P + rl - 1 \subseteq F
  <2>1. mid - lr + 1 .. mid \subseteq F /\ lf + P .. lf + P + rl - 1 \subseteq F
    BY <1>1, <1>5 DEF RightRun, LeftRun
  <2> QED
    BY <1>1, <1>6, <2>1
<1>10. lr < P => lf + P - lr - 1 \notin F
  BY <1>1, <1>5, <1>6 DEF RightRun
<1> QED
  BY <1>5, <1>6, <1>7, <1>8, <1>9, <1>10 DEF P, l, r, len, ln, rn, lr, rl

\* A node is right when its children are, whatever was done below one of them.
LEMMA Rejoin ==
  ASSUME NEW m \in Trees, NEW k \in Nat, k > 0, NEW id, IdOK(k, id), NEW lf \in Nat, NEW F,
         ~ m[id].push_down, Tells(m[id], lf, lf + Size(k) - 1, F),
         Correct(m, F, k - 1, 2 * id, lf), Correct(m, F, k - 1, 2 * id + 1, lf + Size(k - 1)),
         NEW c, NEW at, \/ c = 2 * id /\ at = lf
                        \/ c = 2 * id + 1 /\ at = lf + Size(k - 1),
         NEW t \in Trees, \A x \in Ids \ Below(k - 1, c) : t[x] = m[x],
         Correct(t, F, k - 1, c, at)
  PROVE  /\ Correct(t, F, k, id, lf)
         /\ \A x \in Ids \ Below(k, id) : t[x] = m[x]
<1> DEFINE i == 2 * id
           j == 2 * id + 1
           mid == lf + Size(k - 1)
<1>1. k - 1 \in Nat /\ mid \in Nat /\ (k - 1) + 1 = k
  BY SizeDoubles
<1>2. id \in Nat \ {0} /\ id \in Ids /\ i \in Nat \ {0} /\ j \in Nat \ {0}
      /\ IdOK(k - 1, i) /\ IdOK(k - 1, j)
  BY IdsDown DEF IdOK
<1>3. /\ Below(k - 1, i) \cap Below(k - 1, j) = {}
      /\ id \notin Below(k - 1, i) /\ id \notin Below(k - 1, j)
  BY <1>1, <1>2, ChildrenApart
<1>4. Below(k - 1, i) \subseteq Ids /\ Below(k - 1, j) \subseteq Ids
  BY <1>1, <1>2, UnderIds
<1>5. Below(k, id) = {id} \union Below(k - 1, i) \union Below(k - 1, j)
  <2>1. Below((k - 1) + 1, id) = {id} \union Below(k - 1, 2 * id) \union Below(k - 1, 2 * id + 1)
    BY <1>1, <1>2, UnderNext
  <2> QED
    BY <2>1, <1>1
<1>6. i # j
  BY <1>2
<1>7. /\ \/ c = i /\ at = lf
         \/ c = j /\ at = mid
      /\ Correct(m, F, k - 1, i, lf) /\ Correct(m, F, k - 1, j, mid)
  OBVIOUS
<1> HIDE DEF i, j, mid
<1>8. t[id] = m[id]
  BY <1>2, <1>3, <1>7
<1>9. Correct(t, F, k - 1, i, lf)
  <2>1. CASE c = i
    BY <1>6, <1>7, <2>1
  <2>2. CASE c = j
    <3>1. \A x \in Below(k - 1, i) : t[x] = m[x]
      BY <1>3, <1>4, <2>2
    <3> QED
      BY <1>1, <1>2, <1>7, <3>1, DescribesFrame
  <2> QED
    BY <1>7, <2>1, <2>2
<1>10. Correct(t, F, k - 1, j, mid)
  <2>1. CASE c = j
    BY <1>6, <1>7, <2>1
  <2>2. CASE c = i
    <3>1. \A x \in Below(k - 1, j) : t[x] = m[x]
      BY <1>3, <1>4, <2>2
    <3> QED
      BY <1>1, <1>2, <1>7, <3>1, DescribesFrame
  <2> QED
    BY <1>7, <2>1, <2>2
<1>11. Correct(t, F, k, id, lf)
  BY <1>2, <1>8, <1>9, <1>10, DescribesNext DEF i, j, mid
<1> QED
  BY <1>5, <1>7, <1>11

LEMMA RejoinLeft ==
  ASSUME NEW m \in Trees, NEW k \in Nat, k > 0, NEW id, IdOK(k, id), NEW lf \in Nat, NEW F,
         ~ m[id].push_down, Tells(m[id], lf, lf + Size(k) - 1, F),
         Correct(m, F, k - 1, 2 * id, lf), Correct(m, F, k - 1, 2 * id + 1, lf + Size(k - 1)),
         NEW t \in Trees, \A x \in Ids \ Below(k - 1, 2 * id) : t[x] = m[x],
         Correct(t, F, k - 1, 2 * id, lf)
  PROVE  /\ Correct(t, F, k, id, lf)
         /\ \A x \in Ids \ Below(k, id) : t[x] = m[x]
<1> DEFINE c == 2 * id
<1>1. /\ \/ c = 2 * id /\ lf = lf
         \/ c = 2 * id + 1 /\ lf = lf + Size(k - 1)
      /\ \A x \in Ids \ Below(k - 1, c) : t[x] = m[x]
      /\ Correct(t, F, k - 1, c, lf)
  OBVIOUS
<1> HIDE DEF c
<1> QED
  BY <1>1, Rejoin, SMTT(60)

LEMMA RejoinRight ==
  ASSUME NEW m \in Trees, NEW k \in Nat, k > 0, NEW id, IdOK(k, id), NEW lf \in Nat, NEW F,
         ~ m[id].push_down, Tells(m[id], lf, lf + Size(k) - 1, F),
         Correct(m, F, k - 1, 2 * id, lf), Correct(m, F, k - 1, 2 * id + 1, lf + Size(k - 1)),
         NEW t \in Trees, \A x \in Ids \ Below(k - 1, 2 * id + 1) : t[x] = m[x],
         Correct(t, F, k - 1, 2 * id + 1, lf + Size(k - 1))
  PROVE  /\ Correct(t, F, k, id, lf)
         /\ \A x \in Ids \ Below(k, id) : t[x] = m[x]
<1> DEFINE c == 2 * id + 1
           at == lf + Size(k - 1)
<1>1. /\ \/ c = 2 * id /\ at = lf
         \/ c = 2 * id + 1 /\ at = lf + Size(k - 1)
      /\ \A x \in Ids \ Below(k - 1, c) : t[x] = m[x]
      /\ Correct(t, F, k - 1, c, at)
  OBVIOUS
<1> HIDE DEF c, at
<1> QED
  BY <1>1, Rejoin, SMTT(60)

LEMMA FoundRight ==
  ASSUME NEW F, Edges(F), NEW size \in Nat \ {0}, Mult(size),
         NEW u \in Nat \ {0}, Size(u) = UNIT,
         NEW k \in Nat, k >= u, k > u => FindsLevel(F, size, k - 1),
         NEW n \in Trees, NEW id, IdOK(k, id), NEW lf \in Nat, Mult(lf), Correct(n, F, k, id, lf)
  PROVE  FindsRight(F, size, k, id, lf, n, Found(size, k, n, id, lf))
<1> DEFINE P == Size(k - 1)
           rg == lf + Size(k) - 1
           mid == Mid(lf, rg)
           m == push_down(n, id, lf, rg)
           l == m[2 * id]
           r == m[2 * id + 1]
           lr == l.r_len
           rl == r.l_len
           f == Found(size, k, n, id, lf)
<1>1. /\ k - 1 \in Nat /\ P \in Nat \ {0} /\ rg = lf + 2 * P - 1 /\ Size(k) = 2 * P
      /\ mid = lf + P - 1 /\ mid + 1 = lf + P /\ rg - lf = 2 * P - 1
  <2>1. k > 0
    OBVIOUS
  <2>2. /\ k - 1 \in Nat /\ P \in Nat \ {0} /\ rg = lf + 2 * P - 1 /\ Size(k) = 2 * P
        /\ mid = lf + P - 1 /\ mid + 1 = lf + P
    BY <2>1, Halves
  <2> HIDE DEF P, rg, mid
  <2> QED
    BY <2>2
<1>2. id \in Nat \ {0} /\ id \in Ids /\ IdOK(k - 1, 2 * id) /\ IdOK(k - 1, 2 * id + 1)
  BY IdsDown DEF IdOK
<1>3. UNIT \in Nat /\ UNIT >= 2 /\ size >= UNIT
  BY Constants, MultAtLeast
<1>4. 2 * P = UNIT \/ (k > u /\ 2 * P >= 2 * UNIT)
  BY <1>1, LevelSizes
<1>5. k > u => Mult(P)
  BY <1>1, LevelSizes
<1>6. /\ m \in Trees
      /\ \A x \in Ids \ Below(k, id) : m[x] = n[x]
      /\ ~ m[id].push_down /\ m[id].len = n[id].len
      /\ Tells(m[id], lf, rg, F)
      /\ Correct(m, F, k - 1, 2 * id, lf)
      /\ Correct(m, F, k - 1, 2 * id + 1, lf + P)
  BY PushDown
<1>7. Correct(m, F, k, id, lf)
  BY <1>2, <1>6, DescribesNext
<1>8. f = IF k = 0 \/ n[id].len < size THEN [pos |-> nullptr, tree |-> n]
          ELSE IF rg - lf = UNIT THEN [pos |-> lf, tree |-> n]
          ELSE IF l.len >= size THEN Found(size, k - 1, m, 2 * id, lf)
          ELSE IF lr + rl >= size THEN [pos |-> mid - lr + 1, tree |-> m]
          ELSE IF r.len >= size THEN Found(size, k - 1, m, 2 * id + 1, mid + 1)
          ELSE [pos |-> nullptr, tree |-> m]
  <2>1. Found(size, k, n, id, lf) = FoundStep(size, k, n, id, lf)
    BY <1>2, FoundNext
  <2> QED
    BY <2>1 DEF FoundStep
<1>9. /\ l.len \in Nat /\ r.len \in Nat /\ lr \in 0 .. P /\ rl \in 0 .. P
      /\ l.len <= P /\ r.len <= P
      /\ m[id].len = MaxOf(MaxOf(l.len, r.len), lr + rl)
      /\ lf + P - lr .. lf + P + rl - 1 \subseteq F
      /\ lr < P => lf + P - lr - 1 \notin F
  BY <1>6, Children
<1>10. rg - lf # UNIT
  BY <1>1, <1>3, <1>4
<1>11. k # 0
  OBVIOUS
<1> HIDE DEF f, m, rg, mid, P
<1>12. CASE n[id].len < size
  <2>1. f = [pos |-> nullptr, tree |-> n]
    BY <1>8, <1>12
  <2> QED
    BY <1>12, <2>1 DEF FindsRight, f
<1>13. CASE ~ (n[id].len < size) /\ l.len >= size
  <2>1. f = Found(size, k - 1, m, 2 * id, lf)
    BY <1>8, <1>10, <1>11, <1>13
  <2>2. k > u
    BY <1>1, <1>3, <1>4, <1>9, <1>13
  <2>3. FindsRight(F, size, k - 1, 2 * id, lf, m, f)
    <3>1. 2 * id \in Nat
      BY <1>2
    <3> QED
      BY <1>2, <1>6, <2>1, <2>2, <3>1 DEF FindsLevel
  <2> DEFINE t == f.tree
  <2>4. /\ t \in Trees /\ (\A x \in Ids \ Below(k - 1, 2 * id) : t[x] = m[x])
        /\ Correct(t, F, k - 1, 2 * id, lf)
        /\ f.pos \in Int /\ lf <= f.pos /\ f.pos + size <= lf + P
        /\ f.pos .. f.pos + size - 1 \subseteq F /\ Mult(f.pos)
    <3>1. ~ (m[2 * id].len < size)
      BY <1>9, <1>13
    <3> QED
      BY <2>3, <3>1 DEF FindsRight, P
  <2> HIDE DEF t
  <2>5. Correct(t, F, k, id, lf) /\ \A x \in Ids \ Below(k, id) : t[x] = m[x]
    BY <1>6, <1>11, <2>4, RejoinLeft, SMTT(60) DEF P, rg
  <2>6. f.pos + size <= lf + Size(k)
    BY <1>1, <2>4
  <2> QED
    BY <1>6, <1>13, <2>4, <2>5, <2>6 DEF FindsRight, f, t
<1>14. CASE ~ (n[id].len < size) /\ ~ (l.len >= size) /\ lr + rl >= size
  <2> DEFINE pos == lf + P - lr
  <2>1. f = [pos |-> pos, tree |-> m]
    <3>1. mid - lr + 1 = pos
      BY <1>1, <1>9
    <3> HIDE DEF pos
    <3> QED
      BY <1>8, <1>10, <1>11, <1>14, <3>1
  <2>2. pos \in Int /\ lf <= pos /\ pos + size <= lf + Size(k)
    BY <1>1, <1>9, <1>14
  <2>3. pos .. pos + size - 1 \subseteq F
    <3>1. pos .. pos + size - 1 \subseteq lf + P - lr .. lf + P + rl - 1
      BY <1>1, <1>9, <1>14
    <3> QED
      BY <1>9, <3>1
  <2>4. Mult(pos)
    <3>1. CASE lr = P
      <4>1. pos = lf
        BY <1>1, <3>1
      <4> QED
        BY <4>1
    <3>2. CASE lr # P /\ lr # 0
      <4>1. pos - 1 \notin F /\ pos \in F
        BY <1>1, <1>9, <2>2, <2>3, <3>2
      <4> QED
        BY <2>2, <4>1 DEF Edges
    <3>3. CASE lr # P /\ lr = 0
      <4>1. k > u
        BY <1>1, <1>3, <1>4, <1>9, <1>14, <3>3
      <4>2. pos = lf + P /\ Mult(lf + P)
        BY <1>1, <1>5, <3>3, <4>1, MultSum
      <4> QED
        BY <4>2
    <3> QED
      BY <3>1, <3>2, <3>3
  <2> HIDE DEF pos
  <2> QED
    BY <1>6, <1>7, <1>14, <2>1, <2>2, <2>3, <2>4 DEF FindsRight, f
<1>15. CASE ~ (n[id].len < size) /\ ~ (l.len >= size) /\ ~ (lr + rl >= size)
  <2>0. r.len >= size
    BY <1>6, <1>9, <1>15 DEF MaxOf
  <2>1. f = Found(size, k - 1, m, 2 * id + 1, lf + P)
    BY <1>1, <1>8, <1>10, <1>11, <1>15, <2>0
  <2>2. k > u
    BY <1>1, <1>3, <1>4, <1>9, <2>0
  <2>3. FindsRight(F, size, k - 1, 2 * id + 1, lf + P, m, f)
    <3>1. 2 * id + 1 \in Nat /\ lf + P \in Nat
      BY <1>1, <1>2
    <3>2. Mult(lf + P)
      BY <1>5, <2>2, MultSum
    <3> QED
      BY <1>2, <1>6, <2>1, <2>2, <3>1, <3>2 DEF FindsLevel
  <2> DEFINE t == f.tree
  <2>4. /\ t \in Trees /\ (\A x \in Ids \ Below(k - 1, 2 * id + 1) : t[x] = m[x])
        /\ Correct(t, F, k - 1, 2 * id + 1, lf + P)
        /\ f.pos \in Int /\ lf + P <= f.pos /\ f.pos + size <= lf + P + P
        /\ f.pos .. f.pos + size - 1 \subseteq F /\ Mult(f.pos)
    <3>1. ~ (m[2 * id + 1].len < size)
      BY <1>9, <2>0
    <3> QED
      BY <2>3, <3>1 DEF FindsRight, P
  <2> HIDE DEF t
  <2>5. Correct(t, F, k, id, lf) /\ \A x \in Ids \ Below(k, id) : t[x] = m[x]
    BY <1>6, <1>11, <2>4, RejoinRight, SMTT(60) DEF P, rg
  <2>6. f.pos + size <= lf + Size(k) /\ lf <= f.pos
    BY <1>1, <2>4
  <2> QED
    BY <1>6, <1>15, <2>4, <2>5, <2>6 DEF FindsRight, f, t
<1> QED
  BY <1>12, <1>13, <1>14, <1>15

\* _find answers right, and leaves the tree right.
LEMMA FindingRight ==
  ASSUME NEW F, Edges(F), NEW size \in Nat \ {0}, Mult(size),
         NEW u \in Nat \ {0}, Size(u) = UNIT
  PROVE  \A k \in Nat : k >= u => FindsLevel(F, size, k)
<1> DEFINE T == {k \in Nat : k >= u => FindsLevel(F, size, k)}
<1>1. ASSUME NEW k \in Nat, k >= u, k > u => FindsLevel(F, size, k - 1)
      PROVE  FindsLevel(F, size, k)
  <2> SUFFICES ASSUME NEW n \in Trees, NEW id \in Nat, NEW lf \in Nat, IdOK(k, id),
                      Correct(n, F, k, id, lf), Mult(lf)
               PROVE  FindsRight(F, size, k, id, lf, n, Found(size, k, n, id, lf))
    BY DEF FindsLevel
  <2> QED
    BY <1>1, FoundRight
<1>2. 0 \in T
  OBVIOUS
<1>3. ASSUME NEW k \in T PROVE k + 1 \in T
  <2> SUFFICES ASSUME k + 1 >= u PROVE FindsLevel(F, size, k + 1)
    OBVIOUS
  <2>1. k + 1 \in Nat /\ (k + 1) - 1 = k /\ (k + 1 > u => FindsLevel(F, size, k))
    OBVIOUS
  <2> QED
    BY <1>1, <2>1
<1>4. T \in SUBSET Nat
  OBVIOUS
<1>5. T = Nat
  <2> HIDE DEF T
  <2> QED
    BY <1>2, <1>3, <1>4, AllNat
<1> QED
  BY <1>5

-----------------------------------------------------------------------------
(* The pool and its leaves. *)

LEMMA Scale ==
  ASSUME NEW a \in Int, NEW b \in Int
  PROVE  /\ UNIT * a \in Int /\ UNIT * b \in Int
         /\ a < b => UNIT * a + UNIT <= UNIT * b
         /\ a <= b <=> UNIT * a <= UNIT * b
         /\ UNIT * a = UNIT * b => a = b
<1>1. UNIT \in Nat /\ UNIT >= 2
  BY Constants
<1>2. \A x, y \in Int : x < y => UNIT * x + UNIT <= UNIT * y
  <2> SUFFICES ASSUME NEW x \in Int, NEW y \in Int, x < y PROVE UNIT * x + UNIT <= UNIT * y
    OBVIOUS
  <2>1. UNIT * y = UNIT * x + UNIT + UNIT * (y - x - 1)
    BY <1>1
  <2>2. UNIT * (y - x - 1) >= 0
    BY <1>1
  <2>3. UNIT * x \in Int /\ UNIT * y \in Int /\ UNIT * (y - x - 1) \in Int
    BY <1>1
  <2> QED
    BY <1>1, <2>1, <2>2, <2>3
<1>3. UNIT * a \in Int /\ UNIT * b \in Int
  BY <1>1
<1>4. (a < b => UNIT * a + UNIT <= UNIT * b) /\ (b < a => UNIT * b + UNIT <= UNIT * a)
  BY <1>2
<1>5. a = b => UNIT * a = UNIT * b
  OBVIOUS
<1> HIDE DEF Mult
<1> QED
  BY <1>1, <1>3, <1>4, <1>5

LEMMA PoolLevels ==
  /\ levels \in Nat /\ Size(levels) = pool_size /\ IdOK(levels, 1)
  /\ Mult(pool_size)
  /\ \E u \in Nat \ {0} : Size(u) = UNIT /\ levels > u
<1>1. PICK k \in 0 .. pool_size : Pow2[k] = pool_size
  BY AllocatorAssumption DEF PowerOfTwo
<1>2. levels \in 0 .. pool_size /\ Pow2[levels] = pool_size
  BY <1>1 DEF levels
<1>3. levels \in Nat /\ Size(levels) = pool_size
  BY <1>2, Constants DEF Size
<1>4. IdOK(levels, 1)
  BY <1>3, Constants DEF IdOK
<1>5. PICK u \in Nat \ {0} : Size(u) = UNIT
  BY LeafLevel
<1>6. levels > u
  <2> SUFFICES ASSUME levels <= u PROVE FALSE
    BY <1>3
  <2>1. Size(levels) <= UNIT
    BY <1>3, <1>5, LevelSizes
  <2> QED
    BY <1>3, <2>1, AllocatorAssumption
<1>7. Mult(pool_size)
  BY <1>3, <1>5, <1>6, LevelSizes
<1> QED
  BY <1>3, <1>4, <1>5, <1>6, <1>7

LEMMA Leaves == leaf_cnt \in Nat \ {0} /\ pool_size = UNIT * leaf_cnt
<1>1. PICK q \in Int : pool_size = UNIT * q
  BY PoolLevels DEF Mult
<1>2. UNIT \in Nat \ {0} /\ 0 \in 0 .. UNIT - 1
  BY Constants
<1>3. (UNIT * q + 0) \div UNIT = q
  BY <1>2, DivOnly
<1>4. UNIT * q + 0 = pool_size
  BY <1>1, Constants
<1>5. leaf_cnt = q
  BY <1>3, <1>4 DEF leaf_cnt
<1>6. q > 0
  <2>1. q <= 0 => UNIT * q <= UNIT * 0
    BY Scale
  <2> QED
    BY <1>1, <2>1, Constants
<1> QED
  BY <1>1, <1>5, <1>6

LEMMA MarkRange ==
  ASSUME NEW n \in Trees, NEW F, Correct(n, F, levels, 1, 0), NEW taken \in BOOLEAN,
         NEW L \in Pool, NEW R \in Pool
  PROVE  /\ mark_range(n, L, R, taken) \in Trees
         /\ Correct(mark_range(n, L, R, taken), After(F, L, R, taken), levels, 1, 0)
<1>1. L \in Nat /\ R \in Nat /\ L .. R \subseteq Pool /\ L <= pool_size - 1 /\ 0 <= R
  BY Constants DEF Pool
<1>2. MarksLevel(F, L, R, taken, levels)
  BY <1>1, PoolLevels, MarkingRight
<1>3. L <= 0 + Size(levels) - 1
  BY <1>1, PoolLevels, Constants
<1>4. MarksRight(F, L, R, taken, levels, 1, 0, n, Marked(L, R, taken, levels, n, 1, 0))
  BY <1>1, <1>2, <1>3, PoolLevels DEF MarksLevel
<1>5. mark_range(n, L, R, taken) = Marked(L, R, taken, levels, n, 1, 0)
  BY DEF mark_range, Marked
<1> QED
  BY <1>4, <1>5 DEF MarksRight

LEMMA FindRoot ==
  ASSUME NEW n \in Trees, NEW F, Correct(n, F, levels, 1, 0), Edges(F),
         NEW size \in Nat \ {0}, Mult(size)
  PROVE  LET f == find(n, size)
         IN  /\ f.tree \in Trees /\ Correct(f.tree, F, levels, 1, 0)
             /\ IF n[1].len < size THEN f.pos = nullptr
                ELSE /\ f.pos \in Nat /\ f.pos + size <= pool_size
                     /\ f.pos .. f.pos + size - 1 \subseteq F /\ Mult(f.pos)
<1>1. PICK u \in Nat \ {0} : Size(u) = UNIT /\ levels > u
  BY PoolLevels
<1>2. FindsLevel(F, size, levels)
  BY <1>1, PoolLevels, FindingRight
<1>3. FindsRight(F, size, levels, 1, 0, n, Found(size, levels, n, 1, 0))
  BY <1>2, PoolLevels, MultBasic DEF FindsLevel
<1>4. find(n, size) = Found(size, levels, n, 1, 0)
  BY DEF find, Found
<1>5. 0 + Size(levels) = pool_size
  BY PoolLevels, Constants
<1> HIDE DEF Found
<1> QED
  BY <1>3, <1>4, <1>5 DEF FindsRight

-----------------------------------------------------------------------------
(* What the invariant says of a state. *)

\* Blocks are whole leaves, so free bytes begin and end with leaves.
LEMMA FreeEdges == BlocksKnown => Edges(Free)
<1> SUFFICES ASSUME BlocksKnown, NEW x \in Int, ~ Mult(x) PROVE x \in Free <=> x - 1 \in Free
  BY DEF Edges
<1>1. \A b \in live : b.ptr \in Nat /\ b.size \in Nat \ {0} /\ Mult(b.ptr) /\ Mult(b.ptr + b.size)
  <2> SUFFICES ASSUME NEW b \in live
               PROVE  b.ptr \in Nat /\ b.size \in Nat \ {0} /\ Mult(b.ptr) /\ Mult(b.ptr + b.size)
    OBVIOUS
  <2>1. b.ptr \in Nat /\ b.size \in Nat \ {0} /\ b.ptr % UNIT = 0 /\ b.size % UNIT = 0
    BY Constants DEF BlocksKnown
  <2>2. Mult(b.ptr) /\ Mult(b.size)
    BY <2>1, MultMod
  <2> QED
    BY <2>1, <2>2, MultSum
<1>2. \A b \in live : x \in Block(b) <=> x - 1 \in Block(b)
  <2> SUFFICES ASSUME NEW b \in live PROVE x \in Block(b) <=> x - 1 \in Block(b)
    OBVIOUS
  <2>1. x # b.ptr /\ x # b.ptr + b.size
    BY <1>1
  <2>2. b.ptr \in Nat /\ b.size \in Nat \ {0}
    BY <1>1
  <2> QED
    BY <2>1, <2>2 DEF Block
<1>3. x \in Taken <=> x - 1 \in Taken
  BY <1>2 DEF Taken
<1>4. x # 0 /\ x # pool_size
  BY MultBasic, PoolLevels
<1>5. x \in Pool <=> x - 1 \in Pool
  BY <1>4, Constants DEF Pool
<1> QED
  BY <1>3, <1>5 DEF Free

LEMMA RootTells ==
  AllocInv => node[1].len \in Nat /\ LongestRun(node[1].len, 0, pool_size - 1, Free)
<1> SUFFICES ASSUME AllocInv
             PROVE  node[1].len \in Nat /\ LongestRun(node[1].len, 0, pool_size - 1, Free)
  OBVIOUS
<1>1. Correct(node, Free, levels, 1, 0)
  BY DEF AllocInv, Correct
<1>2. Tells(node[1], 0, 0 + Size(levels) - 1, Free)
  BY <1>1, PoolLevels, DescribesNext
<1>3. 0 + Size(levels) - 1 = pool_size - 1
  BY PoolLevels, Constants
<1> QED
  BY <1>2, <1>3 DEF Tells

\* A run of free leaves is a run of free bytes.
LEMMA LeavesFree ==
  ASSUME BlocksKnown, NEW u \in Nat, NEW k \in Nat \ {0}, u + k <= leaf_cnt,
         u .. u + k - 1 \subseteq FreeLeaves
  PROVE  UNIT * u .. UNIT * (u + k) - 1 \subseteq Free
<1> SUFFICES ASSUME NEW x \in UNIT * u .. UNIT * (u + k) - 1 PROVE x \in Free
  OBVIOUS
<1>1. UNIT \in Nat \ {0} /\ leaf_cnt \in Nat /\ pool_size = UNIT * leaf_cnt
  BY Constants, Leaves
<1>2. UNIT * u \in Nat /\ UNIT * (u + k) \in Int /\ UNIT * (u + k) <= pool_size
  BY <1>1, Scale
<1>3. x \in Int /\ x \in Pool
  BY <1>1, <1>2, Constants DEF Pool
<1>4. x \notin Taken
  <2> SUFFICES ASSUME NEW b \in live, x \in Block(b) PROVE FALSE
    BY DEF Taken
  <2> DEFINE v == x \div UNIT
             w == x % UNIT
  <2>1. x = UNIT * v + w /\ v \in Int /\ w \in 0 .. UNIT - 1
    BY <1>1, <1>3, DivMod
  <2> HIDE DEF v, w
  <2>2. UNIT * v <= x /\ x < UNIT * v + UNIT /\ UNIT * v \in Int
    <3> DEFINE uv == UNIT * v
    <3>1. uv \in Int
      BY <1>1, <2>1
    <3>2. x = uv + w
      BY <2>1
    <3> HIDE DEF uv
    <3>3. uv <= x /\ x < uv + UNIT
      BY <1>1, <2>1, <3>1, <3>2
    <3> QED
      BY <3>1, <3>3 DEF uv
  <2>3. b.ptr \in Nat /\ b.size \in Nat /\ b.ptr % UNIT = 0
    BY Constants DEF BlocksKnown
  <2>4. PICK p \in Int : b.ptr = UNIT * p
    BY <2>3, MultMod DEF Mult
  <2>5. b.ptr <= x /\ x <= b.ptr + b.size - 1
    BY <1>3, <2>3 DEF Block
  <2>6. p <= v
    <3> DEFINE uv == UNIT * v
    <3>1. v < p => uv + UNIT <= b.ptr
      BY <2>1, <2>4, Scale
    <3>2. uv \in Int /\ x < uv + UNIT
      BY <2>2
    <3> HIDE DEF uv
    <3> QED
      BY <1>1, <1>3, <2>1, <2>3, <2>4, <2>5, <3>1, <3>2
  <2>7. UNIT * p <= UNIT * v
    BY <2>1, <2>4, <2>6, Scale
  <2>8. UNIT * v \in Block(b)
    BY <2>2, <2>3, <2>4, <2>5, <2>7 DEF Block
  <2>9. v \in u .. u + k - 1
    <3> DEFINE uv == UNIT * v
               lo == UNIT * u
               hi == UNIT * (u + k)
    <3>1. v < u => uv + UNIT <= lo
      BY <2>1, Scale
    <3>2. u + k <= v => hi <= uv
      BY <2>1, Scale
    <3>3. uv \in Int /\ lo \in Int /\ hi \in Int /\ uv <= x /\ x < uv + UNIT /\ x \in lo .. hi - 1
      BY <1>2, <2>2
    <3> HIDE DEF uv, lo, hi
    <3> QED
      BY <1>1, <1>3, <2>1, <3>1, <3>2, <3>3
  <2>10. v * UNIT \notin Taken
    BY <2>9 DEF FreeLeaves
  <2>11. v * UNIT = UNIT * v
    BY <1>1, <2>1
  <2> QED
    BY <2>8, <2>10, <2>11 DEF Taken
<1> QED
  BY <1>3, <1>4 DEF Free

\* The longest run of free bytes is one of whole leaves.
LEMMA RunOfLeaves ==
  ASSUME BlocksKnown, NEW len \in Nat, len > 0, LongestRun(len, 0, pool_size - 1, Free)
  PROVE  \E q \in 1 .. leaf_cnt :
           len = UNIT * q /\ \E u \in 0 .. leaf_cnt - q : u .. u + q - 1 \subseteq FreeLeaves
<1>1. UNIT \in Nat \ {0} /\ leaf_cnt \in Nat /\ pool_size = UNIT * leaf_cnt /\ pool_size \in Nat \ {0}
  BY Constants, Leaves
<1>2. Edges(Free) /\ Free \subseteq 0 .. pool_size - 1
  BY FreeEdges DEF Free, Pool
<1>3. PICK a \in 0 .. pool_size - 1 : a + len - 1 <= pool_size - 1 /\ a .. a + len - 1 \subseteq Free
  BY DEF LongestRun
<1>4. \A c, d \in 0 .. pool_size - 1 : c .. d \subseteq Free => d - c + 1 <= len
  BY DEF LongestRun
<1> DEFINE e == a + len
<1>5. e \in Nat /\ a < e /\ e <= pool_size /\ a \in Free /\ e - 1 \in Free
  BY <1>1, <1>3
<1>6. Mult(a)
  <2>1. CASE a = 0
    BY <2>1, MultBasic
  <2>2. CASE a # 0
    <3>1. a - 1 \notin Free
      <4> SUFFICES ASSUME a - 1 \in Free PROVE FALSE
        OBVIOUS
      <4>1. a - 1 .. a + len - 1 \subseteq Free
        BY <1>3
      <4>2. a - 1 \in 0 .. pool_size - 1 /\ a + len - 1 \in 0 .. pool_size - 1
        BY <1>1, <1>3, <2>2
      <4>3. (a + len - 1) - (a - 1) + 1 <= len
        BY <1>4, <4>1, <4>2
      <4> QED
        BY <4>3
    <3> QED
      BY <1>2, <1>5, <3>1 DEF Edges
  <2> QED
    BY <2>1, <2>2
<1>7. Mult(e)
  <2>1. CASE e = pool_size
    BY <2>1, PoolLevels
  <2>2. CASE e # pool_size
    <3>1. e \notin Free
      <4> SUFFICES ASSUME e \in Free PROVE FALSE
        OBVIOUS
      <4>1. a .. e \subseteq Free
        BY <1>3
      <4>2. e \in 0 .. pool_size - 1
        BY <1>1, <1>5, <2>2
      <4>3. e - a + 1 <= len
        BY <1>4, <4>1, <4>2
      <4> QED
        BY <4>3
    <3>2. e \in Int
      BY <1>5
    <3> QED
      BY <1>2, <1>5, <3>1, <3>2 DEF Edges
  <2> QED
    BY <2>1, <2>2
<1>8. PICK u \in Int : a = UNIT * u
  BY <1>6 DEF Mult
<1>9. PICK w \in Int : e = UNIT * w
  BY <1>7 DEF Mult
<1>10. 0 <= u /\ u < w /\ w <= leaf_cnt
  <2>1. UNIT * 0 = 0 /\ (0 <= u <=> UNIT * 0 <= UNIT * u)
    BY <1>1, <1>8, Scale
  <2>2. (w <= u <=> UNIT * w <= UNIT * u) /\ (w <= leaf_cnt <=> UNIT * w <= UNIT * leaf_cnt)
    BY <1>1, <1>8, <1>9, Scale
  <2> HIDE DEF e
  <2> QED
    BY <1>1, <1>5, <1>8, <1>9, <2>1, <2>2
<1> DEFINE q == w - u
<1>11. q \in 1 .. leaf_cnt /\ u \in 0 .. leaf_cnt - q /\ u + q = w
  BY <1>1, <1>10
<1>12. len = UNIT * q
  BY <1>1, <1>8, <1>9
<1>13. ASSUME NEW v \in u .. w - 1 PROVE v \in FreeLeaves
  <2>1. v \in Int /\ u <= v /\ v < w
    OBVIOUS
  <2>2. UNIT * u <= UNIT * v /\ UNIT * v + UNIT <= UNIT * w /\ UNIT * v \in Int
    BY <2>1, Scale
  <2>3. UNIT * v \in a .. e - 1
    BY <1>1, <1>5, <1>8, <1>9, <2>2
  <2>4. UNIT * v \in Free /\ v * UNIT = UNIT * v
    BY <1>1, <1>3, <2>1, <2>3
  <2>5. v \in 0 .. leaf_cnt - 1
    BY <1>1, <1>10, <2>1
  <2> QED
    BY <2>4, <2>5 DEF Free, FreeLeaves
<1>14. u .. u + q - 1 \subseteq FreeLeaves
  BY <1>11, <1>13
<1> HIDE DEF q
<1> QED
  BY <1>11, <1>12, <1>14

LEMMA RootLongest == AllocInv => RootKnowsLongest
<1> SUFFICES ASSUME AllocInv PROVE RootKnowsLongest
  OBVIOUS
<1> DEFINE len == node[1].len
           Run(k) == \E u \in 0 .. leaf_cnt - k : u .. u + k - 1 \subseteq FreeLeaves
           S == {0} \union {k \in 1 .. leaf_cnt : Run(k)}
<1>1. len \in Nat /\ LongestRun(len, 0, pool_size - 1, Free)
  BY RootTells
<1>2. BlocksKnown
  BY DEF AllocInv
<1>3. UNIT \in Nat \ {0} /\ leaf_cnt \in Nat /\ pool_size = UNIT * leaf_cnt
  BY Constants, Leaves
<1> HIDE DEF len
<1>4. ASSUME NEW k \in S PROVE UNIT * k <= len
  <2>1. CASE k = 0
    BY <1>1, <1>3, <2>1
  <2>2. CASE k # 0
    <3>1. k \in Nat \ {0} /\ Run(k)
      <4> HIDE DEF Run
      <4> QED
        BY <1>3, <2>2
    <3>2. PICK u \in 0 .. leaf_cnt - k : u .. u + k - 1 \subseteq FreeLeaves
      BY <3>1
    <3>3. u \in Nat /\ u + k <= leaf_cnt
      BY <1>3, <3>1
    <3>4. UNIT * u .. UNIT * (u + k) - 1 \subseteq Free
      BY <1>2, <3>1, <3>2, <3>3, LeavesFree
    <3> DEFINE a == UNIT * u
               b == UNIT * (u + k) - 1
    <3>5. a \in Nat /\ a + UNIT <= UNIT * (u + k) /\ UNIT * (u + k) <= pool_size /\ UNIT * (u + k) \in Int
      BY <1>3, <3>1, <3>3, Scale
    <3>6. b - a + 1 = UNIT * k
      BY <1>3, <3>1, <3>3
    <3>7. a \in 0 .. pool_size - 1 /\ b \in 0 .. pool_size - 1
      BY <1>3, <3>5, Constants
    <3> HIDE DEF a, b
    <3>8. b - a + 1 <= len
      BY <1>1, <3>4, <3>7 DEF LongestRun, a, b
    <3> QED
      BY <3>6, <3>8
  <2> QED
    BY <2>1, <2>2
<1>5. PICK q \in S : len = UNIT * q
  <2>1. CASE len = 0
    BY <1>3, <2>1
  <2>2. CASE len # 0
    <3>1. PICK q \in 1 .. leaf_cnt : len = UNIT * q /\ Run(q)
      BY <1>1, <1>2, <2>2, RunOfLeaves
    <3> QED
      BY <3>1
  <2> QED
    BY <2>1, <2>2
<1>6. S \subseteq Int
  BY <1>3
<1> HIDE DEF S
<1>7. \A k \in S : q >= k
  <2> SUFFICES ASSUME NEW k \in S PROVE q >= k
    OBVIOUS
  <2>1. k \in Int /\ q \in Int /\ UNIT * k <= UNIT * q
    BY <1>4, <1>5, <1>6
  <2>2. k <= q
    BY <2>1, Scale
  <2> QED
    BY <2>1, <2>2
<1>8. Max(S) = q
  <2>1. Max(S) \in S /\ \A k \in S : Max(S) >= k
    BY <1>5, <1>7 DEF Max
  <2> DEFINE x == Max(S)
  <2>2. x \in S /\ x >= q
    BY <1>5, <2>1
  <2> HIDE DEF x
  <2>3. x \in Int /\ q \in Int /\ q >= x
    BY <1>5, <1>6, <1>7, <2>2
  <2>4. x = q
    BY <2>2, <2>3
  <2> QED
    BY <2>4 DEF x
<1>9. LongestFree = UNIT * Max(S)
  BY DEF LongestFree, S
<1> QED
  BY <1>5, <1>8, <1>9 DEF RootKnowsLongest, len

-----------------------------------------------------------------------------
(* The invariant holds at the start and is kept by every call. *)

LEMMA RoundsUp ==
  ASSUME NEW x \in Nat, NEW a \in Nat \ {0}
  PROVE  /\ RoundUp(x, a) \in Nat /\ x <= RoundUp(x, a) /\ RoundUp(x, a) < x + a
         /\ RoundUp(x, a) % a = 0
         /\ x = 0 => RoundUp(x, a) = 0
<1> DEFINE q == x \div a
           w == x % a
<1>1. x = a * q + w /\ q \in Int /\ w \in 0 .. a - 1
  BY DivMod
<1> HIDE DEF q
<1>2. CASE w = 0
  <2>1. RoundUp(x, a) = x
    BY <1>2 DEF RoundUp
  <2> QED
    BY <1>2, <2>1
<1>3. CASE w # 0
  <2>1. RoundUp(x, a) = x + a - w
    BY <1>3 DEF RoundUp
  <2>2. x # 0
    <3> SUFFICES ASSUME x = 0 PROVE FALSE
      OBVIOUS
    <3>1. (a * 0 + 0) % a = 0
      <4>1. 0 \in 0 .. a - 1
        OBVIOUS
      <4> QED
        BY <4>1, DivOnly
    <3>2. a * 0 + 0 = 0
      OBVIOUS
    <3> QED
      BY <1>3, <3>1, <3>2
  <2> HIDE DEF w
  <2>3. x + a - w = a * (q + 1) + 0 /\ q + 1 \in Int /\ 0 \in 0 .. a - 1
    BY <1>1
  <2>4. (a * (q + 1) + 0) % a = 0
    BY <2>3, DivOnly
  <2>5. x + a - w \in Nat /\ x <= x + a - w /\ x + a - w < x + a
    BY <1>1, <1>3
  <2> QED
    BY <2>1, <2>2, <2>3, <2>4, <2>5
<1> QED
  BY <1>2, <1>3

LEMMA MultOf ==
  ASSUME NEW a \in Nat \ {0}, Mult(a), NEW y \in Int, y % a = 0
  PROVE  Mult(y)
<1> DEFINE q == y \div a
           w == y % a
<1>1. y = a * q + w /\ q \in Int
  BY DivMod
<1>2. w = 0
  OBVIOUS
<1> HIDE DEF q, w
<1>3. y = a * q
  BY <1>1, <1>2
<1> QED
  BY <1>1, <1>3, MultTimes

LEMMA AlignmentOK ==
  ASSUME NEW a \in Alignments
  PROVE  a \in Nat \ {0} /\ Mult(a)
<1>1. a \in Nat /\ PowerOfTwo(a) /\ a % UNIT = 0
  BY AllocatorAssumption
<1>2. PICK k \in 0 .. a : a = Pow2[k]
  BY <1>1 DEF PowerOfTwo
<1>3. k \in Nat
  BY <1>1
<1>4. a # 0
  BY <1>2, <1>3, Pow2Positive
<1>5. Mult(a)
  BY <1>1, MultMod
<1> QED
  BY <1>1, <1>4, <1>5

\* What allocate() finds.
LEMMA AllocateFinds ==
  ASSUME AllocInv, NEW size_ \in Nat \ {0}, NEW a \in Alignments
  PROVE  LET size  == RoundUp(size_, a)
             spot == find(node, size + Slack(a))
             Lpos  == RoundUp(spot.pos, a)
         IN  /\ size \in Nat \ {0} /\ Mult(size)
             /\ spot.tree \in Trees /\ Correct(spot.tree, Free, levels, 1, 0)
             /\ IF node[1].len < size + Slack(a) THEN spot.pos = nullptr
                ELSE /\ spot.pos # nullptr
                     /\ Lpos \in Nat /\ Mult(Lpos) /\ Lpos % a = 0
                     /\ Lpos .. Lpos + size - 1 \subseteq Free
<1> DEFINE size  == RoundUp(size_, a)
           want  == size + Slack(a)
           spot == find(node, want)
           pos   == spot.pos
           Lpos  == RoundUp(pos, a)
<1>1. a \in Nat \ {0} /\ Mult(a)
  BY AlignmentOK
<1>2. size \in Nat \ {0} /\ Mult(size)
  <2>1. size \in Nat /\ size_ <= size /\ size % a = 0
    BY <1>1, RoundsUp
  <2> HIDE DEF size
  <2>2. Mult(size)
    BY <1>1, <2>1, MultOf
  <2> QED
    BY <2>1, <2>2
<1> HIDE DEF size
<1>3. want \in Nat \ {0} /\ Mult(want)
  <2>1. Mult(size + a)
    BY <1>1, <1>2, MultSum
  <2>2. size + 0 = size
    BY <1>2
  <2> QED
    BY <1>1, <1>2, <2>1, <2>2 DEF Slack
<1>4. node \in Trees /\ Correct(node, Free, levels, 1, 0) /\ Edges(Free)
  BY FreeEdges DEF AllocInv, Correct
<1>5. /\ spot.tree \in Trees /\ Correct(spot.tree, Free, levels, 1, 0)
      /\ IF node[1].len < want THEN pos = nullptr
         ELSE /\ pos \in Nat /\ pos + want <= pool_size
              /\ pos .. pos + want - 1 \subseteq Free /\ Mult(pos)
  <2> HIDE DEF want
  <2> QED
    BY <1>3, <1>4, FindRoot
<1>6. ASSUME ~ (node[1].len < want)
      PROVE  /\ pos # nullptr
             /\ Lpos \in Nat /\ Mult(Lpos) /\ Lpos % a = 0
             /\ Lpos .. Lpos + size - 1 \subseteq Free
  <2>1. pos \in Nat /\ pos .. pos + want - 1 \subseteq Free /\ Mult(pos)
    BY <1>5, <1>6
  <2>2. want = size + Slack(a)
    OBVIOUS
  <2> HIDE DEF pos, want
  <2>3. Lpos \in Nat /\ pos <= Lpos /\ Lpos < pos + a /\ Lpos % a = 0
    BY <1>1, <2>1, RoundsUp
  <2>4. Mult(Lpos)
    BY <1>1, <2>3, MultOf
  <2>5. Lpos + size <= pos + want
    <3>1. CASE a = UNIT
      <4>1. pos % a = 0
        BY <2>1, <3>1, MultMod
      <4>2. Lpos = pos
        BY <4>1 DEF RoundUp
      <4> HIDE DEF Lpos
      <4> QED
        BY <1>2, <2>1, <2>2, <3>1, <4>2 DEF Slack
    <3>2. CASE a # UNIT
      <4> HIDE DEF Lpos
      <4> QED
        BY <1>1, <1>2, <2>1, <2>2, <2>3, <3>2 DEF Slack
    <3> QED
      BY <3>1, <3>2
  <2> HIDE DEF Lpos
  <2>6. want \in Nat
    BY <1>3
  <2>7. Lpos .. Lpos + size - 1 \subseteq pos .. pos + want - 1
    BY <1>2, <2>1, <2>3, <2>5, <2>6
  <2>8. pos # nullptr
    BY <2>1, Constants
  <2> QED
    BY <2>1, <2>3, <2>4, <2>7, <2>8
<1> HIDE DEF spot
<1>7. /\ spot.tree \in Trees /\ Correct(spot.tree, Free, levels, 1, 0)
      /\ IF node[1].len < size + Slack(a) THEN spot.pos = nullptr
                ELSE /\ spot.pos # nullptr
                     /\ RoundUp(spot.pos, a) \in Nat /\ Mult(RoundUp(spot.pos, a)) /\ RoundUp(spot.pos, a) % a = 0
                     /\ RoundUp(spot.pos, a) .. RoundUp(spot.pos, a) + size - 1 \subseteq Free
  BY <1>5, <1>6
<1> QED
  BY <1>2, <1>7 DEF spot, size

LEMMA InitInv == AllocInit => AllocInv
<1> SUFFICES ASSUME AllocInit PROVE AllocInv
  OBVIOUS
<1>1. live = {} /\ this_len = [u \in 0 .. leaf_cnt - 1 |-> 0]
      /\ node = mark_node([id \in Ids |-> Unwritten], 1, FALSE, pool_size)
  BY DEF AllocInit
<1>2. Taken = {} /\ Free = Pool
  BY <1>1 DEF Taken, Free
<1>3. BlocksKnown /\ BlocksDisjoint
  BY <1>1, <1>2 DEF BlocksKnown, BlocksDisjoint
<1>4. this_len \in [0 .. leaf_cnt - 1 -> Nat]
  BY <1>1
<1> DEFINE n == [id \in Ids |-> Unwritten]
<1>5. n \in Trees /\ 1 \in Ids /\ pool_size = Size(levels) /\ levels \in Nat
  BY Constants, PoolLevels DEF Trees, Ids
<1>6. Whole(FALSE, 0, 0 + pool_size - 1, Pool)
  BY Constants DEF Whole, Pool
<1>7. node = mark_node(n, 1, FALSE, pool_size)
  BY <1>1
<1> HIDE DEF n
<1>8. node \in Trees /\ Correct(node, Pool, levels, 1, 0)
  <2> DEFINE zero == 0
             one == 1
             no == FALSE
  <2>1. one \in Ids /\ zero \in Nat /\ no \in BOOLEAN
    BY <1>5
  <2>2. Whole(no, zero, zero + pool_size - 1, Pool) /\ node = mark_node(n, one, no, pool_size)
    BY <1>6, <1>7
  <2> HIDE DEF zero, one, no
  <2>3. node \in Trees /\ Correct(node, Pool, levels, one, zero)
    BY <1>5, <2>1, <2>2, MarkNode, SMTT(60)
  <2> QED
    BY <2>3 DEF zero, one
<1> QED
  BY <1>2, <1>3, <1>4, <1>8 DEF AllocInv, Correct

\* A block that was free is taken.
LEMMA TakeBlock ==
  ASSUME AllocInv, NEW size \in Nat \ {0}, Mult(size), NEW L \in Nat, Mult(L),
         L .. L + size - 1 \subseteq Free,
         NEW n \in Trees, Correct(n, Free, levels, 1, 0),
         node' = mark_range(n, L, L + size - 1, TRUE),
         this_len' = [this_len EXCEPT ![L \div UNIT] = size \div UNIT],
         live' = live \union {[ptr |-> L, size |-> size]}
  PROVE  AllocInv'
<1> DEFINE R == L + size - 1
           b == [ptr |-> L, size |-> size]
           u == L \div UNIT
           s == size \div UNIT
<1>1. Block(b) = L .. R /\ Block(b) \subseteq Free /\ Free \subseteq Pool /\ L \in Pool /\ R \in Pool
  BY DEF Block, Free
<1>2. UNIT \in Nat \ {0} /\ leaf_cnt \in Nat /\ pool_size = UNIT * leaf_cnt /\ 0 \in 0 .. UNIT - 1
  BY Constants, Leaves
<1>3. u \in 0 .. leaf_cnt - 1 /\ L = UNIT * u
  <2>1. PICK p \in Int : L = UNIT * p
    BY DEF Mult
  <2>2. (UNIT * p + 0) \div UNIT = p
    BY <1>2, <2>1, DivOnly
  <2>3. u = p
    BY <1>2, <2>1, <2>2
  <2>4. (0 <= p <=> UNIT * 0 <= UNIT * p) /\ (leaf_cnt <= p <=> UNIT * leaf_cnt <= UNIT * p) /\ UNIT * 0 = 0
    BY <1>2, <2>1, Scale
  <2>5. 0 <= L /\ L < pool_size
    BY <1>1, Constants DEF Pool
  <2> HIDE DEF u
  <2> QED
    BY <1>2, <2>1, <2>3, <2>4, <2>5
<1>4. s \in Nat /\ size = UNIT * s
  <2>1. PICK p \in Int : size = UNIT * p
    BY DEF Mult
  <2>2. (UNIT * p + 0) \div UNIT = p
    BY <1>2, <2>1, DivOnly
  <2>3. s = p
    BY <1>2, <2>1, <2>2
  <2>4. (0 <= p <=> UNIT * 0 <= UNIT * p) /\ UNIT * 0 = 0
    BY <1>2, <2>1, Scale
  <2> HIDE DEF s
  <2> QED
    BY <1>2, <2>1, <2>3, <2>4
<1>5. Taken' = Taken \union Block(b)
  BY DEF Taken
<1>6. Free' = After(Free, L, R, TRUE)
  BY <1>1, <1>5 DEF Free, After
<1>7. this_len \in [0 .. leaf_cnt - 1 -> Nat] /\ BlocksKnown /\ BlocksDisjoint
  BY DEF AllocInv
<1> HIDE DEF u, s
<1>8. /\ this_len' \in [0 .. leaf_cnt - 1 -> Nat] /\ this_len'[u] = s
      /\ \A v \in 0 .. leaf_cnt - 1 : v # u => this_len'[v] = this_len[v]
  <2>1. this_len' = [this_len EXCEPT ![u] = s]
    BY DEF u, s
  <2> QED
    BY <1>3, <1>4, <1>7, <2>1
<1>9. \A c \in live : /\ c.ptr \in Pool /\ c.size \in Nat \ {0} /\ Block(c) \subseteq Pool
                      /\ c.ptr % UNIT = 0 /\ c.size % UNIT = 0
                      /\ c.size = UNIT * this_len[c.ptr \div UNIT]
  BY <1>7 DEF BlocksKnown
<1>10. \A c \in live : Block(c) \subseteq Taken /\ Block(c) \cap Block(b) = {}
  BY <1>1 DEF Taken, Free
<1>11. \A c \in live : c.size = UNIT * this_len'[c.ptr \div UNIT]
  <2> SUFFICES ASSUME NEW c \in live PROVE c.size = UNIT * this_len'[c.ptr \div UNIT]
    OBVIOUS
  <2>1. c.ptr \in Nat /\ c.size \in Nat \ {0} /\ c.ptr \in Pool /\ c.ptr % UNIT = 0
    BY <1>9, Constants
  <2>2. PICK p \in Int : c.ptr = UNIT * p
    BY <2>1, MultMod DEF Mult
  <2>3. c.ptr \div UNIT = p
    <3>1. (UNIT * p + 0) \div UNIT = p
      BY <1>2, <2>2, DivOnly
    <3>2. UNIT * p + 0 = c.ptr
      BY <1>2, <2>1, <2>2
    <3> QED
      BY <3>1, <3>2
  <2>4. p \in 0 .. leaf_cnt - 1
    <3>1. (0 <= p <=> UNIT * 0 <= UNIT * p) /\ (leaf_cnt <= p <=> UNIT * leaf_cnt <= UNIT * p) /\ UNIT * 0 = 0
      BY <1>2, <2>2, Scale
    <3>2. 0 <= c.ptr /\ c.ptr < pool_size
      BY <2>1, Constants DEF Pool
    <3> QED
      BY <1>2, <2>1, <2>2, <3>1, <3>2
  <2>5. p # u
    <3>1. c.ptr \in Block(c)
      BY <2>1 DEF Block
    <3>2. L \in Block(b)
      BY <1>1
    <3>3. c.ptr # L
      BY <1>10, <3>1, <3>2
    <3> QED
      BY <1>3, <2>2, <3>3
  <2> QED
    BY <1>8, <1>9, <2>3, <2>4, <2>5
<1>12. /\ b.ptr = L /\ b.size = size /\ b.ptr % UNIT = 0 /\ b.size % UNIT = 0
       /\ b.size = UNIT * this_len'[b.ptr \div UNIT]
  <2>1. L % UNIT = 0 /\ size % UNIT = 0
    BY MultMod
  <2>2. size = UNIT * this_len'[L \div UNIT]
    BY <1>4, <1>8 DEF u
  <2> QED
    BY <2>1, <2>2
<1> HIDE DEF b
<1>13. live' = live \union {b}
  BY DEF b
<1>14. BlocksKnown'
  <2> SUFFICES ASSUME NEW c \in live'
               PROVE  /\ c.ptr \in Pool /\ c.size \in Nat \ {0} /\ Block(c) \subseteq Pool
                      /\ c.ptr % UNIT = 0 /\ c.size % UNIT = 0
                      /\ c.size = UNIT * this_len'[c.ptr \div UNIT]
    BY DEF BlocksKnown
  <2>1. CASE c \in live
    BY <1>9, <1>11, <2>1
  <2>2. CASE c = b
    BY <1>1, <1>12, <2>2
  <2> QED
    BY <1>13, <2>1, <2>2
<1>15. BlocksDisjoint'
  <2>1. Taken' \subseteq Pool
    BY <1>1, <1>5, <1>7 DEF BlocksDisjoint
  <2>2. \A c \in live' : c.ptr % UNIT = 0
    BY <1>9, <1>12, <1>13
  <2>3. \A b1, b2 \in live' : b1 # b2 => Block(b1) \intersect Block(b2) = {}
    BY <1>7, <1>10, <1>13 DEF BlocksDisjoint
  <2> QED
    BY <2>1, <2>2, <2>3 DEF BlocksDisjoint
<1>16. node' \in Trees /\ Correct(node', After(Free, L, R, TRUE), levels, 1, 0)
  <2> HIDE DEF R
  <2>1. node' = mark_range(n, L, R, TRUE)
    BY DEF R
  <2> QED
    BY <1>1, <2>1, MarkRange
<1>17. describes(node', Free')[levels][1][0]
  BY <1>6, <1>16 DEF Correct
<1> QED
  BY <1>8, <1>14, <1>15, <1>16, <1>17 DEF AllocInv

\* The tree changes only in what it was before a mark was passed on.
LEMMA TreeOnly ==
  ASSUME AllocInv, node' \in Trees, Correct(node', Free, levels, 1, 0),
         UNCHANGED <<this_len, live>>
  PROVE  AllocInv'
<1>1. Taken' = Taken /\ Free' = Free
  BY DEF Taken, Free
<1>2. BlocksKnown' /\ BlocksDisjoint'
  BY <1>1 DEF AllocInv, BlocksKnown, BlocksDisjoint
<1>3. describes(node', Free')[levels][1][0]
  BY <1>1 DEF Correct
<1> QED
  BY <1>2, <1>3 DEF AllocInv

LEMMA AllocateInv ==
  ASSUME AllocInv, NEW size_ \in Sizes, NEW a \in Alignments, allocate(size_, a)
  PROVE  AllocInv'
<1> DEFINE size  == RoundUp(size_, a)
           spot == find(node, size + Slack(a))
           Lpos  == RoundUp(spot.pos, a)
<1>1. CASE size_ = 0
  <2>1. UNCHANGED <<node, this_len, live>>
    BY <1>1 DEF allocate
  <2>2. node \in Trees /\ Correct(node, Free, levels, 1, 0)
    BY DEF AllocInv, Correct
  <2> QED
    BY <2>1, <2>2, TreeOnly
<1>2. CASE size_ # 0
  <2>1. size_ \in Nat \ {0}
    BY <1>2, AllocatorAssumption
  <2>2. /\ size \in Nat \ {0} /\ Mult(size)
        /\ spot.tree \in Trees /\ Correct(spot.tree, Free, levels, 1, 0)
        /\ IF node[1].len < size + Slack(a) THEN spot.pos = nullptr
           ELSE /\ spot.pos # nullptr
                /\ Lpos \in Nat /\ Mult(Lpos) /\ Lpos % a = 0
                /\ Lpos .. Lpos + size - 1 \subseteq Free
    BY <2>1, AllocateFinds
  <2>3. CASE spot.pos = nullptr
    <3>1. node' = spot.tree /\ UNCHANGED <<this_len, live>>
      BY <1>2, <2>3 DEF allocate
    <3> HIDE DEF spot
    <3> QED
      BY <2>2, <3>1, TreeOnly
  <2>4. CASE spot.pos # nullptr
    <3>1. /\ node' = mark_range(spot.tree, Lpos, Lpos + size - 1, TRUE)
          /\ this_len' = [this_len EXCEPT ![Lpos \div UNIT] = size \div UNIT]
          /\ live' = live \union {[ptr |-> Lpos, size |-> size]}
      BY <1>2, <2>4 DEF allocate
    <3> DEFINE n == spot.tree
    <3>2. /\ size \in Nat \ {0} /\ Mult(size) /\ Lpos \in Nat /\ Mult(Lpos)
          /\ Lpos .. Lpos + size - 1 \subseteq Free
          /\ n \in Trees /\ Correct(n, Free, levels, 1, 0)
          /\ node' = mark_range(n, Lpos, Lpos + size - 1, TRUE)
      BY <2>2, <2>4, <3>1
    <3> HIDE DEF spot, Lpos, size, n
    <3> QED
      BY <3>1, <3>2, TakeBlock
  <2> QED
    BY <2>3, <2>4
<1> QED
  BY <1>1, <1>2

LEMMA DeallocateInv ==
  ASSUME AllocInv, NEW b \in live, deallocate(b.ptr)
  PROVE  AllocInv'
<1> DEFINE len == this_len[b.ptr \div UNIT] * UNIT
           L == b.ptr
           R == L + len - 1
<1>1. BlocksKnown /\ BlocksDisjoint /\ this_len \in [0 .. leaf_cnt - 1 -> Nat]
      /\ node \in Trees /\ Correct(node, Free, levels, 1, 0)
  BY DEF AllocInv, Correct
<1>2. /\ b.ptr \in Pool /\ b.ptr \in Nat /\ b.size \in Nat \ {0} /\ Block(b) \subseteq Pool
      /\ b.size = UNIT * this_len[b.ptr \div UNIT]
  BY <1>1, Constants DEF BlocksKnown
<1>3. \A c \in live : c.ptr \in Block(c)
  <2> SUFFICES ASSUME NEW c \in live PROVE c.ptr \in Block(c)
    OBVIOUS
  <2>1. c.ptr \in Nat /\ c.size \in Nat \ {0}
    BY <1>1, Constants DEF BlocksKnown
  <2> QED
    BY <2>1 DEF Block
<1>4. len = b.size
  <2>1. PICK t \in Int : t = this_len[b.ptr \div UNIT]
    <3>1. b.ptr \div UNIT \in 0 .. leaf_cnt - 1
      <4> DEFINE u == b.ptr \div UNIT
      <4>1. UNIT \in Nat \ {0} /\ leaf_cnt \in Nat /\ pool_size = UNIT * leaf_cnt /\ 0 \in 0 .. UNIT - 1
        BY Constants, Leaves
      <4>2. b.ptr % UNIT = 0
        BY <1>1 DEF BlocksKnown
      <4>3. PICK p \in Int : b.ptr = UNIT * p
        BY <1>2, <4>2, MultMod DEF Mult
      <4>4. (UNIT * p + 0) \div UNIT = p
        BY <4>1, <4>3, DivOnly
      <4>5. u = p
        BY <4>1, <4>3, <4>4
      <4>6. (0 <= p <=> UNIT * 0 <= UNIT * p) /\ (leaf_cnt <= p <=> UNIT * leaf_cnt <= UNIT * p) /\ UNIT * 0 = 0
        BY <4>1, <4>3, Scale
      <4>7. 0 <= b.ptr /\ b.ptr < pool_size
        BY <1>2, Constants DEF Pool
      <4> HIDE DEF u
      <4>8. u \in 0 .. leaf_cnt - 1
        BY <4>1, <4>3, <4>5, <4>6, <4>7
      <4> QED
        BY <4>8 DEF u
    <3> QED
      BY <1>1, <3>1
  <2>2. UNIT * t = t * UNIT
    BY <2>1, Constants
  <2> QED
    BY <1>2, <2>1, <2>2
<1> HIDE DEF len
<1>5. node' = mark_range(node, L, R, FALSE) /\ live' = {c \in live : c.ptr # b.ptr} /\ this_len' = this_len
  BY DEF deallocate, len
<1>6. Block(b) = L .. R /\ L \in Pool /\ R \in Pool
  <2>1. Block(b) = L .. R
    BY <1>4 DEF Block
  <2>2. R \in Block(b)
    BY <1>2, <1>4 DEF Block
  <2> QED
    BY <1>2, <2>1, <2>2
<1>7. \A c \in live : c # b => Block(c) \cap Block(b) = {} /\ c.ptr # b.ptr
  <2> SUFFICES ASSUME NEW c \in live, c # b PROVE Block(c) \cap Block(b) = {} /\ c.ptr # b.ptr
    OBVIOUS
  <2>1. Block(c) \cap Block(b) = {}
    BY <1>1 DEF BlocksDisjoint
  <2> QED
    BY <1>3, <2>1
<1>8. live' = live \ {b}
  BY <1>5, <1>7
<1>9. Taken' = Taken \ Block(b)
  BY <1>7, <1>8 DEF Taken
<1>10. Free' = After(Free, L, R, FALSE)
  BY <1>2, <1>6, <1>9 DEF Free, After
<1>11. node' \in Trees /\ Correct(node', After(Free, L, R, FALSE), levels, 1, 0)
  <2> HIDE DEF L, R
  <2> QED
    BY <1>1, <1>5, <1>6, MarkRange
<1>12. BlocksKnown'
  BY <1>1, <1>5, <1>8 DEF BlocksKnown
<1>13. BlocksDisjoint'
  BY <1>1, <1>8, <1>9 DEF BlocksDisjoint
<1>14. describes(node', Free')[levels][1][0]
  BY <1>10, <1>11 DEF Correct
<1> QED
  BY <1>1, <1>5, <1>11, <1>12, <1>13, <1>14 DEF AllocInv

LEMMA NextInv == AllocInv /\ [AllocNext]_avars => AllocInv'
<1> SUFFICES ASSUME AllocInv, [AllocNext]_avars PROVE AllocInv'
  OBVIOUS
<1>1. ASSUME NEW size \in Sizes, NEW a \in Alignments, allocate(size, a) PROVE AllocInv'
  BY <1>1, AllocateInv
<1>2. ASSUME NEW b \in live, deallocate(b.ptr) PROVE AllocInv'
  BY <1>2, DeallocateInv
<1>3. CASE UNCHANGED avars
  <2>1. node' = node /\ UNCHANGED <<this_len, live>>
    BY <1>3 DEF avars
  <2>2. node' \in Trees /\ Correct(node', Free, levels, 1, 0)
    BY <2>1 DEF AllocInv, Correct
  <2> QED
    BY <2>1, <2>2, TreeOnly
<1> QED
  BY <1>1, <1>2, <1>3 DEF AllocNext

-----------------------------------------------------------------------------
(* Theorems. *)

\* The tree always describes the bytes that no block in use holds.
THEOREM TreeDescribesFree == AllocSpec => []AllocInv
<1>1. AllocInit => AllocInv
  BY InitInv
<1>2. AllocInv /\ [AllocNext]_avars => AllocInv'
  BY NextInv
<1> QED
  BY <1>1, <1>2, PTL DEF AllocSpec

\* Blocks in use are apart, inside the pool and start with a leaf.
THEOREM BlocksAlwaysDisjoint == AllocSpec => []BlocksDisjoint
<1>1. AllocInv => BlocksDisjoint
  BY DEF AllocInv
<1> QED
  BY <1>1, TreeDescribesFree, PTL

\* The root knows the longest free run, whatever is still to be pushed down.
THEOREM RootAlwaysKnows == AllocSpec => []RootKnowsLongest
<1>1. AllocInv => RootKnowsLongest
  BY RootLongest
<1> QED
  BY <1>1, TreeDescribesFree, PTL

\* A request is refused only when it is empty or no free run is long enough;
\* else its block is aligned and was free.
THEOREM AllocateAnswers == AllocSpec => AnswerRight
<1> DEFINE Right ==
      request' # request \/ ret' # ret =>
       IF ret' = nullptr
         THEN \/ request'.size = 0
              \/ LongestFree < request'.size + Slack(request'.alignment)
         ELSE /\ ret' % request'.alignment = 0
              /\ ret' .. ret' + request'.size - 1 \subseteq Pool \ Taken
<1>1. ASSUME AllocInv, NEW size_ \in Sizes, NEW a \in Alignments, allocate(size_, a) PROVE Right
  <2> DEFINE size  == RoundUp(size_, a)
             spot == find(node, size + Slack(a))
             Lpos  == RoundUp(spot.pos, a)
  <2>1. request'.size = size /\ request'.alignment = a
    BY <1>1 DEF allocate
  <2>2. CASE size_ = 0
    <3>1. size = 0
      BY <2>2, AlignmentOK, RoundsUp
    <3>2. ret' = nullptr
      BY <1>1, <2>2 DEF allocate
    <3> QED
      BY <2>1, <3>1, <3>2
  <2>3. CASE size_ # 0
    <3>1. size_ \in Nat \ {0}
      BY <2>3, AllocatorAssumption
    <3>2. /\ size \in Nat \ {0} /\ Mult(size)
          /\ spot.tree \in Trees /\ Correct(spot.tree, Free, levels, 1, 0)
          /\ IF node[1].len < size + Slack(a) THEN spot.pos = nullptr
             ELSE /\ spot.pos # nullptr
                  /\ Lpos \in Nat /\ Mult(Lpos) /\ Lpos % a = 0
                  /\ Lpos .. Lpos + size - 1 \subseteq Free
      BY <1>1, <3>1, AllocateFinds
    <3>3. ret' = IF spot.pos = nullptr THEN nullptr ELSE Lpos
      BY <1>1, <2>3 DEF allocate
    <3>4. node[1].len = LongestFree
      BY <1>1, RootLongest DEF RootKnowsLongest
    <3> HIDE DEF size, spot, Lpos
    <3>5. CASE node[1].len < size + Slack(a)
      BY <2>1, <3>2, <3>3, <3>4, <3>5
    <3>6. CASE ~ (node[1].len < size + Slack(a))
      <4>1. ret' = Lpos /\ ret' # nullptr
        BY <3>2, <3>3, <3>6, Constants
      <4> QED
        BY <2>1, <3>2, <3>6, <4>1 DEF Free
    <3> QED
      BY <3>5, <3>6
  <2> QED
    BY <2>2, <2>3
<1>2. ASSUME NEW b \in live, deallocate(b.ptr) PROVE Right
  BY <1>2 DEF deallocate, NoRequest
<1>3. AllocInv /\ [AllocNext]_avars => [Right]_avars
  BY <1>1, <1>2 DEF AllocNext
<1> QED
  BY <1>3, TreeDescribesFree, PTL DEF AllocSpec, AnswerRight

-----------------------------------------------------------------------------
(* The agent: the queues that init() finds. *)

\* The recursive function of pushed is what its equation says.
LEMMA PushedOne ==
  ASSUME NEW S, NEW parts \in Seq(Seq(S))
  PROVE  pushed(parts) \in Seq(S)
<1> DEFINE n == Len(parts)
           Loop(f) == f = [i \in 0 .. n |-> IF i = 0 THEN <<>> ELSE f[i - 1] \o parts[i]]
           g == [a \in Nat \X Seq(S) |-> IF a[1] + 1 \in 1 .. n THEN a[2] \o parts[a[1] + 1] ELSE a[2]]
           upto == CHOOSE f : Loop(f)
<1>1. n \in Nat /\ \A i \in 1 .. n : parts[i] \in Seq(S)
  BY LenProperties, ElementOfSeq
<1> HIDE DEF n
<1>2. g \in [Nat \X Seq(S) -> Seq(S)]
  <2>1. ASSUME NEW a \in Nat \X Seq(S)
        PROVE  (IF a[1] + 1 \in 1 .. n THEN a[2] \o parts[a[1] + 1] ELSE a[2]) \in Seq(S)
    <3>1. a[1] + 1 \in 1 .. n => a[2] \o parts[a[1] + 1] \in Seq(S)
      BY <1>1, ConcatProperties
    <3> QED
      BY <3>1
  <2> QED
    BY <2>1
<1>3. \A k \in Nat, s \in Seq(S) : k + 1 \in 1 .. n => g[<<k, s>>] = s \o parts[k + 1]
  OBVIOUS
<1> HIDE DEF g
<1>4. PICK f : Iterates(f, Seq(S), <<>>, g)
  <2>1. <<>> \in Seq(S)
    OBVIOUS
  <2> QED
    BY <1>2, <2>1, Iteration
<1> DEFINE h == [i \in 0 .. n |-> f[i]]
<1>5. \A i \in 0 .. n : f[i] \in Seq(S)
  BY <1>1, <1>4 DEF Iterates
<1>6. ASSUME NEW i \in 1 .. n PROVE h[i] = h[i - 1] \o parts[i]
  <2> DEFINE k == i - 1
  <2>1. k \in Nat /\ k + 1 = i /\ k \in 0 .. n /\ i \in 0 .. n
    BY <1>1
  <2> HIDE DEF k
  <2>2. f[k + 1] = g[<<k, f[k]>>]
    BY <1>4, <2>1 DEF Iterates
  <2>3. g[<<k, f[k]>>] = f[k] \o parts[k + 1]
    BY <1>3, <1>5, <2>1
  <2> QED
    BY <2>1, <2>2, <2>3 DEF k
<1>7. h[0] = <<>>
  BY <1>1, <1>4 DEF Iterates
<1>8. Loop(h)
  <2>1. ASSUME NEW i \in 0 .. n PROVE h[i] = IF i = 0 THEN <<>> ELSE h[i - 1] \o parts[i]
    <3> HIDE DEF h
    <3>1. i = 0 \/ i \in 1 .. n
      BY <1>1
    <3>2. CASE i = 0
      BY <1>7, <3>2
    <3>3. CASE i \in 1 .. n
      <4>1. i # 0
        BY <3>3
      <4> QED
        BY <1>6, <3>3, <4>1
    <3> QED
      BY <3>1, <3>2, <3>3
  <2>2. h = [i \in 0 .. n |-> h[i]]
    OBVIOUS
  <2> HIDE DEF h
  <2> QED
    BY <2>1, <2>2
<1>9. Loop(upto)
  <2> HIDE DEF Loop
  <2> QED
    BY <1>8
<1>10. pushed(parts) = upto[n]
  BY DEF pushed, n
<1> HIDE DEF upto
<1>11. upto[0] = <<>> /\ \A i \in 1 .. n : upto[i] = upto[i - 1] \o parts[i]
  <2>1. \A i \in 0 .. n : upto[i] = IF i = 0 THEN <<>> ELSE upto[i - 1] \o parts[i]
    BY <1>9
  <2>2. 0 \in 0 .. n /\ \A i \in 1 .. n : i \in 0 .. n /\ i # 0
    BY <1>1
  <2> QED
    BY <2>1, <2>2
<1> HIDE DEF Loop, h
<1> DEFINE T == {k \in Nat : k <= n => upto[k] \in Seq(S)}
<1>12. T = Nat
  <2>1. 0 \in T
    <3>1. <<>> \in Seq(S) /\ upto[0] \in Seq(S)
      BY <1>11, EmptySeq
    <3> QED
      BY <3>1
  <2>2. ASSUME NEW k \in T PROVE k + 1 \in T
    <3> SUFFICES ASSUME k + 1 <= n PROVE upto[k + 1] \in Seq(S)
      OBVIOUS
    <3>1. k + 1 \in 1 .. n /\ (k + 1) - 1 = k /\ upto[k] \in Seq(S)
      BY <1>1
    <3>2. upto[k + 1] = upto[(k + 1) - 1] \o parts[k + 1]
      BY <1>11, <3>1
    <3> QED
      BY <1>1, <3>1, <3>2, ConcatProperties
  <2>3. T \in SUBSET Nat
    OBVIOUS
  <2> HIDE DEF T
  <2> QED
    BY <2>1, <2>2, <2>3, AllNat
<1>13. n \in T
  BY <1>1, <1>12
<1> QED
  BY <1>1, <1>10, <1>13

\* The queues of a device that pass every test.
QueuesOf(d) == {q \in [id : 1 .. Len(d.wqs), tests : {Tests}] : d.dsa /\ d.wqs[q.id] = Tests}

LEMMA QueuesUsable ==
  ASSUME NEW d, Len(d.wqs) \in Nat
  PROVE  wq_list(d) \in Seq(QueuesOf(d))
<1> DEFINE n == Len(d.wqs)
           part(i) == IF d.dsa /\ Usable(d.wqs[i]) THEN <<[id |-> i, tests |-> d.wqs[i]]>> ELSE <<>>
           parts == [i \in 1 .. n |-> part(i)]
<1>1. \A i \in 1 .. n : part(i) \in Seq(QueuesOf(d))
  <2> SUFFICES ASSUME NEW i \in 1 .. n PROVE part(i) \in Seq(QueuesOf(d))
    OBVIOUS
  <2>1. CASE d.dsa /\ Usable(d.wqs[i])
    <3>1. [id |-> i, tests |-> d.wqs[i]] \in QueuesOf(d)
      BY <2>1 DEF QueuesOf, Usable
    <3> QED
      BY <2>1, <3>1
  <2>2. CASE ~ (d.dsa /\ Usable(d.wqs[i]))
    BY <2>2
  <2> QED
    BY <2>1, <2>2
<1> HIDE DEF part
<1>2. parts \in Seq(Seq(QueuesOf(d)))
  BY <1>1
<1> HIDE DEF parts
<1>3. pushed(parts) \in Seq(QueuesOf(d))
  BY <1>2, PushedOne
<1> QED
  BY <1>3 DEF wq_list, parts, part

\* The devices of a machine that have such a queue.
DevicesOf(m) == {[id |-> i, wqs |-> wq_list(m[i])] : i \in {i \in 1 .. Len(m) : wq_list(m[i]) # <<>>}}

LEMMA DevicesUsable ==
  ASSUME NEW m, Len(m) \in Nat
  PROVE  found(m) \in Seq(DevicesOf(m))
<1> DEFINE n == Len(m)
           part(i) == IF wq_list(m[i]) # <<>> THEN <<[id |-> i, wqs |-> wq_list(m[i])]>> ELSE <<>>
           parts == [i \in 1 .. n |-> part(i)]
<1>1. \A i \in 1 .. n : part(i) \in Seq(DevicesOf(m))
  <2> SUFFICES ASSUME NEW i \in 1 .. n PROVE part(i) \in Seq(DevicesOf(m))
    OBVIOUS
  <2>1. CASE wq_list(m[i]) # <<>>
    <3>1. [id |-> i, wqs |-> wq_list(m[i])] \in DevicesOf(m)
      BY <2>1 DEF DevicesOf
    <3> QED
      BY <2>1, <3>1
  <2>2. CASE wq_list(m[i]) = <<>>
    BY <2>2
  <2> QED
    BY <2>1, <2>2
<1> HIDE DEF part
<1>2. parts \in Seq(Seq(DevicesOf(m)))
  BY <1>1
<1> HIDE DEF parts
<1>3. pushed(parts) \in Seq(DevicesOf(m))
  BY <1>2, PushedOne
<1> QED
  BY <1>3 DEF found, parts, part

\* An agent knows at least one queue of each of its devices, and only queues
\* that can be used.
LEMMA FoundUsable ==
  ASSUME NEW m \in Machines
  PROVE  /\ Len(found(m)) \in Nat /\ DOMAIN found(m) = 1 .. Len(found(m))
         /\ \A d \in DOMAIN found(m) :
              LET dev == found(m)[d]
              IN  /\ Len(dev.wqs) \in Nat \ {0} /\ DOMAIN dev.wqs = 1 .. Len(dev.wqs)
                  /\ \A i \in DOMAIN dev.wqs :
                       m[dev.id].dsa /\ m[dev.id].wqs[dev.wqs[i].id] = Tests
<1>1. m \in Seq([dsa : BOOLEAN, wqs : Seq(SUBSET Tests)])
  BY AgentAssumption
<1>2. Len(m) \in Nat /\ \A i \in 1 .. Len(m) : m[i] \in [dsa : BOOLEAN, wqs : Seq(SUBSET Tests)]
  BY <1>1, LenProperties, ElementOfSeq
<1>3. found(m) \in Seq(DevicesOf(m))
  BY <1>2, DevicesUsable
<1>4. Len(found(m)) \in Nat /\ DOMAIN found(m) = 1 .. Len(found(m))
  BY <1>3, LenProperties
<1>5. ASSUME NEW d \in DOMAIN found(m)
      PROVE  LET dev == found(m)[d]
             IN  /\ Len(dev.wqs) \in Nat \ {0} /\ DOMAIN dev.wqs = 1 .. Len(dev.wqs)
                 /\ \A i \in DOMAIN dev.wqs :
                      m[dev.id].dsa /\ m[dev.id].wqs[dev.wqs[i].id] = Tests
  <2> DEFINE dev == found(m)[d]
  <2>1. dev \in DevicesOf(m)
    BY <1>3, <1>4, <1>5, ElementOfSeq
  <2> HIDE DEF dev
  <2>2. PICK k \in 1 .. Len(m) : wq_list(m[k]) # <<>> /\ dev.id = k /\ dev.wqs = wq_list(m[k])
    BY <2>1 DEF DevicesOf
  <2>3. m[k] \in [dsa : BOOLEAN, wqs : Seq(SUBSET Tests)]
    BY <1>2
  <2>4. Len(m[k].wqs) \in Nat
    BY <2>3, LenProperties
  <2>5. dev.wqs \in Seq(QueuesOf(m[k]))
    BY <2>2, <2>4, QueuesUsable
  <2>6. Len(dev.wqs) \in Nat \ {0} /\ DOMAIN dev.wqs = 1 .. Len(dev.wqs)
    BY <2>2, <2>5, EmptySeq, LenProperties
  <2>7. ASSUME NEW i \in DOMAIN dev.wqs
        PROVE  m[k].dsa /\ m[k].wqs[dev.wqs[i].id] = Tests
    <3>1. dev.wqs[i] \in QueuesOf(m[k])
      BY <2>5, <2>6, <2>7, ElementOfSeq
    <3> QED
      BY <3>1 DEF QueuesOf
  <2> QED
    BY <2>2, <2>6, <2>7 DEF dev
<1> QED
  BY <1>4, <1>5

-----------------------------------------------------------------------------
(* The shares of a counter. *)

LEMMA ShareStep ==
  ASSUME NEW c \in Nat, NEW n \in Nat \ {0}, NEW i \in 1 .. n
  PROVE  /\ Share(c, n, i) \in Int
         /\ 1 + (c % n) \in 1 .. n
         /\ Share(c + 1, n, i) = IF i = 1 + (c % n) THEN Share(c, n, i) + 1 ELSE Share(c, n, i)
<1> DEFINE q == c \div n
           r == c % n
<1>1. c = n * q + r /\ q \in Int /\ r \in 0 .. n - 1
  BY DivMod
<1> HIDE DEF q, r
<1>2. ASSUME NEW s \in Nat, s <= n
      PROVE  (n * q + s + n - i) \div n = IF i <= s THEN q + 1 ELSE q
  <2>1. CASE i <= s
    <3>1. n * q + s + n - i = n * (q + 1) + (s - i) /\ s - i \in 0 .. n - 1
      BY <1>1, <1>2, <2>1
    <3> QED
      BY <1>1, <2>1, <3>1, DivOnly
  <2>2. CASE i > s
    <3>1. n * q + s + n - i = n * q + (s + n - i) /\ s + n - i \in 0 .. n - 1
      BY <1>1, <1>2, <2>2
    <3> QED
      BY <1>1, <1>2, <2>2, <3>1, DivOnly
  <2> QED
    BY <1>2, <2>1, <2>2
<1>3. Share(c, n, i) = IF i <= r THEN q + 1 ELSE q
  BY <1>1, <1>2 DEF Share
<1>4. Share(c + 1, n, i) = IF i <= r + 1 THEN q + 1 ELSE q
  <2>1. r + 1 \in Nat /\ r + 1 <= n /\ c + 1 + n - i = n * q + (r + 1) + n - i
    BY <1>1
  <2> QED
    BY <1>2, <2>1 DEF Share
<1> QED
  BY <1>1, <1>3, <1>4 DEF r

LEMMA SharesEven ==
  ASSUME NEW c \in Nat, NEW n \in Nat \ {0}, NEW i \in 1 .. n, NEW j \in 1 .. n
  PROVE  Even(Share(c, n, i), Share(c, n, j))
<1> DEFINE q == c \div n
           r == c % n
<1>1. c = n * q + r /\ q \in Int /\ r \in 0 .. n - 1
  BY DivMod
<1> HIDE DEF q, r
<1>2. ASSUME NEW k \in 1 .. n PROVE Share(c, n, k) \in {q, q + 1}
  <2>1. CASE k <= r
    <3>1. c + n - k = n * (q + 1) + (r - k) /\ r - k \in 0 .. n - 1
      BY <1>1, <2>1
    <3> QED
      BY <1>1, <3>1, DivOnly DEF Share
  <2>2. CASE k > r
    <3>1. c + n - k = n * q + (r + n - k) /\ r + n - k \in 0 .. n - 1
      BY <1>1, <2>2
    <3> QED
      BY <1>1, <3>1, DivOnly DEF Share
  <2> QED
    BY <1>1, <2>1, <2>2
<1> QED
  BY <1>1, <1>2 DEF Even

LEMMA NoShareYet ==
  ASSUME NEW n \in Nat \ {0}, NEW i \in 1 .. n
  PROVE  Share(0, n, i) = 0
<1>1. n * 0 + (n - i) = 0 + n - i /\ n - i \in 0 .. n - 1
  OBVIOUS
<1> QED
  BY <1>1, DivOnly DEF Share

-----------------------------------------------------------------------------
(* What a step does to the counts. *)

DealtTo(g, a, d, i) == {k \in DOMAIN g : g[k].agent = a /\ g[k].dev = d /\ g[k].wq = i}
DealtInTurn(g, a, d) == {k \in DOMAIN g : g[k].agent = a /\ g[k].dev = d /\ g[k].turn}
Records == [agent : Nat, dev : Nat, wq : Nat, turn : BOOLEAN]

LEMMA CountsAre ==
  /\ \A a, d, i : Uses(a, d, i) = Cardinality(DealtTo(got, a, d, i))
  /\ \A a, d : Turns(a, d) = Cardinality(DealtInTurn(got, a, d))
  BY DEF Uses, Turns, DealtTo, DealtInTurn

LEMMA NothingDealt ==
  ASSUME got = <<>>
  PROVE  \A a, d : Turns(a, d) = 0 /\ \A i : Uses(a, d, i) = 0
<1>1. \A a, d, i : DealtTo(got, a, d, i) = {} /\ DealtInTurn(got, a, d) = {}
  BY DEF DealtTo, DealtInTurn
<1> QED
  BY <1>1, CountsAre, FS_EmptySet

\* One more queue is handed out.
LEMMA OneMoreDealt ==
  ASSUME NEW g \in Seq(Records), NEW u \in Records
  PROVE  LET n == Len(g)  h == Append(g, u)
         IN  /\ n \in Nat /\ h[n + 1] = u /\ \A k \in DOMAIN g : h[k] = g[k]
             /\ DOMAIN h = DOMAIN g \union {n + 1} /\ n + 1 \notin DOMAIN g /\ IsFiniteSet(DOMAIN g)
<1> DEFINE n == Len(g)
           h == Append(g, u)
<1>1. n \in Nat /\ DOMAIN g = 1 .. n /\ DOMAIN h = 1 .. n + 1 /\ h[n + 1] = u
      /\ \A k \in 1 .. n : h[k] = g[k]
  BY LenProperties, AppendProperties
<1>2. IsFiniteSet(1 .. n)
  BY <1>1, FS_Interval
<1> QED
  BY <1>1, <1>2

LEMMA OneMoreOf ==
  ASSUME NEW g \in Seq(Records), NEW u \in Records, NEW a, NEW d, NEW i
  PROVE  /\ Cardinality(DealtTo(g, a, d, i)) \in Nat
         /\ Cardinality(DealtTo(Append(g, u), a, d, i)) =
              IF u.agent = a /\ u.dev = d /\ u.wq = i
              THEN Cardinality(DealtTo(g, a, d, i)) + 1 ELSE Cardinality(DealtTo(g, a, d, i))
<1> DEFINE n == Len(g)
           h == Append(g, u)
           G == DealtTo(g, a, d, i)
<1>1. /\ n \in Nat /\ h[n + 1] = u /\ \A k \in DOMAIN g : h[k] = g[k]
      /\ DOMAIN h = DOMAIN g \union {n + 1} /\ n + 1 \notin DOMAIN g /\ IsFiniteSet(DOMAIN g)
  BY OneMoreDealt
<1> HIDE DEF n, h
<1>2. G \subseteq DOMAIN g /\ n + 1 \notin G
  BY <1>1 DEF DealtTo
<1>3. IsFiniteSet(G) /\ Cardinality(G) \in Nat
  BY <1>1, <1>2, FS_Subset, FS_CardinalityType
<1>4. DealtTo(h, a, d, i) = IF u.agent = a /\ u.dev = d /\ u.wq = i THEN G \union {n + 1} ELSE G
  BY <1>1 DEF DealtTo
<1> HIDE DEF G
<1>5. Cardinality(G \union {n + 1}) = Cardinality(G) + 1
  BY <1>2, <1>3, FS_AddElement
<1> QED
  BY <1>3, <1>4, <1>5 DEF G, h

LEMMA OneMoreInTurn ==
  ASSUME NEW g \in Seq(Records), NEW u \in Records, NEW a, NEW d
  PROVE  /\ Cardinality(DealtInTurn(g, a, d)) \in Nat
         /\ Cardinality(DealtInTurn(Append(g, u), a, d)) =
              IF u.agent = a /\ u.dev = d /\ u.turn
              THEN Cardinality(DealtInTurn(g, a, d)) + 1 ELSE Cardinality(DealtInTurn(g, a, d))
<1> DEFINE n == Len(g)
           h == Append(g, u)
           G == DealtInTurn(g, a, d)
<1>1. /\ n \in Nat /\ h[n + 1] = u /\ \A k \in DOMAIN g : h[k] = g[k]
      /\ DOMAIN h = DOMAIN g \union {n + 1} /\ n + 1 \notin DOMAIN g /\ IsFiniteSet(DOMAIN g)
  BY OneMoreDealt
<1> HIDE DEF n, h
<1>2. G \subseteq DOMAIN g /\ n + 1 \notin G
  BY <1>1 DEF DealtInTurn
<1>3. IsFiniteSet(G) /\ Cardinality(G) \in Nat
  BY <1>1, <1>2, FS_Subset, FS_CardinalityType
<1>4. DealtInTurn(h, a, d) = IF u.agent = a /\ u.dev = d /\ u.turn THEN G \union {n + 1} ELSE G
  BY <1>1 DEF DealtInTurn
<1> HIDE DEF G
<1>5. Cardinality(G \union {n + 1}) = Cardinality(G) + 1
  BY <1>2, <1>3, FS_AddElement
<1> QED
  BY <1>3, <1>4, <1>5 DEF G, h

\* As many queues as there are such records.
LEMMA TurnsCounted == ASSUME got \in Seq(Records) PROVE \A a, d : Turns(a, d) \in Nat
<1> SUFFICES ASSUME NEW a, NEW d PROVE Turns(a, d) \in Nat
  OBVIOUS
<1>1. [agent |-> 0, dev |-> 0, wq |-> 0, turn |-> FALSE] \in Records
  BY DEF Records
<1> QED
  BY <1>1, OneMoreInTurn, CountsAre

\* A new agent has the devices of the machine, and its counters are 0.
LEMMA NewAgentIs ==
  ASSUME machine \in Machines
  PROVE  LET devices == found(machine)
         IN  /\ NewAgent \in [devices : {devices}, now_dev_id : Nat, now_wq_id : [DOMAIN devices -> Nat]]
             /\ NewAgent.now_dev_id = 0 /\ \A d \in DOMAIN devices : NewAgent.now_wq_id[d] = 0
<1>1. DOMAIN found(machine) = 1 .. Len(found(machine))
  BY FoundUsable
<1> DEFINE devices == found(machine)
<1>2. NewAgent = [devices |-> devices, now_dev_id |-> 0, now_wq_id |-> [d \in DOMAIN devices |-> 0]]
  BY <1>1 DEF NewAgent
<1> HIDE DEF devices
<1> QED
  BY <1>2 DEF devices

\* Tickets of a new agent.
LEMMA NewTickets ==
  ASSUME AgentTypes, got' = <<>>, machine' = machine, agents' = Append(agents, NewAgent),
         \A t \in Threads : ~thr'[t].turn,
         \A a \in DOMAIN agents, d \in DOMAIN found(machine) :
            LET n == Len(found(machine)[d].wqs)
            IN  /\ \A i \in 1 .. n : Share(agents[a].now_wq_id[d], n, i) = 0
                /\ Share(agents[a].now_dev_id, Len(found(machine)), d) = 0
  PROVE  TicketsDealt'
<1> DEFINE D == found(machine)
           R == [devices : {D}, now_dev_id : Nat, now_wq_id : [DOMAIN D -> Nat]]
<1>1. machine \in Machines /\ agents \in Seq(R) /\ D # <<>>
  BY DEF AgentTypes
<1>2. NewAgent \in R /\ NewAgent.now_dev_id = 0 /\ \A d \in DOMAIN D : NewAgent.now_wq_id[d] = 0
  BY <1>1, NewAgentIs
<1>3. Len(D) \in Nat /\ DOMAIN D = 1 .. Len(D) /\ \A d \in DOMAIN D : Len(D[d].wqs) \in Nat \ {0}
  BY <1>1, FoundUsable
<1>4. DOMAIN agents' = DOMAIN agents \union {Len(agents) + 1} /\ agents'[Len(agents) + 1] = NewAgent
      /\ \A a \in DOMAIN agents : agents'[a] = agents[a]
  <2>1. Len(agents) \in Nat /\ DOMAIN agents = 1 .. Len(agents)
    BY <1>1, LenProperties
  <2> HIDE DEF R, D
  <2>2. Len(Append(agents, NewAgent)) = Len(agents) + 1
        /\ DOMAIN Append(agents, NewAgent) = 1 .. Len(agents) + 1
        /\ \A a \in 1 .. Len(agents) + 1 : Append(agents, NewAgent)[a] = IF a = Len(agents) + 1 THEN NewAgent ELSE agents[a]
    BY <1>1, <1>2, AppendProperties, LenProperties
  <2> QED
    BY <2>1, <2>2
<1>5. \A a, d : Holding(a, d)' = {}
  BY DEF Holding
<1>6. \A a, d : Turns(a, d)' = 0 /\ \A i : Uses(a, d, i)' = 0
  <2>1. \A a, d, i : DealtTo(got', a, d, i) = {} /\ DealtInTurn(got', a, d) = {}
    BY DEF DealtTo, DealtInTurn
  <2>2. Cardinality({}) = 0
    BY FS_EmptySet
  <2> QED
    BY <2>1, <2>2 DEF Uses, Turns, DealtTo, DealtInTurn
<1>7. ASSUME NEW a \in DOMAIN agents', NEW d \in DOMAIN D
      PROVE  LET n == Len(D[d].wqs)
             IN  /\ \A i \in 1 .. n : Uses(a, d, i)' = Share(agents'[a].now_wq_id[d], n, i)
                 /\ IsFiniteSet(Holding(a, d)')
                 /\ Turns(a, d)' + Cardinality(Holding(a, d)') = Share(agents'[a].now_dev_id, Len(D), d)
  <2> DEFINE n == Len(D[d].wqs)
  <2>1. n \in Nat \ {0} /\ d \in 1 .. Len(D) /\ Len(D) \in Nat \ {0}
    BY <1>3, <1>7
  <2>2. /\ \A i \in 1 .. n : Share(agents'[a].now_wq_id[d], n, i) = 0
        /\ Share(agents'[a].now_dev_id, Len(D), d) = 0
    <3>1. CASE a \in DOMAIN agents
      BY <1>4, <1>7, <3>1
    <3>2. CASE a = Len(agents) + 1
      BY <1>2, <1>4, <1>7, <2>1, <3>2, NoShareYet
    <3> QED
      BY <1>4, <1>7, <3>1, <3>2
  <2> QED
    BY <1>5, <1>6, <2>2, FS_EmptySet
<1> QED
  BY <1>7 DEF TicketsDealt

-----------------------------------------------------------------------------
(* The inductive invariant. *)

AgentsOf(devices) == [devices : {devices}, now_dev_id : Nat, now_wq_id : [DOMAIN devices -> Nat]]
Places == [at : {"idle", "forked", "waits", "init", "device"}, agent : Nat, dev : Nat, turn : BOOLEAN]

\* What AgentTypes says, with names.
LEMMA AgentParts ==
  ASSUME AgentTypes
  PROVE  LET D == found(machine)
         IN  /\ machine \in Machines /\ D # <<>>
             /\ Len(D) \in Nat \ {0} /\ DOMAIN D = 1 .. Len(D)
             /\ \A d \in DOMAIN D : Len(D[d].wqs) \in Nat \ {0} /\ DOMAIN D[d].wqs = 1 .. Len(D[d].wqs)
             /\ agents \in Seq(AgentsOf(D)) /\ Len(agents) \in Nat /\ DOMAIN agents = 1 .. Len(agents)
             /\ \A a \in DOMAIN agents : agents[a] \in AgentsOf(D)
             /\ thr \in [Threads -> Places]
             /\ got \in Seq(Records) /\ Len(got) \in Nat /\ DOMAIN got = 1 .. Len(got)
<1> DEFINE D == found(machine)
<1>1. machine \in Machines /\ D # <<>> /\ agents \in Seq(AgentsOf(D)) /\ thr \in [Threads -> Places]
      /\ got \in Seq(Records)
  BY DEF AgentTypes, AgentsOf, Places, Records
<1>2. Len(D) \in Nat /\ DOMAIN D = 1 .. Len(D)
      /\ \A d \in DOMAIN D : Len(D[d].wqs) \in Nat \ {0} /\ DOMAIN D[d].wqs = 1 .. Len(D[d].wqs)
  BY <1>1, FoundUsable
<1>3. D \in Seq(DevicesOf(machine))
  <2>1. Len(machine) \in Nat
    BY <1>1, AgentAssumption, LenProperties
  <2> QED
    BY <2>1, DevicesUsable
<1>4. Len(D) # 0
  <2> HIDE DEF D
  <2> QED
    BY <1>1, <1>3, EmptySeq
<1>5. Len(agents) \in Nat /\ DOMAIN agents = 1 .. Len(agents) /\ Len(got) \in Nat /\ DOMAIN got = 1 .. Len(got)
  BY <1>1, LenProperties
<1>6. \A a \in DOMAIN agents : agents[a] \in AgentsOf(D)
  <2> HIDE DEF D
  <2> QED
    BY <1>1, <1>5, ElementOfSeq
<1> QED
  BY <1>1, <1>2, <1>4, <1>5, <1>6

\* One thread moves.
LEMMA ThreadMoves ==
  ASSUME thr \in [Threads -> Places], NEW t \in Threads, NEW place \in Places, thr' = At(t, place)
  PROVE  /\ thr' \in [Threads -> Places] /\ thr'[t] = place
         /\ \A u \in Threads : u # t => thr'[u] = thr[u]
  BY DEF At

LEMMA PlacesAre ==
  /\ \A a, d \in Nat : Holds(a, d) \in Places /\ [Holds(a, d) EXCEPT !.turn = FALSE] \in Places
  /\ \A name \in {"idle", "forked", "waits", "init", "device"} :
       Place(name) \in Places /\ Place(name).at = name /\ ~Place(name).turn
  BY DEF Holds, Places, Place

\* Without a queue handed out or a device taken, no ticket was drawn in turn.
LEMMA NoTickets ==
  ASSUME AgentTypes, TicketsDealt, got = <<>>, \A t \in Threads : ~thr[t].turn
  PROVE  \A a \in DOMAIN agents, d \in DOMAIN found(machine) :
            LET n == Len(found(machine)[d].wqs)
            IN  /\ \A i \in 1 .. n : Share(agents[a].now_wq_id[d], n, i) = 0
                /\ Share(agents[a].now_dev_id, Len(found(machine)), d) = 0
<1> SUFFICES ASSUME NEW a \in DOMAIN agents, NEW d \in DOMAIN found(machine)
             PROVE  LET n == Len(found(machine)[d].wqs)
                    IN  /\ \A i \in 1 .. n : Share(agents[a].now_wq_id[d], n, i) = 0
                        /\ Share(agents[a].now_dev_id, Len(found(machine)), d) = 0
  OBVIOUS
<1>1. Holding(a, d) = {}
  BY DEF Holding
<1>2. Turns(a, d) = 0 /\ \A i : Uses(a, d, i) = 0
  BY NothingDealt
<1> QED
  BY <1>1, <1>2, FS_EmptySet DEF TicketsDealt

\* A step that leaves agents and what was handed out, and no turn taken or given back.
LEMMA SameTickets ==
  ASSUME TicketsDealt, machine' = machine, got' = got,
         \A a \in DOMAIN agents' : /\ a \in DOMAIN agents
                                   /\ agents'[a].now_wq_id = agents[a].now_wq_id
                                   /\ agents'[a].now_dev_id = agents[a].now_dev_id,
         \A a, d : Holding(a, d)' = Holding(a, d)
  PROVE  TicketsDealt'
<1>1. \A a, d : Turns(a, d)' = Turns(a, d) /\ \A i : Uses(a, d, i)' = Uses(a, d, i)
  BY DEF Turns, Uses
<1> QED
  BY <1>1 DEF TicketsDealt

LEMMA AgentStarts == ASSUME AgentInit PROVE AgentInv
<1> DEFINE D == found(machine)
<1>1. PICK forked \in BOOLEAN, used \in BOOLEAN :
        /\ used => forked
        /\ agents = IF used THEN <<NewAgent>> ELSE <<>>
        /\ inst = Len(agents)
        /\ init_flag = IF used THEN "done" ELSE "no"
        /\ thr = [t \in Threads |-> Place(IF forked THEN IF t = Main THEN "forked" ELSE "waits" ELSE "idle")]
  BY DEF AgentInit
<1>2. machine \in Machines /\ D # <<>> /\ got = <<>>
  BY DEF AgentInit
<1>3. NewAgent \in AgentsOf(D) /\ NewAgent.now_dev_id = 0 /\ \A d \in DOMAIN D : NewAgent.now_wq_id[d] = 0
  BY <1>2, NewAgentIs DEF AgentsOf
<1>4. thr \in [Threads -> Places] /\ \A t \in Threads : ~thr[t].turn /\ thr[t].at \in {"forked", "waits", "idle"}
                                                        /\ thr[t].at = IF forked THEN IF t = Main THEN "forked" ELSE "waits" ELSE "idle"
  <2>1. \A t \in Threads : Place(IF forked THEN IF t = Main THEN "forked" ELSE "waits" ELSE "idle") \in Places
    BY PlacesAre
  <2> QED
    BY <1>1, <2>1, PlacesAre
<1>5. agents \in Seq(AgentsOf(D)) /\ Len(agents) = (IF used THEN 1 ELSE 0)
      /\ \A a \in DOMAIN agents : agents[a] = NewAgent
  <2> HIDE DEF D
  <2>1. CASE used
    <3>1. agents = <<NewAgent>>
      BY <1>1, <2>1
    <3> HIDE DEF NewAgent
    <3> QED
      BY <1>3, <2>1, <3>1
  <2>2. CASE ~used
    BY <1>1, <2>2
  <2> QED
    BY <2>1, <2>2
<1>6. AgentTypes
  <2>1. got \in Seq(Records)
    BY <1>2
  <2>2. inst \in Nat /\ init_flag \in {"no", "running", "done"}
    BY <1>1, <1>5
  <2> QED
    BY <1>2, <1>4, <1>5, <2>1, <2>2 DEF AgentTypes, AgentsOf, Places, Records
<1>7. OneConstructs
  <2>1. init_flag = "done" => inst = Len(agents) /\ agents # <<>>
    BY <1>1
  <2>2. got # <<>> => init_flag = "done"
    BY <1>2
  <2>3. \A t \in Threads : thr[t].at \notin {"device", "init"} /\ ~thr[t].turn
    BY <1>4
  <2> QED
    BY <2>1, <2>2, <2>3 DEF OneConstructs
<1>8. ForkedAlone
  BY <1>1, <1>2, <1>4, AgentAssumption DEF ForkedAlone
<1>9. DealtFrom
  BY <1>2 DEF DealtFrom
<1>10. TicketsDealt
  <2>1. \A a, d : Holding(a, d) = {} /\ Turns(a, d) = 0 /\ \A i : Uses(a, d, i) = 0
    BY <1>2, <1>4, NothingDealt DEF Holding
  <2>2. ASSUME NEW a \in DOMAIN agents, NEW d \in DOMAIN D
        PROVE  /\ \A i \in 1 .. Len(D[d].wqs) : Share(agents[a].now_wq_id[d], Len(D[d].wqs), i) = 0
               /\ Share(agents[a].now_dev_id, Len(D), d) = 0
    <3>1. Len(D) \in Nat \ {0} /\ d \in 1 .. Len(D) /\ Len(D[d].wqs) \in Nat \ {0}
      BY <1>6, <2>2, AgentParts
    <3> QED
      BY <1>3, <1>5, <2>2, <3>1, NoShareYet
  <2>3. IsFiniteSet({}) /\ Cardinality({}) = 0
    BY FS_EmptySet
  <2>4. ASSUME NEW a \in DOMAIN agents, NEW d \in DOMAIN D
        PROVE  /\ \A i \in 1 .. Len(D[d].wqs) : Uses(a, d, i) = Share(agents[a].now_wq_id[d], Len(D[d].wqs), i)
               /\ IsFiniteSet(Holding(a, d))
               /\ Turns(a, d) + Cardinality(Holding(a, d)) = Share(agents[a].now_dev_id, Len(D), d)
    <3>1. Holding(a, d) = {} /\ Turns(a, d) = 0
      BY <2>1
    <3>2. \A i \in 1 .. Len(D[d].wqs) : Uses(a, d, i) = Share(agents[a].now_wq_id[d], Len(D[d].wqs), i)
      <4> HIDE DEF D
      <4> QED
        BY <2>1, <2>2, <2>4
    <3>3. Turns(a, d) + Cardinality(Holding(a, d)) = 0
      BY <2>3, <3>1
    <3> QED
      BY <2>2, <2>3, <2>4, <3>1, <3>2, <3>3
  <2> QED
    BY <2>4 DEF TicketsDealt
<1> QED
  BY <1>6, <1>7, <1>8, <1>9, <1>10 DEF AgentInv

LEMMA NewInstanceKeeps == ASSUME AgentInv, new_instance PROVE AgentInv'
<1> DEFINE D == found(machine)
<1> USE DEF AgentInv, new_instance
<1>1. got = <<>> /\ init_flag # "running" /\ machine' = machine /\ got' = got /\ init_flag' = init_flag
      /\ Main \in Threads
  BY AgentAssumption DEF ForkedAlone
<1>2. thr' = [t \in Threads |-> Place("idle")] /\ \A t \in Threads : thr'[t] = Place("idle")
  OBVIOUS
<1>3. \A t \in Threads : ~thr[t].turn
  BY <1>1 DEF ForkedAlone, OneConstructs
<1>4. NewAgent \in AgentsOf(D)
  BY AgentParts, NewAgentIs DEF AgentsOf
<1>5. agents' \in Seq(AgentsOf(D)) /\ Len(agents') = Len(agents) + 1
  <2> HIDE DEF D
  <2> QED
    BY <1>4, AgentParts, AppendProperties DEF D
<1>6. AgentTypes'
  <2>1. thr' \in [Threads -> Places] /\ inst' \in Nat
    BY <1>2, <1>5, PlacesAre, AgentParts
  <2> QED
    BY <1>1, <1>5, <2>1 DEF AgentTypes, Places, AgentsOf
<1>7. OneConstructs'
  <2>1. agents' # <<>>
    BY <1>5, AgentParts
  <2> QED
    BY <1>1, <1>2, <2>1, PlacesAre DEF OneConstructs
<1>8. ForkedAlone' /\ DealtFrom'
  BY <1>1, <1>2, PlacesAre DEF ForkedAlone, DealtFrom
<1>9. TicketsDealt'
  <2>1. \A t \in Threads : ~thr'[t].turn
    BY <1>2, PlacesAre
  <2> QED
    BY <1>1, <1>3, <2>1, NoTickets, NewTickets
<1> QED
  BY <1>6, <1>7, <1>8, <1>9

\* A thread that does anything is not beside a forked one.
LEMMA NotForked ==
  ASSUME AgentInv, NEW t \in Threads, thr[t].at \in {"idle", "init", "device"}
  PROVE  thr[Main].at # "forked"
  BY DEF AgentInv, ForkedAlone

LEMMA CallOnceKeeps == ASSUME AgentInv, NEW t \in Threads, CallOnce(t) PROVE AgentInv'
<1> USE DEF AgentInv, CallOnce
<1>1. Place("init") \in Places /\ Place("init").at = "init" /\ ~Place("init").turn
  BY PlacesAre
<1>2. thr' \in [Threads -> Places] /\ thr'[t] = Place("init") /\ \A u \in Threads : u # t => thr'[u] = thr[u]
  BY <1>1, AgentParts, ThreadMoves
<1>3. thr[Main].at # "forked" /\ thr'[Main].at # "forked"
  BY <1>1, <1>2, NotForked, AgentAssumption
<1>4. AgentTypes'
  BY <1>2 DEF AgentTypes, Places
<1>5. OneConstructs'
  BY <1>1, <1>2 DEF OneConstructs
<1>6. ForkedAlone' /\ DealtFrom'
  BY <1>3 DEF ForkedAlone, DealtFrom
<1>7. TicketsDealt'
  <2>1. ~thr[t].turn
    BY DEF OneConstructs
  <2>2. \A a, d : Holding(a, d)' = Holding(a, d)
    BY <1>1, <1>2, <2>1 DEF Holding
  <2> QED
    BY <2>2, SameTickets
<1> QED
  BY <1>4, <1>5, <1>6, <1>7

LEMMA ConstructKeeps == ASSUME AgentInv, NEW t \in Threads, Construct(t) PROVE AgentInv'
<1> DEFINE D == found(machine)
<1> USE DEF AgentInv, Construct
<1>1. init_flag = "running" /\ got = <<>> /\ machine' = machine /\ got' = got
  BY DEF OneConstructs
<1>2. NewAgent \in AgentsOf(D)
  BY AgentParts, NewAgentIs DEF AgentsOf
<1>3. agents' \in Seq(AgentsOf(D)) /\ Len(agents') = Len(agents) + 1 /\ Len(agents) \in Nat
  <2> HIDE DEF D
  <2> QED
    BY <1>2, AgentParts, AppendProperties DEF D
<1>4. inst' = Len(agents') /\ inst' \in Nat
  BY <1>3
<1>5. Holds(inst', 0) \in Places /\ Holds(inst', 0).at = "device" /\ Holds(inst', 0).agent = inst'
      /\ Holds(inst', 0).dev = 0 /\ Holds(inst', 0).turn = FALSE
  BY <1>4, PlacesAre DEF Holds
<1>6. thr' \in [Threads -> Places] /\ thr'[t] = Holds(inst', 0) /\ \A u \in Threads : u # t => thr'[u] = thr[u]
  BY <1>5, AgentParts, ThreadMoves
<1>7. thr[Main].at # "forked" /\ thr'[Main].at # "forked"
  BY <1>5, <1>6, NotForked, AgentAssumption
<1>8. AgentTypes'
  BY <1>1, <1>3, <1>4, <1>6 DEF AgentTypes, AgentsOf, Places
<1>9. \A u \in Threads : ~thr[u].turn /\ thr[u].at # "device" /\ (u # t => thr[u].at # "init")
  BY <1>1 DEF OneConstructs
<1>10. OneConstructs'
  <2>1. agents' # <<>>
    BY <1>3
  <2>2. Len(D) \in Nat
    BY AgentParts
  <2> QED
    BY <1>1, <1>4, <1>5, <1>6, <1>9, <2>1, <2>2 DEF OneConstructs
<1>11. ForkedAlone' /\ DealtFrom'
  BY <1>1, <1>7 DEF ForkedAlone, DealtFrom
<1>12. TicketsDealt'
  <2>1. \A u \in Threads : ~thr'[u].turn
    BY <1>5, <1>6, <1>9
  <2> QED
    BY <1>1, <1>9, <2>1, NoTickets, NewTickets
<1> QED
  BY <1>8, <1>10, <1>11, <1>12

LEMMA GetInstanceKeeps == ASSUME AgentInv, NEW t \in Threads, GetInstance(t) PROVE AgentInv'
<1> USE DEF AgentInv, GetInstance
<1>1. inst = Len(agents) /\ inst \in Nat
  BY DEF OneConstructs, AgentTypes
<1>2. Holds(inst, 0) \in Places /\ Holds(inst, 0).at = "device" /\ Holds(inst, 0).agent = inst
      /\ Holds(inst, 0).dev = 0 /\ Holds(inst, 0).turn = FALSE
  BY <1>1, PlacesAre DEF Holds
<1>3. thr' \in [Threads -> Places] /\ thr'[t] = Holds(inst, 0) /\ \A u \in Threads : u # t => thr'[u] = thr[u]
  BY <1>2, AgentParts, ThreadMoves
<1>4. thr'[Main].at # "forked"
  BY <1>2, <1>3, NotForked, AgentAssumption
<1>5. AgentTypes'
  BY <1>3 DEF AgentTypes, Places
<1>6. OneConstructs'
  <2>1. Len(found(machine)) \in Nat
    BY AgentParts
  <2> QED
    BY <1>1, <1>2, <1>3, <2>1 DEF OneConstructs
<1>7. ForkedAlone' /\ DealtFrom'
  BY <1>4 DEF ForkedAlone, DealtFrom
<1>8. TicketsDealt'
  <2>1. ~thr[t].turn
    BY DEF OneConstructs
  <2>2. \A a, d : Holding(a, d)' = Holding(a, d)
    BY <1>2, <1>3, <2>1 DEF Holding
  <2> QED
    BY <2>2, SameTickets
<1> QED
  BY <1>5, <1>6, <1>7, <1>8

LEMMA ChooseDeviceKeeps == ASSUME AgentInv, NEW t \in Threads, ChooseDevice(t) PROVE AgentInv'
<1> DEFINE a == thr[t].agent
           D == found(machine)
<1> USE DEF AgentInv
<1>1. /\ thr[t].at = "device" /\ thr[t].dev = 0 /\ ~thr[t].turn
      /\ a = Len(agents) /\ init_flag = "done" /\ a \in Nat /\ a \in DOMAIN agents
      /\ agents[a].devices = D /\ Len(D) \in Nat
  <2>1. thr[t].at = "device" /\ thr[t].dev = 0
    BY DEF ChooseDevice
  <2>2. ~thr[t].turn /\ a = Len(agents) /\ init_flag = "done" /\ agents # <<>>
    BY <2>1 DEF OneConstructs
  <2>3. Len(agents) \in Nat /\ DOMAIN agents = 1 .. Len(agents) /\ Len(D) \in Nat /\ agents \in Seq(AgentsOf(D))
    BY AgentParts
  <2>4. Len(agents) # 0
    <3> HIDE DEF D
    <3> QED
      BY <2>2, <2>3, EmptySeq
  <2>5. a \in DOMAIN agents
    BY <2>2, <2>3, <2>4
  <2>6. agents[a].devices = D
    BY <2>5, AgentParts DEF AgentsOf
  <2> QED
    BY <2>1, <2>2, <2>3, <2>5, <2>6
<1>2. PICK d \in 1 .. Len(D) : thr' = At(t, [Holds(a, d) EXCEPT !.turn = FALSE])
  BY <1>1 DEF ChooseDevice
<1> HIDE DEF a
<1> DEFINE p == [Holds(a, d) EXCEPT !.turn = FALSE]
<1>3. p \in Places /\ p.at = "device" /\ p.agent = a /\ p.dev = d /\ p.turn = FALSE
  <2>1. d \in Nat
    BY <1>1
  <2> QED
    BY <1>1, <2>1, PlacesAre DEF Holds
<1> HIDE DEF p
<1>4. thr' \in [Threads -> Places] /\ thr'[t] = p /\ \A u \in Threads : u # t => thr'[u] = thr[u]
  BY <1>2, <1>3, AgentParts, ThreadMoves DEF p
<1>5. UNCHANGED <<machine, inst, init_flag, agents, got>>
  BY DEF ChooseDevice
<1>6. thr'[Main].at # "forked"
  BY <1>1, <1>3, <1>4, NotForked, AgentAssumption
<1>7. AgentTypes'
  BY <1>4, <1>5 DEF AgentTypes, Places
<1>8. OneConstructs'
  <2>1. d \in 0 .. Len(D)
    BY <1>1
  <2> QED
    BY <1>1, <1>3, <1>4, <1>5, <2>1 DEF OneConstructs
<1>9. ForkedAlone' /\ DealtFrom'
  BY <1>5, <1>6 DEF ForkedAlone, DealtFrom
<1>10. TicketsDealt'
  <2>1. \A b, e : Holding(b, e)' = Holding(b, e)
    BY <1>1, <1>3, <1>4 DEF Holding
  <2> QED
    BY <1>5, <2>1, SameTickets
<1> QED
  BY <1>7, <1>8, <1>9, <1>10

\* A thread at a device uses the last agent.
LEMMA AtDevice ==
  ASSUME AgentInv, NEW t \in Threads, thr[t].at = "device"
  PROVE  LET a == thr[t].agent  D == found(machine)
         IN  /\ a = Len(agents) /\ a \in DOMAIN agents /\ a \in Nat /\ init_flag = "done" /\ inst = a
             /\ agents[a] \in AgentsOf(D) /\ agents[a].devices = D
             /\ thr[t].dev \in 0 .. Len(D) /\ (thr[t].dev = 0 => thr[t].turn = FALSE)
             /\ thr[t].turn \in BOOLEAN
<1> USE DEF AgentInv
<1> DEFINE a == thr[t].agent
           D == found(machine)
<1>1. /\ a = Len(agents) /\ init_flag = "done" /\ agents # <<>> /\ inst = Len(agents)
      /\ thr[t].dev \in 0 .. Len(D) /\ (thr[t].turn => thr[t].dev # 0)
  BY DEF OneConstructs
<1>2. Len(agents) \in Nat /\ DOMAIN agents = 1 .. Len(agents) /\ agents \in Seq(AgentsOf(D))
      /\ thr[t] \in Places
  BY AgentParts
<1>3. Len(agents) # 0
  <2> HIDE DEF D
  <2> QED
    BY <1>1, <1>2, EmptySeq
<1>4. a \in DOMAIN agents /\ thr[t].turn \in BOOLEAN
  BY <1>1, <1>2, <1>3 DEF Places
<1>5. agents[a] \in AgentsOf(D) /\ agents[a].devices = D
  BY <1>4, AgentParts DEF AgentsOf
<1> QED
  BY <1>1, <1>2, <1>4, <1>5

LEMMA TakeDeviceKeeps == ASSUME AgentInv, NEW t \in Threads, TakeDevice(t) PROVE AgentInv'
<1> DEFINE a == thr[t].agent
           D == found(machine)
           c == agents[a].now_dev_id
           d == 1 + (c % Len(D))
           p == Holds(a, d)
<1>1. thr[t].at = "device" /\ thr[t].dev = 0
  BY DEF TakeDevice
<1>2. /\ a = Len(agents) /\ a \in DOMAIN agents /\ a \in Nat /\ init_flag = "done" /\ inst = a
      /\ agents[a] \in AgentsOf(D) /\ agents[a].devices = D /\ thr[t].turn = FALSE
  BY <1>1, AtDevice
<1>3. Len(D) \in Nat \ {0} /\ DOMAIN D = 1 .. Len(D) /\ c \in Nat
      /\ agents \in Seq(AgentsOf(D)) /\ DOMAIN agents = 1 .. Len(agents) /\ Len(agents) \in Nat
      /\ thr \in [Threads -> Places]
  BY <1>2, AgentParts DEF AgentInv, AgentsOf
<1>4. /\ agents' = [agents EXCEPT ![a].now_dev_id = @ + 1]
      /\ thr' = At(t, p)
      /\ UNCHANGED <<machine, inst, init_flag, got>>
  BY <1>2 DEF TakeDevice
<1> HIDE DEF a
<1>5. d \in 1 .. Len(D) /\ d \in Nat /\ d # 0
  <2> DEFINE m == Len(D)
  <2>1. c \in Int /\ m \in Nat \ {0}
    BY <1>3
  <2> HIDE DEF c, m
  <2>2. c % m \in 0 .. m - 1
    BY <2>1, DivMod
  <2>3. 1 + (c % m) \in 1 .. m
    BY <2>1, <2>2
  <2> QED
    BY <2>1, <2>3 DEF m
<1> DEFINE new == [agents[a] EXCEPT !.now_dev_id = c + 1]
<1>6. new \in AgentsOf(D) /\ new.now_dev_id = c + 1 /\ new.now_wq_id = agents[a].now_wq_id
  BY <1>2, <1>3 DEF AgentsOf
<1>7. agents' = [agents EXCEPT ![a] = new]
  BY <1>4
<1> HIDE DEF new, D, c, d
<1>8. /\ agents' \in Seq(AgentsOf(D)) /\ DOMAIN agents' = DOMAIN agents /\ Len(agents') = Len(agents)
      /\ agents'[a] = new /\ \A b \in DOMAIN agents : b # a => agents'[b] = agents[b]
  BY <1>2, <1>3, <1>6, <1>7, ExceptSeq
<1>9. p \in Places /\ p.at = "device" /\ p.agent = a /\ p.dev = d /\ p.turn = TRUE
  BY <1>2, <1>5, PlacesAre DEF Holds
<1> HIDE DEF p
<1>10. thr' \in [Threads -> Places] /\ thr'[t] = p /\ \A u \in Threads : u # t => thr'[u] = thr[u]
  BY <1>3, <1>4, <1>9, ThreadMoves
<1>11. thr'[Main].at # "forked"
  BY <1>1, <1>9, <1>10, NotForked, AgentAssumption
<1> USE DEF AgentInv
<1>12. AgentTypes'
  BY <1>4, <1>8, <1>10 DEF AgentTypes, Places, AgentsOf, D
<1>13. OneConstructs'
  <2>1. agents' # <<>>
    BY <1>2, <1>8
  <2>2. d \in 0 .. Len(D)
    BY <1>3, <1>5
  <2> QED
    BY <1>2, <1>4, <1>5, <1>8, <1>9, <1>10, <2>1, <2>2 DEF OneConstructs, D
<1>14. ForkedAlone' /\ DealtFrom'
  BY <1>4, <1>8, <1>11 DEF ForkedAlone, DealtFrom
<1>15. TicketsDealt'
  <2> SUFFICES ASSUME NEW b \in DOMAIN agents, NEW e \in DOMAIN D
               PROVE  /\ \A i \in 1 .. Len(D[e].wqs) :
                           Uses(b, e, i)' = Share(agents'[b].now_wq_id[e], Len(D[e].wqs), i)
                      /\ IsFiniteSet(Holding(b, e)')
                      /\ Turns(b, e)' + Cardinality(Holding(b, e)') = Share(agents'[b].now_dev_id, Len(D), e)
    BY <1>4, <1>8 DEF TicketsDealt, D
  <2>1. /\ \A i \in 1 .. Len(D[e].wqs) : Uses(b, e, i) = Share(agents[b].now_wq_id[e], Len(D[e].wqs), i)
        /\ IsFiniteSet(Holding(b, e))
        /\ Turns(b, e) + Cardinality(Holding(b, e)) = Share(agents[b].now_dev_id, Len(D), e)
    BY DEF TicketsDealt, D
  <2>2. Turns(b, e)' = Turns(b, e) /\ \A i : Uses(b, e, i)' = Uses(b, e, i)
    BY <1>4 DEF Turns, Uses
  <2>3. agents'[b].now_wq_id = agents[b].now_wq_id
    BY <1>6, <1>8
  <2>4. Turns(b, e) \in Nat
    BY AgentParts, TurnsCounted
  <2>5. t \notin Holding(b, e)
    BY <1>2 DEF Holding
  <2>6. CASE b = a /\ e = d
    <3>1. Holding(b, e)' = Holding(b, e) \union {t}
      BY <1>9, <1>10, <2>6 DEF Holding
    <3>2. IsFiniteSet(Holding(b, e)') /\ Cardinality(Holding(b, e)') = Cardinality(Holding(b, e)) + 1
      BY <2>1, <2>5, <3>1, FS_AddElement
    <3>3. Cardinality(Holding(b, e)) \in Nat
      BY <2>1, FS_CardinalityType
    <3>4. Share(c + 1, Len(D), e) = Share(c, Len(D), e) + 1
      BY <1>3, <1>5, <2>6, ShareStep DEF d
    <3>5. agents'[b].now_dev_id = c + 1 /\ agents[b].now_dev_id = c
      BY <1>6, <1>8, <2>6 DEF c
    <3> QED
      BY <2>1, <2>2, <2>3, <2>4, <3>2, <3>3, <3>4, <3>5
  <2>7. CASE b # a \/ e # d
    <3>1. Holding(b, e)' = Holding(b, e)
      BY <1>2, <1>9, <1>10, <2>7 DEF Holding
    <3>2. Share(agents'[b].now_dev_id, Len(D), e) = Share(agents[b].now_dev_id, Len(D), e)
      <4>1. CASE b = a
        <5>1. e \in 1 .. Len(D) /\ e # d
          BY <1>3, <2>7, <4>1
        <5>2. Share(c + 1, Len(D), e) = Share(c, Len(D), e)
          BY <1>3, <5>1, ShareStep DEF d
        <5> QED
          BY <1>6, <1>8, <4>1, <5>2 DEF c
      <4>2. CASE b # a
        BY <1>8, <4>2
      <4> QED
        BY <4>1, <4>2
    <3> QED
      BY <2>1, <2>2, <2>3, <3>1, <3>2
  <2> QED
    BY <2>6, <2>7
<1> QED
  BY <1>12, <1>13, <1>14, <1>15

LEMMA TakeQueueKeeps == ASSUME AgentInv, NEW t \in Threads, TakeQueue(t) PROVE AgentInv'
<1> DEFINE a == thr[t].agent
           d == thr[t].dev
           D == found(machine)
           c == agents[a].now_wq_id[d]
           n == Len(D[d].wqs)
           j == 1 + (c % n)
           u == [agent |-> a, dev |-> d, wq |-> j, turn |-> thr[t].turn]
           p == Place("idle")
<1>1. thr[t].at = "device" /\ d # 0
  BY DEF TakeQueue
<1>2. /\ a = Len(agents) /\ a \in DOMAIN agents /\ a \in Nat /\ init_flag = "done" /\ inst = a
      /\ agents[a] \in AgentsOf(D) /\ agents[a].devices = D /\ d \in 0 .. Len(D) /\ thr[t].turn \in BOOLEAN
  BY <1>1, AtDevice
<1>3. Len(D) \in Nat \ {0} /\ DOMAIN D = 1 .. Len(D)
      /\ agents \in Seq(AgentsOf(D)) /\ DOMAIN agents = 1 .. Len(agents) /\ Len(agents) \in Nat
      /\ thr \in [Threads -> Places] /\ got \in Seq(Records)
      /\ \A e \in DOMAIN D : Len(D[e].wqs) \in Nat \ {0} /\ DOMAIN D[e].wqs = 1 .. Len(D[e].wqs)
  BY AgentParts DEF AgentInv
<1>4. d \in DOMAIN D /\ d \in Nat /\ n \in Nat \ {0} /\ c \in Nat
  <2>1. d \in DOMAIN D /\ d \in Nat
    BY <1>1, <1>2, <1>3
  <2> QED
    BY <1>2, <1>3, <2>1 DEF AgentsOf
<1>5. /\ agents' = [agents EXCEPT ![a].now_wq_id[d] = @ + 1]
      /\ thr' = At(t, p) /\ got' = Append(got, u)
      /\ UNCHANGED <<machine, inst, init_flag>>
  BY <1>2 DEF TakeQueue, HandOut, next_wq
<1> HIDE DEF a, d
<1>6. j \in 1 .. n /\ j \in Nat
  <2> HIDE DEF c, n
  <2>1. c % n \in 0 .. n - 1
    BY <1>4, DivMod
  <2> QED
    BY <1>4, <2>1
<1> DEFINE new == [agents[a] EXCEPT !.now_wq_id = [@ EXCEPT ![d] = c + 1]]
<1>7. new \in AgentsOf(D) /\ new.now_dev_id = agents[a].now_dev_id
      /\ \A e \in DOMAIN D : new.now_wq_id[e] = IF e = d THEN c + 1 ELSE agents[a].now_wq_id[e]
  <2>1. agents[a].now_wq_id \in [DOMAIN D -> Nat] /\ agents[a].now_dev_id \in Nat /\ agents[a].devices \in {D}
        /\ agents[a] = [devices |-> agents[a].devices, now_dev_id |-> agents[a].now_dev_id,
                        now_wq_id |-> agents[a].now_wq_id]
    BY <1>2 DEF AgentsOf
  <2> HIDE DEF c, D
  <2> DEFINE w == [agents[a].now_wq_id EXCEPT ![d] = c + 1]
  <2>2. w \in [DOMAIN D -> Nat] /\ \A e \in DOMAIN D : w[e] = IF e = d THEN c + 1 ELSE agents[a].now_wq_id[e]
    BY <1>4, <2>1
  <2>3. new = [devices |-> agents[a].devices, now_dev_id |-> agents[a].now_dev_id, now_wq_id |-> w]
    BY <2>1
  <2> HIDE DEF w, new
  <2> QED
    BY <2>1, <2>2, <2>3 DEF AgentsOf
<1>8. agents' = [agents EXCEPT ![a] = new]
  BY <1>5
<1>9. u \in Records /\ u.agent = a /\ u.dev = d /\ u.wq = j /\ u.turn = thr[t].turn
  BY <1>2, <1>4, <1>6 DEF Records
<1> HIDE DEF new, D, c, n, j, u
<1>10. /\ agents' \in Seq(AgentsOf(D)) /\ DOMAIN agents' = DOMAIN agents /\ Len(agents') = Len(agents)
       /\ agents'[a] = new /\ \A b \in DOMAIN agents : b # a => agents'[b] = agents[b]
  BY <1>2, <1>3, <1>7, <1>8, ExceptSeq
<1>11. p \in Places /\ p.at = "idle" /\ ~p.turn
  BY PlacesAre
<1> HIDE DEF p
<1>12. thr' \in [Threads -> Places] /\ thr'[t] = p /\ \A v \in Threads : v # t => thr'[v] = thr[v]
  BY <1>3, <1>5, <1>11, ThreadMoves
<1>13. thr'[Main].at # "forked" /\ thr[Main].at # "forked"
  BY <1>1, <1>11, <1>12, NotForked, AgentAssumption
<1>14. /\ got' \in Seq(Records) /\ DOMAIN got' = DOMAIN got \union {Len(got) + 1} /\ Len(got) \in Nat
       /\ got'[Len(got) + 1] = u /\ DOMAIN got = 1 .. Len(got) /\ \A k \in DOMAIN got : got'[k] = got[k]
  BY <1>3, <1>5, <1>9, AppendProperties, LenProperties
<1> USE DEF AgentInv
<1>15. AgentTypes'
  BY <1>5, <1>10, <1>12, <1>14 DEF AgentTypes, Places, AgentsOf, D, Records
<1>16. OneConstructs'
  <2>1. agents' # <<>>
    BY <1>2, <1>10
  <2> QED
    BY <1>2, <1>5, <1>10, <1>11, <1>12, <2>1 DEF OneConstructs
<1>17. ForkedAlone'
  BY <1>13 DEF ForkedAlone
<1>18. DealtFrom'
  <2>1. j \in DOMAIN D[d].wqs
    BY <1>3, <1>4, <1>6 DEF n
  <2> QED
    BY <1>2, <1>4, <1>5, <1>9, <1>10, <1>14, <2>1 DEF DealtFrom, D
<1>19. TicketsDealt'
  <2> SUFFICES ASSUME NEW b \in DOMAIN agents, NEW e \in DOMAIN D
               PROVE  /\ \A i \in 1 .. Len(D[e].wqs) :
                           Uses(b, e, i)' = Share(agents'[b].now_wq_id[e], Len(D[e].wqs), i)
                      /\ IsFiniteSet(Holding(b, e)')
                      /\ Turns(b, e)' + Cardinality(Holding(b, e)') = Share(agents'[b].now_dev_id, Len(D), e)
    BY <1>5, <1>10 DEF TicketsDealt, D
  <2>1. /\ \A i \in 1 .. Len(D[e].wqs) : Uses(b, e, i) = Share(agents[b].now_wq_id[e], Len(D[e].wqs), i)
        /\ IsFiniteSet(Holding(b, e))
        /\ Turns(b, e) + Cardinality(Holding(b, e)) = Share(agents[b].now_dev_id, Len(D), e)
    BY DEF TicketsDealt, D
  <2>2. /\ \A i : Uses(b, e, i)' = IF a = b /\ d = e /\ j = i THEN Uses(b, e, i) + 1 ELSE Uses(b, e, i)
        /\ Turns(b, e) \in Nat
        /\ Turns(b, e)' = IF a = b /\ d = e /\ thr[t].turn THEN Turns(b, e) + 1 ELSE Turns(b, e)
    <3>1. got' = Append(got, u) /\ got \in Seq(Records)
      BY <1>3, <1>5
    <3>2. /\ Cardinality(DealtInTurn(got, b, e)) \in Nat
          /\ Cardinality(DealtInTurn(got', b, e)) =
               IF a = b /\ d = e /\ thr[t].turn
               THEN Cardinality(DealtInTurn(got, b, e)) + 1 ELSE Cardinality(DealtInTurn(got, b, e))
      BY <1>9, <3>1, OneMoreInTurn
    <3>4. ASSUME NEW i
          PROVE  Cardinality(DealtTo(got', b, e, i)) =
                   IF a = b /\ d = e /\ j = i
                   THEN Cardinality(DealtTo(got, b, e, i)) + 1 ELSE Cardinality(DealtTo(got, b, e, i))
      BY <1>9, <3>1, OneMoreOf
    <3>3. /\ \A i : Uses(b, e, i)' = Cardinality(DealtTo(got', b, e, i))
          /\ Turns(b, e)' = Cardinality(DealtInTurn(got', b, e))
      BY DEF Uses, Turns, DealtTo, DealtInTurn
    <3> QED
      BY <3>2, <3>3, <3>4, CountsAre
  <2>3. \A i \in 1 .. Len(D[e].wqs) : Uses(b, e, i)' = Share(agents'[b].now_wq_id[e], Len(D[e].wqs), i)
    <3> SUFFICES ASSUME NEW i \in 1 .. Len(D[e].wqs)
                 PROVE  Uses(b, e, i)' = Share(agents'[b].now_wq_id[e], Len(D[e].wqs), i)
      OBVIOUS
    <3>1. CASE b = a /\ e = d
      <4>1. agents'[b].now_wq_id[e] = c + 1 /\ agents[b].now_wq_id[e] = c /\ Len(D[e].wqs) = n
        BY <1>7, <1>10, <3>1 DEF c, n
      <4>2. Share(c + 1, n, i) = IF i = j THEN Share(c, n, i) + 1 ELSE Share(c, n, i)
        BY <1>4, <4>1, ShareStep DEF j
      <4> QED
        BY <2>1, <2>2, <3>1, <4>1, <4>2
    <3>2. CASE b # a \/ e # d
      <4>1. agents'[b].now_wq_id[e] = agents[b].now_wq_id[e]
        BY <1>7, <1>10, <3>2
      <4>2. Uses(b, e, i)' = Uses(b, e, i)
        BY <2>2, <3>2
      <4> QED
        BY <2>1, <4>1, <4>2
    <3> QED
      BY <3>1, <3>2
  <2>4. agents'[b].now_dev_id = agents[b].now_dev_id
    BY <1>7, <1>10
  <2>5. CASE b = a /\ e = d /\ thr[t].turn
    <3>1. t \in Holding(b, e) /\ Holding(b, e)' = Holding(b, e) \ {t}
      BY <1>11, <1>12, <2>5 DEF Holding, a, d
    <3>2. IsFiniteSet(Holding(b, e)') /\ Cardinality(Holding(b, e)') = Cardinality(Holding(b, e)) - 1
      BY <2>1, <3>1, FS_RemoveElement
    <3>3. Cardinality(Holding(b, e)) \in Nat
      BY <2>1, FS_CardinalityType
    <3>4. Turns(b, e)' + Cardinality(Holding(b, e)') = Turns(b, e) + Cardinality(Holding(b, e))
      BY <2>2, <2>5, <3>2, <3>3
    <3> QED
      BY <2>1, <2>3, <2>4, <3>2, <3>4
  <2>6. CASE ~ (b = a /\ e = d /\ thr[t].turn)
    <3>1. Holding(b, e)' = Holding(b, e)
      BY <1>11, <1>12, <2>6 DEF Holding, a, d
    <3> QED
      BY <2>1, <2>2, <2>3, <2>4, <2>6, <3>1
  <2> QED
    BY <2>5, <2>6
<1> QED
  BY <1>15, <1>16, <1>17, <1>18, <1>19

LEMMA AgentStep == AgentInv /\ [AgentNext]_gvars => AgentInv'
<1> SUFFICES ASSUME AgentInv, [AgentNext]_gvars PROVE AgentInv'
  OBVIOUS
<1>1. CASE new_instance
  BY <1>1, NewInstanceKeeps
<1>2. ASSUME NEW t \in Threads,
             CallOnce(t) \/ Construct(t) \/ GetInstance(t) \/ TakeDevice(t) \/ ChooseDevice(t) \/ TakeQueue(t)
      PROVE  AgentInv'
  BY <1>2, CallOnceKeeps, ConstructKeeps, GetInstanceKeeps, TakeDeviceKeeps, ChooseDeviceKeeps, TakeQueueKeeps
<1>3. CASE UNCHANGED gvars
  <2>1. TicketsDealt'
    <3>1. \A a, d : Holding(a, d)' = Holding(a, d)
      BY <1>3 DEF Holding, gvars
    <3> QED
      BY <1>3, <3>1, SameTickets DEF AgentInv, gvars
  <2> QED
    BY <1>3, <2>1 DEF gvars, AgentInv, AgentTypes, OneConstructs, ForkedAlone, DealtFrom
<1> QED
  BY <1>1, <1>2, <1>3 DEF AgentNext

\* However many threads and devices there are, and whenever the process forked,
\* the queues of an agent are dealt evenly and are the thread's to use.
THEOREM AgentDealsRight == AgentSpec => []QueuesDealtRight
<1>1. AgentInv => QueuesDealtRight
  <2> SUFFICES ASSUME AgentInv PROVE FairShare /\ OwnQueues
    BY DEF QueuesDealtRight
  <2> DEFINE D == found(machine)
  <2>1. Len(D) \in Nat \ {0} /\ DOMAIN D = 1 .. Len(D)
        /\ \A d \in DOMAIN D : Len(D[d].wqs) \in Nat \ {0} /\ DOMAIN D[d].wqs = 1 .. Len(D[d].wqs)
        /\ \A a \in DOMAIN agents : agents[a] \in AgentsOf(D)
        /\ machine \in Machines
    BY AgentParts DEF AgentInv
  <2>2. FairShare
    <3>1. ASSUME NEW a \in DOMAIN agents, NEW d \in DOMAIN D, NEW i \in DOMAIN D[d].wqs, NEW j \in DOMAIN D[d].wqs
          PROVE  Even(Uses(a, d, i), Uses(a, d, j))
      <4> DEFINE c == agents[a].now_wq_id[d]
                 n == Len(D[d].wqs)
      <4>1. c \in Nat /\ n \in Nat \ {0} /\ i \in 1 .. n /\ j \in 1 .. n
        BY <2>1, <3>1 DEF AgentsOf
      <4>2. Uses(a, d, i) = Share(c, n, i) /\ Uses(a, d, j) = Share(c, n, j)
        BY <3>1, <4>1 DEF AgentInv, TicketsDealt
      <4> HIDE DEF c, n
      <4> QED
        BY <4>1, <4>2, SharesEven
    <3>2. ASSUME NEW a \in DOMAIN agents, \A d \in DOMAIN D : Holding(a, d) = {},
                 NEW d \in DOMAIN D, NEW e \in DOMAIN D
          PROVE  Even(Turns(a, d), Turns(a, e))
      <4> DEFINE c == agents[a].now_dev_id
      <4>1. c \in Nat /\ d \in 1 .. Len(D) /\ e \in 1 .. Len(D)
        BY <2>1, <3>2 DEF AgentsOf
      <4>2. Turns(a, d) \in Nat /\ Turns(a, e) \in Nat
        BY AgentParts, TurnsCounted DEF AgentInv
      <4>3. Cardinality({}) = 0
        BY FS_EmptySet
      <4>4. Turns(a, d) + Cardinality(Holding(a, d)) = Share(c, Len(D), d)
            /\ Turns(a, e) + Cardinality(Holding(a, e)) = Share(c, Len(D), e)
        BY <3>2 DEF AgentInv, TicketsDealt
      <4>5. Holding(a, d) = {} /\ Holding(a, e) = {}
        BY <3>2
      <4>6. Turns(a, d) + 0 = Turns(a, d) /\ Turns(a, e) + 0 = Turns(a, e)
        BY <4>2
      <4>7. Turns(a, d) = Share(c, Len(D), d) /\ Turns(a, e) = Share(c, Len(D), e)
        BY <4>3, <4>4, <4>5, <4>6
      <4> HIDE DEF c, D
      <4> QED
        BY <2>1, <4>1, <4>7, SharesEven
    <3>3. \A a \in DOMAIN agents : agents[a].devices = D
      <4>1. \A a \in DOMAIN agents : agents[a] \in AgentsOf(D)
        BY <2>1
      <4> HIDE DEF D
      <4> QED
        BY <4>1 DEF AgentsOf
    <3> QED
      BY <3>1, <3>2, <3>3 DEF FairShare
  <2>3. OwnQueues
    <3> SUFFICES ASSUME NEW k \in DOMAIN got
                 PROVE  LET u == got[k]  d == agents[u.agent].devices[u.dev]
                        IN  /\ machine[d.id].dsa /\ machine[d.id].wqs[d.wqs[u.wq].id] = Tests
                            /\ u.agent = Len(agents)
      BY DEF OwnQueues
    <3>1. /\ got[k].agent = Len(agents) /\ got[k].dev \in DOMAIN D /\ got[k].wq \in DOMAIN D[got[k].dev].wqs
      BY DEF AgentInv, DealtFrom
    <3>2. agents # <<>> /\ Len(agents) \in Nat /\ DOMAIN agents = 1 .. Len(agents) /\ agents \in Seq(AgentsOf(D))
      <4>1. got # <<>>
        OBVIOUS
      <4> QED
        BY <4>1, AgentParts DEF AgentInv, OneConstructs
    <3>3. Len(agents) \in DOMAIN agents
      <4>1. Len(agents) # 0
        <5> HIDE DEF D
        <5> QED
          BY <3>2, EmptySeq
      <4> QED
        BY <3>2, <4>1
    <3>4. agents[got[k].agent].devices = D
      BY <2>1, <3>1, <3>3 DEF AgentsOf
    <3>5. /\ machine[D[got[k].dev].id].dsa
          /\ machine[D[got[k].dev].id].wqs[D[got[k].dev].wqs[got[k].wq].id] = Tests
      <4>1. ASSUME NEW d \in DOMAIN found(machine), NEW i \in DOMAIN found(machine)[d].wqs
            PROVE  /\ machine[found(machine)[d].id].dsa
                   /\ machine[found(machine)[d].id].wqs[found(machine)[d].wqs[i].id] = Tests
        <5>1. machine \in Machines
          BY AgentParts DEF AgentInv
        <5> QED
          BY <4>1, <5>1, FoundUsable
      <4> QED
        BY <3>1, <4>1
    <3> QED
      BY <3>1, <3>4, <3>5
  <2> QED
    BY <2>2, <2>3
<1>2. AgentInit => AgentInv
  BY AgentStarts
<1> QED
  BY <1>1, <1>2, AgentStep, PTL DEF AgentSpec
=============================================================================

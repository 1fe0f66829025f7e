----------------------------- MODULE Recursion ------------------------------
(***************************************************************************)
(* Lemmas about recursive functions of the natural numbers, for the proofs *)
(* of modules that define their loops and descents that way.               *)
(***************************************************************************)
EXTENDS Integers, WellFoundedInduction, TLAPS

\* Induction, for sets of numbers.
LEMMA AllNat ==
  ASSUME NEW T \in SUBSET Nat, 0 \in T, \A n \in T : n + 1 \in T
  PROVE  T = Nat
<1> SUFFICES ASSUME Nat \ T # {} PROVE FALSE
  OBVIOUS
<1> DEFINE R == OpToRel(<, Nat)
<1>1. IsWellFoundedOn(R, Nat)
  BY NatLessThanWellFounded
<1>2. \A x, y \in Nat : x < y => <<x, y>> \in R
  BY DEF OpToRel
<1> HIDE DEF R
<1>3. PICK m \in Nat \ T : \A y \in Nat \ T : ~ (<<y, m>> \in R)
  BY <1>1, WFMin
<1>4. m - 1 \in Nat /\ m - 1 < m
  BY <1>3
<1>5. m - 1 \in T
  BY <1>2, <1>3, <1>4
<1>6. (m - 1) + 1 = m
  BY <1>3
<1> QED
  BY <1>3, <1>5, <1>6

\* f starts with x and takes one step of g after the other: there is such an f.
Iterates(f, S, x, g) == f \in [Nat -> S] /\ f[0] = x /\ \A k \in Nat : f[k + 1] = g[<<k, f[k]>>]

LEMMA Iteration ==
  ASSUME NEW S, NEW x \in S, NEW g \in [Nat \X S -> S]
  PROVE  \E f : Iterates(f, S, x, g)
<1> DEFINE Steps(n, f) == f[0] = x /\ \A k \in 0 .. n - 1 : f[k + 1] = g[<<k, f[k]>>]
           Some == {n \in Nat : \E f \in [0 .. n -> S] : Steps(n, f)}
<1>1. Some = Nat
  <2>1. 0 \in Some
    <3>1. [k \in 0 .. 0 |-> x] \in [0 .. 0 -> S] /\ Steps(0, [k \in 0 .. 0 |-> x])
      OBVIOUS
    <3> QED
      BY <3>1
  <2>2. ASSUME NEW n \in Some PROVE n + 1 \in Some
    <3>1. PICK f \in [0 .. n -> S] : Steps(n, f)
      OBVIOUS
    <3> DEFINE y == g[<<n, f[n]>>]
               h == [k \in 0 .. n + 1 |-> IF k = n + 1 THEN y ELSE f[k]]
    <3>2. n \in Nat /\ n \in 0 .. n /\ f[n] \in S
      BY <3>1
    <3>3. <<n, f[n]>> \in Nat \X S
      BY <3>2
    <3>4. y \in S
      BY <3>3
    <3> HIDE DEF y
    <3>5. h \in [0 .. n + 1 -> S]
      BY <3>1, <3>2, <3>4
    <3>6. h[0] = x /\ h[n + 1] = y /\ h[n] = f[n]
      BY <3>1, <3>2
    <3>7. ASSUME NEW k \in 0 .. n PROVE h[k + 1] = g[<<k, h[k]>>]
      <4>1. CASE k = n
        BY <3>6, <4>1 DEF y
      <4>2. CASE k # n
        <5>1. k \in 0 .. n - 1 /\ k + 1 \in 0 .. n /\ k + 1 # n + 1 /\ k # n + 1
          BY <3>2, <4>2
        <5>2. h[k + 1] = f[k + 1] /\ h[k] = f[k]
          BY <3>2, <5>1
        <5> QED
          BY <3>1, <5>1, <5>2
      <4> QED
        BY <4>1, <4>2
    <3> HIDE DEF h
    <3>8. Steps(n + 1, h)
      BY <3>2, <3>6, <3>7
    <3> HIDE DEF Steps
    <3> QED
      BY <3>2, <3>5, <3>8
  <2> HIDE DEF Some
  <2>3. Some \in SUBSET Nat
    BY DEF Some
  <2> QED
    BY <2>1, <2>2, <2>3, AllNat
<1> DEFINE part[n \in Nat] == CHOOSE f \in [0 .. n -> S] : Steps(n, f)
           whole == [n \in Nat |-> part[n][n]]
<1>2. ASSUME NEW n \in Nat PROVE part[n] \in [0 .. n -> S] /\ Steps(n, part[n])
  <2>1. n \in Some
    BY <1>1
  <2>2. \E f \in [0 .. n -> S] : Steps(n, f)
    BY <2>1
  <2> HIDE DEF Steps
  <2> QED
    BY <2>2
<1> HIDE DEF part
<1>3. ASSUME NEW n \in Nat PROVE part[n + 1][n] = part[n][n]
  <2> DEFINE f == part[n]
             h == part[n + 1]
             Same == {k \in Nat : k <= n => h[k] = f[k]}
  <2>1. Steps(n, f) /\ Steps(n + 1, h)
    <3>1. n + 1 \in Nat
      OBVIOUS
    <3> QED
      BY <1>2, <3>1
  <2> HIDE DEF f, h
  <2>2. 0 \in Same
    BY <2>1
  <2>3. ASSUME NEW k \in Same PROVE k + 1 \in Same
    <3> SUFFICES ASSUME k + 1 <= n PROVE h[k + 1] = f[k + 1]
      OBVIOUS
    <3>1. k \in 0 .. n - 1 /\ k \in 0 .. (n + 1) - 1 /\ h[k] = f[k]
      OBVIOUS
    <3> QED
      BY <2>1, <3>1
  <2>4. Same = Nat
    <3> HIDE DEF Same
    <3>1. Same \in SUBSET Nat
      BY DEF Same
    <3> QED
      BY <2>2, <2>3, <3>1, AllNat
  <2>5. n \in Same
    BY <2>4
  <2> QED
    BY <2>5 DEF f, h
<1>4. whole \in [Nat -> S]
  BY <1>2
<1>5. whole[0] = x
  BY <1>2
<1>6. ASSUME NEW k \in Nat PROVE whole[k + 1] = g[<<k, whole[k]>>]
  <2>1. k + 1 \in Nat /\ k \in 0 .. (k + 1) - 1
    OBVIOUS
  <2>2. part[k + 1][k + 1] = g[<<k, part[k + 1][k]>>]
    BY <1>2, <2>1
  <2> QED
    BY <1>3, <2>1, <2>2
<1> QED
  BY <1>4, <1>5, <1>6 DEF Iterates
=============================================================================

-------------------------- MODULE MixingBatchProofs --------------------------
(***************************************************************************)
(* Proofs about the mixing build of DSAbatch_task, for every capacity,     *)
(* batch size, window, bound and every size of the operations.             *)
(***************************************************************************)
EXTENDS MixingBatchInv, BatchTaskProofs, Recursion

-----------------------------------------------------------------------------
(* DSAtask_redistribute. *)

LEMMA CreditsAreInts == \A e : Rd!credit_of(e) \in Int
  BY DEF Rd!credit_of, Rd!credit_table

\* What k entries have brought in is what k - 1 and the last have.
LEMMA SumsSpec ==
  ASSUME NEW s
  PROVE  /\ Rd!Sums(s) \in [Nat -> Int]
         /\ Rd!Sums(s)[0] = 0
         /\ \A k \in Nat : Rd!Sums(s)[k + 1] = Rd!Sums(s)[k] + Rd!credit_of(s[k + 1])
<1> DEFINE g == [a \in Nat \X Int |-> a[2] + Rd!credit_of(s[a[1] + 1])]
           Sum(f) == f = [k \in Nat |-> IF k = 0 THEN 0 ELSE f[k - 1] + Rd!credit_of(s[k])]
<1>1. g \in [Nat \X Int -> Int]
  <2>1. \A k \in Nat : Rd!credit_of(s[k + 1]) \in Int
    BY CreditsAreInts
  <2> QED
    BY <2>1
<1>2. \A k \in Nat, t \in Int : g[<<k, t>>] = t + Rd!credit_of(s[k + 1])
  OBVIOUS
<1> HIDE DEF g
<1>3. PICK f \in [Nat -> Int] : f[0] = 0 /\ \A k \in Nat : f[k + 1] = g[<<k, f[k]>>]
  <2>1. 0 \in Int
    OBVIOUS
  <2>2. \E f : Iterates(f, Int, 0, g)
    BY <1>1, <2>1, Iteration
  <2> QED
    BY <2>2 DEF Iterates
<1>4. \A k \in Nat \ {0} : f[k] = f[k - 1] + Rd!credit_of(s[k])
  <2> SUFFICES ASSUME NEW k \in Nat \ {0} PROVE f[k] = f[k - 1] + Rd!credit_of(s[k])
    OBVIOUS
  <2>1. k - 1 \in Nat /\ (k - 1) + 1 = k
    OBVIOUS
  <2>2. f[(k - 1) + 1] = g[<<k - 1, f[k - 1]>>]
    BY <1>3, <2>1
  <2> QED
    BY <1>2, <1>3, <2>1, <2>2
<1>5. Sum(f)
  BY <1>3, <1>4
<1> DEFINE r == Rd!Sums(s)
<1>6. r = CHOOSE h : Sum(h)
  BY DEF Rd!Sums
<1> HIDE DEF r
<1>7. Sum(r)
  <2> HIDE DEF Sum
  <2> QED
    BY <1>5, <1>6
<1>8. r[0] = 0 /\ \A k \in Nat : r[k + 1] = r[k] + Rd!credit_of(s[k + 1])
  <2> SUFFICES ASSUME NEW k \in Nat PROVE r[0] = 0 /\ r[k + 1] = r[k] + Rd!credit_of(s[k + 1])
    OBVIOUS
  <2>1. k + 1 \in Nat /\ k + 1 # 0 /\ (k + 1) - 1 = k
    OBVIOUS
  <2> QED
    BY <1>7, <2>1
<1>9. r \in [Nat -> Int]
  <2> DEFINE T == {k \in Nat : r[k] \in Int}
  <2>1. 0 \in T
    BY <1>8
  <2>2. \A k \in T : k + 1 \in T
    BY <1>8, CreditsAreInts
  <2> HIDE DEF T
  <2>3. T = Nat
    <3>1. T \in SUBSET Nat
      BY DEF T
    <3> QED
      BY <2>1, <2>2, <3>1, AllNat
  <2>4. \A k \in Nat : r[k] \in Int
    BY <2>3 DEF T
  <2>5. r = [k \in Nat |-> r[k]]
    BY <1>7
  <2> QED
    BY <2>4, <2>5
<1> QED
  BY <1>8, <1>9 DEF r

LEMMA CreditsAppend ==
  ASSUME NEW s \in Seq(Entry), NEW e \in Entry
  PROVE  /\ Rd!Credits(s) \in Int /\ Rd!Credits(<<>>) = 0
         /\ Rd!Credits(Append(s, e)) = Rd!Credits(s) + Rd!credit_of(e)
<1> DEFINE n == Len(s)
           t == Append(s, e)
           T == {k \in Nat : k <= n => Rd!Sums(t)[k] = Rd!Sums(s)[k]}
<1>1. /\ n \in Nat /\ Len(t) = n + 1 /\ t[n + 1] = e
      /\ \A k \in Nat : k + 1 <= n => t[k + 1] = s[k + 1]
  OBVIOUS
<1>2. 0 \in T
  BY SumsSpec
<1>3. ASSUME NEW k \in T PROVE k + 1 \in T
  <2> SUFFICES ASSUME k + 1 <= n PROVE Rd!Sums(t)[k + 1] = Rd!Sums(s)[k + 1]
    OBVIOUS
  <2>1. k \in Nat /\ k <= n /\ t[k + 1] = s[k + 1]
    BY <1>1
  <2> HIDE DEF t
  <2>2. /\ Rd!Sums(t)[k + 1] = Rd!Sums(t)[k] + Rd!credit_of(t[k + 1])
        /\ Rd!Sums(s)[k + 1] = Rd!Sums(s)[k] + Rd!credit_of(s[k + 1])
    BY <2>1, SumsSpec
  <2> QED
    BY <2>1, <2>2
<1>4. Rd!Sums(t)[n] = Rd!Sums(s)[n]
  <2> HIDE DEF T
  <2>1. T \in SUBSET Nat
    BY DEF T
  <2>2. T = Nat
    BY <1>2, <1>3, <2>1, AllNat
  <2> QED
    BY <1>1, <2>2 DEF T
<1> HIDE DEF t, n
<1>5. Rd!Sums(t)[n + 1] = Rd!Sums(t)[n] + Rd!credit_of(e)
  BY <1>1, SumsSpec
<1>6. Rd!Sums(s)[n] \in Int
  BY <1>1, SumsSpec
<1>7. Rd!Credits(<<>>) = 0
  BY SumsSpec DEF Rd!Credits
<1> QED
  BY <1>1, <1>4, <1>5, <1>6, <1>7 DEF Rd!Credits, t, n

\* Sequences of entries: what Append adds, and what Front and Last split.
LEMMA Empties == ASSUME NEW s \in Seq(Entry) PROVE Len(s) \in Nat /\ (Len(s) = 0 <=> s = <<>>)
  OBVIOUS

LEMMA Appended ==
  ASSUME NEW s \in Seq(Entry), NEW e \in Entry
  PROVE  /\ Append(s, e) \in Seq(Entry) /\ Len(Append(s, e)) = Len(s) + 1
         /\ Carried(Append(s, e)) = Carried(s) \union ({e.op} \ {Noop})
         /\ Single(s) /\ e.op \notin Carried(s) => Single(Append(s, e))
<1> DEFINE t == Append(s, e)
           n == Len(s)
<1>1. /\ n \in Nat /\ DOMAIN s = 1 .. n
      /\ t \in Seq(Entry) /\ Len(t) = n + 1 /\ DOMAIN t = 1 .. n + 1
      /\ t[n + 1] = e /\ \A i \in 1 .. n : t[i] = s[i]
  OBVIOUS
<1>2. 1 .. n + 1 = (1 .. n) \union {n + 1}
  BY <1>1
<1> HIDE DEF t, n
<1>3. Carried(t) = Carried(s) \union ({e.op} \ {Noop})
  BY <1>1, <1>2 DEF Carried
<1>4. ASSUME Single(s), e.op \notin Carried(s), NEW i \in 1 .. n + 1, NEW j \in 1 .. n + 1,
             t[i].op = t[j].op, t[i].op # Noop
      PROVE  i = j
  <2>1. \A k \in 1 .. n : s[k].op # Noop => s[k].op # e.op
    BY <1>1, <1>4 DEF Carried
  <2> QED
    BY <1>1, <1>2, <1>4, <2>1 DEF Single
<1> QED
  BY <1>1, <1>3, <1>4 DEF Single, t, n

LEMMA Divided ==
  ASSUME NEW s \in Seq(Entry), s # <<>>
  PROVE  /\ Rd!Front(s) \in Seq(Entry) /\ Len(Rd!Front(s)) = Len(s) - 1
         /\ Rd!Last(s) \in Entry
         /\ Carried(s) = Carried(Rd!Front(s)) \union ({Rd!Last(s).op} \ {Noop})
         /\ Single(s) => Single(Rd!Front(s)) /\ Rd!Last(s).op \notin Carried(Rd!Front(s))
<1> DEFINE t == Rd!Front(s)
           e == Rd!Last(s)
           n == Len(s) - 1
<1>1. /\ n \in Nat /\ DOMAIN s = 1 .. n + 1 /\ e = s[n + 1] /\ e \in Entry
  BY DEF Rd!Last
<1>2. t = [i \in 1 .. n |-> s[i]]
  BY DEF Rd!Front
<1>3. \A i \in 1 .. n : s[i] \in Entry
  BY <1>1
<1>4. t \in Seq(Entry) /\ Len(t) = n /\ DOMAIN t = 1 .. n /\ \A i \in 1 .. n : t[i] = s[i]
  <2> HIDE DEF t, n
  <2> QED
    BY <1>1, <1>2, <1>3
<1>5. 1 .. n + 1 = (1 .. n) \union {n + 1} /\ n + 1 \notin 1 .. n
  BY <1>1
<1> HIDE DEF t, n, e
<1>6. Carried(s) = Carried(t) \union ({e.op} \ {Noop})
  BY <1>1, <1>4, <1>5 DEF Carried
<1>7. Single(s) => Single(t) /\ e.op \notin Carried(t)
  BY <1>1, <1>4, <1>5 DEF Single, Carried
<1> QED
  BY <1>1, <1>4, <1>6, <1>7 DEF t, e, n

\* One pop() takes the last entry of one of the stacks, if there is one.
LEMMA PopOne ==
  ASSUME NEW q \in Buffer
  PROVE  LET p == Rd!pop(q)
         IN  /\ p.rest \in Buffer /\ p.entry \in Entry
             /\ p.rest.counter = (IF q.counter = 0 THEN Rd!entries(q) ELSE q.counter) - 1
             /\ p.rest.sum_credit = IF q.counter = 0 THEN 0 ELSE q.sum_credit
             /\ \/ /\ q.nega # <<>> /\ p.entry = Rd!Last(q.nega)
                   /\ p.rest.nega = Rd!Front(q.nega) /\ p.rest.posi = q.posi
                \/ /\ q.posi # <<>> /\ p.entry = Rd!Last(q.posi)
                   /\ p.rest.posi = Rd!Front(q.posi) /\ p.rest.nega = q.nega
                \/ q.nega = <<>> /\ q.posi = <<>>
<1> DEFINE r == Rd!open_phase(q)
           c == Rd!Choice(r)
           e == IF c.from = "none" THEN Rd!NoEntry ELSE Rd!Last(r[c.from])
           delta == IF c.charged THEN Rd!credit_of(e) * r.n ELSE 0
           s == [r EXCEPT !.counter = @ - 1, !.credit = @ + delta + r.credit_fix]
           rest == IF c.from = "none" THEN s ELSE [s EXCEPT ![c.from] = Rd!Front(@)]
<1>1. Rd!entries(q) \in Int
  BY DEF Buffer, Rd!entries
<1>2. /\ r \in Buffer /\ r.nega = q.nega /\ r.posi = q.posi
      /\ r.counter = IF q.counter = 0 THEN Rd!entries(q) ELSE q.counter
      /\ r.sum_credit = IF q.counter = 0 THEN 0 ELSE q.sum_credit
  <2> DEFINE a == Rd!entries(q)
             b == -q.sum_credit
  <2>1. a \in Int /\ b \in Int
    BY <1>1 DEF Buffer
  <2>2. r = IF q.counter # 0 THEN q
            ELSE [q EXCEPT !.counter = a, !.n = a, !.credit = 0, !.credit_fix = b, !.sum_credit = 0]
    BY DEF Rd!open_phase
  <2> HIDE DEF a, b, r
  <2>3. /\ r \in Buffer /\ r.nega = q.nega /\ r.posi = q.posi
        /\ r.counter = IF q.counter = 0 THEN a ELSE q.counter
        /\ r.sum_credit = IF q.counter = 0 THEN 0 ELSE q.sum_credit
    <3>1. CASE q.counter # 0
      BY <2>2, <3>1
    <3>2. CASE q.counter = 0
      BY <2>1, <2>2, <3>2 DEF Buffer
    <3> QED
      BY <3>1, <3>2
  <2> QED
    BY <2>3 DEF a
<1>3. Rd!pop(q) = [entry |-> e, rest |-> rest]
  BY DEF Rd!pop
<1> HIDE DEF r
<1>4. \/ c.from = "nega" /\ r.nega # <<>>
      \/ c.from = "posi" /\ r.posi # <<>>
      \/ c.from = "none" /\ r.nega = <<>> /\ r.posi = <<>>
  BY DEF Rd!Choice
<1> HIDE DEF c
<1>5. e \in Entry
  <2>1. Rd!NoEntry \in Entry
    BY DEF Rd!NoEntry, Entry
  <2>2. r.nega \in Seq(Entry) /\ r.posi \in Seq(Entry)
    BY <1>2 DEF Buffer
  <2> QED
    BY <1>4, <2>1, <2>2, Divided
<1>6. delta \in Int
  <2>1. Rd!credit_of(e) \in Int /\ r.n \in Int
    BY <1>2, CreditsAreInts DEF Buffer
  <2> HIDE DEF e
  <2> QED
    BY <2>1
<1>7. /\ s \in Buffer /\ s.nega = r.nega /\ s.posi = r.posi
      /\ s.counter = r.counter - 1 /\ s.sum_credit = r.sum_credit
  <2> DEFINE a == r.counter - 1
             b == r.credit + delta + r.credit_fix
  <2> HIDE DEF delta, e
  <2>1. a \in Int /\ b \in Int
    BY <1>2, <1>6 DEF Buffer
  <2>2. s = [r EXCEPT !.counter = a, !.credit = b]
    OBVIOUS
  <2> HIDE DEF a, b, s
  <2>3. /\ s \in Buffer /\ s.nega = r.nega /\ s.posi = r.posi
        /\ s.counter = a /\ s.sum_credit = r.sum_credit
    BY <1>2, <2>1, <2>2 DEF Buffer
  <2> QED
    BY <2>3 DEF a
<1> HIDE DEF s
<1>8. /\ rest \in Buffer /\ rest.counter = s.counter /\ rest.sum_credit = s.sum_credit
      /\ c.from = "nega" => rest.nega = Rd!Front(s.nega) /\ rest.posi = s.posi
      /\ c.from = "posi" => rest.posi = Rd!Front(s.posi) /\ rest.nega = s.nega
  <2>1. CASE c.from = "nega" /\ r.nega # <<>>
    <3>1. Rd!Front(s.nega) \in Seq(Entry)
      BY <1>7, <2>1, Divided DEF Buffer
    <3> QED
      BY <1>7, <2>1, <3>1 DEF Buffer
  <2>2. CASE c.from = "posi" /\ r.posi # <<>>
    <3>1. Rd!Front(s.posi) \in Seq(Entry)
      BY <1>7, <2>2, Divided DEF Buffer
    <3> QED
      BY <1>7, <2>2, <3>1 DEF Buffer
  <2>3. CASE c.from = "none"
    BY <1>7, <2>3
  <2> QED
    BY <1>4, <2>1, <2>2, <2>3
<1> HIDE DEF rest
<1>9. c.from = "nega" => e = Rd!Last(r.nega)
  OBVIOUS
<1>10. c.from = "posi" => e = Rd!Last(r.posi)
  OBVIOUS
<1> HIDE DEF e
<1>11. Rd!pop(q).entry = e /\ Rd!pop(q).rest = rest
  BY <1>3
<1> QED
  BY <1>2, <1>4, <1>5, <1>7, <1>8, <1>9, <1>10, <1>11

\* What a number of pops takes out, and what it leaves.
PopState == [out : Seq(Entry), rest : Buffer]

LEMMA PopsSpec ==
  ASSUME NEW q \in Buffer
  PROVE  /\ Rd!pops(q)[0] = [out |-> <<>>, rest |-> q]
         /\ \A k \in Nat :
              /\ Rd!pops(q)[k] \in PopState
              /\ Rd!pops(q)[k + 1] =
                   [out  |-> Append(Rd!pops(q)[k].out, Rd!pop(Rd!pops(q)[k].rest).entry),
                    rest |-> Rd!pop(Rd!pops(q)[k].rest).rest]
<1> DEFINE one(t) == [out |-> Append(t.out, Rd!pop(t.rest).entry), rest |-> Rd!pop(t.rest).rest]
           g == [a \in Nat \X PopState |-> one(a[2])]
           first == [out |-> <<>>, rest |-> q]
           Runs(f) == f = [k \in Nat |-> IF k = 0 THEN first ELSE one(f[k - 1])]
<1>1. first \in PopState
  BY DEF PopState
<1>2. ASSUME NEW t \in PopState PROVE one(t) \in PopState
  <2>1. t.out \in Seq(Entry) /\ t.rest \in Buffer
    BY DEF PopState
  <2>2. Rd!pop(t.rest).entry \in Entry /\ Rd!pop(t.rest).rest \in Buffer
    BY <2>1, PopOne
  <2>3. Append(t.out, Rd!pop(t.rest).entry) \in Seq(Entry)
    BY <2>1, <2>2, Appended
  <2> QED
    BY <2>2, <2>3 DEF PopState
<1>3. g \in [Nat \X PopState -> PopState]
  <2> HIDE DEF one
  <2> QED
    BY <1>2
<1>4. \A k \in Nat, t \in PopState : g[<<k, t>>] = one(t)
  <2> HIDE DEF one
  <2> QED
    OBVIOUS
<1> HIDE DEF g
<1>5. PICK f : Iterates(f, PopState, first, g)
  BY <1>1, <1>3, Iteration
<1>6. Runs(f)
  <2> HIDE DEF first, one
  <2>1. \A k \in Nat \ {0} : f[k] = one(f[k - 1])
    <3> SUFFICES ASSUME NEW k \in Nat \ {0} PROVE f[k] = one(f[k - 1])
      OBVIOUS
    <3>1. k - 1 \in Nat /\ (k - 1) + 1 = k
      OBVIOUS
    <3>2. f[(k - 1) + 1] = g[<<k - 1, f[k - 1]>>] /\ f[k - 1] \in PopState
      BY <1>5, <3>1 DEF Iterates
    <3> QED
      BY <1>4, <3>1, <3>2
  <2> QED
    BY <1>5, <2>1 DEF Iterates
<1> DEFINE r == Rd!pops(q)
<1>7. r = CHOOSE h : Runs(h)
  BY DEF Rd!pops
<1> HIDE DEF r
<1>8. Runs(r)
  <2> HIDE DEF Runs
  <2> QED
    BY <1>6, <1>7
<1>9. r[0] = first /\ \A k \in Nat : r[k + 1] = one(r[k])
  <2> SUFFICES ASSUME NEW k \in Nat PROVE r[0] = first /\ r[k + 1] = one(r[k])
    OBVIOUS
  <2>1. k + 1 \in Nat /\ k + 1 # 0 /\ (k + 1) - 1 = k
    OBVIOUS
  <2> HIDE DEF first, one
  <2> QED
    BY <1>8, <2>1
<1>10. \A k \in Nat : r[k] \in PopState
  <2> DEFINE T == {k \in Nat : r[k] \in PopState}
  <2>1. 0 \in T
    BY <1>1, <1>9
  <2>2. \A k \in T : k + 1 \in T
    <3> HIDE DEF one
    <3> QED
      BY <1>2, <1>9
  <2> HIDE DEF T
  <2>3. T = Nat
    <3>1. T \in SUBSET Nat
      BY DEF T
    <3> QED
      BY <2>1, <2>2, <3>1, AllNat
  <2> QED
    BY <2>3 DEF T
<1> QED
  BY <1>9, <1>10 DEF r

\* A pop moves an operation from a stack to what has been taken out.
LEMMA PopMoves ==
  ASSUME NEW t \in PopState, Separate(t.rest), Single(t.out),
         Carried(t.out) \cap Buffered(t.rest) = {}, Rd!entries(t.rest) > 0
  PROVE  LET p   == Rd!pop(t.rest)
             out == Append(t.out, p.entry)
         IN  /\ Separate(p.rest) /\ Single(out) /\ Carried(out) \cap Buffered(p.rest) = {}
             /\ Carried(out) \union Buffered(p.rest) = Carried(t.out) \union Buffered(t.rest)
             /\ Len(out) = Len(t.out) + 1 /\ Rd!entries(p.rest) = Rd!entries(t.rest) - 1
<1> DEFINE r == t.rest
           p == Rd!pop(t.rest)
           s == p.rest
           e == p.entry
           out == Append(t.out, e)
<1>1. /\ t.out \in Seq(Entry) /\ r \in Buffer /\ r.nega \in Seq(Entry) /\ r.posi \in Seq(Entry)
  BY DEF PopState, Buffer
<1>2. /\ s \in Buffer /\ e \in Entry
      /\ \/ r.nega # <<>> /\ e = Rd!Last(r.nega) /\ s.nega = Rd!Front(r.nega) /\ s.posi = r.posi
         \/ r.posi # <<>> /\ e = Rd!Last(r.posi) /\ s.posi = Rd!Front(r.posi) /\ s.nega = r.nega
         \/ r.nega = <<>> /\ r.posi = <<>>
  BY <1>1, PopOne
<1> HIDE DEF r, p
<1>3. ~(r.nega = <<>> /\ r.posi = <<>>)
  <2> HIDE DEF r
  <2>1. Rd!entries(r) > 0
    BY DEF r
  <2>2. CASE r.nega = <<>> /\ r.posi = <<>>
    BY <2>1, <2>2 DEF Rd!entries
  <2> QED
    BY <2>2
<1>4. /\ Carried(out) = Carried(t.out) \union ({e.op} \ {Noop}) /\ Len(out) = Len(t.out) + 1
      /\ e.op \notin Carried(t.out) => Single(out)
  BY <1>1, <1>2, Appended
<1> HIDE DEF s, e, out
<1>5. /\ Separate(r) /\ Carried(t.out) \cap Buffered(r) = {}
  BY DEF r
<1>6. Separate(s) /\ Buffered(r) = Buffered(s) \union ({e.op} \ {Noop}) /\ e.op \notin Buffered(s)
      /\ Rd!entries(s) = Rd!entries(r) - 1
  <2>1. CASE r.nega # <<>> /\ e = Rd!Last(r.nega) /\ s.nega = Rd!Front(r.nega) /\ s.posi = r.posi
    <3>1. /\ Carried(r.nega) = Carried(s.nega) \union ({e.op} \ {Noop}) /\ Len(s.nega) = Len(r.nega) - 1
          /\ Single(s.nega) /\ e.op \notin Carried(s.nega)
      BY <1>1, <1>5, <2>1, Divided DEF Separate
    <3>2. e.op \notin Carried(r.posi)
      BY <1>5, <3>1 DEF Separate, Carried
    <3>3. Len(r.nega) \in Nat /\ Len(r.posi) \in Nat
      BY <1>1
    <3> QED
      BY <1>5, <2>1, <3>1, <3>2, <3>3 DEF Separate, Buffered, Rd!entries
  <2>2. CASE r.posi # <<>> /\ e = Rd!Last(r.posi) /\ s.posi = Rd!Front(r.posi) /\ s.nega = r.nega
    <3>1. /\ Carried(r.posi) = Carried(s.posi) \union ({e.op} \ {Noop}) /\ Len(s.posi) = Len(r.posi) - 1
          /\ Single(s.posi) /\ e.op \notin Carried(s.posi)
      BY <1>1, <1>5, <2>2, Divided DEF Separate
    <3>2. e.op \notin Carried(r.nega)
      BY <1>5, <3>1 DEF Separate, Carried
    <3>3. Len(r.nega) \in Nat /\ Len(r.posi) \in Nat
      BY <1>1
    <3> QED
      BY <1>5, <2>2, <3>1, <3>2, <3>3 DEF Separate, Buffered, Rd!entries
  <2> QED
    BY <1>2, <1>3, <2>1, <2>2
<1>7. e.op \notin Carried(t.out)
  BY <1>5, <1>6 DEF Carried
<1>8. Carried(out) \cap Buffered(s) = {}
  BY <1>4, <1>5, <1>6
<1>9. Carried(out) \union Buffered(s) = Carried(t.out) \union Buffered(r)
  BY <1>4, <1>6
<1> QED
  BY <1>4, <1>6, <1>7, <1>8, <1>9 DEF r, s, e, p, out

\* The loop of submit_forward takes out every operation that was buffered, once
\* each, and leaves the buffer empty, with no phase open and no credit.
LEMMA PopAll ==
  ASSUME NEW q \in Buffer, q.counter = 0, Separate(q), Rd!entries(q) \in Nat \ {0}
  PROVE  LET p == Rd!pop_all(q)
         IN  /\ p.out \in Seq(Entry) /\ Len(p.out) = Rd!entries(q)
             /\ Single(p.out) /\ Carried(p.out) = Buffered(q)
             /\ p.rest \in Buffer /\ p.rest.nega = <<>> /\ p.rest.posi = <<>>
             /\ p.rest.counter = 0 /\ p.rest.sum_credit = 0
<1> DEFINE N == Rd!entries(q)
           st == Rd!pops(q)
           Fine(k) ==
             /\ Separate(st[k].rest) /\ Single(st[k].out)
             /\ Carried(st[k].out) \cap Buffered(st[k].rest) = {}
             /\ Carried(st[k].out) \union Buffered(st[k].rest) = Buffered(q)
             /\ Len(st[k].out) = k /\ Rd!entries(st[k].rest) = N - k
             /\ st[k].rest.counter = IF k = 0 THEN 0 ELSE N - k
             /\ k > 0 => st[k].rest.sum_credit = 0
           T == {k \in Nat : k <= N => Fine(k)}
<1>0. N \in Nat \ {0}
  OBVIOUS
<1>1. /\ st[0] = [out |-> <<>>, rest |-> q]
      /\ \A k \in Nat : /\ st[k] \in PopState
                        /\ st[k + 1].out = Append(st[k].out, Rd!pop(st[k].rest).entry)
                        /\ st[k + 1].rest = Rd!pop(st[k].rest).rest
  <2> DEFINE one(t) == [out |-> Append(t.out, Rd!pop(t.rest).entry), rest |-> Rd!pop(t.rest).rest]
  <2>1. /\ st[0] = [out |-> <<>>, rest |-> q]
        /\ \A k \in Nat : st[k] \in PopState /\ st[k + 1] = one(st[k])
    BY PopsSpec
  <2>2. \A t : one(t).out = Append(t.out, Rd!pop(t.rest).entry) /\ one(t).rest = Rd!pop(t.rest).rest
    OBVIOUS
  <2> HIDE DEF one, st
  <2> QED
    BY <2>1, <2>2
<1>2. 0 \in T
  <2>1. st[0].out = <<>> /\ st[0].rest = q
    BY <1>1
  <2>2. Carried(<<>>) = {} /\ Single(<<>>) /\ Len(<<>>) = 0
    BY DEF Carried, Single
  <2> HIDE DEF st
  <2> QED
    BY <2>1, <2>2
<1>3. ASSUME NEW k \in T PROVE k + 1 \in T
  <2> SUFFICES ASSUME k + 1 <= N PROVE Fine(k + 1)
    OBVIOUS
  <2>1. k \in Nat /\ k <= N /\ Fine(k) /\ st[k] \in PopState
    <3> HIDE DEF Fine, N, st
    <3>1. k \in Nat /\ k <= N
      BY <1>0
    <3> QED
      BY <1>1, <3>1
  <2> HIDE DEF st, N
  <2>2. Rd!entries(st[k].rest) > 0
    BY <1>0, <2>1
  <2> DEFINE t == st[k]
             u == st[k + 1]
  <2>3. /\ Separate(u.rest) /\ Single(u.out) /\ Carried(u.out) \cap Buffered(u.rest) = {}
        /\ Carried(u.out) \union Buffered(u.rest) = Carried(t.out) \union Buffered(t.rest)
        /\ Len(u.out) = Len(t.out) + 1 /\ Rd!entries(u.rest) = Rd!entries(t.rest) - 1
    <3> DEFINE p == Rd!pop(t.rest)
               out == Append(t.out, p.entry)
    <3>1. /\ t \in PopState /\ Separate(t.rest) /\ Single(t.out) /\ Carried(t.out) \cap Buffered(t.rest) = {}
          /\ Rd!entries(t.rest) > 0
      BY <2>1, <2>2
    <3>2. u.out = out /\ u.rest = p.rest
      BY <1>1, <2>1
    <3> HIDE DEF t, u
    <3>3. /\ Separate(p.rest) /\ Single(out) /\ Carried(out) \cap Buffered(p.rest) = {}
          /\ Carried(out) \union Buffered(p.rest) = Carried(t.out) \union Buffered(t.rest)
          /\ Len(out) = Len(t.out) + 1 /\ Rd!entries(p.rest) = Rd!entries(t.rest) - 1
      BY <3>1, PopMoves
    <3> HIDE DEF p, out
    <3> QED
      BY <3>2, <3>3
  <2>4. /\ u.rest.counter = (IF t.rest.counter = 0 THEN Rd!entries(t.rest) ELSE t.rest.counter) - 1
        /\ u.rest.sum_credit = IF t.rest.counter = 0 THEN 0 ELSE t.rest.sum_credit
    BY <1>1, <2>1, PopOne DEF PopState
  <2>5. u.rest.counter = N - (k + 1) /\ u.rest.sum_credit = 0
    BY <1>0, <2>1, <2>4
  <2> QED
    BY <1>0, <2>1, <2>3, <2>5
<1>4. \A k \in 0 .. N : Fine(k)
  <2> HIDE DEF Fine, N
  <2>1. T \in SUBSET Nat
    OBVIOUS
  <2> HIDE DEF T
  <2>2. T = Nat
    BY <1>2, <1>3, <2>1, AllNat
  <2> QED
    BY <1>0, <2>2 DEF T
<1>5. \A k \in 1 .. N : st[k].rest.counter = N - k
  <2> HIDE DEF N, st
  <2> QED
    BY <1>0, <1>4
<1> DEFINE Ends(k) == /\ ~Rd!pop_phase(st[k].rest)
                      /\ \A j \in 1 .. k - 1 : Rd!pop_phase(st[j].rest)
<1>6. Rd!pop_all(q) = st[CHOOSE k \in 1 .. N + 1 : Ends(k)]
  BY DEF Rd!pop_all
<1> HIDE DEF st, N, Fine
<1>7. Ends(N)
  BY <1>0, <1>5 DEF Rd!pop_phase
<1>8. ASSUME NEW k \in 1 .. N + 1, Ends(k) PROVE k = N
  <2>1. ~(k \in 1 .. N - 1)
    BY <1>0, <1>5, <1>8 DEF Rd!pop_phase
  <2>2. k # N + 1
    <3> SUFFICES ASSUME k = N + 1 PROVE FALSE
      OBVIOUS
    <3>1. N \in 1 .. k - 1
      BY <1>0
    <3>2. Rd!pop_phase(st[N].rest)
      BY <1>8, <3>1
    <3> QED
      BY <1>7, <3>2
  <2> QED
    BY <1>0, <2>1, <2>2
<1>9. (CHOOSE k \in 1 .. N + 1 : Ends(k)) = N
  <2> HIDE DEF Ends
  <2>1. N \in 1 .. N + 1
    BY <1>0
  <2> QED
    BY <1>7, <1>8, <2>1
<1> DEFINE p == st[N]
<1>10. /\ Single(p.out) /\ Len(p.out) = N
       /\ Carried(p.out) \union Buffered(p.rest) = Buffered(q)
       /\ Rd!entries(p.rest) = 0 /\ p.rest.counter = 0 /\ p.rest.sum_credit = 0
  BY <1>0, <1>4 DEF Fine
<1>11. p \in PopState
  BY <1>0, <1>1
<1> HIDE DEF p
<1>12. p.out \in Seq(Entry) /\ p.rest \in Buffer /\ p.rest.nega \in Seq(Entry) /\ p.rest.posi \in Seq(Entry)
  BY <1>11 DEF PopState, Buffer
<1>13. p.rest.nega = <<>> /\ p.rest.posi = <<>>
  <2>1. /\ Len(p.rest.nega) \in Nat /\ (Len(p.rest.nega) = 0 <=> p.rest.nega = <<>>)
        /\ Len(p.rest.posi) \in Nat /\ (Len(p.rest.posi) = 0 <=> p.rest.posi = <<>>)
    BY <1>12, Empties
  <2> DEFINE a == Len(p.rest.nega)
             b == Len(p.rest.posi)
  <2>2. a + b = 0
    BY <1>10 DEF Rd!entries
  <2>3. a \in Nat /\ b \in Nat /\ (a = 0 => p.rest.nega = <<>>) /\ (b = 0 => p.rest.posi = <<>>)
    BY <2>1
  <2> HIDE DEF a, b
  <2>4. a = 0 /\ b = 0
    BY <2>2, <2>3
  <2> QED
    BY <2>3, <2>4
<1>14. Buffered(p.rest) = {}
  BY <1>13 DEF Buffered, Carried
<1> QED
  BY <1>6, <1>9, <1>10, <1>12, <1>13, <1>14 DEF p, N

\* push_back() adds the operation to one of the stacks and its credit to the sum.
LEMMA AddToBuffer ==
  ASSUME NEW r \in Buffer, NEW e \in Entry, Separate(r), e.op \notin Buffered(r),
         r.sum_credit = Rd!Credits(r.nega) + Rd!Credits(r.posi),
         NEW q, q = Rd!push_back(r, e)
  PROVE  /\ q \in Buffer /\ Separate(q) /\ q.counter = r.counter
         /\ Buffered(q) = Buffered(r) \union ({e.op} \ {Noop})
         /\ Rd!entries(r) \in Nat /\ Rd!entries(q) = Rd!entries(r) + 1
         /\ q.sum_credit = Rd!Credits(q.nega) + Rd!Credits(q.posi)
<1> DEFINE x == Rd!credit_of(e)
           m == Append(r.nega, e)
           p == Append(r.posi, e)
           y == r.sum_credit + x
<1>1. /\ r.nega \in Seq(Entry) /\ r.posi \in Seq(Entry) /\ x \in Int /\ y \in Int
  BY CreditsAreInts DEF Buffer
<1>2. q = IF Rd!Small(e) THEN [r EXCEPT !.sum_credit = y, !.nega = m]
                         ELSE [r EXCEPT !.sum_credit = y, !.posi = p]
  BY DEF Rd!push_back, Buffer
<1>3. /\ m \in Seq(Entry) /\ Len(m) = Len(r.nega) + 1 /\ Carried(m) = Carried(r.nega) \union ({e.op} \ {Noop})
      /\ Single(m) /\ Rd!Credits(m) = Rd!Credits(r.nega) + x
  BY <1>1, Appended, CreditsAppend DEF Separate, Buffered
<1>4. /\ p \in Seq(Entry) /\ Len(p) = Len(r.posi) + 1 /\ Carried(p) = Carried(r.posi) \union ({e.op} \ {Noop})
      /\ Single(p) /\ Rd!Credits(p) = Rd!Credits(r.posi) + x
  BY <1>1, Appended, CreditsAppend DEF Separate, Buffered
<1>5. /\ Len(r.nega) \in Nat /\ Len(r.posi) \in Nat
      /\ Rd!Credits(r.nega) \in Int /\ Rd!Credits(r.posi) \in Int
  BY <1>1, CreditsAppend
<1> HIDE DEF m, p, y
<1>6. /\ q \in Buffer /\ q.counter = r.counter /\ q.sum_credit = y
      /\ \/ q.nega = m /\ q.posi = r.posi
         \/ q.nega = r.nega /\ q.posi = p
  <2>1. CASE Rd!Small(e)
    <3>1. q = [r EXCEPT !.sum_credit = y, !.nega = m]
      BY <1>2, <2>1
    <3> QED
      BY <1>1, <1>3, <3>1 DEF Buffer
  <2>2. CASE ~Rd!Small(e)
    <3>1. q = [r EXCEPT !.sum_credit = y, !.posi = p]
      BY <1>2, <2>2
    <3> QED
      BY <1>1, <1>4, <3>1 DEF Buffer
  <2> QED
    BY <2>1, <2>2
<1>7. Separate(q) /\ Buffered(q) = Buffered(r) \union ({e.op} \ {Noop})
  BY <1>3, <1>4, <1>6 DEF Separate, Buffered
<1>8. /\ Rd!entries(r) \in Nat /\ Rd!entries(q) = Rd!entries(r) + 1
      /\ q.sum_credit = Rd!Credits(q.nega) + Rd!Credits(q.posi)
  <2>1. x \in Int /\ y = Rd!Credits(r.nega) + Rd!Credits(r.posi) + x
    BY <1>1 DEF y
  <2> HIDE DEF x
  <2> DEFINE a == Rd!Credits(r.nega)
             b == Rd!Credits(r.posi)
             k == Len(r.nega)
             l == Len(r.posi)
             k1 == Len(q.nega)
             l1 == Len(q.posi)
  <2>2. /\ a \in Int /\ b \in Int /\ k \in Nat /\ l \in Nat /\ y = a + b + x
        /\ Rd!entries(r) = k + l /\ Rd!entries(q) = k1 + l1
    BY <1>5, <2>1 DEF Rd!entries
  <2>3. \/ /\ Rd!Credits(q.nega) = a + x /\ Rd!Credits(q.posi) = b
           /\ k1 = k + 1 /\ l1 = l
        \/ /\ Rd!Credits(q.nega) = a /\ Rd!Credits(q.posi) = b + x
           /\ k1 = k /\ l1 = l + 1
    BY <1>3, <1>4, <1>6
  <2> HIDE DEF a, b, k, l, k1, l1
  <2>4. k + l \in Nat /\ k1 + l1 = (k + l) + 1
    BY <2>2, <2>3
  <2>5. y = Rd!Credits(q.nega) + Rd!Credits(q.posi)
    BY <2>1, <2>2, <2>3
  <2> QED
    BY <1>6, <2>2, <2>4, <2>5
<1> QED
  BY <1>6, <1>7, <1>8

-----------------------------------------------------------------------------
(* submit_forward in the mixing build. *)

USE DEF Batches, NoBatch, NONE, SUCCESS, PAGE_FAULT, BATCH_FAIL

\* The operations in ops have become the descriptors of batch b0, which had
\* nothing to run, once each.
HandedOver(b0, ops) ==
  /\ \A i \in Positions : ~ToRun(b0, i)
  /\ \A b \in Batches \ {b0} : descs'[b] = descs[b]
  /\ \A b \in Batches \ {b0}, i \in Positions : ToRun(b, i)' <=> ToRun(b, i)
  /\ \A i \in Positions : ToRun(b0, i)' => descs'[b0][i] \in ops
  /\ \A o \in ops : \E i \in Positions : ToRun(b0, i)' /\ descs'[b0][i] = o
  /\ \A i, j \in Positions : ToRun(b0, i)' /\ ToRun(b0, j)' /\ descs'[b0][i] = descs'[b0][j] => i = j

Emptied(r) == r \in Buffer /\ r.nega = <<>> /\ r.posi = <<>> /\ r.counter = 0 /\ r.sum_credit = 0

LEMMA SubmitBuffer ==
  ASSUME RingInv, RecordsTrue, desc_idx = 0, NEW b0 \in Batches, b0 = batch_idx,
         NEW q \in Buffer, q.counter = 0, Separate(q), Rd!entries(q) \in 1 .. batch_siz,
         Buffered(q) \subseteq Ops, mix_submit(q), executed' = executed
  PROVE  /\ Placement' /\ MemoryType' /\ (batch_idx' = NoBatch => count(free_queue') = 0)
         /\ \A b \in Batches : bcomp'[b] = BATCH_FAIL => bcomp[b] = BATCH_FAIL
         /\ RecordsTrue' /\ desc_idx' = 0
         /\ Emptied(rdstrb')
         /\ HandedOver(b0, Buffered(q))
<1> DEFINE p == Rd!pop_all(q)
           m == Len(p.out)
           d == [i \in Positions |-> IF i < m THEN p.out[i + 1].op ELSE Noop]
           c == [i \in Positions |-> IF i < m THEN NONE ELSE SUCCESS]
<1>1. submit_forward(d, c) /\ rdstrb' = p.rest
  BY DEF mix_submit
<1>2. /\ p.out \in Seq(Entry) /\ m = Rd!entries(q)
      /\ Single(p.out) /\ Carried(p.out) = Buffered(q) /\ Emptied(p.rest)
  <2>1. Rd!entries(q) \in Nat \ {0}
    BY Consts
  <2> QED
    BY <2>1, PopAll DEF Emptied
<1> HIDE DEF p
<1>3. /\ m \in Nat /\ m <= batch_siz /\ DOMAIN p.out = 1 .. m
  BY <1>2, Consts
<1> HIDE DEF m
<1>4. \A i \in Positions : i < m => i + 1 \in 1 .. m
  BY <1>3, Consts DEF Positions
<1>5. \A j \in 1 .. m : j - 1 \in Positions /\ j - 1 < m /\ (j - 1) + 1 = j
  BY <1>3, Consts DEF Positions
<1>6. \A j \in 1 .. m : p.out[j].op \in Buffered(q) \union {Noop}
  BY <1>2, <1>3 DEF Carried
<1>7. /\ d \in [Positions -> Ops \union {Noop}] /\ c \in [Positions -> {NONE, SUCCESS, PAGE_FAULT}]
      /\ \A i \in Positions : c[i] = SUCCESS => d[i] = Noop
      /\ \A i \in Positions : d[i] = IF i < m THEN p.out[i + 1].op ELSE Noop
  BY <1>4, <1>6
<1>8. \A i \in Positions : d[i] # Noop => d[i] \in Buffered(q)
  BY <1>4, <1>6, <1>7
<1>9. \A o \in Buffered(q) : \E i \in Positions : d[i] # Noop /\ d[i] = o
  <2> SUFFICES ASSUME NEW o \in Buffered(q) PROVE \E i \in Positions : d[i] # Noop /\ d[i] = o
    OBVIOUS
  <2>1. PICK j \in 1 .. m : p.out[j].op = o /\ o # Noop
    BY <1>2, <1>3 DEF Carried
  <2> HIDE DEF d
  <2>2. d[j - 1] = o
    BY <1>5, <1>7, <2>1
  <2> QED
    BY <1>5, <2>1, <2>2
<1>10. \A i, j \in Positions : d[i] # Noop /\ d[j] # Noop /\ d[i] = d[j] => i = j
  <2> SUFFICES ASSUME NEW i \in Positions, NEW j \in Positions, d[i] # Noop, d[j] # Noop, d[i] = d[j] PROVE i = j
    OBVIOUS
  <2>1. i < m /\ j < m /\ d[i] = p.out[i + 1].op /\ d[j] = p.out[j + 1].op
    BY <1>7
  <2> HIDE DEF d
  <2>2. i + 1 = j + 1
    BY <1>2, <1>3, <1>4, <2>1 DEF Single
  <2> QED
    BY <2>2, Consts DEF Positions
<1> HIDE DEF d, c
<1>11. /\ Placement /\ MemoryType /\ batch_idx # NoBatch
       /\ b0 \notin Elems(buzy_queue) /\ device \subseteq Elems(buzy_queue)
  BY Parts, Consts
<1>12. /\ descs'[b0] = d /\ \A b \in Batches \ {b0} : descs'[b] = descs[b]
       /\ \A i \in Positions : ToRun(b0, i)' <=> d[i] # Noop
       /\ \A b \in Batches \ {b0}, i \in Positions : ToRun(b, i)' <=> ToRun(b, i)
       /\ RecordsTrue' /\ desc_idx' = 0
  BY <1>1, <1>7, ForwardWork
<1>13. \A i \in Positions : ~ToRun(b0, i)
  BY <1>11, Consts DEF ToRun, Positions
<1>14. HandedOver(b0, Buffered(q))
  BY <1>8, <1>9, <1>10, <1>12, <1>13 DEF HandedOver
<1>15. /\ Placement' /\ MemoryType' /\ (batch_idx' = NoBatch => count(free_queue') = 0)
  BY <1>1, <1>7, <1>11, SubmitForward
<1>16. \A b \in Batches : bcomp'[b] = BATCH_FAIL => bcomp[b] = BATCH_FAIL
  BY <1>1, <1>11 DEF submit_forward, MemoryType
<1> QED
  BY <1>1, <1>2, <1>12, <1>14, <1>15, <1>16

\* What a step must do to the buffer and the descriptors for the operations to
\* stay in one place: those in ops, which hold all that was buffered and the
\* operation the step accepts, if any, are now the descriptors of b0.
LEMMA WorkHandedOver ==
  ASSUME MixAccounted, RunOnce, NEW b0 \in Batches, NEW ops, HandedOver(b0, ops),
         op_cnt \in Nat, op_cnt' \in Nat, op_cnt <= op_cnt', executed' = executed,
         1 .. op_cnt' \subseteq (1 .. op_cnt) \union ops, Buffered(rdstrb) \subseteq ops,
         ops \subseteq (1 .. op_cnt') \ executed,
         \A b \in Batches, i \in Positions : ToRun(b, i) => descs[b][i] \notin ops,
         Emptied(rdstrb')
  PROVE  MixAccounted' /\ RunOnce' /\ BufferedOnce'
<1>1. \A b \in Batches \ {b0}, i \in Positions :
        (ToRun(b, i)' <=> ToRun(b, i)) /\ descs'[b][i] = descs[b][i]
  BY DEF HandedOver
<1>2. \A i \in Positions : ~ToRun(b0, i)
  BY DEF HandedOver
<1>3. Buffered(rdstrb') = {} /\ Separate(rdstrb') /\ rdstrb' \in Buffer
  BY DEF Emptied, Buffered, Separate, Carried, Single
<1>4. BufferedOnce'
  BY <1>3 DEF BufferedOnce
<1>5. MixAccounted'
  <2> SUFFICES ASSUME NEW o \in 1 .. op_cnt', o \notin executed
               PROVE  \E b \in Batches, i \in Positions : ToRun(b, i)' /\ descs'[b][i] = o
    BY DEF MixAccounted
  <2>1. CASE o \in ops
    BY <2>1 DEF HandedOver
  <2>2. CASE o \notin ops
    <3>1. PICK b \in Batches, i \in Positions : ToRun(b, i) /\ descs[b][i] = o
      BY <2>2 DEF MixAccounted
    <3>2. b # b0
      BY <1>2, <3>1
    <3> QED
      BY <1>1, <3>1, <3>2
  <2> QED
    BY <2>1, <2>2
<1>6. RunOnce'
  <2>1. executed' \subseteq 1 .. op_cnt'
    BY DEF RunOnce
  <2>2. ASSUME NEW b \in Batches, NEW i \in Positions, ToRun(b, i)'
        PROVE  /\ descs'[b][i] \in (1 .. op_cnt') \ executed'
               /\ b = b0 => descs'[b][i] \in ops
               /\ b # b0 => ToRun(b, i) /\ descs'[b][i] = descs[b][i] /\ descs'[b][i] \notin ops
    <3>1. CASE b = b0
      BY <2>2, <3>1 DEF HandedOver
    <3>2. CASE b # b0
      BY <1>1, <2>2, <3>2 DEF RunOnce
    <3> QED
      BY <3>1, <3>2
  <2>3. ASSUME NEW b1 \in Batches, NEW b2 \in Batches, NEW i1 \in Positions, NEW i2 \in Positions,
               ToRun(b1, i1)', ToRun(b2, i2)', descs'[b1][i1] = descs'[b2][i2]
        PROVE  b1 = b2 /\ i1 = i2
    <3>1. CASE b1 = b0 /\ b2 = b0
      BY <2>3, <3>1 DEF HandedOver
    <3>2. CASE b1 # b0 /\ b2 # b0
      BY <2>2, <2>3, <3>2 DEF RunOnce
    <3>3. CASE b1 = b0 <=> b2 # b0
      BY <2>2, <2>3, <3>3
    <3> QED
      BY <3>1, <3>2, <3>3
  <2> QED
    BY <2>1, <2>2, <2>3 DEF RunOnce
<1> QED
  BY <1>4, <1>5, <1>6

\* The operations stay where they are.
LEMMA MixWorkKept ==
  ASSUME MixAccounted, RunOnce, BufferedOnce, SameWork, rdstrb' = rdstrb
  PROVE  MixAccounted' /\ RunOnce' /\ BufferedOnce'
<1>1. MixAccounted'
  BY DEF MixAccounted, SameWork
<1>2. RunOnce'
  BY DEF RunOnce, SameWork
<1>3. BufferedOnce'
  BY DEF BufferedOnce, SameWork
<1> QED
  BY <1>1, <1>2, <1>3

\* The device completes some of the descriptors of a batch.
LEMMA MixWorkDone ==
  ASSUME MixAccounted, RunOnce, BufferedOnce, NEW b0 \in Batches, NEW done, WorkDone(b0, done),
         rdstrb' = rdstrb
  PROVE  MixAccounted' /\ RunOnce' /\ BufferedOnce'
<1>0. /\ done \subseteq Positions /\ \A i \in done : ToRun(b0, i)
      /\ op_cnt' = op_cnt /\ descs' = descs
      /\ executed' = executed \union {descs[b0][i] : i \in done}
      /\ \A b \in Batches, i \in Positions : ToRun(b, i)' <=> ToRun(b, i) /\ (b # b0 \/ i \notin done)
  BY DEF WorkDone
<1>1. MixAccounted'
  <2> SUFFICES ASSUME NEW o \in 1 .. op_cnt, o \notin executed', o \notin Buffered(rdstrb)
               PROVE  \E b \in Batches, i \in Positions : ToRun(b, i)' /\ descs[b][i] = o
    BY <1>0 DEF MixAccounted
  <2>1. PICK b \in Batches, i \in Positions : ToRun(b, i) /\ descs[b][i] = o
    BY <1>0 DEF MixAccounted
  <2>2. ToRun(b, i)'
    BY <1>0, <2>1
  <2> QED
    BY <2>1, <2>2
<1>2. RunOnce'
  BY RunOnceKept
<1>3. BufferedOnce'
  <2>1. \A i \in done : descs[b0][i] \notin Buffered(rdstrb)
    BY <1>0 DEF BufferedOnce
  <2>2. Buffered(rdstrb) \subseteq (1 .. op_cnt) \ executed'
    <3>1. Buffered(rdstrb) \subseteq (1 .. op_cnt) \ executed
      BY DEF BufferedOnce
    <3> QED
      BY <1>0, <2>1, <3>1
  <2> QED
    BY <1>0, <2>2 DEF BufferedOnce
<1> QED
  BY <1>1, <1>2, <1>3

\* The buffer between two calls.
LEMMA BufferFacts ==
  ASSUME MixInv
  PROVE  /\ rdstrb \in Buffer /\ Separate(rdstrb) /\ rdstrb.counter = 0
         /\ rdstrb.sum_credit = Rd!Credits(rdstrb.nega) + Rd!Credits(rdstrb.posi)
         /\ Rd!entries(rdstrb) \in Nat /\ Rd!entries(rdstrb) < batch_siz
         /\ Rd!empty(rdstrb) <=> rdstrb.nega = <<>> /\ rdstrb.posi = <<>>
         /\ ~Rd!empty(rdstrb) => batch_idx # NoBatch
         /\ desc_idx = 0
<1>1. /\ rdstrb \in Buffer /\ Separate(rdstrb) /\ RedistributeInv /\ desc_idx = 0
  BY DEF MixInv, BufferedOnce
<1> DEFINE a == Len(rdstrb.nega)
           b == Len(rdstrb.posi)
<1>2. /\ rdstrb.nega \in Seq(Entry) /\ rdstrb.posi \in Seq(Entry)
  BY <1>1 DEF Buffer
<1>3. /\ a \in Nat /\ (a = 0 <=> rdstrb.nega = <<>>)
      /\ b \in Nat /\ (b = 0 <=> rdstrb.posi = <<>>)
  BY <1>2, Empties
<1>4. Rd!entries(rdstrb) = a + b /\ (Rd!empty(rdstrb) <=> a + b = 0)
  BY DEF Rd!entries, Rd!empty
<1> HIDE DEF a, b
<1>5. a + b \in Nat /\ (a + b = 0 <=> a = 0 /\ b = 0)
  BY <1>3
<1>6. Rd!entries(rdstrb) < batch_siz
  BY <1>1, <1>4, <1>5, Consts DEF RedistributeInv
<1> QED
  BY <1>1, <1>3, <1>4, <1>5, <1>6 DEF RedistributeInv, Rd!pop_phase

LEMMA EmptiedFine ==
  ASSUME Emptied(rdstrb')
  PROVE  RedistributeInv' /\ NothingBuffered'
<1>1. Rd!Credits(<<>>) = 0 /\ Len(<<>>) = 0
  BY SumsSpec DEF Rd!Credits
<1>2. /\ rdstrb'.nega = <<>> /\ rdstrb'.posi = <<>> /\ rdstrb'.counter = 0 /\ rdstrb'.sum_credit = 0
  BY DEF Emptied
<1>3. Rd!entries(rdstrb') = 0 /\ Rd!empty(rdstrb')
  BY <1>1, <1>2 DEF Rd!entries, Rd!empty
<1>4. rdstrb'.sum_credit = Rd!Credits(rdstrb'.nega) + Rd!Credits(rdstrb'.posi)
  BY <1>1, <1>2
<1>5. 0 < batch_siz
  BY Consts
<1> QED
  BY <1>2, <1>3, <1>4, <1>5 DEF RedistributeInv, NothingBuffered, Rd!pop_phase

\* An operation is accepted: it waits in the buffer, or makes the batch full.
LEMMA MixAddStep == RingInv /\ MixInv /\ MixAddOp => RingInv' /\ MixInv'
<1> SUFFICES ASSUME RingInv, MixInv, MixAddOp PROVE RingInv' /\ MixInv'
  OBVIOUS
<1>0. /\ Placement /\ MemoryType /\ ClientType /\ CallOK /\ CursorOK /\ FailuresCounted
      /\ pc = "add" => batch_idx # NoBatch
      /\ MixAccounted /\ RunOnce /\ RecordsTrue /\ BufferedOnce /\ desc_idx = 0
  BY InvParts DEF MixInv
<1>1. /\ pc = "add" /\ pc' = "idle" /\ ret' = TRUE /\ op_cnt' = op_cnt + 1
      /\ UNCHANGED <<executed, faults, call, locals>>
      /\ call = "submit" /\ op_cnt < MaxOps /\ ~resubmitted
      /\ batch_idx \in Batches /\ batch_idx # NoBatch
  BY <1>0 DEF MixAddOp, Return, CallOK, CursorOK, InElement, Placement
<1> PICK b0 \in Batches : b0 = batch_idx
  BY <1>1
<1> PICK kb \in Sizes :
      LET r == Rd!push_back(rdstrb, [op |-> op_cnt + 1, size |-> kb])
      IN  IF Rd!should_submit(r, batch_siz)
            THEN mix_submit(r)
            ELSE rdstrb' = r /\ UNCHANGED <<queues, batch_idx, desc_idx, memory, device, desc_count>>
  BY <1>1 DEF MixAddOp
<1> DEFINE e == [op |-> op_cnt + 1, size |-> kb]
           q == Rd!push_back(rdstrb, e)
<1>2. \/ Rd!should_submit(q, batch_siz) /\ mix_submit(q)
      \/ /\ ~Rd!should_submit(q, batch_siz) /\ rdstrb' = q
         /\ UNCHANGED <<queues, batch_idx, desc_idx, memory, device>>
  OBVIOUS
<1>3. /\ op_cnt \in Nat /\ op_cnt + 1 \in Nat /\ op_cnt + 1 \in 0 .. MaxOps /\ op_cnt + 1 \in Ops
      /\ op_cnt + 1 # Noop /\ 1 .. op_cnt + 1 = (1 .. op_cnt) \union {op_cnt + 1}
      /\ op_cnt + 1 \notin 1 .. op_cnt /\ 1 .. op_cnt \subseteq Ops /\ op_cnt <= op_cnt + 1
  BY <1>0, <1>1, Consts DEF ClientType, Ops, Noop
<1>4. e \in Entry /\ e.op = op_cnt + 1
  BY <1>3, MixingAssumption DEF Entry
<1> HIDE DEF e
<1>5. /\ Buffered(rdstrb) \subseteq (1 .. op_cnt) \ executed /\ executed \subseteq 1 .. op_cnt
      /\ \A b \in Batches, i \in Positions : ToRun(b, i) => descs[b][i] \in 1 .. op_cnt
      /\ \A b \in Batches, i \in Positions : ToRun(b, i) => descs[b][i] \notin Buffered(rdstrb)
  BY <1>0 DEF BufferedOnce, RunOnce
<1>6. e.op \notin Buffered(rdstrb)
  BY <1>3, <1>4, <1>5
<1>7. /\ q \in Buffer /\ Separate(q) /\ q.counter = 0
      /\ Buffered(q) = Buffered(rdstrb) \union {op_cnt + 1}
      /\ Rd!entries(rdstrb) \in Nat /\ Rd!entries(q) = Rd!entries(rdstrb) + 1
      /\ q.sum_credit = Rd!Credits(q.nega) + Rd!Credits(q.posi)
  BY <1>3, <1>4, <1>6, BufferFacts, AddToBuffer
<1> HIDE DEF q
<1>8. Rd!entries(q) \in 1 .. batch_siz
  BY <1>7, BufferFacts, Consts
<1>9. /\ Buffered(q) \subseteq (1 .. op_cnt') \ executed /\ Buffered(q) \subseteq Ops
      /\ 1 .. op_cnt' \subseteq (1 .. op_cnt) \union Buffered(q)
      /\ \A b \in Batches, i \in Positions : ToRun(b, i) => descs[b][i] \notin Buffered(q)
  BY <1>1, <1>3, <1>5, <1>7
<1>10. /\ Placement' /\ MemoryType' /\ (batch_idx' = NoBatch => count(free_queue') = 0)
       /\ \A b \in Batches : bcomp'[b] = BATCH_FAIL => bcomp[b] = BATCH_FAIL
       /\ desc_idx' = 0 /\ RedistributeInv'
       /\ MixAccounted' /\ RunOnce' /\ BufferedOnce' /\ RecordsTrue'
  <2>1. CASE Rd!should_submit(q, batch_siz) /\ mix_submit(q)
    <3>1. /\ Placement' /\ MemoryType' /\ (batch_idx' = NoBatch => count(free_queue') = 0)
          /\ \A b \in Batches : bcomp'[b] = BATCH_FAIL => bcomp[b] = BATCH_FAIL
          /\ RecordsTrue' /\ desc_idx' = 0 /\ Emptied(rdstrb') /\ HandedOver(b0, Buffered(q))
      BY <1>0, <1>1, <1>7, <1>8, <1>9, <2>1, SubmitBuffer
    <3>2. MixAccounted' /\ RunOnce' /\ BufferedOnce'
      <4>1. op_cnt \in Nat /\ op_cnt' \in Nat /\ op_cnt <= op_cnt' /\ Buffered(rdstrb) \subseteq Buffered(q)
        BY <1>1, <1>3, <1>7
      <4> QED
        BY <1>0, <1>1, <1>9, <3>1, <4>1, WorkHandedOver
    <3> QED
      BY <3>1, <3>2, EmptiedFine
  <2>2. CASE /\ ~Rd!should_submit(q, batch_siz) /\ rdstrb' = q
             /\ UNCHANGED <<queues, batch_idx, desc_idx, memory, device>>
    <3>1. /\ Placement' /\ MemoryType' /\ batch_idx' # NoBatch /\ desc_idx' = 0 /\ bcomp' = bcomp
      BY <1>0, <1>1, <2>2, PlacementUnchanged DEF memory
    <3>2. RedistributeInv'
      BY <1>7, <1>8, <2>2, <3>1, Consts DEF RedistributeInv, Rd!should_submit, Rd!pop_phase
    <3>3. UNCHANGED <<buzy_queue, batch_idx, desc_idx, descs, comps, bcomp, device, executed>>
      BY <1>1, <2>2 DEF queues, memory
    <3>4. \A b \in Batches, i \in Positions : ToRun(b, i)' <=> ToRun(b, i)
      BY <3>3 DEF ToRun
    <3>5. RecordsTrue'
      BY <1>0, <3>3 DEF RecordsTrue
    <3>6. MixAccounted'
      <4> SUFFICES ASSUME NEW o \in 1 .. op_cnt', o \notin executed, o \notin Buffered(q)
                   PROVE  \E b \in Batches, i \in Positions : ToRun(b, i) /\ descs[b][i] = o
        BY <2>2, <3>3, <3>4 DEF MixAccounted
      <4>1. o \in 1 .. op_cnt /\ o \notin Buffered(rdstrb)
        BY <1>7, <1>9
      <4> QED
        BY <1>0, <4>1 DEF MixAccounted
    <3>7. RunOnce'
      <4>1. 1 .. op_cnt \subseteq 1 .. op_cnt'
        BY <1>1, <1>3
      <4> QED
        BY <1>0, <3>3, <3>4, <4>1 DEF RunOnce
    <3>8. BufferedOnce'
      BY <1>7, <1>9, <2>2, <3>3, <3>4 DEF BufferedOnce
    <3> QED
      BY <3>1, <3>2, <3>5, <3>6, <3>7, <3>8
  <2> QED
    BY <1>2, <2>1, <2>2
<1>11. ClientType' /\ CursorOK' /\ FailuresCounted' /\ CallOK'
  BY <1>0, <1>1, <1>3, <1>10
     DEF ClientType, CursorOK, FailuresCounted, CallOK, InCollect, InElement, locals
<1>12. RingInv'
  BY <1>1, <1>10, <1>11, InvPartsPrime
<1>13. NothingBuffered' /\ DoneMeansDone'
  BY <1>1 DEF NothingBuffered, DoneMeansDone
<1> QED
  BY <1>10, <1>12, <1>13 DEF MixInv

\* wait() and check() submit what waits, padded to two descriptors.
LEMMA MixCompletionStep ==
  ASSUME RingInv, MixInv, NEW k \in {"wait", "check", "set_wq"}, MixCompletionCall(k)
  PROVE  RingInv' /\ MixInv'
<1>0. /\ Placement /\ MemoryType /\ ClientType /\ CallOK /\ CursorOK /\ FailuresCounted
      /\ batch_idx = NoBatch /\ ~InCollect => count(free_queue) = 0
      /\ MixAccounted /\ RunOnce /\ RecordsTrue /\ BufferedOnce /\ desc_idx = 0
  BY InvParts DEF MixInv
<1>1. /\ pc = "idle" /\ call' = k /\ pc' = IF k = "wait" THEN "wait" ELSE "collect"
      /\ UNCHANGED <<op_cnt, executed, faults, ret, locals>>
      /\ ~resubmitted /\ MixPadAndSubmit
  BY <1>0 DEF MixCompletionCall, CursorOK, InElement
<1>2. /\ Placement' /\ MemoryType' /\ (batch_idx' = NoBatch => count(free_queue') = 0)
      /\ \A b \in Batches : bcomp'[b] = BATCH_FAIL => bcomp[b] = BATCH_FAIL
      /\ desc_idx' = 0 /\ RedistributeInv' /\ NothingBuffered'
      /\ MixAccounted' /\ RunOnce' /\ BufferedOnce' /\ RecordsTrue'
  <2>1. CASE Rd!empty(rdstrb)
    <3>1. UNCHANGED <<queues, batch_idx, desc_idx, memory, device, rdstrb>>
      BY <1>1, <2>1 DEF MixPadAndSubmit
    <3>2. /\ Placement' /\ MemoryType' /\ (batch_idx' = NoBatch => count(free_queue') = 0)
          /\ desc_idx' = 0 /\ bcomp' = bcomp
      BY <1>0, <1>1, <3>1, PlacementUnchanged DEF queues, memory, InCollect, InElement
    <3>3. RedistributeInv' /\ NothingBuffered'
      BY <2>1, <3>1 DEF MixInv, RedistributeInv, NothingBuffered
    <3>4. UNCHANGED <<queues, filling, memory, hardware>>
      BY <1>1, <3>1 DEF filling, hardware
    <3>5. MixAccounted' /\ RunOnce' /\ BufferedOnce' /\ RecordsTrue'
      BY <1>0, <3>1, <3>4, QuietKeeps, MixWorkKept
    <3> QED
      BY <3>2, <3>3, <3>5
  <2>2. CASE ~Rd!empty(rdstrb)
    <3> DEFINE q == Padded(rdstrb)
    <3>1. mix_submit(q)
      BY <1>1, <2>2 DEF MixPadAndSubmit
    <3>2. /\ q \in Buffer /\ Separate(q) /\ q.counter = 0 /\ Buffered(q) = Buffered(rdstrb)
          /\ Rd!entries(q) \in 1 .. batch_siz
      <4>1. CASE Rd!can_submit(rdstrb)
        <5>1. q = rdstrb
          BY <4>1 DEF Padded
        <5> QED
          BY <2>2, <5>1, BufferFacts, Consts DEF Rd!empty
      <4>2. CASE ~Rd!can_submit(rdstrb)
        <5>1. q = Rd!push_back(rdstrb, Rd!NoEntry)
          BY <4>2 DEF Padded
        <5>2. Rd!NoEntry \in Entry /\ Rd!NoEntry.op = Noop /\ Noop \notin Buffered(rdstrb)
          BY DEF Rd!NoEntry, Entry, Noop, Buffered, Carried
        <5> HIDE DEF q
        <5> PICK e \in Entry : e = Rd!NoEntry
          BY <5>2
        <5>3. e.op = Noop /\ e.op \notin Buffered(rdstrb)
          BY <5>2
        <5>4. /\ q \in Buffer /\ Separate(q) /\ q.counter = 0
              /\ Buffered(q) = Buffered(rdstrb) \union ({e.op} \ {Noop})
              /\ Rd!entries(rdstrb) \in Nat /\ Rd!entries(q) = Rd!entries(rdstrb) + 1
          BY <5>1, <5>3, BufferFacts, AddToBuffer
        <5> QED
          BY <5>3, <5>4, BufferFacts, Consts
      <4> QED
        BY <4>1, <4>2
    <3> HIDE DEF q
    <3>3. batch_idx \in Batches /\ batch_idx # NoBatch
      BY <1>0, <2>2, BufferFacts DEF Placement
    <3> PICK b0 \in Batches : b0 = batch_idx
      BY <3>3
    <3>4. /\ Buffered(q) \subseteq (1 .. op_cnt') \ executed /\ Buffered(q) \subseteq Ops
          /\ op_cnt \in Nat /\ op_cnt' = op_cnt
          /\ \A b \in Batches, i \in Positions : ToRun(b, i) => descs[b][i] \notin Buffered(q)
      <4>1. op_cnt \in Nat /\ 1 .. op_cnt \subseteq Ops
        BY <1>0, Consts DEF ClientType, Ops
      <4> QED
        BY <1>0, <1>1, <3>2, <4>1 DEF BufferedOnce
    <3>5. /\ Placement' /\ MemoryType' /\ (batch_idx' = NoBatch => count(free_queue') = 0)
          /\ \A b \in Batches : bcomp'[b] = BATCH_FAIL => bcomp[b] = BATCH_FAIL
          /\ RecordsTrue' /\ desc_idx' = 0 /\ Emptied(rdstrb') /\ HandedOver(b0, Buffered(q))
      BY <1>0, <1>1, <3>1, <3>2, <3>4, SubmitBuffer
    <3>6. MixAccounted' /\ RunOnce' /\ BufferedOnce'
      <4>1. op_cnt' \in Nat /\ op_cnt <= op_cnt' /\ Buffered(rdstrb) \subseteq Buffered(q)
            /\ 1 .. op_cnt' \subseteq (1 .. op_cnt) \union Buffered(q)
        BY <3>2, <3>4
      <4> QED
        BY <1>0, <1>1, <3>4, <3>5, <4>1, WorkHandedOver
    <3> QED
      BY <3>5, <3>6, EmptiedFine
  <2> QED
    BY <2>1, <2>2
<1>3. ClientType' /\ CursorOK' /\ FailuresCounted' /\ CallOK'
  BY <1>0, <1>1, <1>2
     DEF ClientType, CursorOK, FailuresCounted, CallOK, InCollect, InElement, locals
<1>4. RingInv'
  BY <1>1, <1>2, <1>3, InvPartsPrime
<1>5. DoneMeansDone'
  BY <1>1 DEF DoneMeansDone
<1> QED
  BY <1>2, <1>4, <1>5 DEF MixInv

-----------------------------------------------------------------------------
(* The actions the mixing build shares with the other one. *)

\* With nothing buzy and nothing buffered, everything has been executed.
LEMMA MixEmptyMeansDone ==
  ASSUME RingInv, MixInv, task_empty, Rd!empty(rdstrb)
  PROVE  AllDone
<1>1. Buffered(rdstrb) = {}
  BY BufferFacts DEF Buffered, Carried
<1>2. MixAccounted /\ RunOnce /\ device = {} /\ \A b \in Batches, i \in Positions : ~ToRun(b, i)
  BY EmptyMeansIdle DEF MixInv
<1> QED
  BY <1>1, <1>2 DEF AllDone, MixAccounted, RunOnce

\* A step that neither fills the buffer nor empties it.
LEMMA MixKeeps ==
  ASSUME MixInv, rdstrb' = rdstrb, desc_idx' = 0,
         batch_idx # NoBatch => batch_idx' # NoBatch,
         call' \in {call, "submit"},
         MixAccounted' /\ RunOnce' /\ BufferedOnce' /\ RecordsTrue' /\ DoneMeansDone'
  PROVE  MixInv'
<1>1. RedistributeInv'
  BY DEF MixInv, RedistributeInv
<1>2. NothingBuffered'
  BY DEF MixInv, NothingBuffered
<1> QED
  BY <1>1, <1>2 DEF MixInv

LEMMA MixSameWork ==
  ASSUME MixInv, rdstrb' = rdstrb, desc_idx' = 0,
         batch_idx # NoBatch => batch_idx' # NoBatch,
         call' \in {call, "submit"},
         SameWork, RecordsTrue', DoneMeansDone'
  PROVE  MixInv'
<1>1. MixAccounted' /\ RunOnce' /\ BufferedOnce'
  BY MixWorkKept DEF MixInv
<1> QED
  BY <1>1, MixKeeps

LEMMA MixQuiet ==
  ASSUME RingInv, MixInv, rdstrb' = rdstrb,
         \/ SubmitCall \/ WaitTest \/ CollectStart \/ ScanEnd \/ ScanNoError
         \/ DoneNo \/ PendingYes \/ PendingNo \/ AgainNo
  PROVE  MixInv'
<1>1. UNCHANGED <<queues, filling, memory, hardware>>
  BY DEF SubmitCall, WaitTest, CollectStart, ScanEnd, ScanNoError, DoneNo, PendingYes, PendingNo, AgainNo
<1>2. SameWork /\ RecordsTrue' /\ desc_idx' = 0 /\ batch_idx' = batch_idx
  BY <1>1, QuietKeeps DEF MixInv, filling
<1>3. call' \in {call, "submit"} /\ DoneMeansDone'
  <2>1. CASE SubmitCall
    BY <2>1 DEF SubmitCall, DoneMeansDone
  <2>2. CASE WaitTest
    <3>1. call = "wait" /\ call' = call /\ Rd!empty(rdstrb) /\ desc_idx = 0
      BY <2>2, Parts DEF WaitTest, CallOK, MixInv, NothingBuffered
    <3>2. CASE empty(buzy_queue)
      BY <1>1, <3>1, <3>2, MixEmptyMeansDone DEF DoneMeansDone, task_empty, AllDone, filling, hardware
    <3>3. CASE ~empty(buzy_queue)
      BY <2>2, <3>3 DEF WaitTest, DoneMeansDone
    <3> QED
      BY <3>1, <3>2, <3>3
  <2>3. CASE ~SubmitCall /\ ~WaitTest
    <3>1. call' = call /\ pc' # "idle"
      BY <2>3 DEF CollectStart, ScanEnd, ScanNoError, DoneNo, PendingYes, PendingNo, AgainNo, client, Advance
    <3> QED
      BY <3>1 DEF DoneMeansDone
  <2> QED
    BY <2>1, <2>2, <2>3
<1> QED
  BY <1>2, <1>3, MixSameWork

LEMMA MixClear == ASSUME RingInv, MixInv, rdstrb' = rdstrb, Clear PROVE MixInv'
<1>1. SameWork /\ RecordsTrue' /\ desc_idx' = 0
  BY ClearKeeps
<1>2. batch_idx' # NoBatch /\ UNCHANGED <<op_cnt, executed, device, pc, call, ret>>
  BY DEF Clear, hardware, client
<1>3. DoneMeansDone'
  BY <1>2 DEF MixInv, DoneMeansDone, AllDone
<1> QED
  BY <1>1, <1>2, <1>3, MixSameWork

LEMMA MixCollect ==
  ASSUME RingInv, MixInv, rdstrb' = rdstrb, ScanError \/ DoneYes \/ AgainYes
  PROVE  MixInv'
<1>1. SameWork /\ RecordsTrue' /\ pc' # "idle"
  BY ScanErrorKeeps, RecycleKeeps DEF MixInv, ScanError
<1>2. UNCHANGED <<batch_idx, desc_idx, call>>
  BY DEF ScanError, DoneYes, AgainYes, filling, client
<1>3. DoneMeansDone' /\ desc_idx' = 0
  BY <1>1, <1>2 DEF DoneMeansDone, MixInv
<1> QED
  BY <1>1, <1>2, <1>3, MixSameWork

LEMMA MixCollectEnd == ASSUME RingInv, MixInv, rdstrb' = rdstrb, CollectEnd PROVE MixInv'
<1>1. /\ SameWork /\ RecordsTrue' /\ UNCHANGED <<desc_idx, device, call>>
      /\ pc' = "idle" => ret' = task_empty /\ call \in {"check", "set_wq"}
  BY CollectEndKeeps DEF MixInv
<1>2. batch_idx # NoBatch => batch_idx' # NoBatch
  BY DEF CollectEnd
<1>3. DoneMeansDone'
  <2> SUFFICES ASSUME pc' = "idle", call' = "wait" \/ (call' \in {"check", "set_wq"} /\ ret') PROVE AllDone'
    BY DEF DoneMeansDone
  <2>1. task_empty /\ Rd!empty(rdstrb)
    BY <1>1 DEF MixInv, NothingBuffered
  <2> QED
    BY <1>1, <2>1, MixEmptyMeansDone DEF AllDone, SameWork
<1>4. desc_idx' = 0
  BY <1>1 DEF MixInv
<1> QED
  BY <1>1, <1>2, <1>3, <1>4, MixSameWork

LEMMA MixDevice ==
  ASSUME RingInv, MixInv, rdstrb' = rdstrb, NEW b0 \in Batches, DeviceStep(b0)
  PROVE  MixInv'
<1>1. /\ \E done : WorkDone(b0, done)
      /\ RecordsTrue' /\ UNCHANGED <<desc_idx, pc, call, ret>> /\ device # {}
  BY DeviceWork DEF MixInv
<1>2. MixAccounted' /\ RunOnce' /\ BufferedOnce'
  BY <1>1, MixWorkDone DEF MixInv
<1>3. batch_idx' = batch_idx /\ desc_idx' = 0
  BY <1>1 DEF DeviceStep, BatchSucceeds, BatchFails, filling, MixInv
<1>4. DoneMeansDone'
  BY <1>1 DEF MixInv, DoneMeansDone, AllDone
<1> QED
  BY <1>1, <1>2, <1>3, <1>4, MixKeeps

LEMMA SharedIsNext ==
  ASSUME Shared
  PROVE  \/ SubmitCall \/ Clear \/ (ClientStep /\ ~AddOp)
         \/ \E b \in Batches : DeviceStep(b)
<1>1. CASE SubmitCall \/ Clear
  BY <1>1
<1>2. CASE \E b \in Batches : BatchSucceeds(b) \/ MixBatchFails(b)
  BY <1>2 DEF MixBatchFails, DeviceStep
<1>3. CASE \/ WaitTest \/ CollectStart \/ ScanEnd \/ ScanNoError \/ ScanError
           \/ DoneYes \/ DoneNo \/ PendingYes \/ PendingNo \/ AgainYes \/ AgainNo \/ CollectEnd
  <2>1. ClientStep
    BY <1>3 DEF ClientStep
  <2>2. pc # "add"
    BY <1>3 DEF WaitTest, CollectStart, ScanEnd, ScanNoError, ScanError, DoneYes, DoneNo, PendingYes,
                PendingNo, AgainYes, AgainNo, CollectEnd
  <2> QED
    BY <2>1, <2>2 DEF AddOp
<1> QED
  BY <1>1, <1>2, <1>3 DEF Shared

LEMMA MixShared ==
  ASSUME NoOvertaking, RingInv, MixInv, Shared, rdstrb' = rdstrb
  PROVE  RingInv' /\ MixInv'
<1>1. RingInv'
  BY SharedIsNext, RingStep DEF Next, Calls
<1>2. MixInv'
  BY SharedIsNext, MixQuiet, MixClear, MixCollect, MixCollectEnd, MixDevice DEF ClientStep
<1> QED
  BY <1>1, <1>2

LEMMA MixStutter == ASSUME RingInv, MixInv, UNCHANGED mvars PROVE RingInv' /\ MixInv'
<1>1. UNCHANGED vars /\ rdstrb' = rdstrb
  BY DEF mvars
<1>2. RingInv'
  BY <1>1, RingStutter
<1>3. UNCHANGED <<queues, filling, memory, hardware, pc, call, ret>>
  BY <1>1 DEF vars, client
<1>4. SameWork /\ RecordsTrue' /\ desc_idx' = 0 /\ batch_idx' = batch_idx
  BY <1>3, QuietKeeps DEF MixInv, filling
<1>5. DoneMeansDone'
  BY <1>3 DEF MixInv, DoneMeansDone, AllDone, filling, hardware
<1> QED
  BY <1>1, <1>2, <1>3, <1>4, <1>5, MixSameWork

LEMMA MixInitial == MixInit => RingInv /\ MixInv
<1> SUFFICES ASSUME MixInit PROVE RingInv /\ MixInv
  OBVIOUS
<1>1. Init /\ rdstrb = Rd!redistribute
  BY DEF MixInit
<1>2. RingInv /\ OpInv /\ desc_idx = 0 /\ op_cnt = 0 /\ call = "none"
  BY <1>1, RingInit, OpInit DEF Init
<1>3. Emptied(rdstrb)
  BY <1>1 DEF Rd!redistribute, Emptied, Buffer
<1>4. /\ rdstrb \in Buffer /\ rdstrb.nega = <<>> /\ rdstrb.posi = <<>>
      /\ rdstrb.counter = 0 /\ rdstrb.sum_credit = 0
  BY <1>3 DEF Emptied
<1>5. RedistributeInv
  <2>1. Rd!Credits(<<>>) = 0 /\ Len(<<>>) = 0
    BY SumsSpec DEF Rd!Credits
  <2>2. Rd!entries(rdstrb) = 0 /\ Rd!empty(rdstrb)
    BY <1>4, <2>1 DEF Rd!entries, Rd!empty
  <2>3. rdstrb.sum_credit = Rd!Credits(rdstrb.nega) + Rd!Credits(rdstrb.posi)
    BY <1>4, <2>1
  <2> QED
    BY <1>4, <2>2, <2>3, Consts DEF RedistributeInv, Rd!pop_phase
<1>6. Buffered(rdstrb) = {} /\ Separate(rdstrb)
  BY <1>4 DEF Buffered, Separate, Carried, Single
<1>7. BufferedOnce /\ MixAccounted /\ NothingBuffered
  BY <1>2, <1>4, <1>6 DEF BufferedOnce, MixAccounted, NothingBuffered
<1> QED
  BY <1>2, <1>5, <1>7 DEF OpInv, MixInv

LEMMA MixingInvariant == NoOvertaking /\ MixSpec => [](RingInv /\ MixInv)
<1> SUFFICES ASSUME NoOvertaking PROVE MixSpec => [](RingInv /\ MixInv)
  OBVIOUS
<1>1. MixInit => RingInv /\ MixInv
  BY MixInitial
<1>2. RingInv /\ MixInv /\ [MixNext]_mvars => RingInv' /\ MixInv'
  BY MixAddStep, MixCompletionStep, MixShared, MixStutter DEF MixNext
<1> QED
  BY <1>1, <1>2, PTL DEF MixSpec

-----------------------------------------------------------------------------
\* An accepted operation is executed, in a descriptor, or in rdstrb, and in one
\* of the three only: the loop of submit_forward that pops by credit, the padding
\* with a no-op and the repair of a failed batch neither lose nor repeat one.
THEOREM OperationInOnePlace == ASSUME NoOvertaking PROVE MixSpec => []InOnePlace
<1>1. RingInv /\ MixInv => InOnePlace
  <2> SUFFICES ASSUME RingInv, MixInv, NEW o \in 1 .. op_cnt
               PROVE  LET waiting == \E e \in Waiting : e.op = o
                      IN  /\ o \in executed \/ InDescriptor(o) \/ waiting
                          /\ ~(o \in executed /\ (InDescriptor(o) \/ waiting))
                          /\ ~(InDescriptor(o) /\ waiting)
    BY DEF InOnePlace
  <2>0. MixAccounted /\ RunOnce /\ BufferedOnce /\ desc_idx = 0 /\ rdstrb \in Buffer
    BY DEF MixInv, BufferedOnce
  <2>1. o # Noop
    BY DEF Noop
  <2>2. InDescriptor(o) <=> \E b \in Batches, i \in Positions : ToRun(b, i) /\ descs[b][i] = o
    <3>1. \A i \in Positions : ~(i < desc_idx)
      BY <2>0, Consts DEF Positions
    <3> QED
      BY <2>1, <3>1 DEF InDescriptor, ToRun
  <2>3. (\E e \in Waiting : e.op = o) <=> o \in Buffered(rdstrb)
    BY <2>1 DEF Waiting, Range, Buffered, Carried
  <2>4. o \in executed \/ InDescriptor(o) \/ o \in Buffered(rdstrb)
    BY <2>0, <2>2 DEF MixAccounted
  <2>5. /\ ~(o \in executed /\ (InDescriptor(o) \/ o \in Buffered(rdstrb)))
        /\ ~(InDescriptor(o) /\ o \in Buffered(rdstrb))
    BY <2>0, <2>2 DEF RunOnce, BufferedOnce
  <2> QED
    BY <2>3, <2>4, <2>5
<1> QED
  BY <1>1, MixingInvariant, PTL

\* Between two calls no pop phase is open, sum_credit is the credit of what waits,
\* and what waits is less than a batch and has one to go to.
THEOREM RedistributeRight == ASSUME NoOvertaking PROVE MixSpec => []RedistributeInv
<1>1. MixInv => RedistributeInv
  BY DEF MixInv
<1> QED
  BY <1>1, MixingInvariant, PTL

\* The mixing build keeps the promise of the service too: the order in which
\* operations become descriptors is all that differs.
THEOREM MixingImplementsService == ASSUME NoOvertaking PROVE MixSpec => ImplementsService
<1>1. MixInit => Service!Init
  BY ServiceInit DEF MixInit
<1>2. RingInv /\ MixInv /\ RingInv' /\ MixInv' /\ [MixNext]_mvars => [Service!Next]_(Service!vars)
  <2> SUFFICES ASSUME RingInv, MixInv, MixInv', [MixNext]_mvars PROVE Service!Next \/ UNCHANGED Service!vars
    OBVIOUS
  <2>1. CASE UNCHANGED mvars
    BY <2>1 DEF mvars, vars, Service!vars, filling, hardware, client
  <2>2. CASE MixAddOp
    <3>1. Service!ReturnSubmit
      BY <2>2, Parts DEF MixAddOp, Return, Service!ReturnSubmit, CallOK
    <3> QED
      BY <3>1 DEF Service!Next
  <2>3. ASSUME NEW c \in {"wait", "check", "set_wq"}, MixCompletionCall(c) PROVE Service!Next
    <3>1. Service!Invoke(c)
      BY <2>3 DEF MixCompletionCall, Service!Invoke
    <3> QED
      BY <3>1 DEF Service!Next, Service!CompletionCalls
  <2>4. CASE Shared
    <3>1. CASE SubmitCall \/ Clear
      BY <3>1, ServiceCalls DEF Calls
    <3>2. CASE ClientStep /\ ~AddOp
      <4>1. call \in {"wait", "check", "set_wq"} /\ task_empty => executed = 1 .. op_cnt
        BY MixEmptyMeansDone DEF AllDone, MixInv, NothingBuffered
      <4>2. NothingPartial
        BY DEF NothingPartial, MixInv
      <4> QED
        BY <3>2, <4>1, <4>2, ServiceReturns
    <3>3. CASE \E b \in Batches : DeviceStep(b)
      BY <3>3, ServiceDevice DEF MixInv
    <3> QED
      BY <2>4, <3>1, <3>2, <3>3, SharedIsNext
  <2> QED
    BY <2>1, <2>2, <2>3, <2>4 DEF MixNext
<1> QED
  BY <1>1, <1>2, MixingInvariant, PTL DEF MixSpec, ImplementsService, Service!Spec
=============================================================================

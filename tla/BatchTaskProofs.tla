-------------------------- MODULE BatchTaskProofs --------------------------
(***************************************************************************)
(* Proofs about BatchTask, for every capacity, batch size, window and      *)
(* bound: what the operations of batch_record_queue do to the set of       *)
(* batches in a ring, the ring layer of the inductive invariant, and what  *)
(* follows from it.                                                        *)
(***************************************************************************)
EXTENDS BatchTaskInv, TLAPS

-----------------------------------------------------------------------------
(* batch_record_queue, for every capacity and every content. *)

\* The arithmetic of the live positions between front f and back b.
Succ(cap, x) == IF x + 1 = cap THEN 0 ELSE x + 1
Dist(cap, f, b) == IF f <= b THEN b - f ELSE b - f + cap

\* Moving back forward adds the old back, as long as it does not meet front.
LEMMA SpanPush ==
  ASSUME NEW cap \in Nat \ {0}, NEW f \in 0 .. cap - 1, NEW b \in 0 .. cap - 1,
         Dist(cap, f, b) < cap - 1
  PROVE  /\ Span(cap, f, Succ(cap, b)) = Span(cap, f, b) \union {b}
         /\ Dist(cap, f, Succ(cap, b)) = Dist(cap, f, b) + 1
BY DEF Span, Dist, Succ

\* Moving front forward takes out the old front.
LEMMA SpanPop ==
  ASSUME NEW cap \in Nat \ {0}, NEW f \in 0 .. cap - 1, NEW b \in 0 .. cap - 1, f # b
  PROVE  /\ Span(cap, Succ(cap, f), b) = Span(cap, f, b) \ {f}
         /\ Dist(cap, Succ(cap, f), b) = Dist(cap, f, b) - 1
BY DEF Span, Dist, Succ

\* The position after a live one is live, and not front, or it is back.
LEMMA SpanNext ==
  ASSUME NEW cap \in Nat \ {0}, NEW f \in 0 .. cap - 1, NEW b \in 0 .. cap - 1,
         NEW p \in Span(cap, f, b)
  PROVE  Succ(cap, p) \in (Span(cap, f, b) \ {f}) \union {b}
BY DEF Span, Succ

LEMMA QueueFields ==
  ASSUME NEW cap \in Nat \ {0}, NEW q, QueueType(cap, q)
  PROVE  /\ q.queue_cap = cap
         /\ q.q_front \in 0 .. cap - 1
         /\ q.q_back \in 0 .. cap - 1
         /\ q.q_ecnt \in Int
         /\ q.queue \in [0 .. cap - 1 -> Int]
         /\ Live(q) = Span(cap, q.q_front, q.q_back)
         /\ \A x : next(q, x) = Succ(cap, x)
         /\ RingOK(q) => q.q_ecnt = Dist(cap, q.q_front, q.q_back)
BY DEF QueueType, Live, next, Succ, RingOK, Dist

\* A ring whose fields are all set anew, and clear(), keep the type.
LEMMA Reset ==
  ASSUME NEW cap \in Nat \ {0}, NEW q, QueueType(cap, q), NEW a \in [0 .. cap - 1 -> Int],
         NEW b \in 0 .. cap - 1, NEW n \in Int
  PROVE  /\ QueueType(cap, [q EXCEPT !.queue = a, !.q_front = 0, !.q_back = b, !.q_ecnt = n])
         /\ QueueType(cap, clear(q))
<1>1. 0 \in 0 .. cap - 1 /\ 0 \in Int
  OBVIOUS
<1>2. ASSUME NEW f \in 0 .. cap - 1
      PROVE  QueueType(cap, [q EXCEPT !.queue = a, !.q_front = f, !.q_back = b, !.q_ecnt = n])
  BY DEF QueueType
<1>3. ASSUME NEW f \in 0 .. cap - 1, NEW m \in Int
      PROVE  QueueType(cap, [q EXCEPT !.q_front = f, !.q_back = f, !.q_ecnt = m])
  BY DEF QueueType
<1>4. QED
  BY <1>1, <1>2, <1>3 DEF clear

\* A well-formed ring holds at most one index less than it has slots, and its
\* count is zero exactly when no position is live (batch_record_queue::empty).
LEMMA RingBounds ==
  ASSUME NEW cap \in Nat \ {0}, NEW q, QueueType(cap, q), RingOK(q)
  PROVE  /\ q.q_ecnt \in 0 .. cap - 1
         /\ q.q_ecnt = 0 <=> q.q_front = q.q_back
         /\ q.q_ecnt = 0 <=> Elems(q) = {}
         /\ q.q_ecnt = 0 <=> Live(q) = {}
         /\ q.q_ecnt > 0 => q.q_front \in Live(q)
         /\ q.q_back \notin Live(q)
         /\ Live(q) \subseteq 0 .. cap - 1
<1>0. /\ q.queue_cap = cap /\ q.q_ecnt \in Int
      /\ q.q_front \in 0 .. cap - 1 /\ q.q_back \in 0 .. cap - 1
      /\ q.queue \in [0 .. cap - 1 -> Int]
      /\ Live(q) = Span(cap, q.q_front, q.q_back)
      /\ \A z : next(q, z) = Succ(cap, z)
      /\ q.q_ecnt = Dist(cap, q.q_front, q.q_back)
  BY QueueFields
<1>1. /\ q.q_ecnt \in 0 .. cap - 1
      /\ q.q_ecnt = 0 <=> q.q_front = q.q_back
      /\ q.q_ecnt = 0 => Live(q) = {}
      /\ q.q_ecnt # 0 => q.q_front \in Live(q)
      /\ q.q_back \notin Live(q)
      /\ Live(q) \subseteq 0 .. cap - 1
  <2>1. /\ q.q_ecnt \in 0 .. cap - 1
        /\ q.q_ecnt = 0 <=> q.q_front = q.q_back
    BY <1>0 DEF Dist
  <2>2. Live(q) \subseteq 0 .. cap - 1 /\ q.q_back \notin Live(q)
    BY <1>0 DEF Span
  <2>3. /\ q.q_front = q.q_back => Live(q) = {}
        /\ q.q_front # q.q_back => q.q_front \in Live(q)
    BY <1>0 DEF Span
  <2>4. QED
    BY <2>1, <2>2, <2>3
<1>2. Live(q) = {} <=> Elems(q) = {}
  BY DEF Elems
<1>3. QED
  BY <1>1, <1>2

\* push_back on a ring that is not at its limit appends one index and moves
\* nothing else.
LEMMA PushBack ==
  ASSUME NEW cap \in Nat \ {0}, NEW q, QueueType(cap, q), RingOK(q),
         NEW x \in Int, q.q_ecnt < cap - 1, x \notin Elems(q)
  PROVE  LET r == push_back(q, x)
         IN  /\ QueueType(cap, r) /\ RingOK(r)
             /\ r.q_ecnt = q.q_ecnt + 1
             /\ r.q_front = q.q_front /\ r.q_back = next(q, q.q_back)
             /\ Live(r) = Live(q) \union {q.q_back}
             /\ \A p \in Live(q) : r.queue[p] = q.queue[p]
             /\ r.queue[q.q_back] = x
             /\ Elems(r) = Elems(q) \union {x}
<1>0. /\ q.queue_cap = cap /\ q.q_ecnt \in Int
      /\ q.q_front \in 0 .. cap - 1 /\ q.q_back \in 0 .. cap - 1
      /\ q.queue \in [0 .. cap - 1 -> Int]
      /\ Live(q) = Span(cap, q.q_front, q.q_back)
      /\ \A z : next(q, z) = Succ(cap, z)
      /\ q.q_ecnt = Dist(cap, q.q_front, q.q_back)
  BY QueueFields
<1> DEFINE r == push_back(q, x)
           nb == next(q, q.q_back)
           ne == q.q_ecnt + 1
<1>1. nb = Succ(cap, q.q_back) /\ nb \in 0 .. cap - 1 /\ ne \in Int
  BY <1>0 DEF Succ
<1>2. r = [q EXCEPT !.queue = [q.queue EXCEPT ![q.q_back] = x], !.q_back = nb, !.q_ecnt = ne]
  BY <1>0, RingBounds DEF push_back, full, QueueType
<1>. HIDE DEF r, nb, ne
<1>3. QueueType(cap, r)
  BY <1>1, <1>2 DEF QueueType
<1>4. /\ r.q_front = q.q_front /\ r.q_back = nb
      /\ r.q_ecnt = ne /\ r.queue = [q.queue EXCEPT ![q.q_back] = x]
  BY <1>2 DEF QueueType
<1>5. /\ Live(r) = Live(q) \union {q.q_back} /\ q.q_back \notin Live(q)
      /\ r.q_ecnt = Dist(cap, r.q_front, r.q_back)
      /\ Live(q) \subseteq 0 .. cap - 1
  <2>1. /\ Live(r) = Span(cap, q.q_front, Succ(cap, q.q_back))
        /\ r.q_ecnt = Dist(cap, q.q_front, q.q_back) + 1
    BY <1>0, <1>1, <1>3, <1>4, QueueFields DEF ne
  <2>2. /\ q.q_back \notin Live(q)
        /\ Live(q) \subseteq 0 .. cap - 1
    BY RingBounds
  <2>3. /\ Span(cap, q.q_front, Succ(cap, q.q_back)) = Live(q) \union {q.q_back}
        /\ Dist(cap, q.q_front, Succ(cap, q.q_back)) = Dist(cap, q.q_front, q.q_back) + 1
    BY <1>0, SpanPush
  <2>4. QED
    BY <2>1, <2>2, <2>3, <1>1, <1>4
<1>6. /\ \A p \in Live(q) : r.queue[p] = q.queue[p]
      /\ r.queue[q.q_back] = x
  BY <1>4, <1>5, QueueFields
<1>7. Elems(r) = Elems(q) \union {x}
  BY <1>5, <1>6 DEF Elems
<1>8. \A p1, p2 \in Live(r) : r.queue[p1] = r.queue[p2] => p1 = p2
  BY <1>5, <1>6 DEF RingOK, Elems
<1>9. RingOK(r)
  BY <1>3, <1>5, <1>8, QueueFields DEF RingOK, Dist
<1>10. QED
  BY <1>3, <1>4, <1>5, <1>6, <1>7, <1>9 DEF r, nb, ne

\* pop_front on a ring that is not empty takes out the index it returns.
LEMMA PopFront ==
  ASSUME NEW cap \in Nat \ {0}, NEW q, QueueType(cap, q), RingOK(q), q.q_ecnt > 0
  PROVE  /\ QueueType(cap, pop_front(q)) /\ RingOK(pop_front(q))
         /\ pop_front(q).q_ecnt = q.q_ecnt - 1
         /\ front_value(q) \in Elems(q)
         /\ Elems(pop_front(q)) = Elems(q) \ {front_value(q)}
<1>0. /\ q.queue_cap = cap /\ q.q_ecnt \in Int
      /\ q.q_front \in 0 .. cap - 1 /\ q.q_back \in 0 .. cap - 1
      /\ q.queue \in [0 .. cap - 1 -> Int]
      /\ Live(q) = Span(cap, q.q_front, q.q_back)
      /\ \A z : next(q, z) = Succ(cap, z)
      /\ q.q_ecnt = Dist(cap, q.q_front, q.q_back)
  BY QueueFields
<1> DEFINE r == pop_front(q)
           nf == next(q, q.q_front)
           ne == q.q_ecnt - 1
<1>1. nf = Succ(cap, q.q_front) /\ nf \in 0 .. cap - 1 /\ ne \in Int
  BY <1>0 DEF Succ
<1>2. r = [q EXCEPT !.q_front = nf, !.q_ecnt = ne] /\ front_value(q) = q.queue[q.q_front]
  BY DEF pop_front, front_value, empty
<1>. HIDE DEF r, nf, ne
<1>3. QueueType(cap, r)
  BY <1>1, <1>2 DEF QueueType
<1>4. r.q_front = nf /\ r.q_back = q.q_back /\ r.q_ecnt = ne /\ r.queue = q.queue
  BY <1>2 DEF QueueType
<1>5. q.q_front # q.q_back /\ q.q_front \in Live(q)
  BY RingBounds
<1>6. Live(r) = Live(q) \ {q.q_front} /\ r.q_ecnt = Dist(cap, r.q_front, r.q_back)
  <2>1. /\ Live(r) = Span(cap, Succ(cap, q.q_front), q.q_back)
        /\ r.q_ecnt = Dist(cap, q.q_front, q.q_back) - 1
    BY <1>0, <1>1, <1>3, <1>4, QueueFields DEF ne
  <2>2. QED
    BY <2>1, <1>0, <1>1, <1>4, <1>5, SpanPop
<1>7. \A p1, p2 \in Live(r) : r.queue[p1] = r.queue[p2] => p1 = p2
  BY <1>4, <1>6 DEF RingOK
<1>8. RingOK(r)
  BY <1>3, <1>6, <1>7, QueueFields DEF RingOK, Dist
<1>9. front_value(q) \in Elems(q) /\ Elems(r) = Elems(q) \ {front_value(q)}
  BY <1>2, <1>4, <1>5, <1>6 DEF Elems, RingOK
<1>10. QED
  BY <1>3, <1>4, <1>8, <1>9 DEF r, ne

\* delay_front_and_pop takes out the index at a live position; the scan of
\* collect() that stands there goes on with an element it has not seen, or ends.
LEMMA DelayFront ==
  ASSUME NEW cap \in Nat \ {0}, NEW q, QueueType(cap, q), RingOK(q), NEW pos \in Live(q)
  PROVE  LET r == delay_front_and_pop(q, pos)
         IN  /\ QueueType(cap, r) /\ RingOK(r)
             /\ r.q_ecnt = q.q_ecnt - 1 /\ r.q_back = q.q_back
             /\ Elems(r) = Elems(q) \ {q.queue[pos]}
             /\ next(q, pos) \in Live(r) \union {r.q_back}
<1>0. /\ q.queue_cap = cap /\ q.q_ecnt \in Int
      /\ q.q_front \in 0 .. cap - 1 /\ q.q_back \in 0 .. cap - 1
      /\ q.queue \in [0 .. cap - 1 -> Int]
      /\ Live(q) = Span(cap, q.q_front, q.q_back)
      /\ \A z : next(q, z) = Succ(cap, z)
      /\ q.q_ecnt = Dist(cap, q.q_front, q.q_back)
  BY QueueFields
<1> DEFINE r == delay_front_and_pop(q, pos)
           nf == next(q, q.q_front)
           ne == q.q_ecnt - 1
           x == q.queue[q.q_front]
<1>1. /\ nf = Succ(cap, q.q_front) /\ nf \in 0 .. cap - 1 /\ ne \in Int
      /\ x \in Int
  BY <1>0 DEF Succ
<1>2. r = [q EXCEPT !.queue = [q.queue EXCEPT ![pos] = x], !.q_front = nf, !.q_ecnt = ne]
  BY DEF delay_front_and_pop, QueueType
<1>. HIDE DEF r, nf, ne, x
<1>3. QueueType(cap, r)
  BY <1>1, <1>2 DEF QueueType
<1>4. /\ r.q_front = nf /\ r.q_back = q.q_back /\ r.q_ecnt = ne
      /\ r.queue = [q.queue EXCEPT ![pos] = x]
  BY <1>2 DEF QueueType
<1>5. /\ q.q_front # q.q_back /\ q.q_front \in Live(q)
      /\ Live(q) \subseteq 0 .. cap - 1
  BY RingBounds
<1>6. Live(r) = Live(q) \ {q.q_front} /\ r.q_ecnt = Dist(cap, r.q_front, r.q_back)
  <2>1. /\ Live(r) = Span(cap, Succ(cap, q.q_front), q.q_back)
        /\ r.q_ecnt = Dist(cap, q.q_front, q.q_back) - 1
    BY <1>0, <1>1, <1>3, <1>4, QueueFields DEF ne
  <2>2. QED
    BY <2>1, <1>0, <1>1, <1>4, <1>5, SpanPop
<1>7. next(q, pos) \in Live(r) \union {r.q_back}
  BY <1>0, <1>4, <1>6, SpanNext
<1>8. \A p \in Live(q) : r.queue[p] = IF p = pos THEN x ELSE q.queue[p]
  BY <1>4, <1>5, QueueFields
<1>9. \A p1, p2 \in Live(r) : r.queue[p1] = r.queue[p2] => p1 = p2
  BY <1>5, <1>6, <1>8 DEF RingOK, x
<1>10. RingOK(r)
  BY <1>3, <1>6, <1>9, QueueFields DEF RingOK, Dist
<1>11. Elems(r) = Elems(q) \ {q.queue[pos]}
  BY <1>5, <1>6, <1>8 DEF Elems, RingOK, x
<1>12. QED
  BY <1>3, <1>4, <1>7, <1>10, <1>11 DEF r, ne

-----------------------------------------------------------------------------
(* The engine. *)

USE DEF Batches, NoBatch, NONE, SUCCESS, PAGE_FAULT, BATCH_FAIL

\* Assumptions on the constants, in the form the lemmas on rings want them.
LEMMA Consts ==
  /\ batch_capacity \in Nat \ {0} /\ batch_siz \in Nat \ {0}
  /\ batch_capacity + 1 \in Nat \ {0}
  /\ 0 .. (batch_capacity + 1) - 1 = 0 .. batch_capacity
  /\ 0 \in 0 .. batch_capacity /\ batch_capacity - 1 \in 0 .. batch_capacity
  /\ OUT_OF_ORDER_RECYCLE_T_INIT \in Nat /\ MaxOps \in Nat /\ MaxFaults \in Nat
BY BatchTaskAssumption

\* What clear() leaves in the free ring: every batch but the current one.
LEMMA RenumberedRing ==
  ASSUME NEW q, QueueType(batch_capacity + 1, q)
  PROVE  LET r == Renumbered(q)
         IN  /\ QueueType(batch_capacity + 1, r) /\ RingOK(r)
             /\ Elems(r) = 1 .. batch_capacity - 1
             /\ r.q_ecnt = batch_capacity - 1
<1> DEFINE r == Renumbered(q)
           a == [s \in 0 .. batch_capacity |->
                   IF s < batch_capacity - 1 THEN s + 1 ELSE q.queue[s]]
<1>0. batch_capacity \in Nat \ {0}
  BY Consts
<1>1. Slots(q) = 0 .. batch_capacity /\ q.queue \in [0 .. batch_capacity -> Int]
  BY <1>0 DEF QueueType, Slots
<1>2. a \in [0 .. batch_capacity -> Int]
  BY <1>0, <1>1
<1>3. r = [q EXCEPT !.queue = a, !.q_front = 0,
                    !.q_back = batch_capacity - 1, !.q_ecnt = batch_capacity - 1]
  BY <1>1 DEF Renumbered, clear, QueueType
<1>. HIDE DEF r
<1>4. QueueType(batch_capacity + 1, r)
  <2>. HIDE DEF a
  <2> DEFINE cap == batch_capacity + 1
  <2>1. /\ cap \in Nat \ {0} /\ a \in [0 .. cap - 1 -> Int]
        /\ batch_capacity - 1 \in 0 .. cap - 1 /\ batch_capacity - 1 \in Int
        /\ QueueType(cap, q)
    BY Consts, <1>2
  <2>. HIDE DEF cap
  <2>2. QueueType(cap, r)
    BY <2>1, <1>3, Reset
  <2>3. QED
    BY <2>2 DEF cap
<1>5. /\ r.queue = a /\ r.q_front = 0
      /\ r.q_back = batch_capacity - 1 /\ r.q_ecnt = batch_capacity - 1
  BY <1>3 DEF QueueType
<1>6. Live(r) = 0 .. batch_capacity - 2
  BY <1>0, <1>4, <1>5 DEF Live, Span, QueueType
<1>7. \A p \in Live(r) : r.queue[p] = p + 1
  BY <1>0, <1>5, <1>6
<1>8. RingOK(r)
  BY <1>0, <1>5, <1>6, <1>7 DEF RingOK
<1>9. Elems(r) = 1 .. batch_capacity - 1
  <2>1. \A b \in 1 .. batch_capacity - 1 : b - 1 \in Live(r) /\ r.queue[b - 1] = b
    BY <1>0, <1>6, <1>7
  <2>2. \A p \in Live(r) : r.queue[p] \in 1 .. batch_capacity - 1
    BY <1>0, <1>6, <1>7
  <2>3. QED
    BY <2>1, <2>2 DEF Elems
<1>10. QED
  BY <1>4, <1>5, <1>8, <1>9 DEF r

LEMMA ClearedRing ==
  ASSUME NEW q, QueueType(batch_capacity + 1, q)
  PROVE  LET r == clear(q)
         IN  /\ QueueType(batch_capacity + 1, r) /\ RingOK(r)
             /\ Elems(r) = {} /\ r.q_ecnt = 0
<1> DEFINE r == clear(q)
<1>1. QueueType(batch_capacity + 1, r)
  <2>1. q.queue \in [0 .. batch_capacity -> Int]
    BY Consts DEF QueueType
  <2>2. QED
    BY <2>1, Consts, Reset
<1>2. r.q_front = 0 /\ r.q_back = 0 /\ r.q_ecnt = 0
  BY DEF QueueType, clear
<1>3. Live(r) = {}
  BY <1>2 DEF Live, Span
<1>4. QED
  BY <1>1, <1>2, <1>3 DEF RingOK, Elems

LEMMA InitRing ==
  LET r == init(batch_capacity + 1)
  IN  QueueType(batch_capacity + 1, r) /\ RingOK(r) /\ Elems(r) = {} /\ r.q_ecnt = 0
<1> DEFINE r == init(batch_capacity + 1)
<1>1. QueueType(batch_capacity + 1, r)
  BY Consts DEF QueueType, init, Uninit
<1>2. r.q_front = 0 /\ r.q_back = 0 /\ r.q_ecnt = 0
  BY DEF init
<1>3. Live(r) = {}
  BY <1>2 DEF Live, Span
<1>4. QED
  BY <1>1, <1>2, <1>3 DEF RingOK, Elems

-----------------------------------------------------------------------------
(* The lemmas on rings for the capacity both rings have. *)

IsRing(q) == QueueType(batch_capacity + 1, q) /\ RingOK(q)

LEMMA Bounds ==
  ASSUME NEW q, IsRing(q)
  PROVE  /\ q.q_ecnt \in 0 .. batch_capacity
         /\ q.q_ecnt = 0 <=> Elems(q) = {}
         /\ q.q_ecnt = 0 <=> q.q_front = q.q_back
         /\ q.q_ecnt > 0 => q.q_front \in Live(q)
         /\ Live(q) \subseteq 0 .. batch_capacity
         /\ q.q_front \in 0 .. batch_capacity /\ q.q_back \in 0 .. batch_capacity
         /\ q.queue_cap = batch_capacity + 1
         /\ \A p \in 0 .. batch_capacity : next(q, p) \in 0 .. batch_capacity
<1> DEFINE cap == batch_capacity + 1
<1>1. /\ cap \in Nat \ {0} /\ QueueType(cap, q) /\ RingOK(q)
      /\ 0 .. cap - 1 = 0 .. batch_capacity
  BY Consts DEF IsRing
<1>. HIDE DEF cap
<1>2. /\ q.q_ecnt \in 0 .. cap - 1
      /\ q.q_ecnt = 0 <=> Elems(q) = {}
      /\ q.q_ecnt = 0 <=> q.q_front = q.q_back
      /\ q.q_ecnt > 0 => q.q_front \in Live(q)
      /\ Live(q) \subseteq 0 .. cap - 1
  BY <1>1, RingBounds
<1>3. /\ q.q_front \in 0 .. cap - 1 /\ q.q_back \in 0 .. cap - 1
      /\ q.queue_cap = cap
  BY <1>1, QueueFields
<1>4. \A p \in 0 .. batch_capacity : next(q, p) \in 0 .. batch_capacity
  BY <1>3, Consts DEF next, cap
<1>5. QED
  BY <1>1, <1>2, <1>3, <1>4 DEF cap

LEMMA Push ==
  ASSUME NEW q, IsRing(q), NEW b \in Batches, q.q_ecnt < batch_capacity, b \notin Elems(q)
  PROVE  LET r == push_back(q, b)
         IN  /\ IsRing(r) /\ Elems(r) = Elems(q) \union {b}
             /\ r.q_ecnt = q.q_ecnt + 1
             /\ r.q_front = q.q_front /\ r.q_back = next(q, q.q_back)
             /\ Live(r) = Live(q) \union {q.q_back}
<1> DEFINE cap == batch_capacity + 1
<1>1. /\ cap \in Nat \ {0} /\ QueueType(cap, q) /\ RingOK(q)
      /\ q.q_ecnt < cap - 1 /\ b \in Int
  BY Consts DEF IsRing
<1>2. QED
  <2>. HIDE DEF cap
  <2>1. LET r == push_back(q, b)
        IN  /\ QueueType(cap, r) /\ RingOK(r) /\ Elems(r) = Elems(q) \union {b}
            /\ r.q_ecnt = q.q_ecnt + 1
            /\ r.q_front = q.q_front /\ r.q_back = next(q, q.q_back)
            /\ Live(r) = Live(q) \union {q.q_back}
    BY <1>1, PushBack
  <2>2. QED
    BY <2>1 DEF cap, IsRing

LEMMA Pop ==
  ASSUME NEW q, IsRing(q)
  PROVE  LET r == pop_front(q)
         IN  /\ IsRing(r)
             /\ q.q_ecnt = 0 => r = q /\ front_value(q) = NoBatch
             /\ q.q_ecnt # 0 => /\ front_value(q) \in Elems(q)
                                /\ Elems(r) = Elems(q) \ {front_value(q)}
                                /\ r.q_ecnt = q.q_ecnt - 1
<1> DEFINE cap == batch_capacity + 1
<1>1. CASE q.q_ecnt = 0
  BY <1>1 DEF pop_front, front_value, empty
<1>2. CASE q.q_ecnt # 0
  <2>1. /\ cap \in Nat \ {0} /\ QueueType(cap, q) /\ RingOK(q) /\ q.q_ecnt > 0
    BY <1>2, Consts, Bounds DEF IsRing
  <2>. HIDE DEF cap
  <2>2. /\ QueueType(cap, pop_front(q)) /\ RingOK(pop_front(q))
        /\ pop_front(q).q_ecnt = q.q_ecnt - 1
        /\ front_value(q) \in Elems(q)
        /\ Elems(pop_front(q)) = Elems(q) \ {front_value(q)}
    BY <2>1, PopFront
  <2>3. QED
    BY <1>2, <2>2 DEF cap, IsRing
<1>3. QED
  BY <1>1, <1>2

LEMMA NextLive ==
  ASSUME NEW q, IsRing(q), NEW pos \in Live(q)
  PROVE  next(q, pos) \in Live(q) \union {q.q_back}
<1> DEFINE cap == batch_capacity + 1
<1>1. cap \in Nat \ {0} /\ QueueType(cap, q)
  BY Consts DEF IsRing
<1>. HIDE DEF cap
<1>2. /\ q.q_front \in 0 .. cap - 1 /\ q.q_back \in 0 .. cap - 1
      /\ Live(q) = Span(cap, q.q_front, q.q_back) /\ next(q, pos) = Succ(cap, pos)
  BY <1>1, QueueFields
<1>3. QED
  BY <1>1, <1>2, SpanNext

LEMMA Delay ==
  ASSUME NEW q, IsRing(q), NEW pos \in Live(q)
  PROVE  LET r == delay_front_and_pop(q, pos)
         IN  /\ IsRing(r) /\ Elems(r) = Elems(q) \ {q.queue[pos]}
             /\ r.q_ecnt = q.q_ecnt - 1 /\ r.q_back = q.q_back
             /\ next(q, pos) \in Live(r) \union {r.q_back}
             /\ \A p : next(r, p) = next(q, p)
<1> DEFINE cap == batch_capacity + 1
<1>1. cap \in Nat \ {0} /\ QueueType(cap, q) /\ RingOK(q)
  BY Consts DEF IsRing
<1>. HIDE DEF cap
<1>2. LET r == delay_front_and_pop(q, pos)
      IN  /\ QueueType(cap, r) /\ RingOK(r) /\ Elems(r) = Elems(q) \ {q.queue[pos]}
          /\ r.q_ecnt = q.q_ecnt - 1 /\ r.q_back = q.q_back
          /\ next(q, pos) \in Live(r) \union {r.q_back}
  BY <1>1, DelayFront
<1>3. delay_front_and_pop(q, pos).queue_cap = q.queue_cap
  BY <1>1, <1>2, QueueFields
<1>4. QED
  BY <1>2, <1>3 DEF cap, IsRing, next

-----------------------------------------------------------------------------
LEMMA RingInit == Init => RingInv
<1> SUFFICES ASSUME Init PROVE RingInv
  OBVIOUS
<1>1. /\ QueueType(batch_capacity + 1, free_queue) /\ RingOK(free_queue)
      /\ Elems(free_queue) = 1 .. batch_capacity - 1
      /\ free_queue.q_ecnt = batch_capacity - 1
  BY InitRing, RenumberedRing DEF Init
<1>2. /\ QueueType(batch_capacity + 1, buzy_queue) /\ RingOK(buzy_queue)
      /\ Elems(buzy_queue) = {} /\ buzy_queue.q_ecnt = 0
  BY InitRing DEF Init
<1>3. TypeOK
  <2>1. /\ descs \in [Batches -> [Positions -> Ops \union {Noop}]]
        /\ comps \in [Batches -> [Positions -> {NONE, SUCCESS, PAGE_FAULT}]]
        /\ bcomp \in [Batches -> {NONE, SUCCESS, BATCH_FAIL}]
    BY DEF Init, Blank
  <2>2. /\ batch_idx \in Batches \union {NoBatch}
        /\ desc_idx \in 0 .. batch_siz - 1
        /\ op_cnt \in 0 .. MaxOps /\ faults \in 0 .. MaxFaults
        /\ q_idx \in 0 .. batch_capacity /\ cur \in Batches
        /\ watch_cnt \in Nat /\ watch_limit \in Nat
    BY Consts DEF Init
  <2>3. QED
    BY <1>1, <1>2, <2>1, <2>2 DEF Init, TypeOK
<1>4. BatchesPartitioned
  BY <1>1, <1>2, Consts DEF Init, BatchesPartitioned, Current
<1>5. CountsAdd
  BY <1>1, <1>2, Consts DEF Init, CountsAdd, count
<1>6. NoCurrentNoFree /\ DeviceOwnsPending /\ CursorOK /\ FailuresCounted /\ CallOK
  BY <1>2 DEF Init, NoCurrentNoFree, DeviceOwnsPending, CursorOK, FailuresCounted,
              CallOK, InElement, InCollect
<1>7. QED
  BY <1>3, <1>4, <1>5, <1>6 DEF RingInv

-----------------------------------------------------------------------------
(* Steps that leave the rings, the memory and the device alone.            *)

\* The part of RingInv that does not mention where the client is.
Placement ==
  /\ IsRing(free_queue) /\ IsRing(buzy_queue)
  /\ batch_idx \in Batches \union {NoBatch} /\ desc_idx \in 0 .. batch_siz - 1
  /\ BatchesPartitioned /\ CountsAdd /\ DeviceOwnsPending
  /\ batch_idx = NoBatch => desc_idx = 0

MemoryType ==
  /\ descs \in [Batches -> [Positions -> Ops \union {Noop}]]
  /\ comps \in [Batches -> [Positions -> {NONE, SUCCESS, PAGE_FAULT}]]
  /\ bcomp \in [Batches -> {NONE, SUCCESS, BATCH_FAIL}]
  /\ device \in SUBSET Batches

ClientType ==
  /\ op_cnt \in 0 .. MaxOps
  /\ executed \in SUBSET Ops
  /\ faults \in 0 .. MaxFaults
  /\ pc \in {"idle", "add", "wait", "collect", "scan", "done?", "pending?", "again?", "end"}
  /\ call \in {"none", "submit", "wait", "check", "set_wq"}
  /\ ret \in BOOLEAN
  /\ q_idx \in 0 .. batch_capacity
  /\ watch_cnt \in Nat
  /\ watch_limit \in Nat
  /\ cur \in Batches
  /\ resubmitted \in BOOLEAN

LEMMA InvParts ==
  RingInv <=> /\ Placement /\ MemoryType /\ ClientType
              /\ batch_idx = NoBatch /\ ~InCollect => count(free_queue) = 0
              /\ pc = "add" => batch_idx # NoBatch
              /\ CursorOK /\ FailuresCounted /\ CallOK
BY DEF RingInv, TypeOK, Placement, MemoryType, ClientType, BatchesPartitioned, IsRing,
       NoCurrentNoFree

LEMMA InvPartsPrime ==
  RingInv' <=> /\ Placement' /\ MemoryType' /\ ClientType'
               /\ batch_idx' = NoBatch /\ ~InCollect' => count(free_queue') = 0
               /\ pc' = "add" => batch_idx' # NoBatch
               /\ CursorOK' /\ FailuresCounted' /\ CallOK'
BY DEF RingInv, TypeOK, Placement, MemoryType, ClientType, BatchesPartitioned, IsRing,
       NoCurrentNoFree

LEMMA PlacementUnchanged ==
  Placement /\ MemoryType /\ UNCHANGED <<queues, batch_idx, desc_idx, memory, device>>
    => Placement' /\ MemoryType'
BY DEF Placement, MemoryType, queues, memory, IsRing, BatchesPartitioned, Current,
       CountsAdd, DeviceOwnsPending

\* A buzy batch is a batch.
LEMMA BuzyInBatches ==
  ASSUME Placement
  PROVE  Elems(free_queue) \subseteq Batches /\ Elems(buzy_queue) \subseteq Batches
BY DEF Placement, BatchesPartitioned

\* full() in terms of the other places: the boundary submit_* relies on.
LEMMA FullMeans ==
  ASSUME Placement
  PROVE  /\ task_full <=> batch_idx = NoBatch /\ count(free_queue) = 0
         /\ count(free_queue) \in Nat
BY Bounds, Consts DEF Placement, CountsAdd, task_full, count

-----------------------------------------------------------------------------
(* One lemma per action of the client, in the order of BatchTask.          *)

LEMMA StepSubmitCall == RingInv /\ SubmitCall => RingInv'
<1> SUFFICES ASSUME RingInv, SubmitCall PROVE RingInv'
  OBVIOUS
<1>1. Placement' /\ MemoryType'
  BY InvParts, PlacementUnchanged DEF SubmitCall, filling, hardware
<1>2. /\ UNCHANGED <<queues, filling, memory, hardware, ret, locals>>
      /\ pc = "idle" /\ call' = "submit" /\ op_cnt < MaxOps
      /\ (pc' = "add" /\ ~task_full) \/ pc' = "collect"
  BY DEF SubmitCall
<1>3. ClientType'
  BY <1>2, InvParts DEF ClientType, filling, hardware, locals
<1>4. pc' = "add" => batch_idx' # NoBatch
  BY <1>2, InvParts, FullMeans DEF InCollect, InElement, filling
<1>5. CursorOK' /\ FailuresCounted' /\ CallOK'
  BY <1>2, InvParts DEF CursorOK, FailuresCounted, CallOK, InCollect, InElement, memory,
                        filling, hardware, locals
<1>6. batch_idx' = NoBatch /\ ~InCollect' => count(free_queue') = 0
  BY <1>2, <1>4 DEF InCollect
<1>7. QED
  BY <1>1, <1>3, <1>4, <1>5, <1>6, InvPartsPrime

\* submit_forward moves the current batch to the buzy ring and the device, and
\* the next free batch, if there is one, becomes the current one.
LEMMA SubmitForward ==
  ASSUME Placement, MemoryType, batch_idx # NoBatch,
         NEW d \in [Positions -> Ops \union {Noop}],
         NEW c \in [Positions -> {NONE, SUCCESS, PAGE_FAULT}],
         submit_forward(d, c)
  PROVE  /\ Placement' /\ MemoryType'
         /\ batch_idx' = NoBatch => count(free_queue') = 0
         /\ Elems(buzy_queue)' = Elems(buzy_queue) \union {batch_idx}
         /\ Elems(free_queue)' \subseteq Elems(free_queue)
         /\ batch_idx' # NoBatch => batch_idx' \in Elems(free_queue)
<1>1. /\ batch_idx \in Batches /\ batch_idx \notin Elems(buzy_queue)
      /\ batch_idx \notin Elems(free_queue)
      /\ IsRing(free_queue) /\ IsRing(buzy_queue)
      /\ free_queue.q_ecnt \in 0 .. batch_capacity
      /\ buzy_queue.q_ecnt \in 0 .. batch_capacity
      /\ free_queue.q_ecnt + buzy_queue.q_ecnt + 1 = batch_capacity
  BY Bounds DEF Placement, BatchesPartitioned, Current, CountsAdd, count
<1>2. buzy_queue.q_ecnt < batch_capacity
  BY <1>1
<1>3. /\ IsRing(buzy_queue')
      /\ Elems(buzy_queue') = Elems(buzy_queue) \union {batch_idx}
      /\ buzy_queue'.q_ecnt = buzy_queue.q_ecnt + 1
  BY <1>1, <1>2, Push DEF submit_forward
<1>4. /\ IsRing(free_queue')
      /\ free_queue.q_ecnt = 0 => /\ free_queue' = free_queue /\ batch_idx' = NoBatch
                                  /\ Elems(free_queue) = {}
      /\ free_queue.q_ecnt # 0 => /\ batch_idx' \in Elems(free_queue)
                                  /\ Elems(free_queue') = Elems(free_queue) \ {batch_idx'}
                                  /\ free_queue'.q_ecnt = free_queue.q_ecnt - 1
  BY <1>1, Pop, Bounds DEF submit_forward
<1>5. /\ desc_idx' = 0 /\ 0 \in 0 .. batch_siz - 1
      /\ batch_idx' \in Batches \union {NoBatch}
      /\ batch_idx' = NoBatch <=> free_queue.q_ecnt = 0
  BY <1>4, Consts, BuzyInBatches DEF submit_forward
<1>6. BatchesPartitioned'
  BY <1>1, <1>3, <1>4, <1>5 DEF BatchesPartitioned, Current, Placement, IsRing
<1>7. CountsAdd'
  BY <1>1, <1>3, <1>4, <1>5 DEF CountsAdd, count
<1>8. MemoryType'
  <2>1. /\ descs' = [descs EXCEPT ![batch_idx] = d] /\ comps' = [comps EXCEPT ![batch_idx] = c]
        /\ bcomp' = [bcomp EXCEPT ![batch_idx] = NONE] /\ device' = device \union {batch_idx}
    BY DEF submit_forward
  <2>2. QED
    BY <2>1, <1>1 DEF MemoryType
<1>9. DeviceOwnsPending'
  <2>1. bcomp' = [bcomp EXCEPT ![batch_idx] = NONE] /\ device' = device \union {batch_idx}
    BY DEF submit_forward
  <2>2. bcomp'[batch_idx] = NONE /\ \A b \in Batches \ {batch_idx} : bcomp'[b] = bcomp[b]
    BY <2>1, <1>1 DEF MemoryType
  <2>3. QED
    BY <2>1, <2>2, <1>1, <1>3, BuzyInBatches DEF DeviceOwnsPending, Placement
<1>10. QED
  BY <1>1, <1>3, <1>4, <1>5, <1>6, <1>7, <1>8, <1>9 DEF Placement, count

LEMMA StepAddOp == RingInv /\ AddOp => RingInv'
<1> SUFFICES ASSUME RingInv, AddOp PROVE RingInv'
  OBVIOUS
<1>0. /\ Placement /\ MemoryType /\ ClientType /\ CallOK /\ CursorOK /\ FailuresCounted
      /\ pc = "add" => batch_idx # NoBatch
  BY InvParts
<1>1. /\ pc = "add" /\ pc' = "idle" /\ ret' = TRUE /\ op_cnt' = op_cnt + 1
      /\ UNCHANGED <<executed, faults, call, locals>>
      /\ call = "submit" /\ op_cnt < MaxOps
  BY <1>0 DEF AddOp, Return, CallOK
<1>2. /\ batch_idx \in Batches /\ batch_idx # NoBatch /\ desc_idx \in Positions
      /\ ~resubmitted
  BY <1>0, <1>1, Consts DEF Placement, CursorOK, InElement, Positions
<1> DEFINE d == [descs[batch_idx] EXCEPT ![desc_idx] = op_cnt + 1]
           c == [comps[batch_idx] EXCEPT ![desc_idx] = NONE]
<1>3. /\ op_cnt + 1 \in Ops /\ op_cnt + 1 \in 0 .. MaxOps
      /\ d \in [Positions -> Ops \union {Noop}]
      /\ c \in [Positions -> {NONE, SUCCESS, PAGE_FAULT}]
  <2>1. op_cnt + 1 \in Ops /\ op_cnt + 1 \in 0 .. MaxOps
    BY <1>0, <1>1, Consts DEF ClientType, Ops
  <2>2. QED
    BY <2>1, <1>0, <1>2 DEF MemoryType
<1>4. CASE desc_idx + 1 = batch_siz
  <2>1. submit_forward(d, c)
    BY <1>1, <1>2, <1>4 DEF AddOp
  <2>. HIDE DEF d, c
  <2>2. /\ Placement' /\ MemoryType'
        /\ batch_idx' = NoBatch => count(free_queue') = 0
    BY <2>1, <1>0, <1>2, <1>3, SubmitForward
  <2>3. \A b \in Batches : bcomp'[b] = BATCH_FAIL => bcomp[b] = BATCH_FAIL
    BY <2>1, <1>0, <1>2 DEF submit_forward, MemoryType
  <2>4. ClientType' /\ CursorOK' /\ FailuresCounted' /\ CallOK'
    BY <1>0, <1>1, <1>2, <1>3, <2>3
       DEF ClientType, CursorOK, FailuresCounted, CallOK, InCollect, InElement, locals
  <2>5. QED
    BY <1>1, <2>2, <2>4, InvPartsPrime
<1>5. CASE desc_idx + 1 # batch_siz
  <2>1. /\ descs' = [descs EXCEPT ![batch_idx] = d] /\ comps' = [comps EXCEPT ![batch_idx] = c]
        /\ desc_idx' = desc_idx + 1 /\ UNCHANGED <<queues, batch_idx, bcomp, device>>
    BY <1>1, <1>2, <1>5 DEF AddOp
  <2>. HIDE DEF d, c
  <2>2. desc_idx' \in 0 .. batch_siz - 1
    BY <2>1, <1>0, <1>5, Consts DEF Placement
  <2>3. Placement'
    BY <2>1, <2>2, <1>0, <1>2
       DEF Placement, queues, IsRing, BatchesPartitioned, Current, CountsAdd, DeviceOwnsPending
  <2>4. MemoryType'
    BY <2>1, <1>0, <1>2, <1>3 DEF MemoryType
  <2>5. ClientType' /\ CursorOK' /\ FailuresCounted' /\ CallOK'
    BY <1>0, <1>1, <1>2, <1>3, <2>1
       DEF ClientType, CursorOK, FailuresCounted, CallOK, InCollect, InElement, locals
  <2>6. QED
    BY <1>1, <1>2, <2>1, <2>3, <2>4, <2>5, InvPartsPrime
<1>6. QED
  BY <1>4, <1>5

LEMMA StepCompletionCall ==
  ASSUME RingInv, NEW k \in {"wait", "check", "set_wq"}, CompletionCall(k)
  PROVE  RingInv'
<1>0. /\ Placement /\ MemoryType /\ ClientType /\ CallOK /\ CursorOK /\ FailuresCounted
      /\ batch_idx = NoBatch /\ ~InCollect => count(free_queue) = 0
  BY InvParts
<1>1. /\ pc = "idle" /\ call' = k /\ pc' = IF k = "wait" THEN "wait" ELSE "collect"
      /\ UNCHANGED <<op_cnt, executed, faults, ret, locals>>
      /\ ~resubmitted
  BY <1>0 DEF CompletionCall, CursorOK, InElement
<1>2. /\ Placement' /\ MemoryType'
      /\ \A b \in Batches : bcomp'[b] = BATCH_FAIL => bcomp[b] = BATCH_FAIL
      /\ batch_idx' = NoBatch => count(free_queue') = 0
  <2>1. CASE desc_idx = 0
    <3>1. UNCHANGED <<queues, batch_idx, desc_idx, memory, device>>
      BY <2>1 DEF CompletionCall, PadAndSubmit
    <3>2. QED
      BY <3>1, <1>0, <1>1, PlacementUnchanged DEF queues, memory, InCollect, InElement
  <2>2. CASE desc_idx # 0
    <3> DEFINE d == [i \in Positions |-> IF i < desc_idx THEN descs[batch_idx][i] ELSE Noop]
               c == [i \in Positions |-> IF i < desc_idx THEN comps[batch_idx][i] ELSE NONE]
    <3>1. submit_forward(d, c) /\ batch_idx # NoBatch /\ batch_idx \in Batches
      BY <2>2, <1>0 DEF CompletionCall, PadAndSubmit, Placement
    <3>2. /\ d \in [Positions -> Ops \union {Noop}]
          /\ c \in [Positions -> {NONE, SUCCESS, PAGE_FAULT}]
      BY <3>1, <1>0 DEF MemoryType
    <3>. HIDE DEF d, c
    <3>3. \A b \in Batches : bcomp'[b] = BATCH_FAIL => bcomp[b] = BATCH_FAIL
      BY <3>1, <1>0 DEF submit_forward, MemoryType
    <3>4. QED
      BY <3>1, <3>2, <3>3, <1>0, SubmitForward
  <2>3. QED
    BY <2>1, <2>2
<1>3. ClientType' /\ CursorOK' /\ FailuresCounted' /\ CallOK'
  BY <1>0, <1>1, <1>2
     DEF ClientType, CursorOK, FailuresCounted, CallOK, InCollect, InElement, locals
<1>4. QED
  BY <1>1, <1>2, <1>3, InvPartsPrime

LEMMA StepWaitTest == RingInv /\ WaitTest => RingInv'
<1> SUFFICES ASSUME RingInv, WaitTest PROVE RingInv'
  OBVIOUS
<1>0. /\ Placement /\ MemoryType /\ ClientType /\ CallOK /\ CursorOK /\ FailuresCounted
      /\ batch_idx = NoBatch /\ ~InCollect => count(free_queue) = 0
  BY InvParts
<1>1. /\ UNCHANGED <<queues, filling, memory, hardware, call, locals>>
      /\ pc = "wait" /\ pc' \in {"idle", "collect"} /\ ret' \in BOOLEAN
  BY <1>0 DEF WaitTest, Return, ClientType
<1>2. Placement' /\ MemoryType'
  BY <1>0, <1>1, PlacementUnchanged DEF filling, hardware
<1>3. ClientType' /\ CursorOK' /\ FailuresCounted' /\ CallOK'
  BY <1>0, <1>1 DEF ClientType, CursorOK, FailuresCounted, CallOK, InCollect, InElement,
                    filling, memory, hardware, locals
<1>4. batch_idx' = NoBatch => count(free_queue') = 0
  BY <1>0, <1>1 DEF InCollect, InElement, filling, queues
<1>5. QED
  BY <1>1, <1>2, <1>3, <1>4, InvPartsPrime

LEMMA StepClear == RingInv /\ Clear => RingInv'
<1> SUFFICES ASSUME RingInv, Clear PROVE RingInv'
  OBVIOUS
<1>0. /\ Placement /\ MemoryType /\ ClientType /\ CallOK /\ CursorOK /\ FailuresCounted
      /\ batch_idx = NoBatch /\ ~InCollect => count(free_queue) = 0
  BY InvParts
<1>1. /\ UNCHANGED <<op_cnt, memory, hardware, pc, client, locals>>
      /\ pc = "idle" /\ buzy_queue.q_ecnt = 0
      /\ free_queue' = Renumbered(free_queue) /\ buzy_queue' = clear(buzy_queue)
      /\ batch_idx' = 0 /\ desc_idx' = 0
  BY DEF Clear, task_empty, empty
<1>2. /\ IsRing(free_queue') /\ Elems(free_queue') = 1 .. batch_capacity - 1
      /\ free_queue'.q_ecnt = batch_capacity - 1
  BY <1>0, <1>1, RenumberedRing DEF Placement, IsRing
<1>3. /\ IsRing(buzy_queue') /\ Elems(buzy_queue') = {} /\ buzy_queue'.q_ecnt = 0
  BY <1>0, <1>1, ClearedRing DEF Placement, IsRing
<1>4. BatchesPartitioned' /\ CountsAdd'
  BY <1>1, <1>2, <1>3, Consts DEF BatchesPartitioned, Current, CountsAdd, count, IsRing
<1>5. device = {} /\ device' = {}
  BY <1>0, <1>1, Bounds DEF Placement, DeviceOwnsPending, hardware
<1>6. Placement'
  BY <1>1, <1>2, <1>3, <1>4, <1>5, Consts DEF Placement, DeviceOwnsPending
<1>7. MemoryType' /\ ClientType' /\ CursorOK' /\ FailuresCounted' /\ CallOK'
  BY <1>0, <1>1 DEF MemoryType, ClientType, CursorOK, FailuresCounted, CallOK, InCollect,
                    InElement, memory, hardware, client, locals
<1>8. QED
  BY <1>1, <1>6, <1>7, InvPartsPrime

LEMMA StepCollectStart == RingInv /\ CollectStart => RingInv'
<1> SUFFICES ASSUME RingInv, CollectStart PROVE RingInv'
  OBVIOUS
<1>0. /\ Placement /\ MemoryType /\ ClientType /\ CallOK /\ CursorOK /\ FailuresCounted
  BY InvParts
<1>1. /\ UNCHANGED <<queues, filling, memory, hardware, client, cur, resubmitted>>
      /\ pc = "collect" /\ pc' = "scan" /\ q_idx' = buzy_queue.q_front /\ watch_cnt' = 0
      /\ watch_limit' \in Nat
  BY Consts DEF CollectStart
<1>2. Placement' /\ MemoryType'
  BY <1>0, <1>1, PlacementUnchanged DEF filling, hardware
<1>3. /\ buzy_queue.q_front \in 0 .. batch_capacity
      /\ buzy_queue.q_front \in Live(buzy_queue) \union {buzy_queue.q_back}
  BY <1>0, Bounds DEF Placement
<1>4. CursorOK' /\ ClientType' /\ FailuresCounted' /\ CallOK'
  BY <1>0, <1>1, <1>3 DEF ClientType, CursorOK, FailuresCounted, CallOK, InCollect, InElement,
                          filling, memory, hardware, client, queues
<1>5. QED
  BY <1>1, <1>2, <1>4, InvPartsPrime DEF InCollect

LEMMA StepScanEnd == RingInv /\ ScanEnd => RingInv'
<1> SUFFICES ASSUME RingInv, ScanEnd PROVE RingInv'
  OBVIOUS
<1>0. /\ Placement /\ MemoryType /\ ClientType /\ CallOK /\ CursorOK /\ FailuresCounted
  BY InvParts
<1>1. /\ UNCHANGED <<queues, filling, memory, hardware, client, locals>>
      /\ pc = "scan" /\ pc' = "end"
  BY DEF ScanEnd
<1>2. Placement' /\ MemoryType'
  BY <1>0, <1>1, PlacementUnchanged DEF filling, hardware
<1>3. CursorOK' /\ ClientType' /\ FailuresCounted' /\ CallOK'
  BY <1>0, <1>1 DEF ClientType, CursorOK, FailuresCounted, CallOK, InCollect, InElement,
                    filling, memory, hardware, client, locals
<1>4. QED
  BY <1>1, <1>2, <1>3, InvPartsPrime DEF InCollect

\* A live position holds a batch that is buzy.
LEMMA ScanAt ==
  ASSUME Placement, CursorOK, pc = "scan", Scanning
  PROVE  /\ q_idx \in Live(buzy_queue)
         /\ buzy_queue.queue[q_idx] \in Elems(buzy_queue)
         /\ buzy_queue.queue[q_idx] \in Batches
         /\ ~resubmitted
BY BuzyInBatches DEF CursorOK, Scanning, Elems, InElement

LEMMA StepScanNoError == RingInv /\ ScanNoError => RingInv'
<1> SUFFICES ASSUME RingInv, ScanNoError PROVE RingInv'
  OBVIOUS
<1>0. /\ Placement /\ MemoryType /\ ClientType /\ CallOK /\ CursorOK /\ FailuresCounted
  BY InvParts
<1>1. /\ UNCHANGED <<queues, filling, memory, hardware, client,
                     q_idx, watch_cnt, watch_limit, resubmitted>>
      /\ pc = "scan" /\ Scanning /\ pc' = "done?" /\ cur' = buzy_queue.queue[q_idx]
  BY DEF ScanNoError
<1>2. Placement' /\ MemoryType'
  BY <1>0, <1>1, PlacementUnchanged DEF filling, hardware
<1>3. /\ q_idx \in Live(buzy_queue) /\ cur' \in Batches /\ ~resubmitted
  BY <1>0, <1>1, ScanAt
<1>4. CursorOK' /\ ClientType' /\ FailuresCounted' /\ CallOK'
  BY <1>0, <1>1, <1>3 DEF ClientType, CursorOK, FailuresCounted, CallOK, InCollect, InElement,
                          queues, filling, memory, hardware, client
<1>5. QED
  BY <1>1, <1>2, <1>4, InvPartsPrime DEF InCollect, InElement

LEMMA StepScanError == RingInv /\ ScanError => RingInv'
<1> SUFFICES ASSUME RingInv, ScanError PROVE RingInv'
  OBVIOUS
<1>0. /\ Placement /\ MemoryType /\ ClientType /\ CallOK /\ CursorOK /\ FailuresCounted
  BY InvParts
<1>1. /\ UNCHANGED <<free_queue, filling, executed, faults, client,
                     q_idx, watch_cnt, watch_limit>>
      /\ pc = "scan" /\ Scanning /\ pc' = "done?" /\ cur' = buzy_queue.queue[q_idx]
      /\ bcomp[cur'] > SUCCESS /\ resubmitted' = TRUE
      /\ buzy_queue' = push_back(delay_front_and_pop(buzy_queue, q_idx), cur')
      /\ resolve_error(cur')
      /\ bcomp' = [bcomp EXCEPT ![cur'] = NONE] /\ device' = device \union {cur'}
  BY DEF ScanError
<1>2. /\ q_idx \in Live(buzy_queue) /\ cur' \in Elems(buzy_queue) /\ cur' \in Batches
      /\ IsRing(buzy_queue)
  BY <1>0, <1>1, ScanAt DEF Placement
<1>3. bcomp[cur'] = BATCH_FAIL /\ faults > 0
  BY <1>0, <1>1, <1>2 DEF MemoryType, FailuresCounted
<1> DEFINE m == delay_front_and_pop(buzy_queue, q_idx)
<1>4. /\ IsRing(m) /\ Elems(m) = Elems(buzy_queue) \ {cur'}
      /\ m.q_ecnt = buzy_queue.q_ecnt - 1 /\ m.q_back = buzy_queue.q_back
      /\ next(buzy_queue, q_idx) \in Live(m) \union {m.q_back}
      /\ \A p : next(m, p) = next(buzy_queue, p)
  BY <1>1, <1>2, Delay
<1>. HIDE DEF m
<1>5. m.q_ecnt < batch_capacity /\ cur' \notin Elems(m) /\ m.q_ecnt \in Int
  <2>1. buzy_queue.q_ecnt \in 0 .. batch_capacity
    BY <1>2, Bounds
  <2>2. QED
    BY <2>1, <1>4, Consts
<1>6. /\ IsRing(buzy_queue') /\ Elems(buzy_queue') = Elems(buzy_queue)
      /\ buzy_queue'.q_ecnt = buzy_queue.q_ecnt
      /\ next(buzy_queue, q_idx) \in Live(buzy_queue')
  <2>1. /\ IsRing(buzy_queue') /\ Elems(buzy_queue') = Elems(m) \union {cur'}
        /\ buzy_queue'.q_ecnt = m.q_ecnt + 1
        /\ Live(buzy_queue') = Live(m) \union {m.q_back}
    BY <1>1, <1>2, <1>4, <1>5, Push DEF m
  <2>2. buzy_queue.q_ecnt \in Int
    BY <1>2, Bounds
  <2>3. QED
    BY <2>1, <2>2, <1>2, <1>4
<1>7. \A p : next(buzy_queue', p) = next(buzy_queue, p)
  BY <1>2, <1>6, Bounds DEF next
<1>8. MemoryType'
  <2>1. /\ descs' = [descs EXCEPT ![cur'] = [i \in Positions |->
                       ResolvedDesc(descs[cur'][i], comps[cur'][i])]]
        /\ comps' = [comps EXCEPT ![cur'] = [i \in Positions |->
                       ResolvedComp(descs[cur'][i], comps[cur'][i])]]
    BY <1>0, <1>1, <1>2 DEF resolve_error, MemoryType
  <2>2. \A i \in Positions :
          /\ ResolvedDesc(descs[cur'][i], comps[cur'][i]) \in Ops \union {Noop}
          /\ ResolvedComp(descs[cur'][i], comps[cur'][i]) \in {NONE, SUCCESS, PAGE_FAULT}
    BY <1>0, <1>2 DEF MemoryType, ResolvedDesc, ResolvedComp
  <2>3. QED
    BY <2>1, <2>2, <1>0, <1>1, <1>2 DEF MemoryType
<1>9. DeviceOwnsPending'
  <2>1. bcomp'[cur'] = NONE /\ \A b \in Batches \ {cur'} : bcomp'[b] = bcomp[b]
    BY <1>0, <1>1, <1>2 DEF MemoryType
  <2>2. QED
    BY <2>1, <1>0, <1>1, <1>2, <1>6, BuzyInBatches DEF DeviceOwnsPending, Placement
<1>10. Placement'
  BY <1>0, <1>1, <1>6, <1>9
     DEF Placement, BatchesPartitioned, CountsAdd, count, Current, filling, IsRing
<1>11. CursorOK' /\ ClientType' /\ FailuresCounted' /\ CallOK'
  BY <1>0, <1>1, <1>2, <1>3, <1>6, <1>7
     DEF ClientType, CursorOK, FailuresCounted, CallOK, InCollect, InElement, filling, client
<1>12. QED
  BY <1>1, <1>8, <1>10, <1>11, InvPartsPrime DEF InCollect, InElement

\* The element collect() stands on, when it was found without an error, may be
\* recycled; when it was submitted again, its status is NONE and stays so.
LEMMA AtElement ==
  ASSUME RingInv, InElement
  PROVE  /\ ~resubmitted => /\ q_idx \in Live(buzy_queue) /\ buzy_queue.queue[q_idx] = cur
                            /\ cur \in Elems(buzy_queue)
         /\ resubmitted => bcomp[cur] = NONE
         /\ next(buzy_queue, q_idx) \in 0 .. batch_capacity
<1>0. Placement /\ ClientType /\ CursorOK
  BY InvParts
<1>1. next(buzy_queue, q_idx) \in 0 .. batch_capacity
  BY <1>0, Bounds DEF Placement, ClientType
<1>2. resubmitted => bcomp[cur] = NONE
  BY <1>0 DEF CursorOK, Placement, DeviceOwnsPending
<1>3. ~resubmitted => q_idx \in Live(buzy_queue) /\ buzy_queue.queue[q_idx] = cur
  BY <1>0 DEF CursorOK
<1>4. QED
  BY <1>1, <1>2, <1>3 DEF Elems

\* Recycling, common to lines 461 and 477.
LEMMA RecycleStep ==
  ASSUME RingInv, InElement, bcomp[cur] = SUCCESS, Recycle, Advance, watch_limit' \in Nat,
         UNCHANGED <<filling, memory, hardware, client, cur>>
  PROVE  RingInv' /\ Elems(buzy_queue)' = Elems(buzy_queue) \ {cur}
<1>0. /\ Placement /\ MemoryType /\ ClientType /\ CallOK /\ CursorOK /\ FailuresCounted
  BY InvParts
<1>1. /\ free_queue' = push_back(free_queue, cur)
      /\ buzy_queue' = delay_front_and_pop(buzy_queue, q_idx)
      /\ q_idx' = next(buzy_queue, q_idx) /\ watch_cnt' = watch_cnt + 1
      /\ resubmitted' = FALSE /\ pc' = "scan"
  BY DEF Recycle, Advance
<1>2. /\ q_idx \in Live(buzy_queue) /\ buzy_queue.queue[q_idx] = cur /\ ~resubmitted
      /\ cur \in Elems(buzy_queue) /\ cur \in Batches
      /\ next(buzy_queue, q_idx) \in 0 .. batch_capacity
  BY <1>0, AtElement DEF ClientType
<1>3. /\ IsRing(buzy_queue') /\ Elems(buzy_queue') = Elems(buzy_queue) \ {cur}
      /\ buzy_queue'.q_ecnt = buzy_queue.q_ecnt - 1
      /\ next(buzy_queue, q_idx) \in Live(buzy_queue') \union {buzy_queue'.q_back}
  BY <1>0, <1>1, <1>2, Delay DEF Placement
<1>4. cur \notin Elems(free_queue) /\ cur # batch_idx
  BY <1>0, <1>2 DEF Placement, BatchesPartitioned, Current
<1>5. /\ free_queue.q_ecnt \in 0 .. batch_capacity /\ buzy_queue.q_ecnt \in 0 .. batch_capacity
      /\ buzy_queue.q_ecnt # 0
  BY <1>0, <1>2, Bounds DEF Placement
<1>6. free_queue.q_ecnt < batch_capacity
  BY <1>0, <1>5, Consts DEF Placement, CountsAdd, count
<1>7. /\ IsRing(free_queue') /\ Elems(free_queue') = Elems(free_queue) \union {cur}
      /\ free_queue'.q_ecnt = free_queue.q_ecnt + 1
  BY <1>0, <1>1, <1>2, <1>4, <1>6, Push DEF Placement
<1>8. BatchesPartitioned'
  BY <1>0, <1>2, <1>3, <1>4, <1>7 DEF Placement, BatchesPartitioned, Current, filling, IsRing
<1>9. CountsAdd'
  BY <1>0, <1>3, <1>5, <1>7 DEF Placement, CountsAdd, count, filling
<1>10. DeviceOwnsPending'
  BY <1>0, <1>2, <1>3 DEF Placement, DeviceOwnsPending, memory, hardware
<1>11. Placement' /\ MemoryType'
  BY <1>0, <1>3, <1>7, <1>8, <1>9, <1>10 DEF Placement, MemoryType, filling, memory, hardware
<1>12. CursorOK' /\ ClientType' /\ FailuresCounted' /\ CallOK'
  <2>1. ClientType'
    <3>1. watch_cnt' \in Nat /\ q_idx' \in 0 .. batch_capacity
      BY <1>0, <1>1, <1>2 DEF ClientType
    <3>2. QED
      BY <3>1, <1>0, <1>1 DEF ClientType, filling, hardware, client
  <2>2. CursorOK'
    BY <1>1, <1>3 DEF CursorOK, InElement
  <2>3. FailuresCounted' /\ CallOK'
    BY <1>0, <1>1, <1>2 DEF FailuresCounted, CallOK, InCollect, InElement, filling, memory,
                            hardware, client
  <2>4. QED
    BY <2>1, <2>2, <2>3
<1>13. QED
  BY <1>1, <1>3, <1>11, <1>12, InvPartsPrime DEF InCollect

LEMMA StepDoneYes == RingInv /\ DoneYes => RingInv'
<1> SUFFICES ASSUME RingInv, DoneYes PROVE RingInv'
  OBVIOUS
<1>1. watch_limit + 1 \in Nat
  BY InvParts DEF ClientType
<1>2. QED
  BY <1>1, RecycleStep DEF DoneYes, InElement

LEMMA StepAgainYes == RingInv /\ AgainYes => RingInv'
<1> SUFFICES ASSUME RingInv, AgainYes PROVE RingInv'
  OBVIOUS
<1>1. watch_limit \in Nat
  BY InvParts DEF ClientType
<1>2. QED
  BY <1>1, RecycleStep DEF AgainYes, InElement

\* Going on to the next element without recycling this one.
LEMMA SkipStep ==
  ASSUME RingInv, InElement, Advance,
         UNCHANGED <<queues, filling, memory, hardware, client, watch_limit, cur>>
  PROVE  RingInv'
<1>0. /\ Placement /\ MemoryType /\ ClientType /\ CallOK /\ CursorOK /\ FailuresCounted
  BY InvParts
<1>1. /\ q_idx' = next(buzy_queue, q_idx) /\ watch_cnt' = watch_cnt + 1
      /\ resubmitted' = FALSE /\ pc' = "scan"
  BY DEF Advance
<1>2. Placement' /\ MemoryType'
  BY <1>0, PlacementUnchanged DEF filling, hardware
<1>3. /\ next(buzy_queue, q_idx) \in 0 .. batch_capacity
      /\ next(buzy_queue, q_idx) \in Live(buzy_queue) \union {buzy_queue.q_back}
  <2>1. CASE resubmitted
    BY <2>1, <1>0, AtElement DEF CursorOK
  <2>2. CASE ~resubmitted
    BY <2>2, <1>0, AtElement, NextLive DEF Placement
  <2>3. QED
    BY <2>1, <2>2
<1>4. CursorOK' /\ ClientType' /\ FailuresCounted' /\ CallOK'
  <2>1. ClientType'
    <3>1. watch_cnt' \in Nat /\ q_idx' \in 0 .. batch_capacity
      BY <1>0, <1>1, <1>3 DEF ClientType
    <3>2. QED
      BY <3>1, <1>0, <1>1 DEF ClientType, filling, hardware, client
  <2>2. CursorOK'
    BY <1>1, <1>3 DEF CursorOK, InElement, queues
  <2>3. FailuresCounted' /\ CallOK'
    BY <1>0, <1>1 DEF FailuresCounted, CallOK, InCollect, InElement, filling, memory,
                      hardware, client
  <2>4. QED
    BY <2>1, <2>2, <2>3
<1>5. QED
  BY <1>1, <1>2, <1>4, InvPartsPrime DEF InCollect

LEMMA StepSkip == RingInv /\ (PendingNo \/ AgainNo) => RingInv'
BY SkipStep DEF PendingNo, AgainNo, InElement

LEMMA StepDoneNo == RingInv /\ DoneNo => RingInv'
<1> SUFFICES ASSUME RingInv, DoneNo PROVE RingInv'
  OBVIOUS
<1>0. /\ Placement /\ MemoryType /\ ClientType /\ CallOK /\ CursorOK /\ FailuresCounted
  BY InvParts
<1>1. /\ UNCHANGED <<queues, filling, memory, hardware, client, locals>>
      /\ pc = "done?" /\ pc' = "pending?"
  BY DEF DoneNo
<1>2. Placement' /\ MemoryType'
  BY <1>0, <1>1, PlacementUnchanged DEF filling, hardware
<1>3. CursorOK' /\ ClientType' /\ FailuresCounted' /\ CallOK'
  BY <1>0, <1>1 DEF ClientType, CursorOK, FailuresCounted, CallOK, InCollect, InElement,
                    queues, filling, memory, hardware, client, locals
<1>4. QED
  BY <1>1, <1>2, <1>3, InvPartsPrime DEF InCollect, InElement

LEMMA StepPendingYes == RingInv /\ PendingYes => RingInv'
<1> SUFFICES ASSUME RingInv, PendingYes PROVE RingInv'
  OBVIOUS
<1>0. /\ Placement /\ MemoryType /\ ClientType /\ CallOK /\ CursorOK /\ FailuresCounted
  BY InvParts
<1>1. /\ UNCHANGED <<queues, filling, memory, hardware, client,
                     q_idx, watch_cnt, watch_limit, cur>>
      /\ pc = "pending?" /\ pc' = IF OutOfOrder THEN "again?" ELSE "end"
      /\ resubmitted' = (OutOfOrder /\ resubmitted) /\ resubmitted' \in BOOLEAN
  BY DEF PendingYes
<1>2. Placement' /\ MemoryType'
  BY <1>0, <1>1, PlacementUnchanged DEF filling, hardware
<1>3. ClientType' /\ FailuresCounted' /\ CallOK'
  BY <1>0, <1>1 DEF ClientType, FailuresCounted, CallOK, InCollect, InElement,
                    queues, filling, memory, hardware, client
<1>4. CursorOK'
  <2>1. CASE OutOfOrder
    BY <2>1, <1>0, <1>1 DEF ClientType, CursorOK, InElement, queues, hardware
  <2>2. CASE ~OutOfOrder
    BY <2>2, <1>0, <1>1 DEF ClientType, CursorOK, InElement
  <2>3. QED
    BY <2>1, <2>2
<1>5. QED
  BY <1>1, <1>2, <1>3, <1>4, InvPartsPrime DEF InCollect, InElement

\* The end of collect(): a current batch exists again unless all are buzy.
LEMMA StepCollectEnd == RingInv /\ CollectEnd => RingInv'
<1> SUFFICES ASSUME RingInv, CollectEnd PROVE RingInv'
  OBVIOUS
<1>0. /\ Placement /\ MemoryType /\ ClientType /\ CallOK /\ CursorOK /\ FailuresCounted
  BY InvParts
<1>1. /\ pc = "end" /\ UNCHANGED <<buzy_queue, desc_idx, op_cnt, hardware, call>>
      /\ q_idx' = 0 /\ watch_cnt' = 0 /\ watch_limit' = 0 /\ cur' = 0 /\ resubmitted' = FALSE
      /\ IF batch_idx = NoBatch /\ ~task_full
           THEN batch_idx' = front_value(free_queue) /\ free_queue' = pop_front(free_queue)
           ELSE UNCHANGED <<batch_idx, free_queue>>
  BY DEF CollectEnd
<1>2. call \in {"submit", "wait", "check", "set_wq"}
  BY <1>0, <1>1 DEF CallOK, InCollect
<1>3. /\ pc' \in {"add", "collect", "wait", "idle"} /\ ret' \in BOOLEAN
      /\ pc' = "add" => batch_idx' # NoBatch
      /\ pc' \in {"add", "collect"} => call = "submit"
      /\ pc' = "wait" => call = "wait"
      /\ UNCHANGED memory \/ /\ task_empty
                             /\ descs' = Blank(Noop) /\ comps' = Blank(NONE)
                             /\ bcomp' = [b \in Batches |-> NONE]
  <2>1. CASE call = "submit"
    BY <2>1, <1>0 DEF CollectEnd, ClientType
  <2>2. CASE call = "wait"
    BY <2>2, <1>0 DEF CollectEnd, ClientType
  <2>3. CASE call = "check"
    BY <2>3 DEF CollectEnd, Return, task_empty, empty
  <2>4. CASE call = "set_wq"
    BY <2>4 DEF CollectEnd, Return, task_empty, empty
  <2>5. QED
    BY <1>2, <2>1, <2>2, <2>3, <2>4
<1>4. /\ IsRing(free_queue')
      /\ batch_idx' \in Batches \union {NoBatch}
      /\ BatchesPartitioned' /\ CountsAdd'
      /\ batch_idx' = NoBatch => desc_idx = 0 /\ count(free_queue') = 0
  <2>1. CASE batch_idx = NoBatch /\ ~task_full
    <3>1. free_queue.q_ecnt # 0
      BY <2>1, <1>0, FullMeans DEF count
    <3>2. /\ IsRing(free_queue') /\ batch_idx' \in Elems(free_queue)
          /\ Elems(free_queue') = Elems(free_queue) \ {batch_idx'}
          /\ free_queue'.q_ecnt = free_queue.q_ecnt - 1
      BY <2>1, <3>1, <1>0, <1>1, Pop DEF Placement
    <3>3. batch_idx' \in Batches
      BY <3>2, <1>0, BuzyInBatches
    <3>4. BatchesPartitioned'
      BY <2>1, <3>2, <3>3, <1>0, <1>1
         DEF Placement, BatchesPartitioned, Current, IsRing
    <3>5. CountsAdd'
      <4>1. free_queue.q_ecnt \in Int /\ buzy_queue.q_ecnt \in Int
        BY <1>0, Bounds DEF Placement
      <4>2. QED
        BY <4>1, <2>1, <3>2, <3>3, <1>0, <1>1 DEF Placement, CountsAdd, count
    <3>6. QED
      BY <3>2, <3>3, <3>4, <3>5
  <2>2. CASE ~(batch_idx = NoBatch /\ ~task_full)
    <3>1. UNCHANGED <<batch_idx, free_queue>>
      BY <2>2, <1>1
    <3>2. batch_idx = NoBatch => desc_idx = 0 /\ count(free_queue) = 0
      BY <2>2, <1>0, FullMeans DEF Placement
    <3>3. QED
      BY <3>1, <3>2, <1>0, <1>1
         DEF Placement, BatchesPartitioned, Current, CountsAdd, count
  <2>3. QED
    BY <2>1, <2>2
<1>5. MemoryType' /\ DeviceOwnsPending' /\ FailuresCounted'
  <2>1. CASE UNCHANGED memory
    BY <2>1, <1>0, <1>1
       DEF MemoryType, DeviceOwnsPending, FailuresCounted, Placement, memory, hardware
  <2>2. CASE /\ task_empty
             /\ descs' = Blank(Noop) /\ comps' = Blank(NONE)
             /\ bcomp' = [b \in Batches |-> NONE]
    <3>1. MemoryType' /\ FailuresCounted'
      BY <2>2, <1>0, <1>1 DEF MemoryType, FailuresCounted, Blank, hardware
    <3>2. Elems(buzy_queue) = {}
      BY <2>2, <1>0, Bounds DEF task_empty, empty, Placement
    <3>3. QED
      BY <3>1, <3>2, <1>0, <1>1 DEF DeviceOwnsPending, Placement, hardware
  <2>3. QED
    BY <1>3, <2>1, <2>2
<1>6. Placement'
  BY <1>0, <1>1, <1>4, <1>5 DEF Placement
<1>7. ClientType' /\ CursorOK' /\ CallOK'
  <2>1. ClientType'
    <3>1. cur' \in Batches /\ q_idx' \in 0 .. batch_capacity
      BY <1>1, Consts
    <3>2. QED
      BY <3>1, <1>0, <1>1, <1>3 DEF ClientType, hardware
  <2>2. CursorOK'
    BY <1>1, <1>3 DEF CursorOK, InElement
  <2>3. CallOK'
    BY <1>0, <1>1, <1>2, <1>3 DEF CallOK, InCollect, InElement
  <2>4. QED
    BY <2>1, <2>2, <2>3
<1>8. QED
  BY <1>3, <1>4, <1>5, <1>6, <1>7, InvPartsPrime

-----------------------------------------------------------------------------
(* The device.  This is the only place where the assumption on retries is  *)
(* needed: the batch under collect()'s cursor, if it was submitted again,  *)
(* does not change hands.                                                  *)

LEMMA RetryOutlives ==
  ASSUME RingInv, NoOvertaking, NEW b \in Batches, DeviceMayFinish(b)
  PROVE  resubmitted => b # cur
<1>1. resubmitted => MaxFaults # 0
  BY InvParts, Consts DEF FailuresCounted, ClientType
<1>2. QED
  BY <1>1 DEF NoOvertaking, DeviceMayFinish

LEMMA StepDevice ==
  ASSUME RingInv, NoOvertaking, NEW b \in Batches, DeviceStep(b)
  PROVE  RingInv'
<1>0. /\ Placement /\ MemoryType /\ ClientType /\ CallOK /\ CursorOK /\ FailuresCounted
      /\ batch_idx = NoBatch /\ ~InCollect => count(free_queue) = 0
      /\ pc = "add" => batch_idx # NoBatch
  BY InvParts
<1>1. /\ DeviceMayFinish(b) /\ b \in device
      /\ UNCHANGED <<queues, filling, descs, pc, client, locals>>
      /\ device' = device \ {b}
  BY DEF DeviceStep, BatchSucceeds, BatchFails, DeviceMayFinish
<1>2. /\ comps' \in [Batches -> [Positions -> {NONE, SUCCESS, PAGE_FAULT}]]
      /\ executed' \in SUBSET Ops
      /\ faults' \in 0 .. MaxFaults
      /\ \/ bcomp' = [bcomp EXCEPT ![b] = SUCCESS] /\ faults' = faults
         \/ bcomp' = [bcomp EXCEPT ![b] = BATCH_FAIL] /\ faults' > 0
  <2>1. CASE BatchSucceeds(b)
    BY <2>1, <1>0 DEF BatchSucceeds, MemoryType, ClientType, OpsDone
  <2>2. CASE BatchFails(b)
    <3>1. PICK s \in [Positions -> {NONE, SUCCESS, PAGE_FAULT}] :
             /\ comps' = [comps EXCEPT ![b] =
                            [i \in Positions |-> IF s[i] = NONE THEN @[i] ELSE s[i]]]
             /\ executed' = executed \union OpsDone(b, s)
      BY <2>2 DEF BatchFails
    <3>2. comps' \in [Batches -> [Positions -> {NONE, SUCCESS, PAGE_FAULT}]]
      BY <3>1, <1>0 DEF MemoryType
    <3>3. executed' \in SUBSET Ops
      BY <3>1, <1>0 DEF MemoryType, ClientType, OpsDone
    <3>4. faults' \in 0 .. MaxFaults /\ faults' > 0
      <4>1. faults < MaxFaults /\ faults' = faults + 1
        BY <2>2 DEF BatchFails
      <4>2. faults \in 0 .. MaxFaults
        BY <1>0 DEF ClientType
      <4>3. QED
        BY <4>1, <4>2, Consts
    <3>5. QED
      BY <2>2, <3>2, <3>3, <3>4 DEF BatchFails
  <2>3. QED
    BY <2>1, <2>2 DEF DeviceStep
<1>3. /\ bcomp' \in [Batches -> {NONE, SUCCESS, BATCH_FAIL}]
      /\ bcomp'[b] # NONE /\ \A x \in Batches \ {b} : bcomp'[x] = bcomp[x]
  <2>1. bcomp \in [Batches -> {NONE, SUCCESS, BATCH_FAIL}]
    BY <1>0 DEF MemoryType
  <2>2. CASE bcomp' = [bcomp EXCEPT ![b] = SUCCESS]
    BY <2>1, <2>2
  <2>3. CASE bcomp' = [bcomp EXCEPT ![b] = BATCH_FAIL]
    BY <2>1, <2>3
  <2>4. QED
    BY <1>2, <2>2, <2>3
<1>4. MemoryType'
  BY <1>0, <1>1, <1>2, <1>3 DEF MemoryType
<1>5. DeviceOwnsPending'
  BY <1>0, <1>1, <1>3, BuzyInBatches DEF DeviceOwnsPending, Placement, queues
<1>6. Placement'
  BY <1>0, <1>1, <1>5
     DEF Placement, BatchesPartitioned, Current, CountsAdd, queues, filling, IsRing
<1>7. CursorOK'
  BY <1>0, <1>1, RetryOutlives DEF CursorOK, InElement, queues, locals
<1>8. FailuresCounted'
  BY <1>0, <1>1, <1>2, <1>3 DEF FailuresCounted, locals, MemoryType
<1>9. ClientType' /\ CallOK'
  BY <1>0, <1>1, <1>2 DEF ClientType, CallOK, InCollect, InElement, filling, client, locals
<1>10. QED
  BY <1>0, <1>1, <1>4, <1>6, <1>7, <1>8, <1>9, InvPartsPrime
     DEF InCollect, InElement, queues, filling

LEMMA RingStutter == RingInv /\ UNCHANGED vars => RingInv'
BY DEF RingInv, TypeOK, BatchesPartitioned, Current, CountsAdd, NoCurrentNoFree,
       DeviceOwnsPending, CursorOK, FailuresCounted, CallOK, InCollect, InElement,
       vars, queues, filling, memory, hardware, client, locals

LEMMA RingStep == NoOvertaking /\ RingInv /\ [Next]_vars => RingInv'
<1> SUFFICES ASSUME NoOvertaking, RingInv, [Next]_vars PROVE RingInv'
  OBVIOUS
<1>1. CASE Calls
  BY <1>1, StepSubmitCall, StepCompletionCall, StepClear DEF Calls
<1>2. CASE ClientStep
  BY <1>2, StepAddOp, StepWaitTest, StepCollectStart, StepScanEnd, StepScanNoError,
     StepScanError, StepDoneYes, StepDoneNo, StepPendingYes, StepSkip, StepAgainYes,
     StepCollectEnd DEF ClientStep
<1>3. CASE \E b \in Batches : DeviceStep(b)
  BY <1>3, StepDevice
<1>4. CASE UNCHANGED vars
  BY <1>4, RingStutter
<1>5. QED
  BY <1>1, <1>2, <1>3, <1>4 DEF Next

-----------------------------------------------------------------------------
\* The ring layer of the invariant: collect() recycles, re-queues and skips
\* batches in any order the completions allow, and the rings, the current batch
\* and the device agree throughout, as long as no retry overtakes collect().
THEOREM RingCorrect == ASSUME NoOvertaking PROVE Spec => []RingInv
<1>1. Init => RingInv
  BY RingInit
<1>2. RingInv /\ [Next]_vars => RingInv'
  BY RingStep
<1>3. QED
  BY <1>1, <1>2, PTL DEF Spec

\* Type correctness of DSAbatch_task's state.
THEOREM TypeCorrect == ASSUME NoOvertaking PROVE Spec => []TypeOK
<1>1. RingInv => TypeOK
  BY DEF RingInv
<1>2. QED
  BY <1>1, RingCorrect, PTL

\* No batch is lost by collect() or put in two places: each is the current one,
\* in free_queue or in buzy_queue, once.
THEOREM Partition == ASSUME NoOvertaking PROVE Spec => []BatchesPartitioned
<1>1. RingInv => BatchesPartitioned
  BY DEF RingInv
<1>2. QED
  BY <1>1, RingCorrect, PTL

\* The guards of submit_* and add_op agree: no operation is dropped.
THEOREM NeverDropped == ASSUME NoOvertaking PROVE Spec => []NoOpDropped
<1>1. RingInv => NoOpDropped
  BY InvParts, FullMeans DEF NoOpDropped, InCollect, InElement
<1>2. QED
  BY <1>1, RingCorrect, PTL

-----------------------------------------------------------------------------
\* The operation layer OpInv of the inductive invariant, what it says of wait()
\* and check(), and that the engine implements BatchService.

LEMMA Parts ==
  ASSUME RingInv
  PROVE  /\ Placement /\ MemoryType /\ ClientType /\ CallOK /\ CursorOK
         /\ batch_idx = NoBatch /\ ~InCollect => count(free_queue) = 0
         /\ pc = "add" => batch_idx # NoBatch
         /\ Elems(buzy_queue) \subseteq Batches /\ device \subseteq Elems(buzy_queue)
         /\ batch_idx # NoBatch => batch_idx \in Batches /\ batch_idx \notin Elems(buzy_queue)
  BY InvParts, BuzyInBatches DEF Placement, BatchesPartitioned, Current, DeviceOwnsPending

\* Operations are executed, or wait in the descriptors they waited in before.
SameWork ==
  /\ UNCHANGED <<op_cnt, executed>>
  /\ \A b \in Batches, i \in Positions : ToRun(b, i)' <=> ToRun(b, i)
  /\ \A b \in Batches, i \in Positions : ToRun(b, i) => descs'[b][i] = descs[b][i]

LEMMA WorkKept == Accounted /\ RunOnce /\ SameWork => Accounted' /\ RunOnce'
<1> SUFFICES ASSUME Accounted, RunOnce, SameWork PROVE Accounted' /\ RunOnce'
  OBVIOUS
<1>1. Accounted'
  BY DEF Accounted, SameWork
<1>2. RunOnce'
  BY DEF RunOnce, SameWork
<1> QED
  BY <1>1, <1>2

\* Steps that change neither the rings, nor the memory, nor the device.
LEMMA QuietKeeps ==
  ASSUME RecordsTrue, UNCHANGED <<queues, filling, memory, hardware>>
  PROVE  SameWork /\ RecordsTrue'
<1>1. UNCHANGED <<buzy_queue, batch_idx, desc_idx, op_cnt, descs, comps, bcomp, device, executed>>
  BY DEF queues, filling, memory, hardware
<1>2. \A b \in Batches, i \in Positions : ToRun(b, i)' <=> ToRun(b, i)
  BY <1>1 DEF ToRun
<1>3. SameWork
  BY <1>1, <1>2 DEF SameWork
<1>4. RecordsTrue'
  BY <1>1 DEF RecordsTrue
<1> QED
  BY <1>3, <1>4

LEMMA QuietStep ==
  ASSUME OpInv, UNCHANGED <<queues, filling, memory, hardware>>
  PROVE  Accounted' /\ RunOnce' /\ RecordsTrue'
  BY QuietKeeps, WorkKept DEF OpInv

\* With no partly filled and no buzy batch no descriptor is left to run.
LEMMA EmptyMeansIdle ==
  ASSUME RingInv, task_empty
  PROVE  /\ Elems(buzy_queue) = {} /\ device = {} /\ desc_idx = 0
         /\ \A b \in Batches, i \in Positions : ~ToRun(b, i)
<1>1. Elems(buzy_queue) = {} /\ device = {}
  BY Parts, Bounds DEF Placement, task_empty, empty
<1>2. desc_idx = 0
  BY DEF task_empty
<1>3. \A b \in Batches, i \in Positions : ~ToRun(b, i)
  BY <1>1, <1>2, Consts DEF ToRun, Positions
<1> QED
  BY <1>1, <1>2, <1>3

LEMMA EmptyMeansDone ==
  ASSUME RingInv, Accounted, RunOnce, task_empty
  PROVE  AllDone
  BY EmptyMeansIdle DEF AllDone, Accounted, RunOnce

-----------------------------------------------------------------------------
LEMMA OpInit == Init => OpInv
<1> SUFFICES ASSUME Init PROVE OpInv
  OBVIOUS
<1>1. Elems(buzy_queue) = {}
  BY InitRing DEF Init
<1>2. \A b \in Batches, i \in Positions : ~ToRun(b, i)
  BY DEF Init, ToRun, Blank
<1> QED
  BY <1>1, <1>2, Consts DEF Init, OpInv, Accounted, RunOnce, RecordsTrue, NothingPartial, DoneMeansDone, Positions

\* The client inside a call, or entering one, with nothing else changed.
LEMMA OpQuiet ==
  ASSUME RingInv, OpInv,
         \/ SubmitCall \/ WaitTest \/ CollectStart \/ ScanEnd \/ ScanNoError
         \/ DoneNo \/ PendingYes \/ PendingNo \/ AgainNo
  PROVE  OpInv'
<1>1. UNCHANGED <<queues, filling, memory, hardware>>
  BY DEF SubmitCall, WaitTest, CollectStart, ScanEnd, ScanNoError, DoneNo, PendingYes, PendingNo, AgainNo
<1>2. Accounted' /\ RunOnce' /\ RecordsTrue'
  BY <1>1, QuietStep
<1>3. CASE SubmitCall
  <2>1. NothingPartial' /\ DoneMeansDone'
    BY <1>3 DEF SubmitCall, NothingPartial, DoneMeansDone
  <2> QED
    BY <1>2, <2>1 DEF OpInv
<1>4. CASE WaitTest
  <2>1. NothingPartial'
    BY <1>1, <1>4 DEF WaitTest, OpInv, NothingPartial, filling
  <2>2. call = "wait" /\ desc_idx = 0
    BY <1>4, Parts DEF WaitTest, CallOK, OpInv, NothingPartial
  <2>3. DoneMeansDone'
    <3>1. CASE empty(buzy_queue)
      BY <1>1, <2>2, <3>1, EmptyMeansDone
         DEF DoneMeansDone, OpInv, task_empty, AllDone, filling, hardware
    <3>2. CASE ~empty(buzy_queue)
      BY <1>4, <3>2 DEF WaitTest, DoneMeansDone
    <3> QED
      BY <3>1, <3>2
  <2> QED
    BY <1>2, <2>1, <2>3 DEF OpInv
<1>5. CASE ~SubmitCall /\ ~WaitTest
  <2>1. call' = call /\ pc' # "idle"
    BY <1>5 DEF CollectStart, ScanEnd, ScanNoError, DoneNo, PendingYes, PendingNo, AgainNo, client, Advance
  <2>2. NothingPartial' /\ DoneMeansDone'
    BY <1>1, <2>1 DEF OpInv, NothingPartial, DoneMeansDone, filling
  <2> QED
    BY <1>2, <2>2 DEF OpInv
<1> QED
  BY <1>3, <1>4, <1>5

-----------------------------------------------------------------------------
\* Submitting the current batch with descriptors d and clear records c puts the
\* operations of d to work and leaves the other batches as they are.
LEMMA ForwardWork ==
  ASSUME RingInv, RecordsTrue, NEW b0 \in Batches, b0 = batch_idx,
         NEW d \in [Positions -> Ops \union {Noop}],
         NEW c \in [Positions -> {NONE, SUCCESS, PAGE_FAULT}],
         \A i \in Positions : c[i] = SUCCESS => d[i] = Noop,
         submit_forward(d, c), executed' = executed
  PROVE  /\ descs'[b0] = d /\ \A b \in Batches \ {b0} : descs'[b] = descs[b]
         /\ \A i \in Positions : ToRun(b0, i)' <=> d[i] # Noop
         /\ \A b \in Batches \ {b0}, i \in Positions : ToRun(b, i)' <=> ToRun(b, i)
         /\ RecordsTrue'
         /\ desc_idx' = 0
<1>0. /\ Placement /\ MemoryType /\ batch_idx # NoBatch /\ b0 \notin Elems(buzy_queue)
      /\ Elems(buzy_queue) \subseteq Batches /\ device \subseteq Elems(buzy_queue)
  BY Parts, Consts
<1>1. Elems(buzy_queue)' = Elems(buzy_queue) \union {b0}
  BY <1>0, SubmitForward
<1>2. /\ descs' = [descs EXCEPT ![b0] = d] /\ comps' = [comps EXCEPT ![b0] = c]
      /\ bcomp' = [bcomp EXCEPT ![b0] = NONE] /\ device' = device \union {b0}
      /\ desc_idx' = 0
  BY DEF submit_forward
<1>3. /\ descs'[b0] = d /\ comps'[b0] = c /\ bcomp'[b0] = NONE
      /\ \A b \in Batches \ {b0} : descs'[b] = descs[b] /\ comps'[b] = comps[b] /\ bcomp'[b] = bcomp[b]
  BY <1>0, <1>2 DEF MemoryType
<1>4. \A i \in Positions : ~(i < desc_idx')
  BY <1>2, Consts DEF Positions
<1>5. \A i \in Positions : ToRun(b0, i)' <=> d[i] # Noop
  BY <1>2, <1>3, <1>4 DEF ToRun
<1>6. \A b \in Batches \ {b0}, i \in Positions : ToRun(b, i)' <=> ToRun(b, i)
  BY <1>1, <1>2, <1>3, <1>4 DEF ToRun
<1>7. RecordsTrue'
  <2>1. \A b \in device', i \in Positions : comps'[b][i] = SUCCESS => descs'[b][i] = Noop
    <3> SUFFICES ASSUME NEW b \in device', NEW i \in Positions, comps'[b][i] = SUCCESS PROVE descs'[b][i] = Noop
      OBVIOUS
    <3>1. CASE b = b0
      BY <1>3, <3>1
    <3>2. CASE b # b0
      <4>1. b \in device /\ b \in Batches \ {b0}
        BY <3>2, <1>0, <1>2
      <4> QED
        BY <4>1, <1>3 DEF RecordsTrue
    <3> QED
      BY <3>1, <3>2
  <2>2. \A b \in Elems(buzy_queue)', i \in Positions :
          bcomp'[b] = SUCCESS \/ (bcomp'[b] = BATCH_FAIL /\ comps'[b][i] = SUCCESS)
            => descs'[b][i] \in executed' \union {Noop}
    <3> SUFFICES ASSUME NEW b \in Elems(buzy_queue)', NEW i \in Positions,
                        bcomp'[b] = SUCCESS \/ (bcomp'[b] = BATCH_FAIL /\ comps'[b][i] = SUCCESS)
                 PROVE  descs'[b][i] \in executed' \union {Noop}
      OBVIOUS
    <3>1. b # b0
      BY <1>3
    <3>2. b \in Elems(buzy_queue) /\ b \in Batches \ {b0}
      BY <3>1, <1>0, <1>1
    <3> QED
      BY <3>2, <1>3 DEF RecordsTrue
  <2> QED
    BY <1>4, <2>1, <2>2 DEF RecordsTrue
<1> QED
  BY <1>1, <1>2, <1>3, <1>5, <1>6, <1>7

\* One more operation waits, in a descriptor that was not waiting.
LEMMA OneMore ==
  ASSUME ClientType, Accounted, RunOnce,
         executed' = executed, op_cnt' = op_cnt + 1,
         NEW b0 \in Batches, NEW i0 \in Positions,
         ToRun(b0, i0)', descs'[b0][i0] = op_cnt + 1, ~ToRun(b0, i0),
         \A b \in Batches, i \in Positions :
           b # b0 \/ i # i0 => (ToRun(b, i)' <=> ToRun(b, i)) /\ (ToRun(b, i) => descs'[b][i] = descs[b][i])
  PROVE  Accounted' /\ RunOnce'
<1>1. op_cnt \in Nat /\ 1 .. op_cnt' = (1 .. op_cnt) \union {op_cnt + 1} /\ op_cnt + 1 \notin 1 .. op_cnt
  BY Consts DEF ClientType
<1>2. Accounted'
  BY <1>1 DEF Accounted
<1>3. RunOnce'
  <2>1. executed' \subseteq 1 .. op_cnt' /\ op_cnt + 1 \notin executed
    BY <1>1 DEF RunOnce
  <2>2. \A b \in Batches, i \in Positions : ToRun(b, i)' => descs'[b][i] \in (1 .. op_cnt') \ executed'
    BY <1>1, <2>1 DEF RunOnce
  <2>3. \A b \in Batches, i \in Positions : ToRun(b, i)' /\ descs'[b][i] = op_cnt + 1 => b = b0 /\ i = i0
    BY <1>1 DEF RunOnce
  <2>4. \A b1, b2 \in Batches, i1, i2 \in Positions :
          ToRun(b1, i1)' /\ ToRun(b2, i2)' /\ descs'[b1][i1] = descs'[b2][i2] => b1 = b2 /\ i1 = i2
    <3> SUFFICES ASSUME NEW b1 \in Batches, NEW b2 \in Batches, NEW i1 \in Positions, NEW i2 \in Positions,
                        ToRun(b1, i1)', ToRun(b2, i2)', descs'[b1][i1] = descs'[b2][i2]
                 PROVE  b1 = b2 /\ i1 = i2
      OBVIOUS
    <3>1. CASE descs'[b1][i1] = op_cnt + 1
      BY <2>3, <3>1
    <3>2. CASE descs'[b1][i1] # op_cnt + 1
      <4>1. (b1 # b0 \/ i1 # i0) /\ (b2 # b0 \/ i2 # i0)
        BY <3>2
      <4> QED
        BY <4>1 DEF RunOnce
    <3> QED
      BY <3>1, <3>2
  <2> QED
    BY <2>1, <2>2, <2>4 DEF RunOnce
<1> QED
  BY <1>2, <1>3

LEMMA OpAddOp == RingInv /\ OpInv /\ AddOp => OpInv'
<1> SUFFICES ASSUME RingInv, OpInv, AddOp PROVE OpInv'
  OBVIOUS
<1>0. /\ Placement /\ MemoryType /\ ClientType /\ CallOK /\ CursorOK
      /\ batch_idx \in Batches /\ batch_idx # NoBatch /\ batch_idx \notin Elems(buzy_queue)
      /\ batch_idx \notin device
  BY Parts DEF AddOp
<1> PICK b0 \in Batches : b0 = batch_idx
  BY <1>0
<1> PICK i0 \in Positions : i0 = desc_idx
  BY <1>0, Consts DEF Placement, Positions
<1>1. /\ pc = "add" /\ pc' = "idle" /\ op_cnt' = op_cnt + 1 /\ executed' = executed
      /\ call' = call /\ call = "submit" /\ op_cnt < MaxOps
  BY <1>0 DEF AddOp, Return, CallOK
<1>2. NothingPartial' /\ DoneMeansDone'
  BY <1>1 DEF NothingPartial, DoneMeansDone
<1>3. /\ Accounted /\ RunOnce /\ RecordsTrue
      /\ desc_idx \in Positions /\ desc_idx \in Nat
      /\ op_cnt + 1 \in Ops /\ op_cnt + 1 # Noop
      /\ ~ToRun(b0, i0)
  BY <1>0, <1>1, Consts DEF OpInv, Placement, Positions, ClientType, Ops, Noop, ToRun
<1> DEFINE d == [descs[batch_idx] EXCEPT ![desc_idx] = op_cnt + 1]
           c == [comps[batch_idx] EXCEPT ![desc_idx] = NONE]
<1>4. /\ d \in [Positions -> Ops \union {Noop}] /\ c \in [Positions -> {NONE, SUCCESS, PAGE_FAULT}]
      /\ d[i0] = op_cnt + 1 /\ \A i \in Positions \ {i0} : d[i] = descs[b0][i]
      /\ c[i0] = NONE /\ \A i \in Positions \ {i0} : c[i] = comps[b0][i]
  BY <1>0, <1>3 DEF MemoryType
<1>5. \A i \in Positions : ToRun(b0, i) <=> i < i0 /\ descs[b0][i] # Noop
  BY <1>0 DEF ToRun
<1>6. CASE desc_idx + 1 = batch_siz
  <2>1. submit_forward(d, c)
    BY <1>0, <1>6 DEF AddOp
  <2>. HIDE DEF d, c
  <2>2. \A i \in Positions \ {i0} : i < i0
    BY <1>3, <1>6, Consts DEF Positions
  <2>3. \A i \in Positions : c[i] = NONE
    BY <1>0, <1>3, <1>4, <2>2 DEF RecordsTrue
  <2>4. /\ descs'[b0] = d /\ \A b \in Batches \ {b0} : descs'[b] = descs[b]
        /\ \A i \in Positions : ToRun(b0, i)' <=> d[i] # Noop
        /\ \A b \in Batches \ {b0}, i \in Positions : ToRun(b, i)' <=> ToRun(b, i)
        /\ RecordsTrue'
    BY <1>0, <1>1, <1>3, <1>4, <2>1, <2>3, ForwardWork
  <2>5. /\ ToRun(b0, i0)' /\ descs'[b0][i0] = op_cnt + 1
        /\ \A b \in Batches, i \in Positions :
             b # b0 \/ i # i0 =>
               (ToRun(b, i)' <=> ToRun(b, i)) /\ (ToRun(b, i) => descs'[b][i] = descs[b][i])
    BY <1>3, <1>4, <1>5, <2>2, <2>4
  <2>6. Accounted' /\ RunOnce'
    BY <1>0, <1>1, <1>3, <2>5, OneMore
  <2> QED
    BY <1>2, <2>4, <2>6 DEF OpInv
<1>7. CASE desc_idx + 1 # batch_siz
  <2>1. /\ descs' = [descs EXCEPT ![batch_idx] = d] /\ comps' = [comps EXCEPT ![batch_idx] = c]
        /\ desc_idx' = desc_idx + 1
        /\ UNCHANGED <<queues, batch_idx, bcomp, device>>
    BY <1>0, <1>7 DEF AddOp
  <2>. HIDE DEF d, c
  <2>2. /\ descs'[b0] = d /\ comps'[b0] = c /\ Elems(buzy_queue)' = Elems(buzy_queue)
        /\ \A b \in Batches \ {b0} : descs'[b] = descs[b] /\ comps'[b] = comps[b]
    BY <1>0, <2>1 DEF MemoryType, queues
  <2>3. \A i \in Positions : i < desc_idx' <=> i < i0 \/ i = i0
    BY <1>3, <2>1, Consts DEF Positions
  <2>4. \A i \in Positions : ToRun(b0, i)' <=> (i < i0 \/ i = i0) /\ d[i] # Noop
    BY <1>0, <2>1, <2>2, <2>3 DEF ToRun
  <2>5. \A b \in Batches \ {b0}, i \in Positions : ToRun(b, i)' <=> ToRun(b, i)
    BY <2>1, <2>2 DEF ToRun
  <2>6. /\ ToRun(b0, i0)' /\ descs'[b0][i0] = op_cnt + 1
        /\ \A b \in Batches, i \in Positions :
             b # b0 \/ i # i0 =>
               (ToRun(b, i)' <=> ToRun(b, i)) /\ (ToRun(b, i) => descs'[b][i] = descs[b][i])
    BY <1>3, <1>4, <1>5, <2>2, <2>4, <2>5
  <2>7. Accounted' /\ RunOnce'
    BY <1>0, <1>1, <1>3, <2>6, OneMore
  <2>8. RecordsTrue'
    <3>1. \A b \in Elems(buzy_queue) : b # b0 /\ b \in Batches
      BY <1>0, Parts
    <3>2. \A i \in Positions : i < desc_idx' => c[i] = NONE
      BY <1>0, <1>3, <1>4, <2>3 DEF RecordsTrue
    <3>3. \A b \in device', i \in Positions : comps'[b][i] = SUCCESS => descs'[b][i] = Noop
      BY <1>0, <1>3, <2>1, <2>2, <3>1, Parts DEF RecordsTrue
    <3> QED
      BY <1>1, <1>3, <2>1, <2>2, <3>1, <3>2, <3>3 DEF RecordsTrue
  <2> QED
    BY <1>2, <2>7, <2>8 DEF OpInv
<1> QED
  BY <1>6, <1>7

LEMMA OpCompletionCall ==
  ASSUME RingInv, OpInv, NEW k \in {"wait", "check", "set_wq"}, CompletionCall(k)
  PROVE  OpInv'
<1>0. /\ Placement /\ MemoryType /\ ClientType
      /\ Accounted /\ RunOnce /\ RecordsTrue
  BY Parts DEF OpInv
<1>1. /\ pc = "idle" /\ call' = k /\ pc' # "idle" /\ PadAndSubmit
      /\ UNCHANGED <<op_cnt, executed, faults>>
  BY DEF CompletionCall
<1>2. DoneMeansDone'
  BY <1>1 DEF DoneMeansDone
<1>3. CASE desc_idx = 0
  <2>1. UNCHANGED <<queues, filling, memory, hardware>>
    BY <1>1, <1>3 DEF PadAndSubmit, filling, hardware
  <2>2. Accounted' /\ RunOnce' /\ RecordsTrue' /\ NothingPartial'
    BY <1>3, <2>1, QuietStep DEF NothingPartial, filling
  <2> QED
    BY <1>2, <2>2 DEF OpInv
<1>4. CASE desc_idx # 0
  <2> PICK b0 \in Batches : b0 = batch_idx /\ b0 # NoBatch /\ b0 \notin Elems(buzy_queue) /\ b0 \notin device
    BY <1>0, <1>4, Parts DEF Placement
  <2> DEFINE d == [i \in Positions |-> IF i < desc_idx THEN descs[b0][i] ELSE Noop]
             c == [i \in Positions |-> IF i < desc_idx THEN comps[b0][i] ELSE NONE]
  <2>1. submit_forward(d, c)
    BY <1>1, <1>4 DEF PadAndSubmit
  <2>2. /\ d \in [Positions -> Ops \union {Noop}] /\ c \in [Positions -> {NONE, SUCCESS, PAGE_FAULT}]
        /\ \A i \in Positions : c[i] = NONE
        /\ \A i \in Positions : d[i] # Noop <=> i < desc_idx /\ descs[b0][i] # Noop
        /\ \A i \in Positions : d[i] # Noop => d[i] = descs[b0][i]
    BY <1>0 DEF MemoryType, RecordsTrue
  <2>. HIDE DEF d, c
  <2>3. /\ descs'[b0] = d /\ \A b \in Batches \ {b0} : descs'[b] = descs[b]
        /\ \A i \in Positions : ToRun(b0, i)' <=> d[i] # Noop
        /\ \A b \in Batches \ {b0}, i \in Positions : ToRun(b, i)' <=> ToRun(b, i)
        /\ RecordsTrue' /\ desc_idx' = 0
    BY <1>0, <1>1, <2>1, <2>2, ForwardWork
  <2>4. \A i \in Positions : ToRun(b0, i) <=> i < desc_idx /\ descs[b0][i] # Noop
    BY DEF ToRun
  <2>5. SameWork
    <3>1. \A b \in Batches, i \in Positions : ToRun(b, i)' <=> ToRun(b, i)
      BY <2>2, <2>3, <2>4
    <3>2. \A b \in Batches, i \in Positions : ToRun(b, i) => descs'[b][i] = descs[b][i]
      BY <2>2, <2>3, <2>4
    <3> QED
      BY <1>1, <3>1, <3>2 DEF SameWork
  <2> QED
    BY <1>0, <1>2, <2>3, <2>5, WorkKept DEF OpInv, NothingPartial
<1> QED
  BY <1>3, <1>4

LEMMA ClearKeeps ==
  ASSUME RingInv, Clear
  PROVE  SameWork /\ RecordsTrue' /\ desc_idx' = 0
<1>1. /\ UNCHANGED <<op_cnt, memory, hardware, pc, client>> /\ task_empty
      /\ buzy_queue' = clear(buzy_queue) /\ desc_idx' = 0
  BY DEF Clear
<1>2. /\ device = {} /\ \A b \in Batches, i \in Positions : ~ToRun(b, i)
  BY <1>1, EmptyMeansIdle
<1>3. Elems(buzy_queue)' = {} /\ device' = {}
  BY <1>1, <1>2, Parts, ClearedRing DEF Placement, IsRing, hardware
<1>4. \A i \in Positions : ~(i < desc_idx')
  BY <1>1, Consts DEF Positions
<1>5. \A b \in Batches, i \in Positions : ~ToRun(b, i)'
  BY <1>3, <1>4 DEF ToRun
<1>6. SameWork
  BY <1>1, <1>2, <1>5 DEF SameWork, hardware
<1>7. RecordsTrue'
  BY <1>3, <1>4 DEF RecordsTrue
<1> QED
  BY <1>1, <1>6, <1>7

LEMMA OpClear == RingInv /\ OpInv /\ Clear => OpInv'
<1> SUFFICES ASSUME RingInv, OpInv, Clear PROVE OpInv'
  OBVIOUS
<1>1. Accounted' /\ RunOnce' /\ RecordsTrue' /\ NothingPartial'
  BY ClearKeeps, WorkKept DEF OpInv, NothingPartial
<1>2. AllDone /\ UNCHANGED <<op_cnt, executed, device>>
  BY EmptyMeansDone DEF Clear, OpInv, hardware
<1>3. DoneMeansDone'
  BY <1>2 DEF DoneMeansDone, AllDone
<1> QED
  BY <1>1, <1>3 DEF OpInv

\* Resubmission: what is in the repaired batch is what it had left to do.
LEMMA ScanErrorKeeps ==
  ASSUME RingInv, RecordsTrue, ScanError
  PROVE  SameWork /\ RecordsTrue'
<1>0. /\ Placement /\ MemoryType /\ CursorOK
      /\ device \subseteq Elems(buzy_queue) /\ Elems(buzy_queue) \subseteq Batches
      /\ batch_idx # NoBatch => batch_idx \notin Elems(buzy_queue)
  BY Parts
<1>1. /\ UNCHANGED <<filling, executed, client>>
      /\ pc = "scan" /\ Scanning /\ pc' = "done?" /\ cur' = buzy_queue.queue[q_idx]
      /\ bcomp[cur'] > SUCCESS
      /\ resolve_error(cur')
      /\ bcomp' = [bcomp EXCEPT ![cur'] = NONE] /\ device' = device \union {cur'}
  BY DEF ScanError
<1> PICK b0 \in Batches : b0 = cur' /\ b0 \in Elems(buzy_queue)
  BY <1>0, <1>1, ScanAt
<1>2. /\ bcomp[b0] = BATCH_FAIL /\ b0 \notin device /\ b0 # batch_idx
  BY <1>0, <1>1 DEF MemoryType, Placement, DeviceOwnsPending
<1>3. Elems(buzy_queue)' = Elems(buzy_queue)
  <2> DEFINE m == delay_front_and_pop(buzy_queue, q_idx)
  <2>1. /\ q_idx \in Live(buzy_queue) /\ IsRing(buzy_queue)
        /\ buzy_queue.q_ecnt \in 0 .. batch_capacity
    BY <1>0, <1>1, ScanAt, Bounds DEF Placement
  <2>2. /\ IsRing(m) /\ Elems(m) = Elems(buzy_queue) \ {b0} /\ m.q_ecnt = buzy_queue.q_ecnt - 1
    BY <1>1, <2>1, Delay
  <2>3. buzy_queue' = push_back(m, b0)
    BY DEF ScanError
  <2>. HIDE DEF m
  <2>4. m.q_ecnt < batch_capacity /\ b0 \notin Elems(m)
    BY <2>1, <2>2, Consts
  <2>5. Elems(push_back(m, b0)) = Elems(m) \union {b0}
    BY <2>2, <2>4, Push
  <2> QED
    BY <2>2, <2>3, <2>5
<1>4. /\ \A i \in Positions : descs'[b0][i] = ResolvedDesc(descs[b0][i], comps[b0][i])
      /\ \A i \in Positions : comps'[b0][i] = ResolvedComp(descs[b0][i], comps[b0][i])
      /\ bcomp'[b0] = NONE
      /\ \A b \in Batches \ {b0} : descs'[b] = descs[b] /\ comps'[b] = comps[b] /\ bcomp'[b] = bcomp[b]
  BY <1>0, <1>1 DEF resolve_error, MemoryType
<1>5. UNCHANGED <<batch_idx, desc_idx, op_cnt, executed>>
  BY <1>1 DEF filling
<1>6. \A i \in Positions : (ToRun(b0, i)' <=> ToRun(b0, i)) /\ (ToRun(b0, i) => descs'[b0][i] = descs[b0][i])
  BY <1>1, <1>2, <1>3, <1>4, <1>5 DEF ToRun, ResolvedDesc
<1>7. \A b \in Batches \ {b0}, i \in Positions : ToRun(b, i)' <=> ToRun(b, i)
  BY <1>1, <1>3, <1>4, <1>5 DEF ToRun
<1>8. SameWork
  BY <1>4, <1>5, <1>6, <1>7 DEF SameWork
<1>9. RecordsTrue'
  <2>1. \A i \in Positions : batch_idx' # NoBatch /\ i < desc_idx' => comps'[batch_idx'][i] = NONE
    BY <1>0, <1>2, <1>4, <1>5 DEF RecordsTrue, Placement
  <2>2. \A b \in device', i \in Positions : comps'[b][i] = SUCCESS => descs'[b][i] = Noop
    <3> SUFFICES ASSUME NEW b \in device', NEW i \in Positions, comps'[b][i] = SUCCESS PROVE descs'[b][i] = Noop
      OBVIOUS
    <3>1. CASE b = b0
      BY <1>4, <3>1 DEF ResolvedDesc, ResolvedComp
    <3>2. CASE b # b0
      <4>1. b \in device /\ b \in Batches \ {b0}
        BY <1>0, <1>1, <3>2
      <4> QED
        BY <4>1, <1>0, <1>4 DEF RecordsTrue
    <3> QED
      BY <3>1, <3>2
  <2>3. ASSUME NEW b \in Elems(buzy_queue), NEW i \in Positions,
               bcomp'[b] = SUCCESS \/ (bcomp'[b] = BATCH_FAIL /\ comps'[b][i] = SUCCESS)
        PROVE  descs'[b][i] \in executed' \union {Noop}
    <3>1. b # b0
      BY <1>4, <2>3
    <3>2. b \in Batches \ {b0}
      BY <1>0, <3>1
    <3> QED
      BY <1>0, <1>4, <1>5, <2>3, <3>2 DEF RecordsTrue
  <2> QED
    BY <1>3, <2>1, <2>2, <2>3 DEF RecordsTrue
<1> QED
  BY <1>8, <1>9

LEMMA OpScanError == RingInv /\ OpInv /\ ScanError => OpInv'
<1> SUFFICES ASSUME RingInv, OpInv, ScanError PROVE OpInv'
  OBVIOUS
<1>1. Accounted' /\ RunOnce' /\ RecordsTrue'
  BY ScanErrorKeeps, WorkKept DEF OpInv
<1>2. NothingPartial' /\ DoneMeansDone'
  BY DEF ScanError, OpInv, NothingPartial, DoneMeansDone, filling, client
<1> QED
  BY <1>1, <1>2 DEF OpInv

\* A batch that is recycled has nothing left to do.
LEMMA RecycleKeeps ==
  ASSUME RingInv, RecordsTrue, DoneYes \/ AgainYes
  PROVE  SameWork /\ RecordsTrue' /\ pc' # "idle" /\ UNCHANGED <<desc_idx, call>>
<1>0. /\ Placement /\ MemoryType /\ ClientType
      /\ Elems(buzy_queue) \subseteq Batches
  BY Parts
<1>1. /\ InElement /\ bcomp[cur] = SUCCESS /\ Recycle /\ Advance /\ watch_limit' \in Nat
      /\ UNCHANGED <<filling, memory, hardware, client, cur>> /\ pc' = "scan"
  BY <1>0 DEF DoneYes, AgainYes, InElement, ClientType, Advance
<1>2. Elems(buzy_queue)' = Elems(buzy_queue) \ {cur}
  BY <1>1, RecycleStep
<1>3. UNCHANGED <<batch_idx, desc_idx, op_cnt, descs, comps, bcomp, device, executed, call>>
  BY <1>1 DEF filling, memory, hardware, client
<1>4. \A b \in Batches, i \in Positions : ToRun(b, i)' <=> ToRun(b, i)
  BY <1>1, <1>2, <1>3 DEF ToRun
<1>5. SameWork
  BY <1>3, <1>4 DEF SameWork
<1>6. RecordsTrue'
  BY <1>0, <1>2, <1>3 DEF RecordsTrue
<1> QED
  BY <1>1, <1>3, <1>5, <1>6

LEMMA OpRecycle == RingInv /\ OpInv /\ (DoneYes \/ AgainYes) => OpInv'
<1> SUFFICES ASSUME RingInv, OpInv, DoneYes \/ AgainYes PROVE OpInv'
  OBVIOUS
<1>1. SameWork /\ RecordsTrue' /\ pc' # "idle" /\ UNCHANGED <<desc_idx, call>>
  BY RecycleKeeps DEF OpInv
<1> QED
  BY <1>1, WorkKept DEF OpInv, NothingPartial, DoneMeansDone

LEMMA CollectEndKeeps ==
  ASSUME RingInv, RecordsTrue, CollectEnd
  PROVE  /\ SameWork /\ RecordsTrue' /\ UNCHANGED <<desc_idx, device, call>>
         /\ pc' = "idle" => ret' = task_empty /\ call \in {"check", "set_wq"}
<1>0. /\ Placement /\ MemoryType /\ ClientType /\ CallOK
      /\ Elems(buzy_queue) \subseteq Batches
  BY Parts
<1>1. UNCHANGED <<buzy_queue, desc_idx, op_cnt, device, executed, call>>
  BY DEF CollectEnd, hardware
<1>2. call \in {"submit", "wait", "check", "set_wq"}
  BY <1>0 DEF CollectEnd, CallOK, InCollect
<1>3. /\ pc' = "idle" => ret' = task_empty /\ call \in {"check", "set_wq"}
      /\ UNCHANGED memory \/ /\ task_empty
                             /\ comps' = Blank(NONE) /\ bcomp' = [b \in Batches |-> NONE]
  <2>1. CASE call = "submit"
    BY <2>1 DEF CollectEnd
  <2>2. CASE call = "wait"
    BY <2>2 DEF CollectEnd
  <2>3. CASE call = "check"
    BY <2>3 DEF CollectEnd, Return, task_empty, empty
  <2>4. CASE call = "set_wq"
    BY <2>4 DEF CollectEnd, Return, task_empty, empty
  <2> QED
    BY <1>2, <2>1, <2>2, <2>3, <2>4
\* Taking a free batch as the current one does not fill it.
<1>4. \A i \in Positions : i < desc_idx => batch_idx' = batch_idx
  <2>1. CASE desc_idx = 0
    BY <2>1, Consts DEF Positions
  <2>2. CASE desc_idx # 0
    BY <1>0, <2>2 DEF CollectEnd, Placement
  <2> QED
    BY <2>1, <2>2
<1>5. SameWork /\ RecordsTrue'
  <2>1. CASE UNCHANGED memory
    <3>1. UNCHANGED <<descs, comps, bcomp>>
      BY <2>1 DEF memory
    <3>2. \A b \in Batches, i \in Positions : b = batch_idx /\ i < desc_idx <=> b = batch_idx' /\ i < desc_idx
      <4>1. desc_idx # 0 => batch_idx' = batch_idx
        BY <1>0 DEF CollectEnd, Placement
      <4>2. \A i \in Positions : desc_idx = 0 => ~(i < desc_idx)
        BY Consts DEF Positions
      <4> QED
        BY <4>1, <4>2
    <3>3. \A b \in Batches, i \in Positions : ToRun(b, i)' <=> ToRun(b, i)
      BY <1>1, <3>1, <3>2 DEF ToRun
    <3>4. SameWork
      BY <1>1, <3>1, <3>3 DEF SameWork
    <3>5. RecordsTrue'
      BY <1>0, <1>1, <1>4, <3>1 DEF RecordsTrue
    <3> QED
      BY <3>4, <3>5
  <2>2. CASE /\ task_empty
             /\ comps' = Blank(NONE) /\ bcomp' = [b \in Batches |-> NONE]
    <3>1. /\ \A b \in Batches, i \in Positions : ~ToRun(b, i)
          /\ Elems(buzy_queue) = {} /\ device = {} /\ desc_idx = 0
      BY <2>2, EmptyMeansIdle
    <3>2. \A i \in Positions : ~(i < desc_idx)
      BY <3>1, Consts DEF Positions
    <3>3. \A b \in Batches, i \in Positions : ~ToRun(b, i)'
      BY <1>1, <3>1, <3>2 DEF ToRun
    <3>4. SameWork
      BY <1>1, <3>1, <3>3 DEF SameWork
    <3>5. RecordsTrue'
      BY <1>1, <3>1, <3>2 DEF RecordsTrue
    <3> QED
      BY <3>4, <3>5
  <2> QED
    BY <1>3, <2>1, <2>2
<1> QED
  BY <1>1, <1>3, <1>5

LEMMA OpCollectEnd == RingInv /\ OpInv /\ CollectEnd => OpInv'
<1> SUFFICES ASSUME RingInv, OpInv, CollectEnd PROVE OpInv'
  OBVIOUS
<1>1. /\ SameWork /\ RecordsTrue' /\ UNCHANGED <<desc_idx, device, call>>
      /\ pc' = "idle" => ret' = task_empty /\ call \in {"check", "set_wq"}
  BY CollectEndKeeps DEF OpInv
<1>2. Accounted' /\ RunOnce' /\ NothingPartial'
  BY <1>1, WorkKept DEF OpInv, NothingPartial
<1>3. DoneMeansDone'
  BY <1>1, EmptyMeansDone DEF OpInv, DoneMeansDone, AllDone, SameWork
<1> QED
  BY <1>1, <1>2, <1>3 DEF OpInv

\* The descriptors at positions done of batch b0 have been completed, and nothing
\* else has stopped waiting.
WorkDone(b0, done) ==
  /\ done \subseteq Positions /\ \A i \in done : ToRun(b0, i)
  /\ UNCHANGED <<op_cnt, descs>>
  /\ executed' = executed \union {descs[b0][i] : i \in done}
  /\ \A b \in Batches, i \in Positions : ToRun(b, i)' <=> ToRun(b, i) /\ (b # b0 \/ i \notin done)

LEMMA RunOnceKept ==
  ASSUME RunOnce, NEW b0 \in Batches, NEW done, WorkDone(b0, done)
  PROVE  RunOnce'
<1>1. \A i \in done : descs[b0][i] \in 1 .. op_cnt
  BY DEF RunOnce, WorkDone
<1>2. executed' \subseteq 1 .. op_cnt
  <2>1. executed \subseteq 1 .. op_cnt
    BY DEF RunOnce
  <2>2. executed' = executed \union {descs[b0][i] : i \in done}
    BY DEF WorkDone
  <2> QED
    BY <1>1, <2>1, <2>2
<1>3. \A b \in Batches, i \in Positions : ToRun(b, i)' => descs[b][i] \in (1 .. op_cnt) \ executed'
  <2> SUFFICES ASSUME NEW b \in Batches, NEW i \in Positions, ToRun(b, i)', descs[b][i] \in executed'
               PROVE  FALSE
    BY DEF RunOnce, WorkDone
  <2>1. ToRun(b, i) /\ (b # b0 \/ i \notin done)
    BY DEF WorkDone
  <2>2. PICK j \in done : descs[b][i] = descs[b0][j]
    BY <2>1 DEF RunOnce, WorkDone
  <2>3. b = b0 /\ i = j
    BY <2>1, <2>2 DEF RunOnce, WorkDone
  <2> QED
    BY <2>1, <2>2, <2>3
<1> QED
  BY <1>2, <1>3 DEF RunOnce, WorkDone

LEMMA DoneKept ==
  ASSUME Accounted, RunOnce, NEW b0 \in Batches, NEW done, WorkDone(b0, done)
  PROVE  Accounted' /\ RunOnce'
<1>1. Accounted'
  <2> SUFFICES ASSUME NEW o \in 1 .. op_cnt, o \notin executed'
               PROVE  \E b \in Batches, i \in Positions : ToRun(b, i)' /\ descs[b][i] = o
    BY DEF Accounted, WorkDone
  <2>1. PICK b \in Batches, i \in Positions : ToRun(b, i) /\ descs[b][i] = o
    BY DEF Accounted, WorkDone
  <2>2. ToRun(b, i)'
    BY <2>1 DEF WorkDone
  <2> QED
    BY <2>1, <2>2
<1>2. RunOnce'
  BY RunOnceKept
<1> QED
  BY <1>1, <1>2

\* The device: what it completes was waiting.  s tells what became of each
\* descriptor.
LEMMA DeviceWork ==
  ASSUME RingInv, RecordsTrue, NEW b0 \in Batches, DeviceStep(b0)
  PROVE  /\ \E done : WorkDone(b0, done)
         /\ RecordsTrue' /\ UNCHANGED <<desc_idx, pc, call, ret>> /\ device # {}
<1>0. /\ Placement /\ MemoryType
      /\ Elems(buzy_queue) \subseteq Batches /\ device \subseteq Elems(buzy_queue)
      /\ batch_idx # NoBatch => batch_idx \notin Elems(buzy_queue)
  BY Parts
<1>1. /\ b0 \in device /\ b0 \in Elems(buzy_queue) /\ b0 # batch_idx
      /\ UNCHANGED <<queues, filling, descs, pc, client, locals>>
      /\ device' = device \ {b0}
  BY <1>0 DEF DeviceStep, BatchSucceeds, BatchFails, DeviceMayFinish
<1>2. UNCHANGED <<buzy_queue, batch_idx, desc_idx, op_cnt, descs, pc, call, ret>>
  BY <1>1 DEF queues, filling, client
<1>3. PICK s \in [Positions -> {NONE, SUCCESS, PAGE_FAULT}] :
        /\ comps' = [comps EXCEPT ![b0] = [i \in Positions |-> IF s[i] = NONE THEN comps[b0][i] ELSE s[i]]]
        /\ executed' = executed \union OpsDone(b0, s)
        /\ \/ bcomp' = [bcomp EXCEPT ![b0] = SUCCESS] /\ \A i \in Positions : s[i] = SUCCESS
           \/ bcomp' = [bcomp EXCEPT ![b0] = BATCH_FAIL]
  <2>1. CASE BatchSucceeds(b0)
    <3> DEFINE s == [i \in Positions |-> SUCCESS]
    <3>1. /\ s \in [Positions -> {NONE, SUCCESS, PAGE_FAULT}] /\ \A i \in Positions : s[i] = SUCCESS
          /\ [i \in Positions |-> IF s[i] = NONE THEN comps[b0][i] ELSE s[i]] = [i \in Positions |-> SUCCESS]
      OBVIOUS
    <3>2. /\ comps' = [comps EXCEPT ![b0] = [i \in Positions |-> SUCCESS]]
          /\ bcomp' = [bcomp EXCEPT ![b0] = SUCCESS] /\ executed' = executed \union OpsDone(b0, s)
      BY <2>1 DEF BatchSucceeds
    <3> HIDE DEF s
    <3> QED
      BY <3>1, <3>2
  <2>2. CASE BatchFails(b0)
    BY <2>2, <1>0 DEF BatchFails, MemoryType
  <2> QED
    BY <2>1, <2>2 DEF DeviceStep
<1> DEFINE done == {i \in Positions : s[i] = SUCCESS /\ descs[b0][i] # Noop}
<1>4. executed' = executed \union {descs[b0][i] : i \in done}
  BY <1>3 DEF OpsDone
<1>5. /\ \A i \in Positions : comps'[b0][i] = IF s[i] = NONE THEN comps[b0][i] ELSE s[i]
      /\ \A b \in Batches \ {b0} : comps'[b] = comps[b] /\ bcomp'[b] = bcomp[b]
      /\ \/ bcomp'[b0] = SUCCESS /\ \A i \in Positions : s[i] = SUCCESS
         \/ bcomp'[b0] = BATCH_FAIL
  BY <1>0, <1>3 DEF MemoryType
<1>6. \A b \in Batches \ {b0}, i \in Positions : ToRun(b, i)' <=> ToRun(b, i)
  BY <1>1, <1>2, <1>5 DEF ToRun
<1>7. \A i \in Positions : ToRun(b0, i) <=> descs[b0][i] # Noop
  BY <1>1 DEF ToRun
<1>8. \A i \in Positions : ToRun(b0, i)' <=> descs[b0][i] # Noop /\ i \notin done
  <2>1. \A i \in Positions : comps[b0][i] = SUCCESS => descs[b0][i] = Noop
    BY <1>0, <1>1 DEF RecordsTrue
  <2>2. \A i \in Positions : ToRun(b0, i)' <=> descs[b0][i] # Noop /\ bcomp'[b0] = BATCH_FAIL /\ comps'[b0][i] # SUCCESS
    BY <1>1, <1>2 DEF ToRun
  <2>3. \A i \in Positions : descs[b0][i] # Noop => (comps'[b0][i] = SUCCESS <=> s[i] = SUCCESS)
    BY <1>5, <2>1
  <2> QED
    BY <1>5, <2>2, <2>3
<1>9. WorkDone(b0, done)
  <2>1. done \subseteq Positions /\ \A i \in done : ToRun(b0, i)
    BY <1>7
  <2> HIDE DEF done
  <2> QED
    BY <1>2, <1>4, <1>6, <1>7, <1>8, <2>1 DEF WorkDone
<1> HIDE DEF done
<1>11. RecordsTrue'
  <2>1. \A i \in Positions : batch_idx' # NoBatch /\ i < desc_idx' => comps'[batch_idx'][i] = NONE
    BY <1>0, <1>1, <1>2, <1>5 DEF RecordsTrue, Placement
  <2>2. \A b \in device', i \in Positions : comps'[b][i] = SUCCESS => descs'[b][i] = Noop
    BY <1>0, <1>1, <1>2, <1>5 DEF RecordsTrue
  <2>3. ASSUME NEW b \in Elems(buzy_queue), NEW i \in Positions,
               bcomp'[b] = SUCCESS \/ (bcomp'[b] = BATCH_FAIL /\ comps'[b][i] = SUCCESS)
        PROVE  descs'[b][i] \in executed' \union {Noop}
    <3>1. CASE b = b0
      <4>1. s[i] = SUCCESS \/ comps[b0][i] = SUCCESS
        BY <1>5, <2>3, <3>1
      <4>2. comps[b0][i] = SUCCESS => descs[b0][i] = Noop
        BY <1>0, <1>1 DEF RecordsTrue
      <4> QED
        BY <1>2, <1>4, <3>1, <4>1, <4>2 DEF done
    <3>2. CASE b # b0
      <4>1. b \in Batches \ {b0}
        BY <1>0, <3>2
      <4> QED
        BY <1>0, <1>2, <1>4, <1>5, <2>3, <4>1 DEF RecordsTrue
    <3> QED
      BY <3>1, <3>2
  <2> QED
    BY <1>2, <2>1, <2>2, <2>3 DEF RecordsTrue
<1> QED
  BY <1>1, <1>2, <1>9, <1>11

LEMMA OpDevice ==
  ASSUME RingInv, OpInv, NEW b0 \in Batches, DeviceStep(b0)
  PROVE  OpInv'
<1>1. /\ \E done : WorkDone(b0, done)
      /\ RecordsTrue' /\ UNCHANGED <<desc_idx, pc, call, ret>> /\ device # {}
  BY DeviceWork DEF OpInv
<1>2. Accounted' /\ RunOnce'
  BY <1>1, DoneKept DEF OpInv
<1>3. NothingPartial' /\ DoneMeansDone'
  BY <1>1 DEF OpInv, NothingPartial, DoneMeansDone, AllDone
<1> QED
  BY <1>1, <1>2, <1>3 DEF OpInv

LEMMA OpStutter == ASSUME OpInv, UNCHANGED vars PROVE OpInv'
<1>1. UNCHANGED <<queues, filling, memory, hardware, pc, client>>
  BY DEF vars
<1>2. Accounted' /\ RunOnce' /\ RecordsTrue'
  BY <1>1, QuietStep
<1>3. NothingPartial' /\ DoneMeansDone'
  BY <1>1 DEF OpInv, NothingPartial, DoneMeansDone, AllDone, filling, hardware, client
<1> QED
  BY <1>2, <1>3 DEF OpInv

LEMMA OpStep == NoOvertaking /\ RingInv /\ OpInv /\ [Next]_vars => OpInv'
<1> SUFFICES ASSUME NoOvertaking, RingInv, OpInv, [Next]_vars PROVE OpInv'
  OBVIOUS
<1>1. CASE Calls
  BY <1>1, OpQuiet, OpCompletionCall, OpClear DEF Calls
<1>2. CASE ClientStep
  BY <1>2, OpQuiet, OpAddOp, OpScanError, OpRecycle, OpCollectEnd DEF ClientStep
<1>3. CASE \E b \in Batches : DeviceStep(b)
  BY <1>3, OpDevice
<1>4. CASE UNCHANGED vars
  BY <1>4, OpStutter
<1> QED
  BY <1>1, <1>2, <1>3, <1>4 DEF Next

-----------------------------------------------------------------------------
LEMMA BothLayers == NoOvertaking /\ Spec => []IInv
<1> SUFFICES ASSUME NoOvertaking PROVE Spec => []IInv
  OBVIOUS
<1>1. Init => IInv
  BY RingInit, OpInit DEF IInv
<1>2. IInv /\ [Next]_vars => IInv'
  BY RingStep, OpStep DEF IInv
<1> QED
  BY <1>1, <1>2, PTL DEF Spec

\* The operation layer of the invariant: every accepted operation has been
\* executed or waits in one descriptor, through filling, padding, failure,
\* repair, resubmission and recycling, as long as no retry overtakes collect().
THEOREM OperationsCorrect == ASSUME NoOvertaking PROVE Spec => []OpInv
<1>1. IInv => OpInv
  BY DEF IInv
<1> QED
  BY <1>1, BothLayers, PTL

\* Nothing the device is going to run has been executed: repairing a failed
\* batch repeats no operation.
THEOREM OnceOnly == ASSUME NoOvertaking PROVE Spec => []NothingRunsTwice
<1>1. IInv => NothingRunsTwice
  BY Parts DEF IInv, OpInv, RunOnce, ToRun, NothingRunsTwice
<1> QED
  BY <1>1, BothLayers, PTL

\* When wait() returns, or check() returns true, every operation handed over has
\* been executed and the device is idle.
THEOREM CompletionMeansDone == ASSUME NoOvertaking PROVE Spec => []DoneMeansDone
<1>1. IInv => DoneMeansDone
  BY DEF IInv, OpInv
<1> QED
  BY <1>1, BothLayers, PTL

-----------------------------------------------------------------------------
\* What a client step does to the memory of batches: it writes the current
\* batch, repairs a failed one, or, with nothing buzy, clears everything.
LEMMA ClientWrites ==
  ASSUME RingInv, Calls \/ ClientStep,
         NEW b \in device, b \in device'
  PROVE  descs'[b] = descs[b] /\ comps'[b] = comps[b] /\ bcomp'[b] = bcomp[b]
<1>0. /\ Placement /\ MemoryType /\ CursorOK /\ CallOK /\ b \in Elems(buzy_queue) /\ b \in Batches /\ b # batch_idx
      /\ pc = "add" => batch_idx # NoBatch
      /\ batch_idx # NoBatch => batch_idx \in Batches
      /\ bcomp[b] = NONE
  BY Parts, Consts DEF Placement, DeviceOwnsPending
<1> DEFINE Kept == descs'[b] = descs[b] /\ comps'[b] = comps[b] /\ bcomp'[b] = bcomp[b]
<1>1. ASSUME NEW d, NEW c, submit_forward(d, c) PROVE Kept
  BY <1>0, <1>1 DEF submit_forward, MemoryType
<1>2. CASE AddOp
  BY <1>0, <1>1, <1>2 DEF AddOp, memory, MemoryType
<1>3. CASE \E k \in {"wait", "check", "set_wq"} : CompletionCall(k)
  BY <1>1, <1>3 DEF CompletionCall, PadAndSubmit, memory
<1>4. CASE ScanError
  <2>1. cur' \in Batches /\ bcomp[cur'] # NONE
    BY <1>0, <1>4, ScanAt DEF ScanError
  <2>2. b # cur'
    BY <1>0, <2>1
  <2> QED
    BY <1>0, <1>4, <2>1, <2>2 DEF ScanError, resolve_error, MemoryType
<1>5. CASE CollectEnd
  <2>1. UNCHANGED memory \/ task_empty
    <3>1. call \in {"submit", "wait", "check", "set_wq"}
      BY <1>0, <1>5 DEF CollectEnd, CallOK, InCollect
    <3> QED
      BY <1>5, <3>1 DEF CollectEnd, Return, task_empty, empty
  <2>2. ~task_empty
    BY <1>0, Bounds DEF task_empty, empty, Placement
  <2> QED
    BY <2>1, <2>2 DEF memory
<1>6. CASE UNCHANGED memory
  BY <1>6 DEF memory
<1> QED
  BY <1>2, <1>3, <1>4, <1>5, <1>6
     DEF Calls, ClientStep, SubmitCall, Clear, WaitTest, CollectStart, ScanEnd, ScanNoError,
         DoneYes, DoneNo, PendingYes, PendingNo, AgainYes, AgainNo

\* The client leaves a batch alone while the device owns it.
THEOREM MemoryOfTheDevice == ASSUME NoOvertaking PROVE Spec => DeviceMemoryUntouched
<1>1. RingInv /\ [Next]_vars =>
        [\A b \in device \intersect device' :
           descs'[b] = descs[b] /\ comps'[b] = comps[b] /\ bcomp'[b] = bcomp[b]]_vars
  <2> SUFFICES ASSUME RingInv, Next, NEW b \in device, b \in device'
               PROVE  descs'[b] = descs[b] /\ comps'[b] = comps[b] /\ bcomp'[b] = bcomp[b]
    OBVIOUS
  <2>1. CASE Calls \/ ClientStep
    BY <2>1, ClientWrites
  <2>2. ASSUME NEW x \in Batches, DeviceStep(x) PROVE descs'[b] = descs[b] /\ comps'[b] = comps[b] /\ bcomp'[b] = bcomp[b]
    <3>1. b # x
      BY <2>2 DEF DeviceStep, BatchSucceeds, BatchFails
    <3> QED
      BY <2>2, <3>1, Parts DEF DeviceStep, BatchSucceeds, BatchFails, MemoryType
  <2> QED
    BY <2>1, <2>2 DEF Next
<1> QED
  BY <1>1, RingCorrect, PTL DEF Spec, DeviceMemoryUntouched

\* No operation is lost with a batch that leaves the buzy ring.
THEOREM LeavesFinished == ASSUME NoOvertaking PROVE Spec => OnlyFinishedLeave
<1>1. IInv /\ [Next]_vars =>
        [\A b \in Elems(buzy_queue) \ Elems(buzy_queue') :
           \A i \in Positions : descs[b][i] \in executed \union {Noop}]_vars
  <2> SUFFICES ASSUME IInv, Next, NEW b \in Elems(buzy_queue), b \notin Elems(buzy_queue'), NEW i \in Positions
               PROVE  descs[b][i] \in executed \union {Noop}
    OBVIOUS
  <2>0. RingInv /\ RecordsTrue /\ Placement /\ CursorOK
    BY Parts DEF IInv, OpInv
  <2>1. buzy_queue' # buzy_queue
    OBVIOUS
  <2>2. CASE DoneYes \/ AgainYes
    <3>1. bcomp[cur] = SUCCESS /\ Elems(buzy_queue)' = Elems(buzy_queue) \ {cur}
      <4>1. /\ InElement /\ bcomp[cur] = SUCCESS /\ Recycle /\ Advance /\ watch_limit' \in Nat
            /\ UNCHANGED <<filling, memory, hardware, client, cur>>
        BY <2>0, <2>2, Parts DEF DoneYes, AgainYes, InElement, ClientType
      <4> QED
        BY <2>0, <4>1, RecycleStep
    <3>2. b = cur
      BY <3>1
    <3> QED
      BY <2>0, <3>1, <3>2 DEF RecordsTrue
  <2>3. ASSUME NEW d, NEW c, submit_forward(d, c), batch_idx # NoBatch PROVE FALSE
    <3>1. buzy_queue' = push_back(buzy_queue, batch_idx) /\ batch_idx \in Batches /\ batch_idx \notin Elems(buzy_queue)
      BY <2>0, <2>3, Parts DEF submit_forward
    <3>2. buzy_queue.q_ecnt < batch_capacity
      BY <2>0, <2>3, Bounds, Consts DEF Placement, CountsAdd, count
    <3> QED
      BY <2>0, <3>1, <3>2, Push DEF Placement
  <2>4. CASE AddOp \/ \E k \in {"wait", "check", "set_wq"} : CompletionCall(k)
    BY <2>0, <2>1, <2>3, <2>4 DEF AddOp, CompletionCall, PadAndSubmit, queues, Placement
  <2>5. CASE Clear
    BY <2>0, <2>5, Bounds DEF Clear, task_empty, empty, Placement
  <2>6. CASE ScanError
    <3>1. cur' = buzy_queue.queue[q_idx] /\ buzy_queue' = push_back(delay_front_and_pop(buzy_queue, q_idx), cur')
          /\ q_idx \in Live(buzy_queue) /\ cur' \in Batches /\ IsRing(buzy_queue) /\ buzy_queue.q_ecnt \in 0 .. batch_capacity
          /\ cur' \in Elems(buzy_queue)
      BY <2>0, <2>6, ScanAt, Bounds DEF ScanError, Placement
    <3> DEFINE m == delay_front_and_pop(buzy_queue, q_idx)
    <3>2. IsRing(m) /\ Elems(m) = Elems(buzy_queue) \ {cur'} /\ m.q_ecnt = buzy_queue.q_ecnt - 1
      BY <3>1, Delay
    <3>3. Elems(push_back(m, cur')) = Elems(m) \union {cur'}
      <4> HIDE DEF m
      <4>1. m.q_ecnt < batch_capacity /\ cur' \notin Elems(m)
        BY <3>1, <3>2, Consts
      <4> QED
        BY <3>1, <3>2, <4>1, Push
    <3> QED
      BY <3>1, <3>2, <3>3
  <2>7. CASE CollectEnd \/ UNCHANGED queues
    BY <2>1, <2>7 DEF CollectEnd, queues
  <2> QED
    BY <2>2, <2>4, <2>5, <2>6, <2>7
       DEF Next, Calls, ClientStep, SubmitCall, WaitTest, CollectStart, ScanEnd, ScanNoError,
           DoneNo, PendingYes, PendingNo, AgainNo, DeviceStep, BatchSucceeds, BatchFails
<1> QED
  BY <1>1, BothLayers, PTL DEF Spec, OnlyFinishedLeave

-----------------------------------------------------------------------------
(* Refinement: each step of the engine is a step of the service or changes *)
(* nothing the service shows.                                              *)

LEMMA ServiceInit == Init => Service!Init
  BY DEF Init, Service!Init

\* Entering a call.
LEMMA ServiceCalls == ASSUME Calls PROVE Service!Next \/ UNCHANGED Service!vars
<1>1. CASE SubmitCall
  <2>1. Service!Invoke("submit")
    BY <1>1 DEF SubmitCall, Service!Invoke, filling, hardware
  <2> QED
    BY <2>1 DEF Service!Next
<1>2. ASSUME NEW c \in {"wait", "check", "set_wq"}, CompletionCall(c) PROVE Service!Next
  <2>1. Service!Invoke(c)
    BY <1>2 DEF CompletionCall, Service!Invoke
  <2> QED
    BY <2>1 DEF Service!Next, Service!CompletionCalls
<1>3. CASE Clear
  BY <1>3 DEF Clear, Service!vars, hardware, client
<1> QED
  BY <1>1, <1>2, <1>3 DEF Calls

\* Inside a call: it goes on, or returns what the service may return, as long as
\* a completion call that finds nothing left has everything executed.
LEMMA ServiceReturns ==
  ASSUME RingInv, NothingPartial,
         call \in {"wait", "check", "set_wq"} /\ task_empty => executed = 1 .. op_cnt,
         ClientStep, ~AddOp
  PROVE  Service!Next \/ UNCHANGED Service!vars
<1>0. CallOK
  BY Parts
<1>2. CASE WaitTest
  <2>1. CASE empty(buzy_queue)
    <3>1. executed = 1 .. op_cnt
      BY <1>0, <1>2, <2>1 DEF WaitTest, CallOK, NothingPartial, task_empty
    <3>2. Service!ReturnDone
      BY <1>0, <1>2, <2>1, <3>1
         DEF WaitTest, Return, CallOK, Service!ReturnDone, Service!CompletionCalls, Service!AllDone, filling, hardware
    <3> QED
      BY <3>2 DEF Service!Next
  <2>2. CASE ~empty(buzy_queue)
    BY <1>2, <2>2 DEF WaitTest, Service!vars, filling, hardware
  <2> QED
    BY <2>1, <2>2
<1>3. CASE CollectEnd
  <2>1. /\ call \in {"submit", "wait", "check", "set_wq"} /\ pc # "idle"
        /\ UNCHANGED <<op_cnt, executed, call>>
    BY <1>0, <1>3 DEF CollectEnd, CallOK, InCollect, hardware
  <2>2. CASE call \in {"submit", "wait"}
    BY <1>3, <2>1, <2>2 DEF CollectEnd, Service!vars
  <2>3. CASE call \in {"check", "set_wq"}
    <3>1. pc' = "idle" /\ ret' = task_empty' /\ (task_empty' <=> task_empty) /\ ret' \in BOOLEAN
      BY <1>3, <2>3 DEF CollectEnd, Return, task_empty, empty
    <3>2. CASE task_empty
      <4>1. executed = 1 .. op_cnt /\ ret' = TRUE
        BY <2>3, <3>1, <3>2
      <4>2. Service!ReturnDone
        BY <2>1, <2>3, <3>1, <4>1 DEF Service!ReturnDone, Service!CompletionCalls, Service!AllDone
      <4> QED
        BY <4>2 DEF Service!Next
    <3>3. CASE ~task_empty
      <4>1. ret' = FALSE
        BY <3>1, <3>3
      <4>2. Service!ReturnNotDone
        BY <2>1, <2>3, <3>1, <4>1 DEF Service!ReturnNotDone, Service!CompletionCalls
      <4> QED
        BY <4>2 DEF Service!Next
    <3> QED
      BY <3>2, <3>3
  <2> QED
    BY <2>1, <2>2, <2>3
<1>4. CASE ~WaitTest /\ ~CollectEnd
  BY <1>4 DEF ClientStep, CollectStart, ScanEnd, ScanNoError, ScanError, DoneYes, DoneNo, PendingYes,
              PendingNo, AgainYes, AgainNo, Advance, Service!vars, filling, hardware, client
<1> QED
  BY <1>2, <1>3, <1>4

LEMMA ServiceClient == ASSUME IInv, ClientStep PROVE Service!Next \/ UNCHANGED Service!vars
<1>0. RingInv /\ Accounted /\ RunOnce /\ CallOK /\ NothingPartial
  BY Parts DEF IInv, OpInv
<1>1. CASE AddOp
  <2>1. Service!ReturnSubmit
    BY <1>0, <1>1 DEF AddOp, Return, Service!ReturnSubmit, CallOK
  <2> QED
    BY <2>1 DEF Service!Next
<1>2. CASE ~AddOp
  <2>1. task_empty => executed = 1 .. op_cnt
    BY <1>0, EmptyMeansDone DEF AllDone
  <2> QED
    BY <1>0, <1>2, <2>1, ServiceReturns
<1> QED
  BY <1>1, <1>2

\* The device executes accepted operations that were not executed before.
LEMMA ServiceDevice ==
  ASSUME RunOnce', NEW b \in Batches, DeviceStep(b)
  PROVE  Service!Next \/ UNCHANGED Service!vars
<1>1. UNCHANGED <<op_cnt, call, pc, ret>> /\ \E s : executed' = executed \union OpsDone(b, s)
  BY DEF DeviceStep, BatchSucceeds, BatchFails, filling, client
<1>2. executed' \subseteq 1 .. op_cnt
  BY <1>1 DEF RunOnce
<1> DEFINE ops == executed' \ executed
<1>3. executed' = executed \union ops /\ ops \subseteq (1 .. op_cnt) \ executed
  BY <1>1, <1>2
<1>4. CASE ops = {}
  BY <1>1, <1>3, <1>4 DEF Service!vars
<1>5. CASE ops # {}
  <2>1. ops \in (SUBSET ((1 .. op_cnt) \ executed)) \ {{}}
    BY <1>3, <1>5
  <2>2. Service!Execute
    BY <1>1, <1>3, <2>1 DEF Service!Execute
  <2> QED
    BY <2>2 DEF Service!Next
<1> QED
  BY <1>4, <1>5

\* The engine, with its rings, retries and the device, implements the service:
\* each accepted operation is executed once, and calls return what they promise.
THEOREM EngineImplementsService == ASSUME NoOvertaking PROVE Spec => ImplementsService
<1>1. Init => Service!Init
  BY ServiceInit
<1>2. IInv /\ IInv' /\ [Next]_vars => [Service!Next]_(Service!vars)
  <2> SUFFICES ASSUME IInv, IInv', [Next]_vars PROVE Service!Next \/ UNCHANGED Service!vars
    OBVIOUS
  <2>1. CASE UNCHANGED vars
    BY <2>1 DEF vars, Service!vars, filling, hardware, client
  <2> QED
    BY <2>1, ServiceCalls, ServiceClient, ServiceDevice DEF Next, IInv, OpInv
<1> QED
  BY <1>1, <1>2, BothLayers, PTL DEF Spec, ImplementsService, Service!Spec
=============================================================================

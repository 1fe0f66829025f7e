----------------------------- MODULE CoroShuffle -----------------------------
(***************************************************************************)
(* example/coro_demo.cpp: coroutines distribute their elements over        *)
(* groups.  A coroutine has a buffer and a DSAbatch per group, and one     *)
(* DSAop that moves a full buffer to the group; while it waits it yields,  *)
(* and the main loop resumes the coroutines in turn.                       *)
(* Before that, the coroutines count the elements of the groups, and       *)
(* worker 0 allocates them once everyone has counted.                      *)
(***************************************************************************)
EXTENDS Copies

CONSTANTS
  coro,                 \* workers are 0 .. coro - 1
  group,                \* groups are 0 .. group - 1
  element_per_co, buffer_size,
  Hashes                \* functions from elements to groups

Workers == 0 .. coro - 1
Groups == 0 .. group - 1
Items == Workers \X (0 .. element_per_co - 1)

ASSUME CoroAssumption ==
  /\ coro \in Nat \ {0} /\ group \in Nat /\ element_per_co \in Nat /\ buffer_size \in Nat \ {0}
  /\ Hashes \subseteq [Items -> Groups]

VARIABLES
  hash,
  buc_cap, barr,        \* counters the coroutines share
  len, capacity,        \* of the groups: elements pushed, elements allocated
  turn,                 \* the coroutine that runs
  co                    \* of each worker: where it is, the groups it has offloaded
                        \* in its last loop, and its buffer_cnt

shuffling == <<hash, buc_cap, barr, len, capacity, turn, co>>
cvars == <<mem, pending, shuffling>>

\* The element e is found at before(e) and goes to a slot of a buffer, then of
\* a group.
before(e) == <<"before", e[1], e[2]>>
Slot(w, g, k) == <<"buffer", w, g, k>>
after_dsa(g, k) == <<"group", g, k>>
Storage == {before(e) : e \in Items}
           \union {Slot(w, g, k) : w \in Workers, g \in Groups, k \in 0 .. buffer_size - 1}
           \union {after_dsa(g, k) : g \in Groups, k \in 0 .. Cardinality(Items) - 1}
Nothing == <<>>

NoneYet == [g \in Groups |-> 0]

CoroInit ==
  /\ hash \in Hashes
  /\ mem = [p \in Storage |-> IF p[1] = "before" THEN <<p[2], p[3]>> ELSE Nothing]
  /\ pending = {} /\ barr = coro /\ turn = 0
  /\ buc_cap = NoneYet /\ len = NoneYet /\ capacity = NoneYet
  /\ co = [w \in Workers |-> [at |-> "count", i |-> 0, left |-> 0, buf |-> 0, buffer_cnt |-> NoneYet]]

me == co[turn]
Go(r) == co' = [co EXCEPT ![turn] = r]
GoTo(place) == Go([me EXCEPT !.at = place])

\* yield_out(), or the end of run(): the next coroutine that is not over runs.
\* The first turn of each is its construction; nothing else runs before.
Yield ==
  LET alive == {w \in Workers : co'[w].at # "over"}
      order(w) == (w - turn - 1) % coro
  IN  \/ alive = {} /\ UNCHANGED turn
      \/ turn' \in alive /\ \A w \in alive : order(turn') <= order(w)

Count ==
  /\ me.at = "count"
  /\ buc_cap' = [g \in Groups |-> buc_cap[g] + Cardinality({k \in 0 .. element_per_co - 1 : hash[<<turn, k>>] = g})]
  /\ barr' = barr - 1
  /\ GoTo("barrier")
  /\ UNCHANGED <<mem, pending, hash, len, capacity, turn>>

Passed == barr = -1

\* while( barr->load() != -1 )
Barrier ==
  /\ me.at = "barrier"
  /\ \/ Passed /\ GoTo("copy") /\ UNCHANGED <<barr, capacity, turn>>
     \/ ~Passed /\ turn = 0 /\ barr = 0 /\ capacity' = buc_cap /\ barr' = -1 /\ UNCHANGED <<turn, co>>
     \/ ~Passed /\ (turn # 0 \/ barr # 0) /\ UNCHANGED <<barr, capacity, co>> /\ Yield
  /\ UNCHANGED <<mem, pending, hash, buc_cap, len>>

batch_(w, g) == <<"batch", w, g>>
memcpy_(w) == <<"op", w>>

\* The loop over the elements: one of them goes to the buffer of its group.
CopyElement ==
  /\ me.at = "copy" /\ me.i < element_per_co
  /\ LET e == <<turn, me.i>>
         g == hash[e]
         n == me.buffer_cnt[g]
     IN  /\ Submit({Copy(batch_(turn, g), Slot(turn, g, n), before(e))})
         /\ Go([at |-> IF n + 1 = buffer_size THEN "offload" ELSE "copy",
                i |-> me.i + 1, left |-> me.left, buf |-> g, buffer_cnt |-> [me.buffer_cnt EXCEPT ![g] = n + 1]])
  /\ UNCHANGED <<hash, buc_cap, barr, len, capacity, turn>>

\* for( i < group ) offload( i ): the buffers that are left over, the groups in
\* order; an empty buffer is moved as well, with length 0.
Leftover ==
  /\ me.at = "copy" /\ me.i = element_per_co
  /\ \/ me.left = group /\ GoTo("over") /\ Yield
     \/ /\ me.left < group /\ UNCHANGED turn
        /\ Go([me EXCEPT !.at = "offload", !.buf = me.left, !.left = me.left + 1])
  /\ UNCHANGED <<mem, pending, hash, buc_cap, barr, len, capacity>>

\* Mutant of Settled: the buffer is moved before its elements have arrived.
Settled_Not(by) == TRUE
Settled(by) == Finished(by)

\* What the DSAop of the worker moves: its buffer, to the end of the group.
Offloaded ==
  {Copy(memcpy_(turn), after_dsa(me.buf, len[me.buf] + k), Slot(turn, me.buf, k)) :
     k \in 0 .. me.buffer_cnt[me.buf] - 1}

\* offload: while( !batch_[buc_id].check() ) yield_out(), then push_get_addr.
Offload ==
  /\ me.at = "offload"
  /\ \/ ~Settled(batch_(turn, me.buf)) /\ UNCHANGED <<mem, pending, len, co>> /\ Yield
     \/ /\ Settled(batch_(turn, me.buf))
        /\ Submit(Offloaded)
        /\ len' = [len EXCEPT ![me.buf] = @ + me.buffer_cnt[me.buf]]
        /\ GoTo("moving") /\ UNCHANGED turn
  /\ UNCHANGED <<hash, buc_cap, barr, capacity>>

\* while( !memcpy_.check() ) yield_out()
Moving ==
  /\ me.at = "moving"
  /\ \/ ~Settled(memcpy_(turn)) /\ UNCHANGED co /\ Yield
     \/ /\ Settled(memcpy_(turn)) /\ UNCHANGED turn
        /\ Go([me EXCEPT !.at = "copy", !.buffer_cnt = [@ EXCEPT ![me.buf] = 0]])
  /\ UNCHANGED <<mem, pending, hash, buc_cap, barr, len, capacity>>

CoroDevice == Perform /\ UNCHANGED shuffling

CoroNext == Count \/ Barrier \/ CopyElement \/ Leftover \/ Offload \/ Moving \/ CoroDevice

CoroSpec == CoroInit /\ [][CoroNext]_cvars

-----------------------------------------------------------------------------
\* While a coroutine runs, a buffer is not filled again while it is moved, nor
\* moved while it is filled.
BuffersSettle ==
  (\E w \in Workers : co[w].at # "over") =>
    \A c \in pending, d \in pending : c.dst # d.src /\ (c # d => c.dst # d.dst)

\* Nobody pushes beyond what worker 0 has allocated (the assert of line 69).
PushFits == \A g \in Groups : len[g] <= capacity[g]

\* At the end each group holds the elements that hash to it, each of them once
\* (lines 218-228 look at the hash of what is there).
Shuffled ==
  (\A w \in Workers : co[w].at = "over") =>
    \A g \in Groups :
      /\ len[g] = Cardinality({e \in Items : hash[e] = g})
      /\ {mem[after_dsa(g, k)] : k \in 0 .. len[g] - 1} = {e \in Items : hash[e] = g}

\* coro_demo: however the coroutines and the device interleave, no buffer is
\* reused while it is copied from, the groups have room for what is pushed, and
\* each ends with its own elements, each once.
CoroShuffleRight == BuffersSettle /\ PushFits /\ Shuffled
=============================================================================

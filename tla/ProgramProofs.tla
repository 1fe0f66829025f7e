--------------------------- MODULE ProgramProofs ---------------------------
(***************************************************************************)
(* Theorems about five of the programs of MCPrograms: the shuffle of       *)
(* shuffle_dsa.cpp, for any number of threads, strings and rounds, the     *)
(* pure batches, for any number of tasks, of operations and of failures,   *)
(* the rounds of ooo_test.cpp, the set-up script, for any device and any   *)
(* sequence of runs, and the page-fault experiments, for any sizes.        *)
(***************************************************************************)
EXTENDS ThreadShuffle, OooTest, Setup, FaultBench, Recursion, FiniteSetTheorems, TLAPS

-----------------------------------------------------------------------------
(* The shuffle: two atomic counters per pool are enough to keep its copies *)
(* apart and the pools complete.                                           *)

\* A string belongs to one of the pools.
LEMMA AimInPools ==
  ASSUME strings \in Strings, NEW s \in DOMAIN strings
  PROVE  aim(s) \in Threads /\ strings[s].len \in Nat
<1>1. strings[s] \in [len : Nat, hashv : Nat]
  BY ThreadShuffleAssumption
<1>2. strings[s].hashv % thread_cnt \in 0 .. thread_cnt - 1
  BY <1>1, ThreadShuffleAssumption
<1> QED
  BY <1>1, <1>2 DEF aim, Threads

\* The strings are those of the threads.
LEMMA StringNames ==
  ASSUME strings \in Strings
  PROVE  DOMAIN strings = Threads \X (0 .. str_per_thread - 1)
  BY ThreadShuffleAssumption

\* The string of a thread that has one left.
LEMMA NowIsString ==
  ASSUME ShuffleTypes, NEW t \in Threads, thr[t].i < str_per_thread
  PROVE  now(t) \in DOMAIN strings
  BY StringNames, ThreadShuffleAssumption DEF ShuffleTypes, now

LEMMA LiveIsRecord ==
  ASSUME ShuffleTypes
  PROVE  \A r \in Recorded : /\ r \in [at : Threads \X Nat, from : DOMAIN strings, offset : Nat]
                         /\ r.from = <<r.from[1], r.from[2]>> /\ r.from[1] \in Threads
                         /\ r.from[2] \in 0 .. str_per_thread - 1
  BY StringNames DEF ShuffleTypes, Recorded

\* Room from the counter on is apart from all room below it.
LEMMA NewRoomApart ==
  ASSUME ShuffleTypes, NEW s \in DOMAIN strings, NEW r, NEW p, Taken(r, p)
  PROVE  /\ Apart(s, memory_pool_used[aim(s)], r, p)
         /\ Apart(r, p, s, memory_pool_used[aim(s)])
<1>1. aim(s) \in Threads /\ strings[s].len \in Nat /\ memory_pool_used[aim(s)] \in Nat
  BY AimInPools DEF ShuffleTypes
<1>2. aim(r) \in Threads /\ strings[r].len \in Nat /\ p \in Nat
      /\ p + strings[r].len <= memory_pool_used[aim(r)] /\ memory_pool_used[aim(r)] \in Nat
  BY AimInPools DEF Taken, ShuffleTypes
<1>3. ASSUME NEW x \in Extent(s, memory_pool_used[aim(s)]), x \in Extent(r, p) PROVE FALSE
  <2>1. PICK b \in memory_pool_used[aim(s)] .. memory_pool_used[aim(s)] + strings[s].len - 1 : x = <<aim(s), b>>
    BY <1>3 DEF Extent
  <2>2. PICK e \in p .. p + strings[r].len - 1 : x = <<aim(r), e>>
    BY <1>3 DEF Extent
  <2>3. aim(s) = aim(r) /\ b = e
    BY <2>1, <2>2
  <2> QED
    BY <1>1, <1>2, <2>1, <2>2, <2>3
<1> QED
  BY <1>3 DEF Apart

LEMMA ShuffleInit == ASSUME Init PROVE ShuffleInv
<1>1. ShuffleTypes
  BY ThreadShuffleAssumption DEF Init, ShuffleTypes, Ready
<1>2. Recorded = {} /\ Rooms = {}
  BY DEF Init, Recorded, Rooms, InHand, Ready
<1> QED
  BY <1>1, <1>2 DEF Init, ShuffleInv, Indexed, Tiled, InFlight, Ready

-----------------------------------------------------------------------------
(* A room is taken. *)

LEMMA TakeRoomStep ==
  ASSUME ShuffleInv, NEW t \in Threads, TakeRoom(t)
  PROVE  ShuffleInv'
<1>0. ShuffleTypes /\ Indexed /\ Tiled /\ InFlight
  BY DEF ShuffleInv
<1>s. /\ now(t) \in DOMAIN strings /\ aim(now(t)) \in Threads /\ strings[now(t)].len \in Nat
      /\ memory_pool_used[aim(now(t))] \in Nat
  BY <1>0, NowIsString, AimInPools DEF TakeRoom, ShuffleTypes
<1>1. PICK s \in DOMAIN strings, a \in Threads, o \in Nat :
        s = now(t) /\ a = aim(s) /\ o = memory_pool_used[a] /\ strings[s].len \in Nat
  BY <1>s
<1>2. /\ thr' = [u \in Threads |-> IF u = t THEN [thr[t] EXCEPT !.pc = "index", !.offset = o] ELSE thr[u]]
      /\ thr[t].pc = "room" /\ thr[t].i < str_per_thread
      /\ memory_pool_used' = [memory_pool_used EXCEPT ![a] = @ + strings[s].len]
      /\ UNCHANGED <<strings, str_cnt, after_shuffle, flying, landed>>
  BY <1>0, <1>1 DEF TakeRoom, ShuffleTypes
<1>3. /\ thr'[t].pc = "index" /\ thr'[t].offset = o
      /\ \A u \in Threads : thr'[u].i = thr[u].i /\ (u # t => thr'[u] = thr[u])
      /\ \A u \in Threads : thr'[u].pc = "joined" <=> thr[u].pc = "joined"
  BY <1>0, <1>2 DEF ShuffleTypes
<1>4. \A q \in Threads : /\ memory_pool_used'[q] \in Nat /\ memory_pool_used[q] \in Nat
                         /\ memory_pool_used'[q] = IF q = a THEN o + strings[s].len ELSE memory_pool_used[q]
                         /\ memory_pool_used'[q] >= memory_pool_used[q]
  BY <1>0, <1>1, <1>2 DEF ShuffleTypes
<1>5. ShuffleTypes'
  <2>1. memory_pool_used' \in [Threads -> Nat]
    BY <1>0, <1>1, <1>2 DEF ShuffleTypes
  <2>2. thr' \in [Threads -> [pc : {"room", "index", "joined"}, i : 0 .. str_per_thread, offset : Nat]]
    BY <1>0, <1>1, <1>2 DEF ShuffleTypes
  <2> QED
    BY <1>0, <1>2, <1>3, <2>1, <2>2 DEF ShuffleTypes
<1>6. /\ Recorded' = Recorded /\ InHand' = InHand \union {t} /\ t \notin InHand
      /\ \A u \in Threads : now(u)' = now(u)
      /\ \A r : aim(r)' = aim(r)
      /\ \A r, p : Extent(r, p)' = Extent(r, p)
  BY <1>2, <1>3 DEF Recorded, InHand, now, aim, Extent
<1>7. Rooms' = Rooms \union {Room(s, o)}
  <2>1. \A u \in InHand : Room(now(u), thr[u].offset)' = Room(now(u), thr[u].offset)
    BY <1>3, <1>6 DEF Room, InHand
  <2>2. Room(now(t), thr[t].offset)' = Room(s, o)
    BY <1>1, <1>3, <1>6 DEF Room
  <2> QED
    BY <1>6, <2>1, <2>2 DEF Rooms, Room
<1>8. Indexed'
  <2>1. \A r \in Recorded : r.from[1] \in Threads
    BY <1>0, LiveIsRecord
  <2>2. \A r \in Recorded' : r.at[1] = aim(r.from)' /\ r.from[2] < thr'[r.from[1]].i
    BY <1>0, <1>3, <1>6, <2>1 DEF Indexed
  <2>3. \A p \in Threads : \A k \in 0 .. str_cnt'[p] - 1 : \E r \in Recorded' : r.at = <<p, k>>
    BY <1>0, <1>2, <1>6 DEF Indexed
  <2>4. \A u \in Threads : \A k \in 0 .. thr'[u].i - 1 : \E r \in Recorded' : r.from = <<u, k>>
    BY <1>0, <1>3, <1>6 DEF Indexed
  <2> QED
    BY <1>0, <1>6, <2>2, <2>3, <2>4 DEF Indexed
<1>9. \A r, p : Taken(r, p) => Taken(r, p)'
  <2>1. ASSUME NEW r, NEW p, Taken(r, p) PROVE Taken(r, p)'
    <3>1. aim(r) \in Threads /\ strings[r].len \in Nat /\ p \in Nat
      BY <2>1, <1>0, AimInPools DEF Taken, ShuffleTypes
    <3> QED
      BY <1>2, <1>4, <1>6, <2>1, <3>1 DEF Taken
  <2> QED
    BY <2>1
<1>10. Taken(s, o)'
  BY <1>1, <1>2, <1>4, <1>6 DEF Taken
<1>11. Tiled'
  <2>1. \A b \in Rooms : Apart(s, o, b.from, b.offset) /\ Apart(b.from, b.offset, s, o)
    BY <1>0, <1>1, NewRoomApart DEF Tiled
  <2>2. Room(s, o).from = s /\ Room(s, o).offset = o
    BY DEF Room
  <2>3. \A b \in Rooms' : Taken(b.from, b.offset)'
    BY <1>0, <1>7, <1>9, <1>10, <2>2 DEF Tiled
  <2>4. \A b, c \in Rooms' : b # c => Apart(b.from, b.offset, c.from, c.offset)
    BY <1>0, <1>7, <2>1, <2>2 DEF Tiled
  <2>5. ASSUME NEW p \in Threads, NEW x \in 0 .. memory_pool_used'[p] - 1
        PROVE  \E b \in Rooms' : <<p, x>> \in Extent(b.from, b.offset)
    <3>1. CASE x <= memory_pool_used[p] - 1
      BY <1>0, <1>4, <1>7, <2>5, <3>1 DEF Tiled
    <3>2. CASE ~(x <= memory_pool_used[p] - 1)
      <4>1. p = a /\ x \in o .. o + strings[s].len - 1
        BY <1>1, <1>4, <2>5, <3>2
      <4>2. <<p, x>> \in Extent(s, o)
        BY <1>1, <4>1 DEF Extent
      <4> QED
        BY <1>7, <2>2, <4>2
    <3> QED
      BY <3>1, <3>2
  <2>6. \A b, c \in Rooms' : Apart(b.from, b.offset, c.from, c.offset)' <=> Apart(b.from, b.offset, c.from, c.offset)
    BY <1>6 DEF Apart
  <2> QED
    BY <1>6, <2>3, <2>4, <2>5, <2>6 DEF Tiled
<1>12. InFlight'
  BY <1>0, <1>2, <1>3, <1>6 DEF InFlight
<1> QED
  BY <1>5, <1>8, <1>11, <1>12 DEF ShuffleInv

-----------------------------------------------------------------------------
(* The index is taken, the record written, the copy submitted: the room      *)
(* changes from the hand to a record.                                        *)

LEMMA TakeIndexStep ==
  ASSUME ShuffleInv, NEW t \in Threads, TakeIndex(t)
  PROVE  ShuffleInv'
<1>0. ShuffleTypes /\ Indexed /\ Tiled /\ InFlight
  BY DEF ShuffleInv
<1>s. thr[t].i < str_per_thread /\ thr[t].offset \in Nat /\ thr[t].i \in Nat /\ t \in InHand
  BY <1>0, ThreadShuffleAssumption DEF TakeIndex, ShuffleTypes, InHand
<1>t. now(t) \in DOMAIN strings /\ aim(now(t)) \in Threads /\ str_cnt[aim(now(t))] \in Nat
  BY <1>0, <1>s, NowIsString, AimInPools DEF ShuffleTypes
<1>1. PICK s \in DOMAIN strings, a \in Threads, k \in Nat, o \in Nat, i \in Nat :
        s = now(t) /\ a = aim(s) /\ k = str_cnt[a] /\ o = thr[t].offset /\ i = thr[t].i
  BY <1>s, <1>t
<1> DEFINE n == [at |-> <<a, k>>, from |-> s, offset |-> o]
           c == [by |-> t, from |-> s, offset |-> o]
<1>2. /\ thr[t].pc = "index"
      /\ str_cnt' = [str_cnt EXCEPT ![a] = @ + 1]
      /\ after_shuffle' = {r \in after_shuffle : r.at # <<a, k>>} \union {n}
      /\ flying' = flying \union {c}
      /\ thr' = [u \in Threads |-> IF u = t THEN [pc |-> "room", i |-> i + 1, offset |-> 0] ELSE thr[u]]
      /\ UNCHANGED <<strings, memory_pool_used, landed>>
  BY <1>0, <1>1 DEF TakeIndex, ShuffleTypes
<1>3. s = <<t, i>> /\ i < str_per_thread /\ i + 1 \in 0 .. str_per_thread
  BY <1>1, <1>s, ThreadShuffleAssumption DEF now
<1>n. n.at = <<a, k>> /\ n.from = s /\ n.offset = o /\ n \in [at : Threads \X Nat, from : DOMAIN strings, offset : Nat]
  OBVIOUS
<1>c. c.by = t /\ c.from = s /\ c.offset = o /\ c \in [by : Threads, from : DOMAIN strings, offset : Nat]
  OBVIOUS
<1> HIDE DEF n, c
<1>4. /\ thr'[t] = [pc |-> "room", i |-> i + 1, offset |-> 0]
      /\ \A u \in Threads : u # t => thr'[u] = thr[u]
      /\ str_cnt' \in [Threads -> Nat] /\ str_cnt'[a] = k + 1
      /\ \A p \in Threads : p # a => str_cnt'[p] = str_cnt[p]
  BY <1>0, <1>1, <1>2 DEF ShuffleTypes
<1>5. ShuffleTypes'
  <2>1. thr' \in [Threads -> [pc : {"room", "index", "joined"}, i : 0 .. str_per_thread, offset : Nat]]
    BY <1>0, <1>2, <1>3 DEF ShuffleTypes
  <2>2. \A u \in Threads : /\ thr'[u].pc = "index" => thr'[u].i < str_per_thread
                           /\ thr'[u].pc = "joined" => thr'[u].i = str_per_thread
    BY <1>0, <1>4 DEF ShuffleTypes
  <2>3. after_shuffle' \subseteq [at : Threads \X Nat, from : DOMAIN strings, offset : Nat]
    BY <1>0, <1>2, <1>n DEF ShuffleTypes
  <2>4. flying' \subseteq [by : Threads, from : DOMAIN strings, offset : Nat]
    BY <1>0, <1>2, <1>c DEF ShuffleTypes
  <2> QED
    BY <1>0, <1>2, <1>4, <2>1, <2>2, <2>3, <2>4 DEF ShuffleTypes
<1>6. Recorded' = Recorded \union {n}
  <2>1. \A r \in after_shuffle : r.at = <<r.at[1], r.at[2]>> /\ r.at[1] \in Threads /\ r.at[2] \in Nat
    BY <1>0 DEF ShuffleTypes
  <2>2. \A r \in after_shuffle : r \in Recorded => r.at # <<a, k>>
    BY <1>1 DEF Recorded
  <2>3. ASSUME NEW r \in after_shuffle, r.at # <<a, k>>
        PROVE  r.at[2] < str_cnt'[r.at[1]] <=> r.at[2] < str_cnt[r.at[1]]
    <3>1. CASE r.at[1] = a
      <4>1. r.at[2] # k /\ r.at[2] \in Nat
        BY <2>1, <2>3, <3>1
      <4> QED
        BY <1>1, <1>4, <3>1, <4>1
    <3>2. CASE r.at[1] # a
      BY <1>4, <2>1, <3>2
    <3> QED
      BY <3>1, <3>2
  <2>4. n.at[2] < str_cnt'[n.at[1]]
    BY <1>4, <1>n
  <2> QED
    BY <1>2, <2>2, <2>3, <2>4 DEF Recorded
<1>7. /\ InHand = InHand' \union {t} /\ t \notin InHand'
      /\ \A u \in InHand' : u \in Threads /\ now(u)' = now(u) /\ thr'[u] = thr[u]
      /\ \A r : aim(r)' = aim(r)
      /\ \A r, p : Extent(r, p)' = Extent(r, p)
      /\ \A r, p : Taken(r, p)' <=> Taken(r, p)
      /\ \A r, p, q, x : Apart(r, p, q, x)' <=> Apart(r, p, q, x)
  BY <1>2, <1>4 DEF InHand, now, aim, Extent, Taken, Apart
<1>8. Rooms' = Rooms
  <2>1. Room(n.from, n.offset) = Room(now(t), thr[t].offset)
    BY <1>1, <1>n DEF Room
  <2>2. {Room(now(u), thr[u].offset) : u \in InHand} =
          {Room(now(u), thr[u].offset)' : u \in InHand'} \union {Room(now(t), thr[t].offset)}
    BY <1>7 DEF Room
  <2>3. {Room(r.from, r.offset) : r \in Recorded'} =
          {Room(r.from, r.offset) : r \in Recorded} \union {Room(n.from, n.offset)}
    BY <1>6
  <2> QED
    BY <2>1, <2>2, <2>3 DEF Rooms, Room
<1>9. Indexed'
  <2>0. \A r \in Recorded : /\ r.from = <<r.from[1], r.from[2]>> /\ r.from[1] \in Threads /\ r.from[2] \in Nat
                        /\ r.at = <<r.at[1], r.at[2]>> /\ r.at[1] \in Threads /\ r.at[2] \in Nat
                        /\ r.at[2] < str_cnt[r.at[1]] /\ r.from[2] < thr[r.from[1]].i
    BY <1>0, LiveIsRecord, ThreadShuffleAssumption DEF Recorded, Indexed
  <2>1. ASSUME NEW r \in Recorded' PROVE r.at[1] = aim(r.from)' /\ r.from[2] < thr'[r.from[1]].i
    <3>1. CASE r = n
      BY <1>1, <1>3, <1>4, <1>7, <1>n, <3>1
    <3>2. CASE r \in Recorded
      <4>1. r.at[1] = aim(r.from)
        BY <1>0, <3>2 DEF Indexed
      <4>2. r.from[2] < thr'[r.from[1]].i
        BY <1>1, <1>4, <2>0, <3>2
      <4> QED
        BY <1>7, <4>1, <4>2
    <3> QED
      BY <1>6, <2>1, <3>1, <3>2
  <2>2. ASSUME NEW p \in Threads, NEW j \in 0 .. str_cnt'[p] - 1 PROVE \E r \in Recorded' : r.at = <<p, j>>
    <3>1. CASE p = a /\ j = k
      BY <1>6, <1>n, <3>1
    <3>2. CASE ~(p = a /\ j = k)
      <4>1. j \in 0 .. str_cnt[p] - 1
        BY <1>1, <1>4, <2>2, <3>2
      <4> QED
        BY <1>0, <1>6, <4>1 DEF Indexed
    <3> QED
      BY <3>1, <3>2
  <2>3. ASSUME NEW u \in Threads, NEW j \in 0 .. thr'[u].i - 1 PROVE \E r \in Recorded' : r.from = <<u, j>>
    <3>1. CASE u = t /\ j = i
      BY <1>3, <1>6, <1>n, <3>1
    <3>2. CASE ~(u = t /\ j = i)
      <4>1. j \in 0 .. thr[u].i - 1
        BY <1>1, <1>4, <2>3, <3>2
      <4> QED
        BY <1>0, <1>6, <4>1 DEF Indexed
    <3> QED
      BY <3>1, <3>2
  <2>4. \A r \in Recorded : r.at # n.at /\ r.from # n.from
    BY <1>1, <1>3, <1>n, <2>0
  <2>5. \A r, q \in Recorded' : r # q => r.at # q.at /\ r.from # q.from
    BY <1>0, <1>6, <2>4 DEF Indexed
  <2> QED
    BY <2>1, <2>2, <2>3, <2>5 DEF Indexed
<1>10. Tiled'
  BY <1>0, <1>2, <1>7, <1>8 DEF Tiled
<1>11. InFlight'
  <2>1. ASSUME NEW d \in flying'
        PROVE  /\ d.by = d.from[1] /\ d.by \in Threads /\ thr'[d.by].pc # "joined"
               /\ \E r \in Recorded' : r.from = d.from /\ r.offset = d.offset
    <3>1. CASE d = c
      <4>1. d.by = d.from[1] /\ d.by \in Threads /\ thr'[d.by].pc # "joined"
        BY <1>3, <1>4, <1>c, <3>1
      <4>2. n \in Recorded' /\ n.from = d.from /\ n.offset = d.offset
        BY <1>6, <1>n, <1>c, <3>1
      <4> QED
        BY <4>1, <4>2
    <3>2. CASE d \in flying
      <4>1. thr'[d.by].pc # "joined"
        BY <1>0, <1>4, <3>2 DEF InFlight
      <4> QED
        BY <1>0, <1>6, <3>2, <4>1 DEF InFlight
    <3> QED
      BY <1>2, <2>1, <3>1, <3>2
  <2>2. ASSUME NEW r \in Recorded' PROVE r.from \in landed' \/ \E d \in flying' : d.from = r.from
    <3>1. CASE r = n
      BY <1>2, <1>c, <1>n, <3>1
    <3>2. CASE r \in Recorded
      BY <1>0, <1>2, <3>2 DEF InFlight
    <3> QED
      BY <1>6, <2>2, <3>1, <3>2
  <2> QED
    BY <2>1, <2>2 DEF InFlight
<1> QED
  BY <1>5, <1>9, <1>10, <1>11 DEF ShuffleInv

-----------------------------------------------------------------------------
(* The other steps. *)

LEMMA EndStep ==
  ASSUME ShuffleInv, NEW t \in Threads, End(t)
  PROVE  ShuffleInv'
<1>0. ShuffleTypes /\ Indexed /\ Tiled /\ InFlight
  BY DEF ShuffleInv
<1>1. /\ thr' = [u \in Threads |-> IF u = t THEN [thr[t] EXCEPT !.pc = "joined"] ELSE thr[u]]
      /\ thr[t].pc = "room" /\ thr[t].i = str_per_thread /\ \A d \in flying : d.by # t
      /\ UNCHANGED <<strings, memory_pool_used, str_cnt, after_shuffle, flying, landed>>
  BY <1>0 DEF End, Waited, ShuffleTypes
<1>2. /\ \A u \in Threads : thr'[u].i = thr[u].i /\ (u # t => thr'[u] = thr[u])
      /\ thr'[t].pc = "joined"
  BY <1>0, <1>1 DEF ShuffleTypes
<1>3. ShuffleTypes'
  <2>1. thr' \in [Threads -> [pc : {"room", "index", "joined"}, i : 0 .. str_per_thread, offset : Nat]]
    BY <1>0, <1>1 DEF ShuffleTypes
  <2> QED
    BY <1>0, <1>1, <1>2, <2>1 DEF ShuffleTypes
<1>4. /\ Recorded' = Recorded /\ InHand' = InHand
      /\ \A u \in InHand : thr'[u] = thr[u]
      /\ \A u : now(u)' = <<u, thr'[u].i>> /\ now(u) = <<u, thr[u].i>>
      /\ \A r : aim(r)' = aim(r)
      /\ \A r, p : Extent(r, p)' = Extent(r, p)
      /\ \A r, p : Taken(r, p)' <=> Taken(r, p)
      /\ \A r, p, q, x : Apart(r, p, q, x)' <=> Apart(r, p, q, x)
  BY <1>1, <1>2 DEF Recorded, InHand, now, aim, Extent, Taken, Apart
<1>5. Rooms' = Rooms
  <2>1. \A u \in InHand : Room(now(u), thr[u].offset)' = Room(now(u), thr[u].offset)
    BY <1>4 DEF Room
  <2> QED
    BY <1>4, <2>1 DEF Rooms, Room
<1>6. Indexed'
  <2>1. \A r \in Recorded : r.from[1] \in Threads
    BY <1>0, LiveIsRecord
  <2>2. \A r \in Recorded' : r.at[1] = aim(r.from)' /\ r.from[2] < thr'[r.from[1]].i
    BY <1>0, <1>2, <1>4, <2>1 DEF Indexed
  <2>3. \A u \in Threads : \A k \in 0 .. thr'[u].i - 1 : \E r \in Recorded' : r.from = <<u, k>>
    BY <1>0, <1>2, <1>4 DEF Indexed
  <2> QED
    BY <1>0, <1>1, <1>4, <2>2, <2>3 DEF Indexed
<1>7. Tiled' /\ InFlight'
  BY <1>0, <1>1, <1>2, <1>4, <1>5 DEF Tiled, InFlight
<1> QED
  BY <1>3, <1>6, <1>7 DEF ShuffleInv

LEMMA NewRoundStep == ASSUME ShuffleInv, NewRound PROVE ShuffleInv'
<1>0. ShuffleTypes /\ InFlight
  BY DEF ShuffleInv
<1>1. flying = {}
  BY <1>0 DEF InFlight, NewRound, Joined
<1>2. /\ \A u \in Threads : thr'[u] = [pc |-> "room", i |-> 0, offset |-> 0]
      /\ \A p \in Threads : memory_pool_used'[p] = 0 /\ str_cnt'[p] = 0
  BY DEF NewRound, Ready
<1>3. ShuffleTypes'
  BY <1>0, ThreadShuffleAssumption DEF NewRound, Ready, ShuffleTypes
<1>4. Recorded' = {}
  <2>1. \A r \in after_shuffle' : r.at[1] \in Threads /\ r.at[2] \in Nat
    BY <1>3 DEF ShuffleTypes
  <2> QED
    BY <1>2, <2>1 DEF Recorded
<1>5. InHand' = {}
  BY <1>2 DEF InHand
<1>6. Rooms' = {}
  BY <1>4, <1>5 DEF Rooms
<1>7. Indexed'
  BY <1>2, <1>4 DEF Indexed
<1>8. Tiled'
  BY <1>2, <1>6 DEF Tiled
<1>9. InFlight'
  BY <1>1, <1>4 DEF InFlight, NewRound
<1> QED
  BY <1>3, <1>7, <1>8, <1>9 DEF ShuffleInv

LEMMA DeviceStep == ASSUME ShuffleInv, CopyDone \/ UNCHANGED vars PROVE ShuffleInv'
<1>1. UNCHANGED <<strings, memory_pool_used, str_cnt, after_shuffle, thr>>
  BY DEF CopyDone, vars
<1>2. /\ flying' \subseteq flying /\ landed \subseteq landed'
      /\ \A d \in flying \ flying' : d.from \in landed'
  BY DEF CopyDone, vars
<1>3. /\ Recorded' = Recorded /\ InHand' = InHand /\ Rooms' = Rooms
      /\ \A r : aim(r)' = aim(r)
      /\ \A r, p : Extent(r, p)' = Extent(r, p)
      /\ \A r, p : Taken(r, p)' <=> Taken(r, p)
      /\ \A r, p, q, x : Apart(r, p, q, x)' <=> Apart(r, p, q, x)
  BY <1>1 DEF Recorded, InHand, Rooms, Room, now, aim, Extent, Taken, Apart
<1>4. ShuffleTypes' /\ Indexed' /\ Tiled'
  BY <1>1, <1>2, <1>3 DEF ShuffleInv, ShuffleTypes, Indexed, Tiled
<1>5. InFlight'
  BY <1>1, <1>2, <1>3 DEF ShuffleInv, InFlight
<1> QED
  BY <1>4, <1>5 DEF ShuffleInv

LEMMA ShuffleStep == ShuffleInv /\ [Next]_vars => ShuffleInv'
<1> SUFFICES ASSUME ShuffleInv, [Next]_vars PROVE ShuffleInv'
  OBVIOUS
<1>1. CASE NewRound
  BY <1>1, NewRoundStep
<1>2. CASE CopyDone \/ UNCHANGED vars
  BY <1>2, DeviceStep
<1>3. ASSUME NEW t \in Threads, TakeRoom(t) \/ TakeIndex(t) \/ End(t) PROVE ShuffleInv'
  BY <1>3, TakeRoomStep, TakeIndexStep, EndStep
<1> QED
  BY <1>1, <1>2, <1>3 DEF Next

-----------------------------------------------------------------------------
(* What the invariant gives. *)

\* A copy in flight is found by its record, and records have rooms of their own.
LEMMA FlyingApart == ASSUME ShuffleInv PROVE ExtentsApart
<1> SUFFICES ASSUME NEW c \in flying, NEW d \in flying, c # d
             PROVE  Extent(c.from, c.offset) \cap Extent(d.from, d.offset) = {}
  BY DEF ExtentsApart
<1>1. PICK r \in Recorded, q \in Recorded :
        r.from = c.from /\ r.offset = c.offset /\ q.from = d.from /\ q.offset = d.offset
  BY DEF ShuffleInv, InFlight
<1>2. Room(r.from, r.offset) \in Rooms /\ Room(q.from, q.offset) \in Rooms
  BY <1>1 DEF Rooms
<1>3. c.from # d.from \/ c.offset # d.offset
  <2>1. /\ c = [by |-> c.by, from |-> c.from, offset |-> c.offset] /\ c.by = c.from[1]
        /\ d = [by |-> d.by, from |-> d.from, offset |-> d.offset] /\ d.by = d.from[1]
    BY DEF ShuffleInv, ShuffleTypes, InFlight
  <2> QED
    BY <2>1
<1>4. /\ Room(r.from, r.offset) # Room(q.from, q.offset)
      /\ Room(r.from, r.offset).from = c.from /\ Room(r.from, r.offset).offset = c.offset
      /\ Room(q.from, q.offset).from = d.from /\ Room(q.from, q.offset).offset = d.offset
  BY <1>1, <1>3 DEF Room
<1> QED
  BY <1>2, <1>4 DEF ShuffleInv, Tiled, Apart

\* When all threads are joined no room is in hand and no copy in flight.
LEMMA JoinedTiled == ASSUME ShuffleInv PROVE PoolsTiled
<1> SUFFICES ASSUME Joined, NEW p \in Threads
             PROVE  /\ {r.from : r \in Records(p)} = {s \in DOMAIN strings : aim(s) = p}
                    /\ {r.at[2] : r \in Records(p)} = 0 .. str_cnt[p] - 1
                    /\ \A r, q \in Records(p) :
                         r # q => /\ r.at # q.at /\ r.from # q.from
                                  /\ Extent(r.from, r.offset) \cap Extent(q.from, q.offset) = {}
                    /\ \A r \in Records(p) : r.from \in landed
                    /\ UNION {Extent(r.from, r.offset) : r \in Records(p)} = {p} \X (0 .. memory_pool_used[p] - 1)
  BY DEF PoolsTiled
<1>0. ShuffleTypes /\ Indexed /\ Tiled /\ InFlight
  BY DEF ShuffleInv
<1>1. /\ \A r \in Recorded : r \in [at : Threads \X Nat, from : DOMAIN strings, offset : Nat]
      /\ \A r \in Records(p) : r \in Recorded /\ r.at[1] = p /\ aim(r.from) = p
      /\ \A r \in Recorded : aim(r.from) = p => r \in Records(p)
  <2>1. \A r \in Recorded : r \in [at : Threads \X Nat, from : DOMAIN strings, offset : Nat]
    BY <1>0, LiveIsRecord
  <2>2. \A r \in after_shuffle : r \in Records(p) <=> r \in Recorded /\ r.at[1] = p
    BY DEF Records, Recorded
  <2>3. \A r \in Recorded : r \in after_shuffle /\ r.at[1] = aim(r.from)
    BY <1>0 DEF Recorded, Indexed
  <2>4. \A r \in Records(p) : r \in after_shuffle
    BY DEF Records
  <2> QED
    BY <2>1, <2>2, <2>3, <2>4
<1>2. {r.from : r \in Records(p)} = {s \in DOMAIN strings : aim(s) = p}
  <2>1. ASSUME NEW s \in DOMAIN strings, aim(s) = p PROVE \E r \in Records(p) : r.from = s
    <3>1. PICK t \in Threads, k \in 0 .. str_per_thread - 1 : s = <<t, k>>
      BY <1>0, StringNames DEF ShuffleTypes
    <3>2. thr[t].i = str_per_thread
      BY <1>0 DEF Joined, ShuffleTypes
    <3>3. PICK r \in Recorded : r.from = s
      BY <1>0, <3>1, <3>2 DEF Indexed
    <3> QED
      BY <1>1, <2>1, <3>3
  <2> QED
    BY <1>1, <2>1
<1>3. {r.at[2] : r \in Records(p)} = 0 .. str_cnt[p] - 1
  <2>1. ASSUME NEW k \in 0 .. str_cnt[p] - 1 PROVE \E r \in Records(p) : r.at[2] = k
    <3>1. PICK r \in Recorded : r.at = <<p, k>>
      BY <1>0 DEF Indexed
    <3>2. aim(r.from) = p /\ r.at[2] = k
      BY <1>0, <3>1 DEF Indexed
    <3> QED
      BY <1>1, <3>2
  <2>2. ASSUME NEW r \in Records(p) PROVE r.at[2] \in 0 .. str_cnt[p] - 1
    <3>1. r.at[2] \in Nat /\ str_cnt[p] \in Nat /\ r.at[2] < str_cnt[p]
      BY <1>0, <1>1 DEF Records, ShuffleTypes
    <3> QED
      BY <3>1
  <2> QED
    BY <2>1, <2>2
<1>4. \A r \in Records(p) : /\ Room(r.from, r.offset) \in Rooms
                            /\ Room(r.from, r.offset).from = r.from /\ Room(r.from, r.offset).offset = r.offset
  BY <1>1 DEF Rooms, Room
<1>5. ASSUME NEW r \in Records(p), NEW q \in Records(p), r # q
      PROVE  /\ r.at # q.at /\ r.from # q.from
             /\ Extent(r.from, r.offset) \cap Extent(q.from, q.offset) = {}
  <2>1. r.at # q.at /\ r.from # q.from
    BY <1>0, <1>1, <1>5 DEF Indexed
  <2>2. Room(r.from, r.offset) # Room(q.from, q.offset)
    BY <1>4, <2>1
  <2> QED
    BY <1>0, <1>4, <2>1, <2>2 DEF Tiled, Apart
<1>6. \A r \in Records(p) : r.from \in landed
  <2>1. flying = {}
    BY <1>0 DEF InFlight, Joined
  <2> QED
    BY <1>0, <1>1, <2>1 DEF InFlight
<1>7. UNION {Extent(r.from, r.offset) : r \in Records(p)} = {p} \X (0 .. memory_pool_used[p] - 1)
  <2>1. ASSUME NEW r \in Records(p), NEW b \in Extent(r.from, r.offset)
        PROVE  b \in {p} \X (0 .. memory_pool_used[p] - 1)
    <3>1. Taken(r.from, r.offset) /\ aim(r.from) = p /\ memory_pool_used[p] \in Nat
      BY <1>0, <1>1, <1>4 DEF Tiled, ShuffleTypes
    <3>2. strings[r.from].len \in Nat
      BY <1>0, <3>1, AimInPools DEF Taken, ShuffleTypes
    <3>3. PICK x \in r.offset .. r.offset + strings[r.from].len - 1 : b = <<p, x>>
      BY <2>1, <3>1 DEF Extent
    <3>4. x \in 0 .. memory_pool_used[p] - 1
      BY <3>1, <3>2, <3>3 DEF Taken
    <3> QED
      BY <3>3, <3>4
  <2>2. ASSUME NEW x \in 0 .. memory_pool_used[p] - 1
        PROVE  \E r \in Records(p) : <<p, x>> \in Extent(r.from, r.offset)
    <3>1. PICK a \in Rooms : <<p, x>> \in Extent(a.from, a.offset)
      BY <1>0 DEF Tiled
    <3>2. InHand = {}
      BY DEF InHand, Joined
    <3>3. PICK r \in Recorded : a = Room(r.from, r.offset)
      BY <3>2 DEF Rooms
    <3>4. a.from = r.from /\ a.offset = r.offset
      BY <3>3 DEF Room
    <3>5. aim(r.from) = p
      BY <3>1, <3>4 DEF Extent
    <3> QED
      BY <1>1, <3>1, <3>4, <3>5
  <2> QED
    BY <2>1, <2>2
<1> QED
  BY <1>2, <1>3, <1>5, <1>6, <1>7

\* shuffle_data_thread: however the threads interleave their two fetch_add and
\* whatever copies of any round are in flight, no two of them write the same
\* bytes, and after the join every pool holds its strings, each once, copied,
\* one at each index, from the first byte to the last without gap or overlap.
THEOREM ShuffleCorrect == Spec => []ThreadShuffleRight
<1>1. Init => ShuffleInv
  BY ShuffleInit
<1>2. ShuffleInv /\ [Next]_vars => ShuffleInv'
  BY ShuffleStep
<1>3. ShuffleInv => ThreadShuffleRight
  BY FlyingApart, JoinedTiled DEF ThreadShuffleRight
<1> QED
  BY <1>1, <1>2, <1>3, PTL DEF Spec

-----------------------------------------------------------------------------
(* The pure batches: what DSA_pure_batch_task promises. *)

USE DEF Noop, Positions, Told, Live

-----------------------------------------------------------------------------
(* Types. *)

LEMMA TypesInit == PureInit => PureTypes
  BY PureBatchAssumption DEF PureInit, PureTypes, Each, Idle

LEMMA TypesPut ==
  ASSUME PureTypes, NEW t \in Tasks, desc_cnt[t] < batch_siz, NEW op \in Nat, Put(t, op)
  PROVE  /\ desc_cnt' \in [Tasks -> 0 .. batch_siz]
         /\ descs' \in [Tasks -> [Positions -> Nat]]
         /\ comps' \in [Tasks -> [Positions -> {"NONE", "SUCCESS"}]]
         /\ desc_cnt'[t] = desc_cnt[t] + 1
         /\ \A u \in Tasks : u # t => desc_cnt'[u] = desc_cnt[u] /\ descs'[u] = descs[u]
                                                                 /\ comps'[u] = comps[u]
         /\ \A i \in Positions :
              /\ descs'[t][i] = IF i = desc_cnt[t] THEN op ELSE descs[t][i]
              /\ comps'[t][i] = IF i = desc_cnt[t] THEN "NONE" ELSE comps[t][i]
<1>1. desc_cnt[t] \in Positions
  BY PureBatchAssumption DEF PureTypes
<1>2. desc_cnt \in [Tasks -> 0 .. batch_siz] /\ desc_cnt' = [desc_cnt EXCEPT ![t] = @ + 1]
  BY DEF PureTypes, Put
<1>3. /\ descs \in [Tasks -> [Positions -> Nat]]
      /\ descs' = [descs EXCEPT ![t] = [descs[t] EXCEPT ![desc_cnt[t]] = op]]
  BY DEF PureTypes, Put
<1>4. /\ comps \in [Tasks -> [Positions -> {"NONE", "SUCCESS"}]]
      /\ comps' = [comps EXCEPT ![t] = [comps[t] EXCEPT ![desc_cnt[t]] = "NONE"]]
  BY DEF PureTypes, Put
<1>5. /\ desc_cnt' \in [Tasks -> 0 .. batch_siz] /\ desc_cnt'[t] = desc_cnt[t] + 1
      /\ \A u \in Tasks : u # t => desc_cnt'[u] = desc_cnt[u]
  BY <1>1, <1>2, PureBatchAssumption
<1> HIDE DEF Positions
<1>6. /\ descs' \in [Tasks -> [Positions -> Nat]]
      /\ \A u \in Tasks : u # t => descs'[u] = descs[u]
      /\ \A i \in Positions : descs'[t][i] = IF i = desc_cnt[t] THEN op ELSE descs[t][i]
  BY <1>1, <1>3
<1>7. /\ comps' \in [Tasks -> [Positions -> {"NONE", "SUCCESS"}]]
      /\ \A u \in Tasks : u # t => comps'[u] = comps[u]
      /\ \A i \in Positions : comps'[t][i] = IF i = desc_cnt[t] THEN "NONE" ELSE comps[t][i]
  BY <1>1, <1>4
<1> QED
  BY <1>5, <1>6, <1>7

LEMMA TypesBegin ==
  ASSUME PureTypes, NEW t \in Tasks, NEW n \in 0 .. batch_siz, Begin(t, n)
  PROVE  /\ bcomp' \in [Tasks -> {"NONE", "SUCCESS", "FAIL"}]
         /\ is_doing_flag' \in [Tasks -> BOOLEAN]
         /\ desc_count' \in [Tasks -> 0 .. batch_siz]
         /\ device' \subseteq Tasks
         /\ bcomp'[t] = "NONE" /\ is_doing_flag'[t] /\ desc_count'[t] = n
         /\ \A u \in Tasks : u # t =>
              /\ bcomp'[u] = bcomp[u] /\ is_doing_flag'[u] = is_doing_flag[u]
              /\ desc_count'[u] = desc_count[u]
         /\ \A u \in Tasks : u \in device' <=> u = t \/ u \in device
  BY DEF PureTypes, Begin

\* Operations that are put into a batch that has room keep their places apart:
\* the new one is a no-op or in no other place.
LEMMA PutPlaces ==
  ASSUME PureTypes, Polled, OnePlace, NEW t \in Tasks, desc_cnt[t] < batch_siz, NEW op \in Nat,
         Put(t, op), op # Noop => op > op_cnt, op_cnt' \in {op_cnt, op}, op_cnt' >= op_cnt,
         op <= op_cnt', executed' = executed,
         \A u \in Tasks : is_doing_flag[u] /\ bcomp[u] # "NONE"
                           => is_doing_flag'[u] /\ bcomp'[u] # "NONE"
  PROVE  OnePlace'
<1>1. /\ desc_cnt'[t] = desc_cnt[t] + 1
      /\ \A u \in Tasks : u # t => desc_cnt'[u] = desc_cnt[u] /\ descs'[u] = descs[u]
                                                              /\ comps'[u] = comps[u]
      /\ \A i \in Positions :
            /\ descs'[t][i] = IF i = desc_cnt[t] THEN op ELSE descs[t][i]
            /\ comps'[t][i] = IF i = desc_cnt[t] THEN "NONE" ELSE comps[t][i]
  BY TypesPut
<1>2. \A u \in Tasks : desc_cnt[u] \in 0 .. batch_siz
  BY DEF PureTypes
<1>3. op_cnt \in Nat /\ executed \subseteq 1 .. op_cnt /\ batch_siz \in Nat
  BY PureBatchAssumption DEF PureTypes
\* What is in a place now was in it before, or is the new operation.
<1>4. ASSUME NEW u \in Tasks, NEW i \in Live(u)'
      PROVE  \/ u = t /\ i = desc_cnt[t] /\ descs'[u][i] = op /\ comps'[u][i] = "NONE"
             \/ i \in Live(u) /\ descs'[u][i] = descs[u][i] /\ comps'[u][i] = comps[u][i]
  <2>1. CASE u = t
    BY <1>1, <1>2, <1>3, <2>1
  <2>2. CASE u # t
    BY <1>1, <2>2
  <2> QED
    BY <2>1, <2>2
<1>5. \A u \in Tasks : \A i \in Live(u) :
        descs[u][i] # Noop =>
         /\ descs[u][i] <= op_cnt
         /\ descs[u][i] \in executed <=> comps[u][i] = "SUCCESS"
         /\ comps[u][i] = "SUCCESS" => is_doing_flag[u] /\ bcomp[u] # "NONE"
  BY DEF OnePlace
<1>6. ASSUME NEW u \in Tasks, NEW i \in Live(u), descs[u][i] # Noop
      PROVE  descs[u][i] # op
  <2>1. i \in Positions
    BY <1>2, <1>3
  <2> HIDE DEF Positions
  <2>2. descs[u][i] \in Nat
    BY <2>1 DEF PureTypes
  <2> QED
    BY <1>3, <1>5, <1>6, <2>2
<1>7. ASSUME NEW u \in Tasks, NEW i \in Live(u)', descs'[u][i] # Noop
      PROVE  /\ descs'[u][i] <= op_cnt'
             /\ descs'[u][i] \in executed <=> comps'[u][i] = "SUCCESS"
             /\ comps'[u][i] = "SUCCESS" => is_doing_flag'[u] /\ bcomp'[u] # "NONE"
  <2>1. CASE descs'[u][i] = op /\ comps'[u][i] = "NONE"
    BY <1>3, <1>7, <2>1
  <2>2. CASE i \in Live(u) /\ descs'[u][i] = descs[u][i] /\ comps'[u][i] = comps[u][i]
    <3>1. descs[u][i] \in Nat
      BY <1>2, <1>3, <2>2 DEF PureTypes
    <3> QED
      BY <1>3, <1>5, <1>7, <2>2, <3>1
  <2> QED
    BY <1>4, <2>1, <2>2
<1>8. ASSUME NEW u \in Tasks, NEW v \in Tasks, NEW i \in Live(u)', NEW j \in Live(v)',
             descs'[u][i] = descs'[v][j], descs'[u][i] # Noop
      PROVE  u = v /\ i = j
  <2>1. \A a, b \in Tasks : \A k \in Live(a), l \in Live(b) :
          descs[a][k] = descs[b][l] /\ descs[a][k] # Noop => a = b /\ k = l
    BY DEF OnePlace
  <2>2. CASE i \in Live(u) /\ j \in Live(v) /\ descs'[u][i] = descs[u][i]
                                           /\ descs'[v][j] = descs[v][j]
    <3>1. descs[u][i] = descs[v][j] /\ descs[u][i] # Noop
      BY <1>8, <2>2
    <3>2. i \in Live(u) /\ j \in Live(v)
      BY <2>2
    <3> HIDE DEF Live
    <3> QED
      BY <2>1, <3>1, <3>2
  <2> QED
    BY <1>4, <1>6, <1>8, <2>2
<1> QED
  BY <1>7, <1>8 DEF OnePlace

\* What check() answers for keeps its place when an operation is put behind it.
LEMMA PutHeld ==
  ASSUME PureTypes, HeldKept, NEW t \in Tasks, desc_cnt[t] < batch_siz, NEW op \in Nat, Put(t, op),
         is_doing_flag[t] => desc_count[t] <= desc_cnt[t],
         executed' = executed, UNCHANGED <<is_doing_flag, bcomp, desc_count>>,
         held' = held \/ (~is_doing_flag[t] /\ held' = [held EXCEPT ![t] = @ \union {op}])
  PROVE  HeldKept'
<1>1. /\ desc_cnt'[t] = desc_cnt[t] + 1
      /\ \A u \in Tasks : u # t => desc_cnt'[u] = desc_cnt[u] /\ descs'[u] = descs[u]
      /\ \A i \in Positions : descs'[t][i] = IF i = desc_cnt[t] THEN op ELSE descs[t][i]
  BY TypesPut
<1>2. \A u \in Tasks : desc_cnt[u] \in 0 .. batch_siz /\ desc_count[u] \in 0 .. batch_siz
  BY DEF PureTypes
<1>3. batch_siz \in Nat /\ desc_cnt[t] \in Positions
  BY <1>2, PureBatchAssumption
<1>4. ASSUME NEW u \in Tasks, NEW i \in Live(u)
      PROVE  i \in Live(u)' /\ descs'[u][i] = descs[u][i]
  <2>1. CASE u = t
    BY <1>1, <1>2, <1>3, <2>1
  <2>2. CASE u # t
    BY <1>1, <2>2
  <2> QED
    BY <2>1, <2>2
<1>5. ASSUME NEW u \in Tasks, NEW o \in held'[u]
      PROVE  \/ o \in executed
             \/ \E i \in Live(u)' : descs'[u][i] = o /\ (is_doing_flag[u] => i < desc_count[u])
  <2>1. CASE o \in held[u]
    <3>1. \/ o \in executed
          \/ \E i \in Live(u) : descs[u][i] = o /\ (is_doing_flag[u] => i < desc_count[u])
      BY <2>1 DEF HeldKept
    <3> QED
      BY <1>4, <3>1
  <2>2. CASE o \notin held[u]
    <3>1. u = t /\ o = op /\ ~is_doing_flag[t]
      BY <2>2 DEF PureTypes
    <3>2. desc_cnt[t] \in Live(t)' /\ descs'[t][desc_cnt[t]] = op
      BY <1>1, <1>2, <1>3
    <3> QED
      BY <3>1, <3>2
  <2> QED
    BY <2>1, <2>2
<1>6. ASSUME NEW u \in Tasks, is_doing_flag[u], bcomp[u] = "SUCCESS", NEW i \in Told(u),
             descs'[u][i] # Noop
      PROVE  descs'[u][i] \in executed
  <2>1. \A k \in Told(u) : descs[u][k] # Noop => descs[u][k] \in executed
    BY <1>6 DEF HeldKept
  <2>2. descs'[u][i] = descs[u][i]
    BY <1>1, <1>2, <1>3, <1>6
  <2> QED
    BY <1>6, <2>1, <2>2
<1> QED
  BY <1>5, <1>6 DEF HeldKept

\* The client adds an operation.
LEMMA PureAdd ==
  ASSUME PureInv, NEW t \in Tasks, add_op(t)
  PROVE  PureInv'
<1>1. PureTypes /\ Polled /\ OnePlace /\ HeldKept
  BY DEF PureInv
<1>2. /\ op_cnt \in Nat /\ op_cnt' = op_cnt + 1 /\ pc' = Idle
      /\ UNCHANGED <<is_doing_flag, bcomp, desc_count, device, executed>>
      /\ executed \subseteq 1 .. op_cnt'
      /\ pc' \in [at : {"idle", "read", "true"}, task : Tasks \union {0}, resolve : BOOLEAN]
  BY <1>1 DEF add_op, PureTypes, Idle
<1>3. CASE full(t)
  <2>1. UNCHANGED <<descs, comps, desc_cnt, held>>
    BY <1>3 DEF add_op
  <2>2. held \in [Tasks -> SUBSET (1 .. op_cnt')]
    BY <1>1, <1>2 DEF PureTypes
  <2>3. PureTypes'
    BY <1>1, <1>2, <2>1, <2>2 DEF PureTypes
  <2>4. Polled' /\ HeldKept'
    BY <1>1, <1>2, <2>1 DEF Polled, HeldKept, Idle
  <2>5. \A u \in Tasks : \A i \in Live(u) : descs[u][i] # Noop => descs[u][i] <= op_cnt'
    <3>1. SUFFICES ASSUME NEW u \in Tasks, NEW i \in Live(u), descs[u][i] # Noop
                   PROVE  descs[u][i] <= op_cnt'
      OBVIOUS
    <3>2. i \in Positions
      BY <1>1, PureBatchAssumption DEF PureTypes
    <3>3. descs[u][i] <= op_cnt
      BY <1>1, <3>1 DEF OnePlace
    <3> HIDE DEF Positions
    <3>4. descs[u][i] \in Nat
      BY <1>1, <3>2 DEF PureTypes
    <3> QED
      BY <1>2, <3>3, <3>4
  <2>6. OnePlace'
    BY <1>1, <1>2, <2>1, <2>5 DEF OnePlace
  <2> QED
    BY <2>3, <2>4, <2>6 DEF PureInv
<1>4. CASE ~full(t)
  <2>1. PICK o \in Nat : o = op_cnt + 1
    BY <1>2
  <2>2. /\ Put(t, o) /\ desc_cnt[t] < batch_siz
        /\ held' = held \/ (~is_doing_flag[t] /\ held' = [held EXCEPT ![t] = @ \union {o}])
    BY <1>1, <1>4, <2>1, PureBatchAssumption DEF add_op, full, PureTypes
  <2>3. /\ desc_cnt' \in [Tasks -> 0 .. batch_siz]
        /\ descs' \in [Tasks -> [Positions -> Nat]]
        /\ comps' \in [Tasks -> [Positions -> {"NONE", "SUCCESS"}]]
        /\ desc_cnt'[t] = desc_cnt[t] + 1
        /\ \A u \in Tasks : u # t => desc_cnt'[u] = desc_cnt[u]
    BY <1>1, <2>2, TypesPut
  <2>4. held' \in [Tasks -> SUBSET (1 .. op_cnt')]
    <3>1. held \in [Tasks -> SUBSET (1 .. op_cnt')]
      BY <1>1, <1>2 DEF PureTypes
    <3>2. o \in 1 .. op_cnt'
      BY <1>2, <2>1
    <3>3. held[t] \union {o} \in SUBSET (1 .. op_cnt')
      BY <3>1, <3>2
    <3> QED
      BY <2>2, <3>1, <3>3
  <2>5. PureTypes'
    BY <1>1, <1>2, <2>3, <2>4 DEF PureTypes
  <2>6. \A u \in Tasks : desc_cnt[u] \in Int /\ desc_count[u] \in Int /\ desc_cnt'[u] \in Int
    BY <1>1, <2>3 DEF PureTypes
  <2>10. \A u \in Tasks : desc_cnt'[u] >= desc_cnt[u]
    BY <2>3, <2>6
  <2>7. Polled'
    BY <1>1, <1>2, <2>6, <2>10 DEF Polled, Idle
  <2>8. OnePlace'
    BY <1>1, <1>2, <2>1, <2>2, PutPlaces
  <2>9. HeldKept'
    BY <1>1, <1>2, <2>2, PutHeld DEF Polled
  <2> QED
    BY <2>5, <2>7, <2>8, <2>9 DEF PureInv
<1> QED
  BY <1>3, <1>4

-----------------------------------------------------------------------------
(* Submissions. *)

\* A batch that is not being done, padded or not, is given to the device.
LEMMA PureBegin ==
  ASSUME PureInv, NEW t \in Tasks, ~is_doing_flag[t], Begin(t, desc_cnt'[t]),
         \/ UNCHANGED <<descs, comps, desc_cnt>> /\ desc_cnt[t] >= 2
         \/ Put(t, Noop) /\ desc_cnt[t] = 1,
         UNCHANGED <<executed, op_cnt, held>>,
         \/ pc' = Idle
         \/ \E r \in BOOLEAN : pc' = [at |-> "read", task |-> t, resolve |-> r]
  PROVE  PureInv'
<1>1. PureTypes /\ Polled /\ OnePlace /\ HeldKept
  BY DEF PureInv
<1>2. \A u \in Tasks : desc_cnt[u] \in 0 .. batch_siz /\ desc_count[u] \in 0 .. batch_siz
  BY <1>1 DEF PureTypes
<1>3. batch_siz \in Nat /\ batch_siz >= 2 /\ Noop \in Nat /\ op_cnt \in Nat
  BY <1>1, PureBatchAssumption DEF PureTypes
<1>4. /\ desc_cnt' \in [Tasks -> 0 .. batch_siz]
      /\ descs' \in [Tasks -> [Positions -> Nat]]
      /\ comps' \in [Tasks -> [Positions -> {"NONE", "SUCCESS"}]]
      /\ desc_cnt'[t] >= 2
      /\ \A u \in Tasks : u # t => desc_cnt'[u] = desc_cnt[u]
  <2>1. CASE UNCHANGED <<descs, comps, desc_cnt>> /\ desc_cnt[t] >= 2
    BY <1>1, <2>1 DEF PureTypes
  <2>2. CASE Put(t, Noop) /\ desc_cnt[t] = 1
    <3>1. desc_cnt[t] < batch_siz
      BY <1>2, <1>3, <2>2
    <3> QED
      BY <1>1, <1>3, <2>2, <3>1, TypesPut
  <2> QED
    BY <2>1, <2>2
<1>5. desc_cnt'[t] \in 0 .. batch_siz
  BY <1>4
<1>6. /\ bcomp' \in [Tasks -> {"NONE", "SUCCESS", "FAIL"}]
      /\ is_doing_flag' \in [Tasks -> BOOLEAN]
      /\ desc_count' \in [Tasks -> 0 .. batch_siz]
      /\ device' \subseteq Tasks
      /\ bcomp'[t] = "NONE" /\ is_doing_flag'[t] /\ desc_count'[t] = desc_cnt'[t]
      /\ \A u \in Tasks : u # t =>
           /\ bcomp'[u] = bcomp[u] /\ is_doing_flag'[u] = is_doing_flag[u]
           /\ desc_count'[u] = desc_count[u]
      /\ \A u \in Tasks : u \in device' <=> u = t \/ u \in device
  BY <1>1, <1>5, TypesBegin
<1>7. /\ pc' \in [at : {"idle", "read", "true"}, task : Tasks \union {0}, resolve : BOOLEAN]
      /\ pc'.at = "idle" \/ (pc'.at = "read" /\ pc'.task = t)
  <2>1. CASE pc' = Idle
    BY <2>1 DEF Idle
  <2>2. CASE \E r \in BOOLEAN : pc' = [at |-> "read", task |-> t, resolve |-> r]
    BY <2>2
  <2> QED
    BY <2>1, <2>2
<1>8. PureTypes'
  BY <1>1, <1>4, <1>6, <1>7 DEF PureTypes
<1>9. Polled'
  <2>1. ASSUME NEW u \in Tasks
        PROVE  /\ u \in device' <=> is_doing_flag'[u] /\ bcomp'[u] = "NONE"
               /\ is_doing_flag'[u] => desc_count'[u] >= 2 /\ desc_count'[u] <= desc_cnt'[u]
    <3>1. CASE u = t
      BY <1>4, <1>5, <1>6, <3>1
    <3>2. CASE u # t
      BY <1>1, <1>4, <1>6, <3>2 DEF Polled
    <3> QED
      BY <3>1, <3>2
  <2> QED
    BY <1>6, <1>7, <2>1 DEF Polled
<1>10. OnePlace'
  <2>1. \A u \in Tasks : is_doing_flag[u] /\ bcomp[u] # "NONE"
                           => is_doing_flag'[u] /\ bcomp'[u] # "NONE"
    BY <1>6
  <2>2. CASE UNCHANGED <<descs, comps, desc_cnt>>
    BY <1>1, <2>1, <2>2 DEF OnePlace
  <2>3. CASE Put(t, Noop) /\ desc_cnt[t] = 1
    <3>1. desc_cnt[t] < batch_siz /\ Noop <= op_cnt'
      BY <1>2, <1>3, <2>3
    <3>2. op_cnt' \in {op_cnt, Noop} /\ op_cnt' >= op_cnt
      BY <1>3
    <3> QED
      BY <1>1, <1>3, <2>1, <2>3, <3>1, <3>2, PutPlaces
  <2> QED
    BY <2>2, <2>3
<1>11. HeldKept'
  <2>1. ASSUME NEW u \in Tasks, NEW i \in Live(u)
        PROVE  i \in Live(u)' /\ descs'[u][i] = descs[u][i]
    <3>1. CASE UNCHANGED <<descs, comps, desc_cnt>>
      BY <3>1
    <3>2. CASE Put(t, Noop) /\ desc_cnt[t] = 1
      <4>1. desc_cnt[t] < batch_siz
        BY <1>2, <1>3, <3>2
      <4>2. /\ desc_cnt'[t] = desc_cnt[t] + 1
            /\ \A w \in Tasks : w # t => desc_cnt'[w] = desc_cnt[w] /\ descs'[w] = descs[w]
            /\ \A k \in Positions : descs'[t][k] = IF k = desc_cnt[t] THEN Noop ELSE descs[t][k]
        BY <1>1, <1>3, <3>2, <4>1, TypesPut
      <4>3. i \in Positions
        BY <1>2, <1>3
      <4> QED
        BY <1>2, <4>2, <4>3
    <3> QED
      BY <3>1, <3>2
  <2>2. ASSUME NEW u \in Tasks, NEW o \in held[u]
        PROVE  \/ o \in executed
               \/ \E i \in Live(u)' : descs'[u][i] = o /\ (is_doing_flag'[u] => i < desc_count'[u])
    <3>1. \/ o \in executed
          \/ \E i \in Live(u) : descs[u][i] = o /\ (is_doing_flag[u] => i < desc_count[u])
      BY <1>1 DEF HeldKept
    <3>2. CASE o \in executed
      BY <3>2
    <3>3. ASSUME NEW i \in Live(u), descs[u][i] = o, is_doing_flag[u] => i < desc_count[u]
          PROVE  descs'[u][i] = o /\ i \in Live(u)' /\ (is_doing_flag'[u] => i < desc_count'[u])
      <4>1. i \in Live(u)' /\ descs'[u][i] = o
        BY <2>1, <3>3
      <4>2. CASE u = t
        BY <1>5, <1>6, <4>1, <4>2
      <4>3. CASE u # t
        BY <1>6, <3>3, <4>1, <4>3
      <4> QED
        BY <4>1, <4>2, <4>3
    <3> QED
      BY <3>1, <3>2, <3>3
  <2>3. ASSUME NEW u \in Tasks, is_doing_flag'[u], bcomp'[u] = "SUCCESS", NEW i \in Told(u)',
               descs'[u][i] # Noop
        PROVE  descs'[u][i] \in executed
    <3>1. u # t
      BY <1>6, <2>3
    <3>2. is_doing_flag[u] /\ bcomp[u] = "SUCCESS" /\ desc_count'[u] = desc_count[u]
      BY <1>6, <2>3, <3>1
    <3>3. i \in Told(u) /\ i \in Live(u)
      BY <1>1, <1>2, <2>3, <3>2 DEF Polled
    <3>4. descs'[u][i] = descs[u][i]
      BY <2>1, <3>3
    <3> QED
      BY <1>1, <2>3, <3>2, <3>3, <3>4 DEF HeldKept
  <2> QED
    BY <2>2, <2>3 DEF HeldKept
<1> QED
  BY <1>8, <1>9, <1>10, <1>11 DEF PureInv

\* do_op of the client.
LEMMA PureDoOp ==
  ASSUME PureInv, NEW t \in Tasks, do_op(t)
  PROVE  PureInv'
<1>1. desc_cnt'[t] = desc_cnt[t]
  BY DEF do_op
<1> QED
  BY <1>1, PureBegin DEF do_op

\* The first half of check().
LEMMA PureCheckSubmit ==
  ASSUME PureInv, NEW t \in Tasks, NEW r \in BOOLEAN, CheckSubmit(t, r)
  PROVE  PureInv'
<1>1. PureTypes /\ Polled /\ OnePlace /\ HeldKept /\ desc_cnt[t] \in Nat /\ desc_count[t] \in Nat
  BY DEF PureInv, PureTypes
<1>2. CASE desc_cnt[t] = 0
  <2>1. UNCHANGED <<object, device, executed, op_cnt, held>>
        /\ pc' = [at |-> "true", task |-> t, resolve |-> r]
    BY <1>2 DEF CheckSubmit
  <2>2. ~is_doing_flag[t]
    BY <1>1, <1>2 DEF Polled
  <2>3. PureTypes'
    BY <1>1, <2>1 DEF PureTypes, object
  <2>4. Polled' /\ OnePlace' /\ HeldKept'
    BY <1>1, <1>2, <2>1, <2>2 DEF Polled, OnePlace, HeldKept, object
  <2> QED
    BY <2>3, <2>4 DEF PureInv
<1>3. CASE desc_cnt[t] # 0 /\ is_doing_flag[t]
  <2>1. desc_cnt[t] # 1
    BY <1>1, <1>3 DEF Polled
  <2>2. UNCHANGED <<object, device, executed, op_cnt, held>>
        /\ pc' = [at |-> "read", task |-> t, resolve |-> r]
    BY <1>3, <2>1 DEF CheckSubmit, object
  <2>3. PureTypes'
    BY <1>1, <2>2 DEF PureTypes, object
  <2>4. Polled' /\ OnePlace' /\ HeldKept'
    BY <1>1, <1>3, <2>2 DEF Polled, OnePlace, HeldKept, object
  <2> QED
    BY <2>3, <2>4 DEF PureInv
<1>4. CASE desc_cnt[t] # 0 /\ ~is_doing_flag[t]
  <2>1. \/ UNCHANGED <<descs, comps, desc_cnt>> /\ desc_cnt[t] >= 2
        \/ Put(t, Noop) /\ desc_cnt[t] = 1
    BY <1>1, <1>4 DEF CheckSubmit
  <2>2. /\ Begin(t, desc_cnt'[t]) /\ UNCHANGED <<executed, op_cnt, held>>
        /\ pc' = [at |-> "read", task |-> t, resolve |-> r]
    BY <1>4 DEF CheckSubmit
  <2> QED
    BY <1>4, <2>1, <2>2, PureBegin
<1> QED
  BY <1>2, <1>3, <1>4

-----------------------------------------------------------------------------
(* The answer, and giving up. *)

\* A check that reads no answer yet, or does not resolve a failure.
LEMMA PureQuiet ==
  ASSUME PureInv, pc' = Idle \/ pc' = pc, UNCHANGED <<object, device, executed, op_cnt, held>>
  PROVE  PureInv'
<1>1. PureTypes /\ Polled /\ OnePlace /\ HeldKept
  BY DEF PureInv
<1>2. PureTypes'
  <2>1. pc' \in [at : {"idle", "read", "true"}, task : Tasks \union {0}, resolve : BOOLEAN]
    <3>1. pc \in [at : {"idle", "read", "true"}, task : Tasks \union {0}, resolve : BOOLEAN]
      BY <1>1 DEF PureTypes
    <3>2. Idle \in [at : {"idle", "read", "true"}, task : Tasks \union {0}, resolve : BOOLEAN]
      BY DEF Idle
    <3> QED
      BY <3>1, <3>2
  <2> QED
    BY <1>1, <2>1 DEF PureTypes, object
<1>4. Polled'
  <2>1. pc'.at = "idle" \/ pc' = pc
    BY DEF Idle
  <2> QED
    BY <1>1, <2>1 DEF Polled, object
<1>3. OnePlace' /\ HeldKept'
  BY <1>1 DEF OnePlace, HeldKept, object
<1> QED
  BY <1>2, <1>3, <1>4 DEF PureInv

\* The batch was done: it starts afresh, and what it was asked for is executed.
LEMMA PureTrue ==
  ASSUME PureInv, CheckTrue
  PROVE  PureInv'
<1>1. PureTypes /\ Polled /\ OnePlace /\ HeldKept
  BY DEF PureInv
<1>2. PICK t \in Tasks : t = pc.task
  BY <1>1 DEF CheckTrue, Polled
<1>3. is_doing_flag[t] /\ bcomp[t] = "SUCCESS" /\ t \notin device
  BY <1>1, <1>2 DEF CheckTrue, Polled
<1>4. /\ is_doing_flag' = [is_doing_flag EXCEPT ![t] = FALSE]
      /\ desc_cnt' = [desc_cnt EXCEPT ![t] = 0]
      /\ pc' = [pc EXCEPT !.at = "true"]
      /\ UNCHANGED <<descs, comps, bcomp, desc_count, device, executed, faults, op_cnt, held>>
  BY <1>2 DEF CheckTrue
<1>5. PureTypes'
  <2>1. pc' \in [at : {"idle", "read", "true"}, task : Tasks \union {0}, resolve : BOOLEAN]
    BY <1>1, <1>4 DEF PureTypes
  <2>2. 0 \in 0 .. batch_siz
    BY PureBatchAssumption
  <2>3. desc_cnt' \in [Tasks -> 0 .. batch_siz]
    BY <1>1, <1>4, <2>2 DEF PureTypes
  <2> QED
    BY <1>1, <1>4, <2>1, <2>3 DEF PureTypes
<1>6. /\ desc_cnt'[t] = 0 /\ ~is_doing_flag'[t]
      /\ \A u \in Tasks : u # t => desc_cnt'[u] = desc_cnt[u] /\ is_doing_flag'[u] = is_doing_flag[u]
      /\ pc'.at = "true" /\ pc'.task = t
  BY <1>1, <1>2, <1>4 DEF PureTypes
<1>7. Polled'
  BY <1>1, <1>3, <1>4, <1>6 DEF Polled
<1>8. OnePlace'
  <2>1. \A u \in Tasks : \A i \in Live(u)' : u # t /\ i \in Live(u)
    BY <1>6
  <2> HIDE DEF Live
  <2> QED
    BY <1>1, <1>4, <1>6, <2>1 DEF OnePlace
<1>9. \A o \in held[t] : o \in executed
  <2>1. SUFFICES ASSUME NEW o \in held[t], o \notin executed PROVE FALSE
    OBVIOUS
  <2>2. PICK i \in Live(t) : descs[t][i] = o /\ i < desc_count[t]
    BY <1>1, <1>3, <2>1 DEF HeldKept
  <2>3. desc_count[t] \in Int /\ desc_cnt[t] \in Int
    BY <1>1 DEF PureTypes
  <2>4. i \in Told(t)
    BY <2>2, <2>3
  <2>5. o # Noop
    BY <1>1 DEF PureTypes
  <2> QED
    BY <1>1, <1>3, <2>1, <2>2, <2>4, <2>5 DEF HeldKept
<1>10. HeldKept'
  <2>1. ASSUME NEW u \in Tasks, NEW o \in held[u]
        PROVE  \/ o \in executed
               \/ \E i \in Live(u)' : descs[u][i] = o /\ (is_doing_flag'[u] => i < desc_count[u])
    <3>1. CASE u = t
      BY <1>9, <3>1
    <3>2. CASE u # t
      BY <1>1, <1>6, <3>2 DEF HeldKept
    <3> QED
      BY <3>1, <3>2
  <2>2. ASSUME NEW u \in Tasks, is_doing_flag'[u], bcomp[u] = "SUCCESS", NEW i \in Told(u),
               descs[u][i] # Noop
        PROVE  descs[u][i] \in executed
    BY <1>1, <1>6, <2>2 DEF HeldKept
  <2> QED
    BY <1>4, <2>1, <2>2 DEF HeldKept
<1> QED
  BY <1>5, <1>7, <1>8, <1>10 DEF PureInv

\* The batch failed: what was done becomes a no-op and the rest is submitted.
LEMMA PureFailed ==
  ASSUME PureInv, CheckFailed
  PROVE  PureInv'
<1>1. PureTypes /\ Polled /\ OnePlace /\ HeldKept
  BY DEF PureInv
<1>2. PICK t \in Tasks : t = pc.task
  BY <1>1 DEF CheckFailed, Polled
<1>3. is_doing_flag[t] /\ bcomp[t] = "FAIL" /\ UNCHANGED <<executed, op_cnt, held>> /\ pc' = Idle
  BY <1>1, <1>2 DEF CheckFailed, Polled
<1>4. CASE ~pc.resolve
  BY <1>3, <1>4, PureQuiet DEF CheckFailed
<1>5. CASE pc.resolve
  <2>1. /\ comps' = [comps EXCEPT ![t] = [i \in Positions |->
                             IF comps[t][i] = "SUCCESS" /\ descs[t][i] = Noop THEN comps[t][i] ELSE "NONE"]]
        /\ descs' = [descs EXCEPT ![t] = [i \in Positions |-> Resolved(descs[t][i], comps[t][i])]]
        /\ Begin(t, desc_cnt[t]) /\ desc_cnt' = desc_cnt
    BY <1>1, <1>2, <1>5 DEF CheckFailed, PureTypes
  <2> HIDE DEF Positions
  <2>2. /\ comps' \in [Tasks -> [Positions -> {"NONE", "SUCCESS"}]]
        /\ \A i \in Positions : comps'[t][i] =
             IF comps[t][i] = "SUCCESS" /\ descs[t][i] = Noop THEN comps[t][i] ELSE "NONE"
        /\ \A u \in Tasks : u # t => comps'[u] = comps[u]
    BY <1>1, <2>1 DEF PureTypes
  <2>3. /\ descs' \in [Tasks -> [Positions -> Nat]]
        /\ \A i \in Positions : descs'[t][i] = IF comps[t][i] = "SUCCESS" THEN Noop ELSE descs[t][i]
        /\ \A u \in Tasks : u # t => descs'[u] = descs[u]
    BY <1>1, <2>1 DEF PureTypes, Resolved
  <2>4. desc_cnt[t] \in 0 .. batch_siz /\ desc_cnt[t] >= 2
    BY <1>1, <1>3 DEF PureTypes, Polled
  <2>5. /\ bcomp' \in [Tasks -> {"NONE", "SUCCESS", "FAIL"}]
        /\ is_doing_flag' \in [Tasks -> BOOLEAN]
        /\ desc_count' \in [Tasks -> 0 .. batch_siz]
        /\ device' \subseteq Tasks
        /\ bcomp'[t] = "NONE" /\ is_doing_flag'[t] /\ desc_count'[t] = desc_cnt[t]
        /\ \A u \in Tasks : u # t =>
             /\ bcomp'[u] = bcomp[u] /\ is_doing_flag'[u] = is_doing_flag[u]
             /\ desc_count'[u] = desc_count[u]
        /\ \A u \in Tasks : u \in device' <=> u = t \/ u \in device
    BY <1>1, <2>1, <2>4, TypesBegin
  <2>6. PureTypes'
    BY <1>1, <1>3, <2>1, <2>2, <2>3, <2>5 DEF PureTypes, Idle
  <2>7. Polled'
    <3>1. ASSUME NEW u \in Tasks
          PROVE  /\ u \in device' <=> is_doing_flag'[u] /\ bcomp'[u] = "NONE"
                 /\ is_doing_flag'[u] => desc_count'[u] >= 2 /\ desc_count'[u] <= desc_cnt'[u]
      <4>1. CASE u = t
        BY <2>1, <2>4, <2>5, <4>1
      <4>2. CASE u # t
        BY <1>1, <2>1, <2>5, <4>2 DEF Polled
      <4> QED
        BY <4>1, <4>2
    <3> QED
      BY <1>3, <3>1 DEF Polled, Idle
  <2>8. ASSUME NEW u \in Tasks, NEW i \in Live(u)
        PROVE  /\ i \in Positions
               /\ descs'[u][i] # Noop => descs'[u][i] = descs[u][i] /\ (u = t => comps[u][i] # "SUCCESS")
    <3>1. i \in Positions
      BY <1>1, PureBatchAssumption DEF PureTypes, Positions
    <3> QED
      BY <2>3, <3>1
  <2>9. \A u \in Tasks : Live(u)' = Live(u)
    BY <2>1
  <2> HIDE DEF Live
  <2>10. ASSUME NEW u \in Tasks, NEW v \in Tasks, NEW i \in Live(u), NEW j \in Live(v),
                descs'[u][i] = descs'[v][j], descs'[u][i] # Noop
         PROVE  u = v /\ i = j
    <3>1. descs[u][i] = descs[v][j] /\ descs[u][i] # Noop
      BY <2>8, <2>10
    <3> QED
      BY <1>1, <3>1 DEF OnePlace
  <2>11. ASSUME NEW u \in Tasks, NEW i \in Live(u), descs'[u][i] # Noop
         PROVE  /\ descs'[u][i] <= op_cnt
                /\ descs'[u][i] \in executed <=> comps'[u][i] = "SUCCESS"
                /\ comps'[u][i] = "SUCCESS" => is_doing_flag'[u] /\ bcomp'[u] # "NONE"
    <3>1. /\ descs[u][i] # Noop /\ descs[u][i] <= op_cnt /\ descs'[u][i] = descs[u][i]
          /\ descs[u][i] \in executed <=> comps[u][i] = "SUCCESS"
          /\ comps[u][i] = "SUCCESS" => is_doing_flag[u] /\ bcomp[u] # "NONE"
      BY <1>1, <2>8, <2>11 DEF OnePlace
    <3>2. CASE u = t
      <4>1. comps[u][i] # "SUCCESS" /\ i \in Positions
        BY <2>8, <2>11, <3>2
      <4>2. comps'[u][i] = "NONE"
        BY <2>2, <3>2, <4>1
      <4> QED
        BY <3>1, <4>1, <4>2
    <3>3. CASE u # t
      BY <2>2, <2>5, <3>1, <3>3
    <3> QED
      BY <3>2, <3>3
  <2>12. OnePlace'
    BY <1>3, <2>9, <2>10, <2>11 DEF OnePlace
  <2>13. ASSUME NEW u \in Tasks, NEW o \in held[u], o \notin executed
         PROVE  \E i \in Live(u) : descs'[u][i] = o /\ (is_doing_flag'[u] => i < desc_count'[u])
    <3>1. PICK i \in Live(u) : descs[u][i] = o /\ (is_doing_flag[u] => i < desc_count[u])
      BY <1>1, <2>13 DEF HeldKept
    <3>2. CASE u = t
      <4>1. o # Noop
        BY <1>1 DEF PureTypes
      <4>2. comps[t][i] # "SUCCESS"
        BY <1>1, <2>13, <3>1, <3>2, <4>1 DEF OnePlace
      <4>3. descs'[t][i] = o
        BY <2>3, <2>8, <3>1, <3>2, <4>2
      <4>4. i < desc_count'[t]
        BY <2>4, <2>5, <3>2 DEF Live
      <4> QED
        BY <3>2, <4>3, <4>4
    <3>3. CASE u # t
      BY <2>3, <2>5, <3>1, <3>3
    <3> QED
      BY <3>2, <3>3
  <2>14. ASSUME NEW u \in Tasks, is_doing_flag'[u], bcomp'[u] = "SUCCESS", NEW i \in Told(u)',
                descs'[u][i] # Noop
         PROVE  descs'[u][i] \in executed
    <3>1. u # t
      BY <2>5, <2>14
    <3>2. /\ is_doing_flag[u] /\ bcomp[u] = "SUCCESS" /\ i \in Told(u)
          /\ descs'[u][i] = descs[u][i]
      BY <2>3, <2>5, <2>14, <3>1
    <3> QED
      BY <1>1, <2>14, <3>2 DEF HeldKept
  <2>15. HeldKept'
    BY <1>3, <2>9, <2>13, <2>14 DEF HeldKept
  <2> QED
    BY <2>6, <2>7, <2>12, <2>15 DEF PureInv
<1> QED
  BY <1>4, <1>5

\* clear() empties a batch that is not being done, and forgets what it held.
LEMMA PureClear ==
  ASSUME PureInv, NEW t \in Tasks, clear(t)
  PROVE  PureInv'
<1>1. PureTypes /\ Polled /\ OnePlace /\ HeldKept
  BY DEF PureInv
<1>2. CASE is_doing_flag[t]
  BY <1>2, PureQuiet DEF clear, object
<1>3. CASE ~is_doing_flag[t]
  <2>1. /\ desc_cnt' = [desc_cnt EXCEPT ![t] = 0] /\ held' = [held EXCEPT ![t] = {}] /\ pc' = Idle
        /\ UNCHANGED <<is_doing_flag, descs, comps, bcomp, desc_count, device, executed, op_cnt>>
    BY <1>3 DEF clear
  <2>2. PureTypes'
    BY <1>1, <2>1, PureBatchAssumption DEF PureTypes, Idle
  <2>3. /\ desc_cnt'[t] = 0 /\ held'[t] = {}
        /\ \A u \in Tasks : u # t => desc_cnt'[u] = desc_cnt[u] /\ held'[u] = held[u]
    BY <1>1, <2>1 DEF PureTypes
  <2>4. Polled'
    BY <1>1, <1>3, <2>1, <2>3 DEF Polled, Idle
  <2>5. \A u \in Tasks : \A i \in Live(u)' : u # t /\ i \in Live(u)
    BY <2>3
  <2>6. \A u \in Tasks : u # t => Live(u)' = Live(u)
    BY <2>3
  <2> HIDE DEF Live
  <2>7. OnePlace'
    BY <1>1, <2>1, <2>5 DEF OnePlace
  <2>8. HeldKept'
    BY <1>1, <2>1, <2>3, <2>6 DEF HeldKept
  <2> QED
    BY <2>2, <2>4, <2>7, <2>8 DEF PureInv
<1> QED
  BY <1>2, <1>3

-----------------------------------------------------------------------------
(* The device. *)

LEMMA PureFinishes ==
  ASSUME PureInv, NEW t \in device, NEW done \in SUBSET Told(t), NEW status \in {"SUCCESS", "FAIL"},
         status = "SUCCESS" => done = Told(t),
         Finishes(t, done, status)
  PROVE  PureInv'
<1>1. PureTypes /\ Polled /\ OnePlace /\ HeldKept
  BY DEF PureInv
<1>2. t \in Tasks /\ is_doing_flag[t] /\ bcomp[t] = "NONE"
  BY <1>1 DEF PureTypes, Polled
<1>3. /\ comps' = [comps EXCEPT ![t] = [i \in Positions |-> IF i \in done THEN "SUCCESS" ELSE comps[t][i]]]
      /\ executed' = executed \union ({descs[t][i] : i \in done} \ {Noop})
      /\ bcomp' = [bcomp EXCEPT ![t] = status]
      /\ device' = device \ {t}
      /\ UNCHANGED <<desc_cnt, is_doing_flag, descs, desc_count, op_cnt, held, pc>>
  BY <1>1, <1>2 DEF Finishes, PureTypes
<1>4. \A u \in Tasks : /\ desc_cnt[u] \in 0 .. batch_siz /\ desc_count[u] \in 0 .. batch_siz
                       /\ is_doing_flag[u] => desc_count[u] <= desc_cnt[u]
  BY <1>1 DEF PureTypes, Polled
<1>5. batch_siz \in Nat
  BY PureBatchAssumption
<1>6. \A u \in Tasks : \A i \in Live(u) : i \in Positions
  BY <1>4, <1>5
<1>7. \A i \in Told(t) : i \in Live(t)
  BY <1>2, <1>4
<1> HIDE DEF Positions
<1>8. /\ comps' \in [Tasks -> [Positions -> {"NONE", "SUCCESS"}]]
      /\ \A i \in Positions : comps'[t][i] = IF i \in done THEN "SUCCESS" ELSE comps[t][i]
      /\ \A u \in Tasks : u # t => comps'[u] = comps[u]
  BY <1>1, <1>2, <1>3 DEF PureTypes
<1>9. /\ bcomp' \in [Tasks -> {"NONE", "SUCCESS", "FAIL"}] /\ bcomp'[t] = status
      /\ \A u \in Tasks : u # t => bcomp'[u] = bcomp[u]
  BY <1>1, <1>2, <1>3 DEF PureTypes
<1>10. executed' \subseteq 1 .. op_cnt
  <2>1. ASSUME NEW i \in done, descs[t][i] # Noop PROVE descs[t][i] \in 1 .. op_cnt
    <3>1. i \in Live(t) /\ i \in Positions
      BY <1>2, <1>6, <1>7
    <3>2. descs[t][i] <= op_cnt
      BY <1>1, <1>2, <2>1, <3>1 DEF OnePlace
    <3>3. descs[t][i] \in Nat /\ op_cnt \in Nat
      BY <1>1, <1>2, <3>1 DEF PureTypes
    <3> QED
      BY <2>1, <3>2, <3>3
  <2>2. executed \subseteq 1 .. op_cnt
    BY <1>1 DEF PureTypes
  <2> HIDE DEF Noop
  <2> QED
    BY <1>3, <2>1, <2>2
<1>11. PureTypes'
  BY <1>1, <1>3, <1>8, <1>9, <1>10 DEF PureTypes
<1>12. Polled'
  BY <1>1, <1>2, <1>3, <1>9 DEF Polled
<1>13. \A u \in Tasks : Live(u)' = Live(u) /\ Told(u)' = Told(u)
  BY <1>3
<1>14. \A i \in done : i \in Live(t)
  BY <1>7
<1>15. \A i \in Told(t) : status = "SUCCESS" => i \in done
  OBVIOUS
<1> HIDE DEF Live, Told
<1>16. OnePlace'
  <2>1. ASSUME NEW u \in Tasks, NEW i \in Live(u), descs[u][i] # Noop
        PROVE  /\ descs[u][i] <= op_cnt
               /\ descs[u][i] \in executed' <=> comps'[u][i] = "SUCCESS"
               /\ comps'[u][i] = "SUCCESS" => is_doing_flag[u] /\ bcomp'[u] # "NONE"
    <3>1. /\ descs[u][i] <= op_cnt
          /\ descs[u][i] \in executed <=> comps[u][i] = "SUCCESS"
          /\ comps[u][i] = "SUCCESS" => is_doing_flag[u] /\ bcomp[u] # "NONE"
          /\ i \in Positions
      BY <1>1, <1>6, <2>1 DEF OnePlace
    <3>2. CASE u = t /\ i \in done
      BY <1>2, <1>3, <1>8, <1>9, <2>1, <3>1, <3>2
    <3>3. CASE ~(u = t /\ i \in done)
      <4>1. descs[u][i] \notin {descs[t][k] : k \in done}
        BY <1>1, <1>2, <1>14, <2>1, <3>3 DEF OnePlace
      <4>2. comps'[u][i] = comps[u][i]
        BY <1>8, <3>1, <3>3
      <4>3. comps[u][i] = "SUCCESS" => u # t
        BY <1>2, <3>1
      <4> QED
        BY <1>3, <1>9, <3>1, <4>1, <4>2, <4>3
    <3> QED
      BY <3>2, <3>3
  <2> QED
    BY <1>1, <1>3, <1>13, <2>1 DEF OnePlace
<1>17. HeldKept'
  <2>1. ASSUME NEW u \in Tasks, is_doing_flag[u], bcomp'[u] = "SUCCESS", NEW i \in Told(u),
               descs[u][i] # Noop
        PROVE  descs[u][i] \in executed'
    <3>1. CASE u = t
      BY <1>3, <1>9, <1>15, <2>1, <3>1
    <3>2. CASE u # t
      BY <1>1, <1>3, <1>9, <2>1, <3>2 DEF HeldKept
    <3> QED
      BY <3>1, <3>2
  <2> QED
    BY <1>1, <1>3, <1>13, <2>1 DEF HeldKept
<1> QED
  BY <1>11, <1>12, <1>16, <1>17 DEF PureInv

-----------------------------------------------------------------------------
(* The theorem. *)

LEMMA PureStep == PureInv /\ [PureNext]_pvars => PureInv'
<1> SUFFICES ASSUME PureInv, [PureNext]_pvars PROVE PureInv'
  OBVIOUS
<1>1. ASSUME NEW t \in Tasks, Client(t) PROVE PureInv'
  BY <1>1, PureAdd, PureDoOp, PureClear, PureCheckSubmit DEF Client
<1>2. CASE CheckNotYet
  BY <1>2, PureQuiet DEF CheckNotYet
<1>3. CASE CheckTrue
  BY <1>3, PureTrue
<1>4. CASE CheckFailed
  BY <1>4, PureFailed
<1>5. ASSUME NEW t \in Tasks, DeviceDone(t) PROVE PureInv'
  BY <1>5, PureFinishes DEF DeviceDone
<1>6. ASSUME NEW t \in Tasks, DeviceFails(t) PROVE PureInv'
  <2>1. PICK done \in SUBSET Told(t) : Finishes(t, done, "FAIL")
    BY <1>6 DEF DeviceFails
  <2> QED
    BY <1>6, <2>1, PureFinishes DEF DeviceFails
<1>7. CASE UNCHANGED pvars
  BY <1>7, PureQuiet DEF pvars
<1> QED
  BY <1>1, <1>2, <1>3, <1>4, <1>5, <1>6, <1>7 DEF PureNext, Check, Device

LEMMA PureStarts == ASSUME PureInit PROVE PureInv
<1>1. PureTypes
  BY TypesInit
<1>2. \A t \in Tasks : desc_cnt[t] = 0 /\ ~is_doing_flag[t] /\ held[t] = {}
  BY DEF PureInit, Each
<1>3. Polled
  BY <1>2 DEF PureInit, Polled, Idle
<1>4. OnePlace /\ HeldKept
  BY <1>2 DEF OnePlace, HeldKept
<1> QED
  BY <1>1, <1>3, <1>4 DEF PureInv

\* When check() says true, everything it answers for has been executed and the
\* device is done with it; and the device is never given an operation that has
\* been executed: for any number of tasks of any size, however often they fail,
\* whatever is added while they are done and whatever earlier batches left in
\* the descriptors (check, resolve_error, add_op and clear).
THEOREM PureBatchCorrect == PureSpec => []PureBatchRight
<1>1. PureInit => PureInv
  BY PureStarts
<1>2. PureInv /\ [PureNext]_pvars => PureInv'
  BY PureStep
<1>3. PureInv => PureBatchRight
  <2> SUFFICES ASSUME PureInv PROVE PureBatchRight
    OBVIOUS
  <2>1. PureTypes /\ Polled /\ OnePlace /\ HeldKept
    BY DEF PureInv
  <2>2. TrueMeansExecuted
    <3> SUFFICES ASSUME pc.at = "true" PROVE held[pc.task] \subseteq executed /\ pc.task \notin device
      BY DEF TrueMeansExecuted
    <3>1. /\ pc.task \in Tasks /\ ~is_doing_flag[pc.task] /\ Live(pc.task) = {}
      BY <2>1 DEF Polled
    <3> QED
      BY <2>1, <3>1 DEF Polled, HeldKept
  <2>3. NothingRunsTwice
    <3> SUFFICES ASSUME NEW t \in device, NEW i \in Told(t), descs[t][i] # Noop
                 PROVE  descs[t][i] \notin executed
      BY DEF NothingRunsTwice
    <3>1. t \in Tasks /\ is_doing_flag[t] /\ bcomp[t] = "NONE" /\ desc_count[t] <= desc_cnt[t]
      BY <2>1 DEF PureTypes, Polled
    <3>2. i \in Live(t)
      BY <2>1, <3>1 DEF PureTypes
    <3> QED
      BY <2>1, <3>1, <3>2 DEF OnePlace
  <2> QED
    BY <2>2, <2>3 DEF PureBatchRight
<1> QED
  BY <1>1, <1>2, <1>3, PTL DEF PureSpec

-----------------------------------------------------------------------------
(* ooo_test, a client of the pure batches. *)

\* The tasks of a round are there: a product that fits has a factor that fits.
LEMMA TaskThere ==
  ASSUME NEW m \in Nat, m * batch_siz <= TestSize
  PROVE  0 .. m \subseteq Tasks
<1> DEFINE q == TestSize \div batch_siz
<1>1. batch_siz \in Nat \ {0} /\ TestSize \in Nat
  BY PureBatchAssumption, OooAssumption
<1>2. q \in Nat /\ TestSize < batch_siz * q + batch_siz
  <2>1. TestSize = batch_siz * q + (TestSize % batch_siz) /\ q \in Int /\ TestSize % batch_siz \in 0 .. batch_siz - 1
    BY <1>1
  <2>2. q \in Nat
    BY <1>1
  <2> QED
    BY <1>1, <2>1, <2>2
<1> HIDE DEF q
<1>3. m <= q
  <2> SUFFICES ASSUME m >= q + 1 PROVE FALSE
    BY <1>2
  <2>1. m * batch_siz = batch_siz * q + batch_siz + (m - q - 1) * batch_siz
    BY <1>1, <1>2
  <2>2. (m - q - 1) * batch_siz >= 0 /\ (m - q - 1) * batch_siz \in Int /\ batch_siz * q \in Int
    BY <1>1, <1>2
  <2> QED
    BY <1>1, <1>2, <2>1, <2>2
<1> QED
  BY <1>2, <1>3, OooAssumption DEF q

LEMMA OooStarts == ASSUME OInit PROVE OooInv
<1>1. PureInv
  BY PureStarts DEF OInit
<1>2. 0 * batch_siz <= TestSize
  BY PureBatchAssumption, OooAssumption
<1>3. 0 .. 0 \subseteq Tasks /\ 0 \in Tasks
  BY <1>2, TaskThere
<1>4. \A t \in Tasks : desc_cnt[t] = 0 /\ ~is_doing_flag[t]
  BY DEF OInit, PureInit, Each
<1>5. OooTypes
  BY <1>3, OooAssumption DEF OInit, OooTypes
<1>6. FilledBefore
  <2>1. 0 = 0 * batch_siz + desc_cnt[0] /\ desc_cnt[0] < batch_siz
    BY <1>3, <1>4, PureBatchAssumption
  <2> QED
    BY <1>4, <2>1 DEF OInit, FilledBefore, Empty
<1>7. DrainedBehind
  BY DEF OInit, DrainedBehind
<1> QED
  BY <1>1, <1>5, <1>6, <1>7 DEF OooInv

\* check() leaves alone what is empty, but for the task it is called for, and
\* the task it is called for when there is nothing in it.
LEMMA EmptyStays ==
  ASSUME PureInv, NEW s \in Tasks, CheckSubmit(s, TRUE)
  PROVE  /\ \A t \in Tasks : t # s /\ Empty(t) => Empty(t)'
         /\ pc'.task = s
<1>1. PureTypes
  BY DEF PureInv
<1> QED
  BY <1>1 DEF CheckSubmit, Put, Begin, Empty, object, PureTypes

\* Reading an answer, and the device, make no empty task work.
LEMMA EmptyProgress ==
  ASSUME PureInv, Progress
  PROVE  /\ \A t \in Tasks : Empty(t) => Empty(t)'
         /\ \A t \in Tasks : ~is_doing_flag[t] => ~is_doing_flag'[t] /\ desc_cnt'[t] = desc_cnt[t]
         /\ pc'.at # "idle" => pc.at # "idle" /\ pc'.task = pc.task
<1>1. PureTypes /\ Polled
  BY DEF PureInv
<1>2. CASE CheckNotYet
  BY <1>2 DEF CheckNotYet, object, Empty, Idle
<1>3. CASE CheckTrue
  BY <1>1, <1>3 DEF CheckTrue, Empty, PureTypes, Polled
<1>4. CASE CheckFailed
  BY <1>1, <1>4 DEF CheckFailed, Begin, object, Empty, PureTypes, Polled, Idle
<1>5. ASSUME NEW t \in Tasks, Device(t)
      PROVE  UNCHANGED <<desc_cnt, is_doing_flag, pc>>
  BY <1>5 DEF Device, DeviceDone, DeviceFails, Finishes
<1> QED
  BY <1>2, <1>3, <1>4, <1>5 DEF Progress, Check, Empty

LEMMA FillStep == ASSUME OooInv, Fill PROVE OooTypes' /\ FilledBefore' /\ DrainedBehind'
<1>1. PureTypes /\ OooTypes /\ FilledBefore
  BY DEF OooInv, PureInv
<1> DEFINE m == task_idx
           d == desc_cnt[task_idx]
<1>2. /\ phase = "fill" /\ added < TestSize /\ added' = added + 1 /\ added \in Nat /\ TestSize \in Nat
      /\ m \in Nat /\ m \in Tasks /\ batch_siz \in Nat /\ batch_siz >= 2
      /\ d \in Nat /\ d < batch_siz /\ added = m * batch_siz + d
      /\ UNCHANGED <<phase, start_id, is_doing_flag>>
  BY <1>1, PureBatchAssumption, OooAssumption DEF Fill, OooTypes, FilledBefore, PureTypes, add_op
<1>3. desc_cnt' = [desc_cnt EXCEPT ![m] = d + 1]
  BY <1>2 DEF Fill, add_op, full, Put
<1>4. /\ desc_cnt'[m] = d + 1
      /\ \A t \in Tasks : t # m => desc_cnt'[t] = desc_cnt[t]
  BY <1>1, <1>2, <1>3 DEF PureTypes
<1>5. task_idx' = IF d + 1 = batch_siz THEN m + 1 ELSE m
  BY <1>4 DEF Fill
<1> HIDE DEF d, m
<1>6. CASE d + 1 = batch_siz
  <2>1. (m + 1) * batch_siz = m * batch_siz + batch_siz /\ m * batch_siz \in Int
    BY <1>2
  <2>2. (m + 1) * batch_siz = added + 1 /\ m + 1 \in Nat
    BY <1>2, <1>6, <2>1
  <2>3. 0 .. m + 1 \subseteq Tasks /\ m + 1 \in Tasks
    BY <1>2, <2>2, TaskThere
  <2>4. m + 1 \notin 0 .. m /\ m + 1 # m
    BY <1>2
  <2>5. desc_cnt[m + 1] = 0
    BY <1>1, <2>3, <2>4 DEF FilledBefore, Empty, m
  <2>6. task_idx' = m + 1 /\ desc_cnt'[m + 1] = 0
    BY <1>4, <1>5, <1>6, <2>3, <2>4, <2>5
  <2>7. ASSUME NEW t \in Tasks, t \notin 0 .. m + 1 PROVE Empty(t)'
    <3>1. t \notin 0 .. m /\ t # m
      BY <1>2, <2>7
    <3> QED
      BY <1>1, <1>2, <1>4, <3>1 DEF FilledBefore, Empty, m
  <2>8. OooTypes'
    BY <1>1, <1>2, <2>2, <2>3, <2>6 DEF OooTypes
  <2>9. FilledBefore'
    BY <1>1, <1>2, <2>2, <2>6, <2>7 DEF FilledBefore
  <2> QED
    BY <1>2, <2>8, <2>9 DEF DrainedBehind
<1>7. CASE d + 1 # batch_siz
  <2>1. task_idx' = m /\ desc_cnt'[m] = d + 1 /\ d + 1 < batch_siz /\ m * batch_siz \in Int
    BY <1>2, <1>4, <1>5, <1>7
  <2>2. added' = m * batch_siz + (d + 1)
    BY <1>2, <2>1
  <2>3. ASSUME NEW t \in Tasks, t \notin 0 .. m PROVE Empty(t)'
    <3>1. t # m
      BY <1>2, <2>3
    <3> QED
      BY <1>1, <1>2, <1>4, <2>3, <3>1 DEF FilledBefore, Empty, m
  <2>4. OooTypes'
    BY <1>1, <1>2, <2>1 DEF OooTypes, m
  <2>5. FilledBefore'
    BY <1>1, <1>2, <2>1, <2>2, <2>3 DEF FilledBefore
  <2> QED
    BY <1>2, <2>4, <2>5 DEF DrainedBehind
<1> QED
  BY <1>6, <1>7

LEMMA ScanStep ==
  ASSUME OooInv, StartScan \/ ScanSubmit \/ ScanFirst \/ ScanNext
  PROVE  OooTypes' /\ FilledBefore' /\ DrainedBehind'
<1>1. PureInv /\ OooTypes /\ FilledBefore /\ DrainedBehind
  BY DEF OooInv
<1>2. CASE StartScan \/ ScanNext
  <2>1. UNCHANGED <<pvars, task_idx, added>> /\ start_id' \in Nat
    BY <1>1, <1>2 DEF StartScan, ScanNext, OooTypes
  <2>2. /\ phase' \in {"scan", "drain"} /\ (phase' = "drain" => start_id' = 0)
        /\ start_id' <= task_idx
    BY <1>1, <1>2 DEF StartScan, ScanNext, OooTypes, DrainedBehind
  <2>3. FilledBefore'
    BY <1>1, <2>1, <2>2 DEF FilledBefore, Empty, pvars, object
  <2>4. OooTypes'
    BY <1>1, <2>1, <2>2 DEF OooTypes
  <2>5. DrainedBehind'
    BY <1>1, <2>1, <2>2 DEF DrainedBehind, OooTypes
  <2> QED
    BY <2>3, <2>4, <2>5
<1>3. CASE ScanSubmit \/ ScanFirst
  <2>1. PICK s \in 0 .. task_idx : CheckSubmit(s, TRUE)
    <3>1. ScanSubmit => start_id \in 0 .. task_idx
      BY <1>1 DEF ScanSubmit, OooTypes
    <3>2. 0 \in 0 .. task_idx
      BY <1>1 DEF OooTypes
    <3>3. (ScanSubmit => CheckSubmit(start_id, TRUE)) /\ (ScanFirst => CheckSubmit(0, TRUE))
      BY Zenon DEF ScanSubmit, ScanFirst
    <3> QED
      BY <1>3, <3>1, <3>2, <3>3, Zenon
  <2>2. s \in Tasks
    BY <1>1 DEF OooTypes
  <2>3. /\ phase' \in {"first", "scanned"} /\ UNCHANGED <<start_id, task_idx, added>>
        /\ start_id <= task_idx
    BY <1>1, <1>3 DEF ScanSubmit, ScanFirst, DrainedBehind
  <2>4. FilledBefore'
    BY <1>1, <2>1, <2>2, <2>3, EmptyStays DEF FilledBefore
  <2> QED
    BY <1>1, <2>3, <2>4 DEF OooTypes, DrainedBehind
<1> QED
  BY <1>2, <1>3

LEMMA DrainStep ==
  ASSUME OooInv, DrainClear \/ DrainWait \/ DrainWaited
  PROVE  OooTypes' /\ FilledBefore' /\ DrainedBehind'
<1>1. PureInv /\ OooTypes /\ FilledBefore /\ DrainedBehind
  BY DEF OooInv
<1>2. start_id \in 0 .. task_idx /\ start_id \in Tasks /\ phase \in {"drain", "waiting"}
  <2>1. phase \in {"drain", "waiting"} /\ (phase = "drain" => start_id <= task_idx)
    BY DEF DrainClear, DrainWait, DrainWaited
  <2> QED
    BY <1>1, <2>1 DEF OooTypes, DrainedBehind
<1>3. CASE DrainWait
  <2>1. CheckSubmit(start_id, TRUE) /\ phase' = "waiting" /\ UNCHANGED <<start_id, task_idx, added>>
    BY <1>3 DEF DrainWait
  <2>2. \A t \in Tasks : t # start_id /\ Empty(t) => Empty(t)'
    BY <1>1, <1>2, <2>1, EmptyStays
  <2>3. pc'.task = start_id
    BY <1>1, <1>2, <2>1, EmptyStays
  <2>4. FilledBefore'
    BY <1>1, <1>2, <2>1, <2>2 DEF FilledBefore
  <2>5. DrainedBehind'
    BY <1>1, <1>2, <2>1, <2>2, <2>3 DEF DrainedBehind, OooTypes
  <2> QED
    BY <1>1, <2>1, <2>4, <2>5 DEF OooTypes
<1>4. CASE DrainClear \/ DrainWaited
  <2>1. /\ phase' = "drain" /\ start_id' = start_id + 1 /\ UNCHANGED <<task_idx, added>>
        /\ \A t \in Tasks : t = start_id \/ Empty(t) => Empty(t)'
    <3>1. CASE DrainClear
      <4>1. /\ ~is_doing_flag[start_id] /\ UNCHANGED <<is_doing_flag, task_idx, added>>
            /\ desc_cnt' = [desc_cnt EXCEPT ![start_id] = 0]
            /\ phase' = phase /\ phase = "drain" /\ start_id' = start_id + 1
        BY <3>1 DEF DrainClear, Submitted, clear
      <4>2. \A t \in Tasks : desc_cnt'[t] = IF t = start_id THEN 0 ELSE desc_cnt[t]
        BY <1>1, <1>2, <4>1 DEF PureInv, PureTypes
      <4> QED
        BY <4>1, <4>2 DEF Empty
    <3>2. CASE DrainWaited
      <4>1. Empty(start_id)
        BY <1>1, <3>2 DEF DrainWaited, DrainedBehind, PureInv, Polled, Empty
      <4> QED
        BY <3>2, <4>1 DEF DrainWaited, Empty, pvars, object
    <3> QED
      BY <1>4, <3>1, <3>2
  <2>2. FilledBefore'
    BY <1>1, <2>1 DEF FilledBefore
  <2>3. ASSUME NEW t \in Tasks, t \in 0 .. start_id' - 1 PROVE Empty(t)'
    <3>1. t = start_id \/ t \in 0 .. start_id - 1
      BY <1>2, <2>1, <2>3
    <3> QED
      BY <1>1, <1>2, <2>1, <3>1 DEF DrainedBehind
  <2>4. DrainedBehind'
    BY <1>1, <1>2, <2>1, <2>3 DEF DrainedBehind, OooTypes
  <2> QED
    BY <1>1, <2>1, <2>2, <2>4 DEF OooTypes
<1> QED
  BY <1>3, <1>4

LEMMA RepeatStep == ASSUME OooInv, NextRound PROVE OooTypes' /\ FilledBefore' /\ DrainedBehind'
<1>1. OooTypes /\ FilledBefore /\ DrainedBehind
  BY DEF OooInv
<1>2. /\ phase = "drain" /\ start_id > task_idx /\ UNCHANGED pvars
      /\ phase' = "fill" /\ start_id' = 0 /\ task_idx' = 0 /\ added' = 0
  BY DEF NextRound
<1>3. ASSUME NEW t \in Tasks PROVE Empty(t)
  BY <1>1, <1>2 DEF OooTypes, FilledBefore, DrainedBehind
<1>4. 0 .. 0 \subseteq Tasks /\ 0 \in Tasks
  BY TaskThere, PureBatchAssumption, OooAssumption
<1>5. FilledBefore'
  <2>1. 0 = 0 * batch_siz + desc_cnt[0] /\ desc_cnt[0] < batch_siz
    BY <1>3, <1>4, PureBatchAssumption DEF Empty
  <2> QED
    BY <1>2, <1>3, <2>1 DEF FilledBefore, Empty, pvars, object
<1> QED
  BY <1>2, <1>4, <1>5, OooAssumption DEF OooTypes, DrainedBehind

LEMMA ProgressStep ==
  ASSUME OooInv, Progress, UNCHANGED <<phase, start_id, task_idx, added, rounds>>
  PROVE  OooTypes' /\ FilledBefore' /\ DrainedBehind'
<1>1. PureInv /\ OooTypes /\ FilledBefore /\ DrainedBehind
  BY DEF OooInv
<1>2. OooTypes'
  BY <1>1 DEF OooTypes
<1>3. FilledBefore'
  <2>1. phase = "fill" => task_idx \in Tasks
    BY <1>1 DEF OooTypes
  <2> QED
    BY <1>1, <2>1, EmptyProgress DEF FilledBefore
<1>4. DrainedBehind'
  BY <1>1, EmptyProgress DEF DrainedBehind
<1> QED
  BY <1>2, <1>3, <1>4

LEMMA OooStep == OooInv /\ [ONext]_ovars => OooInv'
<1> SUFFICES ASSUME OooInv, [ONext]_ovars PROVE OooInv'
  OBVIOUS
<1>1. PureInv /\ OooTypes /\ FilledBefore /\ DrainedBehind
  BY DEF OooInv
<1>2. [PureNext]_pvars
  <2>1. task_idx \in Tasks
    BY <1>1 DEF OooTypes
  <2>2. 0 \in Tasks
    BY <1>1 DEF OooTypes
  <2>3. CASE Fill
    BY <2>1, <2>3 DEF Fill, PureNext, Client
  <2>4. CASE ScanSubmit \/ DrainWait \/ DrainClear
    <3>1. start_id \in Tasks
      <4>1. start_id <= task_idx \/ phase = "waiting"
        BY <2>4 DEF ScanSubmit, DrainWait, DrainClear
      <4> QED
        BY <1>1, <4>1 DEF OooTypes, DrainedBehind
    <3> QED
      BY <2>4, <3>1 DEF ScanSubmit, DrainWait, DrainClear, PureNext, Client
  <2>5. CASE ScanFirst
    BY <2>2, <2>5 DEF ScanFirst, PureNext, Client
  <2>6. CASE StartScan \/ ScanNext \/ DrainWaited \/ NextRound \/ UNCHANGED ovars
    BY <2>6 DEF StartScan, ScanNext, DrainWaited, NextRound, ovars
  <2>7. CASE Progress
    BY <2>7 DEF Progress, PureNext
  <2> QED
    BY <2>3, <2>4, <2>5, <2>6, <2>7 DEF ONext
<1>3. PureInv'
  BY <1>1, <1>2, PureStep
<1>4. CASE UNCHANGED ovars
  BY <1>1, <1>3, <1>4 DEF ovars, pvars, object, OooInv, OooTypes, FilledBefore, DrainedBehind, Empty
<1>5. CASE ONext
  BY <1>3, <1>5, FillStep, ScanStep, DrainStep, RepeatStep, ProgressStep DEF ONext, OooInv
<1> QED
  BY <1>4, <1>5

\* A round of ooo_test begins with empty tasks and an idle device, and all that
\* was submitted in the rounds before has been executed: for any number of
\* tasks and operations, and batches that finish in any order or fail.
THEOREM OooRoundsCorrect == OSpec => []OooRoundsRight
<1>1. OooInv => OooRoundsRight
  <2> SUFFICES ASSUME OooInv, phase = "fill", added = 0
               PROVE  /\ device = {}
                      /\ \A t \in Tasks : desc_cnt[t] = 0 /\ ~is_doing_flag[t] /\ held[t] \subseteq executed
    BY DEF OooRoundsRight
  <2>1. PureTypes /\ Polled /\ HeldKept /\ OooTypes /\ FilledBefore
    BY DEF OooInv, PureInv
  <2>2. task_idx \in Tasks /\ task_idx \in Nat /\ desc_cnt[task_idx] \in Nat /\ batch_siz \in Nat /\ batch_siz >= 2
    BY <2>1, PureBatchAssumption DEF OooTypes, PureTypes
  <2>3. task_idx * batch_siz + desc_cnt[task_idx] = 0
    BY <2>1 DEF FilledBefore
  <2>4. desc_cnt[task_idx] = 0 /\ task_idx = 0
    <3>1. task_idx * batch_siz >= 0 /\ task_idx * batch_siz \in Int
      BY <2>2
    <3>2. task_idx * batch_siz = 0 /\ desc_cnt[task_idx] = 0
      <4> DEFINE before == task_idx * batch_siz
      <4>1. before \in Int /\ before >= 0 /\ before + desc_cnt[task_idx] = 0
        BY <2>3, <3>1
      <4> HIDE DEF before
      <4>2. before = 0 /\ desc_cnt[task_idx] = 0
        BY <2>2, <4>1
      <4> QED
        BY <4>2 DEF before
    <3>3. task_idx # 0 => task_idx * batch_siz >= batch_siz
      BY <2>2
    <3> QED
      BY <2>2, <3>2, <3>3
  <2>5. ASSUME NEW t \in Tasks PROVE desc_cnt[t] = 0 /\ ~is_doing_flag[t]
    <3>1. t = 0 \/ t \notin 0 .. 0
      OBVIOUS
    <3> QED
      BY <2>1, <2>4, <3>1 DEF FilledBefore, Empty
  <2>6. device = {}
    BY <2>1, <2>5 DEF PureTypes, Polled
  <2>7. ASSUME NEW t \in Tasks PROVE held[t] \subseteq executed
    <3>1. Live(t) = {}
      BY <2>5 DEF Live
    <3> QED
      BY <2>1, <3>1 DEF HeldKept
  <2> QED
    BY <2>5, <2>6, <2>7
<1> QED
  BY <1>1, OooStarts, OooStep, PTL DEF OSpec

-----------------------------------------------------------------------------
(* The set-up script: whatever the runs before have left, one run is enough. *)

Commands == {"none", "disable-wq", "disable-device", "free-engine", "zero-wq",
             "assign-engine", "config-wq", "enable-device", "enable-wq"}
CommandLine == [w : Nat, e : Nat, g : Nat, s : Nat, q : Nat \union {-1}, b : {-1, 0, 1}]
WorkQueue == [size : Nat, group : Nat \union {-1}, on : BOOLEAN]

SetupTypes ==
  /\ opt \in CommandLine /\ (Configures(opt) => opt.e # 0)
  /\ enabled \in BOOLEAN /\ cut \in BOOLEAN /\ nth \in Nat /\ command \in Commands
  /\ engines \in [Engines -> Nat \union {-1}] /\ wqs \in [Wqs -> WorkQueue]

\* What a command says about the command line, and about the loop it is in.
InRun ==
  /\ command \in {"disable-wq", "disable-device", "free-engine", "zero-wq"} => Unbinds(opt)
  /\ command \in {"assign-engine", "config-wq"} => Configures(opt)
  /\ command = "free-engine" => nth <= NUM_ENGINES
  /\ command \in {"zero-wq", "enable-wq"} => nth <= NUM_WQS
  /\ command = "config-wq" => nth <= num_wq(opt)

AllOff == ~enabled /\ \A q \in Wqs : ~wqs[q].on
Zeroed(k) == \A q \in Wqs : q < k => wqs[q].size = 0
Assigned(k) == k <= NUM_ENGINES /\ \A n \in Engines : engines[n] = IF n < k THEN opt.g ELSE -1
\* The first k queues have been configured, and no others.
Configured(k) ==
  opt.q = -1 /\ Fits(opt) =>
    \A q \in Wqs : IF q < k THEN wqs[q].size = wq_size(opt) /\ wqs[q].group = opt.g ELSE wqs[q].size = 0
TurnedOn(k) == opt.q = -1 /\ Fits(opt) => \A q \in Wqs : wqs[q].on <=> q < k /\ q < num_wq(opt)

\* How far a run that unbinds has come.
Unbinding ==
  /\ command \in {"free-engine", "zero-wq", "assign-engine", "config-wq", "enable-device"} => AllOff
  /\ command = "free-engine" => \A n \in Engines : n < nth => engines[n] = -1
  /\ command = "zero-wq" => (\A n \in Engines : engines[n] = -1) /\ Zeroed(nth)
  /\ command = "assign-engine" => nth <= opt.e /\ Assigned(nth) /\ Zeroed(NUM_WQS)
  /\ command = "config-wq" => Assigned(opt.e) /\ Configured(nth)
  /\ command = "enable-device" => Assigned(opt.e) /\ Configured(num_wq(opt))
  /\ command = "enable-wq" => enabled /\ Assigned(opt.e) /\ Configured(num_wq(opt)) /\ TurnedOn(nth)
  /\ command = "none" /\ Configures(opt) /\ opt.q = -1 =>
       /\ ended = "done" => enabled /\ Assigned(opt.e) /\ Configured(num_wq(opt)) /\ TurnedOn(NUM_WQS)
       /\ ended = "exit" => AllOff

Served(g) == \E n \in Engines : engines[n] = g

\* The engines of a queue are not taken away before the queue.
Serving ==
  /\ \A q \in Wqs : wqs[q].on => enabled /\ wqs[q].size # 0
  /\ \A q \in Wqs : wqs[q].size # 0 => wqs[q].group # -1
  /\ ~cut => \A q \in Wqs : wqs[q].size # 0 =>
       Served(wqs[q].group) \/ command = "free-engine" \/ (command = "zero-wq" /\ q >= nth)
  /\ command = "config-wq" \/ (command = "assign-engine" /\ nth > 0) => enabled \/ Served(opt.g)

SetupInv == SetupTypes /\ InRun /\ (Unbinds(opt) => Unbinding) /\ Serving

-----------------------------------------------------------------------------
\* What a command line asks for.
LEMMA Asked ==
  ASSUME opt \in CommandLine
  PROVE  /\ num_wq(opt) \in Nat
         /\ Configures(opt) => wq_size(opt) \in Nat
         /\ Fits(opt) /\ Configures(opt) => wq_size(opt) # 0
<1>1. num_wq(opt) \in Nat
  BY DEF CommandLine, num_wq
<1>2. ASSUME Configures(opt) PROVE wq_size(opt) \in Nat
  BY <1>1, <1>2, SetupAssumption DEF CommandLine, wq_size, Configures
<1> QED
  BY <1>1, <1>2 DEF Fits

\* A queue of which one field changes.
LEMMA Fields ==
  ASSUME NEW r \in WorkQueue
  PROVE  r.size \in Nat /\ r.group \in Nat \union {-1} /\ r.on \in BOOLEAN
  BY DEF WorkQueue

LEMMA OffOrEmpty ==
  ASSUME NEW r \in WorkQueue
  PROVE  LET off == [r EXCEPT !.on = FALSE]
             empty == [r EXCEPT !.size = 0]
         IN  /\ off \in WorkQueue /\ off.size = r.size /\ off.group = r.group /\ off.on = FALSE
             /\ empty \in WorkQueue /\ empty.size = 0 /\ empty.group = r.group /\ empty.on = r.on
  BY DEF WorkQueue

LEMMA DisableWqKeeps ==
  ASSUME SetupInv, DisableWq
  PROVE  SetupInv'
<1>1. command = "disable-wq" /\ command' = command /\ opt' = opt /\ enabled' = enabled /\ engines' = engines
      /\ ended' = ended /\ cut' = cut /\ nth' = nth + 1 /\ nth \in Nat
  BY DEF SetupInv, SetupTypes, DisableWq, For
<1>2. wqs' = [wqs EXCEPT ![nth].on = FALSE] /\ wqs \in [Wqs -> WorkQueue]
  BY DEF SetupInv, SetupTypes, DisableWq
<1>3. \A q \in Wqs : wqs[q] \in WorkQueue
  BY <1>2
<1>4. \A q \in Wqs : /\ wqs'[q] \in WorkQueue /\ wqs'[q].size = wqs[q].size /\ wqs'[q].group = wqs[q].group
                     /\ wqs'[q].on => wqs[q].on
  <2> TAKE q \in Wqs
  <2>1. wqs'[q] = IF q = nth THEN [wqs[q] EXCEPT !.on = FALSE] ELSE wqs[q]
    BY <1>2
  <2> QED
    BY <1>3, <2>1, OffOrEmpty
<1>5. wqs' \in [Wqs -> WorkQueue]
  BY <1>2, <1>4
<1>6. SetupTypes'
  BY <1>1, <1>5 DEF SetupInv, SetupTypes
<1>7. InRun' /\ (Unbinds(opt) => Unbinding)'
  BY <1>1 DEF SetupInv, InRun, Unbinding
<1>8. Serving'
  BY <1>1, <1>3, <1>4 DEF SetupInv, Serving, Served
<1> QED
  BY <1>6, <1>7, <1>8 DEF SetupInv

LEMMA DisableDeviceKeeps ==
  ASSUME SetupInv, DisableDevice
  PROVE  SetupInv'
<1>1. command = "disable-device" /\ command' = "free-engine" /\ opt' = opt /\ enabled' = FALSE /\ engines' = engines
      /\ cut' = cut /\ nth' = 0
  BY DEF DisableDevice, Continue, reset_config
<1>2. \A q \in Wqs : /\ wqs'[q] \in WorkQueue /\ wqs'[q].size = wqs[q].size /\ wqs'[q].group = wqs[q].group
                     /\ wqs'[q].on = FALSE
  <2> TAKE q \in Wqs
  <2>1. wqs[q] \in WorkQueue /\ wqs'[q] = [wqs[q] EXCEPT !.on = FALSE]
    BY DEF SetupInv, SetupTypes, DisableDevice
  <2>2. PICK r \in WorkQueue : r = wqs[q]
    BY <2>1
  <2>3. wqs'[q] = [r EXCEPT !.on = FALSE]
    BY <2>1, <2>2
  <2> QED
    BY <2>2, <2>3, OffOrEmpty
<1>3. wqs' \in [Wqs -> WorkQueue]
  BY <1>2 DEF DisableDevice
<1>4. SetupTypes'
  BY <1>1, <1>3 DEF SetupInv, SetupTypes, Commands
<1>5. InRun'
  BY <1>1, SetupAssumption DEF SetupInv, InRun
<1>6. (Unbinds(opt) => Unbinding)'
  <2>1. \A n \in Engines : ~(n < 0)
    BY SetupAssumption DEF Engines
  <2> QED
    BY <1>1, <1>2, <2>1 DEF Unbinding, AllOff
<1>7. Serving'
  BY <1>1, <1>2 DEF SetupInv, Serving
<1> QED
  BY <1>4, <1>5, <1>6, <1>7 DEF SetupInv

LEMMA FreeEngineKeeps ==
  ASSUME SetupInv, FreeEngine
  PROVE  SetupInv'
<1>1. command = "free-engine" /\ command' = command /\ opt' = opt /\ enabled' = enabled /\ wqs' = wqs
      /\ ended' = ended /\ cut' = cut /\ nth' = nth + 1 /\ nth \in Nat /\ nth < NUM_ENGINES
  BY DEF SetupInv, SetupTypes, FreeEngine, For
<1>2. Unbinds(opt) /\ ~enabled
  BY <1>1 DEF SetupInv, InRun, Unbinding, AllOff
<1>3. engines' = [engines EXCEPT ![nth] = -1] /\ engines \in [Engines -> Nat \union {-1}]
  BY <1>2 DEF SetupInv, SetupTypes, FreeEngine
<1>4. SetupTypes'
  <2>1. engines' \in [Engines -> Nat \union {-1}]
    BY <1>3
  <2> QED
    BY <1>1, <2>1 DEF SetupInv, SetupTypes
<1>5. InRun'
  BY <1>1, SetupAssumption DEF SetupInv, InRun
<1>6. (Unbinds(opt) => Unbinding)'
  <2>1. \A n \in Engines : n < nth => engines[n] = -1
    BY <1>1, <1>2 DEF SetupInv, Unbinding
  <2>2. \A n \in Engines : n < nth + 1 => engines'[n] = -1
    BY <1>1, <1>3, <2>1, SetupAssumption DEF Engines
  <2>3. AllOff'
    BY <1>1, <1>2 DEF SetupInv, Unbinding, AllOff
  <2> QED
    BY <1>1, <2>2, <2>3 DEF Unbinding
<1>7. Serving'
  BY <1>1 DEF SetupInv, Serving
<1> QED
  BY <1>4, <1>5, <1>6, <1>7 DEF SetupInv

LEMMA ZeroWqKeeps ==
  ASSUME SetupInv, ZeroWq
  PROVE  SetupInv'
<1>1. command = "zero-wq" /\ command' = command /\ opt' = opt /\ enabled' = enabled /\ engines' = engines
      /\ ended' = ended /\ nth' = nth + 1 /\ nth \in Nat /\ nth < NUM_WQS
  BY DEF SetupInv, SetupTypes, ZeroWq, For
<1>2. Unbinds(opt) /\ ~enabled /\ Zeroed(nth)
  BY <1>1 DEF SetupInv, InRun, Unbinding, AllOff
<1>3. wqs' = [wqs EXCEPT ![nth].size = 0] /\ wqs \in [Wqs -> WorkQueue]
  BY <1>2 DEF SetupInv, SetupTypes, ZeroWq
<1>4. \A q \in Wqs : wqs[q] \in WorkQueue
  BY <1>3
<1>5. \A q \in Wqs : /\ wqs'[q] \in WorkQueue /\ wqs'[q].size = IF q = nth THEN 0 ELSE wqs[q].size
                     /\ wqs'[q].group = wqs[q].group /\ wqs'[q].on = wqs[q].on
  <2> TAKE q \in Wqs
  <2>1. PICK r \in WorkQueue : r = wqs[q]
    BY <1>4
  <2>2. wqs'[q] = IF q = nth THEN [r EXCEPT !.size = 0] ELSE r
    BY <1>3, <2>1
  <2> QED
    BY <2>1, <2>2, OffOrEmpty
<1>6. SetupTypes'
  <2>2. wqs' \in [Wqs -> WorkQueue]
    BY <1>3, <1>5
  <2>3. cut' \in BOOLEAN
    BY DEF ZeroWq
  <2> QED
    BY <1>1, <2>2, <2>3 DEF SetupInv, SetupTypes
<1>7. InRun'
  BY <1>1, <1>2, SetupAssumption DEF InRun
<1>8. \A q \in Wqs : q < nth + 1 => wqs'[q].size = 0
  BY <1>1, <1>2, <1>5, SetupAssumption DEF Zeroed, Wqs
<1>9. AllOff /\ AllOff'
  BY <1>1, <1>2, <1>5 DEF SetupInv, Unbinding, AllOff
<1>10. (Unbinds(opt) => Unbinding)'
  <2>1. \A n \in Engines : engines[n] = -1
    BY <1>1, <1>2 DEF SetupInv, Unbinding
  <2> QED
    BY <1>1, <1>8, <1>9, <2>1 DEF Unbinding, Zeroed
<1>11. Serving'
  <2>1. \A q \in Wqs : ~wqs'[q].on /\ (wqs'[q].size # 0 => wqs'[q].group # -1)
    BY <1>5, <1>9 DEF SetupInv, Serving, AllOff
  <2>2. ASSUME ~cut', NEW q \in Wqs, wqs'[q].size # 0 PROVE q >= nth'
    <3>1. ~(q < nth + 1) /\ q \in Int
      BY <1>8, <2>2, SetupAssumption DEF Wqs
    <3> QED
      BY <1>1, <3>1
  <2> QED
    BY <1>1, <2>1, <2>2 DEF Serving
<1> QED
  BY <1>6, <1>7, <1>10, <1>11 DEF SetupInv

LEMMA AssignEngineKeeps ==
  ASSUME SetupInv, AssignEngine
  PROVE  SetupInv'
<1>1. command = "assign-engine" /\ command' = command /\ opt' = opt /\ enabled' = enabled /\ wqs' = wqs
      /\ ended' = ended /\ cut' = cut /\ nth \in Nat /\ nth < opt.e
  BY DEF SetupInv, SetupTypes, AssignEngine
<1>2. PICK n \in free : /\ \A m \in free : n <= m
                        /\ engines' = IF enabled THEN engines ELSE [engines EXCEPT ![n] = opt.g]
                        /\ nth' = n + 1
  BY DEF AssignEngine
<1>3. n \in Engines /\ engines[n] = -1 /\ engines \in [Engines -> Nat \union {-1}] /\ opt.g \in Nat
  BY DEF free, SetupInv, SetupTypes, CommandLine
<1>4. SetupTypes'
  <2>1. engines' \in [Engines -> Nat \union {-1}]
    BY <1>2, <1>3
  <2>2. nth' \in Nat
    BY <1>2, <1>3, SetupAssumption DEF Engines
  <2> QED
    BY <1>1, <2>1, <2>2 DEF SetupInv, SetupTypes
<1>5. InRun'
  BY <1>1 DEF SetupInv, InRun
<1>6. ASSUME Unbinds(opt) PROVE nth' <= opt.e /\ AllOff' /\ Assigned(nth)' /\ Zeroed(NUM_WQS)'
  <2>1. AllOff /\ Assigned(nth) /\ Zeroed(NUM_WQS)
    BY <1>1, <1>6 DEF SetupInv, Unbinding
  <2>2. \A m \in Engines : engines[m] = IF m < nth THEN opt.g ELSE -1
    BY <2>1 DEF Assigned
  <2>3. \A m \in Engines : ~(m < nth) => m \in free
    BY <2>2 DEF free
  <2>4. n = nth
    <3>1. ~(n < nth)
      BY <1>3, <2>2
    <3>2. nth \in Engines
      BY <1>1, <1>3, <3>1, SetupAssumption DEF Engines
    <3> QED
      BY <1>1, <1>2, <1>3, <2>3, <3>1, <3>2, SetupAssumption DEF Engines
  <2>5. engines' = [engines EXCEPT ![nth] = opt.g]
    BY <1>2, <2>1, <2>4 DEF AllOff
  <2>6. Assigned(nth)'
    <3>1. nth + 1 <= NUM_ENGINES
      BY <1>1, <1>3, <2>4, SetupAssumption DEF Engines
    <3>2. ASSUME NEW m \in Engines PROVE engines'[m] = IF m < nth + 1 THEN opt.g ELSE -1
      BY <1>1, <1>3, <2>2, <2>5, SetupAssumption DEF Engines
    <3>3. nth' = nth + 1
      BY <1>2, <2>4
    <3> QED
      BY <1>1, <3>1, <3>2, <3>3 DEF Assigned
  <2>7. nth' <= opt.e
    BY <1>1, <1>2, <2>4 DEF SetupInv, SetupTypes, CommandLine
  <2> QED
    BY <1>1, <2>1, <2>6, <2>7 DEF AllOff, Zeroed
<1>7. (Unbinds(opt) => Unbinding)'
  <2> SUFFICES ASSUME Unbinds(opt) PROVE Unbinding'
    BY <1>1
  <2> QED
    BY <1>1, <1>6 DEF Unbinding
<1>8. Serving'
  <2>1. \A q \in Wqs : wqs[q].size # 0 => wqs[q].group # -1
    BY DEF SetupInv, Serving
  <2>2. \A g : g # -1 /\ Served(g) => Served(g)'
    BY <1>2, <1>3 DEF Served
  <2>3. enabled \/ Served(opt.g)'
    BY <1>1, <1>2, <1>3 DEF Served
  <2>4. ASSUME ~cut', NEW q \in Wqs, wqs'[q].size # 0 PROVE Served(wqs[q].group)'
    BY <1>1, <2>1, <2>2, <2>4 DEF SetupInv, Serving
  <2> QED
    BY <1>1, <2>1, <2>3, <2>4 DEF SetupInv, Serving, Served
<1> QED
  BY <1>4, <1>5, <1>7, <1>8 DEF SetupInv

LEMMA NoFreeEngineKeeps ==
  ASSUME SetupInv, NoFreeEngine
  PROVE  SetupInv'
<1>1. command = "assign-engine" /\ command' = "none" /\ ended' = "exit" /\ opt' = opt /\ nth' = nth
      /\ enabled' = enabled /\ engines' = engines /\ wqs' = wqs /\ cut' = cut
  BY DEF NoFreeEngine
<1>2. SetupTypes' /\ InRun'
  BY <1>1 DEF SetupInv, SetupTypes, InRun, Commands
<1>3. (Unbinds(opt) => Unbinding)'
  BY <1>1 DEF SetupInv, Unbinding, AllOff
<1>4. Serving'
  BY <1>1 DEF SetupInv, Serving, Served
<1> QED
  BY <1>2, <1>3, <1>4 DEF SetupInv

LEMMA InterruptKeeps ==
  ASSUME SetupInv, Interrupt
  PROVE  SetupInv'
<1>1. command' = "none" /\ ended' = "cut" /\ cut' = TRUE /\ opt' = opt /\ nth' = nth
      /\ enabled' = enabled /\ engines' = engines /\ wqs' = wqs
  BY DEF Interrupt
<1>2. SetupTypes' /\ InRun'
  BY <1>1 DEF SetupInv, SetupTypes, InRun, Commands
<1>3. (Unbinds(opt) => Unbinding)'
  BY <1>1 DEF Unbinding
<1>4. Serving'
  BY <1>1 DEF SetupInv, Serving
<1> QED
  BY <1>2, <1>3, <1>4 DEF SetupInv

LEMMA EnableDeviceKeeps ==
  ASSUME SetupInv, EnableDevice
  PROVE  SetupInv'
<1>1. command = "enable-device" /\ command' = "enable-wq" /\ nth' = 0 /\ enabled' = TRUE /\ opt' = opt
      /\ engines' = engines /\ wqs' = wqs /\ cut' = cut
  BY DEF EnableDevice, Continue
<1>2. SetupTypes'
  BY <1>1 DEF SetupInv, SetupTypes, Commands
<1>3. InRun'
  BY <1>1, SetupAssumption DEF InRun
<1>4. (Unbinds(opt) => Unbinding)'
  <2> SUFFICES ASSUME Unbinds(opt) PROVE Unbinding'
    BY <1>1
  <2>1. AllOff /\ Assigned(opt.e) /\ Configured(num_wq(opt))
    BY <1>1 DEF SetupInv, Unbinding
  <2>2. Assigned(opt.e)' /\ Configured(num_wq(opt))'
    BY <1>1, <2>1 DEF Assigned, Configured
  <2>3. TurnedOn(0)'
    <3>1. \A q \in Wqs : ~(q < 0) /\ ~wqs[q].on
      BY <2>1, SetupAssumption DEF Wqs, AllOff
    <3> QED
      BY <1>1, <3>1 DEF TurnedOn
  <2> QED
    BY <1>1, <2>2, <2>3 DEF Unbinding, TurnedOn
<1>5. Serving'
  BY <1>1 DEF SetupInv, Serving, Served
<1> QED
  BY <1>2, <1>3, <1>4, <1>5 DEF SetupInv

LEMMA EnableWqKeeps ==
  ASSUME SetupInv, EnableWq
  PROVE  SetupInv'
<1>1. command = "enable-wq" /\ command' = command /\ opt' = opt /\ enabled' = enabled /\ engines' = engines
      /\ ended' = ended /\ cut' = cut /\ nth' = nth + 1 /\ nth \in Nat /\ nth < NUM_WQS
  BY DEF SetupInv, SetupTypes, EnableWq, For
<1>2. ASSUME NEW q \in Wqs
      PROVE  /\ wqs[q] \in WorkQueue /\ wqs'[q] \in WorkQueue
             /\ wqs'[q].size = wqs[q].size /\ wqs'[q].group = wqs[q].group
             /\ wqs'[q].on <=> wqs[q].on \/ (q = nth /\ enabled /\ wqs[q].size # 0)
  <2>1. PICK r \in WorkQueue : r = wqs[q]
    BY DEF SetupInv, SetupTypes
  <2>2. PICK up \in BOOLEAN : up <=> r.on \/ (enabled /\ r.size # 0)
    OBVIOUS
  <2>3. CASE q = nth
    <3>1. wqs'[q] = [r EXCEPT !.on = r.on \/ (enabled /\ r.size # 0)]
      BY <2>1, <2>3 DEF EnableWq, SetupInv, SetupTypes
    <3>2. r.on \in BOOLEAN
      BY Fields
    <3>3. (r.on \/ (enabled /\ r.size # 0)) = up
      BY <2>2, <3>2
    <3>4. wqs'[q] = [r EXCEPT !.on = up]
      BY <3>1, <3>3
    <3>5. wqs'[q] \in WorkQueue /\ wqs'[q].size = r.size /\ wqs'[q].group = r.group /\ wqs'[q].on = up
      BY <3>4 DEF WorkQueue
    <3> QED
      BY <2>1, <2>2, <2>3, <3>5
  <2>4. CASE q # nth
    <3>1. wqs'[q] = wqs[q]
      BY <2>4 DEF EnableWq, SetupInv, SetupTypes
    <3> QED
      BY <2>1, <2>4, <3>1
  <2> QED
    BY <2>3, <2>4
<1>3. SetupTypes'
  <2>1. wqs' \in [Wqs -> WorkQueue]
    BY <1>2 DEF EnableWq, SetupInv, SetupTypes
  <2> QED
    BY <1>1, <2>1 DEF SetupInv, SetupTypes
<1>4. InRun'
  BY <1>1, SetupAssumption DEF InRun
<1>5. (Unbinds(opt) => Unbinding)'
  <2> SUFFICES ASSUME Unbinds(opt) PROVE Unbinding'
    BY <1>1
  <2>1. enabled /\ Assigned(opt.e) /\ Configured(num_wq(opt)) /\ TurnedOn(nth)
    BY <1>1 DEF SetupInv, Unbinding
  <2>2. Assigned(opt.e)' /\ Configured(num_wq(opt))'
    BY <1>1, <1>2, <2>1 DEF Assigned, Configured
  <2>3. TurnedOn(nth)'
    <3> SUFFICES ASSUME opt.q = -1, Fits(opt), NEW q \in Wqs
                 PROVE  wqs'[q].on <=> q < nth + 1 /\ q < num_wq(opt)
      BY <1>1 DEF TurnedOn
    <3>1. wqs[q].on <=> q < nth /\ q < num_wq(opt)
      BY <2>1 DEF TurnedOn
    <3>2. q < num_wq(opt) => wqs[q].size = wq_size(opt) /\ wq_size(opt) # 0
      <4>1. wq_size(opt) > 0
        BY DEF Fits
      <4> QED
        BY <2>1, <4>1 DEF Configured
    <3>3. ~(q < num_wq(opt)) => wqs[q].size = 0
      BY <2>1 DEF Configured
    <3>4. q \in Int /\ num_wq(opt) \in Int
      BY Asked, SetupAssumption DEF Wqs, SetupInv, SetupTypes
    <3>5. q < nth + 1 <=> q < nth \/ q = nth
      BY <1>1, <3>4
    <3>6. enabled
      BY <2>1
    <3>7. wqs'[q].on <=> wqs[q].on \/ (q = nth /\ enabled /\ wqs[q].size # 0)
      BY <1>2
    <3> QED
      BY <3>1, <3>2, <3>3, <3>5, <3>6, <3>7
  <2> QED
    BY <1>1, <2>1, <2>2, <2>3 DEF Unbinding, TurnedOn
<1>6. Serving'
  <2>1. \A q \in Wqs : wqs'[q].on => enabled /\ wqs[q].size # 0
    BY <1>2 DEF SetupInv, Serving
  <2>2. \A q \in Wqs : wqs'[q].size # 0 => wqs'[q].group # -1
    BY <1>2 DEF SetupInv, Serving
  <2>3. ASSUME ~cut', NEW q \in Wqs, wqs'[q].size # 0 PROVE Served(wqs[q].group)'
    <3>1. Served(wqs[q].group)
      BY <1>1, <1>2, <2>3 DEF SetupInv, Serving
    <3> QED
      BY <1>1, <1>2, <3>1 DEF Served
  <2> QED
    BY <1>1, <1>2, <2>1, <2>2, <2>3 DEF Serving
<1> QED
  BY <1>3, <1>4, <1>5, <1>6 DEF SetupInv

LEMMA do_optionsKeeps ==
  ASSUME SetupInv, do_options
  PROVE  SetupInv'
<1>1. command = "none" /\ enabled' = enabled /\ engines' = engines /\ wqs' = wqs /\ cut' = cut
  BY DEF do_options
<1>2. PICK o \in Options :
        /\ opt' = o
        /\ \/ Refused(o) /\ ended' = "exit" /\ UNCHANGED <<command, nth>>
           \/ /\ ~Refused(o)
              /\ Continue(IF Unbinds(o) THEN unbind ELSE IF Configures(o) THEN configure(o) ELSE bind(o))
  BY DEF do_options
<1>3. o \in CommandLine /\ (Configures(o) => o.e # 0)
  BY SetupAssumption DEF CommandLine, Configures
<1>4. \/ command' = "none" /\ nth' = nth /\ Refused(o) /\ ended' = "exit"
      \/ command' = "disable-wq" /\ nth' = 0 /\ Unbinds(o)
      \/ command' = "assign-engine" /\ nth' = 0 /\ Configures(o) /\ ~Unbinds(o)
      \/ command' \in {"none", "enable-device"} /\ nth' = 0 /\ ~Configures(o) /\ ~Unbinds(o)
  BY <1>1, <1>2 DEF Continue, unbind, configure, bind
<1>5. SetupTypes'
  BY <1>1, <1>2, <1>3, <1>4 DEF SetupInv, SetupTypes, Commands
<1>6. InRun'
  BY <1>2, <1>4 DEF InRun
<1>7. (Unbinds(opt) => Unbinding)'
  <2> SUFFICES ASSUME Unbinds(o) PROVE Unbinding'
    BY <1>2
  <2>1. CASE command' = "disable-wq"
    BY <2>1 DEF Unbinding
  <2>2. CASE command' = "none" /\ Refused(o) /\ ended' = "exit"
    <3>1. o.q # -1
      <4>1. ~(-1 >= NUM_WQS)
        BY SetupAssumption
      <4> QED
        BY <2>2, <4>1 DEF Refused
    <3> QED
      BY <1>2, <2>2, <3>1 DEF Unbinding
  <2> QED
    BY <1>4, <2>1, <2>2
<1>8. Serving'
  BY <1>1, <1>4 DEF SetupInv, Serving, Served
<1> QED
  BY <1>5, <1>6, <1>7, <1>8 DEF SetupInv

\* At the end of a loop the next part of the script begins.
LEMMA LoopEndsKeeps ==
  ASSUME SetupInv, LoopEnds
  PROVE  SetupInv'
<1>1. opt' = opt /\ enabled' = enabled /\ engines' = engines /\ wqs' = wqs /\ cut' = cut /\ nth' = 0
  BY DEF LoopEnds, Continue
<1> DEFINE Ends(loop, n, next) ==
      command = loop /\ nth = n /\ command' = next /\ ended' = IF next = "none" THEN "done" ELSE ""
<1>2. \/ Ends("disable-wq", NUM_WQS, "disable-device")
      \/ Ends("free-engine", NUM_ENGINES, "zero-wq")
      \/ Ends("zero-wq", NUM_WQS, configure(opt))
      \/ nth >= opt.e /\ Ends("assign-engine", nth, "config-wq")
      \/ Ends("config-wq", num_wq(opt), bind(opt))
      \/ Ends("enable-wq", NUM_WQS, "none")
  BY DEF LoopEnds, Continue
<1>3. bind(opt) \in {"none", "enable-device"} /\ configure(opt) \in {"none", "assign-engine"}
  BY DEF bind, configure
<1>4. SetupTypes'
  BY <1>1, <1>2, <1>3 DEF SetupInv, SetupTypes, Commands
<1>5. InRun'
  <2>1. 0 <= NUM_WQS /\ 0 <= NUM_ENGINES /\ 0 <= num_wq(opt)
    BY Asked, SetupAssumption DEF SetupInv, SetupTypes
  <2>2. command' = "assign-engine" => Configures(opt)
    BY <1>2, <1>3 DEF configure
  <2> QED
    BY <1>1, <1>2, <1>3, <2>1, <2>2 DEF SetupInv, InRun
<1>6. (Unbinds(opt) => Unbinding)'
  <2> SUFFICES ASSUME Unbinds(opt) PROVE Unbinding'
    BY <1>1
  <2>1. CASE Ends("disable-wq", NUM_WQS, "disable-device")
    BY <2>1 DEF Unbinding
  <2>2. CASE Ends("free-engine", NUM_ENGINES, "zero-wq")
    <3>1. AllOff /\ \A n \in Engines : engines[n] = -1
      <4>1. AllOff /\ \A n \in Engines : n < nth => engines[n] = -1
        BY <2>2 DEF SetupInv, Unbinding
      <4>2. \A n \in Engines : n < NUM_ENGINES
        BY SetupAssumption DEF Engines
      <4> QED
        BY <2>2, <4>1, <4>2
    <3>2. AllOff' /\ Zeroed(nth)'
      <4>1. \A q \in Wqs : ~(q < 0)
        BY SetupAssumption DEF Wqs
      <4> QED
        BY <1>1, <3>1, <4>1 DEF AllOff, Zeroed
    <3> QED
      BY <1>1, <2>2, <3>1, <3>2 DEF Unbinding
  <2>3. CASE Ends("zero-wq", NUM_WQS, configure(opt))
    <3>1. AllOff /\ Zeroed(NUM_WQS) /\ \A n \in Engines : engines[n] = -1
      BY <2>3 DEF SetupInv, Unbinding
    <3>2. AllOff' /\ Zeroed(NUM_WQS)'
      BY <1>1, <3>1 DEF AllOff, Zeroed
    <3>3. Assigned(nth)'
      <4>1. 0 <= NUM_ENGINES /\ \A n \in Engines : ~(n < 0)
        BY SetupAssumption DEF Engines
      <4> QED
        BY <1>1, <3>1, <4>1 DEF Assigned
    <3>4. command' = "assign-engine" \/ (command' = "none" /\ ~Configures(opt))
      BY <2>3 DEF configure
    <3>5. 0 <= opt.e
      BY DEF SetupInv, SetupTypes, CommandLine
    <3> QED
      BY <1>1, <3>2, <3>3, <3>4, <3>5 DEF Unbinding
  <2>4. CASE nth >= opt.e /\ Ends("assign-engine", nth, "config-wq")
    <3>1. AllOff /\ Assigned(opt.e) /\ Zeroed(NUM_WQS)
      <4>1. opt.e \in Nat /\ nth \in Nat /\ nth <= opt.e
        BY <2>4 DEF SetupInv, Unbinding, SetupTypes, CommandLine
      <4>2. nth = opt.e
        <5>1. nth >= opt.e
          BY <2>4
        <5> QED
          BY ONLY <4>1, <5>1
      <4> QED
        BY <2>4, <4>2 DEF SetupInv, Unbinding
    <3>2. AllOff' /\ Assigned(opt.e)'
      BY <1>1, <3>1 DEF AllOff, Assigned
    <3>3. Configured(nth)'
      <4>1. \A q \in Wqs : ~(q < 0) /\ wqs[q].size = 0
        BY <3>1, SetupAssumption DEF Wqs, Zeroed
      <4> QED
        BY <1>1, <4>1 DEF Configured
    <3> QED
      BY <2>4, <3>2, <3>3 DEF Unbinding
  <2>5. CASE Ends("config-wq", num_wq(opt), bind(opt))
    <3>1. AllOff /\ Assigned(opt.e) /\ Configured(num_wq(opt))
      BY <2>5 DEF SetupInv, Unbinding
    <3>2. AllOff' /\ Assigned(opt.e)' /\ Configured(num_wq(opt))'
      BY <1>1, <3>1 DEF AllOff, Assigned, Configured
    <3>3. command' = "enable-device"
      BY <2>5 DEF SetupInv, InRun, bind, Binds
    <3> QED
      BY <3>2, <3>3 DEF Unbinding
  <2>6. CASE Ends("enable-wq", NUM_WQS, "none")
    <3>1. enabled /\ Assigned(opt.e) /\ Configured(num_wq(opt)) /\ TurnedOn(NUM_WQS)
      BY <2>6 DEF SetupInv, Unbinding
    <3>2. enabled' /\ Assigned(opt.e)' /\ Configured(num_wq(opt))' /\ TurnedOn(NUM_WQS)'
      BY <1>1, <3>1 DEF Assigned, Configured, TurnedOn
    <3> QED
      BY <2>6, <3>2 DEF Unbinding
  <2> HIDE DEF Ends
  <2> QED
    BY <1>2, <2>1, <2>2, <2>3, <2>4, <2>5, <2>6
<1>7. Serving'
  <2>1. \A q \in Wqs : q \in Int /\ 0 <= q /\ q < NUM_WQS
    BY SetupAssumption DEF Wqs
  <2>2. ASSUME ~cut, NEW q \in Wqs, wqs[q].size # 0
        PROVE  Served(wqs[q].group) \/ command' = "free-engine" \/ (command' = "zero-wq" /\ q >= 0)
    <3>1. Served(wqs[q].group) \/ command = "free-engine" \/ (command = "zero-wq" /\ q >= nth)
      BY <2>2 DEF SetupInv, Serving
    <3>2. command = "free-engine" => command' = "zero-wq"
      BY <1>2
    <3>3. command = "zero-wq" => nth = NUM_WQS
      BY <1>2
    <3>4. ~(q >= NUM_WQS) /\ q >= 0
      BY <2>1, SetupAssumption
    <3> HIDE DEF Ends
    <3> QED
      BY <3>1, <3>2, <3>3, <3>4
  <2>3. command' = "config-wq" => enabled \/ Served(opt.g)
    <3>1. command' = "config-wq" => command = "assign-engine" /\ nth >= opt.e
      BY <1>2, <1>3
    <3>2. command = "assign-engine" /\ nth >= opt.e => nth > 0
      BY DEF SetupInv, SetupTypes, InRun, CommandLine
    <3> QED
      BY <3>1, <3>2 DEF SetupInv, Serving
  <2> QED
    BY <1>1, <2>2, <2>3 DEF SetupInv, Serving, Served
<1> QED
  BY <1>4, <1>5, <1>6, <1>7 DEF SetupInv

\* When the first k queues have size s and the others none, queue p finds k * s claimed.
LEMMA Claimed ==
  ASSUME SetupTypes, NEW s \in Nat, NEW k \in Nat, NEW p \in Wqs, k <= p,
         \A q \in Wqs : wqs[q].size = IF q < k THEN s ELSE 0
  PROVE  claimed(p) = k * s
<1> DEFINE term == [j \in Nat |-> IF j \in Wqs \ {p} THEN wqs[j].size ELSE 0]
           g == [a \in Nat \X Nat |-> a[2] + term[a[1]]]
           Sums(f) == f = [j \in Nat |-> IF j = 0 THEN 0
                                         ELSE f[j - 1] + IF j - 1 \in Wqs \ {p} THEN wqs[j - 1].size ELSE 0]
<1>1. \A j \in Nat : term[j] = IF j < k THEN s ELSE 0
  BY SetupAssumption DEF Wqs
<1>2. \A j \in Nat : term[j] = IF j \in Wqs \ {p} THEN wqs[j].size ELSE 0
  OBVIOUS
<1> HIDE DEF term
<1>3. \A j \in Nat, t \in Nat : t + term[j] \in Nat
  BY <1>1
<1>4. g \in [Nat \X Nat -> Nat] /\ \A j \in Nat, t \in Nat : g[<<j, t>>] = t + term[j]
  BY <1>3
<1> HIDE DEF g
<1>5. PICK f \in [Nat -> Nat] : f[0] = 0 /\ \A j \in Nat : f[j + 1] = f[j] + term[j]
  <2>1. PICK f : Iterates(f, Nat, 0, g)
    BY <1>4, Iteration
  <2>2. f \in [Nat -> Nat] /\ f[0] = 0 /\ \A j \in Nat : f[j + 1] = g[<<j, f[j]>>]
    BY <2>1 DEF Iterates
  <2>3. \A j \in Nat : f[j + 1] = f[j] + term[j]
    BY <1>4, <2>2
  <2> QED
    BY <2>2, <2>3
<1>6. Sums(f)
  <2>1. ASSUME NEW j \in Nat \ {0} PROVE f[j] = f[j - 1] + IF j - 1 \in Wqs \ {p} THEN wqs[j - 1].size ELSE 0
    <3>1. j - 1 \in Nat /\ (j - 1) + 1 = j
      OBVIOUS
    <3>2. f[(j - 1) + 1] = f[j - 1] + term[j - 1]
      BY <1>5, <3>1
    <3> QED
      BY <1>2, <3>1, <3>2
  <2> QED
    BY <1>5, <2>1
<1>7. claimed(p) = (CHOOSE h : Sums(h))[NUM_WQS]
  BY DEF claimed
<1> DEFINE sum == CHOOSE h : Sums(h)
<1>8. Sums(sum)
  <2> HIDE DEF Sums
  <2> QED
    BY <1>6
<1>9. sum[0] = 0 /\ \A j \in Nat : sum[j + 1] = sum[j] + term[j]
  <2>1. \A j \in Nat : sum[j] = IF j = 0 THEN 0
                                ELSE sum[j - 1] + IF j - 1 \in Wqs \ {p} THEN wqs[j - 1].size ELSE 0
    BY <1>8
  <2> HIDE DEF sum
  <2>2. ASSUME NEW j \in Nat PROVE sum[j + 1] = sum[j] + term[j]
    <3>1. j + 1 \in Nat /\ j + 1 # 0 /\ (j + 1) - 1 = j
      OBVIOUS
    <3> QED
      BY <1>2, <2>1, <3>1
  <2> QED
    BY <2>1, <2>2
<1> HIDE DEF sum, Sums
<1> DEFINE T == {j \in Nat : sum[j] = IF j <= k THEN j * s ELSE k * s}
<1>10. T = Nat
  <2>1. 0 \in T
    BY <1>9
  <2>2. ASSUME NEW j \in T PROVE j + 1 \in T
    <3>1. (j + 1) * s = j * s + s /\ j * s \in Nat /\ k * s \in Nat
      OBVIOUS
    <3>2. sum[j + 1] = sum[j] + term[j]
      BY <1>9
    <3>3. CASE j < k
      <4>1. sum[j + 1] = j * s + s /\ j + 1 <= k
        BY <1>1, <3>2, <3>3
      <4> QED
        BY <3>1, <4>1
    <3>4. CASE ~(j < k)
      <4>1. sum[j] = k * s
        <5>1. CASE j = k
          BY <5>1
        <5>2. CASE j # k
          BY <3>4, <5>2
        <5> QED
          BY <5>1, <5>2
      <4>2. sum[j + 1] = k * s + 0 /\ ~(j + 1 <= k)
        BY <1>1, <3>2, <3>4, <4>1
      <4> QED
        BY <3>1, <4>2
    <3> QED
      BY <3>3, <3>4
  <2>3. T \in SUBSET Nat
    OBVIOUS
  <2> HIDE DEF T
  <2> QED
    BY <2>1, <2>2, <2>3, AllNat
<1>11. NUM_WQS \in Nat /\ k < NUM_WQS
  BY SetupAssumption DEF Wqs
<1>12. sum[NUM_WQS] = k * s
  BY <1>10, <1>11
<1> QED
  BY <1>7, <1>12 DEF sum

\* A run that unbinds finds room for the queues it was asked for.
LEMMA RoomForTheNext ==
  ASSUME SetupTypes, command = "config-wq", nth < num_wq(opt), Configured(nth), opt.q = -1, Fits(opt)
  PROVE  nth \in Wqs /\ claimed(nth) + wq_size(opt) <= max_work_queues_size
<1> DEFINE n == num_wq(opt)
           s == wq_size(opt)
<1>1. n \in Nat /\ n <= NUM_WQS /\ n * s <= max_work_queues_size /\ nth \in Nat
  BY Asked DEF SetupTypes, Fits
<1>2. s \in Nat
  <2>1. n # 0
    BY <1>1
  <2> QED
    BY <2>1, Asked DEF SetupTypes, Configures
<1>3. nth \in Wqs
  BY <1>1, SetupAssumption DEF Wqs
<1>4. \A q \in Wqs : wqs[q].size = IF q < nth THEN s ELSE 0
  BY DEF Configured
<1>5. PICK k \in Nat, size \in Nat, m \in Nat : k = nth /\ size = s /\ m = n
  BY <1>1, <1>2
<1> HIDE DEF n, s
<1>6. claimed(nth) = k * size
  <2>1. \A q \in Wqs : wqs[q].size = IF q < k THEN size ELSE 0
    BY <1>4, <1>5
  <2>2. nth \in Wqs /\ k <= nth
    BY <1>1, <1>3, <1>5
  <2> QED
    BY <2>1, <2>2, Claimed
<1>7. k * size + size <= m * size
  <2>1. k + 1 <= m
    BY <1>1, <1>5 DEF n
  <2>2. PICK d \in Nat : m = k + 1 + d
    <3>1. m - (k + 1) \in Nat /\ m = k + 1 + (m - (k + 1))
      BY <2>1
    <3> QED
      BY <3>1
  <2>3. m * size = k * size + size + d * size
    BY <2>2
  <2>4. d * size \in Nat /\ k * size \in Nat
    OBVIOUS
  <2> QED
    BY <2>3, <2>4
<1>8. k * size \in Nat /\ m * size \in Nat /\ m * size <= max_work_queues_size /\ max_work_queues_size \in Nat
  BY <1>1, <1>5, SetupAssumption
<1>9. claimed(nth) + size <= max_work_queues_size
  BY <1>6, <1>7, <1>8
<1> QED
  BY <1>3, <1>5, <1>9 DEF s

LEMMA ConfigWqKeeps ==
  ASSUME SetupInv, ConfigWq
  PROVE  SetupInv'
<1>1. command = "config-wq" /\ command' = command /\ opt' = opt /\ enabled' = enabled /\ engines' = engines
      /\ ended' = ended /\ cut' = cut /\ nth' = nth + 1 /\ nth \in Nat /\ nth < num_wq(opt)
  BY DEF SetupInv, SetupTypes, ConfigWq, For
<1>2. opt \in CommandLine /\ num_wq(opt) \in Nat /\ wq_size(opt) \in Nat /\ opt.g \in Nat
  BY <1>1, Asked DEF SetupInv, SetupTypes, InRun, CommandLine
<1> DEFINE goes == ~enabled /\ wq_id \in Wqs /\ claimed(wq_id) + wq_size(opt) <= max_work_queues_size
           new == [size |-> wq_size(opt), group |-> opt.g, on |-> FALSE]
<1>3. new \in WorkQueue
  BY <1>2 DEF WorkQueue
<1>4. wqs' = (IF goes THEN [wqs EXCEPT ![wq_id] = new] ELSE wqs) /\ wqs \in [Wqs -> WorkQueue]
  BY DEF ConfigWq, SetupInv, SetupTypes
<1>5. new.size = wq_size(opt) /\ new.group = opt.g /\ new.on = FALSE
  OBVIOUS
<1>6. goes => ~enabled /\ wq_id \in Wqs
  OBVIOUS
<1>7. opt.q = -1 /\ Fits(opt) /\ Unbinds(opt) => goes /\ wq_id = nth
  <2> SUFFICES ASSUME opt.q = -1, Fits(opt), Unbinds(opt) PROVE goes /\ wq_id = nth
    OBVIOUS
  <2>1. ~enabled /\ Configured(nth)
    BY <1>1 DEF SetupInv, Unbinding, AllOff
  <2>2. wq_id = nth
    BY DEF wq_id
  <2> QED
    BY <1>1, <2>1, <2>2, RoomForTheNext DEF SetupInv
<1> HIDE DEF new, goes
<1>8. SetupTypes'
  <2>1. wqs' \in [Wqs -> WorkQueue]
    BY <1>3, <1>4
  <2> QED
    BY <1>1, <2>1 DEF SetupInv, SetupTypes
<1>9. InRun'
  BY <1>1, <1>2 DEF SetupInv, InRun
<1>10. \A q \in Wqs : wqs'[q] = IF goes /\ q = wq_id THEN new ELSE wqs[q]
  BY <1>4
<1>11. (Unbinds(opt) => Unbinding)'
  <2> SUFFICES ASSUME Unbinds(opt) PROVE Unbinding'
    BY <1>1
  <2>1. AllOff /\ Assigned(opt.e) /\ Configured(nth)
    BY <1>1 DEF SetupInv, Unbinding
  <2>2. AllOff'
    BY <1>1, <1>5, <1>10, <2>1 DEF AllOff
  <2>3. Assigned(opt.e)'
    BY <1>1, <2>1 DEF Assigned
  <2>4. Configured(nth)'
    <3> SUFFICES ASSUME opt.q = -1, Fits(opt), NEW q \in Wqs
                 PROVE  IF q < nth + 1 THEN wqs'[q].size = wq_size(opt) /\ wqs'[q].group = opt.g
                                       ELSE wqs'[q].size = 0
      BY <1>1 DEF Configured
    <3>1. IF q < nth THEN wqs[q].size = wq_size(opt) /\ wqs[q].group = opt.g ELSE wqs[q].size = 0
      BY <2>1 DEF Configured
    <3>2. wqs'[q] = IF q = nth THEN new ELSE wqs[q]
      BY <1>7, <1>10
    <3>3. q < nth + 1 <=> q < nth \/ q = nth
      BY <1>1, SetupAssumption DEF Wqs
    <3> QED
      BY <1>5, <3>1, <3>2, <3>3
  <2> QED
    BY <1>1, <2>2, <2>3, <2>4 DEF Unbinding
<1>12. Serving'
  <2>1. \A q \in Wqs : wqs'[q].on => enabled /\ wqs'[q].size # 0
    BY <1>5, <1>10 DEF SetupInv, Serving
  <2>2. \A q \in Wqs : wqs'[q].size # 0 => wqs'[q].group # -1
    <3>1. opt.g # -1
      BY <1>2
    <3> QED
      BY <1>5, <1>10, <3>1 DEF SetupInv, Serving
  <2>3. enabled \/ Served(opt.g)
    BY <1>1 DEF SetupInv, Serving
  <2>4. ASSUME ~cut, NEW q \in Wqs, wqs'[q].size # 0
        PROVE  \E n \in Engines : engines[n] = wqs'[q].group
    <3>1. CASE goes /\ q = wq_id
      BY <1>5, <1>6, <1>10, <2>3, <3>1 DEF Served
    <3>2. CASE ~(goes /\ q = wq_id)
      <4>1. wqs'[q] = wqs[q]
        BY <1>10, <3>2
      <4> QED
        BY <1>1, <2>4, <4>1 DEF SetupInv, Serving, Served
    <3> QED
      BY <3>1, <3>2
  <2> QED
    BY <1>1, <2>1, <2>2, <2>3, <2>4 DEF Serving, Served
<1> QED
  BY <1>8, <1>9, <1>11, <1>12 DEF SetupInv

LEMMA SetupInvInductive ==
  ASSUME SetupInv, [SetupNext]_setup
  PROVE  SetupInv'
<1>1. CASE UNCHANGED setup
  <2>1. enabled' = enabled /\ engines' = engines /\ wqs' = wqs /\ opt' = opt /\ command' = command /\ nth' = nth
        /\ ended' = ended /\ cut' = cut
    BY <1>1 DEF setup
  <2>2. SetupTypes' /\ InRun' /\ Serving'
    BY <2>1 DEF SetupInv, SetupTypes, InRun, Serving, Served
  <2>3. (Unbinds(opt) => Unbinding)'
    <3>1. Unbinding => Unbinding'
      BY <2>1 DEF Unbinding, AllOff, Zeroed, Assigned, Configured, TurnedOn
    <3> QED
      BY <2>1, <3>1 DEF SetupInv
  <2> QED
    BY <2>2, <2>3 DEF SetupInv
<1>2. CASE SetupNext
  BY <1>2, DisableWqKeeps, DisableDeviceKeeps, FreeEngineKeeps, ZeroWqKeeps, AssignEngineKeeps, NoFreeEngineKeeps,
     InterruptKeeps, EnableDeviceKeeps, EnableWqKeeps, do_optionsKeeps, LoopEndsKeeps, ConfigWqKeeps DEF SetupNext
<1> QED
  BY <1>1, <1>2

LEMMA SetupInvInitially == SetupInit => SetupInv
<1> SUFFICES ASSUME SetupInit PROVE SetupInv
  OBVIOUS
<1>1. ~Configures(opt) /\ opt \in CommandLine
  BY DEF SetupInit, NoOption, Configures, num_wq, CommandLine
<1>2. SetupTypes
  BY <1>1, SetupAssumption DEF SetupInit, SetupTypes, Commands, WorkQueue
<1>3. InRun /\ Unbinding
  BY <1>1 DEF SetupInit, InRun, Unbinding
<1>4. Serving
  BY DEF SetupInit, Serving
<1> QED
  BY <1>2, <1>3, <1>4 DEF SetupInv

\* The engines of the group are the first opt.e.
LEMMA EnginesOfTheGroup ==
  ASSUME SetupTypes, Assigned(opt.e)
  PROVE  /\ Cardinality({n \in Engines : engines[n] = opt.g}) = opt.e
         /\ \A n \in Engines : engines[n] \in {opt.g, -1}
<1>1. opt.e \in Nat /\ opt.g \in Nat /\ opt.e <= NUM_ENGINES
  BY DEF SetupTypes, CommandLine, Assigned
<1>2. \A n \in Engines : engines[n] = IF n < opt.e THEN opt.g ELSE -1
  BY DEF Assigned
<1>3. {n \in Engines : engines[n] = opt.g} = 0 .. opt.e - 1
  <2>1. \A n \in Engines : engines[n] = opt.g <=> n < opt.e
    BY <1>1, <1>2
  <2>2. \A n : n \in Engines /\ n < opt.e <=> n \in 0 .. opt.e - 1
    BY <1>1, SetupAssumption DEF Engines
  <2> QED
    BY <2>1, <2>2
<1>4. Cardinality(0 .. opt.e - 1) = opt.e
  <2>1. PICK e \in Nat : e = opt.e
    BY <1>1
  <2>2. Cardinality(0 .. e - 1) = IF 0 > e - 1 THEN 0 ELSE (e - 1) - 0 + 1
    BY FS_Interval
  <2> QED
    BY <2>1, <2>2
<1> QED
  BY <1>2, <1>3, <1>4

LEMMA SetupInvEnough == SetupInv => SetupRight
<1> SUFFICES ASSUME SetupInv PROVE SetupRight
  OBVIOUS
<1>1. OneRunIsEnough
  <2> SUFFICES ASSUME command = "none", Unbinds(opt), Configures(opt), opt.q = -1
               PROVE  /\ ended = "done" /\ Fits(opt) =>
                           /\ enabled
                           /\ \A q \in Wqs :
                                IF q < num_wq(opt)
                                THEN wqs[q] = [size |-> wq_size(opt), group |-> opt.g, on |-> TRUE]
                                ELSE wqs[q].size = 0 /\ ~wqs[q].on
                           /\ Cardinality({n \in Engines : engines[n] = opt.g}) = opt.e
                           /\ \A n \in Engines : engines[n] \in {opt.g, -1}
                      /\ ended = "exit" => ~enabled /\ \A q \in Wqs : ~wqs[q].on
    BY DEF OneRunIsEnough
  <2>1. /\ ended = "done" => enabled /\ Assigned(opt.e) /\ Configured(num_wq(opt)) /\ TurnedOn(NUM_WQS)
        /\ ended = "exit" => AllOff
    BY DEF SetupInv, Unbinding
  <2>2. ASSUME ended = "done", Fits(opt), NEW q \in Wqs
        PROVE  IF q < num_wq(opt) THEN wqs[q] = [size |-> wq_size(opt), group |-> opt.g, on |-> TRUE]
                                  ELSE wqs[q].size = 0 /\ ~wqs[q].on
    <3>1. q < NUM_WQS
      BY SetupAssumption DEF Wqs
    <3>2. wqs[q].on <=> q < num_wq(opt)
      BY <2>1, <2>2, <3>1 DEF TurnedOn
    <3>3. IF q < num_wq(opt) THEN wqs[q].size = wq_size(opt) /\ wqs[q].group = opt.g ELSE wqs[q].size = 0
      BY <2>1, <2>2 DEF Configured
    <3>4. PICK r \in WorkQueue : r = wqs[q]
      BY DEF SetupInv, SetupTypes
    <3>5. r = [size |-> r.size, group |-> r.group, on |-> r.on] /\ r.on \in BOOLEAN
      BY DEF WorkQueue
    <3>6. r.on => r.on = TRUE
      BY <3>5
    <3> QED
      BY <3>2, <3>3, <3>4, <3>5, <3>6
  <2> QED
    BY <2>1, <2>2, EnginesOfTheGroup DEF SetupInv, AllOff
<1>2. QueuesServed
  <2> SUFFICES ASSUME ~cut, NEW q \in Wqs, wqs[q].on
               PROVE  enabled /\ \E n \in Engines : engines[n] = wqs[q].group
    BY DEF QueuesServed
  <2>1. enabled /\ wqs[q].size # 0
    BY DEF SetupInv, Serving
  <2>2. command \notin {"free-engine", "zero-wq"}
    BY <2>1 DEF SetupInv, InRun, Unbinding, AllOff
  <2> QED
    BY <2>1, <2>2 DEF SetupInv, Serving, Served
<1> QED
  BY <1>1, <1>2 DEF SetupRight

\* setup_dsa.sh, main: for any device and any sequence of runs, complete, ended
\* by an exit or interrupted anywhere, one run gives the device its command line
\* asks for, and unless a run was interrupted a queue is only enabled while an
\* engine serves it.
THEOREM SetupCorrect == SetupSpec => []SetupRight
<1>1. SetupInit => SetupInv
  BY SetupInvInitially
<1>2. SetupInv /\ [SetupNext]_setup => SetupInv'
  BY SetupInvInductive
<1>3. SetupInv => SetupRight
  BY SetupInvEnough
<1> QED
  BY <1>1, <1>2, <1>3, PTL DEF SetupSpec

-----------------------------------------------------------------------------
(* The page-fault experiments meet the faults they are about. *)

Arrays == {"src", "dest"}
FrameStates == {"absent", "zero", "hole", "disk", "present"}

FaultTypes ==
  /\ fault_method \in Methods /\ op_type \in Ops
  /\ frames \in [Arrays -> [{frame(p) : p \in Pages} -> FrameStates]]
  /\ data \in [Arrays -> [Pages -> Int]]
  /\ fault_at \in {"tap", "submit", "end"} /\ task_id \in 0 .. copies /\ tap_at \in Nat
  /\ submitted \subseteq 0 .. first_page(task_id) - 1

\* Where the program is: pages are tapped before their task is submitted.
ProgramAt ==
  /\ fault_at = "tap" => \/ fault_method = "tap_all" /\ task_id = 0
                         \/ /\ fault_method \in TapEach \union TapOnly
                            /\ task_id < copies /\ tap_at >= first_page(task_id)
  /\ fault_at = "submit" => task_id < copies /\ fault_method \notin TapOnly
  /\ fault_at = "end" => task_id = copies
  /\ fault_method \in TapOnly => submitted = {}

Done == (0 .. first_page(task_id) - 1) \ submitted
\* The device would meet no fault at page p of the array.
PageReady(arr, p) == kinds(frames[arr][frame(p)], arr \in Writes) = {}

\* Page p has been tapped, itself or its huge page, if the method taps.
PageTapped(p) ==
  CASE fault_method = "tap_all" -> fault_at = "tap" => p < tap_at
    [] fault_method \in TapEach ->
         \/ p < first_page(task_id)
         \/ /\ p < first_page(task_id + 1)
            /\ \/ fault_at = "submit"
               \/ fault_at = "tap" /\ (IF is_huge THEN tap_at # first_page(task_id) ELSE p < tap_at)
    [] fault_method \in TapOnly -> FALSE
    [] OTHER -> TRUE

\* These methods meet no fault ...
Silent == fault_method \notin {"no_tap", "minor", "major"}
NoFaults ==
  /\ faulted = {}
  /\ \A arr \in Used, p \in Pages : arr # Tapped \/ PageTapped(p) => PageReady(arr, p)

\* ... the others one of the same kind at each page of one array.
Faulting == IF fault_method = "major" THEN "src" ELSE Tapped
FaultKind == IF fault_method = "major" /\ op_type # "memfill" THEN "major" ELSE "minor"
FaultEach ==
  /\ faulted = {FaultKind} \X {Faulting} \X Done
  /\ Faulting \in Used
  /\ \A p \in Pages \ Done : kinds(frames[Faulting][p], Faulting \in Writes) = {FaultKind}
  /\ \A arr \in Used \ {Faulting}, p \in Pages : PageReady(arr, p)

ResultSoFar ==
  /\ op_type = "memmove" => \A p \in Pages : data["src"][p] = p + 1
  /\ op_type = "memmove" /\ fault_method \notin TapOnly => \A p \in Done : data["dest"][p] = p + 1
  /\ op_type = "memfill" /\ fault_method \notin TapOnly => \A p \in Done : data[FillTarget][p] = FillPattern
  /\ op_type = "compare" => \A p \in Pages : data["src"][p] = data["dest"][p]
  /\ op_type = "compval" => \A p \in Pages : data["src"][p] = 0

FaultInv ==
  /\ FaultTypes /\ ProgramAt /\ ResultSoFar
  /\ Silent => NoFaults
  /\ ~Silent => FaultEach

\* The tasks follow one another and fit in the arrays.
LEMMA TaskPages ==
  /\ copies \in Nat /\ first_page(0) = 0 /\ first_page(copies) <= array_pages
  /\ \A k \in Nat : first_page(k) \in Nat /\ first_page(k + 1) = first_page(k) + task_pages
  /\ \A j, k \in Nat : j <= k => first_page(j) <= first_page(k)
<1>1. task_pages \in Nat /\ task_pages > 0 /\ array_pages \in Nat
  BY FaultBenchAssumption
<1>2. copies \in Nat /\ copies * task_pages <= array_pages
  BY ONLY <1>1 DEF copies
<1>3. \A k \in Nat : k * task_pages \in Nat /\ (k + 1) * task_pages = k * task_pages + task_pages
  BY ONLY <1>1
<1>4. ASSUME NEW j \in Nat, NEW k \in Nat, j <= k
      PROVE  j * task_pages <= k * task_pages
  <2>1. (k - j) \in Nat
    BY <1>4
  <2>2. (k - j) * task_pages \in Nat
    BY ONLY <2>1, <1>1
  <2>3. (k - j) * task_pages = k * task_pages - j * task_pages
    BY ONLY <1>1, <2>1, <1>4
  <2>4. k * task_pages \in Nat /\ j * task_pages \in Nat
    BY ONLY <1>3, <1>4
  <2> QED
    BY ONLY <2>2, <2>3, <2>4
<1>5. 0 * task_pages = 0
  BY ONLY <1>1
<1> QED
  BY <1>1, <1>2, <1>3, <1>4, <1>5 DEF first_page

\* The pages of a task.
LEMMA PagesOf ==
  ASSUME NEW k \in 0 .. copies - 1
  PROVE  /\ first_page(k) \in Nat /\ first_page(k) < first_page(k + 1)
         /\ first_page(k + 1) = first_page(k) + task_pages /\ first_page(k + 1) \in Nat
         /\ first_page(k + 1) <= array_pages
         /\ pages_of(k) \subseteq Pages
<1>1. k \in Nat /\ k + 1 \in Nat /\ k + 1 <= copies
  BY TaskPages
<1>2. first_page(k + 1) <= first_page(copies) /\ first_page(copies) \in Nat
  BY <1>1, TaskPages
<1>3. first_page(k) \in Nat /\ first_page(k + 1) \in Nat /\ first_page(k + 1) = first_page(k) + task_pages
  BY <1>1, TaskPages
<1>4. first_page(k + 1) <= array_pages /\ first_page(k) < first_page(k + 1)
  <2>1. array_pages \in Nat /\ task_pages \in Nat /\ task_pages > 0 /\ first_page(copies) <= array_pages
    BY TaskPages, FaultBenchAssumption
  <2> QED
    BY ONLY <1>2, <1>3, <2>1
<1>5. pages_of(k) \subseteq Pages
  BY <1>3, <1>4, FaultBenchAssumption DEF pages_of, Pages
<1> QED
  BY <1>3, <1>4, <1>5

\* All pages of a task are in the huge page of its first one.
LEMMA TaskInHugePage ==
  ASSUME NEW k \in Nat, NEW p \in pages_of(k)
  PROVE  p \div HUGE_PAGE = first_page(k) \div HUGE_PAGE
<1> DEFINE tp == task_pages
<1>1. PICK n \in 1 .. HUGE_PAGE : HUGE_PAGE = n * task_pages
  BY FaultBenchAssumption
<1>2. tp \in Nat /\ tp > 0 /\ n \in Nat /\ n > 0 /\ HUGE_PAGE \in Nat /\ HUGE_PAGE > 0 /\ HUGE_PAGE = n * tp
  BY <1>1, FaultBenchAssumption
<1> DEFINE q == k \div n
           r == k % n
<1>3. q \in Nat /\ r \in 0 .. n - 1 /\ k = n * q + r
  BY <1>2
<1>4. first_page(k) \in Nat /\ first_page(k + 1) = first_page(k) + tp
  BY TaskPages
<1>5. p \in Nat /\ first_page(k) <= p /\ p < first_page(k) + tp
  BY <1>4, <1>2 DEF pages_of
<1>6. first_page(k) = HUGE_PAGE * q + r * tp
  <2>1. first_page(k) = (n * q + r) * tp
    BY <1>3 DEF first_page
  <2> HIDE DEF q, r, tp
  <2>2. (n * q + r) * tp = (n * tp) * q + r * tp
    BY ONLY <1>2, <1>3
  <2> QED
    BY ONLY <2>1, <2>2, <1>2
<1>7. r * tp \in Nat /\ r * tp + tp <= HUGE_PAGE
  <2> HIDE DEF q, r, tp
  <2>1. r \in Nat /\ (n - 1 - r) \in Nat
    BY <1>2, <1>3
  <2>2. r * tp \in Nat /\ (n - 1 - r) * tp \in Nat
    BY ONLY <2>1, <1>2
  <2>3. (n - 1 - r) * tp = n * tp - tp - r * tp
    BY ONLY <2>1, <1>2
  <2> QED
    BY ONLY <2>2, <2>3, <1>2
<1>8. ASSUME NEW x \in Nat, HUGE_PAGE * q <= x, x < HUGE_PAGE * q + HUGE_PAGE
      PROVE  x \div HUGE_PAGE = q
  <2> HIDE DEF q, r, tp
  <2> DEFINE d == x \div HUGE_PAGE
             e == x % HUGE_PAGE
  <2>1. d \in Nat /\ e \in 0 .. HUGE_PAGE - 1 /\ x = HUGE_PAGE * d + e
    BY <1>2
  <2> HIDE DEF d, e
  <2>2. CASE d < q
    <3>1. q - d - 1 \in Nat
      BY <2>1, <2>2, <1>3
    <3>2. HUGE_PAGE * (q - d - 1) \in Nat
      BY ONLY <3>1, <1>2
    <3>3. HUGE_PAGE * (q - d - 1) = HUGE_PAGE * q - HUGE_PAGE * d - HUGE_PAGE
      BY ONLY <2>1, <1>3, <1>2
    <3>4. HUGE_PAGE * q \in Nat /\ HUGE_PAGE * d \in Nat
      BY ONLY <2>1, <1>3, <1>2
    <3> QED
      BY ONLY <3>2, <3>3, <3>4, <2>1, <1>8, <1>2
  <2>3. CASE d > q
    <3>1. d - q - 1 \in Nat
      BY <2>1, <2>3, <1>3
    <3>2. HUGE_PAGE * (d - q - 1) \in Nat
      BY ONLY <3>1, <1>2
    <3>3. HUGE_PAGE * (d - q - 1) = HUGE_PAGE * d - HUGE_PAGE * q - HUGE_PAGE
      BY ONLY <2>1, <1>3, <1>2
    <3>4. HUGE_PAGE * q \in Nat /\ HUGE_PAGE * d \in Nat
      BY ONLY <2>1, <1>3, <1>2
    <3> QED
      BY ONLY <3>2, <3>3, <3>4, <2>1, <1>8, <1>2
  <2>4. CASE d = q
    BY <2>4 DEF d
  <2> QED
    BY ONLY <2>1, <2>2, <2>3, <2>4, <1>3
<1>9. HUGE_PAGE * q \in Nat
  <2> HIDE DEF q, r, tp
  <2> QED
    BY ONLY <1>2, <1>3
<1>10. first_page(k) \div HUGE_PAGE = q
  <2> HIDE DEF q, r, tp
  <2>1. HUGE_PAGE * q <= first_page(k) /\ first_page(k) < HUGE_PAGE * q + HUGE_PAGE
    BY ONLY <1>2, <1>4, <1>6, <1>7, <1>9
  <2> QED
    BY <2>1, <1>4, <1>8
<1>11. p \div HUGE_PAGE = q
  <2> HIDE DEF q, r, tp
  <2>1. HUGE_PAGE * q <= p /\ p < HUGE_PAGE * q + HUGE_PAGE
    BY ONLY <1>2, <1>4, <1>5, <1>6, <1>7, <1>9
  <2> QED
    BY <2>1, <1>5, <1>8
<1> QED
  BY <1>10, <1>11

\* An experiment does not change.
LEMMA SameExperiment ==
  ASSUME fault_method' = fault_method, op_type' = op_type
  PROVE  /\ is_huge' = is_huge /\ writes' = writes /\ Writes' = Writes /\ Used' = Used /\ FillTarget' = FillTarget
         /\ Tapped' = Tapped /\ Faulting' = Faulting /\ FaultKind' = FaultKind /\ Silent' = Silent
         /\ \A p : frame(p)' = frame(p)
         /\ {frame(p) : p \in Pages}' = {frame(p) : p \in Pages}
  BY DEF is_huge, writes, Writes, Used, Reads, FillTarget, Tapped, Faulting, FaultKind, Silent, frame

LEMMA ArraysUsed ==
  ASSUME op_type \in Ops
  PROVE  /\ Used \subseteq Arrays /\ Writes \subseteq Used /\ writes \in BOOLEAN
         /\ fault_method # "major" =>
              Tapped \in Used /\ \A arr \in Arrays : (arr \in Writes) = (writes /\ arr = Tapped)
<1>1. CASE op_type = "memmove"
  BY <1>1 DEF Used, Reads, Writes, FillTarget, writes, Tapped, Arrays
<1>2. CASE op_type = "memfill"
  BY <1>2 DEF Used, Reads, Writes, FillTarget, writes, Tapped, Arrays
<1>3. CASE op_type = "compare"
  BY <1>3 DEF Used, Reads, Writes, FillTarget, writes, Tapped, Arrays
<1>4. CASE op_type = "compval"
  BY <1>4 DEF Used, Reads, Writes, FillTarget, writes, Tapped, Arrays
<1> QED
  BY <1>1, <1>2, <1>3, <1>4 DEF Ops

\* A frame that is mapped needs no further fault for what it was mapped for, and
\* none it did not need before.
LEMMA MappedReady ==
  ASSUME NEW f \in FrameStates, NEW w \in BOOLEAN, NEW v \in BOOLEAN
  PROVE  /\ Mapped(f, w) \in FrameStates
         /\ kinds(Mapped(f, w), w) = {}
         /\ kinds(f, v) = {} => kinds(Mapped(f, w), v) = {}
<1> DEFINE m == Mapped(f, w)
<1>1. m \in FrameStates /\ (f = "present" => m = "present") /\ m \in {"present", "zero"} /\ (w => m = "present")
  BY DEF Mapped, FrameStates
<1>2. f = "zero" => m \in {"present", "zero"}
  BY <1>1
<1> HIDE DEF m
<1>3. kinds(m, w) = {}
  BY <1>1 DEF kinds
<1>4. ASSUME kinds(f, v) = {} PROVE kinds(m, v) = {}
  <2>1. f = "present" \/ (f = "zero" /\ ~v)
    BY <1>4 DEF kinds
  <2> QED
    BY <2>1, <1>1 DEF kinds
<1> QED
  BY <1>1, <1>3, <1>4 DEF m

\* The frames of an array when one of them is mapped, or none.
LEMMA FramesKept ==
  ASSUME FaultTypes, fault_method' = fault_method, op_type' = op_type,
         NEW arr \in Arrays, NEW g \in {frame(p) : p \in Pages}, NEW w \in BOOLEAN,
         \/ frames'[arr] = frames[arr]
         \/ frames'[arr] = [frames[arr] EXCEPT ![g] = Mapped(frames[arr][g], w)]
  PROVE  /\ frames'[arr] \in [{frame(p) : p \in Pages} -> FrameStates]
         /\ \A p \in Pages : PageReady(arr, p) => PageReady(arr, p)'
<1> DEFINE F == {frame(p) : p \in Pages}
           fs == frames[arr]
<1>1. fs \in [F -> FrameStates]
  BY DEF FaultTypes
<1>2. Mapped(fs[g], w) \in FrameStates
  BY <1>1, MappedReady
<1>3. frames'[arr] \in [F -> FrameStates]
  BY <1>1, <1>2
<1>4. ASSUME NEW p \in Pages, PageReady(arr, p) PROVE PageReady(arr, p)'
  <2> DEFINE f == frame(p)
             v == arr \in Writes
  <2>1. f \in F /\ fs[f] \in FrameStates /\ v \in BOOLEAN /\ kinds(fs[f], v) = {}
    BY <1>1, <1>4 DEF PageReady
  <2>2. frames'[arr][f] = fs[f] \/ frames'[arr][f] = Mapped(fs[f], w)
    BY <1>1, <2>1
  <2>3. kinds(Mapped(fs[f], w), v) = {}
    BY <2>1, MappedReady
  <2>4. frame(p)' = f /\ Writes' = Writes
    BY SameExperiment
  <2>5. kinds(frames'[arr][f], v) = {}
    <3> HIDE DEF f, v, fs
    <3> QED
      BY <2>1, <2>2, <2>3
  <2> QED
    BY <2>4, <2>5 DEF PageReady
<1> QED
  BY <1>3, <1>4

\* A page that is tapped next belongs to the task, or to the array in "tap_all".
LEMMA TapAt ==
  ASSUME FaultInv, Tap
  PROVE  /\ tap_at \in Pages /\ frame(tap_at) \in {frame(p) : p \in Pages}
         /\ \/ fault_method = "tap_all" /\ task_id = 0
            \/ /\ fault_method \in TapEach \union TapOnly /\ task_id \in 0 .. copies - 1
               /\ tap_at \in pages_of(task_id)
<1>1. /\ tap_at \in Nat /\ task_id \in 0 .. copies /\ fault_at = "tap" /\ tap_at < tap_end
      /\ array_pages \in Nat
  BY FaultBenchAssumption DEF FaultInv, FaultTypes, Tap
<1>2. CASE fault_method = "tap_all" /\ task_id = 0
  <2>1. tap_at \in Pages
    BY <1>1, <1>2 DEF tap_end, Pages
  <2> QED
    BY <1>2, <2>1
<1>3. CASE fault_method \in TapEach \union TapOnly /\ task_id < copies /\ tap_at >= first_page(task_id)
  <2>1. task_id \in 0 .. copies - 1
    BY <1>1, <1>3, TaskPages
  <2>2. tap_end = first_page(task_id + 1)
    BY <1>3 DEF tap_end, TapEach, TapOnly
  <2>3. tap_at \in pages_of(task_id) /\ pages_of(task_id) \subseteq Pages
    BY <1>1, <1>3, <2>1, <2>2, PagesOf DEF pages_of
  <2> QED
    BY <1>3, <2>1, <2>3
<1> QED
  BY <1>1, <1>2, <1>3 DEF FaultInv, ProgramAt

\* The pages submitted and done are pages of the arrays.
LEMMA PagesDone ==
  ASSUME FaultTypes
  PROVE  /\ task_id \in Nat /\ first_page(task_id) \in Nat
         /\ submitted \subseteq Pages /\ Done \subseteq Pages
<1>1. task_id \in Nat /\ first_page(task_id) <= first_page(copies) /\ first_page(task_id) \in Nat
  BY TaskPages DEF FaultTypes
<1>2. first_page(copies) <= array_pages /\ first_page(copies) \in Nat /\ array_pages \in Nat
  BY TaskPages, FaultBenchAssumption
<1>3. 0 .. first_page(task_id) - 1 \subseteq 0 .. array_pages - 1
  BY ONLY <1>1, <1>2
<1> QED
  BY <1>1, <1>3 DEF FaultTypes, Done, Pages

\* A step of the taps taps the page at tap_at, or all pages of the task that
\* are in its huge page.
LEMMA TapTaps ==
  ASSUME FaultInv, Tap, NEW p \in Pages, PageTapped(p)'
  PROVE  PageTapped(p) \/ frame(p) = frame(tap_at)
<1>1. /\ fault_method' = fault_method /\ op_type' = op_type /\ fault_at' = "tap" /\ fault_at = "tap"
      /\ task_id' = task_id /\ tap_at' = tap_at + tap_step /\ is_huge' = is_huge
      /\ tap_at \in Nat /\ p \in Nat /\ task_id \in 0 .. copies
  BY SameExperiment, FaultBenchAssumption DEF FaultInv, FaultTypes, Tap, Pages
<1>2. CASE fault_method = "tap_all"
  <2>1. tap_step = 1 /\ p < tap_at'
    BY <1>1, <1>2 DEF tap_step, is_huge, PageTapped, TapEach, TapOnly
  <2>2. p < tap_at \/ p = tap_at
    BY <1>1, <2>1
  <2> QED
    BY <1>1, <1>2, <2>2 DEF PageTapped, TapEach, TapOnly, frame, is_huge
<1>3. CASE fault_method \in TapEach
  <2>1. task_id \in 0 .. copies - 1 /\ tap_at \in pages_of(task_id) /\ task_id \in Nat
    BY <1>3, TapAt, <1>1, TaskPages DEF TapEach
  <2> PICK k \in Nat : k = task_id
    BY <2>1
  <2>2. \/ p < first_page(k)
        \/ /\ p < first_page(k + 1)
           /\ IF is_huge THEN TRUE ELSE p < tap_at'
    BY <1>1, <1>3 DEF PageTapped, TapEach, first_page
  <2>3. CASE p < first_page(k)
    BY <1>1, <1>3, <2>3 DEF PageTapped, TapEach, TapOnly
  <2>4. CASE ~(p < first_page(k)) /\ p < first_page(k + 1) /\ is_huge
    <3>0. first_page(k) \in Nat /\ first_page(k + 1) \in Nat
      BY TaskPages
    <3>1. p \in pages_of(k)
      BY <2>4, <1>1, <3>0 DEF pages_of
    <3>2. p \div HUGE_PAGE = tap_at \div HUGE_PAGE
      BY <2>1, <3>1, TaskInHugePage
    <3> QED
      BY <2>4, <3>2 DEF frame
  <2>5. CASE p < first_page(k + 1) /\ ~is_huge /\ p < tap_at'
    <3>1. tap_step = 1
      BY <2>5 DEF tap_step
    <3>2. p < tap_at \/ p = tap_at
      BY <1>1, <2>5, <3>1
    <3> QED
      BY <1>1, <1>3, <2>5, <3>2 DEF PageTapped, TapEach
  <2> QED
    BY <2>2, <2>3, <2>4, <2>5
<1>4. CASE fault_method \in TapOnly
  BY <1>1, <1>4 DEF PageTapped, TapOnly, TapEach
<1> QED
  BY TapAt, <1>2, <1>3, <1>4

LEMMA TapKeeps == ASSUME FaultInv, Tap PROVE FaultInv'
<1> DEFINE g == frame(tap_at)
           F == {frame(p) : p \in Pages}
<1>1. /\ fault_method' = fault_method /\ op_type' = op_type /\ fault_at' = "tap" /\ fault_at = "tap"
      /\ task_id' = task_id /\ submitted' = submitted /\ faulted' = faulted
      /\ tap_at' = tap_at + tap_step
  BY DEF Tap
<1>2. FaultTypes /\ ProgramAt /\ ResultSoFar
  BY DEF FaultInv
<1>3. /\ fault_method \notin {"no_tap", "minor", "major"} /\ Silent /\ NoFaults
      /\ tap_at \in Pages /\ g \in F
  BY TapAt DEF FaultInv, Silent, TapEach, TapOnly
<1>4. Tapped \in Used /\ Tapped \in Arrays /\ Used \subseteq Arrays /\ writes \in BOOLEAN
  BY <1>2, <1>3, ArraysUsed DEF FaultTypes
<1>5. \A arr \in Arrays : (arr \in Writes) = (writes /\ arr = Tapped)
  BY <1>2, <1>3, ArraysUsed DEF FaultTypes
<1>6. frames \in [Arrays -> [F -> FrameStates]]
  BY <1>2 DEF FaultTypes
<1>7. /\ frames'[Tapped] = [frames[Tapped] EXCEPT ![g] = Mapped(frames[Tapped][g], writes)]
      /\ \A arr \in Arrays \ {Tapped} : frames'[arr] = frames[arr]
      /\ frames' = [arr \in Arrays |-> frames'[arr]]
  BY <1>4, <1>6 DEF Tap
<1>8. \A arr \in Arrays : /\ frames'[arr] \in [F -> FrameStates]
                          /\ \A p \in Pages : PageReady(arr, p) => PageReady(arr, p)'
  <2> SUFFICES ASSUME NEW arr \in Arrays
               PROVE  /\ frames'[arr] \in [F -> FrameStates]
                      /\ \A p \in Pages : PageReady(arr, p) => PageReady(arr, p)'
    OBVIOUS
  <2>1. \/ frames'[arr] = frames[arr]
        \/ frames'[arr] = [frames[arr] EXCEPT ![g] = Mapped(frames[arr][g], writes)]
    BY <1>7
  <2> HIDE DEF g
  <2> QED
    BY <1>1, <1>2, <1>3, <1>4, <2>1, FramesKept
<1>9. FaultTypes'
  <2>1. frames' \in [Arrays -> [F -> FrameStates]]
    BY <1>7, <1>8
  <2>2. data' \in [Arrays -> [Pages -> Int]]
    BY <1>2, <1>3, <1>4 DEF FaultTypes, Tap
  <2>3. tap_at' \in Nat
    BY <1>1, <1>2, FaultBenchAssumption DEF tap_step, FaultTypes
  <2> QED
    BY <1>1, <1>2, <2>1, <2>2, <2>3, SameExperiment DEF FaultTypes, first_page
<1>10. ProgramAt'
  <2>1. fault_method \in TapEach \union TapOnly => tap_at' >= first_page(task_id)
    <3> SUFFICES ASSUME fault_method \in TapEach \union TapOnly
                 PROVE  tap_at' >= first_page(task_id)
      OBVIOUS
    <3>1. tap_at \in pages_of(task_id) /\ task_id \in Nat
      BY TapAt, TaskPages DEF TapEach, TapOnly
    <3>2. tap_step \in Nat /\ first_page(task_id) \in Nat
      BY <3>1, TaskPages, FaultBenchAssumption DEF tap_step
    <3>3. first_page(task_id) <= tap_at /\ tap_at \in Int
      BY <3>1, <3>2, TaskPages DEF pages_of
    <3> QED
      BY <1>1, <3>2, <3>3
  <2> QED
    BY <1>1, <1>2, <2>1 DEF ProgramAt, first_page
<1>11. ResultSoFar'
  <2>1. Done' = Done /\ FillTarget' = FillTarget
    BY <1>1, SameExperiment DEF Done, first_page
  <2>2. fault_method \notin TapOnly => tap_at \notin Done
    <3>1. CASE fault_method = "tap_all" /\ task_id = 0
      BY <3>1, TaskPages DEF Done
    <3>2. CASE task_id \in 0 .. copies - 1 /\ tap_at \in pages_of(task_id)
      BY <3>2, PagesOf DEF Done, pages_of
    <3> QED
      BY <3>1, <3>2, TapAt
  <2>3. data \in [Arrays -> [Pages -> Int]] /\ Done \subseteq Pages
    BY <1>2, PagesDone DEF FaultTypes
  <2>4. CASE op_type = "memmove"
    <3>1. data' = [data EXCEPT !["dest"][tap_at] = 0]
      BY <2>4 DEF Tap, writes, Tapped
    <3>2. data'["src"] = data["src"] /\ \A p \in Pages \ {tap_at} : data'["dest"][p] = data["dest"][p]
      BY <3>1, <2>3 DEF Arrays
    <3> QED
      BY <1>1, <1>2, <2>1, <2>2, <2>3, <2>4, <3>2 DEF ResultSoFar
  <2>5. CASE op_type = "memfill"
    <3>1. data' = [data EXCEPT !["dest"][tap_at] = 0] /\ FillTarget = "dest"
      BY <1>3, <2>5 DEF Tap, writes, Tapped, FillTarget
    <3>2. \A p \in Pages \ {tap_at} : data'["dest"][p] = data["dest"][p]
      BY <3>1, <2>3 DEF Arrays
    <3> QED
      BY <1>1, <1>2, <2>1, <2>2, <2>3, <2>5, <3>1, <3>2 DEF ResultSoFar
  <2>6. CASE op_type \notin {"memmove", "memfill"}
    <3>1. data' = data
      BY <2>6 DEF Tap, writes
    <3> QED
      BY <1>1, <1>2, <2>6, <3>1 DEF ResultSoFar
  <2> QED
    BY <2>4, <2>5, <2>6
<1>12. NoFaults'
  <2>1. faulted' = {}
    BY <1>1, <1>3 DEF NoFaults
  <2> SUFFICES ASSUME NEW arr \in Used, NEW p \in Pages, arr = Tapped => PageTapped(p)'
               PROVE  PageReady(arr, p)'
    BY <1>1, <2>1, SameExperiment DEF NoFaults
  <2>2. CASE arr # Tapped \/ PageTapped(p)
    BY <1>3, <1>4, <1>8, <2>2 DEF NoFaults
  <2>3. CASE arr = Tapped /\ frame(p) = g
    <3> DEFINE f == frames[Tapped][g]
    <3>1. f \in FrameStates /\ frames'[Tapped][g] = Mapped(f, writes)
      BY <1>3, <1>4, <1>6, <1>7
    <3>2. (Tapped \in Writes) = writes
      BY <1>4, <1>5
    <3>3. kinds(Mapped(f, writes), writes) = {}
      BY <1>4, <3>1, MappedReady
    <3>4. frame(p)' = g /\ (Tapped \in Writes') = writes
      BY <1>1, <2>3, <3>2, SameExperiment
    <3>5. kinds(frames'[Tapped][g], writes) = {}
      <4> HIDE DEF f, g
      <4> QED
        BY <3>1, <3>3
    <3> QED
      BY <2>3, <3>4, <3>5 DEF PageReady
  <2> QED
    BY <2>2, <2>3, TapTaps
<1> QED
  BY <1>1, <1>3, <1>9, <1>10, <1>11, <1>12, SameExperiment DEF FaultInv

\* The program goes on to the next task, or ends.
LEMMA NextTaskAt ==
  ASSUME FaultTypes, fault_method' = fault_method, NextTask, task_id < copies,
         fault_method # "tap_all", submitted' \subseteq 0 .. first_page(task_id + 1) - 1,
         fault_method \in TapOnly => submitted' = {}
  PROVE  /\ fault_at' \in {"tap", "submit", "end"} /\ task_id' \in 0 .. copies /\ tap_at' \in Nat
         /\ submitted' \subseteq 0 .. first_page(task_id') - 1
         /\ ProgramAt'
<1>1. /\ task_id \in Nat /\ task_id' = task_id + 1 /\ tap_at' = first_page(task_id')
      /\ fault_at' = do_task(task_id')
  BY TaskPages DEF FaultTypes, NextTask
<1>2. task_id' \in 0 .. copies /\ tap_at' \in Nat /\ task_id' \in Nat /\ tap_at' >= first_page(task_id')
  BY <1>1, TaskPages
<1>3. fault_at' \in {"tap", "submit", "end"}
  BY <1>1 DEF do_task
<1>4. submitted' \subseteq 0 .. first_page(task_id') - 1
  BY <1>1
<1>5. fault_at' = "tap" => fault_method \in TapEach \union TapOnly /\ task_id' < copies
  BY <1>1, <1>2, TaskPages DEF do_task
<1>6. fault_at' = "submit" => fault_method \notin TapOnly /\ task_id' < copies
  BY <1>1, <1>2, TaskPages DEF do_task
<1>7. fault_at' = "end" => task_id' = copies
  BY <1>1 DEF do_task
<1>8. ProgramAt'
  BY <1>2, <1>5, <1>6, <1>7 DEF ProgramAt, first_page
<1> QED
  BY <1>2, <1>3, <1>4, <1>8

LEMMA TapsEndKeeps == ASSUME FaultInv, TapsEnd PROVE FaultInv'
<1>1. /\ fault_method' = fault_method /\ op_type' = op_type /\ frames' = frames /\ data' = data
      /\ submitted' = submitted /\ faulted' = faulted
      /\ fault_at = "tap" /\ tap_at >= tap_end
  BY DEF TapsEnd
<1>2. FaultTypes /\ ProgramAt /\ ResultSoFar
  BY DEF FaultInv
<1>3. \/ fault_method = "tap_all" /\ task_id = 0
      \/ fault_method \in TapEach \union TapOnly /\ task_id < copies
  BY <1>1, <1>2 DEF ProgramAt
<1>4. Silent /\ NoFaults
  BY <1>3 DEF FaultInv, Silent, TapEach, TapOnly
<1>5. task_id \in Nat /\ tap_at \in Nat /\ first_page(task_id) \in Nat
  BY <1>2, PagesDone DEF FaultTypes
<1>6. \A arr, p : PageReady(arr, p)' = PageReady(arr, p)
  BY <1>1, SameExperiment DEF PageReady
<1>7. SUFFICES /\ fault_at' \in {"tap", "submit", "end"} /\ task_id' \in 0 .. copies /\ tap_at' \in Nat
               /\ submitted' \subseteq 0 .. first_page(task_id') - 1
               /\ ProgramAt'
               /\ fault_method \notin TapOnly => Done' = Done
               /\ \A p \in Pages : PageTapped(p)' => PageTapped(p)
  <2>1. FaultTypes'
    BY <1>1, <1>2, <1>7, SameExperiment DEF FaultTypes, first_page
  <2>2. ResultSoFar'
    BY <1>1, <1>2, <1>7, SameExperiment DEF ResultSoFar
  <2>3. NoFaults'
    BY <1>1, <1>4, <1>6, <1>7, SameExperiment DEF NoFaults
  <2> QED
    BY <1>1, <1>4, <1>7, <2>1, <2>2, <2>3, SameExperiment DEF FaultInv
<1>8. CASE fault_method \in TapOnly
  <2>1. NextTask /\ submitted' = {} /\ task_id < copies /\ fault_method # "tap_all"
    BY <1>1, <1>2, <1>3, <1>8 DEF TapsEnd, ProgramAt, TapOnly, TapEach
  <2>2. \A p \in Pages : ~PageTapped(p)'
    BY <1>1, <1>8 DEF PageTapped, TapOnly, TapEach
  <2> QED
    BY <1>1, <1>2, <1>8, <2>1, <2>2, NextTaskAt
<1>9. CASE fault_method \in TapEach
  <2>1. fault_at' = "submit" /\ task_id' = task_id /\ tap_at' = tap_at /\ task_id < copies
    BY <1>1, <1>2, <1>3, <1>9 DEF TapsEnd, TapOnly, TapEach
  <2>2. tap_end = first_page(task_id + 1) /\ task_id \in 0 .. copies - 1
    BY <1>5, <1>9, <2>1, TaskPages DEF tap_end, TapEach
  <2>3. first_page(task_id) < tap_at /\ first_page(task_id + 1) <= tap_at /\ first_page(task_id + 1) \in Nat
    BY <1>1, <1>5, <2>2, PagesOf
  <2>4. ASSUME NEW p \in Pages, PageTapped(p)' PROVE PageTapped(p)
    <3>1. p < first_page(task_id) \/ p < first_page(task_id + 1)
      BY <1>1, <1>9, <2>1, <2>4 DEF PageTapped, TapEach, TapOnly, first_page
    <3>2. p < first_page(task_id + 1) => p < tap_at
      BY <1>5, <2>3 DEF Pages
    <3>3. tap_at # first_page(task_id)
      BY <1>5, <2>3
    <3> QED
      BY <1>1, <1>9, <3>1, <3>2, <3>3 DEF PageTapped, TapEach, TapOnly
  <2>5. Done' = Done
    BY <1>1, <2>1 DEF Done, first_page
  <2>6. ProgramAt'
    BY <1>1, <1>2, <1>9, <2>1 DEF ProgramAt, TapEach, TapOnly
  <2> QED
    BY <1>1, <1>2, <2>1, <2>4, <2>5, <2>6 DEF FaultTypes
<1>10. CASE fault_method = "tap_all"
  <2>1. fault_at' = do_task(0) /\ task_id' = task_id /\ tap_at' = tap_at /\ task_id = 0
    BY <1>1, <1>3, <1>10 DEF TapsEnd, TapOnly, TapEach
  <2>2. fault_at' = (IF 0 = copies THEN "end" ELSE "submit")
    BY <1>10, <2>1 DEF do_task, TapOnly, TapEach
  <2>3. ASSUME NEW p \in Pages PROVE PageTapped(p)
    <3>1. p < tap_at
      BY <1>1, <1>5, <1>10, FaultBenchAssumption DEF tap_end, Pages
    <3> QED
      BY <1>10, <3>1 DEF PageTapped, TapEach, TapOnly
  <2>4. Done' = Done
    BY <1>1, <2>1 DEF Done, first_page
  <2>5. ProgramAt'
    BY <1>1, <1>2, <1>10, <2>1, <2>2, TaskPages DEF ProgramAt, TapEach, TapOnly
  <2> QED
    BY <1>1, <1>2, <2>1, <2>2, <2>3, <2>4, <2>5 DEF FaultTypes
<1> QED
  BY <1>3, <1>8, <1>9, <1>10

LEMMA SubmitTaskKeeps == ASSUME FaultInv, SubmitTask PROVE FaultInv'
<1>1. /\ fault_method' = fault_method /\ op_type' = op_type /\ frames' = frames /\ data' = data
      /\ faulted' = faulted /\ fault_at = "submit" /\ NextTask
      /\ submitted' = submitted \union pages_of(task_id)
  BY DEF SubmitTask
<1>2. FaultTypes /\ ProgramAt /\ ResultSoFar
  BY DEF FaultInv
<1>3. /\ fault_method \notin TapOnly /\ task_id \in 0 .. copies - 1
      /\ task_id' = task_id + 1 /\ tap_at' = first_page(task_id + 1) /\ fault_at' = do_task(task_id + 1)
  BY <1>1, <1>2, TaskPages DEF FaultTypes, ProgramAt, NextTask
<1> PICK k \in 0 .. copies - 1 : k = task_id
  BY <1>3
<1>4. /\ k \in Nat /\ first_page(k) \in Nat /\ first_page(k + 1) \in Nat /\ first_page(k) < first_page(k + 1)
  BY TaskPages, PagesOf
<1>5. submitted \subseteq 0 .. first_page(k) - 1 /\ submitted' = submitted \union pages_of(k)
  BY <1>1, <1>2 DEF FaultTypes
<1>6. \A arr, p : PageReady(arr, p)' = PageReady(arr, p)
  BY <1>1, SameExperiment DEF PageReady
<1>7. Done' = Done
  <2>1. Done = (0 .. first_page(k) - 1) \ submitted
    BY DEF Done
  <2>2. Done' = (0 .. first_page(k + 1) - 1) \ submitted'
    BY <1>3 DEF Done, first_page
  <2>3. 0 .. first_page(k + 1) - 1 = (0 .. first_page(k) - 1) \union pages_of(k)
    BY <1>4 DEF pages_of
  <2>4. (0 .. first_page(k) - 1) \intersect pages_of(k) = {}
    BY <1>4 DEF pages_of
  <2> QED
    BY <1>5, <2>1, <2>2, <2>3, <2>4
<1>8. submitted' \subseteq 0 .. first_page(k + 1) - 1
  <2>1. 0 .. first_page(k) - 1 \subseteq 0 .. first_page(k + 1) - 1
    BY ONLY <1>4
  <2>2. pages_of(k) \subseteq 0 .. first_page(k + 1) - 1
    BY ONLY <1>4 DEF pages_of
  <2> QED
    BY <1>5, <2>1, <2>2
<1>9. FaultTypes' /\ ProgramAt'
  <2>1. fault_method # "tap_all"
        => /\ fault_at' \in {"tap", "submit", "end"} /\ task_id' \in 0 .. copies /\ tap_at' \in Nat
           /\ submitted' \subseteq 0 .. first_page(task_id') - 1
           /\ ProgramAt'
    BY <1>1, <1>2, <1>3, <1>8, NextTaskAt, TaskPages
  <2>2. CASE fault_method = "tap_all"
    <3>1. task_id' = k + 1 /\ task_id' \in 0 .. copies /\ tap_at' \in Nat
      BY <1>3, <1>4, TaskPages
    <3>2. fault_at' = IF k + 1 = copies THEN "end" ELSE "submit"
      BY <1>3, <2>2 DEF do_task, TapEach, TapOnly
    <3>3. ProgramAt'
      BY <1>1, <1>3, <2>2, <3>1, <3>2, TaskPages DEF ProgramAt, TapEach, TapOnly
    <3> QED
      BY <1>1, <1>2, <1>8, <3>1, <3>2, <3>3, SameExperiment DEF FaultTypes
  <2>3. fault_method # "tap_all" => FaultTypes' /\ ProgramAt'
    BY <1>1, <1>2, <2>1, SameExperiment DEF FaultTypes, first_page
  <2> QED
    BY <2>2, <2>3
<1>10. ResultSoFar'
  BY <1>1, <1>2, <1>7, SameExperiment DEF ResultSoFar
<1>11. Silent => NoFaults'
  <2> SUFFICES ASSUME Silent, NEW p \in Pages, PageTapped(p)' PROVE PageTapped(p)
    BY <1>1, <1>6, SameExperiment DEF FaultInv, NoFaults
  <2>1. CASE fault_method \in TapEach
    <3>1. fault_at' \in {"tap", "end"}
      BY <1>3, <2>1 DEF do_task
    <3>2. \/ p < first_page(task_id')
          \/ fault_at' = "tap" /\ (IF is_huge' THEN tap_at' # first_page(task_id') ELSE p < tap_at')
      BY <1>1, <2>1, <3>1 DEF PageTapped, TapEach, TapOnly, first_page
    <3>3. p < first_page(k + 1)
      BY <1>3, <3>2
    <3> QED
      BY <1>1, <2>1, <3>3 DEF PageTapped, TapEach, TapOnly
  <2>2. CASE fault_method \notin TapEach
    BY <1>1, <1>3, <2>2 DEF PageTapped, TapEach, TapOnly
  <2> QED
    BY <2>1, <2>2
<1>12. ~Silent => FaultEach'
  <2> SUFFICES ASSUME ~Silent, FaultEach PROVE FaultEach'
    BY DEF FaultInv
  <2>1. \A p : frame(p)' = frame(p)
    BY <1>1, SameExperiment
  <2> QED
    BY <1>1, <1>6, <1>7, SameExperiment DEF FaultEach
<1> QED
  BY <1>1, <1>9, <1>10, <1>11, <1>12, SameExperiment DEF FaultInv

\* What the device does to the data.
LEMMA DataDone ==
  ASSUME FaultTypes, ResultSoFar, fault_method' = fault_method, op_type' = op_type,
         fault_method \notin TapOnly, NEW p \in Pages, Done' = Done \union {p},
         data' = CASE op_type = "memmove" -> [data EXCEPT !["dest"][p] = data["src"][p]]
                   [] op_type = "memfill" -> [data EXCEPT ![FillTarget][p] = FillPattern]
                   [] OTHER -> data
  PROVE  data' \in [Arrays -> [Pages -> Int]] /\ ResultSoFar'
<1>1. data \in [Arrays -> [Pages -> Int]] /\ Done \subseteq Pages /\ FillTarget' = FillTarget
  BY PagesDone, SameExperiment DEF FaultTypes
<1>2. CASE op_type = "memmove"
  <2>1. data' = [data EXCEPT !["dest"][p] = data["src"][p]]
    BY <1>2
  <2>2. data' \in [Arrays -> [Pages -> Int]]
    BY <1>1, <2>1 DEF Arrays
  <2>3. /\ data'["src"] = data["src"] /\ data'["dest"][p] = data["src"][p]
        /\ \A q \in Pages \ {p} : data'["dest"][q] = data["dest"][q]
    BY <1>1, <2>1 DEF Arrays
  <2> QED
    BY <1>1, <1>2, <2>2, <2>3 DEF ResultSoFar
<1>3. CASE op_type = "memfill"
  <2>1. data' = [data EXCEPT ![FillTarget][p] = FillPattern] /\ FillTarget \in Arrays
    BY <1>3 DEF FillTarget, Arrays
  <2>2. data' \in [Arrays -> [Pages -> Int]]
    <3>1. FillPattern \in Int
      BY DEF FillPattern
    <3> QED
      BY <1>1, <2>1, <3>1
  <2>3. /\ data'[FillTarget][p] = FillPattern
        /\ \A q \in Pages \ {p} : data'[FillTarget][q] = data[FillTarget][q]
    BY <1>1, <2>1
  <2> QED
    BY <1>1, <1>3, <2>2, <2>3 DEF ResultSoFar
<1>4. CASE op_type \notin {"memmove", "memfill"}
  <2>1. data' = data
    BY <1>4
  <2> QED
    BY <1>1, <1>4, <2>1 DEF ResultSoFar
<1> QED
  BY <1>2, <1>3, <1>4

\* A page in work has been tapped if its method taps.
LEMMA SubmittedTapped ==
  ASSUME FaultInv, NEW p \in submitted
  PROVE  PageTapped(p) /\ fault_method \notin TapOnly
<1>1. /\ submitted \subseteq 0 .. first_page(task_id) - 1 /\ task_id \in 0 .. copies
      /\ fault_method \notin TapOnly /\ first_page(task_id) \in Nat
  BY PagesDone DEF FaultInv, FaultTypes, ProgramAt
<1>2. p < first_page(task_id) /\ task_id # 0
  <2>1. p \in 0 .. first_page(task_id) - 1
    BY <1>1
  <2>2. p < first_page(task_id) /\ first_page(task_id) # 0
    BY <1>1, <2>1
  <2>3. first_page(0) = 0
    BY TaskPages
  <2> QED
    BY <2>2, <2>3
<1>3. CASE fault_method = "tap_all"
  BY <1>2, <1>3 DEF PageTapped, TapEach, TapOnly, FaultInv, ProgramAt
<1>4. CASE fault_method \in TapEach
  BY <1>2, <1>4 DEF PageTapped, TapEach, TapOnly
<1>5. CASE fault_method # "tap_all" /\ fault_method \notin TapEach
  BY <1>1, <1>5 DEF PageTapped
<1> QED
  BY <1>1, <1>3, <1>4, <1>5

LEMMA PageDoneKeeps == ASSUME FaultInv, PageDone PROVE FaultInv'
<1> DEFINE F == {frame(q) : q \in Pages}
           k(arr, q) == kinds(frames[arr][frame(q)], arr \in Writes)
<1>1. /\ fault_method' = fault_method /\ op_type' = op_type /\ fault_at' = fault_at
      /\ task_id' = task_id /\ tap_at' = tap_at
  BY DEF PageDone
<1>2. PICK p \in submitted :
        /\ faulted' = faulted \union UNION {k(arr, p) \X {arr} \X {p} : arr \in Used}
        /\ frames' = [arr \in {"src", "dest"} |->
             IF arr \in Used THEN [frames[arr] EXCEPT ![frame(p)] = Mapped(@, arr \in Writes)] ELSE frames[arr]]
        /\ data' = CASE op_type = "memmove" -> [data EXCEPT !["dest"][p] = data["src"][p]]
                     [] op_type = "memfill" -> [data EXCEPT ![FillTarget][p] = FillPattern]
                     [] OTHER -> data
        /\ submitted' = submitted \ {p}
  BY DEF PageDone
<1>3. FaultTypes /\ ProgramAt /\ ResultSoFar
  BY DEF FaultInv
<1>4. /\ p \in Pages /\ frame(p) \in F /\ Done \subseteq Pages /\ p \notin Done
      /\ fault_method \notin TapOnly /\ PageTapped(p)
  BY <1>3, PagesDone, SubmittedTapped DEF Done
<1>5. Done' = Done \union {p}
  <2>1. p \in 0 .. first_page(task_id) - 1
    BY <1>3 DEF FaultTypes
  <2> QED
    BY <1>1, <1>2, <2>1 DEF Done, first_page
<1>6. frames \in [Arrays -> [F -> FrameStates]] /\ Used \subseteq Arrays
  BY <1>3, ArraysUsed DEF FaultTypes
<1>7. \A arr \in Arrays : /\ frames'[arr] \in [F -> FrameStates]
                          /\ \A q \in Pages : PageReady(arr, q) => PageReady(arr, q)'
  <2> SUFFICES ASSUME NEW arr \in Arrays
               PROVE  /\ frames'[arr] \in [F -> FrameStates]
                      /\ \A q \in Pages : PageReady(arr, q) => PageReady(arr, q)'
    OBVIOUS
  <2> DEFINE w == arr \in Writes
             g == frame(p)
  <2>1. \/ frames'[arr] = frames[arr]
        \/ frames'[arr] = [frames[arr] EXCEPT ![g] = Mapped(frames[arr][g], w)]
    BY <1>2 DEF Arrays
  <2>2. w \in BOOLEAN /\ g \in F
    BY <1>4
  <2> HIDE DEF w, g
  <2> QED
    BY <1>1, <1>3, <2>1, <2>2, FramesKept
<1>8. FaultTypes'
  <2>1. frames' \in [Arrays -> [F -> FrameStates]]
    <3>1. frames' = [arr \in Arrays |-> frames'[arr]]
      BY <1>2 DEF Arrays
    <3> QED
      BY <1>7, <3>1
  <2>2. data' \in [Arrays -> [Pages -> Int]]
    BY <1>1, <1>2, <1>3, <1>4, <1>5, DataDone
  <2>3. submitted' \subseteq 0 .. first_page(task_id) - 1
    BY <1>2, <1>3 DEF FaultTypes
  <2> QED
    BY <1>1, <1>3, <2>1, <2>2, <2>3, SameExperiment DEF FaultTypes, first_page
<1>9. ProgramAt'
  BY <1>1, <1>3, <1>4 DEF ProgramAt, first_page
<1>10. ResultSoFar'
  BY <1>1, <1>2, <1>3, <1>4, <1>5, DataDone
<1>11. ASSUME Silent PROVE NoFaults'
  <2>1. NoFaults
    BY <1>11 DEF FaultInv
  <2>2. \A arr \in Used : k(arr, p) = {}
    BY <1>4, <2>1 DEF NoFaults, PageReady
  <2>3. faulted' = {}
    BY <1>2, <2>1, <2>2 DEF NoFaults
  <2>4. \A q \in Pages : PageTapped(q)' => PageTapped(q)
    BY <1>1, SameExperiment DEF PageTapped, first_page
  <2> QED
    BY <1>1, <1>6, <1>7, <2>1, <2>3, <2>4, SameExperiment DEF NoFaults
<1>12. ASSUME ~Silent PROVE FaultEach'
  <2>1. FaultEach /\ \A q : frame(q) = q
    BY <1>12 DEF FaultInv, Silent, frame, is_huge
  <2>2. k(Faulting, p) = {FaultKind} /\ Faulting \in Used
    BY <1>4, <2>1 DEF FaultEach
  <2>3. \A arr \in Used \ {Faulting} : k(arr, p) = {}
    BY <1>4, <2>1 DEF FaultEach, PageReady
  <2>4. UNION {k(arr, p) \X {arr} \X {p} : arr \in Used} = {FaultKind} \X {Faulting} \X {p}
    <3> HIDE DEF k
    <3>1. \A arr \in Used \ {Faulting} : k(arr, p) \X {arr} \X {p} = {}
      BY <2>3
    <3> QED
      BY <2>2, <3>1
  <2>5. faulted' = {FaultKind} \X {Faulting} \X Done'
    BY <1>2, <1>5, <2>1, <2>4 DEF FaultEach
  <2>6. \A q \in Pages \ Done' : frames'[Faulting][q] = frames[Faulting][q]
    <3>1. frames'[Faulting] = [frames[Faulting] EXCEPT ![p] = Mapped(frames[Faulting][p], Faulting \in Writes)]
      BY <1>2, <1>6, <2>1, <2>2 DEF Arrays
    <3>2. frames[Faulting] \in [F -> FrameStates]
      BY <1>6, <2>2
    <3>3. \A q \in Pages \ Done' : q # p /\ q \in F
      BY <1>5, <2>1
    <3> QED
      BY <3>1, <3>2, <3>3
  <2>7. \A q \in Pages \ Done' : kinds(frames'[Faulting][q], Faulting \in Writes) = {FaultKind}
    <3> SUFFICES ASSUME NEW q \in Pages \ Done'
                 PROVE  kinds(frames'[Faulting][q], Faulting \in Writes) = {FaultKind}
      OBVIOUS
    <3>1. kinds(frames[Faulting][q], Faulting \in Writes) = {FaultKind}
      BY <1>5, <2>1 DEF FaultEach
    <3> QED
      BY <2>6, <3>1
  <2>8. \A arr \in Used \ {Faulting}, q \in Pages : PageReady(arr, q)'
    BY <1>6, <1>7, <2>1 DEF FaultEach
  <2> QED
    BY <1>1, <2>2, <2>5, <2>7, <2>8, SameExperiment DEF FaultEach
<1> QED
  BY <1>1, <1>8, <1>9, <1>10, <1>11, <1>12, SameExperiment DEF FaultInv

LEMMA FaultInvInductive == FaultInv /\ [FaultNext]_fvars => FaultInv'
<1> SUFFICES ASSUME FaultInv, [FaultNext]_fvars PROVE FaultInv'
  OBVIOUS
<1>1. CASE FaultNext
  BY <1>1, TapKeeps, TapsEndKeeps, SubmitTaskKeeps, PageDoneKeeps DEF FaultNext
<1>2. CASE UNCHANGED fvars
  <2>1. /\ fault_method' = fault_method /\ op_type' = op_type /\ frames' = frames /\ data' = data
        /\ fault_at' = fault_at /\ task_id' = task_id /\ tap_at' = tap_at
        /\ submitted' = submitted /\ faulted' = faulted
    BY <1>2 DEF fvars
  <2>2. /\ Done' = Done /\ \A p : PageTapped(p)' = PageTapped(p)
        /\ \A arr, p : PageReady(arr, p)' = PageReady(arr, p)
    BY <2>1, SameExperiment DEF Done, PageTapped, PageReady, first_page
  <2>3. FaultTypes' /\ ProgramAt' /\ ResultSoFar'
    BY <2>1, <2>2, SameExperiment DEF FaultInv, FaultTypes, ProgramAt, ResultSoFar, first_page
  <2>4. Silent => NoFaults'
    BY <2>1, <2>2, SameExperiment DEF FaultInv, NoFaults
  <2>5. ~Silent => FaultEach'
    BY <2>1, <2>2, SameExperiment DEF FaultInv, FaultEach
  <2> QED
    BY <2>1, <2>3, <2>4, <2>5, SameExperiment DEF FaultInv
<1> QED
  BY <1>1, <1>2

\* The state of the memory each experiment prepares.
LEMMA StartsReady ==
  ASSUME FaultInit
  PROVE  /\ Silent => \A arr \in Used, p \in Pages : arr # Tapped \/ PageTapped(p) => PageReady(arr, p)
         /\ ~Silent => /\ Faulting \in Used
                       /\ \A p \in Pages : kinds(frames[Faulting][p], Faulting \in Writes) = {FaultKind}
                       /\ \A arr \in Used \ {Faulting}, p \in Pages : PageReady(arr, p)
<1>1. /\ fault_method \in Methods /\ op_type \in Ops /\ Used \subseteq Arrays
      /\ fault_at = (IF fault_method = "tap_all" THEN "tap" ELSE do_task(0))
      /\ task_id = 0 /\ tap_at = 0
  BY ArraysUsed DEF FaultInit
<1>2. \A arr \in Arrays, p \in Pages : frames[arr][frame(p)] = At_start(arr)
  BY DEF FaultInit, Arrays
<1>3. \A arr \in Arrays, p \in Pages :
        (kinds(At_start(arr), arr \in Writes) = {}) => PageReady(arr, p)
  BY <1>2 DEF PageReady
<1>4. CASE fault_method \in {"ats_miss", "without"}
  <2>1. \A arr \in Used : At_start(arr) = "present"
    BY <1>1, <1>4 DEF At_start, filled, written, Used, Reads, Writes, FillTarget, writes, Ops
  <2>2. Silent
    BY <1>4 DEF Silent
  <2> QED
    BY <1>1, <1>3, <2>1, <2>2 DEF kinds
<1>5. CASE fault_method = "tap_all" \/ fault_method \in TapEach \union TapOnly
  <2>1. Silent
    BY <1>5 DEF Silent, TapEach, TapOnly
  <2>2. \A arr \in Used \ {Tapped} : At_start(arr) = "present"
    BY <1>1, <1>5 DEF At_start, filled, tapping_filled, Used, Reads, Writes, FillTarget, writes, Tapped, Ops, TapEach, TapOnly
  <2>3. ASSUME NEW p \in Pages PROVE ~PageTapped(p)
    <3>1. p \in Nat /\ ~(p < 0) /\ first_page(0) = 0
      BY TaskPages, FaultBenchAssumption DEF Pages
    <3>2. fault_method \in TapEach => fault_at \in {"tap", "end"}
      BY <1>1 DEF do_task, TapEach
    <3> QED
      BY <1>1, <1>5, <3>1, <3>2 DEF PageTapped, TapEach, TapOnly
  <2> QED
    BY <1>1, <1>3, <2>1, <2>2, <2>3 DEF kinds
<1>6. CASE fault_method \in {"no_tap", "minor"}
  <2>1. ~Silent /\ Faulting = Tapped /\ FaultKind = "minor" /\ \A p : frame(p) = p
    BY <1>6 DEF Silent, Faulting, FaultKind, frame, is_huge
  <2>2. \A arr \in Used \ {Tapped} : At_start(arr) = "present"
    BY <1>1, <1>6 DEF At_start, filled, tapping_filled, Used, Reads, Writes, FillTarget, writes, Tapped, Ops
  <2>3. Tapped \in Used /\ At_start(Tapped) = "absent"
    BY <1>1, <1>6 DEF At_start, filled, tapping_filled, Used, Reads, Writes, FillTarget, writes, Tapped, Ops
  <2>4. kinds("absent", Tapped \in Writes) = {"minor"}
    BY DEF kinds
  <2>5. \A p \in Pages : kinds(frames[Tapped][p], Tapped \in Writes) = {"minor"}
    BY <1>1, <1>2, <2>1, <2>3, <2>4
  <2>6. \A arr \in Used \ {Tapped}, p \in Pages : PageReady(arr, p)
    BY <1>1, <1>3, <2>2 DEF kinds
  <2> QED
    BY <2>1, <2>3, <2>5, <2>6
<1>7. CASE fault_method = "major"
  <2>1. ~Silent /\ Faulting = "src" /\ \A p : frame(p) = p
    BY <1>7 DEF Silent, Faulting, frame, is_huge
  <2>2. "src" \in Used /\ "src" \in Arrays /\ FaultKind = (IF op_type = "memfill" THEN "minor" ELSE "major")
    BY <1>1, <1>7 DEF Used, Reads, Writes, FillTarget, writes, Ops, Arrays, FaultKind
  <2>3. At_start("src") = (IF op_type = "memfill" THEN "hole" ELSE "disk")
    BY <1>1, <1>7 DEF At_start, filled, major_filled
  <2>4. kinds(At_start("src"), "src" \in Writes) = {FaultKind}
    BY <2>2, <2>3 DEF kinds
  <2>5. \A arr \in Used \ {"src"} : At_start(arr) = "present"
    BY <1>1, <1>7 DEF At_start, filled, major_filled, Used, Reads, Writes, FillTarget, writes, Ops
  <2>6. \A p \in Pages : kinds(frames["src"][p], "src" \in Writes) = {FaultKind}
    BY <1>2, <2>1, <2>2, <2>4
  <2>7. \A arr \in Used \ {"src"}, p \in Pages : PageReady(arr, p)
    BY <1>1, <1>3, <2>5 DEF kinds
  <2> QED
    BY <2>1, <2>2, <2>6, <2>7
<1> QED
  BY <1>1, <1>4, <1>5, <1>6, <1>7 DEF Methods

LEMMA FaultInvInitially == FaultInit => FaultInv
<1> SUFFICES ASSUME FaultInit PROVE FaultInv
  OBVIOUS
<1>1. /\ fault_method \in Methods /\ op_type \in Ops
      /\ fault_at = (IF fault_method = "tap_all" THEN "tap" ELSE do_task(0))
      /\ task_id = 0 /\ tap_at = 0 /\ submitted = {} /\ faulted = {}
      /\ frames = [arr \in Arrays |-> [f \in {frame(p) : p \in Pages} |-> At_start(arr)]]
      /\ data = [arr \in Arrays |-> [p \in Pages |-> IF arr \in filled THEN FillByte(p) ELSE 0]]
  BY DEF FaultInit, Arrays
<1>2. first_page(0) = 0 /\ copies \in Nat /\ Done = {}
  BY <1>1, TaskPages DEF Done
<1>3. FaultTypes
  <2>1. \A arr \in Arrays : At_start(arr) \in FrameStates
    BY DEF At_start, FrameStates
  <2>2. \A arr \in Arrays, p \in Pages : (IF arr \in filled THEN FillByte(p) ELSE 0) \in Int
    BY FaultBenchAssumption DEF FillByte, Pages
  <2>3. fault_at \in {"tap", "submit", "end"}
    BY <1>1 DEF do_task
  <2>4. frames \in [Arrays -> [{frame(p) : p \in Pages} -> FrameStates]]
    BY <1>1, <2>1
  <2>5. data \in [Arrays -> [Pages -> Int]]
    BY <1>1, <2>2
  <2> QED
    BY <1>1, <1>2, <2>3, <2>4, <2>5 DEF FaultTypes
<1>4. ProgramAt
  <2>1. CASE fault_method = "tap_all"
    BY <1>1, <2>1 DEF ProgramAt, TapEach, TapOnly
  <2>2. CASE fault_method # "tap_all"
    BY <1>1, <1>2, <2>2 DEF ProgramAt, do_task
  <2> QED
    BY <2>1, <2>2
<1>5. ResultSoFar
  <2>1. \A arr \in Arrays, p \in Pages : data[arr][p] = IF arr \in filled THEN FillByte(p) ELSE 0
    BY <1>1
  <2>2. op_type = "memmove" => "src" \in filled /\ \A p : FillByte(p) = p + 1
    BY <1>1 DEF filled, written, major_filled, tapping_filled, Methods, TapEach, TapOnly, FillByte
  <2>3. op_type \in {"compare", "compval"} => \A p : FillByte(p) = 0
    BY DEF FillByte
  <2> QED
    BY <1>2, <2>1, <2>2, <2>3 DEF ResultSoFar, Arrays
<1>6. Silent => NoFaults
  BY <1>1, StartsReady DEF NoFaults
<1>7. ~Silent => FaultEach
  BY <1>1, <1>2, StartsReady DEF FaultEach
<1> QED
  BY <1>3, <1>4, <1>5, <1>6, <1>7 DEF FaultInv

LEMMA FaultInvEnough == FaultInv => FaultsAsStated
<1> SUFFICES ASSUME FaultInv, fault_at = "end", submitted = {}
             PROVE  /\ faulted = Stated
                    /\ fault_method \notin TapOnly => \A p \in Copied : ResultRight(p)
  BY DEF FaultsAsStated
<1>1. task_id = copies /\ FaultTypes /\ ResultSoFar
  BY DEF FaultInv, ProgramAt
<1>2. Done = Copied /\ Copied \subseteq Pages
  BY <1>1, PagesDone DEF Done, Copied
<1>3. faulted = Stated
  <2>1. CASE Silent
    BY <2>1 DEF FaultInv, NoFaults, Silent, Stated
  <2>2. CASE ~Silent
    <3>1. faulted = {FaultKind} \X {Faulting} \X Copied
      BY <1>2, <2>2 DEF FaultInv, FaultEach
    <3>2. CASE fault_method = "major"
      <4>1. FaultKind = (IF op_type = "memfill" THEN "minor" ELSE "major") /\ Faulting = "src"
        BY <3>2 DEF FaultKind, Faulting
      <4> QED
        BY <3>1, <3>2, <4>1 DEF Stated
    <3>3. CASE fault_method \in {"no_tap", "minor"}
      <4>1. FaultKind = "minor" /\ Faulting = Tapped
        BY <3>3 DEF FaultKind, Faulting
      <4> QED
        BY <3>1, <3>3, <4>1 DEF Stated
    <3> QED
      BY <2>2, <3>2, <3>3 DEF Silent
  <2> QED
    BY <2>1, <2>2
<1>4. ASSUME fault_method \notin TapOnly, NEW p \in Copied PROVE ResultRight(p)
  BY <1>1, <1>2, <1>4 DEF ResultSoFar, ResultRight, FaultTypes, Ops
<1> QED
  BY <1>3, <1>4

\* The page-fault experiments: for any sizes, an experiment meets just the
\* faults it is about and leaves the result of its operations.
THEOREM FaultsCorrect == FaultSpec => []FaultsAsStated
<1>1. FaultInit => FaultInv
  BY FaultInvInitially
<1>2. FaultInv /\ [FaultNext]_fvars => FaultInv'
  BY FaultInvInductive
<1>3. FaultInv => FaultsAsStated
  BY FaultInvEnough
<1> QED
  BY <1>1, <1>2, <1>3, PTL DEF FaultSpec
=============================================================================

---------------------------- MODULE ThreadShuffle ----------------------------
(***************************************************************************)
(* expr/paper/chapter5_1_shuffle/shuffle_dsa.cpp: threads distribute their *)
(* strings over as many pools.  A thread takes the room of a string and    *)
(* its index by two fetch_add of the pool's counters, writes the record,   *)
(* touches the last byte and submits the copy to its own DSAbatch; it ends *)
(* with a wait.  Main joins the threads, resets the counters and repeats.  *)
(* What the bytes are is left out: extents stand for them.                 *)
(***************************************************************************)
EXTENDS Integers

CONSTANTS
  thread_cnt, str_per_thread,
  Strings,              \* functions from strings <<thread, i>> to [len, hashv]
  REPEAT                \* bound: rounds

Threads == 0 .. thread_cnt - 1

\* Every thread has its list of strings.
ASSUME ThreadShuffleAssumption ==
  /\ thread_cnt \in Nat \ {0} /\ str_per_thread \in Nat
  /\ Strings \subseteq [Threads \X (0 .. str_per_thread - 1) -> [len : Nat, hashv : Nat]]

VARIABLES
  strings,
  memory_pool_used, str_cnt,   \* of each pool: atomic counters
  after_shuffle,               \* records <<pool, index>>: [from, offset]
  thr,                         \* of each thread: [pc, i, offset]
  flying,                      \* copies that are submitted and not done
  landed,                      \* the strings whose copy is done
  round

vars == <<strings, memory_pool_used, str_cnt, after_shuffle, thr, flying, landed, round>>

Ready == [t \in Threads |-> [pc |-> "room", i |-> 0, offset |-> 0]]

Init ==
  /\ strings \in Strings
  /\ memory_pool_used = [t \in Threads |-> 0] /\ str_cnt = [t \in Threads |-> 0]
  /\ after_shuffle = {} /\ thr = Ready /\ flying = {} /\ landed = {} /\ round = 1

now(t) == <<t, thr[t].i>>
aim(s) == strings[s].hashv % thread_cnt
Extent(s, offset) == {<<aim(s), b>> : b \in offset .. offset + strings[s].len - 1}

\* memory_pool_used[aim].fetch_add( len )
TakeRoom(t) ==
  /\ thr[t].pc = "room" /\ thr[t].i < str_per_thread
  /\ LET a == aim(now(t))
     IN  /\ thr' = [thr EXCEPT ![t].pc = "index", ![t].offset = memory_pool_used[a]]
         /\ memory_pool_used' = [memory_pool_used EXCEPT ![a] = @ + strings[now(t)].len]
  /\ UNCHANGED <<strings, str_cnt, after_shuffle, flying, landed, round>>

\* str_cnt[aim].fetch_add( 1 ), the record at that index, and submit_memmove.
TakeIndex(t) ==
  /\ thr[t].pc = "index"
  /\ LET s == now(t)
     IN  /\ str_cnt' = [str_cnt EXCEPT ![aim(s)] = @ + 1]
         /\ after_shuffle' = {r \in after_shuffle : r.at # <<aim(s), str_cnt[aim(s)]>>}
              \union {[at |-> <<aim(s), str_cnt[aim(s)]>>, from |-> s, offset |-> thr[t].offset]}
         /\ flying' = flying \union {[by |-> t, from |-> s, offset |-> thr[t].offset]}
  /\ thr' = [thr EXCEPT ![t] = [pc |-> "room", i |-> @.i + 1, offset |-> 0]]
  /\ UNCHANGED <<strings, memory_pool_used, landed, round>>

\* Mutant of Waited: a thread ends with copies in flight.
Waited_Not(t) == TRUE
\* batch[tid].wait()
Waited(t) == \A c \in flying : c.by # t

End(t) ==
  /\ thr[t].pc = "room" /\ thr[t].i = str_per_thread /\ Waited(t)
  /\ thr' = [thr EXCEPT ![t].pc = "joined"]
  /\ UNCHANGED <<strings, memory_pool_used, str_cnt, after_shuffle, flying, landed, round>>

Joined == \A t \in Threads : thr[t].pc = "joined"

\* The next round of shuffle_data_main; what the last one left stays in place.
NewRound ==
  /\ Joined /\ round < REPEAT
  /\ memory_pool_used' = [t \in Threads |-> 0] /\ str_cnt' = [t \in Threads |-> 0]
  /\ thr' = Ready /\ landed' = {} /\ round' = round + 1
  /\ UNCHANGED <<strings, after_shuffle, flying>>

CopyDone ==
  \E c \in flying :
    /\ flying' = flying \ {c} /\ landed' = landed \union {c.from}
    /\ UNCHANGED <<strings, memory_pool_used, str_cnt, after_shuffle, thr, round>>

Next == NewRound \/ CopyDone \/ \E t \in Threads : TakeRoom(t) \/ TakeIndex(t) \/ End(t)

Spec == Init /\ [][Next]_vars

-----------------------------------------------------------------------------
\* No two copies in flight write the same bytes, not even of different rounds.
ExtentsApart ==
  \A c \in flying, d \in flying :
    c # d => Extent(c.from, c.offset) \cap Extent(d.from, d.offset) = {}

Records(p) == {r \in after_shuffle : r.at[1] = p /\ r.at[2] < str_cnt[p]}

\* After the join the records below str_cnt are the strings that hash to the
\* pool, one at each index, each string once, all of them copied, and their
\* extents tile the pool up to memory_pool_used without overlap, although room
\* and index are taken by separate atomics.
PoolsTiled ==
  Joined =>
    \A p \in Threads :
      /\ {r.from : r \in Records(p)} = {s \in DOMAIN strings : aim(s) = p}
      /\ {r.at[2] : r \in Records(p)} = 0 .. str_cnt[p] - 1
      /\ \A r, q \in Records(p) :
           r # q => /\ r.at # q.at /\ r.from # q.from
                    /\ Extent(r.from, r.offset) \cap Extent(q.from, q.offset) = {}
      /\ \A r \in Records(p) : r.from \in landed
      /\ UNION {Extent(r.from, r.offset) : r \in Records(p)} = {p} \X (0 .. memory_pool_used[p] - 1)

\* Threads share pools by two atomics only, and batches are joined by wait().
ThreadShuffleRight == ExtentsApart /\ PoolsTiled

-----------------------------------------------------------------------------
(* Why: the inductive invariant.  A room is a string at an offset; the       *)
(* rooms of a round are those that have a record already and those a thread  *)
(* has in hand between its two fetch_add.                                    *)

Recorded == {r \in after_shuffle : r.at[2] < str_cnt[r.at[1]]}

Room(s, offset) == [from |-> s, offset |-> offset]
InHand == {t \in Threads : thr[t].pc = "index"}
Rooms == {Room(r.from, r.offset) : r \in Recorded} \union {Room(now(t), thr[t].offset) : t \in InHand}

ShuffleTypes ==
  /\ strings \in Strings
  /\ memory_pool_used \in [Threads -> Nat] /\ str_cnt \in [Threads -> Nat]
  /\ after_shuffle \subseteq [at : Threads \X Nat, from : DOMAIN strings, offset : Nat]
  /\ flying \subseteq [by : Threads, from : DOMAIN strings, offset : Nat]
  /\ thr \in [Threads -> [pc : {"room", "index", "joined"}, i : 0 .. str_per_thread, offset : Nat]]
  /\ \A t \in Threads : /\ thr[t].pc = "index" => thr[t].i < str_per_thread
                        /\ thr[t].pc = "joined" => thr[t].i = str_per_thread

\* The indexes of a pool are given out one after the other, and the strings
\* that have one are the first of each thread.
Indexed ==
  /\ \A r \in Recorded : r.at[1] = aim(r.from) /\ r.from[2] < thr[r.from[1]].i
  /\ \A p \in Threads : \A k \in 0 .. str_cnt[p] - 1 : \E r \in Recorded : r.at = <<p, k>>
  /\ \A t \in Threads : \A k \in 0 .. thr[t].i - 1 : \E r \in Recorded : r.from = <<t, k>>
  /\ \A r, q \in Recorded : r # q => r.at # q.at /\ r.from # q.from

\* A room lies below the counter of its pool.
Taken(s, offset) ==
  /\ s \in DOMAIN strings /\ offset \in Nat
  /\ offset + strings[s].len <= memory_pool_used[aim(s)]

Apart(s, o, r, p) == Extent(s, o) \cap Extent(r, p) = {}

Tiled ==
  /\ \A a \in Rooms : Taken(a.from, a.offset)
  /\ \A a, b \in Rooms : a # b => Apart(a.from, a.offset, b.from, b.offset)
  /\ \A p \in Threads : \A x \in 0 .. memory_pool_used[p] - 1 :
       \E a \in Rooms : <<p, x>> \in Extent(a.from, a.offset)

\* A copy in flight is that of a record of this round, in the batch of the
\* thread the string comes from, which is not joined; a record whose copy is
\* not in flight has been copied.
InFlight ==
  /\ \A c \in flying : /\ c.by = c.from[1] /\ c.by \in Threads /\ thr[c.by].pc # "joined"
                       /\ \E r \in Recorded : r.from = c.from /\ r.offset = c.offset
  /\ \A r \in Recorded : r.from \in landed \/ \E c \in flying : c.from = r.from

ShuffleInv == ShuffleTypes /\ Indexed /\ Tiled /\ InFlight
=============================================================================

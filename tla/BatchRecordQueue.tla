-------------------------- MODULE BatchRecordQueue --------------------------
(***************************************************************************)
(* batch_record_queue (src/src/details/dsa_batch_task.hpp:11-34): the      *)
(* fixed-size ring of batch indices from which DSAbatch_task builds its    *)
(* free queue and its buzy queue.  A queue is a record with the fields of  *)
(* the class; the operators below return the queue the method leaves       *)
(* behind.  The array is indexed from 0, and, as in the code, nothing      *)
(* stops q_ecnt from going below zero or a stale slot from being read: an  *)
(* index the caller should not have used gives the state the code reaches. *)
(***************************************************************************)
EXTENDS Integers

NoBatch == -1        \* what pop_front returns on an empty queue
Uninit  == -2        \* a slot malloc returned and nobody has written yet

Slots(q) == 0 .. q.queue_cap - 1

clear(q) == [q EXCEPT !.q_front = 0, !.q_back = 0, !.q_ecnt = 0]

init(cap) == [queue_cap |-> cap, q_front |-> 0, q_back |-> 0, q_ecnt |-> 0,
              queue |-> [s \in 0 .. cap - 1 |-> Uninit]]

empty(q) == q.q_ecnt = 0
full(q)  == q.q_ecnt = q.queue_cap
count(q) == q.q_ecnt

\* Mutant of next: the index does not wrap.
next_NoWrap(q, x) == x + 1

next(q, x) == IF x + 1 = q.queue_cap THEN 0 ELSE x + 1

\* A push on a full queue is reported and ignored.
push_back(q, x) ==
  IF full(q) THEN q
  ELSE [q EXCEPT !.queue[q.q_back] = x, !.q_back = next(q, @), !.q_ecnt = @ + 1]

\* pop_front hands back the front element and drops it; the two halves of
\* the method are two operators.
front_value(q) == IF empty(q) THEN NoBatch ELSE q.queue[q.q_front]
\* Mutant of pop_front: the element stays in the queue.
pop_front_Peek(q) == q

pop_front(q) ==
  IF empty(q) THEN q
  ELSE [q EXCEPT !.q_front = next(q, @), !.q_ecnt = @ - 1]

\* Mutant of delay_front_and_pop: the element count is not kept.
delay_front_and_pop_KeepCount(q, pos) ==
  [q EXCEPT !.queue[pos] = q.queue[q.q_front], !.q_front = next(q, @)]

\* Drop the element at pos by moving the front element into its slot.
delay_front_and_pop(q, pos) ==
  [q EXCEPT !.queue[pos] = q.queue[q.q_front],
            !.q_front = next(q, @), !.q_ecnt = @ - 1]

-----------------------------------------------------------------------------
(***************************************************************************)
(* The positions between front and back, and what they hold.  This is the  *)
(* reading the class comment gives of the fields (hpp:15-16: back always   *)
(* points to an empty slot, front to something unless the queue is empty). *)
(***************************************************************************)
Span(cap, f, b) == IF f <= b THEN f .. b - 1 ELSE (f .. cap - 1) \union (0 .. b - 1)

Live(q) == Span(q.queue_cap, q.q_front, q.q_back)

Elems(q) == {q.queue[p] : p \in Live(q)}

QueueType(cap, q) ==
  q \in [queue_cap : {cap}, q_front : 0 .. cap - 1, q_back : 0 .. cap - 1,
         q_ecnt : Int, queue : [0 .. cap - 1 -> Int]]

\* q_ecnt agrees with front and back, back never catches up with front, and
\* no index is in the queue twice.
RingOK(q) ==
  /\ q.q_ecnt = IF q.q_front <= q.q_back THEN q.q_back - q.q_front
                                         ELSE q.q_back - q.q_front + q.queue_cap
  /\ \A p1, p2 \in Live(q) : q.queue[p1] = q.queue[p2] => p1 = p2
=============================================================================

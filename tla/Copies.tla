------------------------------- MODULE Copies --------------------------------
(***************************************************************************)
(* What the programs of example/ and expr/ see of DSAbatch and DSAop: a    *)
(* copy that has been submitted is done at some later time, in any order;  *)
(* check() and wait() of its object tell when all are done (BatchService;  *)
(* batch_retry_race shows when DSAbatch does not keep this promise).       *)
(* mem maps places to the items they hold; an item is copied in one step.  *)
(***************************************************************************)
EXTENDS Integers, Sequences, FiniteSetsExt

VARIABLES mem, pending    \* pending: submitted copies [by, dst, src] that are not done

Copy(by, dst, src) == [by |-> by, dst |-> dst, src |-> src]

\* submit_memmove, async_memmove.
Submit(cs) == pending' = pending \union cs /\ UNCHANGED mem

\* Nothing of the object is in flight: check() returns true, wait() returns.
Finished(by) == \A c \in pending : c.by # by

\* The device does one of the copies.
Perform ==
  \E c \in pending : /\ mem' = [mem EXCEPT ![c.dst] = mem[c.src]]
                     /\ pending' = pending \ {c}
=============================================================================

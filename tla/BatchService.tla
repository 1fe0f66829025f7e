---------------------------- MODULE BatchService ----------------------------
(***************************************************************************)
(* What a DSAbatch object promises its single client thread, with no       *)
(* queues, no batches and no device (src/README.md, Batch Submission):     *)
(* an accepted operation is executed once, at any time after the submit    *)
(* call that handed it over began; wait returns only when every accepted   *)
(* operation has been executed, and check says true only then.             *)
(* Operations are numbered in the order in which they are submitted.       *)
(***************************************************************************)
EXTENDS Integers

CompletionCalls == {"wait", "check", "set_wq"}

VARIABLES accepted,   \* number of operations handed over so far
          executed,   \* the operations the hardware has carried out
          call,       \* the call in progress, or the last one
          active,     \* TRUE while the call is in progress
          ret         \* what the last call returned

vars == <<accepted, executed, call, active, ret>>

AllDone == executed = 1 .. accepted

Init == /\ accepted = 0
        /\ executed = {}
        /\ call = "none"
        /\ active = FALSE
        /\ ret = FALSE

Invoke(c) == /\ ~active
             /\ call' = c /\ active' = TRUE
             /\ UNCHANGED <<accepted, executed, ret>>

ReturnSubmit == /\ active /\ call = "submit"
                /\ accepted' = accepted + 1
                /\ active' = FALSE /\ ret' = TRUE
                /\ UNCHANGED <<executed, call>>

Execute == /\ \E ops \in (SUBSET ((1 .. accepted) \ executed)) \ {{}} :
                 executed' = executed \union ops
           /\ UNCHANGED <<accepted, call, active, ret>>

ReturnDone == /\ active /\ call \in CompletionCalls
              /\ AllDone
              /\ active' = FALSE /\ ret' = TRUE
              /\ UNCHANGED <<accepted, executed, call>>

ReturnNotDone == /\ active /\ call \in CompletionCalls \ {"wait"}
                 /\ active' = FALSE /\ ret' = FALSE
                 /\ UNCHANGED <<accepted, executed, call>>

Next == \/ \E c \in CompletionCalls \union {"submit"} : Invoke(c)
        \/ ReturnSubmit
        \/ Execute
        \/ ReturnDone
        \/ ReturnNotDone

Spec == Init /\ [][Next]_vars

\* The progress half of the promise: no call blocks for ever.
EveryCallReturns == active ~> ~active
=============================================================================

-------------------------------- MODULE Setup --------------------------------
(***************************************************************************)
(* scripts/setup_dsa.sh configures a device: how many queues it has and of *)
(* which size, which engines serve them.  A run of the script is a         *)
(* sequence of accel-config commands, whose exit codes it ignores, and it  *)
(* may be interrupted between any two of them.  The mode and the other     *)
(* parameters of a queue are left out, and so is -c.  What the device      *)
(* refuses, it leaves as it is: when it is enabled it cannot be configured.*)
(***************************************************************************)
EXTENDS Integers, FiniteSets

CONSTANTS
  NUM_ENGINES, NUM_WQS,
  max_work_queues_size,   \* the device's total
  Options,                \* command lines: [w, e, g, s, q, b], -1 and 0 as in the script
  MaxRuns                 \* bound: runs of the script

Engines == 0 .. NUM_ENGINES - 1
Wqs == 0 .. NUM_WQS - 1

num_wq(o) == IF o.q # -1 THEN 1 ELSE o.w

\* The script enables queues 0 to 7, and who asks for queues asks for an engine,
\* as all command lines of the repository do.
ASSUME SetupAssumption ==
  /\ NUM_ENGINES \in Nat /\ NUM_WQS \in 0 .. 8 /\ max_work_queues_size \in Nat
  /\ Options \subseteq [w : Nat, e : Nat, g : Nat, s : Nat, q : Nat \union {-1}, b : {-1, 0, 1}]
  /\ \A o \in Options : num_wq(o) # 0 => o.e # 0

VARIABLES
  enabled, engines, wqs,   \* the device; group of each engine; [size, group, on] of each queue
  opt,                    \* the command line of the run
  command, nth,           \* the command whose turn it is, and the number of its queue or engine
  ended,                  \* how the last run ended: "", "done", "exit", "cut"
  cut,                    \* ghost: interrupted since the device was last reset
  runs

setup == <<enabled, engines, wqs, opt, command, nth, ended, cut, runs>>

NoOption == [w |-> 0, e |-> 0, g |-> 0, s |-> 0, q |-> -1, b |-> -1]

SetupInit ==
  /\ enabled = FALSE /\ engines = [n \in Engines |-> -1]
  /\ wqs = [q \in Wqs |-> [size |-> 0, group |-> -1, on |-> FALSE]]
  /\ opt = NoOption /\ command = "none" /\ nth = 0 /\ ended = "" /\ cut = FALSE /\ runs = 0

-----------------------------------------------------------------------------
\* do_options: what the command line asks for.
wq_size(o) == IF o.s = 0 THEN max_work_queues_size \div num_wq(o) ELSE o.s
Refused(o) == o.q >= NUM_WQS \/ (o.q # -1 /\ o.s = 0)
Unbinds(o) == o.b = -1
Configures(o) == num_wq(o) # 0
Binds(o) == o.b = 1 \/ (Unbinds(o) /\ Configures(o))

Continue(place) ==
  /\ command' = place /\ nth' = 0
  /\ ended' = IF place = "none" THEN "done" ELSE ""

unbind == "disable-wq"
configure(o) == IF Configures(o) THEN "assign-engine" ELSE "none"
bind(o) == IF Binds(o) THEN "enable-device" ELSE "none"

do_options ==
  /\ command = "none" /\ runs < MaxRuns
  /\ runs' = runs + 1
  /\ \E o \in Options :
       /\ opt' = o
       /\ \/ Refused(o) /\ ended' = "exit" /\ UNCHANGED <<command, nth>>
          \/ /\ ~Refused(o)
             /\ Continue(IF Unbinds(o) THEN unbind ELSE IF Configures(o) THEN configure(o) ELSE bind(o))
  /\ UNCHANGED <<enabled, engines, wqs, cut>>

\* The loops of the script: a command for each of n queues or engines.
For(name, n) == command = name /\ nth < n /\ nth' = nth + 1 /\ UNCHANGED <<opt, command, ended, runs>>

DisableWq ==
  /\ For("disable-wq", NUM_WQS)
  /\ wqs' = [wqs EXCEPT ![nth].on = FALSE]
  /\ UNCHANGED <<enabled, engines, cut>>

\* Mutant of reset_config: it is forgotten.
reset_config_Not == configure(opt)
reset_config == "free-engine"

DisableDevice ==
  /\ command = "disable-device"
  /\ enabled' = FALSE /\ wqs' = [q \in Wqs |-> [wqs[q] EXCEPT !.on = FALSE]]
  /\ Continue(reset_config)
  /\ UNCHANGED <<engines, opt, cut, runs>>

FreeEngine ==
  /\ For("free-engine", NUM_ENGINES)
  /\ engines' = IF enabled THEN engines ELSE [engines EXCEPT ![nth] = -1]
  /\ UNCHANGED <<enabled, wqs, cut>>

ZeroWq ==
  /\ For("zero-wq", NUM_WQS)
  /\ wqs' = IF enabled THEN wqs ELSE [wqs EXCEPT ![nth].size = 0]
  /\ cut' = (cut /\ nth # NUM_WQS - 1)
  /\ UNCHANGED <<enabled, engines>>

\* assign_free_engine, which ends the script when there is none.  Its loop and
\* that of configure, which counts the calls, share the variable i.
free == {n \in Engines : engines[n] = -1}

AssignEngine ==
  /\ command = "assign-engine" /\ nth < opt.e
  /\ \E n \in free :
       /\ \A m \in free : n <= m
       /\ engines' = IF enabled THEN engines ELSE [engines EXCEPT ![n] = opt.g]
       /\ nth' = n + 1
  /\ UNCHANGED <<enabled, wqs, opt, command, ended, cut, runs>>

NoFreeEngine ==
  /\ command = "assign-engine" /\ nth < opt.e /\ free = {}
  /\ command' = "none" /\ ended' = "exit"
  /\ UNCHANGED <<enabled, engines, wqs, opt, nth, cut, runs>>

\* The sizes of the other queues.
claimed(q) ==
  LET sum[k \in Nat] ==
        IF k = 0 THEN 0 ELSE sum[k - 1] + IF k - 1 \in Wqs \ {q} THEN wqs[k - 1].size ELSE 0
  IN  sum[NUM_WQS]

wq_id == IF opt.q = -1 THEN nth ELSE opt.q

ConfigWq ==
  /\ For("config-wq", num_wq(opt))
  /\ wqs' = IF ~enabled /\ wq_id \in Wqs /\ claimed(wq_id) + wq_size(opt) <= max_work_queues_size
            THEN [wqs EXCEPT ![wq_id] = [size |-> wq_size(opt), group |-> opt.g, on |-> FALSE]] ELSE wqs
  /\ UNCHANGED <<enabled, engines, cut>>

EnableDevice ==
  /\ command = "enable-device"
  /\ enabled' = TRUE /\ Continue("enable-wq")
  /\ UNCHANGED <<engines, wqs, opt, cut, runs>>

EnableWq ==
  /\ For("enable-wq", NUM_WQS)
  /\ wqs' = [wqs EXCEPT ![nth].on = @ \/ (enabled /\ wqs[nth].size # 0)]
  /\ UNCHANGED <<enabled, engines, cut>>

LoopEnds ==
  /\ \/ command = "disable-wq" /\ nth = NUM_WQS /\ Continue("disable-device")
     \/ command = "free-engine" /\ nth = NUM_ENGINES /\ Continue("zero-wq")
     \/ command = "zero-wq" /\ nth = NUM_WQS /\ Continue(configure(opt))
     \/ command = "assign-engine" /\ nth >= opt.e /\ Continue("config-wq")
     \/ command = "config-wq" /\ nth = num_wq(opt) /\ Continue(bind(opt))
     \/ command = "enable-wq" /\ nth = NUM_WQS /\ Continue("none")
  /\ UNCHANGED <<enabled, engines, wqs, opt, cut, runs>>

Interrupt ==
  /\ command # "none"
  /\ command' = "none" /\ ended' = "cut" /\ cut' = TRUE
  /\ UNCHANGED <<enabled, engines, wqs, opt, nth, runs>>

SetupNext ==
  \/ do_options \/ DisableWq \/ DisableDevice \/ FreeEngine \/ ZeroWq \/ AssignEngine \/ NoFreeEngine
  \/ ConfigWq \/ EnableDevice \/ EnableWq \/ LoopEnds \/ Interrupt

SetupSpec == SetupInit /\ [][SetupNext]_setup

-----------------------------------------------------------------------------
Fits(o) == num_wq(o) <= NUM_WQS /\ num_wq(o) * wq_size(o) <= max_work_queues_size /\ wq_size(o) > 0

\* Whatever ran before, complete or interrupted, one run without -b leaves just
\* the queues and engines it was asked for, or a disabled device if there are
\* too few engines.
OneRunIsEnough ==
  command = "none" /\ Unbinds(opt) /\ Configures(opt) =>
    /\ ended = "done" /\ opt.q = -1 /\ Fits(opt) =>
         /\ enabled
         /\ \A q \in Wqs :
              IF q < num_wq(opt) THEN wqs[q] = [size |-> wq_size(opt), group |-> opt.g, on |-> TRUE]
                                 ELSE wqs[q].size = 0 /\ ~wqs[q].on
         /\ Cardinality({n \in Engines : engines[n] = opt.g}) = opt.e
         /\ \A n \in Engines : engines[n] \in {opt.g, -1}
    /\ ended = "exit" /\ opt.q = -1 => ~enabled /\ \A q \in Wqs : ~wqs[q].on

\* Unless a run was interrupted, a queue is only enabled if an engine serves its
\* group, however the steps of the usage text are combined.
QueuesServed ==
  ~cut => \A q \in Wqs : wqs[q].on => enabled /\ \E n \in Engines : engines[n] = wqs[q].group

\* setup_dsa.sh: one run gives the device its command line asks for, whatever
\* the runs before it left behind, and an enabled queue has an engine.
SetupRight == OneRunIsEnough /\ QueuesServed
=============================================================================

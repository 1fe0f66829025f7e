-------------------------------- MODULE Agent --------------------------------
(***************************************************************************)
(* DSAagent (src/src/details/dsa_agent.cpp): the singleton that finds the  *)
(* work queues of the machine and deals them out to the threads.           *)
(*                                                                         *)
(* The process may be the child of a fork, which inherits the singleton of *)
(* its parent; such a process begins with new_instance(), before it starts *)
(* a second thread.  The counters are 64 bits wide and do not wrap here.   *)
(***************************************************************************)
EXTENDS Integers, Sequences, FiniteSets

CONSTANTS
  Threads, Main,     \* Main \in Threads
  Machines,          \* sequences of devices [dsa, wqs]; a queue is the set of tests it passes
  MaxUses            \* bound: queues asked for

Tests == {"user", "enabled", "opens", "maps"}

ASSUME AgentAssumption ==
  /\ Main \in Threads
  /\ \A m \in Machines : m \in Seq([dsa : BOOLEAN, wqs : Seq(SUBSET Tests)])

VARIABLES
  machine,           \* accfg: the devices and queues configured
  inst, init_flag,   \* the singleton and its once_flag
  agents,            \* the agents constructed, the parent's first
  thr,               \* of each thread
  got                \* ghost: queues handed out, in order: [agent, dev, wq, turn]
gvars == <<machine, inst, init_flag, agents, thr, got>>

Usable(q) == q = Tests

\* What a loop pushes that pushes parts[i] in turn i.
pushed(parts) ==
  LET upto[i \in 0 .. Len(parts)] == IF i = 0 THEN <<>> ELSE upto[i - 1] \o parts[i]
  IN  upto[Len(parts)]

\* init(): the queue list of a device, and the devices that have a usable queue.
\* Queues and devices keep the number they have in the machine.
wq_list(d) ==
  pushed([i \in 1 .. Len(d.wqs) |->
            IF d.dsa /\ Usable(d.wqs[i]) THEN <<[id |-> i, tests |-> d.wqs[i]]>> ELSE <<>>])
found(m) ==
  pushed([i \in 1 .. Len(m) |->
            IF wq_list(m[i]) # <<>> THEN <<[id |-> i, wqs |-> wq_list(m[i])]>> ELSE <<>>])

NewAgent == LET devices == found(machine)
            IN  [devices |-> devices, now_dev_id |-> 0,
                 now_wq_id |-> [d \in 1 .. Len(devices) |-> 0]]

At(t, place) == [thr EXCEPT ![t] = place]
Holds(a, d) == [at |-> "device", agent |-> a, dev |-> d, turn |-> d # 0]
Place(name) == [at |-> name, agent |-> 0, dev |-> 0, turn |-> FALSE]

\* A fresh process, or the child of one that has an agent or has none.
\* Without a usable queue the constructor ends the process (lines 83-86).
AgentInit ==
  /\ machine \in Machines /\ found(machine) # <<>>
  /\ got = <<>>
  /\ \E forked \in BOOLEAN, used \in BOOLEAN :
       /\ used => forked
       /\ agents = IF used THEN <<NewAgent>> ELSE <<>>
       /\ inst = Len(agents)
       /\ init_flag = IF used THEN "done" ELSE "no"
       /\ thr = [t \in Threads |-> Place(IF forked THEN IF t = Main THEN "forked" ELSE "waits" ELSE "idle")]

\* Mutant of new_instance: the new agent is not made the singleton.
new_instance_NotKept ==
  /\ thr[Main].at = "forked"
  /\ agents' = Append(agents, NewAgent) /\ UNCHANGED inst
  /\ thr' = [t \in Threads |-> Place("idle")]
  /\ UNCHANGED <<machine, init_flag, got>>

\* DSAinit_new_agent.  The once_flag is left as it is: if the parent had no
\* agent, the next get_instance() makes another one.
new_instance ==
  /\ thr[Main].at = "forked"
  /\ agents' = Append(agents, NewAgent)
  /\ inst' = Len(agents')
  /\ thr' = [t \in Threads |-> Place("idle")]
  /\ UNCHANGED <<machine, init_flag, got>>

(* get_instance(): std::call_once and the read of inst. *)
CallOnce(t) ==
  /\ thr[t].at = "idle" /\ init_flag = "no" /\ Len(got) < MaxUses
  /\ init_flag' = "running"
  /\ thr' = At(t, Place("init"))
  /\ UNCHANGED <<machine, inst, agents, got>>

Construct(t) ==
  /\ thr[t].at = "init"
  /\ agents' = Append(agents, NewAgent)
  /\ inst' = Len(agents')
  /\ init_flag' = "done"
  /\ thr' = At(t, Holds(inst', 0))
  /\ UNCHANGED <<machine, got>>

GetInstance(t) ==
  /\ thr[t].at = "idle" /\ init_flag = "done" /\ Len(got) < MaxUses
  /\ thr' = At(t, Holds(inst, 0))
  /\ UNCHANGED <<machine, inst, init_flag, agents, got>>

\* get_wq(): a device in turn.
TakeDevice(t) ==
  LET a == thr[t].agent  ag == agents[a]
  IN  /\ thr[t].at = "device" /\ thr[t].dev = 0
      /\ agents' = [agents EXCEPT ![a].now_dev_id = @ + 1]
      /\ thr' = At(t, Holds(a, 1 + (ag.now_dev_id % Len(ag.devices))))
      /\ UNCHANGED <<machine, inst, init_flag, got>>

\* get_wq(dev_id): the device of the caller's choice.
ChooseDevice(t) ==
  LET a == thr[t].agent
  IN  /\ thr[t].at = "device" /\ thr[t].dev = 0
      /\ \E d \in 1 .. Len(agents[a].devices) : thr' = At(t, [Holds(a, d) EXCEPT !.turn = FALSE])
      /\ UNCHANGED <<machine, inst, init_flag, agents, got>>

HandOut(t, i) ==
  /\ got' = Append(got, [agent |-> thr[t].agent, dev |-> thr[t].dev, wq |-> i, turn |-> thr[t].turn])
  /\ thr' = At(t, Place("idle"))
  /\ UNCHANGED <<machine, inst, init_flag>>

\* Mutant of next_wq: the ticket of the device is used for its queue, too.
next_wq_SameTicket(ag, d) == 1 + ((ag.now_dev_id - 1) % Len(ag.devices[d].wqs))
next_wq(ag, d) == 1 + (ag.now_wq_id[d] % Len(ag.devices[d].wqs))

\* DSAdevice::get_wq().
TakeQueue(t) ==
  LET a == thr[t].agent  d == thr[t].dev
  IN  /\ thr[t].at = "device" /\ d # 0
      /\ agents' = [agents EXCEPT ![a].now_wq_id[d] = @ + 1]
      /\ HandOut(t, next_wq(agents[a], d))

AgentNext ==
  \/ new_instance
  \/ \E t \in Threads :
       \/ CallOnce(t) \/ Construct(t) \/ GetInstance(t)
       \/ TakeDevice(t) \/ ChooseDevice(t) \/ TakeQueue(t)

AgentSpec == AgentInit /\ [][AgentNext]_gvars

-----------------------------------------------------------------------------
Even(n, m) == n - m \in -1 .. 1

\* How many queues were handed out: queue i of device d of agent a, and of the
\* device in its turn.
Uses(a, d, i) == Cardinality({k \in DOMAIN got : got[k].agent = a /\ got[k].dev = d /\ got[k].wq = i})
Turns(a, d) == Cardinality({k \in DOMAIN got : got[k].agent = a /\ got[k].dev = d /\ got[k].turn})

\* A thread has taken the device in turn and has no queue of it yet.
Holding(a, d) == {t \in Threads : thr[t].agent = a /\ thr[t].dev = d /\ thr[t].turn}

\* However the threads interleave and whichever devices they choose, an agent
\* deals the queues of a device evenly, and the counters of its devices and
\* queues together account for every queue it has handed out in turn.
FairShare ==
  \A a \in DOMAIN agents :
    LET devices == agents[a].devices
    IN  /\ \A d \in DOMAIN devices : \A i, j \in DOMAIN devices[d].wqs :
             Even(Uses(a, d, i), Uses(a, d, j))
        /\ (\A d \in DOMAIN devices : Holding(a, d) = {}) =>
             \A d, e \in DOMAIN devices : Even(Turns(a, d), Turns(a, e))

\* A thread only gets queues that can be used, and in a forked process none of
\* the agent it inherited.
OwnQueues ==
  \A k \in DOMAIN got :
    LET u == got[k]  d == agents[u.agent].devices[u.dev]
    IN  /\ machine[d.id].dsa /\ machine[d.id].wqs[d.wqs[u.wq].id] = Tests
        /\ u.agent = Len(agents)

\* DSAagent deals out usable queues only, none of an agent inherited through a
\* fork, and deals them evenly, however the threads interleave.
QueuesDealtRight == FairShare /\ OwnQueues

-----------------------------------------------------------------------------
(* The inductive invariant of the proofs: every agent that is made has the *)
(* devices of the machine, only the last is used, and the tickets drawn    *)
(* from its counters are the queues handed out or the threads that have    *)
(* yet to be given one.                                                    *)

\* Of the first c tickets of a counter modulo n, those that fall to i in 1 .. n.
Share(c, n, i) == (c + n - i) \div n

AgentTypes ==
  LET devices == found(machine)
  IN  /\ machine \in Machines /\ devices # <<>>
      /\ agents \in Seq([devices : {devices}, now_dev_id : Nat, now_wq_id : [DOMAIN devices -> Nat]])
      /\ inst \in Nat /\ init_flag \in {"no", "running", "done"}
      /\ thr \in [Threads -> [at : {"idle", "forked", "waits", "init", "device"},
                              agent : Nat, dev : Nat, turn : BOOLEAN]]
      /\ got \in Seq([agent : Nat, dev : Nat, wq : Nat, turn : BOOLEAN])

\* call_once: one thread constructs, and none uses an agent before.
OneConstructs ==
  /\ init_flag = "done" => inst = Len(agents) /\ agents # <<>>
  /\ got # <<>> => init_flag = "done"
  /\ \A t \in Threads :
       /\ thr[t].at = "device" =>
            /\ init_flag = "done" /\ thr[t].agent = Len(agents)
            /\ thr[t].dev \in 0 .. Len(found(machine)) /\ (thr[t].turn => thr[t].dev # 0)
       /\ thr[t].at # "device" => ~thr[t].turn
       /\ thr[t].at = "init" => init_flag = "running"
  /\ \A t, u \in Threads : thr[t].at = "init" /\ thr[u].at = "init" => t = u

\* The child of a fork has one thread until it has an agent of its own.
ForkedAlone ==
  thr[Main].at = "forked" =>
    got = <<>> /\ init_flag # "running" /\ \A t \in Threads \ {Main} : thr[t].at = "waits"

\* What was handed out: a queue of a device of the last agent.
DealtFrom ==
  \A k \in DOMAIN got :
    /\ got[k].agent = Len(agents) /\ got[k].dev \in DOMAIN found(machine)
    /\ got[k].wq \in DOMAIN found(machine)[got[k].dev].wqs

TicketsDealt ==
  \A a \in DOMAIN agents : \A d \in DOMAIN found(machine) :
    LET n == Len(found(machine)[d].wqs)
    IN  /\ \A i \in 1 .. n : Uses(a, d, i) = Share(agents[a].now_wq_id[d], n, i)
        /\ IsFiniteSet(Holding(a, d))
        /\ Turns(a, d) + Cardinality(Holding(a, d))
             = Share(agents[a].now_dev_id, Len(found(machine)), d)

AgentInv == AgentTypes /\ OneConstructs /\ ForkedAlone /\ DealtFrom /\ TicketsDealt
=============================================================================

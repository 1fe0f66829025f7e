------------------------------ MODULE MCParts -------------------------------
(***************************************************************************)
(* Model checking of the library's parts that stand alone, each by itself: *)
(* part is the one of this behaviour.  The others stay as they are.        *)
(***************************************************************************)
EXTENDS MCBatchData, Allocator, Agent, CpuPath

VARIABLES part

Devices ==
  {[dsa |-> TRUE,  wqs |-> <<Tests, Tests>>],
   [dsa |-> TRUE,  wqs |-> <<Tests \ {"maps"}, Tests>>],
   [dsa |-> TRUE,  wqs |-> <<Tests \ {"user"}, Tests \ {"enabled"}, Tests \ {"opens"}>>],
   [dsa |-> FALSE, wqs |-> <<Tests>>]}
MCMachines == {<<d, e>> : d, e \in Devices}

\* Two regions that have all or most bytes in common.
Alike(bad, k) == [x \in 1 .. 56 |-> CASE x \in bad -> 5
                                      [] x < 28    -> 10 + ((x + k) % 4)
                                      [] OTHER     -> 10 + (x % 4)]
MCMemories == {Alike(bad, k) : bad \in {{}, {3}, {13}, {4, 9}, {23}}, k \in 0 .. 1}
MCPatterns == {[j \in 0 .. 3 |-> 10 + ((j + 2) % 4)], [j \in 0 .. 3 |-> 10]}

\* No node of a tree in use looks like this one.
MCUnwritten ==
  [l_len |-> -1, r_len |-> -1, len |-> -1, push_down |-> FALSE, pd_flag |-> FALSE]

\* The hypothesis of the theorems about BatchData.
ASSUME FarAssumption == \A r \in Far : SafeRequest(r)

-----------------------------------------------------------------------------
\* No agent and no call.
NoAgent == machine = <<>> /\ inst = 0 /\ init_flag = "no" /\ agents = <<>> /\ thr = <<>> /\ got = <<>>
NoCall == call = <<>> /\ out = <<>>

PartsInit ==
  /\ Init /\ AllocInit
  /\ \/ part \in {"batch_data", "allocator"} /\ NoAgent /\ NoCall
     \/ part = "agent"   /\ AgentInit /\ NoCall
     \/ part = "cpupath" /\ CpuInit /\ NoAgent

PartsNext ==
  /\ UNCHANGED part
  /\ \/ part = "batch_data" /\ Next /\ UNCHANGED <<avars, gvars, cvars>>
     \/ part = "allocator"  /\ AllocNext /\ UNCHANGED <<vars, gvars, cvars>>
     \/ part = "agent"      /\ AgentNext /\ UNCHANGED <<vars, avars, cvars>>
     \/ part = "cpupath"    /\ CpuNext /\ UNCHANGED <<vars, avars, gvars>>

PartsSpec == PartsInit /\ [][PartsNext]_<<part, vars, avars, gvars, cvars>>
=============================================================================

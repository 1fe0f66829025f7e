------------------------------ MODULE SpeedTest -------------------------------
(***************************************************************************)
(* The measuring loops of the speed tests of expr/: a list of copies is    *)
(* given to one or several DSAbatch or DSAop objects, or to the CPU, while *)
(* the clock runs.  A copy is named by its number in the list.             *)
(***************************************************************************)
EXTENDS Workloads

CONSTANTS Ring, wq_cnt,
          Repeats,            \* REPEAT
          Tests               \* <<program, list, the copies it is to be made of>>

VARIABLES
  test, test_set, loop,
  generated,            \* the copies the list is made from
  id,                   \* loop counter
  in_flight,            \* <<object, number>> of submitted copies that are not done
  moved,                \* the copies done since the clock was started
  repeat, clock

svars == <<test, test_set, generated, loop, id, in_flight, moved, repeat, clock>>

\* A loop gives the copies to its objects in turn.  An "op" is waited for before
\* it is used again, a "sync" one right after.
Loop(kind, objects) == [kind |-> kind, objects |-> objects]

pipeline_loops == {Loop("batch", 1), Loop("op", bsiz)}
plus_loops == {Loop("batch", 1), Loop("op", bsiz)}
batch_plus_loops == {Loop("batch", 1), Loop("op", bsiz)}
in_batch_loops == {Loop("batch", 1), Loop("op", bsiz), Loop("cpu", 1)}
align_loops == {Loop("batch", 1), Loop("op", Ring), Loop("sync", 1)}
speed_loops == {Loop("batch", 1), Loop("cpu", 1)}
same_mem_loops == {Loop("batch", 1), Loop("sync", Ring)}
engine_ooo_loops == {Loop("batch", wq_cnt), Loop("op", wq_cnt)}
motivation_loops == {Loop("batch", 1), Loop("cpu", 1)}

Loops == [mixed |-> pipeline_loops, plus |-> plus_loops, batch_plus |-> batch_plus_loops,
          in_batch |-> in_batch_loops, align |-> align_loops, speed |-> speed_loops,
          same_mem |-> same_mem_loops, engine_ooo |-> engine_ooo_loops,
          motivation |-> motivation_loops]

\* The rings have a size, and what is tested is a program with its list.
ASSUME SpeedTestAssumption ==
  /\ bsiz \in Nat \ {0} /\ Ring \in Nat \ {0} /\ wq_cnt \in Nat \ {0}
  /\ \A t \in Tests : t[1] \in DOMAIN Loops /\ Len(t[2]) \in Nat

cnt == Len(test_set)
obj == id % loop.objects
Quiet(o) == \A f \in in_flight : f[1] # o

TestInit ==
  \E t \in Tests :
    /\ test = t[1] /\ test_set = t[2] /\ generated = t[3] /\ loop \in Loops[t[1]]
    /\ id = 0 /\ in_flight = {} /\ moved = {} /\ repeat = 0 /\ clock = "off"

\* clear() of the batch has nothing to wait for.
Start ==
  /\ clock = "off" /\ repeat < Repeats
  /\ clock' = "on" /\ id' = 0 /\ moved' = {}
  /\ UNCHANGED <<test, test_set, generated, loop, in_flight, repeat>>

\* Mutant of ObjectFree: an op is used again without wait().
ObjectFree_Not == TRUE
ObjectFree ==
  /\ loop.kind = "op"   => Quiet(obj)
  /\ loop.kind = "sync" => in_flight = {}

\* An op with a copy in flight refuses the next one.
SubmitNext ==
  /\ clock = "on" /\ id < cnt /\ loop.kind # "cpu" /\ ObjectFree
  /\ in_flight' = IF loop.kind # "batch" /\ ~Quiet(obj) THEN in_flight ELSE in_flight \union {<<obj, id>>}
  /\ id' = id + 1
  /\ UNCHANGED <<test, test_set, generated, loop, moved, repeat, clock>>

CopyByCpu ==
  /\ clock = "on" /\ id < cnt /\ loop.kind = "cpu"
  /\ moved' = moved \union {id} /\ id' = id + 1
  /\ UNCHANGED <<test, test_set, generated, loop, in_flight, repeat, clock>>

Stop ==
  /\ clock = "on" /\ id = cnt /\ \A o \in 0 .. loop.objects - 1 : Quiet(o)
  /\ clock' = "off" /\ repeat' = repeat + 1
  /\ UNCHANGED <<test, test_set, generated, loop, id, in_flight, moved>>

CopyMade ==
  \E f \in in_flight :
    /\ in_flight' = in_flight \ {f} /\ moved' = moved \union {f[2]}
    /\ UNCHANGED <<test, test_set, generated, loop, id, repeat, clock>>

TestNext == Start \/ SubmitNext \/ CopyByCpu \/ Stop \/ CopyMade

TestSpec == TestInit /\ [][TestNext]_svars

-----------------------------------------------------------------------------
\* What is timed is the whole list: when the clock stops no copy is in flight
\* and none was refused by an object that was still busy.
WholeListTimed == clock = "off" /\ repeat > 0 => in_flight = {} /\ moved = 0 .. cnt - 1

Target(e) == e.dest .. e.dest + e.len - 1
Covered(l) == UNION {Target(l[k]) : k \in DOMAIN l}
tot_siz == MapThenSumSet(LAMBDA k : test_set[k].len, 1 .. cnt)
Batches(l) == [j \in 1 .. (Len(l) + bsiz - 1) \div bsiz |->
                 ToSet(Part(l, (j - 1) * bsiz, MinOf(j * bsiz, Len(l))))]

\* pipeline_mc_plus makes the same copies for every size mix, in another order.
\* pipeline_mc_plus_inbatch rearranges inside a batch whatever the mix, has all
\* the big ones, and leaves none out if there are as many big ones as small ones.
SameCopies ==
  /\ test = "plus" => ToSet(test_set) = generated
  /\ test = "batch_plus" =>
       LET of(l) == OfLen(l, test_set)
           made(l) == {e \in generated : e.len = l}
       IN  /\ ToSet(test_set) \subseteq generated /\ made(BIG_LEN) = ToSet(of(BIG_LEN))
           /\ Cardinality(made(SMALL_LEN)) <= Cardinality(made(BIG_LEN)) => ToSet(test_set) = generated
           /\ Batches(test_set) = Batches(InBatch(<<of(BIG_LEN), of(SMALL_LEN)>>, bsiz \div 2, bsiz \div 2))

\* The pipeline tests allocate what their list adds up to, the others array_len.
allocated == IF test \in {"mixed", "plus", "batch_plus", "in_batch"} THEN tot_siz ELSE array_len
Inside(e) == Target(e) \subseteq 0 .. allocated - 1 /\ e.src + e.len <= allocated

\* The lists are what the tests compare: the same copies, apart from each other;
\* nothing is outside of the arrays, unless pipeline_mc_plus_inbatch has left
\* small ones out (InsideArrays); and the tests that check their result read
\* only what was copied.
ListsRight ==
  clock = "off" =>
    /\ test \in {"mixed", "plus", "batch_plus", "in_batch"} => Cardinality(Covered(test_set)) = tot_siz
    /\ SameCopies
    /\ ToSet(test_set) = generated => \A k \in 1 .. cnt : Inside(test_set[k])
    /\ test \in {"align", "speed"} => Checked(tot_siz) \subseteq Covered(test_set)

\* "here we just rearrange descriptors inside batch": a list that is only
\* rearranged fits in arrays of its length, and no copy goes outside of them.
InsideArrays == \A f \in in_flight : Inside(test_set[f[2] + 1])
=============================================================================

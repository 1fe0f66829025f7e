-------------------------------- MODULE Vector --------------------------------
(***************************************************************************)
(* vector_DSA of expr/paper/chapter5_1_vector: a vector that moves its     *)
(* elements to a larger array with memcpy, with one operation of the       *)
(* device, or with a batch of copies of expand_step elements.  An array is *)
(* named by its capacity: no two have the same.                            *)
(***************************************************************************)
EXTENDS Copies

CONSTANTS
  expand_step,            \* default_expand_step
  cpu_cap,                \* up to this capacity the CPU copies
  MaxPushes, Capacities   \* bounds: calls of push_back, arrays that can be had

\* An element fits into one step, as the static_assert asks for.
ASSUME VectorAssumption ==
  /\ expand_step \in Nat \ {0} /\ cpu_cap \in Nat /\ MaxPushes \in Nat
  /\ Capacities \subseteq Nat \ {0} /\ 4 \in Capacities

VARIABLES
  vec_method,
  vector_cap, vector_len, expanding_pos,
  contents,               \* ghost: what was pushed since clear()
  pushes, expanding

vector == <<vec_method, vector_cap, vector_len, expanding_pos, contents, pushes, expanding>>
vvars == <<mem, pending, vector>>

Garbage == 0
Array(c) == {c} \X (0 .. c - 1)
x == pushes + 1           \* the value that is pushed next

VectorInit ==
  /\ vec_method \in 0 .. 2
  /\ mem = [s \in UNION {Array(c) : c \in Capacities} |-> Garbage] /\ pending = {}
  /\ vector_cap = 4 /\ vector_len = 0 /\ expanding_pos = 0
  /\ contents = <<>> /\ pushes = 0 /\ expanding = "no"

\* data[vector_len++] = x
Store(m, c) ==
  /\ mem' = [m EXCEPT ![<<c, vector_len>>] = x]
  /\ vector_len' = vector_len + 1
  /\ contents' = Append(contents, x) /\ pushes' = x

Full == vector_len = vector_cap
ByCpu == vec_method = 0 \/ (vec_method = 2 /\ vector_cap <= cpu_cap)
May == expanding = "no" /\ pushes < MaxPushes /\ (Full => 2 * vector_cap \in Capacities)

PushBack ==
  /\ May /\ ~Full
  /\ Store(mem, vector_cap)
  /\ UNCHANGED <<pending, vec_method, vector_cap, expanding_pos, expanding>>

\* free( data ): the memory is used for something else.
Moved(m) == [s \in DOMAIN m |-> IF s[1] = vector_cap THEN Garbage ELSE m[s]]
Grow(m) == Store(Moved(m), 2 * vector_cap) /\ vector_cap' = 2 * vector_cap

GrowByCpu ==
  /\ May /\ Full /\ ByCpu
  /\ Grow([s \in DOMAIN mem |-> IF s[1] = 2 * vector_cap /\ s[2] < vector_cap
                                THEN mem[<<vector_cap, s[2]>>] ELSE mem[s]])
  /\ UNCHANGED <<pending, vec_method, expanding_pos, expanding>>

StartMove ==
  /\ May /\ Full /\ ~ByCpu
  /\ expanding' = "move" /\ expanding_pos' = 0
  /\ UNCHANGED <<mem, pending, vec_method, vector_cap, vector_len, contents, pushes>>

\* sync_memmove of all, or the loop of dsa_expand.
Element(k) == Copy("dsa", <<2 * vector_cap, k>>, <<vector_cap, k>>)
nxt_pos == IF vec_method = 1 \/ expanding_pos + expand_step >= vector_cap THEN vector_cap
           ELSE expanding_pos + expand_step
Move ==
  /\ expanding = "move"
  /\ Submit({Element(k) : k \in expanding_pos .. nxt_pos - 1})
  /\ expanding_pos' = nxt_pos
  /\ expanding' = IF nxt_pos = vector_cap THEN "wait" ELSE "move"
  /\ UNCHANGED <<vec_method, vector_cap, vector_len, contents, pushes>>

\* Mutant of AllMoved: the old array is freed while it is being read.
AllMoved_Not == TRUE
AllMoved == Finished("dsa")

EndMove ==
  /\ expanding = "wait" /\ AllMoved
  /\ Grow(mem) /\ expanding' = "no"
  /\ UNCHANGED <<pending, vec_method, expanding_pos>>

Clear ==
  /\ expanding = "no" /\ vector_len > 0
  /\ vector_len' = 0 /\ contents' = <<>>
  /\ UNCHANGED <<mem, pending, vec_method, vector_cap, expanding_pos, pushes, expanding>>

VectorDevice == Perform /\ UNCHANGED vector

VectorNext == PushBack \/ GrowByCpu \/ StartMove \/ Move \/ EndMove \/ Clear \/ VectorDevice

VectorSpec == VectorInit /\ [][VectorNext]_vvars

-----------------------------------------------------------------------------
\* Between two calls the vector holds what was pushed, whichever way its arrays
\* grew, and the device has nothing left to do in the array that was freed.
VectorKept ==
  expanding = "no" =>
    /\ pending = {}
    /\ [k \in 1 .. vector_len |-> mem[<<vector_cap, k - 1>>]] = contents
=============================================================================

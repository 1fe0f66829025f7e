---------------------------- MODULE MCAllocator ----------------------------
(* A pool of eight leaves; a leaf has two bytes, so that the tree has the    *)
(* level below its leaves that a request for one leaf reaches.               *)
EXTENDS Allocator

\* No node of a tree in use looks like this one.
MCUnwritten ==
  [l_len |-> -1, r_len |-> -1, len |-> -1, push_down |-> FALSE, pd_flag |-> FALSE]
=============================================================================

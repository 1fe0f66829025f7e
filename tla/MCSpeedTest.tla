---------------------------- MODULE MCSpeedTest -----------------------------
(***************************************************************************)
(* Model checking of pipeline_mc_plus_inbatch asked for more small         *)
(* descriptors than big ones: two small ones for each big one.             *)
(***************************************************************************)
EXTENDS SpeedTest

MCTests == {<<"batch_plus", InBatch(l, k[1], k[2]), ToSet(l[1]) \union ToSet(l[2])>> :
              l \in Lists(2, 1, 5) \union Lists(2, 1, 6), k \in {<<1, 1>>, <<2, 1>>, <<2, 2>>}}
=============================================================================

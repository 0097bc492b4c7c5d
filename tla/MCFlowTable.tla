---------------------------- MODULE MCFlowTable ----------------------------
(***************************************************************************)
(* Tables for TLC: the NAT's with a capacity that loop() divides by and    *)
(* with one it masks, one that a CAPACITY_POW2 build refuses, and a double *)
(* map.                                                                    *)
(***************************************************************************)
EXTENDS FlowTable

MCBuilds ==
  {[kind |-> "map", size |-> 3, pow2 |-> FALSE], [kind |-> "map", size |-> 2, pow2 |-> TRUE],
   [kind |-> "map", size |-> 3, pow2 |-> TRUE], [kind |-> "dmap", size |-> 2, pow2 |-> FALSE]}

=============================================================================

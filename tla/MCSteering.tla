---------------------------- MODULE MCSteering ----------------------------
(***************************************************************************)
(* Heights are prime and larger than the number of backends, as the        *)
(* contract of cht_fill_cht asks.                                          *)
(***************************************************************************)
EXTENDS Steering

MCChtSizes == {[height |-> h, capacity |-> c] : h \in {3, 5, 7}, c \in 1 .. 4} \ {[height |-> 3, capacity |-> c] : c \in {3, 4}}

=============================================================================

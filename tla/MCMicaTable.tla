---------------------------- MODULE MCMicaTable ----------------------------
(***************************************************************************)
(* Tables for TLC.  One lcore: the tail passes the span of the offsets, so *)
(* that buckets must have been cleaned, with items of two sizes and GETs   *)
(* that move items to the head; then the rest of the library.  Two lcores: *)
(* a log that holds one item and a part, so that a SET overwrites what the *)
(* other's GET is reading.                                                 *)
(***************************************************************************)
EXTENDS MicaTable

Key(i, b, t, n) == [id |-> i, bucket |-> b, tag |-> t, size |-> n]

OneLcore ==
  [lcores |-> {1}, library |-> FALSE,
   keys |-> {Key(0, 0, 1, 2), Key(1, 0, 2, 2), Key(2, 1, 1, 4)}, default |-> {Key(0, 0, 1, 2)},
   pads |-> {0, 1}, pool_size |-> 4, mth_threshold |-> 0, max_ops |-> 9, max_tail |-> 20]

WholeLibrary ==
  [lcores |-> {1}, library |-> TRUE,
   keys |-> {Key(0, 0, 1, 2), Key(1, 0, 2, 2), Key(2, 0, 3, 2)}, default |-> {Key(0, 0, 1, 2)},
   pads |-> {0}, pool_size |-> 4, mth_threshold |-> 0, max_ops |-> 6, max_tail |-> 20]

TwoLcores ==
  [lcores |-> {1, 2}, library |-> FALSE,
   keys |-> {Key(0, 1, 1, 3), Key(1, 0, 1, 3), Key(2, 1, 2, 3)}, default |-> {Key(0, 1, 1, 3)},
   pads |-> {0}, pool_size |-> 4, mth_threshold |-> 4, max_ops |-> 3, max_tail |-> 20]

MCBuilds == {OneLcore, WholeLibrary, TwoLcores}

=============================================================================

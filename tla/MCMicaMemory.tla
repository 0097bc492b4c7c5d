---------------------------- MODULE MCMicaMemory ----------------------------
(***************************************************************************)
(* Instances of module MicaMemory: the objects the program makes (a table  *)
(* and its pool), the mallocs of shm.c on two nodes, and the dynamic       *)
(* allocator in one page.                                                  *)
(***************************************************************************)
EXTENDS MicaMemory

Program  == [kinds |-> {"table", "pool"}, nodes |-> <<0, 0, 0, 0>>, items |-> {}]
Mallocs  == [kinds |-> {"contiguous", "striped"}, nodes |-> <<0, 0, 0, 1, 1>>, items |-> {}]
Dynamic  == [kinds |-> {"dynamic"}, nodes |-> <<0>>, items |-> {2, 3, 4, 6}]

MCBuilds == {Program, Mallocs, Dynamic}

=============================================================================

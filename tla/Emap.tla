-------------------------------- MODULE Emap --------------------------------
(***************************************************************************)
(* What a flow table promises: the fixpoints of emap.h, double-chain.h and *)
(* double-map.h that the contracts of the C functions are stated with.  A  *)
(* table with size indices holds entries under some of them, each with a   *)
(* value that can be found by any of its keys and with the time it was     *)
(* last used; the entries are kept in the order of their last use.         *)
(***************************************************************************)
EXTENDS Integers, Sequences, Functions, Order

CONSTANTS
  Sizes,   \* sizes a table may have
  Values,  \* values of entries: records of their keys
  Times    \* vigor_time_t

VARIABLES
  ch,   \* the chain: alist, its indices and times, oldest first; size
  vals  \* the values, by index

vars == <<ch, vals>>

dchain_out_of_space(c) == c.size <= Len(c.alist)

dchain_indexes(c) == {c.alist[n].index : n \in DOMAIN c.alist}

dchain_allocated(c, i) == i \in dchain_indexes(c)

\* The index is in the list once.
remove_by_index(alist, i) == Selected(alist, {n \in DOMAIN alist : alist[n].index # i})

dchain_allocate(c, i, t) == [c EXCEPT !.alist = Append(@, [index |-> i, time |-> t])]

dchain_rejuvenate(c, i, t) ==
  [c EXCEPT !.alist = Append(remove_by_index(@, i), [index |-> i, time |-> t])]

dchain_remove_index(c, i) == [c EXCEPT !.alist = remove_by_index(@, i)]

dchain_get_expired_indexes(c, t) ==
  {c.alist[n].index : n \in {k \in DOMAIN c.alist : c.alist[k].time < t}}

\* Each of the expired indexes removed.
dchain_expire_old_indexes(c, t) ==
  [c EXCEPT !.alist = Selected(@, {n \in DOMAIN c.alist : c.alist[n].time >= t})]

\* no_such_keys(): no entry shares a key with the value.
no_such_keys(v) ==
  \A i \in DOMAIN vals : \A k \in DOMAIN v \intersect DOMAIN vals[i] : vals[i][k] # v[k]

Init ==
  /\ ch = [alist |-> <<>>, size |-> 0]
  /\ vals = <<>>

\* The allocation of the table succeeds.
Create ==
  /\ ch.size = 0
  /\ \E size \in Sizes : ch' = [alist |-> <<>>, size |-> size]
  /\ UNCHANGED vals

\* A value none of whose keys is in the table gets an index that is free.
emap_add(v, i, t) ==
  /\ no_such_keys(v)
  /\ i \notin DOMAIN vals
  /\ vals' = [k \in DOMAIN vals \union {i} |-> IF k = i THEN v ELSE vals[k]]
  /\ ~ dchain_out_of_space(ch)
  /\ ch' = dchain_allocate(ch, i, t)

emap_refresh_idx(i, t) ==
  /\ UNCHANGED vals
  /\ dchain_allocated(ch, i)
  /\ ch' = dchain_rejuvenate(ch, i, t)

emap_erase(i) ==
  /\ dchain_allocated(ch, i)
  /\ vals' = Restrict(vals, DOMAIN vals \ {i})
  /\ ch' = dchain_remove_index(ch, i)

emap_expire_all(t) ==
  /\ vals' = Restrict(vals, DOMAIN vals \ dchain_get_expired_indexes(ch, t))
  /\ ch' = dchain_expire_old_indexes(ch, t)

Next ==
  \/ Create
  \/ \E i \in 0 .. ch.size-1, t \in Times :
       \/ \E v \in Values : emap_add(v, i, t)
       \/ emap_refresh_idx(i, t)
  \/ \E i \in 0 .. ch.size-1 : emap_erase(i)
  \/ \E t \in Times : emap_expire_all(t)

Spec == Init /\ [][Next]_vars

=============================================================================

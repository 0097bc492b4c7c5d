----------------------------- MODULE FlowTable -----------------------------
(***************************************************************************)
(* A flow table of nf-chain with its real data structures, used by one     *)
(* lcore at a time (or under the shard's lock): the double chain hands out *)
(* indices and orders them by last use, and what an index stands for is    *)
(* found                                                                   *)
(*   - in a "map" table, the one of the NAT (state.c, nat_flowmanager.c),  *)
(*     in a vector of keys and a hash map;                                 *)
(*   - in a "dmap" table in a double map, by either of two keys.           *)
(* expirator.c removes from both what has not been used for a while.       *)
(*                                                                         *)
(* A table starts by allocating its memory, where every malloc may fail.   *)
(* Its kind, its size and the loop() of the build are chosen initially.    *)
(* The clock is the caller's; MaxTime bounds it.                           *)
(***************************************************************************)
EXTENDS Integers, Sequences, DoubleChain, DoubleMap

CONSTANTS
  Builds,          \* tables to make: kind, number of indices, CAPACITY_POW2
  Ids,             \* what tells keys apart
  Buckets,         \* khash() of a key is its id modulo Buckets
  MaxTime,         \* bound of the clock
  ExpirationTime,  \* config.expiration_time, in microseconds
  UsToNs,          \* 1000
  IntBits          \* 32

ASSUME FlowTableAssumption ==
  /\ \A x \in Builds : x.kind \in {"map", "dmap"} /\ x.size \in Nat \ {0} /\ x.pow2 \in BOOLEAN
  /\ HashBits \in Nat /\ MaxTime \in Nat
  /\ Ids \subseteq Nat /\ Buckets \in 1 .. 2^HashBits
  /\ ExpirationTime \in Nat \ {0} /\ UsToNs \in Nat \ {0}
  /\ IntBits \in Nat /\ 2^IntBits \in Nat \ {0}

Key == {[id |-> k, hash |-> k % Buckets] : k \in Ids}

\* The second key of a value is any other key, as the external side of a flow
\* is to its internal side.
DValue == [a : Key, b : Key]

VARIABLES
  build,  \* kind, size and pow2 of this table
  stage,  \* the allocate function that is running, "ready" or "failed"
  held,   \* memory blocks allocated and not freed
  heap,   \* the double chain
  fv,     \* the vector of keys ("map")
  fm,     \* the map ("map")
  dm,     \* the double map ("dmap")
  now     \* the time

table == <<heap, fv, fm, dm>>
vars  == <<build, stage, held, table, now>>

Null == <<>>

Init ==
  /\ build \in Builds
  /\ stage = IF build.kind = "map" THEN "map_allocate" ELSE "dmap_allocate"
  /\ held = {}
  /\ heap = Null /\ fv = Null /\ fm = Null /\ dm = Null
  /\ now = 0

-----------------------------------------------------------------------------
(***************************************************************************)
(* Allocation.  The blocks each function allocates, in order; when one     *)
(* cannot be had, it frees those before it and leaves the caller's pointer *)
(* alone.                                                                  *)
(***************************************************************************)
map_blocks    == <<"map", "busybits", "keyps", "khs", "chns", "vals">>
vector_blocks == <<"vector", "data">>
dchain_blocks == <<"chain", "cells", "timestamps">>
dmap_blocks   ==
  <<"dmap", "values", "bbs_a", "kps_a", "khs_a", "chns_a", "inds_a",
    "bbs_b", "kps_b", "khs_b", "inds_b", "chns_b">>

Blocks(fn) ==
  CASE fn = "map_allocate"    -> map_blocks
    [] fn = "vector_allocate" -> vector_blocks
    [] fn = "dchain_allocate" -> dchain_blocks
    [] fn = "dmap_allocate"   -> dmap_blocks

Allocating == stage \notin {"ready", "failed"}

\* The block the running function asks for next.
NextBlock == CHOOSE n \in 1 .. Len(Blocks(stage))+1 :
               \A k \in 1 .. Len(Blocks(stage)) : Blocks(stage)[k] \in held <=> k < n

Refused == stage \in {"map_allocate", "dmap_allocate"} /\ CapacityRefused(build.pow2, build.size)

Malloc ==
  /\ Allocating
  /\ ~ Refused
  /\ NextBlock <= Len(Blocks(stage))
  /\ held' = held \union {Blocks(stage)[NextBlock]}
  /\ UNCHANGED <<build, stage, table, now>>

\* The clean-up of the function at its n-th malloc, then that of alloc_state,
\* which frees the structures made before but not what hangs on them.
CleanUpBug(fn, n) == {Blocks(fn)[k] : k \in 2 .. n-1}

CleanUp(fn, n) == {Blocks(fn)[k] : k \in 1 .. n-1}

alloc_state_frees == IF build.kind = "map" THEN {"map", "vector"} ELSE {}

MallocFails ==
  /\ Allocating
  /\ Refused \/ NextBlock <= Len(Blocks(stage))
  /\ held' = (held \ CleanUp(stage, NextBlock)) \ alloc_state_frees
  /\ stage' = "failed"
  /\ UNCHANGED <<build, table, now>>

\* vector_init_element zeroes every element of the vector.
ZeroKey == [id |-> 0, hash |-> 0]

Initialise ==
  /\ Allocating
  /\ ~ Refused
  /\ NextBlock > Len(Blocks(stage))
  /\ \/ /\ stage = "map_allocate"
        /\ fm' = map_init(build.pow2, build.size)
        /\ stage' = "vector_allocate"
        /\ UNCHANGED <<fv, dm, heap>>
     \/ /\ stage = "vector_allocate"
        /\ fv' = [k \in 0 .. build.size-1 |-> ZeroKey]
        /\ stage' = "dchain_allocate"
        /\ UNCHANGED <<fm, dm, heap>>
     \/ /\ stage = "dmap_allocate"
        /\ dm' = dmap_init(build.pow2, build.size, build.size)
        /\ stage' = "dchain_allocate"
        /\ UNCHANGED <<fm, fv, heap>>
     \/ /\ stage = "dchain_allocate"
        /\ heap' = dchain_allocate(build.size)
        /\ stage' = "ready"
        /\ UNCHANGED <<fm, fv, dm>>
  /\ UNCHANGED <<build, held, now>>

-----------------------------------------------------------------------------
(***************************************************************************)
(* The flow manager, on a "map" table.                                     *)
(***************************************************************************)
MapReady  == stage = "ready" /\ build.kind = "map"
DmapReady == stage = "ready" /\ build.kind = "dmap"

\* flow_manager_get_internal: a flow that is found is used.
GetInternal(key) ==
  /\ MapReady
  /\ map_get(fm, fv, key) # NotFound
  /\ heap' = dchain_rejuvenate_index(heap, map_get(fm, fv, key), now)
  /\ UNCHANGED <<build, stage, held, fv, fm, dm, now>>

\* flow_manager_allocate_flow, for a flow that was not found; without a free
\* index it changes nothing.
AllocateFlow(key) ==
  LET index == NewIndex(heap)
  IN  /\ MapReady
      /\ map_get(fm, fv, key) = NotFound
      /\ ~ OutOfSpace(heap)
      /\ heap' = dchain_allocate_new_index(heap, now)
      /\ fv' = [fv EXCEPT ![index] = key]
      /\ fm' = map_put(fm, key, index, index)
      /\ UNCHANGED <<build, stage, held, dm, now>>

\* flow_manager_get_external, and dmap_get_b on a "dmap" table.
GetExternal(index) ==
  /\ stage = "ready"
  /\ dchain_is_index_allocated(heap, index)
  /\ heap' = dchain_rejuvenate_index(heap, index, now)
  /\ UNCHANGED <<build, stage, held, fv, fm, dm, now>>

(***************************************************************************)
(* A client of the double map, which the program does not have: it keeps   *)
(* to the contracts of double-map.h.                                       *)
(***************************************************************************)
PutValue(v) ==
  /\ DmapReady
  /\ dmap_get_a(dm, v.a) = NotFound
  /\ dmap_get_b(dm, v.b) = NotFound
  /\ ~ OutOfSpace(heap)
  /\ dm' = dmap_put(dm, v, NewIndex(heap))
  /\ heap' = dchain_allocate_new_index(heap, now)
  /\ UNCHANGED <<build, stage, held, fv, fm, now>>

(***************************************************************************)
(* Removing one index, on request or because it has expired.  Either way   *)
(* the map is searched for the key as the vector holds it.                 *)
(***************************************************************************)
RemoveEntry(s, index) ==
  IF build.kind = "map"
    THEN [s EXCEPT !.fm = map_erase(@, fv, fv[index])]
    ELSE [s EXCEPT !.dm = dmap_erase(@, index)]

Structures == [heap |-> heap, fm |-> fm, dm |-> dm]

Becomes(s) == heap' = s.heap /\ fm' = s.fm /\ dm' = s.dm

\* dchain_free_index with the erasure of the entry.
FreeIndex(index) ==
  /\ stage = "ready"
  /\ dchain_is_index_allocated(heap, index)
  /\ Becomes([RemoveEntry(Structures, index) EXCEPT !.heap = dchain_free_index(@, index)])
  /\ UNCHANGED <<build, stage, held, fv, now>>

\* One round of the loops in expire_items and expire_items_single_map.
ExpireOne(s, time) ==
  IF OldestExpired(s.heap, time)
    THEN [RemoveEntry(s, dchain_impl_get_oldest_index(s.heap))
            EXCEPT !.heap = dchain_expire_one_index(@, time)]
    ELSE s

expire_items(time) ==
  LET after[n \in 0 .. build.size] == IF n = 0 THEN Structures ELSE ExpireOne(after[n-1], time)
  IN  after[build.size]

\* flow_manager_expire: the product is computed in uint32_t.
last_time == now - ((ExpirationTime * UsToNs) % 2^IntBits)

Expire ==
  /\ stage = "ready"
  /\ Becomes(expire_items(last_time))
  /\ UNCHANGED <<build, stage, held, fv, now>>

Tick ==
  /\ stage = "ready"
  /\ now < MaxTime
  /\ now' = now + 1
  /\ UNCHANGED <<build, stage, held, table>>

Failed == stage = "failed" /\ UNCHANGED vars

Next ==
  \/ Malloc \/ MallocFails \/ Initialise
  \/ \E key \in Key : GetInternal(key) \/ AllocateFlow(key)
  \/ \E v \in DValue : PutValue(v)
  \/ \E index \in 0 .. build.size-1 : GetExternal(index) \/ FreeIndex(index)
  \/ Expire
  \/ Tick
  \/ Failed

Spec == Init /\ [][Next]_vars

-----------------------------------------------------------------------------

InUse == {k \in 0 .. build.size-1 : dchain_is_index_allocated(heap, k)}

\* The contents of a table, by index.
Contents ==
  IF build.kind = "map" THEN [k \in InUse |-> [a |-> fv[k]]]
                        ELSE [k \in InUse |-> dmap_get_value(dm, k)]

\* The ordered collection that a table is: its chain as a list, and its contents.
AbstractChain ==
  IF stage = "ready" THEN [alist |-> dchain_alist(heap), size |-> build.size]
                     ELSE [alist |-> <<>>, size |-> 0]

AbstractValues == IF stage = "ready" THEN Contents ELSE <<>>

Abstract == INSTANCE Emap WITH
  Sizes  <- {x.size : x \in Builds},
  Values <- {[a |-> key] : key \in Key} \union DValue,
  Times  <- (0 - ExpirationTime * UsToNs) .. MaxTime,
  ch     <- AbstractChain,
  vals   <- AbstractValues

\* Links, counters and references together do what the contracts of the data
\* structures say: whatever sequence of calls is made, the table goes through
\* the steps of an ordered collection of entries (emap.h), losing, inventing
\* and misplacing none, and expiry removes exactly what is older.
ImplementsEmap == Abstract!Spec

\* The two lists of the double chain share the cells out between them, without
\* a cell on both or on none, and the links back agree with those forth
\* (dchainip() in double-chain-impl.c).
ChainLinked == stage = "ready" => WellLinked(heap)

\* A lookup finds a key exactly when an index in use holds it, and that index:
\* no key is lost because the probing stopped early, none is found after its
\* removal, and no reference leads to a key of another flow.
LookupExact ==
  stage = "ready" =>
    LET contents == Contents
        Holder(key, k) ==
          LET holders == {i \in DOMAIN contents : contents[i][k] = key}
          IN  IF holders = {} THEN NotFound ELSE CHOOSE i \in holders : TRUE
    IN  \A key \in Key :
          IF build.kind = "map"
            THEN map_get(fm, fv, key) = Holder(key, "a")
            ELSE dmap_get_a(dm, key) = Holder(key, "a") /\ dmap_get_b(dm, key) = Holder(key, "b")

\* The chain counters stay exact over any sequence of insertions and removals,
\* and the count of keys is the number of busy cells and of indices in use.
CountersExact ==
  stage = "ready" =>
    IF build.kind = "map"
      THEN ChainsExact(fm.t) /\ map_size(fm) = impl_size(fm.t) /\ map_size(fm) = Cardinality(InUse)
      ELSE /\ ChainsExact(dm.a) /\ ChainsExact(dm.b)
           /\ dmap_size(dm) = impl_size(dm.a) /\ dmap_size(dm) = impl_size(dm.b)

\* Both together: the links and the counters survive any sequence of calls.
StructuresConsistent == ChainLinked /\ CountersExact

\* "@returns 0 if the allocation failed": a failed malloc in the middle of an
\* allocate function leaves nothing of that function behind.
AllocateAtomic ==
  [][Allocating /\ stage' = "failed" => \A n \in DOMAIN Blocks(stage) : Blocks(stage)[n] \notin held']_vars

\* "Expiration time of flows in microseconds": expiry removes no flow that has
\* been used within that time.
ExpiresIdleOnly ==
  [][Expire => \A k \in 0 .. build.size-1 :
       dchain_is_index_allocated(heap, k) /\ heap.timestamps[k] >= now - ExpirationTime * UsToNs
         => dchain_is_index_allocated(heap', k)]_vars

=============================================================================

------------------------------ MODULE MicaShm ------------------------------
(***************************************************************************)
(* The shared memory of MICA (ported-mica/shm.c): huge pages, entries that *)
(* own pages, and mappings of entries at addresses.  An entry is removed   *)
(* once that is scheduled and nothing maps it.  Every function holds one   *)
(* lock for all it does to this state.  Lengths are in pages.              *)
(***************************************************************************)
EXTENDS Integers, Sequences, FiniteSets, Order

CONSTANTS
  MAX_ENTRIES,   \* MEHCACHED_SHM_MAX_ENTRIES
  MAX_MAPPINGS   \* MEHCACHED_SHM_MAX_MAPPINGS

NoEntry   == [refcount |-> 0, to_remove |-> FALSE, pages |-> <<>>]
NoMapping == [entry_id |-> 0, addr |-> 0, num_pages |-> 0]

\* The pages that could be had, sorted by physical address, on their nodes;
\* what a node has beyond its share is given back.
mehcached_shm_init(nodes, num_pages_per_numa_node) ==
  [pages    |-> [p \in DOMAIN nodes |->
                   [addr |-> Cardinality({q \in 1 .. p : nodes[q] = nodes[p]}) <= num_pages_per_numa_node,
                    numa_node |-> nodes[p], in_use |-> FALSE]],
   entries  |-> [e \in 1 .. MAX_ENTRIES |-> NoEntry],
   mappings |-> [m \in 1 .. MAX_MAPPINGS |-> NoMapping]]

Lowest(S) == CHOOSE x \in S : \A y \in S : x <= y

FreeEntries(sh) == {e \in 1 .. MAX_ENTRIES : sh.entries[e].pages = <<>>}

FreePages(sh, numa_node) ==
  {p \in DOMAIN sh.pages : sh.pages[p].addr /\ ~ sh.pages[p].in_use /\ sh.pages[p].numa_node = numa_node}

CanAlloc(sh, num_pages, numa_node) ==
  FreeEntries(sh) # {} /\ Cardinality(FreePages(sh, numa_node)) >= num_pages

\* The entry that mehcached_shm_alloc returns: the first free one, with the
\* first free pages of the node.
AllocEntry(sh) == Lowest(FreeEntries(sh))

mehcached_shm_alloc(sh, num_pages, numa_node) ==
  LET first == [i \in 1 .. num_pages |-> Ascending(FreePages(sh, numa_node))[i]]
      taken == {first[i] : i \in 1 .. num_pages}
  IN  [sh EXCEPT !.entries[AllocEntry(sh)].pages = first,
                 !.pages = [p \in DOMAIN @ |-> IF p \in taken THEN [@[p] EXCEPT !.in_use = TRUE] ELSE @[p]]]

check_removeBug(sh, e) == sh

check_remove(sh, e) ==
  IF sh.entries[e].refcount = 0 /\ sh.entries[e].to_remove
    THEN LET owned == {sh.entries[e].pages[i] : i \in DOMAIN sh.entries[e].pages}
         IN  [sh EXCEPT !.pages = [p \in DOMAIN @ |-> IF p \in owned THEN [@[p] EXCEPT !.in_use = FALSE] ELSE @[p]],
                        !.entries[e] = NoEntry]
    ELSE sh

mehcached_shm_schedule_remove(sh, e) ==
  IF sh.entries[e].pages = <<>> THEN sh   \* "invalid entry"
  ELSE check_remove([sh EXCEPT !.entries[e].to_remove = TRUE], e)

FreeMappings(sh) == {m \in 1 .. MAX_MAPPINGS : sh.mappings[m].addr = 0}

\* "invalid entry", "invalid length", "too many mappings"
CanMap(sh, e, offset, length) ==
  /\ sh.entries[e].pages # <<>>
  /\ offset + length <= Len(sh.entries[e].pages)
  /\ FreeMappings(sh) # {}

mehcached_shm_map(sh, e, addr, length) ==
  [sh EXCEPT !.entries[e].refcount = @ + 1,
             !.mappings[Lowest(FreeMappings(sh))] = [entry_id |-> e, addr |-> addr, num_pages |-> length]]

UnreferencedBug(sh, e) == sh

Unreferenced(sh, e) == [sh EXCEPT !.entries[e].refcount = @ - 1]

mehcached_shm_unmap(sh, addr) ==
  LET m == Lowest({k \in 1 .. MAX_MAPPINGS : sh.mappings[k].addr = addr})
      e == sh.mappings[m].entry_id
  IN  [check_remove(Unreferenced(sh, e), e) EXCEPT !.mappings[m] = NoMapping]

-----------------------------------------------------------------------------

MappedAt(sh) ==
  UNION {sh.mappings[m].addr .. sh.mappings[m].addr + sh.mappings[m].num_pages - 1 : m \in 1 .. MAX_MAPPINGS}

Mapping(sh, e) == {m \in 1 .. MAX_MAPPINGS : sh.mappings[m].addr # 0 /\ sh.mappings[m].entry_id = e}

=============================================================================

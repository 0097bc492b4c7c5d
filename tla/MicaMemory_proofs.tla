------------------------- MODULE MicaMemory_proofs --------------------------
(***************************************************************************)
(* Proofs about module MicaMemory: what the functions of shm.c do to       *)
(* pages, entries and mappings, call by call, and that their users keep    *)
(* the three in step whatever fails on the way; then what the calls of the *)
(* dynamic allocator do to its chunks and lists.                           *)
(***************************************************************************)
EXTENDS MicaMemory, Numbers_proofs, SequenceTheorems

-----------------------------------------------------------------------------
(***************************************************************************)
(* The state of the shared memory: L pages.                                *)
(***************************************************************************)

Page  == [addr : BOOLEAN, numa_node : Nat, in_use : BOOLEAN]
Entry == [refcount : Int, to_remove : BOOLEAN, pages : Seq(Nat)]
MapOf == [entry_id : Nat, addr : Nat, num_pages : Nat]

Shm(L) == [pages    : [1 .. L -> Page], entries : [1 .. MAX_ENTRIES -> Entry],
           mappings : [1 .. MAX_MAPPINGS -> MapOf]]

\* The entries there are, and their pages.
Held(s) == {e \in 1 .. MAX_ENTRIES : s.entries[e].pages # <<>>}

PagesOf(s, e) == {s.entries[e].pages[k] : k \in DOMAIN s.entries[e].pages}

\* Entries and pages agree, and what is no entry is zero.
PagesAgree(s) ==
  /\ \A p \in DOMAIN s.pages : s.pages[p].in_use <=> \E e \in Held(s) : p \in PagesOf(s, e)
  /\ \A e, f \in Held(s) : e # f => PagesOf(s, e) \intersect PagesOf(s, f) = {}
  /\ \A e \in 1 .. MAX_ENTRIES : e \notin Held(s) => s.entries[e] = NoEntry

\* Entries and mappings agree: an entry counts its mappings, and none waits to be
\* removed without one.  No two mappings are at the same address.
MappingsAgree(s) ==
  /\ \A e \in 1 .. MAX_ENTRIES : s.entries[e].refcount = Cardinality(Mapping(s, e))
  /\ \A e \in 1 .. MAX_ENTRIES : Mapping(s, e) # {} => e \in Held(s)
  /\ \A e \in Held(s) : s.entries[e].to_remove => s.entries[e].refcount # 0
  /\ \A m \in 1 .. MAX_MAPPINGS : IF s.mappings[m].addr = 0 THEN s.mappings[m] = NoMapping
                                  ELSE s.mappings[m].entry_id \in 1 .. MAX_ENTRIES
  /\ \A m, k \in 1 .. MAX_MAPPINGS :
       s.mappings[m].addr = s.mappings[k].addr /\ s.mappings[m].addr # 0 => m = k

Agrees(s, L) == s \in Shm(L) /\ PagesAgree(s) /\ MappingsAgree(s)

\* The mappings there are, and the entries whose removal is not scheduled.
MapsIn(s) == {s.mappings[m] : m \in {k \in 1 .. MAX_MAPPINGS : s.mappings[k].addr # 0}}

Unscheduled(s) == {e \in Held(s) : ~ s.entries[e].to_remove}

-----------------------------------------------------------------------------
(***************************************************************************)
(* The invariant.                                                          *)
(***************************************************************************)
Mapped(e, addr, length) == [entry_id |-> e, addr |-> addr, num_pages |-> length]

\* The mappings of the pages of a striped object, from one to before another.
Stripes(o, first, last) == {Mapped(o.entries[(i % 2) + 1], o.base + i, 1) : i \in first .. last-1}

\* The mappings of an object.
MappingsOf(o) ==
  IF o.kind = "striped" THEN Stripes(o, 0, o.n)
  ELSE IF o.kind = "pool" THEN {Mapped(o.entries[1], o.base, o.n), Mapped(o.entries[1], o.base + o.n, 1)}
  ELSE {Mapped(o.entries[1], o.base, o.n)}

\* Those of a call under way.
JobMappings(j) ==
  IF j = None \/ j.at = "map" THEN {}
  ELSE IF j.at = "alias" THEN {Mapped(j.entries[1], j.base, j.n)}
  ELSE IF j.at = "schedule" THEN MappingsOf(j)
  ELSE Stripes(j, j.cleaned, j.mapped)

Together(objs) == UNION {MappingsOf(o) : o \in objs}

Wanted(objs, j) == Together(objs) \union JobMappings(j)

\* An object has two entries if it is striped, and a page in each.
WellFormed(o) ==
  /\ o.kind \in Kinds /\ o.n \in Nat \ {0} /\ o.entries \in Seq(1 .. MAX_ENTRIES)
  /\ Len(o.entries) = IF o.kind = "striped" THEN 2 ELSE 1
  /\ o.kind = "striped" => o.n >= 2

\* An object that is at an address.
Placed(o) == WellFormed(o) /\ o.base \in Nat \ {0}

\* Where the loops of the mallocs are.
JobRight(j) ==
  j # None =>
    /\ j \in Jobs /\ WellFormed(j)
    /\ j.at # "map" => j.base # 0
    /\ j.at = "alias" => j.kind = "pool"
    /\ j.at = "schedule" => j.kind # "striped"
    /\ j.at \in {"stripe", "clean", "free"} => j.kind = "striped" /\ j.mapped <= j.n
    /\ j.at \in {"clean", "free"} => j.cleaned < j.mapped
    /\ j.at \in {"map", "stripe"} => j.cleaned = 0
    /\ j.at = "map" => j.mapped = 0

\* What is not yet scheduled for removal is an entry of the object in the making.
Pending(s, j) ==
  \A e \in Unscheduled(s) :
    /\ j # None /\ j.at \in {"map", "alias", "schedule", "stripe"}
    /\ \E k \in 1 .. Len(j.entries) : e = j.entries[k]

\* Objects, and the one in the making, are apart.
Apart(objs, j) ==
  /\ \A o, p \in objs : o # p => Place(o) \intersect Place(p) = {}
  /\ j # None /\ j.at # "map" => \A o \in objs : Place(o) \intersect Place(j) = {}

InStep(L, s, objs, j) ==
  /\ Agrees(s, L) /\ MapsIn(s) = Wanted(objs, j)
  /\ \A o \in objs : Placed(o)
  /\ JobRight(j) /\ Pending(s, j) /\ Apart(objs, j)

MemoryInv == build \in Builds /\ InStep(Len(build.nodes), sh, objects, job)

-----------------------------------------------------------------------------
(***************************************************************************)
(* shm.c, call by call.                                                    *)
(***************************************************************************)

\* The first one that is free.
LEMMA LowestIs ==
  ASSUME NEW S, S \subseteq Nat, S # {}
  PROVE  Lowest(S) \in S
  BY Smallest, Zenon DEF Lowest

\* mehcached_shm_alloc: an entry that was free owns pages that were.
LEMMA AllocIs ==
  ASSUME NEW L \in Nat, NEW s \in Shm(L), NEW n \in Nat \ {0}, NEW node, CanAlloc(s, n, node)
  PROVE  LET t == mehcached_shm_alloc(s, n, node)
             e == AllocEntry(s)
         IN  /\ t \in Shm(L) /\ t.mappings = s.mappings
             /\ e \in 1 .. MAX_ENTRIES /\ e \notin Held(s) /\ e \in Held(t)
             /\ \A f \in 1 .. MAX_ENTRIES : f # e => t.entries[f] = s.entries[f]
             /\ t.entries[e].refcount = s.entries[e].refcount
             /\ t.entries[e].to_remove = s.entries[e].to_remove
             /\ \A p \in PagesOf(t, e) : p \in 1 .. L /\ ~ s.pages[p].in_use
             /\ \A p \in 1 .. L : t.pages[p].in_use <=> s.pages[p].in_use \/ p \in PagesOf(t, e)
  <1> DEFINE t == mehcached_shm_alloc(s, n, node)
             e == AllocEntry(s)
             free == FreePages(s, node)
             first == [i \in 1 .. n |-> Ascending(free)[i]]
             taken == {first[i] : i \in 1 .. n}
  <1>1. /\ s.pages \in [1 .. L -> Page] /\ s.entries \in [1 .. MAX_ENTRIES -> Entry]
        /\ s.mappings \in [1 .. MAX_MAPPINGS -> MapOf] /\ DOMAIN s.pages = 1 .. L
    BY DEF Shm
  <1>2. free \subseteq 1 .. L /\ \A p \in free : ~ s.pages[p].in_use
    BY <1>1 DEF FreePages
  <1>3. IsFiniteSet(free) /\ free \subseteq Nat
    BY <1>2, FS_Interval, FS_Subset
  <1>4. n <= Cardinality(free)
    BY DEF CanAlloc
  <1>5. first \in [1 .. n -> free]
    <2>1. Cardinality(free) \in Nat /\ Ascending(free) \in [1 .. Cardinality(free) -> free]
      BY <1>3, AscendingFacts
    <2> HIDE DEF free
    <2> QED
      BY <1>4, <2>1
  <1>6. first \in Seq(Nat) /\ DOMAIN first = 1 .. n /\ first # <<>>
    <2>1. first \in Seq(Nat)
      BY <1>3, <1>5
    <2> QED
      BY <1>5, <2>1
  <1>7. e \in 1 .. MAX_ENTRIES /\ s.entries[e].pages = <<>>
    <2>1. FreeEntries(s) \subseteq 1 .. MAX_ENTRIES /\ FreeEntries(s) # {}
      BY DEF FreeEntries, CanAlloc
    <2>2. e \in FreeEntries(s)
      BY <2>1, LowestIs DEF AllocEntry
    <2> QED
      BY <2>2 DEF FreeEntries
  <1> HIDE DEF first, free, e
  <1> DEFINE pages == [p \in 1 .. L |-> IF p \in taken THEN [s.pages[p] EXCEPT !.in_use = TRUE] ELSE s.pages[p]]
             entries == [s.entries EXCEPT ![e].pages = first]
  <1>8. t = [s EXCEPT !.entries = entries, !.pages = pages]
    BY <1>1 DEF mehcached_shm_alloc, first, free, e
  <1>9. pages \in [1 .. L -> Page] /\ \A p \in 1 .. L : pages[p].in_use <=> s.pages[p].in_use \/ p \in taken
    BY <1>1 DEF Page
  <1>10. /\ entries \in [1 .. MAX_ENTRIES -> Entry]
         /\ entries[e] = [s.entries[e] EXCEPT !.pages = first]
         /\ \A f \in 1 .. MAX_ENTRIES : f # e => entries[f] = s.entries[f]
    BY <1>1, <1>6, <1>7 DEF Entry
  <1>11. /\ entries[e].pages = first /\ entries[e].refcount = s.entries[e].refcount
         /\ entries[e].to_remove = s.entries[e].to_remove
    BY <1>1, <1>7, <1>10 DEF Entry
  <1>12. s = [pages |-> s.pages, entries |-> s.entries, mappings |-> s.mappings]
    BY DEF Shm
  <1> HIDE DEF pages, entries
  <1>13. t = [pages |-> pages, entries |-> entries, mappings |-> s.mappings]
    BY <1>8, <1>12
  <1>14. t \in Shm(L)
    BY <1>1, <1>9, <1>10, <1>13 DEF Shm
  <1>15. PagesOf(t, e) = taken
    BY SMTT(30), <1>6, <1>11, <1>13 DEF PagesOf
  <1>16. \A p \in taken : p \in free
    BY <1>5
  <1>17. e \notin Held(s) /\ e \in Held(t)
    BY <1>6, <1>7, <1>11, <1>13 DEF Held
  <1> HIDE DEF t, taken
  <1>18. /\ \A p \in PagesOf(t, e) : p \in 1 .. L /\ ~ s.pages[p].in_use
         /\ \A p \in 1 .. L : t.pages[p].in_use <=> s.pages[p].in_use \/ p \in PagesOf(t, e)
         /\ t.mappings = s.mappings /\ t.entries = entries
    BY <1>2, <1>9, <1>13, <1>15, <1>16
  <1> QED
    BY <1>7, <1>10, <1>11, <1>14, <1>17, <1>18 DEF t, e

\* mehcached_shm_check_remove: the entry goes with its pages, or nothing does.
LEMMA CheckRemoveIs ==
  ASSUME NEW L \in Nat, NEW s \in Shm(L), NEW e \in 1 .. MAX_ENTRIES
  PROVE  LET t    == check_remove(s, e)
             gone == s.entries[e].refcount = 0 /\ s.entries[e].to_remove
         IN  /\ t \in Shm(L) /\ t.mappings = s.mappings
             /\ \A f \in 1 .. MAX_ENTRIES : f # e => t.entries[f] = s.entries[f]
             /\ t.entries[e] = IF gone THEN NoEntry ELSE s.entries[e]
             /\ \A p \in 1 .. L : t.pages[p].in_use <=> s.pages[p].in_use /\ ~ (gone /\ p \in PagesOf(s, e))
  <1> DEFINE t    == check_remove(s, e)
             gone == s.entries[e].refcount = 0 /\ s.entries[e].to_remove
             owned == PagesOf(s, e)
             pages == [p \in 1 .. L |-> IF p \in owned THEN [s.pages[p] EXCEPT !.in_use = FALSE] ELSE s.pages[p]]
             entries == [s.entries EXCEPT ![e] = NoEntry]
  <1>1. /\ s.pages \in [1 .. L -> Page] /\ s.entries \in [1 .. MAX_ENTRIES -> Entry]
        /\ s.mappings \in [1 .. MAX_MAPPINGS -> MapOf] /\ DOMAIN s.pages = 1 .. L
        /\ s = [pages |-> s.pages, entries |-> s.entries, mappings |-> s.mappings]
    BY DEF Shm
  <1>2. CASE ~ gone
    <2>1. t = s
      BY <1>2, Zenon DEF check_remove
    <2> HIDE DEF t, gone, owned
    <2>2. \A p \in 1 .. L : t.pages[p].in_use <=> s.pages[p].in_use /\ ~ (gone /\ p \in owned)
      BY <1>2, <2>1
    <2> QED
      BY <1>2, <2>1, <2>2 DEF t, gone, owned
  <1>3. CASE gone
    <2>1. t = [s EXCEPT !.pages = pages, !.entries = entries]
      BY <1>1, <1>3 DEF check_remove, PagesOf
    <2>2. pages \in [1 .. L -> Page] /\ \A p \in 1 .. L : pages[p].in_use <=> s.pages[p].in_use /\ p \notin owned
      <3> HIDE DEF owned
      <3> QED
        BY <1>1 DEF Page
    <2>3. /\ entries \in [1 .. MAX_ENTRIES -> Entry] /\ entries[e] = NoEntry
          /\ \A f \in 1 .. MAX_ENTRIES : f # e => entries[f] = s.entries[f]
      <3>1. NoEntry \in Entry
        BY DEF NoEntry, Entry
      <3> QED
        BY <1>1, <3>1
    <2> HIDE DEF pages, entries
    <2>4. t = [pages |-> pages, entries |-> entries, mappings |-> s.mappings]
      BY <1>1, <2>1
    <2>5. t \in Shm(L)
      BY <1>1, <2>2, <2>3, <2>4 DEF Shm
    <2> HIDE DEF t, owned, gone
    <2> QED
      BY <1>3, <2>2, <2>3, <2>4, <2>5 DEF t, gone, owned
  <1> QED
    BY <1>2, <1>3

\* An entry that is counted up or down.
LEMMA CountIn ==
  ASSUME NEW x \in Entry
  PROVE  /\ x.refcount \in Int
         /\ [x EXCEPT !.refcount = @ + 1] \in Entry /\ [x EXCEPT !.refcount = @ - 1] \in Entry
         /\ [x EXCEPT !.refcount = @ + 1].refcount = x.refcount + 1
         /\ [x EXCEPT !.refcount = @ - 1].refcount = x.refcount - 1
         /\ [x EXCEPT !.refcount = @ + 1].to_remove = x.to_remove
         /\ [x EXCEPT !.refcount = @ - 1].to_remove = x.to_remove
         /\ [x EXCEPT !.refcount = @ + 1].pages = x.pages
         /\ [x EXCEPT !.refcount = @ - 1].pages = x.pages
  <1>1. x.refcount \in Int
    BY DEF Entry
  <1>2. \A c \in Int : /\ [x EXCEPT !.refcount = c] \in Entry /\ [x EXCEPT !.refcount = c].refcount = c
                       /\ [x EXCEPT !.refcount = c].to_remove = x.to_remove
                       /\ [x EXCEPT !.refcount = c].pages = x.pages
    BY DEF Entry
  <1> QED
    BY <1>1, <1>2

\* mehcached_shm_map: one more mapping, of an entry that there is.
LEMMA MapIs ==
  ASSUME NEW L \in Nat, NEW s \in Shm(L), NEW e \in 1 .. MAX_ENTRIES, NEW addr \in Nat \ {0},
         NEW length \in Nat, FreeMappings(s) # {}
  PROVE  LET t == mehcached_shm_map(s, e, addr, length)
             m == Lowest(FreeMappings(s))
         IN  /\ t \in Shm(L) /\ t.pages = s.pages
             /\ m \in 1 .. MAX_MAPPINGS /\ s.mappings[m].addr = 0
             /\ t.mappings[m] = Mapped(e, addr, length)
             /\ \A k \in 1 .. MAX_MAPPINGS : k # m => t.mappings[k] = s.mappings[k]
             /\ \A f \in 1 .. MAX_ENTRIES :
                  t.entries[f] = IF f = e THEN [s.entries[e] EXCEPT !.refcount = @ + 1] ELSE s.entries[f]
  <1> DEFINE t == mehcached_shm_map(s, e, addr, length)
             m == Lowest(FreeMappings(s))
             entries == [s.entries EXCEPT ![e] = [s.entries[e] EXCEPT !.refcount = @ + 1]]
             mappings == [s.mappings EXCEPT ![m] = Mapped(e, addr, length)]
  <1>1. /\ s.pages \in [1 .. L -> Page] /\ s.entries \in [1 .. MAX_ENTRIES -> Entry]
        /\ s.mappings \in [1 .. MAX_MAPPINGS -> MapOf]
        /\ s = [pages |-> s.pages, entries |-> s.entries, mappings |-> s.mappings]
    BY DEF Shm
  <1>2. m \in 1 .. MAX_MAPPINGS /\ s.mappings[m].addr = 0
    <2>1. FreeMappings(s) \subseteq Nat
      BY DEF FreeMappings
    <2>2. m \in FreeMappings(s)
      BY <2>1, LowestIs
    <2> QED
      BY <2>2 DEF FreeMappings
  <1>3. t = [s EXCEPT !.entries = entries, !.mappings = mappings]
    BY <1>1 DEF mehcached_shm_map, Mapped
  <1> HIDE DEF m
  <1>4. /\ entries \in [1 .. MAX_ENTRIES -> Entry]
        /\ \A f \in 1 .. MAX_ENTRIES :
             entries[f] = IF f = e THEN [s.entries[e] EXCEPT !.refcount = @ + 1] ELSE s.entries[f]
    <2>1. [s.entries[e] EXCEPT !.refcount = @ + 1] \in Entry
      BY <1>1, CountIn
    <2> QED
      BY <1>1, <2>1
  <1>5. /\ mappings \in [1 .. MAX_MAPPINGS -> MapOf] /\ mappings[m] = Mapped(e, addr, length)
        /\ \A k \in 1 .. MAX_MAPPINGS : k # m => mappings[k] = s.mappings[k]
    <2>1. Mapped(e, addr, length) \in MapOf
      BY DEF Mapped, MapOf
    <2> QED
      BY <1>1, <1>2, <2>1
  <1> HIDE DEF entries, mappings
  <1>6. t = [pages |-> s.pages, entries |-> entries, mappings |-> mappings]
    BY <1>1, <1>3
  <1>7. t \in Shm(L)
    BY <1>1, <1>4, <1>5, <1>6 DEF Shm
  <1> HIDE DEF t
  <1> QED
    BY <1>2, <1>4, <1>5, <1>6, <1>7 DEF t, m

\* mehcached_shm_schedule_remove: an entry that is mapped is marked, one that is
\* not goes, and one that there is not stays away.
LEMMA ScheduleIs ==
  ASSUME NEW L \in Nat, NEW s \in Shm(L), NEW e \in Held(s)
  PROVE  LET t == mehcached_shm_schedule_remove(s, e)
             gone == s.entries[e].refcount = 0
         IN  /\ t \in Shm(L) /\ t.mappings = s.mappings
             /\ \A f \in 1 .. MAX_ENTRIES : f # e => t.entries[f] = s.entries[f]
             /\ t.entries[e] = IF gone THEN NoEntry ELSE [s.entries[e] EXCEPT !.to_remove = TRUE]
             /\ \A p \in 1 .. L : t.pages[p].in_use <=> s.pages[p].in_use /\ ~ (gone /\ p \in PagesOf(s, e))
  <1> DEFINE u == [s EXCEPT !.entries = [s.entries EXCEPT ![e] = [s.entries[e] EXCEPT !.to_remove = TRUE]]]
             marked == [s.entries[e] EXCEPT !.to_remove = TRUE]
  <1>1. /\ s.pages \in [1 .. L -> Page] /\ s.entries \in [1 .. MAX_ENTRIES -> Entry]
        /\ s = [pages |-> s.pages, entries |-> s.entries, mappings |-> s.mappings]
        /\ s.mappings \in [1 .. MAX_MAPPINGS -> MapOf]
    BY DEF Shm
  <1>2. e \in 1 .. MAX_ENTRIES /\ s.entries[e].pages # <<>>
    BY DEF Held
  <1>3. mehcached_shm_schedule_remove(s, e) = check_remove(u, e)
    BY <1>1, <1>2 DEF mehcached_shm_schedule_remove
  <1>4. /\ u.pages = s.pages /\ u.mappings = s.mappings
        /\ u.entries = [s.entries EXCEPT ![e] = marked]
    BY <1>1
  <1>5. /\ marked \in Entry /\ marked.to_remove = TRUE /\ marked.refcount = s.entries[e].refcount
        /\ marked.pages = s.entries[e].pages
    BY <1>1, <1>2 DEF Entry
  <1>6. u \in Shm(L)
    BY <1>1, <1>2, <1>5 DEF Shm
  <1> HIDE DEF u, marked
  <1>7. /\ u.entries[e] = marked
        /\ \A f \in 1 .. MAX_ENTRIES : f # e => u.entries[f] = s.entries[f]
    BY <1>1, <1>2, <1>4
  <1>8. PagesOf(u, e) = PagesOf(s, e)
    BY <1>5, <1>7 DEF PagesOf
  <1> DEFINE t == check_remove(u, e)
             gone == s.entries[e].refcount = 0
  <1>9. /\ t \in Shm(L) /\ t.mappings = u.mappings
        /\ \A f \in 1 .. MAX_ENTRIES : f # e => t.entries[f] = u.entries[f]
        /\ t.entries[e] = IF gone THEN NoEntry ELSE u.entries[e]
        /\ \A p \in 1 .. L : t.pages[p].in_use <=> u.pages[p].in_use /\ ~ (gone /\ p \in PagesOf(u, e))
    <2>1. (u.entries[e].refcount = 0 /\ u.entries[e].to_remove) <=> gone
      BY <1>5, <1>7
    <2> HIDE DEF gone
    <2>2. /\ t \in Shm(L) /\ t.mappings = u.mappings
          /\ \A f \in 1 .. MAX_ENTRIES : f # e => t.entries[f] = u.entries[f]
          /\ t.entries[e] = IF u.entries[e].refcount = 0 /\ u.entries[e].to_remove THEN NoEntry
                            ELSE u.entries[e]
          /\ \A p \in 1 .. L : t.pages[p].in_use <=>
               u.pages[p].in_use /\ ~ (u.entries[e].refcount = 0 /\ u.entries[e].to_remove /\ p \in PagesOf(u, e))
      BY <1>2, <1>6, CheckRemoveIs
    <2> HIDE DEF t
    <2> QED
      BY <2>1, <2>2
  <1> HIDE DEF t
  <1>10. /\ t \in Shm(L) /\ t.mappings = s.mappings
         /\ \A f \in 1 .. MAX_ENTRIES : f # e => t.entries[f] = s.entries[f]
         /\ t.entries[e] = IF gone THEN NoEntry ELSE marked
         /\ \A p \in 1 .. L : t.pages[p].in_use <=> s.pages[p].in_use /\ ~ (gone /\ p \in PagesOf(s, e))
    BY <1>4, <1>7, <1>8, <1>9
  <1> QED
    BY <1>3, <1>10 DEF t, marked

\* mehcached_shm_unmap: the mapping at an address goes, and its entry with it if
\* it was the last one and the removal is scheduled.
LEMMA UnmapIs ==
  ASSUME NEW L \in Nat, NEW s \in Shm(L), MappingsAgree(s), NEW m \in 1 .. MAX_MAPPINGS,
         s.mappings[m].addr # 0
  PROVE  LET t == mehcached_shm_unmap(s, s.mappings[m].addr)
             e == s.mappings[m].entry_id
             gone == s.entries[e].refcount = 1 /\ s.entries[e].to_remove
         IN  /\ e \in Held(s) /\ t \in Shm(L)
             /\ t.mappings = [s.mappings EXCEPT ![m] = NoMapping]
             /\ \A f \in 1 .. MAX_ENTRIES : f # e => t.entries[f] = s.entries[f]
             /\ t.entries[e] = IF gone THEN NoEntry ELSE [s.entries[e] EXCEPT !.refcount = @ - 1]
             /\ \A p \in 1 .. L : t.pages[p].in_use <=> s.pages[p].in_use /\ ~ (gone /\ p \in PagesOf(s, e))
  <1> DEFINE e == s.mappings[m].entry_id
             less == [s.entries[e] EXCEPT !.refcount = @ - 1]
             u == Unreferenced(s, e)
             v == check_remove(u, e)
             at == {k \in 1 .. MAX_MAPPINGS : s.mappings[k].addr = s.mappings[m].addr}
  <1>1. /\ s.pages \in [1 .. L -> Page] /\ s.entries \in [1 .. MAX_ENTRIES -> Entry]
        /\ s = [pages |-> s.pages, entries |-> s.entries, mappings |-> s.mappings]
        /\ s.mappings \in [1 .. MAX_MAPPINGS -> MapOf]
    BY DEF Shm
  <1>2. e \in 1 .. MAX_ENTRIES /\ e \in Held(s)
    <2>1. e \in 1 .. MAX_ENTRIES
      BY DEF MappingsAgree
    <2>2. m \in Mapping(s, e)
      BY DEF Mapping
    <2> QED
      BY <2>1, <2>2 DEF MappingsAgree
  <1>3. Lowest(at) = m
    <2>1. at \subseteq Nat /\ m \in at
      OBVIOUS
    <2>2. Lowest(at) \in at
      <3> HIDE DEF at
      <3> QED
        BY <2>1, LowestIs
    <2> QED
      BY <2>2 DEF MappingsAgree
  <1>4. mehcached_shm_unmap(s, s.mappings[m].addr) = [v EXCEPT !.mappings = [v.mappings EXCEPT ![m] = NoMapping]]
    BY <1>3 DEF mehcached_shm_unmap
  <1>5. u = [s EXCEPT !.entries = [s.entries EXCEPT ![e] = less]]
    BY <1>1, <1>2 DEF Unreferenced
  <1>6. less \in Entry /\ less.refcount = s.entries[e].refcount - 1 /\ less.to_remove = s.entries[e].to_remove
        /\ less.pages = s.entries[e].pages
    BY <1>1, <1>2, CountIn
  <1>7. s.entries[e].refcount \in Int
    BY <1>1, <1>2, CountIn
  <1> HIDE DEF e, less, u
  <1>8. /\ u \in Shm(L) /\ u.pages = s.pages /\ u.mappings = s.mappings
        /\ u.entries[e] = less
        /\ \A f \in 1 .. MAX_ENTRIES : f # e => u.entries[f] = s.entries[f]
    BY <1>1, <1>2, <1>5, <1>6 DEF Shm
  <1>9. PagesOf(u, e) = PagesOf(s, e)
    BY <1>6, <1>8 DEF PagesOf
  <1> DEFINE gone == s.entries[e].refcount = 1 /\ s.entries[e].to_remove
  <1>10. (u.entries[e].refcount = 0 /\ u.entries[e].to_remove) <=> gone
    BY <1>6, <1>7, <1>8
  <1> HIDE DEF gone
  <1>11. /\ v \in Shm(L) /\ v.mappings = u.mappings
         /\ \A f \in 1 .. MAX_ENTRIES : f # e => v.entries[f] = u.entries[f]
         /\ v.entries[e] = IF gone THEN NoEntry ELSE u.entries[e]
         /\ \A p \in 1 .. L : v.pages[p].in_use <=> u.pages[p].in_use /\ ~ (gone /\ p \in PagesOf(u, e))
    BY <1>2, <1>8, <1>10, CheckRemoveIs
  <1> HIDE DEF v
  <1> DEFINE mappings == [s.mappings EXCEPT ![m] = NoMapping]
             t == [v EXCEPT !.mappings = mappings]
  <1>12. mappings \in [1 .. MAX_MAPPINGS -> MapOf]
    <2>1. NoMapping \in MapOf
      BY DEF NoMapping, MapOf
    <2> QED
      BY <1>1, <2>1
  <1> HIDE DEF mappings
  <1>13. /\ t \in Shm(L) /\ t.pages = v.pages /\ t.entries = v.entries /\ t.mappings = mappings
    BY <1>11, <1>12 DEF Shm
  <1>14. mehcached_shm_unmap(s, s.mappings[m].addr) = t
    BY <1>4, <1>8, <1>11 DEF mappings
  <1> HIDE DEF t
  <1>15. /\ t \in Shm(L) /\ t.mappings = mappings
         /\ \A f \in 1 .. MAX_ENTRIES : f # e => t.entries[f] = s.entries[f]
         /\ t.entries[e] = IF gone THEN NoEntry ELSE less
         /\ \A p \in 1 .. L : t.pages[p].in_use <=> s.pages[p].in_use /\ ~ (gone /\ p \in PagesOf(s, e))
    BY <1>8, <1>9, <1>11, <1>13
  <1> QED
    BY <1>2, <1>14, <1>15 DEF gone, less, mappings, e

-----------------------------------------------------------------------------
(***************************************************************************)
(* Pages, entries and mappings go on agreeing.                             *)
(***************************************************************************)

LEMMA MappingFinite ==
  ASSUME NEW L \in Nat, NEW s \in Shm(L), NEW e
  PROVE  IsFiniteSet(Mapping(s, e)) /\ Cardinality(Mapping(s, e)) \in Nat
  <1>1. IsFiniteSet(1 .. MAX_MAPPINGS)
    <2>1. MAX_MAPPINGS \in Nat
      BY MicaMemoryAssumption
    <2> QED
      BY <2>1, FS_Interval
  <1>2. Mapping(s, e) \in SUBSET (1 .. MAX_MAPPINGS)
    BY DEF Mapping
  <1> QED
    BY <1>1, <1>2, FS_Subset, FS_CardinalityType

\* Where an entry goes with its pages, or keeps them.
LEMMA PagesKept ==
  ASSUME NEW L \in Nat, NEW s \in Shm(L), NEW t \in Shm(L), PagesAgree(s), NEW e \in Held(s),
         NEW gone \in BOOLEAN,
         \A f \in 1 .. MAX_ENTRIES : f # e => t.entries[f] = s.entries[f],
         IF gone THEN t.entries[e] = NoEntry ELSE t.entries[e].pages = s.entries[e].pages,
         \A p \in 1 .. L : t.pages[p].in_use <=> s.pages[p].in_use /\ ~ (gone /\ p \in PagesOf(s, e))
  PROVE  PagesAgree(t) /\ Held(t) = IF gone THEN Held(s) \ {e} ELSE Held(s)
  <1>1. e \in 1 .. MAX_ENTRIES /\ Held(s) \subseteq 1 .. MAX_ENTRIES /\ Held(t) \subseteq 1 .. MAX_ENTRIES
    BY DEF Held
  <1>2. DOMAIN s.pages = 1 .. L /\ DOMAIN t.pages = 1 .. L
    BY DEF Shm
  <1>3. Held(t) = IF gone THEN Held(s) \ {e} ELSE Held(s)
    <2>1. CASE gone
      <3>1. t.entries[e].pages = <<>>
        BY <2>1 DEF NoEntry
      <3> QED
        BY <2>1, <3>1 DEF Held
    <2>2. CASE ~ gone
      BY <2>2 DEF Held
    <2> QED
      BY <2>1, <2>2
  <1>4. \A f \in Held(t) : PagesOf(t, f) = PagesOf(s, f) /\ f \in Held(s)
    <2>1. \A f \in 1 .. MAX_ENTRIES : f # e => PagesOf(t, f) = PagesOf(s, f)
      BY DEF PagesOf
    <2>2. ~ gone => PagesOf(t, e) = PagesOf(s, e)
      BY DEF PagesOf
    <2> QED
      BY <1>1, <1>3, <2>1, <2>2
  <1>5. \A p \in 1 .. L : t.pages[p].in_use <=> \E f \in Held(t) : p \in PagesOf(t, f)
    <2> SUFFICES ASSUME NEW p \in 1 .. L
                 PROVE  t.pages[p].in_use <=> \E f \in Held(t) : p \in PagesOf(t, f)
      OBVIOUS
    <2>1. s.pages[p].in_use <=> \E f \in Held(s) : p \in PagesOf(s, f)
      BY <1>2 DEF PagesAgree
    <2>2. \A f \in Held(s) : f # e => ~ (p \in PagesOf(s, f) /\ p \in PagesOf(s, e))
      BY DEF PagesAgree
    <2> QED
      BY <1>3, <1>4, <2>1, <2>2
  <1>6. \A f, g \in Held(t) : f # g => PagesOf(t, f) \intersect PagesOf(t, g) = {}
    BY <1>4 DEF PagesAgree
  <1>7. \A f \in 1 .. MAX_ENTRIES : f \notin Held(t) => t.entries[f] = NoEntry
    BY <1>3 DEF PagesAgree
  <1> QED
    BY <1>2, <1>3, <1>5, <1>6, <1>7 DEF PagesAgree

\* A new entry has no mapping, and its removal is not scheduled.
LEMMA AllocAgrees ==
  ASSUME NEW L \in Nat, NEW s, Agrees(s, L), NEW n \in Nat \ {0}, NEW node, CanAlloc(s, n, node)
  PROVE  LET t == mehcached_shm_alloc(s, n, node)
             e == AllocEntry(s)
         IN  /\ Agrees(t, L) /\ MapsIn(t) = MapsIn(s)
             /\ e \in 1 .. MAX_ENTRIES /\ e \notin Held(s) /\ Held(t) = Held(s) \union {e}
             /\ Unscheduled(t) = Unscheduled(s) \union {e}
  <1> DEFINE t == mehcached_shm_alloc(s, n, node)
             e == AllocEntry(s)
  <1>1. s \in Shm(L) /\ PagesAgree(s) /\ MappingsAgree(s)
    BY DEF Agrees
  <1>2. /\ t \in Shm(L) /\ t.mappings = s.mappings
        /\ e \in 1 .. MAX_ENTRIES /\ e \notin Held(s) /\ e \in Held(t)
        /\ \A f \in 1 .. MAX_ENTRIES : f # e => t.entries[f] = s.entries[f]
        /\ t.entries[e].refcount = s.entries[e].refcount
        /\ t.entries[e].to_remove = s.entries[e].to_remove
        /\ \A p \in PagesOf(t, e) : p \in 1 .. L /\ ~ s.pages[p].in_use
        /\ \A p \in 1 .. L : t.pages[p].in_use <=> s.pages[p].in_use \/ p \in PagesOf(t, e)
    BY <1>1, AllocIs
  <1> HIDE DEF t, e
  <1>3. s.entries[e] = NoEntry
    BY <1>1, <1>2 DEF PagesAgree
  <1>4. Held(t) = Held(s) \union {e}
    BY <1>2 DEF Held
  <1>5. \A f \in 1 .. MAX_ENTRIES : f # e => PagesOf(t, f) = PagesOf(s, f)
    BY <1>2 DEF PagesOf
  <1>6. Held(s) \subseteq 1 .. MAX_ENTRIES /\ DOMAIN s.pages = 1 .. L /\ DOMAIN t.pages = 1 .. L
    BY <1>1, <1>2 DEF Held, Shm
  <1>7. \A f \in Held(s) : f # e /\ PagesOf(t, f) = PagesOf(s, f)
    BY <1>2, <1>5, <1>6
  <1>8. PagesAgree(t)
    <2>1. \A p \in 1 .. L : t.pages[p].in_use <=> \E f \in Held(t) : p \in PagesOf(t, f)
      <3>1. \A p \in 1 .. L : s.pages[p].in_use <=> \E f \in Held(s) : p \in PagesOf(s, f)
        BY <1>1, <1>6 DEF PagesAgree
      <3> QED
        BY <1>2, <1>4, <1>7, <3>1
    <2>2. \A f \in Held(s) : PagesOf(t, f) \intersect PagesOf(t, e) = {}
      <3>1. \A f \in Held(s) : \A p \in PagesOf(t, e) : p \notin PagesOf(s, f)
        BY <1>1, <1>2, <1>6 DEF PagesAgree
      <3> QED
        BY <1>7, <3>1
    <2>3. \A f, g \in Held(s) : f # g => PagesOf(t, f) \intersect PagesOf(t, g) = {}
      BY <1>1, <1>7 DEF PagesAgree
    <2>4. \A f \in 1 .. MAX_ENTRIES : f \notin Held(t) => t.entries[f] = NoEntry
      BY <1>1, <1>2, <1>4 DEF PagesAgree
    <2> QED
      BY <1>4, <1>6, <2>1, <2>2, <2>3, <2>4 DEF PagesAgree
  <1>9. \A f \in 1 .. MAX_ENTRIES : /\ t.entries[f].refcount = s.entries[f].refcount
                                    /\ t.entries[f].to_remove = s.entries[f].to_remove
                                    /\ Mapping(t, f) = Mapping(s, f)
    BY <1>2 DEF Mapping
  <1>10. MappingsAgree(t)
    <2>1. t.entries[e].to_remove = FALSE
      BY <1>2, <1>3 DEF NoEntry
    <2>2. \A f \in Held(t) : t.entries[f].to_remove => t.entries[f].refcount # 0
      BY <1>1, <1>4, <1>6, <1>9, <2>1 DEF MappingsAgree
    <2> QED
      BY <1>1, <1>2, <1>4, <1>9, <2>2 DEF MappingsAgree
  <1>11. Unscheduled(t) = Unscheduled(s) \union {e}
    <2>1. t.entries[e].to_remove = FALSE
      BY <1>2, <1>3 DEF NoEntry
    <2> QED
      BY <1>4, <1>6, <1>9, <2>1 DEF Unscheduled
  <1>12. MapsIn(t) = MapsIn(s)
    BY <1>2 DEF MapsIn
  <1> QED
    BY <1>2, <1>4, <1>8, <1>10, <1>11, <1>12 DEF Agrees, t, e

\* A new mapping, at an address where there is none.
LEMMA MapAgrees ==
  ASSUME NEW L \in Nat, NEW s, Agrees(s, L), NEW e \in Held(s), NEW addr \in Nat \ {0},
         NEW length \in Nat, FreeMappings(s) # {}, \A r \in MapsIn(s) : r.addr # addr
  PROVE  LET t == mehcached_shm_map(s, e, addr, length)
         IN  /\ Agrees(t, L) /\ MapsIn(t) = MapsIn(s) \union {Mapped(e, addr, length)}
             /\ Held(t) = Held(s) /\ Unscheduled(t) = Unscheduled(s)
  <1> DEFINE t == mehcached_shm_map(s, e, addr, length)
             m == Lowest(FreeMappings(s))
  <1>1. /\ s \in Shm(L) /\ PagesAgree(s) /\ MappingsAgree(s)
        /\ e \in 1 .. MAX_ENTRIES /\ Held(s) \subseteq 1 .. MAX_ENTRIES
    BY DEF Agrees, Held
  <1>2. /\ t \in Shm(L) /\ t.pages = s.pages
        /\ m \in 1 .. MAX_MAPPINGS /\ s.mappings[m].addr = 0
        /\ t.mappings[m] = Mapped(e, addr, length)
        /\ \A k \in 1 .. MAX_MAPPINGS : k # m => t.mappings[k] = s.mappings[k]
        /\ \A f \in 1 .. MAX_ENTRIES :
             t.entries[f] = IF f = e THEN [s.entries[e] EXCEPT !.refcount = @ + 1] ELSE s.entries[f]
    BY <1>1, MapIs
  <1> HIDE DEF t, m
  <1>3. s.entries[e] \in Entry
    BY <1>1 DEF Shm
  <1>4. /\ t.entries[e].refcount = s.entries[e].refcount + 1
        /\ t.entries[e].to_remove = s.entries[e].to_remove /\ t.entries[e].pages = s.entries[e].pages
        /\ \A f \in 1 .. MAX_ENTRIES : f # e => t.entries[f] = s.entries[f]
    <2>1. t.entries[e] = [s.entries[e] EXCEPT !.refcount = @ + 1]
      BY <1>1, <1>2
    <2> QED
      BY <1>2, <1>3, <2>1, CountIn
  <1>5. PagesAgree(t) /\ Held(t) = Held(s)
    <2> DEFINE gone == FALSE
    <2>1. gone \in BOOLEAN /\ ~ gone
      OBVIOUS
    <2> HIDE DEF gone
    <2>2. \A p \in 1 .. L : t.pages[p].in_use <=> s.pages[p].in_use /\ ~ (gone /\ p \in PagesOf(s, e))
      BY <1>2, <2>1
    <2>3. IF gone THEN t.entries[e] = NoEntry ELSE t.entries[e].pages = s.entries[e].pages
      BY <1>4, <2>1
    <2>4. PagesAgree(t) /\ Held(t) = IF gone THEN Held(s) \ {e} ELSE Held(s)
      BY <1>1, <1>2, <1>4, <2>1, <2>2, <2>3, PagesKept
    <2> QED
      BY <2>1, <2>4
  <1>6. t.mappings[m].addr = addr /\ t.mappings[m].entry_id = e
    BY <1>2 DEF Mapped
  <1>7. /\ m \notin Mapping(s, e) /\ Mapping(t, e) = Mapping(s, e) \union {m}
        /\ \A f \in 1 .. MAX_ENTRIES : f # e => Mapping(t, f) = Mapping(s, f)
    BY <1>2, <1>6 DEF Mapping
  <1>8. Cardinality(Mapping(t, e)) = Cardinality(Mapping(s, e)) + 1
    BY <1>1, <1>7, MappingFinite, FS_AddElement
  <1>9. s.entries[e].refcount = Cardinality(Mapping(s, e)) /\ Cardinality(Mapping(s, e)) \in Nat
    BY <1>1, MappingFinite DEF MappingsAgree
  <1>10. \A k \in 1 .. MAX_MAPPINGS : s.mappings[k].addr # 0 => s.mappings[k].addr # addr
    BY DEF MapsIn
  <1>11. MappingsAgree(t)
    <2>1. \A f \in 1 .. MAX_ENTRIES : t.entries[f].refcount = Cardinality(Mapping(t, f))
      BY <1>1, <1>4, <1>7, <1>8, <1>9 DEF MappingsAgree
    <2>2. \A f \in 1 .. MAX_ENTRIES : Mapping(t, f) # {} => f \in Held(t)
      BY <1>1, <1>5, <1>7 DEF MappingsAgree
    <2>3. \A f \in Held(t) : t.entries[f].to_remove => t.entries[f].refcount # 0
      BY <1>1, <1>4, <1>5, <1>9 DEF MappingsAgree
    <2>4. \A k \in 1 .. MAX_MAPPINGS : IF t.mappings[k].addr = 0 THEN t.mappings[k] = NoMapping
                                       ELSE t.mappings[k].entry_id \in 1 .. MAX_ENTRIES
      BY <1>1, <1>2, <1>6 DEF MappingsAgree
    <2>5. ASSUME NEW j \in 1 .. MAX_MAPPINGS, NEW k \in 1 .. MAX_MAPPINGS,
                 t.mappings[j].addr = t.mappings[k].addr, t.mappings[j].addr # 0
          PROVE  j = k
      <3>1. \A i \in 1 .. MAX_MAPPINGS : i # m /\ t.mappings[i].addr # 0 => t.mappings[i].addr # addr
        BY <1>2, <1>10
      <3> QED
        BY <1>1, <1>2, <1>6, <2>5, <3>1 DEF MappingsAgree
    <2> QED
      BY <2>1, <2>2, <2>3, <2>4, <2>5 DEF MappingsAgree
  <1>12. MapsIn(t) = MapsIn(s) \union {Mapped(e, addr, length)}
    <2> DEFINE used(x) == {k \in 1 .. MAX_MAPPINGS : x.mappings[k].addr # 0}
    <2>1. used(t) = used(s) \union {m} /\ m \notin used(s)
      BY <1>2, <1>6
    <2>2. \A k \in used(s) : t.mappings[k] = s.mappings[k]
      BY <1>2, <2>1
    <2>3. MapsIn(t) = {t.mappings[k] : k \in used(t)} /\ MapsIn(s) = {s.mappings[k] : k \in used(s)}
      BY DEF MapsIn
    <2> HIDE DEF used
    <2> QED
      BY <1>2, <2>1, <2>2, <2>3
  <1>13. Unscheduled(t) = Unscheduled(s)
    BY <1>1, <1>4, <1>5 DEF Unscheduled
  <1> QED
    BY <1>5, <1>2, <1>11, <1>12, <1>13 DEF Agrees, t

\* Once its removal is scheduled an entry stays as long as it is mapped.
LEMMA ScheduleAgrees ==
  ASSUME NEW L \in Nat, NEW s, Agrees(s, L), NEW e \in 1 .. MAX_ENTRIES
  PROVE  LET t == mehcached_shm_schedule_remove(s, e)
         IN  /\ Agrees(t, L) /\ MapsIn(t) = MapsIn(s) /\ Unscheduled(t) = Unscheduled(s) \ {e}
  <1> DEFINE t == mehcached_shm_schedule_remove(s, e)
             gone == s.entries[e].refcount = 0
  <1>1. s \in Shm(L) /\ PagesAgree(s) /\ MappingsAgree(s) /\ Held(s) \subseteq 1 .. MAX_ENTRIES
    BY DEF Agrees, Held
  <1>2. CASE e \notin Held(s)
    <2>1. t = s
      BY <1>2 DEF mehcached_shm_schedule_remove, Held
    <2>2. e \notin Unscheduled(s)
      BY <1>2 DEF Unscheduled
    <2> QED
      BY <2>1, <2>2
  <1>3. CASE e \in Held(s)
    <2>1. /\ t \in Shm(L) /\ t.mappings = s.mappings
          /\ \A f \in 1 .. MAX_ENTRIES : f # e => t.entries[f] = s.entries[f]
          /\ t.entries[e] = IF gone THEN NoEntry ELSE [s.entries[e] EXCEPT !.to_remove = TRUE]
          /\ \A p \in 1 .. L : t.pages[p].in_use <=> s.pages[p].in_use /\ ~ (gone /\ p \in PagesOf(s, e))
      BY <1>1, <1>3, ScheduleIs
    <2>2. gone \in BOOLEAN
      OBVIOUS
    <2>3. gone <=> s.entries[e].refcount = 0
      OBVIOUS
    <2> HIDE DEF t, gone
    <2>4. s.entries[e] \in Entry
      BY <1>1 DEF Shm
    <2>5. ~ gone => /\ t.entries[e].pages = s.entries[e].pages /\ t.entries[e].to_remove = TRUE
                    /\ t.entries[e].refcount = s.entries[e].refcount
      BY <2>1, <2>4 DEF Entry
    <2>6. PagesAgree(t) /\ Held(t) = IF gone THEN Held(s) \ {e} ELSE Held(s)
      <3>1. IF gone THEN t.entries[e] = NoEntry ELSE t.entries[e].pages = s.entries[e].pages
        BY <2>1, <2>5
      <3>2. /\ t \in Shm(L) /\ \A f \in 1 .. MAX_ENTRIES : f # e => t.entries[f] = s.entries[f]
            /\ \A p \in 1 .. L : t.pages[p].in_use <=> s.pages[p].in_use /\ ~ (gone /\ p \in PagesOf(s, e))
        BY <2>1
      <3> QED
        BY <1>1, <1>3, <2>2, <3>1, <3>2, PagesKept
    <2>7. \A f \in 1 .. MAX_ENTRIES : Mapping(t, f) = Mapping(s, f)
      BY <2>1 DEF Mapping
    <2>8. gone => Mapping(s, e) = {}
      <3>1. Cardinality(Mapping(s, e)) = s.entries[e].refcount
        BY <1>1 DEF MappingsAgree
      <3> QED
        BY <1>1, <2>3, <3>1, MappingFinite, FS_EmptySet
    <2>9. \A f \in 1 .. MAX_ENTRIES : t.entries[f].refcount = s.entries[f].refcount
      <3>1. gone => t.entries[e].refcount = 0
        BY <2>1 DEF NoEntry
      <3> QED
        BY <2>1, <2>3, <2>5, <3>1
    <2>10. MappingsAgree(t)
      <3>1. \A f \in 1 .. MAX_ENTRIES : t.entries[f].refcount = Cardinality(Mapping(t, f))
        BY <1>1, <2>7, <2>9 DEF MappingsAgree
      <3>2. \A f \in 1 .. MAX_ENTRIES : Mapping(t, f) # {} => f \in Held(t)
        BY <1>1, <2>6, <2>7, <2>8 DEF MappingsAgree
      <3>3. \A f \in Held(t) : t.entries[f].to_remove => t.entries[f].refcount # 0
        BY <1>1, <2>1, <2>3, <2>6, <2>9 DEF MappingsAgree
      <3> QED
        BY <1>1, <2>1, <3>1, <3>2, <3>3 DEF MappingsAgree
    <2>11. MapsIn(t) = MapsIn(s)
      BY <2>1 DEF MapsIn
    <2>12. Unscheduled(t) = Unscheduled(s) \ {e}
      BY <1>1, <2>1, <2>5, <2>6 DEF Unscheduled
    <2> QED
      BY <2>1, <2>6, <2>10, <2>11, <2>12 DEF Agrees, t
  <1> QED
    BY <1>2, <1>3

\* A mapping less.
LEMMA UnmapAgrees ==
  ASSUME NEW L \in Nat, NEW s, Agrees(s, L), NEW r \in MapsIn(s)
  PROVE  LET t == mehcached_shm_unmap(s, r.addr)
         IN  /\ Agrees(t, L) /\ MapsIn(t) = MapsIn(s) \ {r} /\ Unscheduled(t) = Unscheduled(s)
  <1>1. s \in Shm(L) /\ PagesAgree(s) /\ MappingsAgree(s) /\ Held(s) \subseteq 1 .. MAX_ENTRIES
    BY DEF Agrees, Held
  <1>2. PICK m \in 1 .. MAX_MAPPINGS : s.mappings[m].addr # 0 /\ r = s.mappings[m]
    BY DEF MapsIn
  <1> DEFINE t == mehcached_shm_unmap(s, s.mappings[m].addr)
             e == s.mappings[m].entry_id
             gone == s.entries[e].refcount = 1 /\ s.entries[e].to_remove
  <1>3. /\ e \in Held(s) /\ t \in Shm(L)
        /\ t.mappings = [s.mappings EXCEPT ![m] = NoMapping]
        /\ \A f \in 1 .. MAX_ENTRIES : f # e => t.entries[f] = s.entries[f]
        /\ t.entries[e] = IF gone THEN NoEntry ELSE [s.entries[e] EXCEPT !.refcount = @ - 1]
        /\ \A p \in 1 .. L : t.pages[p].in_use <=> s.pages[p].in_use /\ ~ (gone /\ p \in PagesOf(s, e))
    BY <1>1, <1>2, UnmapIs
  <1>4. /\ e \in 1 .. MAX_ENTRIES /\ s.entries[e] \in Entry /\ s.entries[e].refcount \in Int
        /\ s.entries[e].to_remove \in BOOLEAN
    BY <1>1, <1>3, CountIn DEF Shm, Entry
  <1>5. gone \in BOOLEAN /\ (gone <=> s.entries[e].refcount = 1 /\ s.entries[e].to_remove)
    BY <1>4
  <1> HIDE DEF t, e, gone
  <1>6. /\ ~ gone => /\ t.entries[e].pages = s.entries[e].pages
                     /\ t.entries[e].to_remove = s.entries[e].to_remove
                     /\ t.entries[e].refcount = s.entries[e].refcount - 1
        /\ gone => t.entries[e].refcount = 0
    <2>1. CASE gone
      BY <1>3, <2>1 DEF NoEntry
    <2>2. CASE ~ gone
      <3>1. t.entries[e] = [s.entries[e] EXCEPT !.refcount = @ - 1]
        BY <1>3, <2>2
      <3> QED
        BY <1>4, <2>2, <3>1, CountIn
    <2> QED
      BY <2>1, <2>2
  <1>7. PagesAgree(t) /\ Held(t) = IF gone THEN Held(s) \ {e} ELSE Held(s)
    <2>1. IF gone THEN t.entries[e] = NoEntry ELSE t.entries[e].pages = s.entries[e].pages
      BY <1>3, <1>6
    <2>2. /\ t \in Shm(L) /\ e \in Held(s)
          /\ \A f \in 1 .. MAX_ENTRIES : f # e => t.entries[f] = s.entries[f]
          /\ \A p \in 1 .. L : t.pages[p].in_use <=> s.pages[p].in_use /\ ~ (gone /\ p \in PagesOf(s, e))
      BY <1>3
    <2> QED
      BY <1>1, <1>5, <2>1, <2>2, PagesKept
  <1>8. /\ t.mappings[m] = NoMapping /\ t.mappings[m].addr = 0
        /\ \A k \in 1 .. MAX_MAPPINGS : k # m => t.mappings[k] = s.mappings[k]
    <2>1. DOMAIN s.mappings = 1 .. MAX_MAPPINGS
      BY <1>1 DEF Shm
    <2> QED
      BY <1>3, <2>1, NoMapping.addr = 0 DEF NoMapping
  <1>9. /\ m \in Mapping(s, e) /\ Mapping(t, e) = Mapping(s, e) \ {m}
        /\ \A f \in 1 .. MAX_ENTRIES : f # e => Mapping(t, f) = Mapping(s, f)
    BY <1>2, <1>8 DEF Mapping, e
  <1>10. Cardinality(Mapping(t, e)) = Cardinality(Mapping(s, e)) - 1
    BY ZenonT(40), <1>1, <1>9, MappingFinite, FS_RemoveElement
  <1>11. s.entries[e].refcount = Cardinality(Mapping(s, e)) /\ Cardinality(Mapping(t, e)) \in Nat
    BY <1>1, <1>3, <1>4, MappingFinite DEF MappingsAgree
  <1>12. t.entries[e].refcount = Cardinality(Mapping(t, e))
    BY <1>4, <1>5, <1>6, <1>10, <1>11
  <1>13. MappingsAgree(t)
    <2>1. \A f \in 1 .. MAX_ENTRIES : t.entries[f].refcount = Cardinality(Mapping(t, f))
      BY <1>1, <1>3, <1>9, <1>12 DEF MappingsAgree
    <2>2. \A f \in 1 .. MAX_ENTRIES : Mapping(t, f) # {} => f \in Held(t)
      <3>1. gone => Mapping(t, e) = {}
        BY <1>3, <1>6, <1>12, MappingFinite, FS_EmptySet
      <3> QED
        BY <1>1, <1>3, <1>7, <1>9, <3>1 DEF MappingsAgree
    <2>3. \A f \in Held(t) : t.entries[f].to_remove => t.entries[f].refcount # 0
      <3>1. \A f \in Held(t) : f \in Held(s) /\ (f = e => ~ gone)
        BY <1>7
      <3>2. \A f \in Held(t) : f # e => (t.entries[f].to_remove => t.entries[f].refcount # 0)
        <4>1. \A f \in Held(s) : s.entries[f].to_remove => s.entries[f].refcount # 0
          BY <1>1 DEF MappingsAgree
        <4> QED
          BY <1>1, <1>3, <3>1, <4>1
      <3>3. ~ gone => (t.entries[e].to_remove => t.entries[e].refcount # 0)
        <4> SUFFICES ASSUME ~ gone, t.entries[e].to_remove PROVE t.entries[e].refcount # 0
          OBVIOUS
        <4>1. s.entries[e].to_remove
          BY <1>6, Zenon
        <4>2. s.entries[e].refcount # 1
          BY <1>5, <4>1, Zenon
        <4> QED
          BY <1>4, <1>6, <4>2
      <3> QED
        BY <3>1, <3>2, <3>3
    <2>4. \A k \in 1 .. MAX_MAPPINGS : IF t.mappings[k].addr = 0 THEN t.mappings[k] = NoMapping
                                       ELSE t.mappings[k].entry_id \in 1 .. MAX_ENTRIES
      BY <1>1, <1>8 DEF MappingsAgree
    <2>5. \A j, k \in 1 .. MAX_MAPPINGS :
            t.mappings[j].addr = t.mappings[k].addr /\ t.mappings[j].addr # 0 => j = k
      BY <1>1, <1>8 DEF MappingsAgree
    <2> QED
      BY <2>1, <2>2, <2>3, <2>4, <2>5 DEF MappingsAgree
  <1>14. MapsIn(t) = MapsIn(s) \ {r}
    <2> DEFINE used(x) == {k \in 1 .. MAX_MAPPINGS : x.mappings[k].addr # 0}
    <2>1. used(t) = used(s) \ {m} /\ m \in used(s)
      BY <1>2, <1>8
    <2>2. \A k \in used(t) : t.mappings[k] = s.mappings[k]
      BY <1>8, <2>1
    <2>3. \A k \in used(t) : s.mappings[k] # r
      BY <1>1, <1>2, <2>1 DEF MappingsAgree
    <2>4. MapsIn(t) = {t.mappings[k] : k \in used(t)} /\ MapsIn(s) = {s.mappings[k] : k \in used(s)}
      BY DEF MapsIn
    <2> HIDE DEF used
    <2> QED
      BY <1>2, <2>1, <2>2, <2>3, <2>4
  <1>15. Unscheduled(t) = Unscheduled(s)
    BY <1>1, <1>3, <1>5, <1>6, <1>7 DEF Unscheduled
  <1> QED
    BY <1>2, <1>3, <1>7, <1>13, <1>14, <1>15 DEF Agrees, t

-----------------------------------------------------------------------------
(***************************************************************************)
(* Where objects are mapped.                                               *)
(***************************************************************************)

LEMMA StripesAre ==
  ASSUME NEW o, NEW i \in Nat, NEW k \in Nat, o.base \in Nat \ {0}
  PROVE  /\ \A r \in Stripes(o, i, k) : r.addr \in o.base + i .. o.base + k - 1 /\ r.num_pages = 1
         /\ \A a \in o.base + i .. o.base + k - 1 : \E r \in Stripes(o, i, k) : r.addr = a
         /\ k <= i => Stripes(o, i, k) = {}
         /\ i <= k => Stripes(o, i, k+1) = Stripes(o, i, k) \union {Mapped(o.entries[(k % 2) + 1], o.base + k, 1)}
         /\ i < k => Stripes(o, i+1, k) = Stripes(o, i, k) \ {Mapped(o.entries[(i % 2) + 1], o.base + i, 1)}
         /\ i < k => Mapped(o.entries[(i % 2) + 1], o.base + i, 1) \in Stripes(o, i, k)
  <1> DEFINE S(n) == Mapped(o.entries[(n % 2) + 1], o.base + n, 1)
  <1>1. \A n \in Nat : S(n).addr = o.base + n /\ S(n).num_pages = 1
    BY DEF Mapped
  <1>2. \A x, y \in Nat : Stripes(o, x, y) = {S(n) : n \in x .. y-1}
    BY DEF Stripes
  <1> HIDE DEF S
  <1>3. \A m, n \in Nat : S(m) = S(n) => m = n
    BY <1>1
  <1>4. i+1 \in Nat /\ k+1 \in Nat
    OBVIOUS
  <1>5. \A r \in Stripes(o, i, k) : r.addr \in o.base + i .. o.base + k - 1 /\ r.num_pages = 1
    BY <1>1, <1>2
  <1>6. ASSUME NEW a \in o.base + i .. o.base + k - 1 PROVE \E r \in Stripes(o, i, k) : r.addr = a
    <2>1. a - o.base \in i .. k-1 /\ a - o.base \in Nat
      OBVIOUS
    <2>2. S(a - o.base).addr = a
      BY <1>1, <2>1
    <2> QED
      BY <1>2, <2>1, <2>2
  <1>7. k <= i => Stripes(o, i, k) = {}
    BY <1>2
  <1>8. i <= k => Stripes(o, i, k+1) = Stripes(o, i, k) \union {S(k)}
    <2>1. i <= k => i .. (k+1)-1 = (i .. k-1) \union {k}
      OBVIOUS
    <2> QED
      BY <1>2, <1>4, <2>1
  <1>9. i < k => Stripes(o, i+1, k) = Stripes(o, i, k) \ {S(i)}
    <2>1. i < k => i+1 .. k-1 = (i .. k-1) \ {i}
      OBVIOUS
    <2>2. \A n \in i .. k-1 : S(n) = S(i) => n = i
      BY <1>3
    <2> QED
      BY <1>2, <1>4, <2>1, <2>2
  <1>10. i < k => S(i) \in Stripes(o, i, k)
    BY <1>2
  <1> QED
    BY <1>5, <1>6, <1>7, <1>8, <1>9, <1>10 DEF S

\* All of an object is mapped, and nothing else by its mappings.
LEMMA PlaceIs ==
  ASSUME NEW o, Placed(o)
  PROVE  /\ o.base \in Place(o)
         /\ \A r \in MappingsOf(o) : r.addr \in Place(o)
         /\ \A a \in Place(o) : \E r \in MappingsOf(o) : a \in r.addr .. r.addr + r.num_pages - 1
         /\ o.kind = "striped" => \A i \in 0 .. o.n - 1 : o.base + i \in Place(o)
  <1>1. o.n \in Nat \ {0} /\ o.base \in Nat \ {0}
    BY DEF Placed, WellFormed
  <1>2. CASE o.kind = "striped"
    <2>1. MappingsOf(o) = Stripes(o, 0, o.n) /\ Place(o) = o.base .. o.base + o.n - 1
      BY <1>2 DEF MappingsOf, Place
    <2>2. \A r \in Stripes(o, 0, o.n) : r.addr \in o.base + 0 .. o.base + o.n - 1 /\ r.num_pages = 1
      BY <1>1, StripesAre
    <2>3. \A a \in o.base + 0 .. o.base + o.n - 1 : \E r \in Stripes(o, 0, o.n) : r.addr = a
      BY <1>1, StripesAre
    <2>4. o.base + 0 = o.base
      BY <1>1
    <2>5. \A a \in Place(o) : \E r \in MappingsOf(o) : a \in r.addr .. r.addr + r.num_pages - 1
      <3> SUFFICES ASSUME NEW a \in Place(o)
                   PROVE  \E r \in MappingsOf(o) : a \in r.addr .. r.addr + r.num_pages - 1
        OBVIOUS
      <3>1. PICK r \in MappingsOf(o) : r.addr = a /\ r.num_pages = 1
        BY <2>1, <2>2, <2>3, <2>4
      <3>2. a \in Int
        BY <1>1, <2>1
      <3>3. a \in r.addr .. r.addr + r.num_pages - 1
        BY <3>1, <3>2
      <3> QED
        BY <3>3
    <2> QED
      BY <1>1, <2>1, <2>2, <2>4, <2>5
  <1>3. CASE o.kind = "pool"
    <2> DEFINE r1 == Mapped(o.entries[1], o.base, o.n)
               r2 == Mapped(o.entries[1], o.base + o.n, 1)
    <2>1. MappingsOf(o) = {r1, r2} /\ Place(o) = o.base .. o.base + o.n
      BY <1>1, <1>3 DEF MappingsOf, Place
    <2>2. r1.addr = o.base /\ r1.num_pages = o.n /\ r2.addr = o.base + o.n /\ r2.num_pages = 1
      BY DEF Mapped
    <2> HIDE DEF r1, r2
    <2>3. \A a \in Place(o) : a \in r1.addr .. r1.addr + r1.num_pages - 1 \/ a \in r2.addr .. r2.addr + r2.num_pages - 1
      BY <1>1, <2>1, <2>2
    <2> QED
      BY <1>1, <1>3, <2>1, <2>2, <2>3
  <1>4. CASE o.kind \notin {"striped", "pool"}
    <2> DEFINE r1 == Mapped(o.entries[1], o.base, o.n)
    <2>1. MappingsOf(o) = {r1} /\ Place(o) = o.base .. o.base + o.n - 1
      BY <1>1, <1>4 DEF MappingsOf, Place
    <2>2. r1.addr = o.base /\ r1.num_pages = o.n
      BY DEF Mapped
    <2> HIDE DEF r1
    <2> QED
      BY <1>1, <1>4, <2>1, <2>2
  <1> QED
    BY <1>2, <1>3, <1>4

\* An address is mapped that a mapping covers.
LEMMA MappedAtIs ==
  ASSUME NEW s, NEW a, NEW r \in MapsIn(s), a \in r.addr .. r.addr + r.num_pages - 1
  PROVE  a \in MappedAt(s)
  BY DEF MapsIn, MappedAt

\* All that objects use is mapped.
LEMMA ObjectsAreMapped ==
  ASSUME NEW s, NEW objs, NEW j, MapsIn(s) = Wanted(objs, j), NEW o \in objs, Placed(o)
  PROVE  Place(o) \subseteq MappedAt(s)
  <1> SUFFICES ASSUME NEW a \in Place(o) PROVE a \in MappedAt(s)
    OBVIOUS
  <1>1. PICK r \in MappingsOf(o) : a \in r.addr .. r.addr + r.num_pages - 1
    BY PlaceIs
  <1>2. r \in MapsIn(s)
    BY DEF Wanted, Together
  <1> QED
    BY <1>1, <1>2, MappedAtIs

\* A mapping at an address that no object uses is no object's.
LEMMA NotAnObjects ==
  ASSUME NEW objs, \A o \in objs : Placed(o), NEW r, \A o \in objs : r.addr \notin Place(o)
  PROVE  r \notin Together(objs)
  BY PlaceIs DEF Together

-----------------------------------------------------------------------------
(***************************************************************************)
(* The invariant, step by step.                                            *)
(***************************************************************************)

LEMMA MemoryInit == Init => MemoryInv
  <1> SUFFICES ASSUME Init PROVE MemoryInv
    OBVIOUS
  <1> DEFINE L == Len(build.nodes)
  <1>1. build \in Builds /\ build.nodes \in Seq(Nat) /\ L \in Nat /\ DOMAIN build.nodes = 1 .. L
    BY MicaMemoryAssumption DEF Init
  <1>2. job = None /\ objects = {}
    BY DEF Init
  <1>3. /\ sh.pages = [p \in 1 .. L |->
                         [addr |-> Cardinality({q \in 1 .. p : build.nodes[q] = build.nodes[p]}) <= PagesPerNode,
                          numa_node |-> build.nodes[p], in_use |-> FALSE]]
        /\ sh.entries = [e \in 1 .. MAX_ENTRIES |-> NoEntry]
        /\ sh.mappings = [m \in 1 .. MAX_MAPPINGS |-> NoMapping]
    BY <1>1 DEF Init, mehcached_shm_init
  <1>4. sh \in Shm(L)
    <2>1. NoEntry \in Entry /\ NoMapping \in MapOf
      BY DEF NoEntry, NoMapping, Entry, MapOf
    <2>2. \A p \in 1 .. L : build.nodes[p] \in Nat
      BY <1>1
    <2>3. sh.pages \in [1 .. L -> Page]
      BY <1>3, <2>2 DEF Page
    <2>4. sh = [pages |-> sh.pages, entries |-> sh.entries, mappings |-> sh.mappings]
      BY DEF Init, mehcached_shm_init
    <2> QED
      BY <1>3, <2>1, <2>3, <2>4 DEF Shm
  <1>5. Held(sh) = {} /\ \A m \in 1 .. MAX_MAPPINGS : sh.mappings[m].addr = 0
    BY <1>3 DEF Held, NoEntry, NoMapping
  <1>6. PagesAgree(sh)
    <2>1. \A p \in DOMAIN sh.pages : ~ sh.pages[p].in_use
      BY <1>3
    <2> QED
      BY <1>3, <1>5, <2>1 DEF PagesAgree
  <1>7. \A e : Mapping(sh, e) = {}
    BY <1>5 DEF Mapping
  <1>8. MappingsAgree(sh)
    <2>1. \A e \in 1 .. MAX_ENTRIES : sh.entries[e].refcount = Cardinality(Mapping(sh, e))
      <3>1. \A e \in 1 .. MAX_ENTRIES : sh.entries[e].refcount = 0
        BY <1>3 DEF NoEntry
      <3>2. \A e : Cardinality(Mapping(sh, e)) = 0
        BY <1>7, FS_EmptySet, Zenon
      <3> QED
        BY <3>1, <3>2
    <2> QED
      BY <1>3, <1>5, <1>7, <2>1 DEF MappingsAgree
  <1>9. MapsIn(sh) = {} /\ Unscheduled(sh) = {}
    BY <1>5 DEF MapsIn, Unscheduled
  <1>10. Wanted(objects, job) = {}
    BY <1>2 DEF Wanted, Together, JobMappings
  <1> QED
    BY <1>1, <1>2, <1>4, <1>6, <1>8, <1>9, <1>10
       DEF MemoryInv, InStep, Agrees, JobRight, Pending, Apart

\* What the invariant says of the call under way.
LEMMA JobIs ==
  ASSUME MemoryInv, job # None
  PROVE  /\ job \in Jobs /\ WellFormed(job)
         /\ job.kind \in Kinds /\ job.n \in Nat \ {0} /\ job.entries \in Seq(1 .. MAX_ENTRIES)
         /\ job.base \in Nat /\ job.mapped \in Nat /\ job.cleaned \in Nat
         /\ Len(job.entries) \in 1 .. 2 /\ job.entries[1] \in 1 .. MAX_ENTRIES
         /\ (Len(job.entries) = 1 <=> job.kind # "striped")
         /\ job.kind = "striped" => \A i \in Nat : StripeEntry(i) \in 1 .. MAX_ENTRIES
  <1>1. job \in Jobs /\ WellFormed(job)
    BY DEF MemoryInv, InStep, JobRight
  <1>2. /\ job.kind \in Kinds /\ job.n \in Nat \ {0} /\ job.entries \in Seq(1 .. MAX_ENTRIES)
        /\ job.base \in Nat /\ job.mapped \in Nat /\ job.cleaned \in Nat
    BY <1>1 DEF Jobs
  <1>3. /\ Len(job.entries) \in 1 .. 2 /\ (Len(job.entries) = 1 <=> job.kind # "striped")
        /\ job.kind = "striped" => Len(job.entries) = 2
    BY <1>1 DEF WellFormed
  <1>4. \A k \in 1 .. Len(job.entries) : job.entries[k] \in 1 .. MAX_ENTRIES
    BY <1>2, ElementOfSeq
  <1>5. \A i \in Nat : (i % 2) + 1 \in 1 .. 2
    OBVIOUS
  <1> QED
    BY <1>1, <1>2, <1>3, <1>4, <1>5 DEF StripeEntry

\* Scheduling the removal of all entries of an object.
LEMMA RemovalAgrees ==
  ASSUME NEW L \in Nat, NEW s, Agrees(s, L), NEW entries \in Seq(1 .. MAX_ENTRIES), Len(entries) \in 1 .. 2
  PROVE  LET t == Removal(s, entries)
         IN  /\ Agrees(t, L) /\ MapsIn(t) = MapsIn(s)
             /\ Unscheduled(t) = Unscheduled(s) \ {entries[k] : k \in 1 .. Len(entries)}
  <1>0. \A k \in 1 .. Len(entries) : entries[k] \in 1 .. MAX_ENTRIES
    BY ElementOfSeq
  <1>1. CASE Len(entries) = 1
    <2>1. entries[1] \in 1 .. MAX_ENTRIES /\ {entries[k] : k \in 1 .. Len(entries)} = {entries[1]}
      BY <1>0, <1>1, 1 .. 1 = {1}
    <2> QED
      BY <1>1, <2>1, ScheduleAgrees DEF Removal
  <1>2. CASE Len(entries) = 2
    <2> DEFINE u == mehcached_shm_schedule_remove(s, entries[1])
               t == mehcached_shm_schedule_remove(u, entries[2])
    <2>1. /\ entries[1] \in 1 .. MAX_ENTRIES /\ entries[2] \in 1 .. MAX_ENTRIES
          /\ {entries[k] : k \in 1 .. Len(entries)} = {entries[1], entries[2]}
      BY <1>0, <1>2, 1 .. 2 = {1, 2}
    <2>2. Agrees(u, L) /\ MapsIn(u) = MapsIn(s) /\ Unscheduled(u) = Unscheduled(s) \ {entries[1]}
      BY <2>1, ScheduleAgrees
    <2>3. Agrees(t, L) /\ MapsIn(t) = MapsIn(u) /\ Unscheduled(t) = Unscheduled(u) \ {entries[2]}
      <3> HIDE DEF u
      <3> QED
        BY <2>1, <2>2, ScheduleAgrees
    <2>4. Removal(s, entries) = t
      BY <1>2 DEF Removal
    <2> HIDE DEF u, t
    <2> QED
      BY <2>1, <2>2, <2>3, <2>4
  <1> QED
    BY <1>1, <1>2

\* Nothing that the invariant speaks of changes.
LEMMA MemoryKept ==
  ASSUME MemoryInv, UNCHANGED <<build, sh, job, objects>>
  PROVE  MemoryInv'
  BY DEF MemoryInv

\* A call that looks for an address has no mapping and no place yet.
LEMMA Searching ==
  ASSUME NEW objs, NEW j, j \in Jobs, WellFormed(j), j.at = "map", j.mapped = 0, j.cleaned = 0
  PROVE  /\ Wanted(objs, j) = Wanted(objs, None) /\ JobRight(j)
         /\ Apart(objs, j) <=> Apart(objs, None)
  BY DEF Wanted, JobMappings, JobRight, Apart

\* Between calls.
LEMMA Idle ==
  ASSUME MemoryInv, job = None \/ job.at \in {"clean", "free"}
  PROVE  Unscheduled(sh) = {}
  BY DEF MemoryInv, InStep, Pending

LEMMA Numbers ==
  ASSUME MemoryInv
  PROVE  build \in Builds /\ Len(build.nodes) \in Nat /\ build.kinds \subseteq Kinds
  BY MicaMemoryAssumption DEF MemoryInv

LEMMA EntryPagesIs ==
  ASSUME NEW kind \in Kinds, NEW n \in Sizes
  PROVE  n \in Nat \ {0} /\ EntryPages(kind, n) \in Nat \ {0}
  <1>1. n \in Nat \ {0}
    BY MicaMemoryAssumption
  <1>2. CASE kind = "striped"
    BY <1>1, <1>2 DEF EntryPages
  <1>3. CASE kind = "pool"
    <2> DEFINE enough == {p \in PoolSizes : p >= n}
    <2>1. enough \subseteq Nat /\ enough # {} /\ \A p \in enough : p >= n
      <3>1. PoolSizes \subseteq Nat /\ \E p \in PoolSizes : p >= n
        BY MicaMemoryAssumption, Zenon
      <3> QED
        BY <3>1
    <2>2. EntryPages(kind, n) = Lowest(enough)
      BY <1>3 DEF EntryPages
    <2> HIDE DEF enough
    <2>3. Lowest(enough) \in enough
      BY <2>1, LowestIs
    <2>4. Lowest(enough) \in Nat /\ Lowest(enough) >= n
      BY <2>1, <2>3
    <2> QED
      BY <1>1, <2>2, <2>4
  <1>4. CASE kind \notin {"striped", "pool"}
    BY <1>1, <1>4 DEF EntryPages
  <1> QED
    BY <1>1, <1>2, <1>3, <1>4

LEMMA BeginKeeps ==
  ASSUME MemoryInv, NEW kind \in build.kinds, NEW n \in Sizes, Begin(kind, n)
  PROVE  MemoryInv'
  <1> DEFINE L == Len(build.nodes)
             pages == EntryPages(kind, n)
             e1 == AllocEntry(sh)
             sh1 == mehcached_shm_alloc(sh, pages, 0)
             e2 == AllocEntry(sh1)
             sh2 == mehcached_shm_alloc(sh1, pages, 1)
             size == IF kind = "striped" THEN n + 2 ELSE pages
             made(entries) == [kind |-> kind, at |-> "map", n |-> size, entries |-> entries,
                               base |-> 0, mapped |-> 0, cleaned |-> 0]
  <1>1. /\ kind \in Kinds /\ n \in Nat \ {0} /\ pages \in Nat \ {0} /\ L \in Nat /\ build \in Builds
        /\ size \in Nat \ {0} /\ (kind = "striped" => size >= 2)
    BY Numbers, EntryPagesIs
  <1>2. /\ job = None /\ Unscheduled(sh) = {}
        /\ Agrees(sh, L) /\ MapsIn(sh) = Wanted(objects, None) /\ Apart(objects, None)
        /\ \A o \in objects : Placed(o)
    BY Idle DEF MemoryInv, InStep, Begin
  <1> HIDE DEF pages, L, size
  <1>3. CanAlloc(sh, pages, 0)
    BY DEF Begin, pages
  <1>4. /\ Agrees(sh1, L) /\ MapsIn(sh1) = MapsIn(sh) /\ e1 \in 1 .. MAX_ENTRIES
        /\ Unscheduled(sh1) = {e1}
    BY <1>1, <1>2, <1>3, AllocAgrees
  <1>5. ASSUME NEW entries \in Seq(1 .. MAX_ENTRIES), Len(entries) = IF kind = "striped" THEN 2 ELSE 1,
               NEW s, Agrees(s, L), MapsIn(s) = MapsIn(sh),
               \A e \in Unscheduled(s) : \E k \in 1 .. Len(entries) : e = entries[k],
               sh' = s, job' = made(entries)
        PROVE  MemoryInv'
    <2> DEFINE j == made(entries)
    <2>1. /\ j.kind = kind /\ j.at = "map" /\ j.n = size /\ j.entries = entries /\ j.mapped = 0 /\ j.cleaned = 0
          /\ j \in Jobs
      BY <1>1, <1>5 DEF Jobs
    <2> HIDE DEF j
    <2>2. WellFormed(j) /\ j # None
      BY <1>1, <1>5, <2>1, MicaMemoryAssumption DEF WellFormed
    <2>3. Wanted(objects, j) = Wanted(objects, None) /\ JobRight(j) /\ Apart(objects, j)
      BY <1>2, <2>1, <2>2, Searching
    <2>4. Pending(s, j)
      BY <1>5, <2>1, <2>2 DEF Pending
    <2>5. build' = build /\ objects' = objects /\ job' = j /\ sh' = s
      BY <1>5 DEF Begin, j
    <2>6. InStep(L, s, objects, j)
      BY <1>2, <1>5, <2>3, <2>4 DEF InStep
    <2> QED
      BY <1>1, <2>5, <2>6 DEF MemoryInv, L
  <1> DEFINE Plain == kind # "striped" /\ sh' = sh1 /\ job' = made(<<e1>>)
             Double == kind = "striped" /\ CanAlloc(sh1, pages, 1) /\ sh' = sh2 /\ job' = made(<<e1, e2>>)
             Single == /\ kind = "striped" /\ ~ CanAlloc(sh1, pages, 1)
                       /\ sh' = mehcached_shm_schedule_remove(sh1, e1) /\ job' = None
  <1>6. Plain \/ Double \/ Single
    BY DEF Begin, pages, size
  <1>7. CASE Plain
    <2>1. <<e1>> \in Seq(1 .. MAX_ENTRIES) /\ Len(<<e1>>) = 1 /\ <<e1>>[1] = e1
      BY <1>4
    <2> HIDE DEF sh1, e1
    <2>2. \A e \in Unscheduled(sh1) : \E k \in 1 .. Len(<<e1>>) : e = <<e1>>[k]
      BY <1>4, <2>1
    <2> QED
      BY <1>4, <1>5, <1>7, <2>1, <2>2
  <1>8. CASE Double
    <2>1. /\ Agrees(sh2, L) /\ MapsIn(sh2) = MapsIn(sh1) /\ e2 \in 1 .. MAX_ENTRIES
          /\ Unscheduled(sh2) = Unscheduled(sh1) \union {e2}
      <3> HIDE DEF sh1, e1
      <3> QED
        BY <1>1, <1>4, <1>8, AllocAgrees
    <2> HIDE DEF sh1, sh2, e1, e2
    <2>2. /\ <<e1, e2>> \in Seq(1 .. MAX_ENTRIES) /\ Len(<<e1, e2>>) = 2
          /\ <<e1, e2>>[1] = e1 /\ <<e1, e2>>[2] = e2
      BY <1>4, <2>1
    <2>3. \A e \in Unscheduled(sh2) : \E k \in 1 .. Len(<<e1, e2>>) : e = <<e1, e2>>[k]
      BY <1>4, <2>1, <2>2
    <2> QED
      BY <1>4, <1>5, <1>8, <2>1, <2>2, <2>3
  <1>9. CASE Single
    <2> DEFINE s == mehcached_shm_schedule_remove(sh1, e1)
    <2>1. Agrees(s, L) /\ MapsIn(s) = MapsIn(sh1) /\ Unscheduled(s) = Unscheduled(sh1) \ {e1}
      <3> HIDE DEF sh1, e1
      <3> QED
        BY <1>1, <1>4, ScheduleAgrees
    <2>2. sh' = s /\ job' = None /\ build' = build /\ objects' = objects
      BY <1>9 DEF Begin
    <2> HIDE DEF s, sh1, e1
    <2>3. InStep(L, s, objects, None)
      BY <1>2, <1>4, <2>1 DEF InStep, JobRight, Pending
    <2> QED
      BY <1>1, <2>2, <2>3 DEF MemoryInv, L
  <1> HIDE DEF Plain, Double, Single
  <1> QED
    BY <1>6, <1>7, <1>8, <1>9

\* A call that fails gives back what it has, or stops the program.
LEMMA NoAddressKeeps ==
  ASSUME MemoryInv, NoAddress
  PROVE  MemoryInv'
  <1> DEFINE L == Len(build.nodes)
             s == Removal(sh, job.entries)
  <1>1. build \in Builds /\ L \in Nat /\ job # None /\ job.at = "map"
    BY Numbers DEF NoAddress, At
  <1>2. /\ Agrees(sh, L) /\ MapsIn(sh) = Wanted(objects, job) /\ Apart(objects, job)
        /\ Pending(sh, job) /\ \A o \in objects : Placed(o)
    BY DEF MemoryInv, InStep
  <1>3. CASE MayFail(job.kind)
    <2>1. Agrees(s, L) /\ MapsIn(s) = MapsIn(sh)
          /\ Unscheduled(s) = Unscheduled(sh) \ {job.entries[k] : k \in 1 .. Len(job.entries)}
      <3>1. job.entries \in Seq(1 .. MAX_ENTRIES) /\ Len(job.entries) \in 1 .. 2
        BY <1>1, JobIs
      <3> HIDE DEF L
      <3> QED
        BY <1>1, <1>2, <3>1, RemovalAgrees
    <2>2. sh' = s /\ job' = None /\ build' = build /\ objects' = objects
      BY <1>3 DEF NoAddress
    <2> HIDE DEF s
    <2>3. Unscheduled(s) = {}
      BY <1>2, <2>1 DEF Pending
    <2>4. Wanted(objects, None) = Wanted(objects, job) /\ Apart(objects, None)
      BY <1>1, <1>2 DEF Wanted, JobMappings, Apart
    <2>5. InStep(L, s, objects, None)
      BY <1>2, <2>1, <2>3, <2>4 DEF InStep, JobRight, Pending
    <2> QED
      BY <1>1, <2>2, <2>5 DEF MemoryInv
  <1>4. CASE ~ MayFail(job.kind)
    BY <1>4, MemoryKept DEF NoAddress
  <1> QED
    BY <1>3, <1>4

\* An address that find_free_address returns is free, with all that is asked for.
LEMMA FreeAddressIs ==
  ASSUME MemoryInv, job # None, job.at = "map", NEW base \in FreeAddresses
  PROVE  LET place == base .. base + job.n - (IF job.kind = "pool" THEN 0 ELSE 1)
         IN  /\ base \in Nat \ {0} /\ base \in place
             /\ \A o \in objects : Place(o) \intersect place = {}
             /\ \A r \in MapsIn(sh) : r.addr # base
  <1> DEFINE place == base .. base + job.n - (IF job.kind = "pool" THEN 0 ELSE 1)
  <1>1. /\ MapsIn(sh) = Wanted(objects, job) /\ \A o \in objects : Placed(o)
        /\ job.n \in Nat \ {0} /\ JobMappings(job) = {}
    BY JobIs DEF MemoryInv, InStep, JobMappings
  <1>2. base \in Nat \ {0} /\ place \intersect MappedAt(sh) = {}
    BY MicaMemoryAssumption DEF FreeAddresses
  <1>3. base \in place
    BY <1>1, <1>2
  <1> HIDE DEF place
  <1>4. \A o \in objects : Place(o) \subseteq MappedAt(sh)
    BY <1>1, ObjectsAreMapped
  <1>5. \A r \in MapsIn(sh) : \E o \in objects : r.addr \in Place(o)
    BY <1>1, PlaceIs DEF Wanted, Together
  <1>6. \A o \in objects : Place(o) \intersect place = {}
    BY <1>2, <1>4
  <1>7. \A r \in MapsIn(sh) : r.addr # base
    BY <1>3, <1>5, <1>6
  <1> QED
    BY <1>2, <1>3, <1>6, <1>7 DEF place

\* The object in the making is mapped where nothing else is.
LEMMA MapObjectKeeps ==
  ASSUME MemoryInv, MapObject
  PROVE  MemoryInv'
  <1> DEFINE L == Len(build.nodes)
             e1 == job.entries[1]
  <1>1. /\ build \in Builds /\ L \in Nat /\ job # None /\ job.at = "map" /\ job.kind # "striped"
        /\ CanMap(sh, e1, 0, job.n)
    BY Numbers DEF MapObject, At
  <1>2. /\ Agrees(sh, L) /\ MapsIn(sh) = Wanted(objects, job) /\ Apart(objects, job)
        /\ Pending(sh, job) /\ \A o \in objects : Placed(o)
    BY DEF MemoryInv, InStep
  <1>3. PICK base \in FreeAddresses :
          /\ sh' = mehcached_shm_map(sh, e1, base, job.n)
          /\ job' = [job EXCEPT !.base = base, !.at = IF job.kind = "pool" THEN "alias" ELSE "schedule"]
    BY DEF MapObject
  <1> DEFINE s == mehcached_shm_map(sh, e1, base, job.n)
             j == [job EXCEPT !.base = base, !.at = IF job.kind = "pool" THEN "alias" ELSE "schedule"]
             r == Mapped(e1, base, job.n)
  <1>4. /\ job \in Jobs /\ WellFormed(job) /\ job.n \in Nat \ {0} /\ e1 \in 1 .. MAX_ENTRIES
        /\ job.mapped = 0 /\ job.cleaned = 0
    BY <1>1, JobIs DEF MemoryInv, InStep, JobRight
  <1>5. /\ base \in Nat \ {0} /\ \A q \in MapsIn(sh) : q.addr # base
        /\ \A o \in objects : Place(o) \intersect base .. base + job.n - (IF job.kind = "pool" THEN 0 ELSE 1) = {}
    BY <1>1, FreeAddressIs
  <1>6. e1 \in Held(sh) /\ FreeMappings(sh) # {}
    BY <1>1, <1>4 DEF CanMap, Held
  <1>7. Agrees(s, L) /\ MapsIn(s) = MapsIn(sh) \union {r} /\ Unscheduled(s) = Unscheduled(sh)
    BY <1>1, <1>2, <1>4, <1>5, <1>6, MapAgrees
  <1>8. /\ j \in Jobs /\ j.kind = job.kind /\ j.n = job.n /\ j.entries = job.entries /\ j.base = base
        /\ j.at = IF job.kind = "pool" THEN "alias" ELSE "schedule"
        /\ j.mapped = 0 /\ j.cleaned = 0
    BY <1>4, <1>5 DEF Jobs
  <1> HIDE DEF s, j
  <1>9. WellFormed(j) /\ j # None
    BY <1>4, <1>8, MicaMemoryAssumption DEF WellFormed
  <1>10. JobRight(j)
    BY <1>1, <1>5, <1>8, <1>9 DEF JobRight
  <1>11. JobMappings(job) = {} /\ JobMappings(j) = {r}
    <2>1. Mapped(j.entries[1], j.base, j.n) = r
      BY <1>8
    <2>2. CASE job.kind = "pool"
      BY <1>1, <1>8, <1>9, <2>1, <2>2 DEF JobMappings
    <2>3. CASE job.kind # "pool"
      <3>1. MappingsOf(j) = {r}
        BY <1>1, <1>8, <2>1, <2>3 DEF MappingsOf
      <3> QED
        BY <1>1, <1>8, <1>9, <2>3, <3>1 DEF JobMappings
    <2> QED
      BY <2>2, <2>3
  <1> HIDE DEF r
  <1>12. MapsIn(s) = Wanted(objects, j)
    BY <1>2, <1>7, <1>11 DEF Wanted
  <1>13. Pending(s, j)
    <2>1. j.at \in {"alias", "schedule"}
      BY <1>8
    <2> QED
      BY <1>2, <1>7, <1>8, <1>9, <2>1 DEF Pending
  <1>14. Apart(objects, j)
    <2>1. Place(j) = base .. base + job.n - (IF job.kind = "pool" THEN 0 ELSE 1)
      BY <1>8 DEF Place
    <2> QED
      BY <1>2, <1>5, <2>1 DEF Apart
  <1>15. InStep(L, s, objects, j)
    BY <1>2, <1>7, <1>10, <1>12, <1>13, <1>14 DEF InStep
  <1>16. sh' = s /\ job' = j /\ build' = build /\ objects' = objects
    BY <1>3 DEF MapObject, s, j
  <1> QED
    BY <1>1, <1>15, <1>16 DEF MemoryInv

\* An address of the object in the making that it is not mapped at is free.
LEMMA FreshAddress ==
  ASSUME MemoryInv, job # None, job.at # "map", NEW addr \in Place(job),
         \A r \in JobMappings(job) : r.addr # addr
  PROVE  \A r \in MapsIn(sh) : r.addr # addr
  <1>1. MapsIn(sh) = Wanted(objects, job) /\ \A o \in objects : Placed(o)
    BY DEF MemoryInv, InStep
  <1>2. \A o \in objects : addr \notin Place(o)
    BY DEF MemoryInv, InStep, Apart
  <1>3. \A r \in Together(objects) : r.addr # addr
    <2>1. ASSUME NEW o \in objects, NEW r \in MappingsOf(o) PROVE r.addr # addr
      BY <1>1, <1>2, PlaceIs
    <2> QED
      BY <2>1 DEF Together
  <1> QED
    BY <1>1, <1>3 DEF Wanted

\* What is unmapped of it is none of an object's mappings.
LEMMA DroppedMapping ==
  ASSUME MemoryInv, job # None, job.at # "map", NEW r \in JobMappings(job), r.addr \in Place(job)
  PROVE  /\ r \in MapsIn(sh)
         /\ MapsIn(sh) \ {r} = Together(objects) \union (JobMappings(job) \ {r})
  <1>1. MapsIn(sh) = Wanted(objects, job) /\ \A o \in objects : Placed(o)
    BY DEF MemoryInv, InStep
  <1>2. \A o \in objects : r.addr \notin Place(o)
    BY DEF MemoryInv, InStep, Apart
  <1>3. r \notin Together(objects)
    BY <1>1, <1>2, NotAnObjects
  <1> QED
    BY <1>1, <1>3 DEF Wanted

\* The alias of a pool is behind its end.
LEMMA MapAliasKeeps ==
  ASSUME MemoryInv, MapAlias
  PROVE  MemoryInv'
  <1> DEFINE L == Len(build.nodes)
             e1 == job.entries[1]
             addr == job.base + job.n
             s == mehcached_shm_map(sh, e1, addr, 1)
             j == [job EXCEPT !.at = "schedule"]
             r == Mapped(e1, addr, 1)
             r0 == Mapped(e1, job.base, job.n)
  <1>1. /\ build \in Builds /\ L \in Nat /\ job # None /\ job.at = "alias"
        /\ CanMap(sh, e1, 0, 1)
    BY Numbers DEF MapAlias, At
  <1>2. /\ Agrees(sh, L) /\ MapsIn(sh) = Wanted(objects, job) /\ Apart(objects, job)
        /\ Pending(sh, job) /\ JobRight(job) /\ \A o \in objects : Placed(o)
    BY DEF MemoryInv, InStep
  <1>3. /\ job \in Jobs /\ WellFormed(job) /\ job.n \in Nat \ {0} /\ e1 \in 1 .. MAX_ENTRIES
        /\ job.base \in Nat \ {0} /\ job.kind = "pool"
    BY <1>1, <1>2, JobIs DEF JobRight
  <1>4. JobMappings(job) = {r0} /\ r0.addr = job.base
    BY <1>1 DEF JobMappings, Mapped
  <1>5. addr \in Nat \ {0} /\ addr # job.base /\ addr \in Place(job)
    BY SMTT(30), <1>3 DEF Place
  <1>6. \A q \in MapsIn(sh) : q.addr # addr
    <2> HIDE DEF addr, r0
    <2> QED
      BY <1>1, <1>4, <1>5, FreshAddress
  <1>7. e1 \in Held(sh) /\ FreeMappings(sh) # {}
    BY <1>1, <1>3 DEF CanMap, Held
  <1> HIDE DEF addr
  <1>8. Agrees(s, L) /\ MapsIn(s) = MapsIn(sh) \union {r} /\ Unscheduled(s) = Unscheduled(sh)
    BY <1>1, <1>2, <1>5, <1>6, <1>7, MapAgrees
  <1>9. /\ j \in Jobs /\ j.kind = job.kind /\ j.n = job.n /\ j.entries = job.entries /\ j.base = job.base
        /\ j.at = "schedule" /\ j.mapped = job.mapped /\ j.cleaned = job.cleaned
    BY <1>3 DEF Jobs
  <1> HIDE DEF s, j
  <1>10. WellFormed(j) /\ j # None
    BY <1>3, <1>9, MicaMemoryAssumption DEF WellFormed
  <1>11. JobRight(j)
    BY <1>3, <1>9, <1>10 DEF JobRight
  <1>12. JobMappings(j) = {r0, r}
    BY <1>3, <1>9, <1>10 DEF JobMappings, MappingsOf, addr
  <1> HIDE DEF r, r0
  <1>13. MapsIn(s) = Wanted(objects, j)
    BY <1>2, <1>4, <1>8, <1>12 DEF Wanted
  <1>14. Pending(s, j)
    BY <1>2, <1>8, <1>9, <1>10 DEF Pending
  <1>15. Apart(objects, j)
    <2>1. Place(j) = Place(job)
      BY <1>9 DEF Place
    <2> QED
      BY <1>1, <1>2, <2>1 DEF Apart
  <1>16. InStep(L, s, objects, j)
    BY <1>2, <1>8, <1>11, <1>13, <1>14, <1>15 DEF InStep
  <1>17. sh' = s /\ job' = j /\ build' = build /\ objects' = objects
    BY DEF MapAlias, s, j, addr
  <1> QED
    BY <1>1, <1>16, <1>17 DEF MemoryInv

\* What is left of the state when the loop starts again.
LEMMA AgainIs ==
  ASSUME MemoryInv, job # None
  PROVE  /\ Again \in Jobs /\ WellFormed(Again) /\ Again # None
         /\ Again.at = "map" /\ Again.mapped = 0 /\ Again.cleaned = 0 /\ Again.entries = job.entries
         /\ JobRight(Again) /\ Wanted(objects, Again) = Together(objects)
         /\ Apart(objects, Again)
  <1>1. job \in Jobs /\ WellFormed(job) /\ Apart(objects, job)
    BY JobIs DEF MemoryInv, InStep
  <1>2. /\ Again \in Jobs /\ Again.kind = job.kind /\ Again.n = job.n /\ Again.entries = job.entries
        /\ Again.at = "map" /\ Again.mapped = 0 /\ Again.cleaned = 0
    BY <1>1 DEF Again, Jobs
  <1>3. WellFormed(Again) /\ Again # None
    BY <1>1, <1>2, MicaMemoryAssumption DEF WellFormed
  <1>4. Apart(objects, None)
    BY <1>1 DEF Apart
  <1>5. JobRight(Again) /\ Apart(objects, Again) /\ Wanted(objects, Again) = Wanted(objects, None)
    BY <1>2, <1>3, <1>4, Searching
  <1>6. Wanted(objects, None) = Together(objects)
    BY DEF Wanted, JobMappings
  <1> QED
    BY <1>2, <1>3, <1>5, <1>6

\* A pool without an alias is unmapped, and looks for another address.
LEMMA AliasFailsKeeps ==
  ASSUME MemoryInv, AliasFails
  PROVE  MemoryInv'
  <1> DEFINE L == Len(build.nodes)
             s == mehcached_shm_unmap(sh, job.base)
             r == Mapped(job.entries[1], job.base, job.n)
  <1>1. build \in Builds /\ L \in Nat /\ job # None /\ job.at = "alias"
    BY Numbers DEF AliasFails, At
  <1>2. /\ Agrees(sh, L) /\ Pending(sh, job) /\ JobRight(job) /\ \A o \in objects : Placed(o)
    BY DEF MemoryInv, InStep
  <1>3. JobMappings(job) = {r} /\ r.addr = job.base /\ job.base \in Place(job)
    <2>1. job.base \in Nat /\ job.n \in Nat \ {0}
      BY <1>1, JobIs
    <2> QED
      BY <1>1, <2>1 DEF JobMappings, Mapped, Place
  <1> HIDE DEF r
  <1>4. r \in MapsIn(sh) /\ MapsIn(sh) \ {r} = Together(objects)
    <2>1. r \in JobMappings(job) /\ r.addr \in Place(job) /\ JobMappings(job) \ {r} = {}
      BY <1>3
    <2> QED
      BY <1>1, <2>1, DroppedMapping
  <1>5. Agrees(s, L) /\ MapsIn(s) = MapsIn(sh) \ {r} /\ Unscheduled(s) = Unscheduled(sh)
    <2>1. s = mehcached_shm_unmap(sh, r.addr)
      BY <1>3
    <2> HIDE DEF s, L
    <2> QED
      BY <1>1, <1>2, <1>4, <2>1, UnmapAgrees
  <1> HIDE DEF s
  <1>6. Pending(s, Again)
    BY <1>1, <1>2, <1>5, AgainIs DEF Pending
  <1>7. InStep(L, s, objects, Again)
    BY <1>1, <1>2, <1>4, <1>5, <1>6, AgainIs DEF InStep
  <1>8. sh' = s /\ job' = Again /\ build' = build /\ objects' = objects
    BY DEF AliasFails, s
  <1> QED
    BY <1>1, <1>7, <1>8 DEF MemoryInv

\* An object that is made has the mappings and the place of the call that made it.
LEMMA ObjectIs ==
  ASSUME MemoryInv, job # None, job.at # "map"
  PROVE  /\ Placed(Object) /\ MappingsOf(Object) = MappingsOf(job) /\ Place(Object) = Place(job)
         /\ Object.kind = job.kind /\ Object.n = job.n
         /\ \A o \in objects : Place(o) \intersect Place(Object) = {}
  <1>1. WellFormed(job) /\ job.base \in Nat \ {0} /\ Apart(objects, job)
    BY JobIs DEF MemoryInv, InStep, JobRight
  <1>2. /\ Object.kind = job.kind /\ Object.n = job.n /\ Object.entries = job.entries
        /\ Object.base = job.base
    BY DEF Object
  <1>3. Placed(Object)
    BY <1>1, <1>2 DEF Placed, WellFormed
  <1>4. MappingsOf(Object) = MappingsOf(job) /\ Place(Object) = Place(job)
    BY <1>2 DEF MappingsOf, Stripes, Place
  <1> QED
    BY <1>1, <1>2, <1>3, <1>4 DEF Apart

\* Once it is mapped, an object is there; the removal of its entries is scheduled.
LEMMA MadeKeeps ==
  ASSUME MemoryInv, job # None, job.at # "map", JobMappings(job) = MappingsOf(job),
         sh' = Removal(sh, job.entries), objects' = objects \union {Object}, job' = None, build' = build
  PROVE  MemoryInv'
  <1> DEFINE L == Len(build.nodes)
             s == Removal(sh, job.entries)
             objs == objects \union {Object}
  <1>1. build \in Builds /\ L \in Nat
    BY Numbers
  <1>2. /\ Agrees(sh, L) /\ MapsIn(sh) = Wanted(objects, job) /\ Pending(sh, job)
        /\ Apart(objects, job) /\ \A o \in objects : Placed(o)
    BY DEF MemoryInv, InStep
  <1>3. job.entries \in Seq(1 .. MAX_ENTRIES) /\ Len(job.entries) \in 1 .. 2
    BY JobIs
  <1> HIDE DEF L
  <1>4. /\ Agrees(s, L) /\ MapsIn(s) = MapsIn(sh)
        /\ Unscheduled(s) = Unscheduled(sh) \ {job.entries[k] : k \in 1 .. Len(job.entries)}
    BY <1>1, <1>2, <1>3, RemovalAgrees
  <1> HIDE DEF s
  <1>5. Unscheduled(s) = {}
    BY <1>2, <1>4 DEF Pending
  <1>6. Wanted(objs, None) = Wanted(objects, job)
    <2>1. Together(objs) = Together(objects) \union MappingsOf(Object)
      BY DEF Together
    <2>2. JobMappings(None) = {}
      BY DEF JobMappings
    <2> QED
      BY <2>1, <2>2, ObjectIs DEF Wanted
  <1>7. Apart(objs, None) /\ \A o \in objs : Placed(o)
    BY <1>2, ObjectIs DEF Apart
  <1>8. InStep(L, s, objs, None)
    BY <1>2, <1>4, <1>5, <1>6, <1>7 DEF InStep, JobRight, Pending
  <1> QED
    BY <1>1, <1>8 DEF MemoryInv, L, s

LEMMA ScheduleRemoveKeeps ==
  ASSUME MemoryInv, ScheduleRemove
  PROVE  MemoryInv'
  <1>1. job # None /\ job.at = "schedule"
    BY DEF ScheduleRemove, At
  <1>2. JobMappings(job) = MappingsOf(job)
    BY <1>1 DEF JobMappings
  <1> QED
    BY <1>1, <1>2, MadeKeeps DEF ScheduleRemove

LEMMA StartStripesKeeps ==
  ASSUME MemoryInv, StartStripes
  PROVE  MemoryInv'
  <1> DEFINE L == Len(build.nodes)
  <1>1. build \in Builds /\ L \in Nat /\ job # None /\ job.at = "map" /\ job.kind = "striped"
    BY Numbers DEF StartStripes, At
  <1>2. /\ Agrees(sh, L) /\ MapsIn(sh) = Wanted(objects, job) /\ Apart(objects, job)
        /\ Pending(sh, job) /\ \A o \in objects : Placed(o)
    BY DEF MemoryInv, InStep
  <1>3. PICK base \in FreeAddresses : job' = [job EXCEPT !.base = base, !.at = "stripe"]
    BY DEF StartStripes
  <1> DEFINE j == [job EXCEPT !.base = base, !.at = "stripe"]
  <1>4. /\ job \in Jobs /\ WellFormed(job) /\ job.n \in Nat \ {0}
        /\ job.mapped = 0 /\ job.cleaned = 0
    BY <1>1, JobIs DEF MemoryInv, InStep, JobRight
  <1>5. /\ base \in Nat \ {0}
        /\ \A o \in objects : Place(o) \intersect base .. base + job.n - (IF job.kind = "pool" THEN 0 ELSE 1) = {}
    BY <1>1, FreeAddressIs
  <1>6. /\ j \in Jobs /\ j.kind = job.kind /\ j.n = job.n /\ j.entries = job.entries /\ j.base = base
        /\ j.at = "stripe" /\ j.mapped = 0 /\ j.cleaned = 0
    BY <1>4, <1>5 DEF Jobs
  <1> HIDE DEF j
  <1>7. WellFormed(j) /\ j # None
    BY <1>4, <1>6, MicaMemoryAssumption DEF WellFormed
  <1>8. JobRight(j)
    BY <1>1, <1>4, <1>5, <1>6, <1>7 DEF JobRight
  <1>9. JobMappings(job) = {} /\ JobMappings(j) = {}
    <2>1. JobMappings(j) = Stripes(j, 0, 0)
      BY <1>6, <1>7 DEF JobMappings
    <2>2. Stripes(j, 0, 0) = {}
      BY <1>5, <1>6, StripesAre
    <2> QED
      BY <1>1, <2>1, <2>2 DEF JobMappings
  <1>10. MapsIn(sh) = Wanted(objects, j)
    BY <1>2, <1>9 DEF Wanted
  <1>11. Pending(sh, j)
    BY <1>2, <1>6, <1>7 DEF Pending
  <1>12. Apart(objects, j)
    <2>1. Place(j) = base .. base + job.n - (IF job.kind = "pool" THEN 0 ELSE 1)
      BY <1>6 DEF Place
    <2> QED
      BY <1>2, <1>5, <2>1 DEF Apart
  <1>13. InStep(L, sh, objects, j)
    BY <1>2, <1>8, <1>10, <1>11, <1>12 DEF InStep
  <1>14. sh' = sh /\ job' = j /\ build' = build /\ objects' = objects
    BY <1>3 DEF StartStripes, j
  <1> QED
    BY <1>1, <1>13, <1>14 DEF MemoryInv

\* What the invariant says while pages are mapped or unmapped one by one.
LEMMA StripingIs ==
  ASSUME MemoryInv, job # None, job.at \in {"stripe", "clean", "free"}
  PROVE  /\ job.kind = "striped" /\ job.base \in Nat \ {0} /\ job.n \in Nat \ {0}
         /\ job.mapped \in 0 .. job.n /\ job.cleaned \in 0 .. job.mapped
         /\ job.at # "stripe" => job.cleaned < job.mapped
         /\ job.at = "stripe" => job.cleaned = 0
         /\ JobMappings(job) = Stripes(job, job.cleaned, job.mapped)
         /\ \A i \in 0 .. job.n - 1 : job.base + i \in Place(job)
  <1>1. /\ job \in Jobs /\ WellFormed(job) /\ job.base \in Nat /\ job.n \in Nat \ {0}
        /\ job.mapped \in Nat /\ job.cleaned \in Nat
    BY JobIs
  <1>2. /\ job.base # 0 /\ job.kind = "striped" /\ job.mapped <= job.n
        /\ job.at # "stripe" => job.cleaned < job.mapped
        /\ job.at = "stripe" => job.cleaned = 0
    BY DEF MemoryInv, InStep, JobRight
  <1>3. JobMappings(job) = Stripes(job, job.cleaned, job.mapped)
    BY DEF JobMappings
  <1>4. \A i \in 0 .. job.n - 1 : job.base + i \in Place(job)
    BY <1>1, <1>2, PlaceIs DEF Placed
  <1> QED
    BY <1>1, <1>2, <1>3, <1>4

LEMMA MapStripeKeeps ==
  ASSUME MemoryInv, MapStripe
  PROVE  MemoryInv'
  <1> DEFINE L == Len(build.nodes)
             m == job.mapped
             e == StripeEntry(m)
             addr == job.base + m
             s == mehcached_shm_map(sh, e, addr, 1)
             j == [job EXCEPT !.mapped = m + 1]
             r == Mapped(e, addr, 1)
  <1>1. /\ build \in Builds /\ L \in Nat /\ job # None /\ job.at = "stripe" /\ m < job.n
        /\ CanMap(sh, e, m \div 2, 1)
    BY Numbers DEF MapStripe, At
  <1>2. /\ Agrees(sh, L) /\ MapsIn(sh) = Wanted(objects, job) /\ Apart(objects, job)
        /\ Pending(sh, job) /\ JobRight(job) /\ \A o \in objects : Placed(o)
    BY DEF MemoryInv, InStep
  <1>3. /\ job \in Jobs /\ WellFormed(job) /\ job.n \in Nat \ {0} /\ m \in Nat
        /\ job.base \in Nat \ {0} /\ job.kind = "striped" /\ e \in 1 .. MAX_ENTRIES
        /\ job.cleaned = 0 /\ JobMappings(job) = Stripes(job, 0, m)
    BY <1>1, JobIs, StripingIs
  <1>4. addr \in Nat \ {0} /\ addr \in Place(job)
    BY <1>1, <1>3, StripingIs
  <1>5. \A q \in Stripes(job, 0, m) : q.addr # addr
    <2>1. \A q \in Stripes(job, 0, m) : q.addr \in job.base + 0 .. job.base + m - 1
      BY <1>3, StripesAre
    <2> QED
      BY <1>3, <2>1
  <1> HIDE DEF m, e
  <1>6. Stripes(job, 0, m+1) = Stripes(job, 0, m) \union {r}
    <2>1. r = Mapped(job.entries[(m % 2) + 1], job.base + m, 1)
      BY DEF e, StripeEntry
    <2> HIDE DEF r
    <2> QED
      BY <1>3, <2>1, StripesAre
  <1> HIDE DEF addr
  <1>7. \A q \in MapsIn(sh) : q.addr # addr
    BY <1>1, <1>3, <1>4, <1>5, FreshAddress
  <1>8. e \in Held(sh) /\ FreeMappings(sh) # {}
    BY <1>1, <1>3 DEF CanMap, Held
  <1>9. Agrees(s, L) /\ MapsIn(s) = MapsIn(sh) \union {r} /\ Unscheduled(s) = Unscheduled(sh)
    BY <1>1, <1>2, <1>4, <1>7, <1>8, MapAgrees
  <1>10. /\ j \in Jobs /\ j.kind = job.kind /\ j.n = job.n /\ j.entries = job.entries /\ j.base = job.base
         /\ j.at = "stripe" /\ j.mapped = m + 1 /\ j.cleaned = 0
    BY SMTT(30), <1>1, <1>3 DEF Jobs
  <1> HIDE DEF s, j, r
  <1>11. WellFormed(j) /\ j # None
    BY <1>3, <1>10, MicaMemoryAssumption DEF WellFormed
  <1>12. JobRight(j)
    BY <1>1, <1>3, <1>10, <1>11 DEF JobRight
  <1>13. JobMappings(j) = Stripes(job, 0, m+1)
    BY <1>10, <1>11 DEF JobMappings, Stripes
  <1>14. MapsIn(s) = Wanted(objects, j)
    BY <1>2, <1>3, <1>6, <1>9, <1>13 DEF Wanted
  <1>15. Pending(s, j)
    BY <1>1, <1>2, <1>9, <1>10, <1>11 DEF Pending
  <1>16. Apart(objects, j)
    <2>1. Place(j) = Place(job)
      BY <1>10 DEF Place
    <2> QED
      BY <1>1, <1>2, <2>1 DEF Apart
  <1>17. InStep(L, s, objects, j)
    BY <1>2, <1>9, <1>12, <1>14, <1>15, <1>16 DEF InStep
  <1>18. sh' = s /\ job' = j /\ build' = build /\ objects' = objects
    BY DEF MapStripe, s, j, addr, e, m
  <1> QED
    BY <1>1, <1>17, <1>18 DEF MemoryInv

\* All pages are mapped, or the ones that are have to go: the removal of the
\* entries is scheduled either way.
LEMMA EndStripesKeeps ==
  ASSUME MemoryInv, EndStripes
  PROVE  MemoryInv'
  <1> DEFINE L == Len(build.nodes)
             s == Removal(sh, job.entries)
             j == IF job.mapped = 0 THEN Again ELSE [job EXCEPT !.at = "clean"]
  <1>1. build \in Builds /\ L \in Nat /\ job # None /\ job.at = "stripe"
    BY Numbers DEF EndStripes, At
  <1>2. /\ Agrees(sh, L) /\ MapsIn(sh) = Wanted(objects, job) /\ Apart(objects, job)
        /\ Pending(sh, job) /\ JobRight(job) /\ \A o \in objects : Placed(o)
    BY DEF MemoryInv, InStep
  <1>3. /\ job \in Jobs /\ WellFormed(job) /\ job.kind = "striped" /\ job.base \in Nat \ {0}
        /\ job.mapped \in 0 .. job.n /\ job.cleaned = 0 /\ job.n \in Nat \ {0}
        /\ JobMappings(job) = Stripes(job, 0, job.mapped)
    BY <1>1, JobIs, StripingIs
  <1>4. CASE job.mapped = job.n
    <2>1. JobMappings(job) = MappingsOf(job)
      BY <1>3, <1>4 DEF MappingsOf
    <2> QED
      BY <1>1, <1>4, <2>1, MadeKeeps DEF EndStripes
  <1>5. CASE job.mapped # job.n
    <2>1. job.entries \in Seq(1 .. MAX_ENTRIES) /\ Len(job.entries) \in 1 .. 2
      BY <1>1, JobIs
    <2>2. sh' = s /\ job' = j /\ build' = build /\ objects' = objects
      BY <1>5 DEF EndStripes
    <2> HIDE DEF L
    <2>3. /\ Agrees(s, L) /\ MapsIn(s) = MapsIn(sh)
          /\ Unscheduled(s) = Unscheduled(sh) \ {job.entries[k] : k \in 1 .. Len(job.entries)}
      BY <1>1, <1>2, <2>1, RemovalAgrees
    <2> HIDE DEF s
    <2>4. Unscheduled(s) = {}
      BY <1>2, <2>3 DEF Pending
    <2>5. JobRight(j) /\ Wanted(objects, j) = Wanted(objects, job) /\ Apart(objects, j)
      <3>1. CASE job.mapped = 0
        <4>1. JobMappings(job) = {}
          <5>1. Stripes(job, 0, 0) = {}
            BY <1>3, StripesAre
          <5> QED
            BY <1>3, <3>1, <5>1
        <4>2. j = Again
          BY <3>1
        <4> HIDE DEF j
        <4>3. Wanted(objects, job) = Together(objects)
          BY <4>1 DEF Wanted
        <4> QED
          BY <1>1, <4>2, <4>3, AgainIs
      <3>2. CASE job.mapped # 0
        <4>1. /\ j \in Jobs /\ j.kind = job.kind /\ j.n = job.n /\ j.entries = job.entries
              /\ j.base = job.base /\ j.at = "clean" /\ j.mapped = job.mapped /\ j.cleaned = 0
          BY <1>3, <3>2 DEF Jobs
        <4> HIDE DEF j
        <4>2. WellFormed(j) /\ j # None
          BY <1>3, <4>1, MicaMemoryAssumption DEF WellFormed
        <4>3. JobRight(j)
          BY <1>3, <3>2, <4>1, <4>2 DEF JobRight
        <4>4. JobMappings(j) = JobMappings(job)
          BY <1>3, <4>1, <4>2 DEF JobMappings, Stripes
        <4>5. Place(j) = Place(job)
          BY <4>1 DEF Place
        <4> QED
          BY <1>1, <1>2, <4>3, <4>4, <4>5 DEF Wanted, Apart
      <3> HIDE DEF j
      <3> QED
        BY <3>1, <3>2
    <2> HIDE DEF j
    <2>6. InStep(L, s, objects, j)
      BY <1>2, <2>3, <2>4, <2>5 DEF InStep, Pending
    <2> QED
      BY <1>1, <2>2, <2>6 DEF MemoryInv, L
  <1> QED
    BY <1>4, <1>5

\* The next page goes; after the last one the loop starts again, or the object
\* is free.
LEMMA UnmapStripeKeeps ==
  ASSUME MemoryInv, UnmapStripe
  PROVE  MemoryInv'
  <1> DEFINE L == Len(build.nodes)
             c == job.cleaned
             m == job.mapped
             addr == job.base + c
             s == mehcached_shm_unmap(sh, addr)
             r == Mapped(job.entries[(c % 2) + 1], addr, 1)
             j == IF c + 1 < m THEN [job EXCEPT !.cleaned = @ + 1]
                  ELSE IF job.at = "free" THEN None ELSE Again
  <1>1. build \in Builds /\ L \in Nat /\ job # None /\ job.at \in {"clean", "free"}
    BY Numbers DEF UnmapStripe, At
  <1>2. /\ Agrees(sh, L) /\ MapsIn(sh) = Wanted(objects, job) /\ Apart(objects, job)
        /\ JobRight(job) /\ \A o \in objects : Placed(o)
    BY DEF MemoryInv, InStep
  <1>3. Unscheduled(sh) = {}
    BY <1>1, Idle
  <1>4. /\ job \in Jobs /\ WellFormed(job) /\ job.kind = "striped" /\ job.base \in Nat \ {0}
        /\ job.n \in Nat \ {0} /\ c \in Nat /\ m \in Nat /\ c < m /\ m <= job.n
        /\ JobMappings(job) = Stripes(job, c, m) /\ addr \in Place(job)
    <2>1. job.base + c \in Place(job)
      BY <1>1, StripingIs
    <2> QED
      BY <1>1, <2>1, JobIs, StripingIs
  <1>5. /\ r.addr = addr
        /\ Stripes(job, c+1, m) = Stripes(job, c, m) \ {r} /\ r \in Stripes(job, c, m)
    <2>1. r = Mapped(job.entries[(c % 2) + 1], job.base + c, 1)
      OBVIOUS
    <2>2. r.addr = addr
      BY DEF Mapped
    <2> HIDE DEF r, c, m, addr
    <2> QED
      BY <1>4, <2>1, <2>2, StripesAre DEF addr
  <1> HIDE DEF r, c, m, addr, L
  <1>6. r \in MapsIn(sh) /\ MapsIn(sh) \ {r} = Together(objects) \union Stripes(job, c+1, m)
    <2>1. r \in JobMappings(job) /\ r.addr \in Place(job) /\ JobMappings(job) \ {r} = Stripes(job, c+1, m)
      BY <1>4, <1>5
    <2>2. job.at # "map"
      BY <1>1
    <2> QED
      BY <1>1, <2>1, <2>2, DroppedMapping
  <1>7. Agrees(s, L) /\ MapsIn(s) = MapsIn(sh) \ {r} /\ Unscheduled(s) = {}
    <2>1. s = mehcached_shm_unmap(sh, r.addr)
      BY <1>5
    <2> HIDE DEF s
    <2> QED
      BY <1>1, <1>2, <1>3, <1>6, <2>1, UnmapAgrees
  <1>8. sh' = s /\ job' = j /\ build' = build /\ objects' = objects
    BY DEF UnmapStripe, At, s, j, c, m, addr
  <1> HIDE DEF s
  <1>9. JobRight(j) /\ Apart(objects, j) /\ JobMappings(j) = Stripes(job, c+1, m)
    <2>1. CASE c + 1 < m
      <3>1. j = [job EXCEPT !.cleaned = c + 1]
        BY <2>1 DEF c
      <3>2. /\ j \in Jobs /\ j.kind = job.kind /\ j.n = job.n /\ j.entries = job.entries
            /\ j.base = job.base /\ j.at = job.at /\ j.mapped = m /\ j.cleaned = c + 1
        BY <1>4, <3>1 DEF Jobs, m
      <3> HIDE DEF j
      <3>3. WellFormed(j) /\ j # None
        BY <1>4, <3>2, MicaMemoryAssumption DEF WellFormed
      <3>4. JobRight(j)
        BY <1>1, <1>4, <2>1, <3>2, <3>3 DEF JobRight
      <3>5. JobMappings(j) = Stripes(job, c+1, m)
        BY <1>1, <3>2, <3>3 DEF JobMappings, Stripes
      <3>6. Place(j) = Place(job)
        BY <3>2 DEF Place
      <3> QED
        BY <1>1, <1>2, <3>4, <3>5, <3>6 DEF Apart
    <2>2. CASE ~ (c + 1 < m)
      <3>1. Stripes(job, c+1, m) = {}
        <4>1. c + 1 \in Nat /\ m <= c + 1
          BY <1>4, <2>2
        <4> QED
          BY <1>4, <4>1, StripesAre
      <3>2. CASE job.at = "free"
        <4>1. j = None
          BY <2>2, <3>2
        <4> HIDE DEF j
        <4> QED
          BY <1>2, <3>1, <4>1 DEF JobRight, Apart, JobMappings
      <3>3. CASE job.at # "free"
        <4>1. j = Again
          BY <2>2, <3>3
        <4> HIDE DEF j
        <4>2. JobRight(Again) /\ Apart(objects, Again) /\ Again.at = "map"
          BY <1>1, AgainIs
        <4> QED
          BY <3>1, <4>1, <4>2 DEF JobMappings
      <3> HIDE DEF j
      <3> QED
        BY <3>2, <3>3
    <2> HIDE DEF j
    <2> QED
      BY <2>1, <2>2
  <1> HIDE DEF j
  <1>10. MapsIn(s) = Wanted(objects, j)
    BY <1>6, <1>7, <1>9 DEF Wanted
  <1>11. InStep(L, s, objects, j)
    BY <1>2, <1>7, <1>9, <1>10 DEF InStep, Pending
  <1> QED
    BY <1>1, <1>8, <1>11 DEF MemoryInv, L

\* An object that is freed leaves with its mappings; a striped one is still
\* there to be unmapped.
LEMMA FreeKeeps ==
  ASSUME MemoryInv, Free
  PROVE  MemoryInv'
  <1> DEFINE L == Len(build.nodes)
  <1>1. build \in Builds /\ L \in Nat /\ job = None /\ Unscheduled(sh) = {}
    BY Numbers, Idle DEF Free
  <1>2. /\ Agrees(sh, L) /\ MapsIn(sh) = Wanted(objects, job) /\ Apart(objects, job)
        /\ \A p \in objects : Placed(p)
    BY DEF MemoryInv, InStep
  <1>3. PICK o \in objects :
          /\ IF o.kind = "striped" THEN job' = Freeing(o) /\ UNCHANGED sh
                                   ELSE sh' = FreeObject(o) /\ UNCHANGED job
          /\ objects' = objects \ {o}
    BY DEF Free
  <1> DEFINE objs == objects \ {o}
  <1>4. Placed(o) /\ WellFormed(o) /\ o.base \in Nat \ {0} /\ o.n \in Nat \ {0}
    BY <1>2 DEF Placed, WellFormed
  <1>5. \A p \in objs : Placed(p) /\ Place(p) \intersect Place(o) = {}
    BY <1>2 DEF Apart
  <1>6. MapsIn(sh) = Together(objs) \union MappingsOf(o)
    <2>1. Together(objects) = Together(objs) \union MappingsOf(o)
      BY DEF Together
    <2>2. JobMappings(job) = {}
      BY <1>1 DEF JobMappings
    <2> QED
      BY <1>2, <2>1, <2>2 DEF Wanted
  <1>7. \A r \in MappingsOf(o) : r \notin Together(objs)
    <2> SUFFICES ASSUME NEW r \in MappingsOf(o) PROVE r \notin Together(objs)
      OBVIOUS
    <2>1. r.addr \in Place(o)
      BY <1>4, PlaceIs
    <2>2. \A p \in objs : r.addr \notin Place(p)
      BY <1>5, <2>1
    <2> QED
      BY <1>5, <2>2, NotAnObjects
  <1>8. build' = build /\ objects' = objs
    BY <1>3 DEF Free
  <1> HIDE DEF L, objs
  <1>9. Apart(objs, None) /\ JobMappings(None) = {} /\ JobRight(None)
    BY <1>2 DEF Apart, objs, JobMappings, JobRight
  <1>10. ASSUME NEW s, Agrees(s, L), MapsIn(s) = MapsIn(sh) \ MappingsOf(o), Unscheduled(s) = {},
                sh' = s, job' = None
         PROVE  MemoryInv'
    <2>1. MapsIn(s) = Wanted(objs, None)
      BY <1>6, <1>7, <1>9, <1>10 DEF Wanted
    <2>2. InStep(L, s, objs, None)
      BY <1>5, <1>9, <1>10, <2>1 DEF InStep, Pending
    <2> QED
      BY <1>1, <1>8, <1>10, <2>2 DEF MemoryInv, L
  <1>11. CASE o.kind = "striped"
    <2> DEFINE j == Freeing(o)
    <2>1. /\ j.kind = o.kind /\ j.at = "free" /\ j.n = o.n /\ j.entries = o.entries /\ j.base = o.base
          /\ j.mapped = o.n /\ j.cleaned = 0
      BY DEF Freeing
    <2>2. j \in Jobs
      BY <1>4 DEF Freeing, Jobs, WellFormed
    <2>3. sh' = sh /\ job' = j
      BY <1>3, <1>11
    <2> HIDE DEF j
    <2>4. WellFormed(j) /\ j # None
      BY <1>4, <2>1, <2>2, MicaMemoryAssumption DEF WellFormed
    <2>5. JobRight(j)
      BY <1>4, <1>11, <2>1, <2>2, <2>4 DEF JobRight
    <2>6. JobMappings(j) = MappingsOf(o)
      BY <1>11, <2>1, <2>4 DEF JobMappings, MappingsOf, Stripes
    <2>7. Place(j) = Place(o)
      BY <2>1 DEF Place
    <2>8. Apart(objs, j)
      BY <1>5, <1>9, <2>7 DEF Apart
    <2>9. MapsIn(sh) = Wanted(objs, j)
      BY <1>6, <2>6 DEF Wanted
    <2>10. InStep(L, sh, objs, j)
      BY <1>1, <1>2, <1>5, <2>5, <2>8, <2>9 DEF InStep, Pending
    <2> QED
      BY <1>1, <1>8, <2>3, <2>10 DEF MemoryInv, L
  <1>12. CASE o.kind = "pool"
    <2> DEFINE r1 == Mapped(o.entries[1], o.base, o.n)
               r2 == Mapped(o.entries[1], o.base + o.n, 1)
               u == mehcached_shm_unmap(sh, r1.addr)
               t == mehcached_shm_unmap(u, r2.addr)
    <2>1. MappingsOf(o) = {r1, r2} /\ r1.addr = o.base /\ r2.addr = o.base + o.n
      BY <1>12 DEF MappingsOf, Mapped
    <2>2. r1 # r2
      BY <1>4, <2>1
    <2>3. sh' = t /\ job' = None
      BY <1>1, <1>3, <1>12, <2>1 DEF FreeObject
    <2> HIDE DEF r1, r2
    <2>4. r1 \in MapsIn(sh) /\ r2 \in MapsIn(sh)
      BY <1>6, <2>1
    <2>5. Agrees(u, L) /\ MapsIn(u) = MapsIn(sh) \ {r1} /\ Unscheduled(u) = {}
      BY <1>1, <1>2, <2>4, UnmapAgrees
    <2> HIDE DEF u
    <2>6. Agrees(t, L) /\ MapsIn(t) = MapsIn(u) \ {r2} /\ Unscheduled(t) = {}
      BY <1>1, <2>2, <2>4, <2>5, UnmapAgrees
    <2> HIDE DEF t
    <2>7. MapsIn(t) = MapsIn(sh) \ MappingsOf(o)
      BY <2>1, <2>5, <2>6
    <2> QED
      BY <1>10, <2>3, <2>6, <2>7
  <1>13. CASE o.kind \notin {"striped", "pool"}
    <2> DEFINE r == Mapped(o.entries[1], o.base, o.n)
               t == mehcached_shm_unmap(sh, r.addr)
    <2>1. MappingsOf(o) = {r} /\ r.addr = o.base
      BY <1>13 DEF MappingsOf, Mapped
    <2>2. sh' = t /\ job' = None
      BY <1>1, <1>3, <1>13, <2>1 DEF FreeObject
    <2> HIDE DEF r
    <2>3. r \in MapsIn(sh)
      BY <1>6, <2>1
    <2>4. Agrees(t, L) /\ MapsIn(t) = MapsIn(sh) \ {r} /\ Unscheduled(t) = {}
      BY <1>1, <1>2, <2>3, UnmapAgrees
    <2> HIDE DEF t
    <2> QED
      BY <1>10, <2>1, <2>2, <2>4
  <1> QED
    BY <1>11, <1>12, <1>13

\* Pages, entries, mappings, objects and the call under way stay in step.
LEMMA MemoryStep == MemoryInv /\ [Next]_vars => MemoryInv'
  <1> SUFFICES ASSUME MemoryInv, [Next]_vars PROVE MemoryInv'
    OBVIOUS
  <1>1. ASSUME NEW kind \in build.kinds, NEW n \in Sizes, Begin(kind, n) \/ OutOfMemory(kind, n)
        PROVE  MemoryInv'
    <2>1. CASE Begin(kind, n)
      BY <2>1, BeginKeeps
    <2>2. CASE OutOfMemory(kind, n)
      BY <2>2, MemoryKept DEF OutOfMemory
    <2> QED
      BY <1>1, <2>1, <2>2
  <1>2. CASE NoAddress
    BY <1>2, NoAddressKeeps
  <1>3. CASE MapObject
    BY <1>3, MapObjectKeeps
  <1>4. CASE MapFails
    BY <1>4, MemoryKept DEF MapFails, vars
  <1>5. CASE MapAlias
    BY <1>5, MapAliasKeeps
  <1>6. CASE AliasFails
    BY <1>6, AliasFailsKeeps
  <1>7. CASE ScheduleRemove
    BY <1>7, ScheduleRemoveKeeps
  <1>8. CASE StartStripes
    BY <1>8, StartStripesKeeps
  <1>9. CASE MapStripe
    BY <1>9, MapStripeKeeps
  <1>10. CASE EndStripes
    BY <1>10, EndStripesKeeps
  <1>11. CASE UnmapStripe
    BY <1>11, UnmapStripeKeeps
  <1>12. CASE Free
    BY <1>12, FreeKeeps
  <1>13. ASSUME NEW item_size \in build.items, Allocate(item_size) PROVE MemoryInv'
    BY <1>13, MemoryKept DEF Allocate
  <1>14. CASE Deallocate
    BY <1>14, MemoryKept DEF Deallocate
  <1>15. CASE Reset
    BY <1>15, MemoryKept DEF Reset
  <1>16. CASE UNCHANGED vars
    BY <1>16, MemoryKept DEF vars
  <1> QED
    BY <1>1, <1>2, <1>3, <1>4, <1>5, <1>6, <1>7, <1>8, <1>9, <1>10, <1>11, <1>12, <1>13, <1>14,
       <1>15, <1>16, Zenon DEF Next

\* After any sequence of creations, failures and frees the shared memory is what
\* the objects and the call under way account for: every mapping is one of
\* theirs, and every entry that nothing maps is about to be mapped or scheduled.
THEOREM MemoryInvariant == Spec => []MemoryInv
  BY MemoryInit, MemoryStep, PTL DEF Spec

-----------------------------------------------------------------------------
(***************************************************************************)
(* What a user of the memory sees.                                         *)
(***************************************************************************)

\* The pages in use are those of the entries, no page is two entries', an entry
\* counts its mappings, and none is mapped after it is gone: check_remove frees
\* an entry exactly once, at whatever call takes the last mapping from it.
THEOREM PagesAreOwned == Spec => []PagesOwned
  <1>1. MemoryInv => PagesOwned
    <2> SUFFICES ASSUME MemoryInv PROVE PagesOwned
      OBVIOUS
    <2>1. PagesAgree(sh) /\ MappingsAgree(sh)
      BY DEF MemoryInv, InStep, Agrees
    <2>2. Entries = Held(sh) /\ \A e : Owned(e) = PagesOf(sh, e)
      BY Zenon DEF Entries, Held, Owned, PagesOf
    <2> QED
      BY <2>1, <2>2 DEF PagesAgree, MappingsAgree, PagesOwned
  <1> QED
    BY <1>1, MemoryInvariant, PTL

\* The mappings of an object are of its entries, and each entry has one.
LEMMA EntriesOfIs ==
  ASSUME NEW o, Placed(o)
  PROVE  /\ \A r \in MappingsOf(o) : \E k \in DOMAIN o.entries : r.entry_id = o.entries[k]
         /\ \A k \in DOMAIN o.entries : \E r \in MappingsOf(o) : r.entry_id = o.entries[k]
  <1>1. /\ o.n \in Nat \ {0} /\ o.base \in Nat \ {0} /\ o.entries \in Seq(1 .. MAX_ENTRIES)
        /\ DOMAIN o.entries = 1 .. Len(o.entries)
        /\ Len(o.entries) = (IF o.kind = "striped" THEN 2 ELSE 1)
        /\ (o.kind = "striped" => o.n >= 2)
    BY DEF Placed, WellFormed
  <1>2. CASE o.kind = "striped"
    <2> DEFINE S(i) == Mapped(o.entries[(i % 2) + 1], o.base + i, 1)
    <2>1. MappingsOf(o) = {S(i) : i \in 0 .. o.n - 1}
      BY <1>2 DEF MappingsOf, Stripes
    <2>2. \A i \in 0 .. o.n - 1 : S(i).entry_id = o.entries[(i % 2) + 1] /\ (i % 2) + 1 \in 1 .. 2
      BY <1>1 DEF Mapped
    <2>3. S(0).entry_id = o.entries[1] /\ S(1).entry_id = o.entries[2]
      <3>1. (0 % 2) + 1 = 1 /\ (1 % 2) + 1 = 2
        OBVIOUS
      <3> QED
        BY <3>1 DEF Mapped
    <2> HIDE DEF S
    <2>4. 0 \in 0 .. o.n - 1 /\ 1 \in 0 .. o.n - 1 /\ DOMAIN o.entries = 1 .. 2
      BY <1>1, <1>2
    <2>5. \A k \in 1 .. 2 : k = 1 \/ k = 2
      OBVIOUS
    <2> QED
      BY <2>1, <2>2, <2>3, <2>4, <2>5
  <1>3. CASE o.kind # "striped"
    <2>1. \A r \in MappingsOf(o) : r.entry_id = o.entries[1]
      BY <1>3 DEF MappingsOf, Mapped
    <2>2. MappingsOf(o) # {} /\ DOMAIN o.entries = {1}
      BY <1>1, <1>3, 1 .. 1 = {1} DEF MappingsOf
    <2> QED
      BY <2>1, <2>2
  <1> QED
    BY <1>2, <1>3

\* All of an object is mapped until it is freed, and apart from every other one;
\* between calls every entry is an object's. Scheduling the removal of an entry
\* right after it is mapped takes nothing from its object, and no failed mmap,
\* at whatever page, leaves memory behind.
THEOREM ObjectsStayMapped == Spec => []ObjectsMapped
  <1>1. MemoryInv => ObjectsMapped
    <2> SUFFICES ASSUME MemoryInv PROVE ObjectsMapped
      OBVIOUS
    <2> DEFINE EntriesOf(o) == {o.entries[k] : k \in DOMAIN o.entries}
    <2>1. /\ MapsIn(sh) = Wanted(objects, job) /\ \A o \in objects : Placed(o)
          /\ MappingsAgree(sh) /\ sh \in Shm(Len(build.nodes)) /\ Apart(objects, job)
      BY DEF MemoryInv, InStep, Agrees
    <2>2. Entries = Held(sh) /\ Held(sh) \subseteq 1 .. MAX_ENTRIES
      BY DEF Entries, Held
    <2>3. \A o \in objects : Place(o) \subseteq MappedAt(sh)
      BY <2>1, ObjectsAreMapped
    <2>4. \A o, p \in objects : o # p => Place(o) \intersect Place(p) = {}
      BY <2>1 DEF Apart
    <2>5. \A r \in MapsIn(sh) : r.entry_id \in Held(sh)
      <3> SUFFICES ASSUME NEW m \in 1 .. MAX_MAPPINGS, sh.mappings[m].addr # 0
                   PROVE  sh.mappings[m].entry_id \in Held(sh)
        BY DEF MapsIn
      <3>1. sh.mappings[m].entry_id \in 1 .. MAX_ENTRIES
        BY <2>1 DEF MappingsAgree
      <3>2. m \in Mapping(sh, sh.mappings[m].entry_id)
        BY DEF Mapping
      <3> QED
        BY <2>1, <3>1, <3>2 DEF MappingsAgree
    <2>6. \A o \in objects : \A k \in DOMAIN o.entries : o.entries[k] \in Held(sh)
      <3> SUFFICES ASSUME NEW o \in objects, NEW k \in DOMAIN o.entries
                   PROVE  o.entries[k] \in Held(sh)
        OBVIOUS
      <3>1. PICK r \in MappingsOf(o) : r.entry_id = o.entries[k]
        BY <2>1, EntriesOfIs
      <3>2. r \in MapsIn(sh)
        BY <2>1 DEF Wanted, Together
      <3> QED
        BY <2>5, <3>1, <3>2
    <2>7. ASSUME job = None, NEW e \in Held(sh)
          PROVE  \E o \in objects : \E k \in DOMAIN o.entries : e = o.entries[k]
      <3>1. sh.entries[e].refcount # 0
        <4>1. sh.entries[e].to_remove
          BY <2>7, Idle DEF Unscheduled
        <4> QED
          BY <2>1, <4>1 DEF MappingsAgree
      <3>2. Mapping(sh, e) # {}
        <4>1. Cardinality(Mapping(sh, e)) # 0
          BY <2>1, <2>2, <3>1 DEF MappingsAgree
        <4> QED
          BY <4>1, FS_EmptySet
      <3>3. PICK r \in MapsIn(sh) : r.entry_id = e
        BY <3>2 DEF Mapping, MapsIn
      <3>4. JobMappings(job) = {}
        BY <2>7 DEF JobMappings
      <3>5. PICK o \in objects : r \in MappingsOf(o)
        BY <2>1, <3>3, <3>4 DEF Wanted, Together
      <3>6. PICK k \in DOMAIN o.entries : r.entry_id = o.entries[k]
        BY <2>1, <3>5, EntriesOfIs
      <3> QED
        BY <3>3, <3>5, <3>6
    <2>8. job = None => Held(sh) = UNION {EntriesOf(o) : o \in objects}
      BY <2>6, <2>7
    <2> QED
      BY <2>2, <2>3, <2>4, <2>6, <2>8 DEF ObjectsMapped
  <1> QED
    BY <1>1, MemoryInvariant, PTL

-----------------------------------------------------------------------------
(***************************************************************************)
(* The chunks: f says where they start and how large they are.             *)
(***************************************************************************)

\* The n words are cut into chunks, from the first to the last.
Cut(f, n) ==
  /\ f = [c \in DOMAIN f |-> f[c]] /\ DOMAIN f \subseteq 0 .. n-1 /\ 0 \in DOMAIN f
  /\ \A c \in DOMAIN f : f[c] \in Nat /\ f[c] >= MIN_SIZE /\ c + f[c] \in DOMAIN f \union {n}
  /\ \A c, e \in DOMAIN f : c < e => c + f[c] <= e
  /\ \A b \in DOMAIN f \union {n} : b # 0 => \E c \in DOMAIN f : b = c + f[c]

\* A chunk with the next one; a chunk in two, of which the first has m words.
Joined(f, a) == [c \in DOMAIN f \ {a + f[a]} |-> IF c = a THEN f[a] + f[a + f[a]] ELSE f[c]]

Split(f, a, m) ==
  [c \in DOMAIN f \union {a + m} |-> IF c = a THEN m ELSE IF c = a + m THEN f[a] - m ELSE f[c]]

LEMMA CutIs ==
  ASSUME NEW n \in Nat, NEW f, Cut(f, n), NEW c \in DOMAIN f
  PROVE  /\ c \in Nat /\ f[c] \in Nat /\ f[c] >= MIN_SIZE /\ f[c] > 0 /\ c + f[c] <= n
         /\ c \in 0 .. n-1 /\ c + f[c] - 1 \in c .. n-1 /\ c + f[c] \in DOMAIN f \union {n}
  <1>1. c \in 0 .. n-1 /\ f[c] \in Nat /\ f[c] >= MIN_SIZE /\ c + f[c] \in DOMAIN f \union {n}
    BY DEF Cut
  <1>2. c + f[c] <= n
    BY <1>1 DEF Cut
  <1> QED
    BY <1>1, <1>2, DynamicAssumption

LEMMA JoinedIsCut ==
  ASSUME NEW n \in Nat, NEW f, Cut(f, n), NEW a \in DOMAIN f, a + f[a] \in DOMAIN f
  PROVE  Cut(Joined(f, a), n)
  <1> DEFINE b == a + f[a]
             g == Joined(f, a)
  <1>1. a \in Nat /\ f[a] \in Nat /\ f[a] > 0 /\ f[b] \in Nat /\ f[b] >= MIN_SIZE /\ b \in Nat /\ b > a
        /\ f[a] >= MIN_SIZE /\ b + f[b] <= n /\ b + f[b] \in DOMAIN f \union {n} /\ b + f[b] > b
    BY CutIs
  <1>2. /\ DOMAIN g = DOMAIN f \ {b} /\ a \in DOMAIN g /\ g[a] = f[a] + f[b] /\ a + g[a] = b + f[b]
        /\ \A c \in DOMAIN g : c # a => g[c] = f[c]
    BY <1>1 DEF Joined
  <1>3. g = [c \in DOMAIN g |-> g[c]]
    BY DEF Joined
  <1> HIDE DEF g
  <1>4. ASSUME NEW c \in DOMAIN f, c # a PROVE c + f[c] # b
    <2>1. c < a \/ a < c
      BY <1>1, <1>4 DEF Cut
    <2>2. CASE c < a
      BY <1>1, <2>2, CutIs DEF Cut
    <2>3. CASE a < c
      BY <1>1, <2>3, CutIs DEF Cut
    <2> QED
      BY <2>1, <2>2, <2>3
  <1>5. ASSUME NEW c \in DOMAIN g
        PROVE  g[c] \in Nat /\ g[c] >= MIN_SIZE /\ c + g[c] \in DOMAIN g \union {n}
    <2>1. CASE c = a
      BY <1>1, <1>2, <2>1, DynamicAssumption
    <2>2. CASE c # a
      BY <1>2, <1>4, <2>2, CutIs
    <2> QED
      BY <2>1, <2>2
  <1>6. ASSUME NEW c \in DOMAIN g, NEW e \in DOMAIN g, c < e PROVE c + g[c] <= e
    <2>1. c \in DOMAIN f /\ e \in DOMAIN f /\ e # b /\ c \in Nat /\ e \in Nat
      BY <1>2, CutIs
    <2>2. CASE c = a
      <3>1. a + f[a] <= e
        BY <1>6, <2>1, <2>2 DEF Cut
      <3>2. b < e
        BY <1>1, <2>1, <3>1
      <3>3. b + f[b] <= e
        BY <2>1, <3>2 DEF Cut
      <3> QED
        BY <1>2, <2>2, <3>3
    <2>3. CASE c # a
      BY <1>2, <1>6, <2>1, <2>3 DEF Cut
    <2> QED
      BY <2>2, <2>3
  <1>7. ASSUME NEW x \in DOMAIN g \union {n}, x # 0 PROVE \E c \in DOMAIN g : x = c + g[c]
    <2>1. x \in DOMAIN f \union {n} /\ x # b
      BY <1>1, <1>2
    <2>2. PICK c \in DOMAIN f : x = c + f[c]
      BY <1>7, <2>1 DEF Cut
    <2>3. CASE c = b
      BY <1>2, <2>2, <2>3
    <2>4. CASE c # b
      <3>1. c # a
        BY <2>1, <2>2
      <3> QED
        BY <1>2, <2>2, <2>4, <3>1
    <2> QED
      BY <2>3, <2>4
  <1>8. DOMAIN g \subseteq 0 .. n-1 /\ 0 \in DOMAIN g
    BY <1>1, <1>2 DEF Cut
  <1> QED
    BY <1>3, <1>5, <1>6, <1>7, <1>8 DEF Cut, g

LEMMA SplitIsCut ==
  ASSUME NEW n \in Nat, NEW f, Cut(f, n), NEW a \in DOMAIN f, NEW m \in Nat,
         m >= MIN_SIZE, f[a] - m >= MIN_SIZE
  PROVE  Cut(Split(f, a, m), n) /\ a + m \notin DOMAIN f /\ a + m \in a+1 .. a + f[a] - 1
  <1> DEFINE b == a + m
             g == Split(f, a, m)
  <1>1. a \in Nat /\ f[a] \in Nat /\ b \in Nat /\ a < b /\ b < a + f[a] /\ f[a] - m \in Nat /\ m \in Nat
        /\ a + f[a] <= n /\ a + f[a] \in DOMAIN f \union {n}
    BY CutIs, DynamicAssumption
  <1>2. b \notin DOMAIN f
    <2>1. SUFFICES ASSUME b \in DOMAIN f PROVE FALSE
      OBVIOUS
    <2>2. a + f[a] <= b
      BY <1>1, <2>1 DEF Cut
    <2> QED
      BY <1>1, <2>2
  <1>3. /\ DOMAIN g = DOMAIN f \union {b} /\ g[a] = m /\ a + g[a] = b /\ g[b] = f[a] - m /\ b + g[b] = a + f[a]
        /\ \A c \in DOMAIN f : c # a => g[c] = f[c]
    BY <1>1, <1>2 DEF Split
  <1>4. g = [c \in DOMAIN g |-> g[c]]
    BY DEF Split
  <1> HIDE DEF g
  <1>5. ASSUME NEW c \in DOMAIN g
        PROVE  g[c] \in Nat /\ g[c] >= MIN_SIZE /\ c + g[c] \in DOMAIN g \union {n}
    <2>1. CASE c = a
      BY <1>1, <1>3, <2>1
    <2>2. CASE c = b
      BY <1>1, <1>3, <2>2
    <2>3. CASE c # a /\ c # b
      BY <1>3, <2>3, CutIs
    <2> QED
      BY <2>1, <2>2, <2>3
  <1>6. ASSUME NEW c \in DOMAIN g, NEW e \in DOMAIN g, c < e PROVE c + g[c] <= e
    <2>1. CASE c = b
      <3>1. e \in DOMAIN f /\ a < e /\ e \in Nat
        BY <1>1, <1>3, <1>6, <2>1, CutIs
      <3> QED
        BY <1>3, <2>1, <3>1 DEF Cut
    <2>2. CASE c = a /\ e = b
      BY <1>1, <1>3, <2>2
    <2>3. CASE c = a /\ e # b
      <3>1. e \in DOMAIN f /\ a + f[a] <= e /\ e \in Nat
        BY <1>3, <1>6, <2>3, CutIs DEF Cut
      <3> QED
        BY <1>1, <1>3, <2>3, <3>1
    <2>4. CASE c # a /\ c # b /\ e = b
      <3>1. c \in DOMAIN f /\ c \in Nat /\ g[c] = f[c] /\ c < b /\ f[c] \in Nat
        BY <1>3, <1>6, <2>4, CutIs
      <3>2. ~ (a < c)
        BY <1>1, <3>1 DEF Cut
      <3>3. c + f[c] <= a
        BY <1>1, <2>4, <3>1, <3>2 DEF Cut
      <3> QED
        BY <1>1, <2>4, <3>1, <3>3
    <2>5. CASE c # a /\ c # b /\ e # b
      BY <1>3, <1>6, <2>5 DEF Cut
    <2> QED
      BY <2>1, <2>2, <2>3, <2>4, <2>5
  <1>7. ASSUME NEW x \in DOMAIN g \union {n}, x # 0 PROVE \E c \in DOMAIN g : x = c + g[c]
    <2>1. CASE x = b
      BY <1>3, <2>1
    <2>2. CASE x # b
      <3>1. PICK c \in DOMAIN f : x = c + f[c]
        BY <1>3, <1>7, <2>2 DEF Cut
      <3>2. CASE c = a
        BY <1>3, <3>1, <3>2
      <3>3. CASE c # a
        BY <1>3, <3>1, <3>3
      <3> QED
        BY <3>2, <3>3
    <2> QED
      BY <2>1, <2>2
  <1>8. DOMAIN g \subseteq 0 .. n-1 /\ 0 \in DOMAIN g
    BY <1>1, <1>3 DEF Cut
  <1> QED
    BY <1>1, <1>2, <1>4, <1>5, <1>6, <1>7, <1>8 DEF Cut, g

-----------------------------------------------------------------------------
(***************************************************************************)
(* The heap: what the words hold.  F are the chunks on the free lists, X   *)
(* those whose tags have yet to be written.                                *)
(***************************************************************************)
IsMemory(d) ==
  /\ d = [size |-> d.size, tag |-> d.tag, prev |-> d.prev, next |-> d.next, free_head |-> d.free_head]
  /\ d.size \in Nat
  /\ d.tag = [i \in 0 .. d.size-1 |-> d.tag[i]]
  /\ d.prev = [i \in 0 .. d.size-1 |-> d.prev[i]]
  /\ d.next = [i \in 0 .. d.size-1 |-> d.next[i]]
  /\ d.free_head = [k \in Classes |-> d.free_head[k]]

TagOf(size, status) == [size |-> size, status |-> status]

\* Both tags of a chunk say how large it is and whether it is on a list.
TagsAgree(d, f, F, X) ==
  \A c \in DOMAIN f \ X :
    /\ d.tag[c] = TagOf(f[c], IF c \in F THEN "free" ELSE "occupied")
    /\ d.tag[c + f[c] - 1] = d.tag[c]

ClassOf(f, c) == size_to_class_rounddown(f[c])

\* The chunks of F are on the list of their class; pos counts from its head.
OnLists(d, f, F, pos) ==
  /\ F \subseteq DOMAIN f
  /\ \A c \in F : pos[c] \in Nat
  /\ \A k \in Classes : LET h == d.free_head[k] IN h # NULL => h \in F /\ ClassOf(f, h) = k /\ pos[h] = 0
  /\ \A c \in F : pos[c] = 0 => d.prev[c] = NULL /\ d.free_head[ClassOf(f, c)] = c
  /\ \A c \in F : LET p == d.prev[c]
                  IN  pos[c] # 0 => p \in F /\ ClassOf(f, p) = ClassOf(f, c) /\ pos[p] = pos[c] - 1 /\ d.next[p] = c
  /\ \A c \in F : LET n == d.next[c]
                  IN  n # NULL => n \in F /\ ClassOf(f, n) = ClassOf(f, c) /\ pos[n] = pos[c] + 1 /\ d.prev[n] = c
  /\ \A c, e \in F : ClassOf(f, c) = ClassOf(f, e) /\ pos[c] = pos[e] => c = e

LEMMA ClassIs ==
  ASSUME NEW n \in Nat, NEW f, Cut(f, n), NEW c \in DOMAIN f
  PROVE  ClassOf(f, c) \in Classes
  <1>1. f[c] \in Nat /\ f[c] >= MIN_SIZE
    BY CutIs
  <1> DEFINE x == f[c] - MIN_SIZE
  <1>2. x \in Nat
    BY <1>1, DynamicAssumption
  <1>3. CASE f[c] < MIN_SIZE + NUM_CLASSES * CLASS_INCREMENT
    <2>1. NUM_CLASSES * CLASS_INCREMENT \in Nat
      BY DynamicAssumption
    <2>2. x < NUM_CLASSES * CLASS_INCREMENT
      BY <1>1, <1>3, <2>1, DynamicAssumption
    <2> HIDE DEF x
    <2> DEFINE q == x \div CLASS_INCREMENT
    <2>3. q \in Nat /\ q * CLASS_INCREMENT <= x
      BY <1>2, DynamicAssumption, DivBounds
    <2> HIDE DEF q
    <2>4. q < NUM_CLASSES
      <3>1. SUFFICES ASSUME q >= NUM_CLASSES PROVE FALSE
        BY <2>3, DynamicAssumption
      <3>2. NUM_CLASSES * CLASS_INCREMENT <= q * CLASS_INCREMENT
        BY <2>3, <3>1, DynamicAssumption, MulMono
      <3>3. q * CLASS_INCREMENT \in Nat
        BY <2>3, DynamicAssumption
      <3> QED
        BY <1>2, <2>1, <2>2, <2>3, <3>2, <3>3
    <2>5. ClassOf(f, c) = q
      BY <1>3 DEF ClassOf, size_to_class_rounddown, q, x
    <2> QED
      BY <2>3, <2>4, <2>5, DynamicAssumption DEF Classes
  <1>4. CASE ~ (f[c] < MIN_SIZE + NUM_CLASSES * CLASS_INCREMENT)
    BY <1>4, DynamicAssumption DEF ClassOf, size_to_class_rounddown, Classes
  <1> QED
    BY <1>3, <1>4

\* Starts and last words of chunks.
LEMMA Words ==
  ASSUME NEW d, IsMemory(d), NEW f, Cut(f, d.size), NEW c \in DOMAIN f
  PROVE  /\ c \in DOMAIN d.tag /\ c \in DOMAIN d.prev /\ c \in DOMAIN d.next
         /\ c + f[c] - 1 \in DOMAIN d.tag /\ c \in Nat /\ c # NULL
         /\ DOMAIN d.tag = 0 .. d.size-1 /\ DOMAIN d.prev = 0 .. d.size-1 /\ DOMAIN d.next = 0 .. d.size-1
  <1>1. d.size \in Nat /\ DOMAIN d.tag = 0 .. d.size-1 /\ DOMAIN d.prev = 0 .. d.size-1 /\ DOMAIN d.next = 0 .. d.size-1
    BY DEF IsMemory
  <1>2. c \in 0 .. d.size-1 /\ c + f[c] - 1 \in c .. d.size-1
    BY <1>1, CutIs
  <1> QED
    BY <1>1, <1>2 DEF NULL

\* Words of other chunks are outside.
LEMMA Outside ==
  ASSUME NEW n \in Nat, NEW f, Cut(f, n), NEW a \in DOMAIN f, NEW c \in DOMAIN f, c # a
  PROVE  /\ c \notin a .. a + f[a] - 1 /\ c + f[c] - 1 \notin a .. a + f[a] - 1
         /\ a + f[a] - 1 # c /\ c + f[c] - 1 # a
  <1>1. a \in Nat /\ f[a] \in Nat /\ c \in Nat /\ f[c] \in Nat /\ f[a] > 0 /\ f[c] > 0
    BY CutIs
  <1>2. CASE c < a
    <2>1. c + f[c] <= a
      BY <1>2 DEF Cut
    <2> QED
      BY <1>1, <1>2, <2>1
  <1>3. CASE a < c
    <2>1. a + f[a] <= c
      BY <1>3 DEF Cut
    <2> QED
      BY <1>1, <1>3, <2>1
  <1> QED
    BY <1>1, <1>2, <1>3

\* Writing the tags of a chunk leaves those of the others and their links.
LEMMA TaggedIs ==
  ASSUME NEW d, IsMemory(d), NEW f, Cut(f, d.size), NEW a \in DOMAIN f, NEW status
  PROVE  LET t == Tagged(d, a, f[a], status)
         IN  /\ IsMemory(t) /\ t.size = d.size /\ t.free_head = d.free_head
             /\ t.tag[a] = TagOf(f[a], status) /\ t.tag[a + f[a] - 1] = TagOf(f[a], status)
             /\ \A c \in DOMAIN f \ {a} : /\ t.tag[c] = d.tag[c] /\ t.tag[c + f[c] - 1] = d.tag[c + f[c] - 1]
                                          /\ t.prev[c] = d.prev[c] /\ t.next[c] = d.next[c]
  <1> DEFINE t == Tagged(d, a, f[a], status)
             last == a + f[a] - 1
  <1>1. /\ d.size \in Nat /\ DOMAIN d.tag = 0 .. d.size-1 /\ DOMAIN d.prev = 0 .. d.size-1
        /\ DOMAIN d.next = 0 .. d.size-1
    BY DEF IsMemory
  <1>2. /\ t.tag = [i \in 0 .. d.size-1 |-> IF i \in {a, last} THEN TagOf(f[a], status)
                                            ELSE IF i \in a .. last THEN Garbage ELSE d.tag[i]]
        /\ t.prev = [i \in 0 .. d.size-1 |-> IF i \in a .. last THEN NULL ELSE d.prev[i]]
        /\ t.next = [i \in 0 .. d.size-1 |-> IF i \in a .. last THEN NULL ELSE d.next[i]]
        /\ t.size = d.size /\ t.free_head = d.free_head
        /\ t = [size |-> t.size, tag |-> t.tag, prev |-> t.prev, next |-> t.next, free_head |-> t.free_head]
    <2>1. d = [size |-> d.size, tag |-> d.tag, prev |-> d.prev, next |-> d.next, free_head |-> d.free_head]
      BY DEF IsMemory
    <2>2. DOMAIN d = {"size", "tag", "prev", "next", "free_head"}
      BY <2>1
    <2>3. t.tag = [i \in 0 .. d.size-1 |-> IF i \in {a, last} THEN TagOf(f[a], status)
                                            ELSE IF i \in a .. last THEN Garbage ELSE d.tag[i]]
      BY <1>1, <2>2 DEF Tagged, TagOf
    <2>4. /\ t.prev = [i \in 0 .. d.size-1 |-> IF i \in a .. last THEN NULL ELSE d.prev[i]]
          /\ t.next = [i \in 0 .. d.size-1 |-> IF i \in a .. last THEN NULL ELSE d.next[i]]
      BY <1>1, <2>2 DEF Tagged
    <2>5. t.size = d.size /\ t.free_head = d.free_head /\ DOMAIN t = DOMAIN d
      BY <2>2 DEF Tagged
    <2>6. t = [x \in {"size", "tag", "prev", "next", "free_head"} |-> t[x]]
      BY <2>2 DEF Tagged
    <2>7. t = [size |-> t.size, tag |-> t.tag, prev |-> t.prev, next |-> t.next, free_head |-> t.free_head]
      <3> HIDE DEF t
      <3> QED
        BY <2>6
    <2> QED
      BY <2>3, <2>4, <2>5, <2>7
  <1> HIDE DEF t
  <1>3. IsMemory(t)
    BY <1>1, <1>2 DEF IsMemory
  <1>4. t.tag[a] = TagOf(f[a], status) /\ t.tag[last] = TagOf(f[a], status)
    BY <1>1, <1>2, Words
  <1>5. ASSUME NEW c \in DOMAIN f \ {a}
        PROVE  /\ t.tag[c] = d.tag[c] /\ t.tag[c + f[c] - 1] = d.tag[c + f[c] - 1]
               /\ t.prev[c] = d.prev[c] /\ t.next[c] = d.next[c]
    <2>1. c \in 0 .. d.size-1 /\ c + f[c] - 1 \in 0 .. d.size-1
      BY <1>1, Words
    <2>2. c \notin a .. last /\ c + f[c] - 1 \notin a .. last /\ c # last /\ c + f[c] - 1 # a
      BY <1>1, Outside
    <2>3. c # a /\ c + f[c] - 1 # last
      <3>1. last \in a .. last
        BY <1>1, CutIs
      <3> QED
        BY <2>2, <3>1
    <2> QED
      BY <1>2, <2>1, <2>2, <2>3
  <1> QED
    BY <1>2, <1>3, <1>4, <1>5 DEF t

\* What follows the chunk at a place of a list.
LEMMA NextOnList ==
  ASSUME NEW d, NEW f, NEW F, NEW pos, OnLists(d, f, F, pos), NEW c \in F, NEW e \in F,
         ClassOf(f, e) = ClassOf(f, c), pos[e] = pos[c] + 1
  PROVE  e = d.next[c]
  <1>1. pos[c] \in Nat /\ pos[e] # 0
    BY DEF OnLists
  <1>2. d.prev[e] \in F /\ ClassOf(f, d.prev[e]) = ClassOf(f, e) /\ pos[d.prev[e]] = pos[e] - 1 /\ d.next[d.prev[e]] = e
    BY <1>1 DEF OnLists
  <1>3. pos[d.prev[e]] = pos[c]
    BY <1>1, <1>2
  <1>4. d.prev[e] = c
    BY <1>2, <1>3 DEF OnLists
  <1> QED
    BY <1>2, <1>4

\* The chunk after the one that goes takes its place.
LEMMA RemoveIs ==
  ASSUME NEW d, IsMemory(d), NEW f, Cut(f, d.size), NEW F, NEW pos, OnLists(d, f, F, pos), NEW c \in F
  PROVE  LET t == remove_free_chunk_from_free_list(d, c, f[c])
         IN  /\ IsMemory(t) /\ t.size = d.size /\ t.tag = d.tag
             /\ \E q : OnLists(t, f, F \ {c}, q)
  <1> DEFINE t == remove_free_chunk_from_free_list(d, c, f[c])
             p == d.prev[c]
             x == d.next[c]
             K == ClassOf(f, c)
             G == F \ {c}
             q == [e \in G |-> IF ClassOf(f, e) = K /\ pos[e] > pos[c] THEN pos[e] - 1 ELSE pos[e]]
  <1>1. /\ d.size \in Nat /\ DOMAIN d.prev = 0 .. d.size-1 /\ DOMAIN d.next = 0 .. d.size-1
        /\ DOMAIN d.free_head = Classes
    BY DEF IsMemory
  <1>2. /\ t.next = [i \in 0 .. d.size-1 |-> IF i = p THEN x ELSE d.next[i]]
        /\ t.prev = [i \in 0 .. d.size-1 |-> IF i = x THEN p ELSE d.prev[i]]
        /\ t.free_head = [k \in Classes |-> IF p = NULL /\ k = K THEN x ELSE d.free_head[k]]
        /\ t.size = d.size /\ t.tag = d.tag
        /\ t = [size |-> t.size, tag |-> t.tag, prev |-> t.prev, next |-> t.next, free_head |-> t.free_head]
    <2>1. d = [size |-> d.size, tag |-> d.tag, prev |-> d.prev, next |-> d.next, free_head |-> d.free_head]
      BY DEF IsMemory
    <2>2. DOMAIN d = {"size", "tag", "prev", "next", "free_head"}
      BY <2>1
    <2>3. t.next = [i \in 0 .. d.size-1 |-> IF i = p THEN x ELSE d.next[i]]
      BY <1>1, <2>2 DEF remove_free_chunk_from_free_list
    <2>4. t.prev = [i \in 0 .. d.size-1 |-> IF i = x THEN p ELSE d.prev[i]]
      BY <1>1, <2>2 DEF remove_free_chunk_from_free_list
    <2>5. t.free_head = [k \in Classes |-> IF p = NULL /\ k = K THEN x ELSE d.free_head[k]]
      BY <1>1, <2>2 DEF remove_free_chunk_from_free_list, ClassOf
    <2>6. t.size = d.size /\ t.tag = d.tag
      BY <2>2 DEF remove_free_chunk_from_free_list
    <2>7. t = [y \in {"size", "tag", "prev", "next", "free_head"} |-> t[y]]
      BY <2>2 DEF remove_free_chunk_from_free_list
    <2>8. t = [size |-> t.size, tag |-> t.tag, prev |-> t.prev, next |-> t.next, free_head |-> t.free_head]
      <3> HIDE DEF t
      <3> QED
        BY <2>7
    <2> QED
      BY <2>3, <2>4, <2>5, <2>6, <2>8
  <1> HIDE DEF t
  <1>3. IsMemory(t)
    BY <1>1, <1>2 DEF IsMemory
  <1>4. \A e \in F : /\ t.next[e] = IF e = p THEN x ELSE d.next[e]
                     /\ t.prev[e] = IF e = x THEN p ELSE d.prev[e]
                     /\ e # NULL /\ pos[e] \in Nat /\ ClassOf(f, e) \in Classes
    <2>1. ASSUME NEW e \in F PROVE e \in 0 .. d.size-1 /\ e # NULL /\ pos[e] \in Nat /\ ClassOf(f, e) \in Classes
      BY <1>1, Words, ClassIs DEF OnLists
    <2> QED
      BY <1>2, <2>1
  <1>5. /\ pos[c] \in Nat
        /\ pos[c] = 0 => p = NULL /\ d.free_head[K] = c
        /\ pos[c] # 0 => p \in F /\ ClassOf(f, p) = K /\ pos[p] = pos[c] - 1 /\ d.next[p] = c
        /\ x # NULL => x \in F /\ ClassOf(f, x) = K /\ pos[x] = pos[c] + 1 /\ d.prev[x] = c
    BY DEF OnLists
  <1>6. /\ pos[c] # 0 => p # NULL /\ p # c /\ p \in G
        /\ x # NULL => x # c /\ x \in G
    BY <1>4, <1>5
  <1>7. \A e \in G : ClassOf(f, e) = K => pos[e] # pos[c]
    BY DEF OnLists
  <1>8. ASSUME NEW e \in G, ClassOf(f, e) = K, pos[e] = pos[c] + 1 PROVE e = x
    BY <1>8, NextOnList
  <1>9. \A e \in G : q[e] = IF ClassOf(f, e) = K /\ pos[e] > pos[c] THEN pos[e] - 1 ELSE pos[e]
    OBVIOUS
  <1> HIDE DEF q
  <1>10. \A e \in G : q[e] \in Nat
    BY <1>4, <1>5, <1>9
  <1>11. x # NULL => q[x] = pos[c]
    BY <1>5, <1>6, <1>9
  <1>12. pos[c] # 0 => q[p] = pos[c] - 1
    BY <1>5, <1>6, <1>9
  <1>13. ASSUME NEW k \in Classes, t.free_head[k] # NULL
         PROVE  t.free_head[k] \in G /\ ClassOf(f, t.free_head[k]) = k /\ q[t.free_head[k]] = 0
    <2>1. t.free_head[k] = IF p = NULL /\ k = K THEN x ELSE d.free_head[k]
      BY <1>2
    <2>2. CASE p = NULL /\ k = K
      BY <1>5, <1>6, <1>11, <1>13, <2>1, <2>2
    <2>3. CASE ~ (p = NULL /\ k = K)
      <3> DEFINE h == d.free_head[k]
      <3>1. h \in F /\ ClassOf(f, h) = k /\ pos[h] = 0
        BY <1>13, <2>1, <2>3 DEF OnLists
      <3>2. h # c
        BY <1>5, <2>3, <3>1
      <3>3. q[h] = 0
        BY <1>5, <1>9, <3>1, <3>2
      <3> QED
        BY <2>1, <2>3, <3>1, <3>2, <3>3
    <2> QED
      BY <2>2, <2>3
  <1>14. ASSUME NEW e \in G, q[e] = 0 PROVE t.prev[e] = NULL /\ t.free_head[ClassOf(f, e)] = e
    <2>1. t.free_head[ClassOf(f, e)] = IF p = NULL /\ ClassOf(f, e) = K THEN x ELSE d.free_head[ClassOf(f, e)]
      BY <1>2, <1>4
    <2>2. CASE pos[e] = 0
      <3>1. d.prev[e] = NULL /\ d.free_head[ClassOf(f, e)] = e
        BY <2>2 DEF OnLists
      <3>2. e # x
        BY <1>4, <1>5, <2>2
      <3>3. ~ (p = NULL /\ ClassOf(f, e) = K)
        BY <1>5, <1>6, <3>1
      <3> QED
        BY <1>4, <2>1, <3>1, <3>2, <3>3
    <2>3. CASE pos[e] # 0
      <3>1. ClassOf(f, e) = K /\ pos[e] = 1 /\ pos[c] = 0
        BY <1>4, <1>5, <1>9, <1>14, <2>3
      <3>2. e = x
        BY <1>8, <3>1
      <3> QED
        BY <1>4, <1>5, <2>1, <3>1, <3>2
    <2> QED
      BY <2>2, <2>3
  <1>15. ASSUME NEW e \in G, q[e] # 0
         PROVE  /\ t.prev[e] \in G /\ ClassOf(f, t.prev[e]) = ClassOf(f, e)
                /\ q[t.prev[e]] = q[e] - 1 /\ t.next[t.prev[e]] = e
    <2>1. CASE e = x
      <3>1. e # NULL /\ q[e] = pos[c] /\ pos[c] # 0
        BY <1>4, <1>11, <1>15, <2>1
      <3>2. t.prev[e] = p /\ p \in G /\ t.next[p] = x
        BY <1>4, <1>6, <2>1, <3>1
      <3> QED
        BY <1>5, <1>12, <2>1, <3>1, <3>2
    <2>2. CASE e # x
      <3> DEFINE z == d.prev[e]
      <3>1. pos[e] # 0 /\ pos[e] \in Nat
        BY <1>4, <1>5, <1>9, <1>15
      <3>2. z \in F /\ ClassOf(f, z) = ClassOf(f, e) /\ pos[z] = pos[e] - 1 /\ d.next[z] = e
        BY <3>1 DEF OnLists
      <3>3. z # c
        BY <2>2, <3>2
      <3>4. t.prev[e] = z /\ t.next[z] = e
        <4>1. z # p
          BY <1>4, <1>5, <1>6, <3>2
        <4> QED
          BY <1>4, <2>2, <3>2, <4>1
      <3>5. q[z] = q[e] - 1
        <4>1. z \in G /\ pos[z] \in Nat
          BY <1>4, <3>2, <3>3
        <4>2. CASE ClassOf(f, e) = K
          <5>1. pos[z] # pos[c]
            BY <1>7, <3>2, <4>1, <4>2
          <5>2. pos[z] > pos[c] <=> pos[e] > pos[c]
            BY <1>5, <3>1, <3>2, <4>1, <5>1
          <5> QED
            BY <1>9, <3>1, <3>2, <4>1, <4>2, <5>2
        <4>3. CASE ClassOf(f, e) # K
          BY <1>9, <3>2, <4>1, <4>3
        <4> QED
          BY <4>2, <4>3
      <3> QED
        BY <3>2, <3>3, <3>4, <3>5
    <2> QED
      BY <2>1, <2>2
  <1>16. ASSUME NEW e \in G, t.next[e] # NULL
         PROVE  /\ t.next[e] \in G /\ ClassOf(f, t.next[e]) = ClassOf(f, e)
                /\ q[t.next[e]] = q[e] + 1 /\ t.prev[t.next[e]] = e
    <2>1. CASE e = p
      <3>1. t.next[e] = x /\ x # NULL /\ p # NULL /\ pos[c] # 0
        BY <1>4, <1>5, <1>16, <2>1
      <3>2. t.prev[x] = p
        BY <1>4, <1>6, <3>1
      <3> QED
        BY <1>5, <1>6, <1>11, <1>12, <2>1, <3>1, <3>2
    <2>2. CASE e # p
      <3> DEFINE w == d.next[e]
      <3>1. t.next[e] = w
        BY <1>4, <2>2
      <3>2. w \in F /\ ClassOf(f, w) = ClassOf(f, e) /\ pos[w] = pos[e] + 1 /\ d.prev[w] = e
        BY <1>16, <3>1 DEF OnLists
      <3>3. w # c
        BY <2>2, <3>2
      <3>4. w # x
        BY <1>4, <1>5, <3>2
      <3>5. t.prev[w] = e
        BY <1>4, <3>2, <3>4
      <3>6. q[w] = q[e] + 1
        <4>1. w \in G /\ pos[w] \in Nat /\ pos[e] \in Nat
          BY <1>4, <3>2, <3>3
        <4>2. CASE ClassOf(f, e) = K
          <5>1. pos[e] # pos[c]
            BY <1>7, <4>2
          <5>2. pos[w] > pos[c] <=> pos[e] > pos[c]
            <6>1. pos[w] # pos[c]
              BY <1>7, <3>2, <4>1, <4>2
            <6> QED
              BY <1>5, <3>2, <4>1, <5>1, <6>1
          <5> QED
            BY <1>9, <3>2, <4>1, <4>2, <5>2
        <4>3. CASE ClassOf(f, e) # K
          BY <1>9, <3>2, <4>1, <4>3
        <4> QED
          BY <4>2, <4>3
      <3> QED
        BY <3>1, <3>2, <3>3, <3>5, <3>6
    <2> QED
      BY <2>1, <2>2
  <1>17. ASSUME NEW e \in G, NEW y \in G, ClassOf(f, e) = ClassOf(f, y), q[e] = q[y] PROVE e = y
    <2>1. pos[e] = pos[y]
      <3>1. pos[e] \in Nat /\ pos[y] \in Nat
        BY <1>4
      <3>2. CASE ClassOf(f, e) = K
        <4>1. pos[e] # pos[c] /\ pos[y] # pos[c]
          BY <1>7, <1>17, <3>2
        <4>2. /\ q[e] = IF pos[e] > pos[c] THEN pos[e] - 1 ELSE pos[e]
              /\ q[y] = IF pos[y] > pos[c] THEN pos[y] - 1 ELSE pos[y]
          <5>1. ClassOf(f, y) = K /\ y \in G /\ e \in G
            BY <1>17, <3>2
          <5> HIDE DEF K
          <5> QED
            BY <1>9, <3>2, <5>1
        <4>3. pos[c] \in Nat /\ q[e] = q[y]
          BY <1>5, <1>17
        <4> QED
          BY <3>1, <4>1, <4>2, <4>3
      <3>3. CASE ClassOf(f, e) # K
        BY <1>9, <1>17, <3>3
      <3> QED
        BY <3>2, <3>3
    <2> QED
      BY <1>17, <2>1 DEF OnLists
  <1>18. G \subseteq DOMAIN f
    BY DEF OnLists
  <1>19. OnLists(t, f, G, q)
    BY <1>10, <1>13, <1>14, <1>15, <1>16, <1>17, <1>18 DEF OnLists
  <1> QED
    BY <1>2, <1>3, <1>19 DEF t

\* A chunk that is on no list comes to the head of that of its class.
LEMMA InsertIs ==
  ASSUME NEW d, IsMemory(d), NEW f, Cut(f, d.size), NEW F, NEW pos, OnLists(d, f, F, pos),
         NEW a \in DOMAIN f, a \notin F
  PROVE  LET t == insert_free_chunk(d, a, f[a])
         IN  /\ IsMemory(t) /\ t.size = d.size
             /\ t.tag[a] = TagOf(f[a], "free") /\ t.tag[a + f[a] - 1] = TagOf(f[a], "free")
             /\ \A c \in DOMAIN f \ {a} : t.tag[c] = d.tag[c] /\ t.tag[c + f[c] - 1] = d.tag[c + f[c] - 1]
             /\ \E q : OnLists(t, f, F \union {a}, q)
  <1> DEFINE u == Tagged(d, a, f[a], "free")
             t == insert_free_chunk(d, a, f[a])
             K == ClassOf(f, a)
             h == d.free_head[K]
             G == F \union {a}
             q == [e \in G |-> IF e = a THEN 0 ELSE IF ClassOf(f, e) = K THEN pos[e] + 1 ELSE pos[e]]
  <1>1. /\ IsMemory(u) /\ u.size = d.size /\ u.free_head = d.free_head
        /\ u.tag[a] = TagOf(f[a], "free") /\ u.tag[a + f[a] - 1] = TagOf(f[a], "free")
        /\ \A c \in DOMAIN f \ {a} : /\ u.tag[c] = d.tag[c] /\ u.tag[c + f[c] - 1] = d.tag[c + f[c] - 1]
                                     /\ u.prev[c] = d.prev[c] /\ u.next[c] = d.next[c]
    BY TaggedIs
  <1>2. K \in Classes /\ d.size \in Nat
    BY ClassIs DEF IsMemory
  <1>3. t = [u EXCEPT !.prev = [i \in DOMAIN @ |-> IF i = a THEN NULL ELSE IF i = h THEN a ELSE @[i]],
                      !.next[a] = h, !.free_head[K] = a]
    BY DEF insert_free_chunk, ClassOf
  <1> HIDE DEF u
  <1>4. /\ DOMAIN u.prev = 0 .. d.size-1 /\ DOMAIN u.next = 0 .. d.size-1 /\ DOMAIN u.free_head = Classes
        /\ DOMAIN u = {"size", "tag", "prev", "next", "free_head"}
    <2>1. u = [size |-> u.size, tag |-> u.tag, prev |-> u.prev, next |-> u.next, free_head |-> u.free_head]
      BY <1>1 DEF IsMemory
    <2>2. DOMAIN u = {"size", "tag", "prev", "next", "free_head"}
      BY <2>1
    <2> QED
      BY <1>1, <2>2 DEF IsMemory
  <1> HIDE DEF t
  <1>5. /\ t.prev = [i \in 0 .. d.size-1 |-> IF i = a THEN NULL ELSE IF i = h THEN a ELSE u.prev[i]]
        /\ t.next = [i \in 0 .. d.size-1 |-> IF i = a THEN h ELSE u.next[i]]
        /\ t.free_head = [k \in Classes |-> IF k = K THEN a ELSE u.free_head[k]]
        /\ t.size = d.size /\ t.tag = u.tag
        /\ t = [size |-> t.size, tag |-> t.tag, prev |-> t.prev, next |-> t.next, free_head |-> t.free_head]
    <2>1. t.prev = [i \in 0 .. d.size-1 |-> IF i = a THEN NULL ELSE IF i = h THEN a ELSE u.prev[i]]
      BY <1>3, <1>4
    <2>2. t.next = [i \in 0 .. d.size-1 |-> IF i = a THEN h ELSE u.next[i]]
      BY <1>3, <1>4
    <2>3. t.free_head = [k \in Classes |-> IF k = K THEN a ELSE u.free_head[k]]
      BY <1>3, <1>4
    <2>4. t.size = d.size /\ t.tag = u.tag
      BY <1>1, <1>3, <1>4
    <2>5. t = [y \in {"size", "tag", "prev", "next", "free_head"} |-> t[y]]
      BY <1>3, <1>4
    <2>6. t = [size |-> t.size, tag |-> t.tag, prev |-> t.prev, next |-> t.next, free_head |-> t.free_head]
      BY <2>5
    <2> QED
      BY <2>1, <2>2, <2>3, <2>4, <2>6
  <1>6. IsMemory(t)
    <2>1. t.tag = [i \in 0 .. t.size-1 |-> t.tag[i]]
      BY <1>1, <1>5 DEF IsMemory
    <2> QED
      BY <1>2, <1>5, <2>1 DEF IsMemory
  <1>7. \A e \in F : /\ e \in DOMAIN f /\ e # a /\ e # NULL /\ pos[e] \in Nat /\ ClassOf(f, e) \in Classes
                     /\ t.next[e] = d.next[e]
                     /\ t.prev[e] = IF e = h THEN a ELSE d.prev[e]
    <2>1. ASSUME NEW e \in F
          PROVE  e \in DOMAIN f /\ e # a /\ e # NULL /\ pos[e] \in Nat /\ ClassOf(f, e) \in Classes /\ e \in 0 .. d.size-1
      BY <1>2, Words, ClassIs DEF OnLists
    <2> QED
      BY <1>1, <1>5, <2>1
  <1>8. t.next[a] = h /\ t.prev[a] = NULL /\ a # NULL
    <2>1. a \in 0 .. d.size-1 /\ a # NULL
      BY Words
    <2> QED
      BY <1>5, <2>1
  <1>9. /\ q[a] = 0
        /\ \A e \in F : q[e] = IF ClassOf(f, e) = K THEN pos[e] + 1 ELSE pos[e]
    BY <1>7
  <1> HIDE DEF q
  <1>10. h # NULL => h \in F /\ ClassOf(f, h) = K /\ pos[h] = 0
    BY <1>2 DEF OnLists
  <1>11. \A e \in G : q[e] \in Nat
    BY <1>7, <1>9
  <1>12. ASSUME NEW k \in Classes, t.free_head[k] # NULL
         PROVE  t.free_head[k] \in G /\ ClassOf(f, t.free_head[k]) = k /\ q[t.free_head[k]] = 0
    <2>1. CASE k = K
      BY <1>5, <1>9, <2>1
    <2>2. CASE k # K
      <3>1. t.free_head[k] = d.free_head[k]
        BY <1>1, <1>5, <2>2
      <3>2. d.free_head[k] \in F /\ ClassOf(f, d.free_head[k]) = k /\ pos[d.free_head[k]] = 0
        BY <1>12, <3>1 DEF OnLists
      <3> QED
        BY <1>9, <2>2, <3>1, <3>2
    <2> QED
      BY <2>1, <2>2
  <1>13. ASSUME NEW e \in G, q[e] = 0 PROVE t.prev[e] = NULL /\ t.free_head[ClassOf(f, e)] = e
    <2>1. CASE e = a
      BY <1>2, <1>5, <1>8, <2>1
    <2>2. CASE e # a
      <3>1. e \in F /\ pos[e] = 0 /\ ClassOf(f, e) # K
        BY <1>7, <1>9, <1>13, <2>2
      <3>2. d.prev[e] = NULL /\ d.free_head[ClassOf(f, e)] = e
        BY <3>1 DEF OnLists
      <3>3. e # h
        BY <1>7, <1>10, <3>1
      <3>4. t.free_head[ClassOf(f, e)] = d.free_head[ClassOf(f, e)]
        BY <1>1, <1>5, <1>7, <3>1
      <3> QED
        BY <1>7, <3>1, <3>2, <3>3, <3>4
    <2> QED
      BY <2>1, <2>2
  <1>14. ASSUME NEW e \in G, q[e] # 0
         PROVE  /\ t.prev[e] \in G /\ ClassOf(f, t.prev[e]) = ClassOf(f, e)
                /\ q[t.prev[e]] = q[e] - 1 /\ t.next[t.prev[e]] = e
    <2>1. e \in F /\ e # NULL /\ pos[e] \in Nat
      BY <1>7, <1>9, <1>14
    <2>2. CASE pos[e] = 0
      <3>1. ClassOf(f, e) = K /\ q[e] = 1
        BY <1>9, <1>14, <2>1, <2>2
      <3>2. e = h
        BY <2>1, <2>2, <3>1 DEF OnLists
      <3> QED
        BY <1>7, <1>8, <1>9, <2>1, <3>1, <3>2
    <2>3. CASE pos[e] # 0
      <3> DEFINE z == d.prev[e]
      <3>1. z \in F /\ ClassOf(f, z) = ClassOf(f, e) /\ pos[z] = pos[e] - 1 /\ d.next[z] = e
        BY <2>1, <2>3 DEF OnLists
      <3>2. e # h
        BY <1>10, <2>1, <2>3
      <3>3. t.prev[e] = z /\ t.next[z] = e
        BY <1>7, <2>1, <3>1, <3>2
      <3>4. q[z] = q[e] - 1
        <4>1. pos[z] \in Nat
          BY <1>7, <3>1
        <4> QED
          BY <1>9, <2>1, <3>1, <4>1
      <3> QED
        BY <3>1, <3>3, <3>4
    <2> QED
      BY <2>2, <2>3
  <1>15. ASSUME NEW e \in G, t.next[e] # NULL
         PROVE  /\ t.next[e] \in G /\ ClassOf(f, t.next[e]) = ClassOf(f, e)
                /\ q[t.next[e]] = q[e] + 1 /\ t.prev[t.next[e]] = e
    <2>1. CASE e = a
      <3>1. t.next[e] = h /\ h # NULL /\ h \in F /\ ClassOf(f, h) = K /\ pos[h] = 0
        BY <1>8, <1>10, <1>15, <2>1
      <3> QED
        BY <1>7, <1>9, <2>1, <3>1
    <2>2. CASE e # a
      <3> DEFINE w == d.next[e]
      <3>1. e \in F /\ pos[e] \in Nat /\ t.next[e] = w
        BY <1>7, <2>2
      <3>2. w \in F /\ ClassOf(f, w) = ClassOf(f, e) /\ pos[w] = pos[e] + 1 /\ d.prev[w] = e
        BY <1>15, <3>1 DEF OnLists
      <3>3. w # h
        BY <1>7, <1>10, <3>1, <3>2
      <3>4. t.prev[w] = e
        BY <1>7, <3>2, <3>3
      <3>5. q[w] = q[e] + 1
        BY <1>9, <3>1, <3>2
      <3> QED
        BY <3>1, <3>2, <3>4, <3>5
    <2> QED
      BY <2>1, <2>2
  <1>16. ASSUME NEW e \in G, NEW y \in G, ClassOf(f, e) = ClassOf(f, y), q[e] = q[y] PROVE e = y
    <2>1. CASE e = a \/ y = a
      <3>1. \A z \in F : ClassOf(f, z) = K => q[z] # 0
        BY <1>7, <1>9
      <3> QED
        BY <1>9, <1>16, <2>1, <3>1
    <2>2. CASE e # a /\ y # a
      <3>1. e \in F /\ y \in F /\ pos[e] \in Nat /\ pos[y] \in Nat
        BY <1>7, <2>2
      <3>2. pos[e] = pos[y]
        BY <1>9, <1>16, <3>1
      <3> QED
        BY <1>16, <3>1, <3>2 DEF OnLists
    <2> QED
      BY <2>1, <2>2
  <1>17. G \subseteq DOMAIN f
    BY DEF OnLists
  <1>18. OnLists(t, f, G, q)
    BY <1>11, <1>12, <1>13, <1>14, <1>15, <1>16, <1>17 DEF OnLists
  <1> QED
    BY <1>1, <1>5, <1>6, <1>18 DEF t

\* Only the sizes and links of the chunks on the lists matter to them.
LEMMA OnListsKept ==
  ASSUME NEW d, NEW f, NEW F, NEW pos, OnLists(d, f, F, pos), NEW t, NEW g, F \subseteq DOMAIN g,
         \A c \in F : g[c] = f[c] /\ t.prev[c] = d.prev[c] /\ t.next[c] = d.next[c],
         t.free_head = d.free_head
  PROVE  OnLists(t, g, F, pos)
  <1>1. \A c \in F : ClassOf(g, c) = ClassOf(f, c)
    BY DEF ClassOf
  <1>2. \A k \in Classes : LET h == d.free_head[k] IN h # NULL => h \in F /\ ClassOf(g, h) = k /\ pos[h] = 0
    BY <1>1 DEF OnLists
  <1>3. \A c \in F : pos[c] = 0 => d.prev[c] = NULL /\ d.free_head[ClassOf(g, c)] = c
    BY <1>1 DEF OnLists
  <1>4. \A c \in F : LET p == d.prev[c]
                     IN  pos[c] # 0 => p \in F /\ ClassOf(g, p) = ClassOf(g, c) /\ pos[p] = pos[c] - 1 /\ d.next[p] = c
    BY <1>1 DEF OnLists
  <1>5. \A c \in F : LET n == d.next[c]
                     IN  n # NULL => n \in F /\ ClassOf(g, n) = ClassOf(g, c) /\ pos[n] = pos[c] + 1 /\ d.prev[n] = c
    BY <1>1 DEF OnLists
  <1>6. \A c, e \in F : ClassOf(g, c) = ClassOf(g, e) /\ pos[c] = pos[e] => c = e
    BY <1>1 DEF OnLists
  <1>7. \A c \in F : pos[c] \in Nat
    BY DEF OnLists
  <1> HIDE DEF ClassOf
  <1> QED
    BY <1>2, <1>3, <1>4, <1>5, <1>6, <1>7 DEF OnLists

-----------------------------------------------------------------------------
(***************************************************************************)
(* Allocation and deallocation.                                            *)
(***************************************************************************)
Heap(d, f, F, X, pos) ==
  IsMemory(d) /\ Cut(f, d.size) /\ F \intersect X = {} /\ TagsAgree(d, f, F, X) /\ OnLists(d, f, F, pos)

\* Between two calls: all tags are written, and no two free chunks are neighbours.
AtRest(d, f, F, pos) == Heap(d, f, F, {}, pos) /\ \A c \in F : c + f[c] \notin F

\* While a chunk is on its way to the lists: the one before it is not on them.
Loose(d, f, F, pos, s) ==
  Heap(d, f, F, {s}, pos) /\ s \in DOMAIN f /\ \A c \in F : c + f[c] \notin F \union {s}

\* What the tags of a chunk say.
LEMMA TagsRead ==
  ASSUME NEW d, NEW f, NEW F, NEW X, NEW pos, Heap(d, f, F, X, pos), NEW c \in DOMAIN f, c \notin X
  PROVE  /\ d.tag[c].size = f[c] /\ d.tag[c + f[c] - 1] = d.tag[c]
         /\ d.tag[c].status = "occupied" <=> c \notin F
         /\ d.tag[c].status = "free" <=> c \in F
  <1>1. d.tag[c] = TagOf(f[c], IF c \in F THEN "free" ELSE "occupied") /\ d.tag[c + f[c] - 1] = d.tag[c]
    BY DEF Heap, TagsAgree
  <1>2. d.tag[c].size = f[c] /\ d.tag[c].status = IF c \in F THEN "free" ELSE "occupied"
    BY <1>1 DEF TagOf
  <1>3. "free" # "occupied"
    OBVIOUS
  <1> QED
    BY <1>1, <1>2, <1>3

\* A chunk that is taken off its list.
LEMMA Unlisted ==
  ASSUME NEW d, NEW f, NEW F, NEW X, NEW pos, Heap(d, f, F, X, pos), NEW c \in F
  PROVE  LET t == remove_free_chunk_from_free_list(d, c, f[c])
         IN  t.size = d.size /\ \E q : Heap(t, f, F \ {c}, X \union {c}, q)
  <1> DEFINE t == remove_free_chunk_from_free_list(d, c, f[c])
  <1>1. PICK q : IsMemory(t) /\ t.size = d.size /\ t.tag = d.tag /\ OnLists(t, f, F \ {c}, q)
    BY RemoveIs DEF Heap
  <1> HIDE DEF t
  <1>2. TagsAgree(t, f, F \ {c}, X \union {c})
    BY <1>1 DEF Heap, TagsAgree
  <1>3. Heap(t, f, F \ {c}, X \union {c}, q)
    BY <1>1, <1>2 DEF Heap
  <1> QED
    BY <1>1, <1>3 DEF t

\* A chunk that is put on its list.
LEMMA Inserted ==
  ASSUME NEW d, NEW f, NEW F, NEW X, NEW pos, Heap(d, f, F, X, pos), NEW a \in X, a \in DOMAIN f
  PROVE  LET t == insert_free_chunk(d, a, f[a])
         IN  t.size = d.size /\ \E q : Heap(t, f, F \union {a}, X \ {a}, q)
  <1> DEFINE t == insert_free_chunk(d, a, f[a])
  <1>1. a \notin F
    BY DEF Heap
  <1>2. PICK q : /\ IsMemory(t) /\ t.size = d.size
                 /\ t.tag[a] = TagOf(f[a], "free") /\ t.tag[a + f[a] - 1] = TagOf(f[a], "free")
                 /\ \A c \in DOMAIN f \ {a} : t.tag[c] = d.tag[c] /\ t.tag[c + f[c] - 1] = d.tag[c + f[c] - 1]
                 /\ OnLists(t, f, F \union {a}, q)
    BY <1>1, InsertIs DEF Heap
  <1> HIDE DEF t
  <1>3. TagsAgree(t, f, F \union {a}, X \ {a})
    <2>1. SUFFICES ASSUME NEW c \in DOMAIN f \ (X \ {a})
                   PROVE  /\ t.tag[c] = TagOf(f[c], IF c \in F \union {a} THEN "free" ELSE "occupied")
                          /\ t.tag[c + f[c] - 1] = t.tag[c]
      BY DEF TagsAgree
    <2>2. CASE c = a
      BY <1>2, <2>2
    <2>3. CASE c # a
      <3>1. d.tag[c] = TagOf(f[c], IF c \in F THEN "free" ELSE "occupied") /\ d.tag[c + f[c] - 1] = d.tag[c]
        BY <2>1, <2>3 DEF Heap, TagsAgree
      <3> QED
        BY <1>2, <2>3, <3>1
    <2> QED
      BY <2>2, <2>3
  <1>4. Heap(t, f, F \union {a}, X \ {a}, q)
    BY <1>2, <1>3 DEF Heap
  <1> QED
    BY <1>2, <1>4 DEF t

\* A chunk that an item gets.
LEMMA Occupied ==
  ASSUME NEW d, NEW f, NEW F, NEW X, NEW pos, Heap(d, f, F, X, pos), NEW a \in X, a \in DOMAIN f
  PROVE  LET t == Tagged(d, a, f[a], "occupied")
         IN  t.size = d.size /\ Heap(t, f, F, X \ {a}, pos)
  <1> DEFINE t == Tagged(d, a, f[a], "occupied")
  <1>1. a \notin F
    BY DEF Heap
  <1>2. /\ IsMemory(t) /\ t.size = d.size /\ t.free_head = d.free_head
        /\ t.tag[a] = TagOf(f[a], "occupied") /\ t.tag[a + f[a] - 1] = TagOf(f[a], "occupied")
        /\ \A c \in DOMAIN f \ {a} : /\ t.tag[c] = d.tag[c] /\ t.tag[c + f[c] - 1] = d.tag[c + f[c] - 1]
                                     /\ t.prev[c] = d.prev[c] /\ t.next[c] = d.next[c]
    BY TaggedIs DEF Heap
  <1> HIDE DEF t
  <1>3. TagsAgree(t, f, F, X \ {a})
    <2>1. SUFFICES ASSUME NEW c \in DOMAIN f \ (X \ {a})
                   PROVE  /\ t.tag[c] = TagOf(f[c], IF c \in F THEN "free" ELSE "occupied")
                          /\ t.tag[c + f[c] - 1] = t.tag[c]
      BY DEF TagsAgree
    <2>2. CASE c = a
      BY <1>1, <1>2, <2>2
    <2>3. CASE c # a
      <3>1. d.tag[c] = TagOf(f[c], IF c \in F THEN "free" ELSE "occupied") /\ d.tag[c + f[c] - 1] = d.tag[c]
        BY <2>1, <2>3 DEF Heap, TagsAgree
      <3> QED
        BY <1>2, <2>3, <3>1
    <2> QED
      BY <2>2, <2>3
  <1>4. OnLists(t, f, F, pos)
    <2>1. F \subseteq DOMAIN f /\ OnLists(d, f, F, pos)
      BY DEF Heap, OnLists
    <2>2. \A c \in F : f[c] = f[c] /\ t.prev[c] = d.prev[c] /\ t.next[c] = d.next[c]
      BY <1>1, <1>2, <2>1
    <2> QED
      BY <1>2, <2>1, <2>2, OnListsKept
  <1>5. Heap(t, f, F, X \ {a}, pos)
    BY <1>2, <1>3, <1>4 DEF Heap
  <1> QED
    BY <1>2, <1>5 DEF t

\* What changes how the words are cut where the tags are not yet written.
LEMMA Recut ==
  ASSUME NEW d, NEW f, NEW F, NEW X, NEW pos, Heap(d, f, F, X, pos),
         NEW g, NEW Y, Cut(g, d.size), F \intersect Y = {}, F \subseteq DOMAIN g,
         \A c \in DOMAIN g \ Y : c \in DOMAIN f \ X /\ g[c] = f[c]
  PROVE  Heap(d, g, F, Y, pos)
  <1>1. TagsAgree(d, g, F, Y)
    BY DEF Heap, TagsAgree
  <1>2. \A c \in F : g[c] = f[c] /\ d.prev[c] = d.prev[c] /\ d.next[c] = d.next[c]
    OBVIOUS
  <1>3. OnLists(d, g, F, pos)
    BY <1>2, OnListsKept DEF Heap
  <1> QED
    BY <1>1, <1>3 DEF Heap

\* A chunk from a list, and what it need not give is cut off: c is occupied,
\* with at least m words, and the other occupied chunks are as they were.
LEMMA AllocateIs ==
  ASSUME NEW d, NEW f, NEW F, NEW pos, AtRest(d, f, F, pos),
         NEW item_size \in Nat, item_size + OVERHEAD >= MIN_SIZE,
         HeadChunk(d, item_size) \in F, HeadChunkFits(d, item_size)
  PROVE  LET c == HeadChunk(d, item_size)
             t == dynamic_allocate(d, item_size)
         IN  /\ t.size = d.size
             /\ \E g, G, q : /\ AtRest(t, g, G, q)
                             /\ DOMAIN g \ G = (DOMAIN f \ F) \union {c}
                             /\ g[c] >= item_size + OVERHEAD
                             /\ \A e \in DOMAIN f \ F : g[e] = f[e]
  <1> DEFINE c == HeadChunk(d, item_size)
             t == dynamic_allocate(d, item_size)
             m == item_size + OVERHEAD
             r == remove_free_chunk_from_free_list(d, c, f[c])
             F1 == F \ {c}
  <1>1. /\ Heap(d, f, F, {}, pos) /\ c \in F /\ c \in DOMAIN f /\ F \subseteq DOMAIN f /\ Cut(f, d.size)
        /\ d.size \in Nat /\ \A e \in F : e + f[e] \notin F
    BY DEF AtRest, Heap, OnLists, IsMemory
  <1>2. d.tag[c].size = f[c] /\ f[c] >= m
    <2>1. d.tag[c].size = f[c]
      BY <1>1, TagsRead
    <2> QED
      BY <2>1 DEF HeadChunkFits, minimum_chunk_size
  <1>3. m \in Nat /\ m >= MIN_SIZE /\ c \in Nat /\ f[c] \in Nat /\ f[c] - m \in Nat
    BY <1>1, <1>2, CutIs, DynamicAssumption
  <1>4. r.size = d.size /\ \E q : Heap(r, f, F1, {} \union {c}, q)
    BY <1>1, Unlisted
  <1>5. PICK q1 : Heap(r, f, F1, {c}, q1)
    BY <1>4
  <1>6. t = IF f[c] - m >= MIN_SIZE THEN Tagged(insert_free_chunk(r, c + m, f[c] - m), c, m, "occupied")
                                    ELSE Tagged(r, c, f[c], "occupied")
    BY <1>2 DEF dynamic_allocate, minimum_chunk_size
  <1> HIDE DEF c, r, t
  <1>7. CASE ~ (f[c] - m >= MIN_SIZE)
    <2>1. t.size = d.size /\ Heap(t, f, F1, {}, q1)
      BY <1>1, <1>4, <1>5, <1>6, <1>7, Occupied
    <2>2. AtRest(t, f, F1, q1)
      BY <1>1, <2>1 DEF AtRest
    <2>3. DOMAIN f \ F1 = (DOMAIN f \ F) \union {c}
      BY <1>1
    <2> QED
      BY <1>2, <2>1, <2>2, <2>3 DEF c, t
  <1>8. CASE f[c] - m >= MIN_SIZE
    <2> DEFINE b == c + m
               g == Split(f, c, m)
               u == insert_free_chunk(r, b, f[c] - m)
               G == F1 \union {b}
    <2>1. Cut(g, d.size) /\ b \notin DOMAIN f /\ b \in c+1 .. c + f[c] - 1
      BY <1>1, <1>3, <1>8, SplitIsCut
    <2>2. b # c /\ b # d.size
      BY <1>1, <1>3, <2>1, CutIs
    <2>3. /\ DOMAIN g = DOMAIN f \union {b} /\ g[c] = m /\ g[b] = f[c] - m
          /\ \A e \in DOMAIN f : e # c => g[e] = f[e]
      BY <1>1, <2>1, <2>2 DEF Split
    <2> HIDE DEF g
    <2>4. Heap(r, g, F1, {c, b}, q1)
      <3>1. F1 \intersect {c, b} = {} /\ F1 \subseteq DOMAIN g
        BY <1>1, <2>1, <2>3
      <3>2. \A e \in DOMAIN g \ {c, b} : e \in DOMAIN f \ {c} /\ g[e] = f[e]
        BY <2>3
      <3>3. Cut(g, r.size)
        BY <1>4, <2>1
      <3> QED
        BY <1>5, <3>1, <3>2, <3>3, Recut
    <2>5. u.size = r.size /\ \E q : Heap(u, g, G, {c, b} \ {b}, q)
      <3>1. u = insert_free_chunk(r, b, g[b])
        BY <2>3
      <3>2. b \in {c, b} /\ b \in DOMAIN g
        BY <2>3
      <3> HIDE DEF u, b, F1
      <3> QED
        BY <2>4, <3>1, <3>2, Inserted
    <2>6. PICK q2 : Heap(u, g, G, {c}, q2)
      <3>1. {c, b} \ {b} = {c}
        BY <2>2
      <3> QED
        BY <2>5, <3>1
    <2> HIDE DEF u
    <2>7. t = Tagged(u, c, g[c], "occupied")
      BY <1>6, <1>8, <2>3 DEF u
    <2>8. t.size = d.size /\ Heap(t, g, G, {}, q2)
      BY <1>1, <1>4, <2>3, <2>5, <2>6, <2>7, Occupied
    <2>9. \A e \in G : e + g[e] \notin G
      <3>1. SUFFICES ASSUME NEW e \in G PROVE e + g[e] \notin G
        OBVIOUS
      <3>2. CASE e = b
        <4>1. b + g[b] = c + f[c]
          BY <1>3, <2>3
        <4>2. c + f[c] \notin F /\ b + g[b] # b
          BY <1>1, <1>3, <1>8, <2>3, DynamicAssumption
        <4> QED
          BY <3>2, <4>1, <4>2
      <3>3. CASE e # b
        <4>1. e \in F /\ e # c /\ g[e] = f[e] /\ e + f[e] \notin F
          BY <1>1, <2>3, <3>1, <3>3
        <4>2. e + f[e] \in DOMAIN f \union {d.size}
          BY <1>1, <4>1, CutIs
        <4> QED
          BY <2>1, <2>2, <4>1, <4>2
      <3> QED
        BY <3>2, <3>3
    <2>10. AtRest(t, g, G, q2)
      BY <2>8, <2>9 DEF AtRest
    <2>11. DOMAIN g \ G = (DOMAIN f \ F) \union {c} /\ g[c] >= m /\ \A e \in DOMAIN f \ F : g[e] = f[e]
      BY <1>1, <1>3, <2>1, <2>2, <2>3
    <2> QED
      BY <2>8, <2>10, <2>11 DEF c, t
  <1> QED
    BY <1>7, <1>8

\* The chunk with its left neighbour, if that is free.
LEMMA LeftIs ==
  ASSUME NEW d, NEW f, NEW F, NEW pos, AtRest(d, f, F, pos), NEW c \in DOMAIN f \ F
  PROVE  LET L == coalese_free_chunk_left(d, c, f[c])
         IN  /\ L.d.size = d.size
             /\ \E g, G, q : /\ Loose(L.d, g, G, q, L.start) /\ L.size = g[L.start]
                             /\ DOMAIN g \ G = ((DOMAIN f \ F) \ {c}) \union {L.start}
                             /\ L.start \notin (DOMAIN f \ F) \ {c}
                             /\ \A e \in (DOMAIN f \ F) \ {c} : g[e] = f[e]
  <1> DEFINE L == coalese_free_chunk_left(d, c, f[c])
             I == (DOMAIN f \ F) \ {c}
  <1>1. /\ Heap(d, f, F, {}, pos) /\ F \subseteq DOMAIN f /\ Cut(f, d.size)
        /\ d.size \in Nat /\ \A e \in F : e + f[e] \notin F
    BY DEF AtRest, Heap, OnLists, IsMemory
  <1>2. c \in Nat /\ f[c] \in Nat
    BY <1>1, CutIs
  <1>3. ASSUME NEW p \in DOMAIN f, c = p + f[p]
        PROVE  d.tag[c - 1].size = f[p] /\ (d.tag[c - 1].status = "occupied" <=> p \notin F)
    <2>1. p + f[p] - 1 = c - 1
      BY <1>1, <1>3, CutIs
    <2>2. p \notin {}
      OBVIOUS
    <2> QED
      BY <1>1, <1>3, <2>1, <2>2, TagsRead
  <1>4. CASE c = 0 \/ d.tag[c - 1].status = "occupied"
    <2>1. L = [d |-> d, start |-> c, size |-> f[c]]
      BY <1>4 DEF coalese_free_chunk_left
    <2>2. \A e \in F : e + f[e] # c
      <3>1. SUFFICES ASSUME NEW e \in F, e + f[e] = c PROVE FALSE
        OBVIOUS
      <3>2. c # 0
        BY <1>1, <3>1, CutIs
      <3> QED
        BY <1>1, <1>3, <1>4, <3>1, <3>2
    <2>3. Heap(d, f, F, {c}, pos)
      BY <1>1 DEF Heap, TagsAgree
    <2>4. Loose(d, f, F, pos, c)
      BY <1>1, <2>2, <2>3 DEF Loose
    <2>5. DOMAIN f \ F = I \union {c} /\ c \notin I
      OBVIOUS
    <2> HIDE DEF L
    <2> QED
      BY <2>1, <2>4, <2>5 DEF L
  <1>5. CASE ~ (c = 0 \/ d.tag[c - 1].status = "occupied")
    <2>1. PICK p \in DOMAIN f : c = p + f[p]
      BY <1>1, <1>5 DEF Cut
    <2>2. d.tag[c - 1].size = f[p] /\ p \in F
      BY <1>3, <1>5, <2>1
    <2>3. p \in Nat /\ f[p] \in Nat /\ f[p] > 0 /\ c - f[p] = p /\ p # c
      BY <1>1, <1>2, <2>1, CutIs
    <2> DEFINE r == remove_free_chunk_from_free_list(d, p, f[p])
               g == Joined(f, p)
    <2>4. L = [d |-> r, start |-> p, size |-> f[c] + f[p]]
      BY <1>5, <2>2, <2>3 DEF coalese_free_chunk_left
    <2>5. r.size = d.size /\ \E q : Heap(r, f, F \ {p}, {} \union {p}, q)
      BY <1>1, <2>2, Unlisted
    <2>6. PICK q : Heap(r, f, F \ {p}, {p}, q)
      BY <2>5
    <2> HIDE DEF r
    <2>7. Cut(g, d.size)
      BY <1>1, <2>1, JoinedIsCut
    <2>8. DOMAIN g = DOMAIN f \ {c} /\ g[p] = f[c] + f[p] /\ \A e \in DOMAIN g : e # p => g[e] = f[e]
      BY <1>2, <2>1, <2>3 DEF Joined
    <2> HIDE DEF g
    <2>9. Heap(r, g, F \ {p}, {p}, q)
      BY <1>1, <2>5, <2>6, <2>7, <2>8, Recut
    <2>10. \A e \in F \ {p} : e + g[e] \notin (F \ {p}) \union {p}
      BY <1>1, <2>2, <2>8
    <2>11. Loose(r, g, F \ {p}, q, p)
      BY <2>3, <2>8, <2>9, <2>10 DEF Loose
    <2>12. DOMAIN g \ (F \ {p}) = I \union {p} /\ p \notin I /\ \A e \in I : g[e] = f[e]
      BY <1>1, <2>2, <2>3, <2>8
    <2> HIDE DEF L, I
    <2>13. L.d = r /\ L.start = p /\ L.size = f[c] + f[p]
      BY <2>4
    <2> QED
      BY <2>5, <2>8, <2>11, <2>12, <2>13 DEF L, I
  <1> QED
    BY <1>4, <1>5

\* Then with its right neighbour, if that is.
LEMMA RightIs ==
  ASSUME NEW d, NEW f, NEW F, NEW pos, NEW s, Loose(d, f, F, pos, s)
  PROVE  LET R == coalese_free_chunk_right(d, s, f[s])
         IN  /\ R.d.size = d.size /\ R.start = s
             /\ \E g, G, q : /\ Loose(R.d, g, G, q, s) /\ s + g[s] \notin G /\ R.size = g[s]
                             /\ DOMAIN g \ G = DOMAIN f \ F
                             /\ \A e \in (DOMAIN f \ F) \ {s} : g[e] = f[e]
  <1> DEFINE R == coalese_free_chunk_right(d, s, f[s])
             b == s + f[s]
  <1>1. /\ Heap(d, f, F, {s}, pos) /\ s \in DOMAIN f /\ s \notin F /\ F \subseteq DOMAIN f /\ Cut(f, d.size)
        /\ d.size \in Nat /\ \A e \in F : e + f[e] \notin F \union {s}
    BY DEF Loose, Heap, OnLists, IsMemory
  <1>2. s \in Nat /\ f[s] \in Nat /\ f[s] > 0 /\ b \in DOMAIN f \union {d.size} /\ b # s /\ d.size \notin DOMAIN f
    <2>1. s \in Nat /\ f[s] \in Nat /\ f[s] > 0 /\ b \in DOMAIN f \union {d.size}
      BY <1>1, CutIs
    <2>2. d.size \notin DOMAIN f
      BY <1>1 DEF Cut
    <2> QED
      BY <2>1, <2>2
  <1>3. b \in DOMAIN f => d.tag[b] = TagOf(f[b], IF b \in F THEN "free" ELSE "occupied")
    BY <1>1, <1>2 DEF Heap, TagsAgree
  <1>4. CASE b = d.size \/ d.tag[b].status = "occupied"
    <2>1. R = [d |-> d, start |-> s, size |-> f[s]]
      BY <1>4 DEF coalese_free_chunk_right
    <2>2. b \notin F
      <3>1. CASE b = d.size
        BY <1>1, <1>2, <3>1
      <3>2. CASE b # d.size
        BY <1>2, <1>3, <1>4, <3>2 DEF TagOf
      <3> QED
        BY <3>1, <3>2
    <2> HIDE DEF R
    <2> QED
      BY <2>1, <2>2 DEF R
  <1>5. CASE ~ (b = d.size \/ d.tag[b].status = "occupied")
    <2>1. b \in DOMAIN f /\ b \in F /\ d.tag[b].size = f[b]
      BY <1>2, <1>3, <1>5 DEF TagOf
    <2> DEFINE r == remove_free_chunk_from_free_list(d, b, f[b])
               g == Joined(f, s)
    <2>2. R = [d |-> r, start |-> s, size |-> f[s] + f[b]]
      BY <1>5, <2>1 DEF coalese_free_chunk_right
    <2>3. r.size = d.size /\ \E q : Heap(r, f, F \ {b}, {s} \union {b}, q)
      BY <1>1, <2>1, Unlisted
    <2>4. PICK q : Heap(r, f, F \ {b}, {s, b}, q)
      <3>1. {s} \union {b} = {s, b}
        OBVIOUS
      <3> QED
        BY <2>3, <3>1
    <2> HIDE DEF r
    <2>5. Cut(g, d.size)
      BY <1>1, <2>1, JoinedIsCut
    <2>6. DOMAIN g = DOMAIN f \ {b} /\ g[s] = f[s] + f[b] /\ \A e \in DOMAIN g : e # s => g[e] = f[e]
      BY <1>1, <1>2 DEF Joined
    <2> HIDE DEF g
    <2>7. Heap(r, g, F \ {b}, {s}, q)
      BY <1>1, <2>3, <2>4, <2>5, <2>6, Recut
    <2>8. \A e \in F \ {b} : e + g[e] \notin (F \ {b}) \union {s}
      BY <1>1, <2>6
    <2>9. Loose(r, g, F \ {b}, q, s)
      BY <1>1, <1>2, <2>6, <2>7, <2>8 DEF Loose
    <2>10. s + g[s] \notin F \ {b}
      <3>1. s + g[s] = b + f[b]
        BY <1>1, <1>2, <2>1, <2>6, CutIs
      <3> QED
        BY <1>1, <2>1, <3>1
    <2>11. DOMAIN g \ (F \ {b}) = DOMAIN f \ F /\ \A e \in (DOMAIN f \ F) \ {s} : g[e] = f[e]
      BY <1>1, <2>1, <2>6
    <2> HIDE DEF R
    <2>12. R.d = r /\ R.start = s /\ R.size = f[s] + f[b]
      BY <2>2
    <2> QED
      BY <2>3, <2>6, <2>9, <2>10, <2>11, <2>12 DEF R
  <1> QED
    BY <1>4, <1>5

\* A chunk that an item leaves: the other occupied chunks are as they were.
LEMMA DeallocateIs ==
  ASSUME NEW d, NEW f, NEW F, NEW pos, AtRest(d, f, F, pos), NEW c \in DOMAIN f \ F
  PROVE  LET t == dynamic_deallocate(d, c)
         IN  /\ t.size = d.size
             /\ \E g, G, q : /\ AtRest(t, g, G, q)
                             /\ DOMAIN g \ G = (DOMAIN f \ F) \ {c}
                             /\ \A e \in (DOMAIN f \ F) \ {c} : g[e] = f[e]
  <1> DEFINE L == coalese_free_chunk_left(d, c, f[c])
             R == coalese_free_chunk_right(L.d, L.start, L.size)
             t == insert_free_chunk(R.d, R.start, R.size)
             I == (DOMAIN f \ F) \ {c}
  <1>1. dynamic_deallocate(d, c) = t
    <2>1. d.tag[c].size = f[c]
      <3>1. Heap(d, f, F, {}, pos) /\ c \in DOMAIN f /\ c \notin {}
        BY DEF AtRest
      <3> QED
        BY <3>1, TagsRead
    <2> QED
      BY <2>1 DEF dynamic_deallocate
  <1>2. L.d.size = d.size
    BY LeftIs
  <1>3. PICK g, G, q : /\ Loose(L.d, g, G, q, L.start) /\ L.size = g[L.start]
                       /\ DOMAIN g \ G = I \union {L.start} /\ L.start \notin I
                       /\ \A e \in I : g[e] = f[e]
    BY LeftIs
  <1> DEFINE s == L.start
             u == L.d
  <1>4. R = coalese_free_chunk_right(u, s, g[s])
    BY <1>3
  <1> HIDE DEF L, s, u, R
  <1>5. /\ Loose(u, g, G, q, s) /\ u.size = d.size /\ DOMAIN g \ G = I \union {s} /\ s \notin I
    BY <1>2, <1>3 DEF s, u
  <1>6. R.d.size = u.size /\ R.start = s
    BY <1>4, <1>5, RightIs
  <1>7. PICK h, H, x : /\ Loose(R.d, h, H, x, s) /\ s + h[s] \notin H /\ R.size = h[s]
                       /\ DOMAIN h \ H = DOMAIN g \ G
                       /\ \A e \in (DOMAIN g \ G) \ {s} : h[e] = g[e]
    BY <1>4, <1>5, RightIs
  <1>8. Heap(R.d, h, H, {s}, x) /\ s \in DOMAIN h /\ s \notin H /\ \A e \in H : e + h[e] \notin H \union {s}
    BY <1>7 DEF Loose, Heap
  <1>9. t.size = d.size /\ \E y : Heap(t, h, H \union {s}, {s} \ {s}, y)
    BY SMTT(30), <1>5, <1>6, <1>7, <1>8, Inserted
  <1>10. PICK y : Heap(t, h, H \union {s}, {}, y)
    BY <1>9
  <1> HIDE DEF t
  <1>11. s + h[s] # s
    <2>1. R.d.size \in Nat /\ Cut(h, R.d.size)
      BY <1>8 DEF Heap, IsMemory
    <2> QED
      BY <1>8, <2>1, CutIs
  <1>12. AtRest(t, h, H \union {s}, y)
    BY <1>7, <1>8, <1>10, <1>11 DEF AtRest
  <1>13. DOMAIN h \ (H \union {s}) = I
    BY <1>5, <1>7
  <1>14. \A e \in I : h[e] = f[e]
    BY <1>3, <1>5, <1>7
  <1> QED
    BY <1>1, <1>9, <1>12, <1>13, <1>14

\* The whole memory as one chunk.
LEMMA ResetIs ==
  ASSUME NEW n \in Nat, n >= MIN_SIZE
  PROVE  /\ dynamic_reset(n).size = n
         /\ \E g, q : AtRest(dynamic_reset(n), g, DOMAIN g, q)
  <1> DEFINE d == [size |-> n, tag |-> [i \in 0 .. n-1 |-> Garbage],
                   prev |-> [i \in 0 .. n-1 |-> NULL], next |-> [i \in 0 .. n-1 |-> NULL],
                   free_head |-> [c \in Classes |-> NULL]]
             t == dynamic_reset(n)
             f == [c \in {0} |-> n]
  <1>1. n > 0
    BY DynamicAssumption
  <1>2. IsMemory(d) /\ d.size = n
    BY DEF IsMemory
  <1>3. Cut(f, n)
    BY <1>1 DEF Cut
  <1>4. TagsAgree(d, f, {}, {0})
    BY DEF TagsAgree
  <1>5. OnLists(d, f, {}, f)
    BY DEF OnLists
  <1>6. Heap(d, f, {}, {0}, f)
    BY <1>2, <1>3, <1>4, <1>5 DEF Heap
  <1>7. t = insert_free_chunk(d, 0, f[0])
    BY DEF dynamic_reset
  <1> HIDE DEF d
  <1>8. t.size = n /\ \E q : Heap(t, f, {} \union {0}, {0} \ {0}, q)
    BY <1>2, <1>6, <1>7, Inserted
  <1>9. PICK q : Heap(t, f, {0}, {}, q)
    BY <1>8
  <1> HIDE DEF t
  <1>10. AtRest(t, f, {0}, q)
    BY <1>1, <1>9 DEF AtRest
  <1>11. {0} = DOMAIN f
    OBVIOUS
  <1> HIDE DEF f
  <1> QED
    BY <1>8, <1>10, <1>11 DEF t

-----------------------------------------------------------------------------
(***************************************************************************)
(* What is read off the memory: the chunks and the lists.                  *)
(***************************************************************************)

\* Where chunks start, and the end.
Borders(f, n) == DOMAIN f \union {n}

LEMMA QuotientBelow ==
  ASSUME NEW n \in Nat, NEW m \in Nat \ {0}
  PROVE  n \div m <= n
  <1> DEFINE q == n \div m
  <1>1. q \in Nat
    BY DivBounds
  <1>2. m * q <= n
    BY DivBounds
  <1> HIDE DEF q
  <1>3. 1 * q <= m * q
    BY <1>1, MulMono
  <1>4. m * q \in Nat /\ 1 * q = q
    BY <1>1
  <1> QED
    BY <1>1, <1>2, <1>3, <1>4 DEF q

LEMMA BordersRank ==
  ASSUME NEW n \in Nat, n > 0, NEW f, Cut(f, n)
  PROVE  /\ Borders(f, n) \subseteq Nat /\ IsFiniteSet(Borders(f, n))
         /\ Rank(Borders(f, n), 0) = 0
         /\ \A c \in DOMAIN f : Rank(Borders(f, n), c + f[c]) = Rank(Borders(f, n), c) + 1
         /\ \A b \in Borders(f, n) : Rank(Borders(f, n), b) \in Nat /\ MIN_SIZE * Rank(Borders(f, n), b) <= b
         /\ \A b, c \in Borders(f, n) : Rank(Borders(f, n), b) = Rank(Borders(f, n), c) => b = c
  <1> DEFINE S == Borders(f, n)
  <1>1. /\ DOMAIN f \subseteq 0 .. n-1 /\ 0 \in DOMAIN f /\ S = DOMAIN f \union {n}
        /\ \A b \in S : b # 0 => \E c \in DOMAIN f : b = c + f[c]
    BY DEF Cut, Borders
  <1>2. S \subseteq 0 .. n /\ S \subseteq Nat
    BY <1>1
  <1>3. IsFiniteSet(S)
    <2>1. IsFiniteSet(0 .. n)
      BY FS_Interval
    <2> QED
      BY <1>2, <2>1, FS_Subset
  <1>4. /\ \A x \in S : Rank(S, x) \in 0 .. Cardinality(S)-1
        /\ \A x, y \in S : Rank(S, x) = Rank(S, y) => x = y
        /\ Cardinality(S) \in Nat
    BY <1>2, <1>3, RankFacts, FS_CardinalityType
  <1> HIDE DEF S
  <1>5. Rank(S, 0) = 0
    <2>1. \A o \in S : ~ (o < 0)
      BY <1>2
    <2>2. {o \in S : o < 0} = {}
      BY <2>1, Zenon
    <2> QED
      BY <2>2, FS_EmptySet, Zenon DEF Rank
  <1>6. ASSUME NEW c \in DOMAIN f PROVE Rank(S, c + f[c]) = Rank(S, c) + 1
    <2>1. c \in S /\ c + f[c] \in S /\ c \in Nat /\ f[c] \in Nat /\ c < c + f[c] /\ c + f[c] <= n
      BY <1>1, CutIs
    <2>2. \A o \in S : ~ (c < o /\ o < c + f[c])
      <3>1. SUFFICES ASSUME NEW o \in S, c < o, o < c + f[c] PROVE FALSE
        OBVIOUS
      <3>2. o \in DOMAIN f
        BY <1>1, <2>1, <3>1
      <3>3. c + f[c] <= o
        BY <3>1, <3>2 DEF Cut
      <3> QED
        BY <1>2, <2>1, <3>1, <3>3
    <2> QED
      BY <1>2, <1>3, <2>1, <2>2, NextRank
  <1>7. \A b \in S : Rank(S, b) \in Nat
    BY <1>4
  <1>8. \A b \in S : MIN_SIZE * Rank(S, b) <= b
    <2> DEFINE Bad == {b \in S : ~ (MIN_SIZE * Rank(S, b) <= b)}
    <2>1. SUFFICES ASSUME Bad # {} PROVE FALSE
      OBVIOUS
    <2>2. PICK b \in Bad : \A c \in Bad : b <= c
      BY <1>2, <2>1, Smallest
    <2>3. b # 0
      BY <1>5, <2>2, DynamicAssumption
    <2>4. PICK c \in DOMAIN f : b = c + f[c]
      BY <1>1, <2>2, <2>3
    <2>5. c \in S /\ c \in Nat /\ f[c] \in Nat /\ f[c] >= MIN_SIZE /\ f[c] > 0 /\ c < b
      BY <1>1, <2>4, CutIs
    <2>6. MIN_SIZE * Rank(S, c) <= c
      <3>1. b \in Nat
        BY <1>2, <2>2
      <3>2. c \notin Bad
        <4> HIDE DEF Bad
        <4> QED
          BY <2>2, <2>5, <3>1
      <3> QED
        BY <2>5, <3>2
    <2> DEFINE r == Rank(S, c)
    <2>7. r \in Nat /\ Rank(S, b) = r + 1
      BY <1>6, <1>7, <2>4, <2>5
    <2> HIDE DEF r
    <2>8. MIN_SIZE * (r + 1) = MIN_SIZE * r + MIN_SIZE /\ MIN_SIZE * r \in Nat
      BY <2>7, DynamicAssumption
    <2>9. MIN_SIZE * r <= c
      BY <2>6 DEF r
    <2>10. MIN_SIZE * (r + 1) <= b
      BY <2>4, <2>5, <2>8, <2>9, DynamicAssumption
    <2> QED
      BY <2>2, <2>7, <2>10
  <1> QED
    BY <1>2, <1>3, <1>4, <1>5, <1>6, <1>7, <1>8 DEF S

\* Going from size to size comes to all chunks, and to nothing else.
LEMMA ChunksAre ==
  ASSUME NEW d, NEW f, NEW F, NEW pos, Heap(d, f, F, {}, pos)
  PROVE  Chunks(d) = DOMAIN f
  <1> DEFINE n == d.size
             S == Borders(f, n)
             N == n \div MIN_SIZE
             IsReach(r) == r = [k \in 0 .. n |-> IF k = 0 THEN {0}
                                  ELSE r[k-1] \union {s + d.tag[s].size : s \in r[k-1] \ {n}}]
             reach == CHOOSE r : IsReach(r)
             g == [k \in 0 .. n |-> {b \in S : Rank(S, b) <= k}]
  <1>1. n \in Nat /\ Cut(f, n) /\ n > 0 /\ n \notin DOMAIN f /\ 0 \in DOMAIN f
    BY DEF Heap, IsMemory, Cut
  <1>2. /\ S \subseteq Nat /\ IsFiniteSet(S) /\ Rank(S, 0) = 0
        /\ \A c \in DOMAIN f : Rank(S, c + f[c]) = Rank(S, c) + 1
        /\ \A b \in S : Rank(S, b) \in Nat /\ MIN_SIZE * Rank(S, b) <= b
        /\ \A b, c \in S : Rank(S, b) = Rank(S, c) => b = c
    BY <1>1, BordersRank
  <1>3. S = DOMAIN f \union {n} /\ \A b \in S : b # 0 => \E c \in DOMAIN f : b = c + f[c]
    BY <1>1 DEF Borders, Cut
  <1>4. \A c \in DOMAIN f : d.tag[c].size = f[c] /\ c + f[c] \in S
    <2>1. ASSUME NEW c \in DOMAIN f PROVE d.tag[c].size = f[c] /\ c + f[c] \in S
      <3>1. c \notin {}
        OBVIOUS
      <3>2. c + f[c] \in S
        BY <1>1, <1>3, CutIs
      <3> QED
        BY <3>1, <3>2, TagsRead
    <2> QED
      BY <2>1
  <1> HIDE DEF S
  <1>5. N \in Nat /\ N <= n /\ \A b \in S : Rank(S, b) <= N
    <2>1. N \in Nat
      BY <1>1, DynamicAssumption, DivBounds
    <2>2. N <= n
      BY <1>1, DynamicAssumption, QuotientBelow
    <2>3. ASSUME NEW b \in S PROVE Rank(S, b) <= N
      <3> DEFINE r == Rank(S, b)
      <3>1. r \in Nat /\ MIN_SIZE * r <= b /\ b \in Nat /\ b <= n
        <4>1. b \in Nat /\ (b = n \/ b \in DOMAIN f)
          BY <1>2, <1>3
        <4>2. b <= n
          BY <1>1, <4>1, CutIs
        <4>3. r \in Nat
          BY <1>2
        <4>4. MIN_SIZE * r <= b
          BY <1>2
        <4> QED
          BY <4>1, <4>2, <4>3, <4>4
      <3> HIDE DEF r
      <3>2. r * MIN_SIZE = MIN_SIZE * r /\ MIN_SIZE * r \in Nat
        BY <3>1, DynamicAssumption
      <3>3. r * MIN_SIZE <= n
        BY <1>1, <3>1, <3>2
      <3>4. r <= N
        BY <1>1, <3>1, <3>3, DynamicAssumption, DivAtLeast
      <3> QED
        BY <3>4 DEF r
    <2> QED
      BY <2>1, <2>2, <2>3
  <1> HIDE DEF N
  <1>6. g[0] = {0}
    <2>1. g[0] = {b \in S : Rank(S, b) <= 0}
      BY <1>1
    <2>2. 0 \in S
      BY <1>1, <1>3
    <2>3. \A b \in S : Rank(S, b) <= 0 <=> b = 0
      BY <1>2, <2>2
    <2> QED
      BY <2>1, <2>2, <2>3
  <1>7. ASSUME NEW k \in 0 .. n, k # 0
        PROVE  g[k] = g[k-1] \union {s + d.tag[s].size : s \in g[k-1] \ {n}}
    <2>1. /\ g[k] = {b \in S : Rank(S, b) <= k} /\ g[k-1] = {b \in S : Rank(S, b) <= k-1} /\ k-1 \in Nat /\ k \in Nat
      BY <1>1, <1>7
    <2> HIDE DEF g
    <2>2. ASSUME NEW b \in g[k] PROVE b \in g[k-1] \union {s + d.tag[s].size : s \in g[k-1] \ {n}}
      <3>1. CASE b = 0
        BY <1>2, <2>1, <2>2, <3>1
      <3>2. CASE b # 0
        <4>1. PICK c \in DOMAIN f : b = c + f[c]
          BY <1>3, <2>1, <3>2
        <4>2. c \in S /\ c # n /\ d.tag[c].size = f[c] /\ Rank(S, c) \in Nat /\ Rank(S, b) = Rank(S, c) + 1
          BY <1>1, <1>2, <1>3, <1>4, <4>1
        <4>3. Rank(S, c) <= k-1
          BY <2>1, <4>2
        <4> QED
          BY <2>1, <4>1, <4>2, <4>3
      <3> QED
        BY <3>1, <3>2
    <2>3. ASSUME NEW b \in g[k-1] PROVE b \in g[k]
      <3>1. b \in S /\ Rank(S, b) <= k-1
        BY <2>1
      <3>2. Rank(S, b) \in Nat
        BY <1>2, <3>1
      <3>3. Rank(S, b) <= k
        BY <2>1, <3>1, <3>2
      <3> QED
        BY <2>1, <3>1, <3>3
    <2>4. ASSUME NEW s \in g[k-1] \ {n} PROVE s + d.tag[s].size \in g[k]
      <3>1. s \in DOMAIN f /\ Rank(S, s) <= k-1 /\ Rank(S, s) \in Nat
        BY <1>2, <1>3, <2>1
      <3>2. s + d.tag[s].size \in S /\ Rank(S, s + d.tag[s].size) = Rank(S, s) + 1
        BY <1>2, <1>4, <3>1
      <3> QED
        BY <2>1, <3>1, <3>2
    <2> QED
      BY <2>2, <2>3, <2>4
  <1>8. ASSUME NEW r, IsReach(r) PROVE r = g
    <2>1. \A k \in 0 .. n : r[k] = IF k = 0 THEN {0} ELSE r[k-1] \union {s + d.tag[s].size : s \in r[k-1] \ {n}}
      BY <1>8
    <2>2. \A k \in 0 .. n : r[k] = g[k]
      <3> DEFINE Bad == {k \in 0 .. n : r[k] # g[k]}
      <3>1. SUFFICES ASSUME Bad # {} PROVE FALSE
        OBVIOUS
      <3>2. PICK k \in Bad : \A m \in Bad : k <= m
        <4>1. Bad \subseteq Nat
          OBVIOUS
        <4> QED
          BY <3>1, <4>1, Smallest
      <3> HIDE DEF g
      <3>3. k # 0
        BY <1>1, <1>6, <2>1, <3>2
      <3>4. k \in 0 .. n /\ k-1 \in 0 .. n /\ k-1 \notin Bad
        BY <1>1, <3>2, <3>3
      <3>5. r[k-1] = g[k-1]
        BY <3>4
      <3> QED
        BY <1>7, <2>1, <3>2, <3>3, <3>4, <3>5
    <2>3. r = [k \in 0 .. n |-> r[k]]
      BY <1>8
    <2> QED
      BY <2>2, <2>3
  <1>9. IsReach(g)
    <2>1. \A k \in 0 .. n : g[k] = IF k = 0 THEN {0} ELSE g[k-1] \union {s + d.tag[s].size : s \in g[k-1] \ {n}}
      BY <1>6, <1>7
    <2>2. g = [k \in 0 .. n |-> g[k]]
      OBVIOUS
    <2> HIDE DEF g
    <2> QED
      BY <2>1, <2>2
  <1>10. reach = g
    <2>1. IsReach(reach)
      BY <1>9, Zenon
    <2> HIDE DEF IsReach, reach, g
    <2> QED
      BY <1>8, <2>1
  <1>11. Chunks(d) = reach[n \div MIN_SIZE] \ {n}
    BY Zenon DEF Chunks
  <1>12. g[N] = S
    BY <1>1, <1>5
  <1> QED
    BY <1>1, <1>3, <1>10, <1>11, <1>12 DEF N

\* There are not more chunks on a list than fit into the memory.
LEMMA PlacesBounded ==
  ASSUME NEW d, NEW f, NEW F, NEW X, NEW pos, Heap(d, f, F, X, pos), NEW c \in F
  PROVE  pos[c] <= d.size \div MIN_SIZE
  <1> DEFINE n == d.size
             S == Borders(f, n)
             M == {e \in F : ClassOf(f, e) = ClassOf(f, c)}
             P == pos[c]
             h == [j \in 0 .. P |-> CHOOSE e \in M : pos[e] = j]
  <1>1. n \in Nat /\ Cut(f, n) /\ n > 0 /\ F \subseteq DOMAIN f
    BY DEF Heap, IsMemory, Cut, OnLists
  <1>2. P \in Nat /\ \A e \in M : pos[e] \in Nat
    BY DEF Heap, OnLists
  <1>3. \A j \in 0 .. P : \E e \in M : pos[e] = j
    <2> DEFINE Bad == {k \in 0 .. P : ~ \E e \in M : pos[e] = P - k}
    <2>1. Bad = {}
      <3>1. SUFFICES ASSUME Bad # {} PROVE FALSE
        OBVIOUS
      <3>2. PICK k \in Bad : \A m \in Bad : k <= m
        <4>1. Bad \subseteq Nat
          OBVIOUS
        <4> QED
          BY <3>1, <4>1, Smallest
      <3>3. k # 0
        BY <1>2, <3>2
      <3>4. k-1 \in 0 .. P /\ k-1 \notin Bad /\ k \in Nat
        BY <1>2, <3>2, <3>3
      <3>5. PICK e \in M : pos[e] = P - (k-1)
        BY <3>4
      <3>6. pos[e] # 0
        BY <1>2, <3>2, <3>3, <3>4, <3>5
      <3>7. d.prev[e] \in F /\ ClassOf(f, d.prev[e]) = ClassOf(f, e) /\ pos[d.prev[e]] = pos[e] - 1
        BY <3>6 DEF Heap, OnLists
      <3>8. d.prev[e] \in M /\ pos[d.prev[e]] = P - k
        BY <1>2, <3>2, <3>5, <3>7
      <3> QED
        BY <3>2, <3>8
    <2>2. ASSUME NEW j \in 0 .. P PROVE \E e \in M : pos[e] = j
      <3>1. P - j \in 0 .. P /\ P - (P - j) = j
        BY <1>2
      <3>2. P - j \notin Bad
        BY <2>1
      <3> QED
        BY <3>1, <3>2
    <2> QED
      BY <2>2
  <1>4. h \in Injection(0 .. P, DOMAIN f)
    <2>1. \A j \in 0 .. P : h[j] \in M /\ pos[h[j]] = j
      BY <1>3
    <2>2. h \in [0 .. P -> DOMAIN f]
      BY <1>1, <2>1
    <2> HIDE DEF h
    <2>3. \A i, j \in 0 .. P : h[i] = h[j] => i = j
      BY <2>1
    <2> QED
      BY <2>2, <2>3 DEF Injection, IsInjective
  <1> HIDE DEF h, S
  <1>5. S = DOMAIN f \union {n} /\ {o \in S : o < n} = DOMAIN f
    <2>1. S = DOMAIN f \union {n}
      BY DEF S, Borders
    <2>2. DOMAIN f \subseteq 0 .. n-1
      BY <1>1 DEF Cut
    <2>3. \A o \in S : o < n <=> o \in DOMAIN f
      BY <1>1, <2>1, <2>2
    <2> QED
      BY <2>1, <2>3, Zenon
  <1>6. /\ IsFiniteSet(DOMAIN f) /\ Cardinality(DOMAIN f) = Rank(S, n)
    <2>1. IsFiniteSet(S)
      BY <1>1, BordersRank DEF S
    <2> QED
      BY <1>5, <2>1, FS_Subset DEF Rank
  <1>7. Cardinality(0 .. P) <= Cardinality(DOMAIN f) /\ Cardinality(0 .. P) = P + 1
    <2>1. Cardinality(0 .. P) <= Cardinality(DOMAIN f)
      BY <1>4, <1>6, FS_Injection
    <2>2. Cardinality(0 .. P) = IF 0 > P THEN 0 ELSE P - 0 + 1
      BY <1>2, FS_Interval
    <2> QED
      BY <1>2, <2>1, <2>2
  <1> DEFINE r == Rank(S, n)
  <1>8. r \in Nat /\ MIN_SIZE * r <= n
    BY <1>1, <1>5, BordersRank DEF S
  <1>9. P + 1 <= r
    BY <1>6, <1>7
  <1> HIDE DEF r
  <1>10. r <= n \div MIN_SIZE
    <2>1. r * MIN_SIZE = MIN_SIZE * r /\ MIN_SIZE * r \in Nat
      BY <1>8, DynamicAssumption
    <2>2. r * MIN_SIZE <= n
      BY <1>8, <2>1
    <2> QED
      BY <1>1, <1>8, <2>2, DynamicAssumption, DivAtLeast
  <1>11. n \div MIN_SIZE \in Nat
    BY <1>1, DynamicAssumption, DivBounds
  <1> QED
    BY <1>2, <1>8, <1>9, <1>10, <1>11

\* Going from link to link comes to all chunks of a list, and to nothing else.
LEMMA ListedAre ==
  ASSUME NEW d, NEW f, NEW F, NEW X, NEW pos, Heap(d, f, F, X, pos), NEW K \in Classes
  PROVE  Listed(d, K) = {c \in F : ClassOf(f, c) = K}
  <1> DEFINE n == d.size
             M == {c \in F : ClassOf(f, c) = K}
             N == n \div MIN_SIZE
             IsReach(r) == r = [k \in 0 .. n |-> IF k = 0 THEN {d.free_head[K]} \ {NULL}
                                  ELSE r[k-1] \union ({d.next[s] : s \in r[k-1]} \ {NULL})]
             reach == CHOOSE r : IsReach(r)
             g == [k \in 0 .. n |-> {c \in M : pos[c] <= k}]
  <1>1. n \in Nat /\ OnLists(d, f, F, pos) /\ F \subseteq Nat /\ Cut(f, n)
    <2>1. n \in Nat /\ OnLists(d, f, F, pos) /\ Cut(f, n)
      BY DEF Heap, IsMemory
    <2> QED
      BY <2>1 DEF OnLists, Cut
  <1>2. \A c \in M : pos[c] \in Nat /\ c # NULL /\ pos[c] <= N
    BY <1>1, PlacesBounded DEF OnLists, NULL
  <1>3. N \in Nat /\ N <= n
    <2>1. N \in Nat
      BY <1>1, DynamicAssumption, DivBounds
    <2>2. N <= n
      BY <1>1, DynamicAssumption, QuotientBelow
    <2> QED
      BY <2>1, <2>2
  <1>4. g[0] = {d.free_head[K]} \ {NULL}
    <2>1. g[0] = {c \in M : pos[c] <= 0}
      BY <1>1
    <2>2. ASSUME NEW c \in M, pos[c] <= 0 PROVE c = d.free_head[K] /\ c # NULL
      BY <1>1, <1>2, <2>2 DEF OnLists
    <2>3. ASSUME d.free_head[K] # NULL PROVE d.free_head[K] \in M /\ pos[d.free_head[K]] = 0
      BY <1>1, <2>3 DEF OnLists
    <2> QED
      BY <2>1, <2>2, <2>3
  <1>5. ASSUME NEW k \in 0 .. n, k # 0
        PROVE  g[k] = g[k-1] \union ({d.next[s] : s \in g[k-1]} \ {NULL})
    <2>1. g[k] = {c \in M : pos[c] <= k} /\ g[k-1] = {c \in M : pos[c] <= k-1} /\ k-1 \in Nat /\ k \in Nat
      BY <1>1, <1>5
    <2> HIDE DEF g
    <2>2. ASSUME NEW c \in g[k] PROVE c \in g[k-1] \union ({d.next[s] : s \in g[k-1]} \ {NULL})
      <3>1. CASE pos[c] = 0
        BY <2>1, <3>1
      <3>2. CASE pos[c] # 0
        <4>1. /\ d.prev[c] \in M /\ pos[d.prev[c]] = pos[c] - 1 /\ d.next[d.prev[c]] = c
          BY <1>1, <2>1, <3>2 DEF OnLists
        <4>2. d.prev[c] \in g[k-1] /\ c # NULL
          BY <1>2, <2>1, <4>1
        <4> QED
          BY <4>1, <4>2
      <3> QED
        BY <3>1, <3>2
    <2>3. ASSUME NEW c \in g[k-1] PROVE c \in g[k]
      BY <1>2, <2>1
    <2>4. ASSUME NEW s \in g[k-1], d.next[s] # NULL PROVE d.next[s] \in g[k]
      <3>1. s \in M /\ pos[s] <= k-1 /\ pos[s] \in Nat
        BY <1>2, <2>1
      <3>2. d.next[s] \in M /\ pos[d.next[s]] = pos[s] + 1
        BY <1>1, <2>4, <3>1 DEF OnLists
      <3> QED
        BY <2>1, <3>1, <3>2
    <2> QED
      BY <2>2, <2>3, <2>4
  <1>6. ASSUME NEW r, IsReach(r) PROVE r = g
    <2>1. \A k \in 0 .. n : r[k] = IF k = 0 THEN {d.free_head[K]} \ {NULL}
                                   ELSE r[k-1] \union ({d.next[s] : s \in r[k-1]} \ {NULL})
      BY <1>6
    <2>2. \A k \in 0 .. n : r[k] = g[k]
      <3> DEFINE Bad == {k \in 0 .. n : r[k] # g[k]}
      <3>1. SUFFICES ASSUME Bad # {} PROVE FALSE
        OBVIOUS
      <3>2. PICK k \in Bad : \A m \in Bad : k <= m
        <4>1. Bad \subseteq Nat
          OBVIOUS
        <4> QED
          BY <3>1, <4>1, Smallest
      <3> HIDE DEF g
      <3>3. k # 0
        BY <1>1, <1>4, <2>1, <3>2
      <3>4. k \in 0 .. n /\ k-1 \in 0 .. n /\ k-1 \notin Bad
        BY <1>1, <3>2, <3>3
      <3>5. r[k-1] = g[k-1]
        BY <3>4
      <3> QED
        BY <1>5, <2>1, <3>2, <3>3, <3>4, <3>5
    <2>3. r = [k \in 0 .. n |-> r[k]]
      BY <1>6
    <2> QED
      BY <2>2, <2>3
  <1>7. IsReach(g)
    <2>1. \A k \in 0 .. n : g[k] = IF k = 0 THEN {d.free_head[K]} \ {NULL}
                                   ELSE g[k-1] \union ({d.next[s] : s \in g[k-1]} \ {NULL})
      BY <1>4, <1>5
    <2>2. g = [k \in 0 .. n |-> g[k]]
      OBVIOUS
    <2> HIDE DEF g
    <2> QED
      BY <2>1, <2>2
  <1>8. reach = g
    <2>1. IsReach(reach)
      BY <1>7, Zenon
    <2> HIDE DEF IsReach, reach, g
    <2> QED
      BY <1>6, <2>1
  <1>9. Listed(d, K) = reach[n \div MIN_SIZE]
    BY Zenon DEF Listed
  <1>10. g[N] = M
    BY <1>2, <1>3
  <1> QED
    BY <1>8, <1>9, <1>10
\* The head of the list that an allocation takes its chunk from.
LEMMA HeadChunkIs ==
  ASSUME NEW d, NEW f, NEW F, NEW pos, AtRest(d, f, F, pos), NEW item_size, ~ InsufficientSpace(d, item_size)
  PROVE  HeadChunk(d, item_size) \in F
  <1> DEFINE S == FittingClasses(d, item_size)
             K == CHOOSE c \in S : \A k \in S : c <= k
  <1>1. S \subseteq Nat /\ S # {}
    BY DEF FittingClasses, InsufficientSpace, Classes
  <1>2. \A k \in S : k \in Classes /\ d.free_head[k] # NULL
    BY DEF FittingClasses
  <1>3. HeadChunk(d, item_size) = d.free_head[K]
    BY Zenon DEF HeadChunk
  <1> HIDE DEF S
  <1>4. \E c \in S : \A k \in S : c <= k
    BY <1>1, Smallest
  <1>5. K \in S
    BY <1>4, Zenon
  <1> HIDE DEF K
  <1>6. OnLists(d, f, F, pos)
    BY DEF AtRest, Heap
  <1>7. d.free_head[K] \in F
    BY <1>2, <1>5, <1>6 DEF OnLists
  <1> QED
    BY <1>3, <1>7

\* What the tags and the lists say between two calls.
LEMMA RestReads ==
  ASSUME NEW d, NEW f, NEW F, NEW pos, AtRest(d, f, F, pos)
  PROVE  /\ \A c \in Chunks(d) : /\ c + d.tag[c].size <= d.size
                                 /\ d.tag[c].size >= MIN_SIZE
                                 /\ d.tag[c + d.tag[c].size - 1] = d.tag[c]
         /\ \A k \in Classes :
              /\ Listed(d, k) = {c \in Chunks(d) : d.tag[c].status = "free" /\ size_to_class_rounddown(d.tag[c].size) = k}
              /\ \A c \in Listed(d, k) : d.prev[c] = -1 <=> d.free_head[k] = c
              /\ \A c \in Listed(d, k) : d.next[c] # -1 => d.prev[d.next[c]] = c
         /\ {c \in Chunks(d) : d.tag[c].status = "occupied"} = DOMAIN f \ F
         /\ \A c \in DOMAIN f : d.tag[c].size = f[c]
         /\ \A c \in Chunks(d) : c + d.tag[c].size \in Chunks(d) =>
              ~ (d.tag[c].status = "free" /\ d.tag[c + d.tag[c].size].status = "free")
  <1>1. Heap(d, f, F, {}, pos) /\ \A c \in F : c + f[c] \notin F
    BY DEF AtRest
  <1>2. d.size \in Nat /\ Cut(f, d.size) /\ OnLists(d, f, F, pos) /\ F \subseteq DOMAIN f
    BY <1>1 DEF Heap, IsMemory, OnLists
  <1>3. Chunks(d) = DOMAIN f
    BY <1>1, ChunksAre
  <1>4. \A c \in DOMAIN f : /\ d.tag[c].size = f[c] /\ d.tag[c + f[c] - 1] = d.tag[c]
                            /\ d.tag[c].status = "occupied" <=> c \notin F
                            /\ d.tag[c].status = "free" <=> c \in F
    <2>1. \A c \in DOMAIN f : c \notin {}
      OBVIOUS
    <2> QED
      BY <1>1, <2>1, TagsRead
  <1>5. \A c \in Chunks(d) : /\ c + d.tag[c].size <= d.size
                             /\ d.tag[c].size >= MIN_SIZE
                             /\ d.tag[c + d.tag[c].size - 1] = d.tag[c]
    BY <1>2, <1>3, <1>4, CutIs
  <1>6. ASSUME NEW k \in Classes
        PROVE  /\ Listed(d, k) = {c \in Chunks(d) : d.tag[c].status = "free" /\ size_to_class_rounddown(d.tag[c].size) = k}
               /\ \A c \in Listed(d, k) : d.prev[c] = -1 <=> d.free_head[k] = c
               /\ \A c \in Listed(d, k) : d.next[c] # -1 => d.prev[d.next[c]] = c
    <2>1. Listed(d, k) = {c \in F : ClassOf(f, c) = k}
      BY <1>1, ListedAre
    <2>2. Listed(d, k) = {c \in Chunks(d) : d.tag[c].status = "free" /\ size_to_class_rounddown(d.tag[c].size) = k}
      <3>1. ASSUME NEW c \in DOMAIN f
            PROVE  c \in F /\ ClassOf(f, c) = k
                   <=> d.tag[c].status = "free" /\ size_to_class_rounddown(d.tag[c].size) = k
        BY <1>4, Zenon DEF ClassOf
      <3> QED
        BY <1>2, <1>3, <2>1, <3>1
    <2>3. ASSUME NEW c \in Listed(d, k) PROVE d.prev[c] = -1 <=> d.free_head[k] = c
      <3>1. c \in F /\ ClassOf(f, c) = k /\ pos[c] \in Nat /\ c # NULL /\ c \in Nat
        <4>1. c \in F /\ ClassOf(f, c) = k
          BY <2>1
        <4>2. pos[c] \in Nat
          BY <1>2, <4>1 DEF OnLists
        <4>3. c \in Nat
          BY <1>2, <4>1, CutIs
        <4> QED
          BY <4>1, <4>2, <4>3 DEF NULL
      <3>2. CASE pos[c] = 0
        BY <1>2, <3>1, <3>2 DEF OnLists, NULL
      <3>3. CASE pos[c] # 0
        <4>1. d.prev[c] \in F
          BY <1>2, <3>1, <3>3 DEF OnLists
        <4>2. d.prev[c] \in Nat
          BY <1>2, <4>1, CutIs
        <4>3. d.free_head[k] # c
          BY <1>2, <3>1, <3>3 DEF OnLists
        <4> QED
          BY <4>2, <4>3
      <3> QED
        BY <3>2, <3>3
    <2>4. ASSUME NEW c \in Listed(d, k), d.next[c] # -1 PROVE d.prev[d.next[c]] = c
      <3>1. c \in F
        BY <2>1
      <3> QED
        BY <1>2, <2>4, <3>1 DEF OnLists, NULL
    <2> QED
      BY <2>2, <2>3, <2>4
  <1>7. {c \in Chunks(d) : d.tag[c].status = "occupied"} = DOMAIN f \ F
    BY <1>3, <1>4
  <1>8. \A c \in Chunks(d) : c + d.tag[c].size \in Chunks(d) =>
          ~ (d.tag[c].status = "free" /\ d.tag[c + d.tag[c].size].status = "free")
    <2>1. SUFFICES ASSUME NEW c \in DOMAIN f, c + f[c] \in DOMAIN f
                   PROVE  ~ (d.tag[c].status = "free" /\ d.tag[c + f[c]].status = "free")
      BY <1>3, <1>4
    <2> QED
      BY <1>1, <1>4, <2>1
  <1> QED
    BY <1>4, <1>5, <1>6, <1>7, <1>8

-----------------------------------------------------------------------------
(***************************************************************************)
(* The dynamic allocator at work.                                          *)
(***************************************************************************)

\* The occupied chunks are those of the items, and large enough for them.
Serves(d, items, f, F, pos) ==
  /\ AtRest(d, f, F, pos)
  /\ DOMAIN items = DOMAIN f \ F
  /\ \A c \in DOMAIN items : f[c] >= items[c] + OVERHEAD

DynamicInv == dyn # None => \E f, F, pos : Serves(dyn, live, f, F, pos)

\* After mehcached_dynamic_reset there is one chunk, and no item.
LEMMA ResetServes ==
  ASSUME NEW n \in Nat, n >= MIN_SIZE
  PROVE  dynamic_reset(n).size = n /\ \E f, F, pos : Serves(dynamic_reset(n), <<>>, f, F, pos)
  <1>1. dynamic_reset(n).size = n
    BY ResetIs
  <1>2. PICK g, q : AtRest(dynamic_reset(n), g, DOMAIN g, q)
    BY ResetIs
  <1>3. DOMAIN <<>> = {}
    OBVIOUS
  <1>4. Serves(dynamic_reset(n), <<>>, g, DOMAIN g, q)
    BY <1>2, <1>3, Zenon DEF Serves
  <1> QED
    BY <1>1, <1>4

LEMMA AllocateServes ==
  ASSUME MemoryInv, DynamicInv, NEW item_size \in build.items, Allocate(item_size)
  PROVE  DynamicInv'
  <1> DEFINE c == HeadChunk(dyn, item_size)
  <1>1. PICK f, F, pos : Serves(dyn, live, f, F, pos)
    BY DEF DynamicInv, Allocate
  <1>2. AtRest(dyn, f, F, pos) /\ DOMAIN live = DOMAIN f \ F
    BY <1>1 DEF Serves
  <1>3. CASE ~ HeadChunkFits(dyn, item_size)
    BY <1>3 DEF Allocate, DynamicInv
  <1>4. CASE HeadChunkFits(dyn, item_size)
    <2>1. item_size \in Nat /\ item_size + OVERHEAD >= MIN_SIZE
      BY MicaMemoryAssumption DEF MemoryInv
    <2>2. c \in F
      BY <1>2, HeadChunkIs DEF Allocate
    <2>3. PICK g, G, q : /\ AtRest(dynamic_allocate(dyn, item_size), g, G, q)
                         /\ DOMAIN g \ G = (DOMAIN f \ F) \union {c}
                         /\ g[c] >= item_size + OVERHEAD
                         /\ \A e \in DOMAIN f \ F : g[e] = f[e]
      BY <1>2, <1>4, <2>1, <2>2, AllocateIs
    <2>4. dyn' = dynamic_allocate(dyn, item_size)
      BY <1>4 DEF Allocate
    <2>5. live' = [k \in DOMAIN live \union {c} |-> IF k = c THEN item_size ELSE live[k]]
      BY <1>4 DEF Allocate
    <2> HIDE DEF c
    <2>6. DOMAIN live' = DOMAIN g \ G
      BY <1>2, <2>3, <2>5
    <2>7. ASSUME NEW k \in DOMAIN live' PROVE g[k] >= live'[k] + OVERHEAD
      <3>1. CASE k = c
        BY <2>3, <2>5, <3>1
      <3>2. CASE k # c
        <4>1. k \in DOMAIN live /\ live'[k] = live[k] /\ g[k] = f[k]
          BY <1>2, <2>3, <2>5, <2>7, <3>2
        <4>2. f[k] >= live[k] + OVERHEAD
          BY <1>1, <4>1 DEF Serves
        <4> QED
          BY <4>1, <4>2
      <3> QED
        BY <3>1, <3>2
    <2>8. Serves(dyn', live', g, G, q)
      BY <2>3, <2>4, <2>6, <2>7 DEF Serves
    <2> QED
      BY <2>8, Zenon DEF DynamicInv
  <1> QED
    BY <1>3, <1>4

LEMMA DeallocateServes ==
  ASSUME DynamicInv, Deallocate
  PROVE  DynamicInv'
  <1>1. PICK f, F, pos : Serves(dyn, live, f, F, pos)
    BY DEF DynamicInv, Deallocate
  <1>2. PICK c \in DOMAIN live : /\ dyn' = dynamic_deallocate(dyn, c)
                                 /\ live' = [k \in DOMAIN live \ {c} |-> live[k]]
    BY DEF Deallocate
  <1>3. AtRest(dyn, f, F, pos) /\ DOMAIN live = DOMAIN f \ F
    BY <1>1 DEF Serves
  <1>4. PICK g, G, q : /\ AtRest(dynamic_deallocate(dyn, c), g, G, q)
                       /\ DOMAIN g \ G = (DOMAIN f \ F) \ {c}
                       /\ \A e \in (DOMAIN f \ F) \ {c} : g[e] = f[e]
    BY <1>2, <1>3, DeallocateIs
  <1>5. DOMAIN live' = DOMAIN g \ G
    BY <1>2, <1>3, <1>4
  <1>6. ASSUME NEW k \in DOMAIN live' PROVE g[k] >= live'[k] + OVERHEAD
    <2>1. k \in DOMAIN live /\ live'[k] = live[k] /\ g[k] = f[k]
      BY <1>2, <1>3, <1>4, <1>6
    <2>2. f[k] >= live[k] + OVERHEAD
      BY <1>1, <2>1 DEF Serves
    <2> QED
      BY <2>1, <2>2
  <1>7. Serves(dyn', live', g, G, q)
    BY <1>2, <1>4, <1>5, <1>6 DEF Serves
  <1> QED
    BY <1>7, Zenon DEF DynamicInv

LEMMA ResetKeepsServing ==
  ASSUME DynamicInv, Reset
  PROVE  DynamicInv'
  <1>1. PICK f, F, pos : Serves(dyn, live, f, F, pos)
    BY DEF DynamicInv, Reset
  <1>2. dyn.size \in Nat /\ Cut(f, dyn.size)
    BY <1>1 DEF Serves, AtRest, Heap, IsMemory
  <1>3. 0 \in DOMAIN f
    BY <1>2 DEF Cut
  <1>4. f[0] \in Nat /\ f[0] >= MIN_SIZE /\ 0 + f[0] <= dyn.size
    BY <1>2, <1>3, CutIs
  <1>5. dyn.size >= MIN_SIZE
    BY <1>2, <1>4, DynamicAssumption
  <1>6. dyn' = dynamic_reset(dyn.size) /\ live' = <<>>
    BY DEF Reset
  <1>7. \E g, G, q : Serves(dyn', live', g, G, q)
    BY <1>2, <1>5, <1>6, ResetServes
  <1> QED
    BY <1>7, Zenon DEF DynamicInv

\* The allocator is set up in the memory that was mapped for it.
LEMMA ScheduleRemoveServes ==
  ASSUME MemoryInv, DynamicInv, ScheduleRemove
  PROVE  DynamicInv'
  <1>1. CASE job.kind # "dynamic"
    BY <1>1 DEF ScheduleRemove, DynamicInv
  <1>2. CASE job.kind = "dynamic"
    <2>1. job.n \in Nat \ {0}
      BY JobIs DEF ScheduleRemove, At
    <2>2. Span \in Nat /\ Span >= MIN_SIZE
      BY MicaMemoryAssumption
    <2> DEFINE n == job.n * Span
    <2>3. 1 * Span <= job.n * Span
      BY <2>1, <2>2, MulMono
    <2>4. n \in Nat /\ n >= MIN_SIZE
      <3>1. n \in Nat
        BY <2>1, <2>2
      <3> QED
        BY <2>2, <2>3, <3>1, DynamicAssumption
    <2>5. dyn' = dynamic_reset(n) /\ live' = <<>>
      BY <1>2 DEF ScheduleRemove
    <2> HIDE DEF n
    <2>6. \E g, G, q : Serves(dyn', live', g, G, q)
      BY <2>4, <2>5, ResetServes
    <2> QED
      BY <2>6, Zenon DEF DynamicInv
  <1> QED
    BY <1>1, <1>2

LEMMA DynamicKept ==
  ASSUME DynamicInv, UNCHANGED <<dyn, live>>
  PROVE  DynamicInv'
  BY DEF DynamicInv

LEMMA DynamicStep == MemoryInv /\ DynamicInv /\ [Next]_vars => DynamicInv'
  <1> SUFFICES ASSUME MemoryInv, DynamicInv, [Next]_vars PROVE DynamicInv'
    OBVIOUS
  <1>1. ASSUME NEW kind \in build.kinds, NEW n \in Sizes, Begin(kind, n) \/ OutOfMemory(kind, n)
        PROVE  DynamicInv'
    BY <1>1, DynamicKept DEF Begin, OutOfMemory
  <1>2. CASE NoAddress \/ MapObject \/ MapAlias \/ AliasFails
    BY <1>2, DynamicKept DEF NoAddress, MapObject, MapAlias, AliasFails
  <1>3. CASE StartStripes \/ MapStripe \/ EndStripes \/ UnmapStripe
    BY <1>3, DynamicKept DEF StartStripes, MapStripe, EndStripes, UnmapStripe
  <1>4. CASE MapFails \/ UNCHANGED vars
    BY <1>4, DynamicKept DEF MapFails, vars
  <1>5. CASE ScheduleRemove
    BY <1>5, ScheduleRemoveServes
  <1>6. CASE Free
    <2>1. UNCHANGED <<dyn, live>> \/ dyn' = None
      BY <1>6 DEF Free
    <2> QED
      BY <2>1, DynamicKept DEF DynamicInv
  <1>7. ASSUME NEW item_size \in build.items, Allocate(item_size) PROVE DynamicInv'
    BY <1>7, AllocateServes
  <1>8. CASE Deallocate
    BY <1>8, DeallocateServes
  <1>9. CASE Reset
    BY <1>9, ResetKeepsServing
  <1> QED
    BY <1>1, <1>2, <1>3, <1>4, <1>5, <1>6, <1>7, <1>8, <1>9, Zenon DEF Next

\* After any sequence of allocations, frees and resets the tags lead from chunk
\* to chunk through all of the memory, the lists hold the free chunks, each in
\* its class and linked both ways, every item has a chunk that is large enough
\* and is on no list, and no two free chunks are neighbours.
THEOREM ChunksStayConsistent == Spec => []ChunksConsistent
  <1>1. Init => DynamicInv
    BY DEF Init, DynamicInv
  <1>2. DynamicInv => ChunksConsistent
    <2> SUFFICES ASSUME DynamicInv, dyn # None PROVE ChunksConsistent
      BY Zenon DEF ChunksConsistent, ChunksTile, ItemsHeld
    <2>1. PICK f, F, pos : Serves(dyn, live, f, F, pos)
      BY DEF DynamicInv
    <2>2. /\ AtRest(dyn, f, F, pos) /\ DOMAIN live = DOMAIN f \ F
          /\ \A c \in DOMAIN live : f[c] >= live[c] + OVERHEAD
      BY <2>1 DEF Serves
    <2>3. ChunksTile
      BY <2>2, RestReads, Zenon DEF ChunksTile, Classes
    <2>4. ItemsHeld
      <3>1. \A c \in DOMAIN live : dyn.tag[c].size >= live[c] + OVERHEAD
        BY <2>2, RestReads
      <3>2. {c \in Chunks(dyn) : dyn.tag[c].status = "occupied"} = DOMAIN live
        BY <2>2, RestReads
      <3>3. \A c \in Chunks(dyn) : c + dyn.tag[c].size \in Chunks(dyn) =>
              ~ (dyn.tag[c].status = "free" /\ dyn.tag[c + dyn.tag[c].size].status = "free")
        BY <2>2, RestReads, Zenon
      <3> QED
        BY <3>1, <3>2, <3>3, Zenon DEF ItemsHeld
    <2> QED
      BY <2>3, <2>4 DEF ChunksConsistent
  <1> QED
    BY <1>1, <1>2, MemoryInvariant, DynamicStep, PTL DEF Spec

=============================================================================

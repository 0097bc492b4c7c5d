----------------------------- MODULE MicaMemory -----------------------------
(***************************************************************************)
(* Who uses the shared memory of MICA (module MicaShm) and how: the init   *)
(* and free functions of alloc_pool.c, of table.c for the buckets, of      *)
(* alloc_dynamic.c, and the contiguous and striped mallocs of shm.c.  Each *)
(* allocates an entry, looks for a free address range until the entry can  *)
(* be mapped there, and schedules the entry's removal, which takes place   *)
(* when the last mapping goes.  A pool is mapped once more, one page of    *)
(* it, right behind its end; a striped object is mapped page by page.      *)
(* One thread does all this, one object at a time; an mmap may fail at any *)
(* time.                                                                   *)
(*                                                                         *)
(* The dynamic allocator (module MicaDynamic) then hands out what it has   *)
(* mapped.  A page holds Span words; an address is a page number.          *)
(***************************************************************************)
EXTENDS Integers, Sequences, FiniteSets, MicaShm, MicaDynamic

CONSTANTS
  Builds,       \* what is used: [kinds, nodes, items], see MCMicaMemory
  Sizes,        \* sizes of the objects created, in pages
  PoolSizes,    \* powers of two, up to the largest pool
  Addresses,    \* addresses mmap hands out
  Span,         \* words of a page
  PagesPerNode, \* num_pages_to_reserve of a node
  None          \* no call under way; no dynamic allocator

Kinds == {"table", "pool", "contiguous", "striped", "dynamic"}

\* A call that makes or frees an object: where it is, and for a striped object
\* how many pages it has mapped, and how many of these it has unmapped again.
Jobs == [kind : Kinds, at : {"map", "alias", "schedule", "stripe", "clean", "free"}, n : Nat \ {0},
         entries : Seq(1 .. MAX_ENTRIES), base : Nat, mapped : Nat, cleaned : Nat]

ASSUME MicaMemoryAssumption ==
  /\ MAX_ENTRIES \in Nat /\ MAX_MAPPINGS \in Nat
  /\ Sizes \subseteq Nat \ {0} /\ Addresses \subseteq Nat \ {0}
  /\ PoolSizes \subseteq Nat /\ \A n \in Sizes : \E p \in PoolSizes : p >= n
  /\ \A b \in Builds : b.kinds \subseteq Kinds /\ b.nodes \in Seq(Nat)
  /\ \A b \in Builds : \A n \in b.items : n \in Nat /\ n + OVERHEAD >= MIN_SIZE
  /\ Span \in Nat /\ Span >= MIN_SIZE
  /\ None \notin Jobs

VARIABLES
  build,
  sh,       \* pages, entries and mappings
  job,      \* the call under way, one of Jobs
  objects,  \* the objects there are: [kind, n, entries, base]
  dyn,      \* the dynamic allocator
  live,     \* what it has allocated: chunk start to item size
  aborted   \* an assertion has failed

vars == <<build, sh, job, objects, dyn, live, aborted>>

Init ==
  /\ build \in Builds
  /\ sh = mehcached_shm_init(build.nodes, PagesPerNode)
  /\ job = None /\ objects = {} /\ dyn = None /\ live = <<>>
  /\ aborted = FALSE

-----------------------------------------------------------------------------
(***************************************************************************)
(* Making an object.                                                       *)
(***************************************************************************)

\* The mallocs return NULL; the others assert that they got their memory.
MayFail(kind) == kind \in {"contiguous", "striped"}

\* Pages of each entry: a striped object has two more pages, for metadata, and
\* half of it is on either node; a pool is a power of two.
EntryPages(kind, n) ==
  CASE kind = "striped" -> (n + 3) \div 2
    [] kind = "pool"    -> Lowest({p \in PoolSizes : p >= n})
    [] OTHER            -> n

Begin(kind, n) ==
  LET pages == EntryPages(kind, n)
      job0  == [kind |-> kind, at |-> "map", n |-> IF kind = "striped" THEN n + 2 ELSE pages,
                entries |-> <<AllocEntry(sh)>>, base |-> 0, mapped |-> 0, cleaned |-> 0]
      sh1   == mehcached_shm_alloc(sh, pages, 0)
  IN  /\ job = None
      /\ kind = "dynamic" => dyn = None
      /\ CanAlloc(sh, pages, 0)
      /\ \/ kind # "striped" /\ sh' = sh1 /\ job' = job0
         \/ kind = "striped" /\ CanAlloc(sh1, pages, 1)
            /\ sh' = mehcached_shm_alloc(sh1, pages, 1)
            /\ job' = [job0 EXCEPT !.entries = @ \o <<AllocEntry(sh1)>>]
         \/ kind = "striped" /\ ~ CanAlloc(sh1, pages, 1)
            /\ sh' = mehcached_shm_schedule_remove(sh1, AllocEntry(sh)) /\ job' = None
      /\ UNCHANGED <<build, objects, dyn, live, aborted>>

OutOfMemory(kind, n) ==
  /\ job = None
  /\ kind = "dynamic" => dyn = None
  /\ ~ CanAlloc(sh, EntryPages(kind, n), 0)
  /\ aborted' = ~ MayFail(kind)
  /\ UNCHANGED <<build, sh, job, objects, dyn, live>>

At(at) == job # None /\ job.at = at

\* mehcached_shm_find_free_address: any range that nothing is mapped at.  A
\* pool asks for room for its alias too.
FreeAddresses ==
  {a \in Addresses :
     LET range == a .. a + job.n - (IF job.kind = "pool" THEN 0 ELSE 1)
     IN  range \subseteq Addresses /\ range \intersect MappedAt(sh) = {}}

Removal(s, entries) ==
  IF Len(entries) = 1 THEN mehcached_shm_schedule_remove(s, entries[1])
  ELSE mehcached_shm_schedule_remove(mehcached_shm_schedule_remove(s, entries[1]), entries[2])

\* No address: the mallocs give the memory back, the others assert.
NoAddress ==
  /\ At("map")
  /\ IF MayFail(job.kind) THEN sh' = Removal(sh, job.entries) /\ job' = None /\ UNCHANGED aborted
                          ELSE aborted' = TRUE /\ UNCHANGED <<sh, job>>
  /\ UNCHANGED <<build, objects, dyn, live>>

MapObject ==
  /\ At("map") /\ job.kind # "striped"
  /\ CanMap(sh, job.entries[1], 0, job.n)
  /\ \E base \in FreeAddresses :
       /\ sh' = mehcached_shm_map(sh, job.entries[1], base, job.n)
       /\ job' = [job EXCEPT !.base = base, !.at = IF job.kind = "pool" THEN "alias" ELSE "schedule"]
  /\ UNCHANGED <<build, objects, dyn, live, aborted>>

\* mehcached_shm_map fails: the loop looks for another address.
MapFails ==
  /\ At("map") /\ job.kind # "striped"
  /\ UNCHANGED vars

\* The first page of a pool again behind its end, so that an item may run past it.
MapAlias ==
  /\ At("alias")
  /\ CanMap(sh, job.entries[1], 0, 1)
  /\ sh' = mehcached_shm_map(sh, job.entries[1], job.base + job.n, 1)
  /\ job' = [job EXCEPT !.at = "schedule"]
  /\ UNCHANGED <<build, objects, dyn, live, aborted>>

\* The loop of the init functions and of the mallocs from its top.
Again == [job EXCEPT !.at = "map", !.base = 0, !.mapped = 0, !.cleaned = 0]

AliasFails ==
  /\ At("alias")
  /\ sh' = mehcached_shm_unmap(sh, job.base)
  /\ job' = Again
  /\ UNCHANGED <<build, objects, dyn, live, aborted>>

Object == [kind |-> job.kind, n |-> job.n, entries |-> job.entries, base |-> job.base]

ScheduleRemove ==
  /\ At("schedule")
  /\ sh' = Removal(sh, job.entries)
  /\ objects' = objects \union {Object}
  /\ job' = None
  /\ IF job.kind = "dynamic" THEN dyn' = dynamic_reset(job.n * Span) /\ live' = <<>> ELSE UNCHANGED <<dyn, live>>
  /\ UNCHANGED <<build, aborted>>

\* The pages of a striped object are mapped one by one, and alternate between
\* its entries.
StartStripes ==
  /\ At("map") /\ job.kind = "striped"
  /\ \E base \in FreeAddresses : job' = [job EXCEPT !.base = base, !.at = "stripe"]
  /\ UNCHANGED <<build, sh, objects, dyn, live, aborted>>

StripeEntry(i) == job.entries[(i % 2) + 1]

MapStripe ==
  /\ At("stripe") /\ job.mapped < job.n
  /\ CanMap(sh, StripeEntry(job.mapped), job.mapped \div 2, 1)
  /\ sh' = mehcached_shm_map(sh, StripeEntry(job.mapped), job.base + job.mapped, 1)
  /\ job' = [job EXCEPT !.mapped = @ + 1]
  /\ UNCHANGED <<build, objects, dyn, live, aborted>>

\* All are mapped, or the next one cannot be.  The removal of both entries is
\* scheduled after the first attempt, whether it succeeded or not.
EndStripes ==
  /\ At("stripe")
  /\ sh' = Removal(sh, job.entries)
  /\ IF job.mapped = job.n
       THEN objects' = objects \union {Object} /\ job' = None
       ELSE /\ job' = IF job.mapped = 0 THEN Again ELSE [job EXCEPT !.at = "clean"]
            /\ UNCHANGED objects
  /\ UNCHANGED <<build, dyn, live, aborted>>

\* What was mapped goes page by page, after a failed attempt and when a striped
\* object is freed.
UnmapStripe ==
  /\ At("clean") \/ At("free")
  /\ sh' = mehcached_shm_unmap(sh, job.base + job.cleaned)
  /\ job' = IF job.cleaned + 1 < job.mapped THEN [job EXCEPT !.cleaned = @ + 1]
            ELSE IF job.at = "free" THEN None ELSE Again
  /\ UNCHANGED <<build, objects, dyn, live, aborted>>

-----------------------------------------------------------------------------
(***************************************************************************)
(* Freeing an object.                                                      *)
(***************************************************************************)
FreeObject(o) ==
  IF o.kind = "pool" THEN mehcached_shm_unmap(mehcached_shm_unmap(sh, o.base), o.base + o.n)
                     ELSE mehcached_shm_unmap(sh, o.base)

Freeing(o) == [kind |-> o.kind, at |-> "free", n |-> o.n, entries |-> o.entries, base |-> o.base,
               mapped |-> o.n, cleaned |-> 0]

Free ==
  /\ job = None
  /\ \E o \in objects :
       /\ IF o.kind = "striped" THEN job' = Freeing(o) /\ UNCHANGED sh
                                ELSE sh' = FreeObject(o) /\ UNCHANGED job
       /\ objects' = objects \ {o}
       /\ IF o.kind = "dynamic" THEN dyn' = None /\ live' = <<>> ELSE UNCHANGED <<dyn, live>>
  /\ UNCHANGED <<build, aborted>>

-----------------------------------------------------------------------------
(***************************************************************************)
(* The dynamic allocator at work.  An item lies inside its chunk, behind   *)
(* the first boundary tag.                                                 *)
(***************************************************************************)
Allocate(item_size) ==
  /\ dyn # None
  /\ ~ InsufficientSpace(dyn, item_size)
  /\ IF HeadChunkFits(dyn, item_size)
       THEN /\ dyn' = dynamic_allocate(dyn, item_size)
            /\ live' = [c \in DOMAIN live \union {HeadChunk(dyn, item_size)} |->
                          IF c = HeadChunk(dyn, item_size) THEN item_size ELSE live[c]]
            /\ UNCHANGED aborted
       ELSE aborted' = TRUE /\ UNCHANGED <<dyn, live>>
  /\ UNCHANGED <<build, sh, job, objects>>

Deallocate ==
  /\ dyn # None
  /\ \E c \in DOMAIN live :
       /\ dyn' = dynamic_deallocate(dyn, c)
       /\ live' = [k \in DOMAIN live \ {c} |-> live[k]]
  /\ UNCHANGED <<build, sh, job, objects, aborted>>

Reset ==
  /\ dyn # None
  /\ dyn' = dynamic_reset(dyn.size)
  /\ live' = <<>>
  /\ UNCHANGED <<build, sh, job, objects, aborted>>

Running == ~ aborted

Next ==
  \/ /\ Running
     /\ \/ \E kind \in build.kinds, n \in Sizes : Begin(kind, n) \/ OutOfMemory(kind, n)
        \/ NoAddress \/ MapObject \/ MapFails \/ MapAlias \/ AliasFails \/ ScheduleRemove
        \/ StartStripes \/ MapStripe \/ EndStripes \/ UnmapStripe \/ Free
        \/ \E item_size \in build.items : Allocate(item_size)
        \/ Deallocate \/ Reset
  \/ aborted /\ UNCHANGED vars

Spec == Init /\ [][Next]_vars

-----------------------------------------------------------------------------

Owned(e) == {sh.entries[e].pages[k] : k \in DOMAIN sh.entries[e].pages}

Entries == {e \in 1 .. MAX_ENTRIES : sh.entries[e].pages # <<>>}

\* The pages in use are those of the entries, no page is two entries', an entry
\* counts its mappings and no mapping outlives its entry: after any sequence of
\* creations, failed mappings and frees (check_remove and its callers in shm.c).
PagesOwned ==
  /\ \A p \in DOMAIN sh.pages : sh.pages[p].in_use <=> \E e \in Entries : p \in Owned(e)
  /\ \A e, f \in Entries : e # f => Owned(e) \intersect Owned(f) = {}
  /\ \A e \in 1 .. MAX_ENTRIES : sh.entries[e].refcount = Cardinality(Mapping(sh, e))
  /\ \A e \in 1 .. MAX_ENTRIES : Mapping(sh, e) # {} => e \in Entries

\* Addresses that an object uses.
Place(o) == o.base .. o.base + o.n - (IF o.kind = "pool" THEN 0 ELSE 1)

\* Until it is freed all of an object stays mapped, its alias included, and no
\* two objects overlap, although the removal of their entries is scheduled from
\* the start; and what is not an object's holds no memory: whatever fails on
\* the way gives everything back.
ObjectsMapped ==
  /\ \A o \in objects : Place(o) \subseteq MappedAt(sh) /\ \A k \in DOMAIN o.entries : o.entries[k] \in Entries
  /\ \A o, p \in objects : o # p => Place(o) \intersect Place(p) = {}
  /\ job = None => Entries = UNION {{o.entries[k] : k \in DOMAIN o.entries} : o \in objects}

\* Chunk boundaries: the sizes lead from the first word to the end of the
\* memory, both tags of a chunk agree, and the free lists hold the free chunks,
\* each in its class and linked both ways (insert, remove and coalesce of
\* alloc_dynamic.c).
ChunksTile ==
  dyn # None =>
    /\ \A c \in Chunks(dyn) :
         /\ c + dyn.tag[c].size <= dyn.size
         /\ dyn.tag[c].size >= MIN_SIZE
         /\ dyn.tag[c + dyn.tag[c].size - 1] = dyn.tag[c]
    /\ \A k \in 0 .. NUM_CLASSES-1 :
         /\ Listed(dyn, k) = {c \in Chunks(dyn) : dyn.tag[c].status = "free"
                                                  /\ size_to_class_rounddown(dyn.tag[c].size) = k}
         /\ \A c \in Listed(dyn, k) : dyn.prev[c] = -1 <=> dyn.free_head[k] = c
         /\ \A c \in Listed(dyn, k) : dyn.next[c] # -1 => dyn.prev[dyn.next[c]] = c

\* Every item allocated and not freed has an occupied chunk that is large
\* enough, no chunk is occupied without one, and no two free chunks are
\* neighbours: what is freed is merged with what is free around it.
ItemsHeld ==
  dyn # None =>
    /\ {c \in Chunks(dyn) : dyn.tag[c].status = "occupied"} = DOMAIN live
    /\ \A c \in DOMAIN live : dyn.tag[c].size >= live[c] + OVERHEAD
    /\ \A c \in Chunks(dyn) : c + dyn.tag[c].size \in Chunks(dyn) =>
         ~ (dyn.tag[c].status = "free" /\ dyn.tag[c + dyn.tag[c].size].status = "free")

\* Both together: after any sequence of allocations and frees the memory of the
\* dynamic allocator is what its tags and lists say.
ChunksConsistent == ChunksTile /\ ItemsHeld

=============================================================================

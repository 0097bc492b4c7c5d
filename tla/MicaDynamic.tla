---------------------------- MODULE MicaDynamic ----------------------------
(***************************************************************************)
(* The segregated-fit allocator of MICA (ported-mica/alloc_dynamic.c).     *)
(* Memory is cut into chunks; the first and the last word of a chunk hold  *)
(* its size and status, and a free chunk is on the doubly linked list of   *)
(* its size class, through its second and third word.  Sizes are in words  *)
(* of 8 bytes.                                                             *)
(***************************************************************************)
EXTENDS Integers, FiniteSets

CONSTANTS
  OVERHEAD,         \* MEHCAHCED_DYNAMIC_OVERHEAD
  MIN_SIZE,         \* MEHCACHED_DYNAMIC_MIN_SIZE
  NUM_CLASSES,      \* MEHCACHED_DYNAMIC_NUM_CLASSES
  CLASS_INCREMENT   \* MEHCACHED_DYNAMIC_CLASS_INCREMENT

ASSUME DynamicAssumption ==
  OVERHEAD \in Nat /\ MIN_SIZE \in Nat \ {0} /\ NUM_CLASSES \in Nat \ {0} /\ CLASS_INCREMENT \in Nat \ {0}

NULL == -1

Classes == 0 .. NUM_CLASSES-1

size_to_class_roundup(size) ==
  IF size <= MIN_SIZE + (NUM_CLASSES - 1) * CLASS_INCREMENT
    THEN (size - MIN_SIZE + CLASS_INCREMENT - 1) \div CLASS_INCREMENT
    ELSE NUM_CLASSES - 1

size_to_class_rounddown(size) ==
  IF size < MIN_SIZE + NUM_CLASSES * CLASS_INCREMENT
    THEN (size - MIN_SIZE) \div CLASS_INCREMENT
    ELSE NUM_CLASSES - 1

\* What a word holds that is no tag: an item's bytes, or what is left of them.
Garbage == [size |-> 0, status |-> "garbage"]

\* Both boundary tags of a chunk.  Its other words belong to the item, or to
\* nobody.
Tagged(d, start, size, status) ==
  LET last   == start + size - 1
      Inside == start .. last
  IN  [d EXCEPT !.tag  = [i \in DOMAIN @ |-> IF i \in {start, last} THEN [size |-> size, status |-> status]
                                             ELSE IF i \in Inside THEN Garbage ELSE @[i]],
                !.prev = [i \in DOMAIN @ |-> IF i \in Inside THEN NULL ELSE @[i]],
                !.next = [i \in DOMAIN @ |-> IF i \in Inside THEN NULL ELSE @[i]]]

insert_free_chunk(d, start, size) ==
  LET class == size_to_class_rounddown(size)
      head  == d.free_head[class]
      t     == Tagged(d, start, size, "free")
  IN  [t EXCEPT !.prev = [i \in DOMAIN @ |-> IF i = start THEN NULL ELSE IF i = head THEN start ELSE @[i]],
                !.next[start] = head,
                !.free_head[class] = start]

remove_free_chunk_from_free_list(d, start, size) ==
  LET prev == d.prev[start]
      next == d.next[start]
  IN  [d EXCEPT
         !.next = [i \in DOMAIN @ |-> IF i = prev THEN next ELSE @[i]],
         !.prev = [i \in DOMAIN @ |-> IF i = next THEN prev ELSE @[i]],
         !.free_head = [c \in Classes |-> IF prev = NULL /\ c = size_to_class_rounddown(size) THEN next ELSE @[c]]]

\* The whole memory as one free chunk.
dynamic_reset(size) ==
  insert_free_chunk([size |-> size,
                     tag  |-> [i \in 0 .. size-1 |-> Garbage],
                     prev |-> [i \in 0 .. size-1 |-> NULL], next |-> [i \in 0 .. size-1 |-> NULL],
                     free_head |-> [c \in Classes |-> NULL]],
                    0, size)

-----------------------------------------------------------------------------

minimum_chunk_size(item_size) == item_size + OVERHEAD

\* The first chunk of the lowest class that is large enough and has one.
FittingClasses(d, item_size) ==
  {c \in Classes : c >= size_to_class_roundup(minimum_chunk_size(item_size)) /\ d.free_head[c] # NULL}

InsufficientSpace(d, item_size) == FittingClasses(d, item_size) = {}

HeadChunk(d, item_size) ==
  d.free_head[CHOOSE c \in FittingClasses(d, item_size) : \A k \in FittingClasses(d, item_size) : c <= k]

\* assert(chunk_size >= minimum_chunk_size)
HeadChunkFits(d, item_size) == d.tag[HeadChunk(d, item_size)].size >= minimum_chunk_size(item_size)

\* What is left of the chunk becomes one of its own if it can.
dynamic_allocate(d, item_size) ==
  LET start    == HeadChunk(d, item_size)
      size     == d.tag[start].size
      minimum  == minimum_chunk_size(item_size)
      removed  == remove_free_chunk_from_free_list(d, start, size)
  IN  IF size - minimum >= MIN_SIZE
        THEN Tagged(insert_free_chunk(removed, start + minimum, size - minimum), start, minimum, "occupied")
        ELSE Tagged(removed, start, size, "occupied")

\* A chunk with its free neighbours, off their lists.
coalese_free_chunk_leftBug(d, start, size) == [d |-> d, start |-> start, size |-> size]

coalese_free_chunk_left(d, start, size) ==
  IF start = 0 \/ d.tag[start - 1].status = "occupied" THEN [d |-> d, start |-> start, size |-> size]
  ELSE LET adj == d.tag[start - 1].size
       IN  [d |-> remove_free_chunk_from_free_list(d, start - adj, adj), start |-> start - adj, size |-> size + adj]

coalese_free_chunk_right(d, start, size) ==
  IF start + size = d.size \/ d.tag[start + size].status = "occupied" THEN [d |-> d, start |-> start, size |-> size]
  ELSE LET adj == d.tag[start + size].size
       IN  [d |-> remove_free_chunk_from_free_list(d, start + size, adj), start |-> start, size |-> size + adj]

dynamic_deallocate(d, start) ==
  LET left  == coalese_free_chunk_left(d, start, d.tag[start].size)
      right == coalese_free_chunk_right(left.d, left.start, left.size)
  IN  insert_free_chunk(right.d, right.start, right.size)

-----------------------------------------------------------------------------

\* The starts of the chunks, found by their sizes from the first word on.
Chunks(d) ==
  LET reach[n \in 0 .. d.size] == IF n = 0 THEN {0}
                                  ELSE reach[n-1] \union {s + d.tag[s].size : s \in reach[n-1] \ {d.size}}
  IN  reach[d.size \div MIN_SIZE] \ {d.size}

\* What is on the list of a class.
Listed(d, c) ==
  LET reach[n \in 0 .. d.size] == IF n = 0 THEN {d.free_head[c]} \ {NULL}
                                  ELSE reach[n-1] \union ({d.next[s] : s \in reach[n-1]} \ {NULL})
  IN  reach[d.size \div MIN_SIZE]

=============================================================================

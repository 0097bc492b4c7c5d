----------------------------- MODULE MicaPool -----------------------------
(***************************************************************************)
(* The circular log of MICA (ported-mica/alloc_pool.c).  head and tail     *)
(* only grow; an offset given out is the tail modulo Span, and its place   *)
(* in the data is the offset modulo the size of the log.  Sizes are in     *)
(* words: an item is one word of header and key, then those of its value.  *)
(***************************************************************************)
LOCAL INSTANCE Integers

CONSTANTS
  Span,  \* MEHCACHED_ITEM_OFFSET_MASK + 1
  None   \* no key, no value

\* What a word holds before anything is written to it.
Blank == [item_size |-> 0, key |-> None, val |-> None]

mehcached_pool_init(size) ==
  [size |-> size, head |-> 0, tail |-> 0, data |-> [i \in 0 .. size-1 |-> Blank]]

mehcached_pool_reset(pool) == [pool EXCEPT !.head = 0, !.tail = 0]

Place(pool, offset) == offset % pool.size

mehcached_pool_item(pool, offset) == pool.data[Place(pool, offset)]

\* The header of the item at head says where the next one starts.
mehcached_pool_pop_head(pool) ==
  [pool EXCEPT !.head = @ + mehcached_pool_item(pool, pool.head).item_size]

\* Items are popped until the new one fits; an item has at least one word.
NoSpace(pool, item_size) == pool.tail + item_size > pool.head + pool.size

MadeRoom(pool, item_size) ==
  LET popped[n \in 0 .. pool.size] ==
        IF n = 0 THEN pool
        ELSE IF NoSpace(popped[n-1], item_size) THEN mehcached_pool_pop_head(popped[n-1])
        ELSE popped[n-1]
  IN  popped[pool.size]

mehcached_pool_push_tail(pool, item_size) ==
  [MadeRoom(pool, item_size) EXCEPT
     !.data[Place(pool, pool.tail)].item_size = item_size,
     !.tail = @ + item_size]

\* The offset of the item that mehcached_pool_push_tail makes room for.
NewOffset(pool) == pool.tail % Span

mehcached_pool_is_valid(pool, offset) == (pool.tail - offset) % Span <= pool.size

\* Writing the key or one word of the value of the item at an offset.
WriteKey(pool, offset, key) ==
  [pool EXCEPT !.data[Place(pool, offset)].key = key, !.data[Place(pool, offset)].val = None]

WriteValue(pool, offset, n, val) ==
  [pool EXCEPT !.data[Place(pool, offset + n)] = [Blank EXCEPT !.val = val]]

\* The log from head on is a sequence of items that ends at tail and fits
\* (mehcached_pool_check_invariants).
Tiled(pool) ==
  LET reach[n \in 0 .. pool.size] ==
        IF n = 0 THEN pool.head
        ELSE IF reach[n-1] < pool.tail
               THEN reach[n-1] + mehcached_pool_item(pool, reach[n-1]).item_size
               ELSE reach[n-1]
  IN  reach[pool.size] = pool.tail /\ pool.tail - pool.head <= pool.size

=============================================================================

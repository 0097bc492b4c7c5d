----------------------------- MODULE MicaTable -----------------------------
(***************************************************************************)
(* The key-value table of MICA as mica/main.c builds it: buckets of item   *)
(* vectors (a tag and an offset into the circular log), a version per      *)
(* bucket that is odd while the bucket is locked, and readers that take no *)
(* lock but read the version before and after (ported-mica/table.c).       *)
(* Eviction is on, so a bucket has no extra buckets.                       *)
(*                                                                         *)
(* Every lcore alternates SET and GET (mica_process5tuple), on keys whose  *)
(* last word is padded with whatever follows the 13 bytes of the five      *)
(* tuple.  With one polling lcore the table is not concurrent and nothing  *)
(* is locked.  Between two steps of an lcore the others may run; a step    *)
(* that only touches what a lock it holds protects is not cut further.     *)
(***************************************************************************)
EXTENDS Integers, FiniteSets, MicaPool

CONSTANTS
  Builds,          \* ways to build the table
  NumBuckets,      \* a power of two
  ItemsPerBucket   \* MEHCACHED_ITEMS_PER_BUCKET

\* A build has its lcores, whether the library is used beyond GET and SET, its
\* keys (bucket, tag and number of words), the keys loaded at start, the
\* paddings seen, the size of the log, mth_threshold, and bounds on the
\* operations of an lcore and on the tail.  The log is a power of two below
\* half of the offsets, which are one too (alloc_pool.c:26, common.h:38); with
\* several lcores the threshold is the whole log (main.c:1021).
ASSUME MicaTableAssumption ==
  /\ NumBuckets \in Nat \ {0} /\ ItemsPerBucket \in Nat \ {0} /\ Span \in Nat \ {0}
  /\ \A x \in Builds :
       /\ IsFiniteSet(x.lcores) /\ x.lcores # {} /\ x.lcores \subseteq Nat /\ None \notin x.lcores
       /\ x.pool_size \in Nat \ {0} /\ 4 * x.pool_size <= Span /\ Span % x.pool_size = 0
       /\ \A k \in x.keys : k.bucket \in 0 .. NumBuckets-1 /\ k.tag # 0 /\ k.size \in 2 .. x.pool_size
       /\ x.default \subseteq x.keys
       /\ x.mth_threshold \in Nat
       /\ Cardinality(x.lcores) > 1 => x.mth_threshold >= x.pool_size

VARIABLES
  build,    \* how the table was built
  phase,    \* "load", "poll" or "freed"
  version,  \* version of each bucket
  item_vec, \* the item vectors of each bucket
  pool,     \* the log
  plock,    \* the lcore that holds the lock of the log
  flag,     \* get_set_toggle: whether the lcore's next request is a GET
  ops,      \* operations each lcore has begun
  pc,       \* where each lcore is
  req,      \* the locals of its operation
  last,     \* history: for each key, the value of the last SET
  result    \* history: what the last GET of each lcore returned

vars == <<build, phase, version, item_vec, pool, plock, flag, ops, pc, req, last, result>>

Buckets == 0 .. NumBuckets-1
Slots   == 0 .. ItemsPerBucket-1
Lcores  == build.lcores
AnyLcore == UNION {x.lcores : x \in Builds}

\* concurrent_table_read, _write and _alloc_write are all this.
concurrent == Cardinality(Lcores) > 1

Empty == [tag |-> 0, offset |-> 0, at |-> 0]

Init ==
  /\ build \in Builds
  /\ phase = "load"
  /\ version = [b \in Buckets |-> 0]
  /\ item_vec = [b \in Buckets |-> [s \in Slots |-> Empty]]
  /\ pool = mehcached_pool_init(build.pool_size)
  /\ plock = None
  /\ flag = [l \in Lcores |-> FALSE]
  /\ ops = [l \in Lcores |-> 0]
  /\ pc = [l \in Lcores |-> "idle"]
  /\ req = [l \in Lcores |-> None]
  /\ last = [k \in build.keys |-> None]
  /\ result = [l \in Lcores |-> None]

Goto(l, where) == pc' = [pc EXCEPT ![l] = where]

-----------------------------------------------------------------------------
(***************************************************************************)
(* Locks and lookups.                                                      *)
(***************************************************************************)
mehcached_lock_bucket(b)   == concurrent => version[b] % 2 = 0

Versions(b, n) == IF concurrent THEN [version EXCEPT ![b] = @ + n] ELSE version

mehcached_pool_lock == concurrent => plock = None

\* The lowest slot of the set, or ItemsPerBucket.
First(slots) == IF slots = {} THEN ItemsPerBucket ELSE CHOOSE s \in slots : \A t \in slots : s <= t

\* A key matches with the padding that was there when it was written: both
\* are compared in whole words (mehcached_memcmp8).
mehcached_find_item_index(b, key, pad) ==
  First({s \in Slots :
           /\ item_vec[b][s].tag = key.tag
           /\ mehcached_pool_item(pool, item_vec[b][s].offset).key = [key |-> key, pad |-> pad]})

mehcached_find_same_tagBug(b, tag) == ItemsPerBucket

mehcached_find_same_tag(b, tag) == First({s \in Slots : item_vec[b][s].tag = tag})

\* The comparison keeps the smallest distance from the tail.
mehcached_find_empty_or_oldest(b) ==
  LET empty       == {s \in Slots : item_vec[b][s] = Empty}
      distance(s) == (pool.tail - item_vec[b][s].offset) % Span
  IN  IF empty # {} THEN First(empty)
      ELSE First({s \in Slots : \A t \in Slots : distance(s) <= distance(t)})

\* The slot that a SET of a key that was not found takes.
SlotFor(b, tag) ==
  IF mehcached_find_same_tag(b, tag) # ItemsPerBucket
    THEN mehcached_find_same_tag(b, tag)
    ELSE mehcached_find_empty_or_oldest(b)

-----------------------------------------------------------------------------
(***************************************************************************)
(* SET.                                                                    *)
(***************************************************************************)
Request(op, key, pad, val) ==
  [op |-> op, key |-> key, pad |-> pad, val |-> val, slot |-> 0, found |-> FALSE,
   offset |-> 0, at |-> 0, word |-> 0, version |-> 0, from |-> 0, to |-> 0, copy |-> {}]

\* main() loads the default keys, which are whole words, and will not overwrite.
Load(l, key) ==
  /\ phase = "load"
  /\ pc[l] = "idle"
  /\ key \in build.default
  /\ last[key] = None
  /\ \A k \in build.default : last[k] = None => k.id >= key.id
  /\ req' = [req EXCEPT ![l] = Request("add", key, 0, [id |-> key.id, by |-> l, n |-> 0])]
  /\ Goto(l, "set_lock")
  /\ UNCHANGED <<build, phase, version, item_vec, pool, plock, flag, ops, last, result>>

Launch ==
  /\ phase = "load"
  /\ \A l \in Lcores : pc[l] = "idle"
  /\ \A k \in build.default : last[k] # None
  /\ phase' = "poll"
  /\ UNCHANGED <<build, version, item_vec, pool, plock, flag, ops, pc, req, last, result>>

\* mica_process5tuple: the lcore's toggle says which operation it is.
Process5tuple(l, key, pad) ==
  /\ phase = "poll"
  /\ pc[l] = "idle"
  /\ ops[l] < build.max_ops
  /\ pool.tail < build.max_tail
  /\ ops' = [ops EXCEPT ![l] = @ + 1]
  /\ flag' = [flag EXCEPT ![l] = ~ @]
  /\ req' = [req EXCEPT ![l] = Request(IF flag[l] THEN "get" ELSE "set", key, pad, [id |-> key.id, by |-> l, n |-> ops[l] + 1])]
  /\ Goto(l, IF flag[l] THEN "get_version" ELSE "set_lock")
  /\ UNCHANGED <<build, phase, version, item_vec, pool, plock, last, result>>

SetLock(l) ==
  LET b == req[l].key.bucket
  IN  /\ pc[l] = "set_lock"
      /\ mehcached_lock_bucket(b)
      /\ version' = Versions(b, 1)
      /\ Goto(l, "set_find")
      /\ UNCHANGED <<build, phase, item_vec, pool, plock, flag, ops, req, last, result>>

SetFind(l) ==
  LET r    == req[l]
      b    == r.key.bucket
      slot == mehcached_find_item_index(b, r.key, r.pad)
  IN  /\ pc[l] = "set_find"
      /\ \/ /\ slot # ItemsPerBucket /\ r.op = "add"   \* already exists but cannot overwrite
            /\ version' = Versions(b, 1)
            /\ Goto(l, "idle")
            /\ UNCHANGED req
         \/ /\ ~ (slot # ItemsPerBucket /\ r.op = "add")
            /\ req' = [req EXCEPT ![l].slot = IF slot # ItemsPerBucket THEN slot ELSE SlotFor(b, r.key.tag),
                                  ![l].found = slot # ItemsPerBucket]
            /\ Goto(l, "set_allocate")
            /\ UNCHANGED version
      /\ UNCHANGED <<build, phase, item_vec, pool, plock, flag, ops, last, result>>

\* The value is written over the old one when that is still in the log and
\* large enough.
InPlace(l) ==
  LET iv == item_vec[req[l].key.bucket][req[l].slot]
  IN  /\ req[l].found
      /\ mehcached_pool_is_valid(pool, iv.offset)
      /\ mehcached_pool_item(pool, iv.offset).item_size >= req[l].key.size

SetAllocate(l) ==
  LET r  == req[l]
      iv == item_vec[r.key.bucket][r.slot]
  IN  /\ pc[l] = "set_allocate"
      /\ mehcached_pool_lock
      /\ plock' = IF concurrent THEN l ELSE None
      /\ IF InPlace(l)
           THEN /\ req' = [req EXCEPT ![l].offset = iv.offset, ![l].at = iv.at, ![l].word = 1]
                /\ UNCHANGED pool
           ELSE /\ pool' = mehcached_pool_push_tail(pool, r.key.size)
                /\ req' = [req EXCEPT ![l].offset = NewOffset(pool), ![l].at = pool.tail,
                                      ![l].from = NewOffset(pool), ![l].to = pool'.tail]
      /\ Goto(l, "set_write")
      /\ UNCHANGED <<build, phase, version, item_vec, flag, ops, last, result>>

\* mehcached_set_item and mehcached_set_item_value, a word at a time.
SetWrite(l) ==
  LET r == req[l]
  IN  /\ pc[l] = "set_write"
      /\ r.word < r.key.size
      /\ pool' = IF r.word = 0 THEN WriteKey(pool, r.offset, [key |-> r.key, pad |-> r.pad])
                               ELSE WriteValue(pool, r.offset, r.word, r.val)
      /\ req' = [req EXCEPT ![l].word = @ + 1]
      /\ UNCHANGED <<build, phase, version, item_vec, plock, flag, ops, pc, last, result>>

SetPoolUnlock(l) ==
  /\ pc[l] = "set_write"
  /\ req[l].word = req[l].key.size
  /\ plock' = None
  /\ Goto(l, "set_publish")
  /\ UNCHANGED <<build, phase, version, item_vec, pool, flag, ops, req, last, result>>

\* The item vector of an overwritten value stays as it is.
SetPublish(l) ==
  LET r == req[l]
      b == r.key.bucket
  IN  /\ pc[l] = "set_publish"
      /\ item_vec' = [item_vec EXCEPT ![b][r.slot] = [tag |-> r.key.tag, offset |-> r.offset, at |-> r.at]]
      /\ version' = Versions(b, 1)
      /\ last' = [last EXCEPT ![r.key] = r.val]
      /\ Goto(l, "cleanup")
      /\ UNCHANGED <<build, phase, pool, plock, flag, ops, req, result>>

-----------------------------------------------------------------------------
(***************************************************************************)
(* Cleaning: as the tail moves over the offsets, the buckets are gone      *)
(* through and relieved of items the log no longer holds.                  *)
(***************************************************************************)
rshift == CHOOSE n \in 0 .. Span : /\ (Span \div 2) \div 2^n <= NumBuckets
                                  /\ \A m \in 0 .. n-1 : (Span \div 2) \div 2^m > NumBuckets

bucket_index(t) == (t \div 2^rshift) % NumBuckets

\* The buckets, which main.c:1024 makes many of, share half of the offsets
\* evenly, as all three are powers of two (table.c:1535-1537).
ASSUME CleaningAssumption == NumBuckets > 1 /\ 2^rshift \in Nat \ {0} /\ Span = 2 * (NumBuckets * 2^rshift)

CleanedBug(vecs) == vecs

Cleaned(vecs) ==
  [s \in Slots |-> IF vecs[s] # Empty /\ ~ mehcached_pool_is_valid(pool, vecs[s].offset) THEN Empty ELSE vecs[s]]

mehcached_cleanup_bucket(l) ==
  LET b == bucket_index(req[l].from)
  IN  /\ pc[l] = "cleanup"
      /\ b # bucket_index(req[l].to)
      /\ mehcached_lock_bucket(b)
      /\ item_vec' = [item_vec EXCEPT ![b] = Cleaned(@)]
      /\ version' = Versions(b, 2)
      /\ req' = [req EXCEPT ![l].from = (b + 1) * 2^rshift]
      /\ UNCHANGED <<build, phase, pool, plock, flag, ops, pc, last, result>>

Return(l) ==
  /\ pc[l] = "cleanup"
  /\ bucket_index(req[l].from) = bucket_index(req[l].to)
  /\ Goto(l, "idle")
  /\ req' = [req EXCEPT ![l] = None]
  /\ UNCHANGED <<build, phase, version, item_vec, pool, plock, flag, ops, last, result>>

-----------------------------------------------------------------------------
(***************************************************************************)
(* GET.                                                                    *)
(***************************************************************************)
GetVersion(l) ==
  LET b == req[l].key.bucket
  IN  /\ pc[l] = "get_version"
      /\ mehcached_lock_bucket(b)   \* an odd version is read again
      /\ req' = [req EXCEPT ![l].version = version[b], ![l].word = 1, ![l].copy = {}]
      /\ Goto(l, "get_find")
      /\ UNCHANGED <<build, phase, version, item_vec, pool, plock, flag, ops, last, result>>

GetFind(l) ==
  LET r    == req[l]
      slot == mehcached_find_item_index(r.key.bucket, r.key, r.pad)
  IN  /\ pc[l] = "get_find"
      /\ IF slot = ItemsPerBucket
           THEN Goto(l, "get_miss") /\ UNCHANGED req
           ELSE /\ req' = [req EXCEPT ![l].slot = slot, ![l].offset = item_vec[r.key.bucket][slot].offset]
                /\ Goto(l, "get_copy")
      /\ UNCHANGED <<build, phase, version, item_vec, pool, plock, flag, ops, last, result>>

\* The value is copied a word at a time.
GetCopy(l) ==
  LET r == req[l]
  IN  /\ pc[l] = "get_copy"
      /\ r.word < r.key.size
      /\ req' = [req EXCEPT ![l].copy = @ \union {mehcached_pool_item(pool, r.offset + r.word).val},
                            ![l].word = @ + 1]
      /\ UNCHANGED <<build, phase, version, item_vec, pool, plock, flag, ops, pc, last, result>>

GetIsValid(l) ==
  /\ pc[l] = "get_copy"
  /\ req[l].word = req[l].key.size
  /\ Goto(l, IF mehcached_pool_is_valid(pool, req[l].offset) THEN "get_hit" ELSE "get_stale")
  /\ UNCHANGED <<build, phase, version, item_vec, pool, plock, flag, ops, req, last, result>>

VersionMovedBug(l) == FALSE

VersionStoodBug(l) == req[l].version = version[req[l].key.bucket]

\* mehcached_read_version_end is not what mehcached_read_version_begin read.
VersionMoved(l) == req[l].version # version[req[l].key.bucket]

\* Whatever was found is worth nothing if the bucket was changed meanwhile.
GetRetry(l) ==
  /\ pc[l] \in {"get_miss", "get_stale", "get_hit"}
  /\ VersionMoved(l)
  /\ Goto(l, "get_version")
  /\ UNCHANGED <<build, phase, version, item_vec, pool, plock, flag, ops, req, last, result>>

GetReturns(l, found, where) ==
  /\ result' = [result EXCEPT ![l] = [found |-> found, copy |-> req[l].copy, latest |-> last[req[l].key]]]
  /\ Goto(l, where)

\* distance_from_tail > mth_threshold, for an item that was found.
MovesToHead(l) == (pool.tail - req[l].offset) % pool.size > build.mth_threshold

GetHit(l) ==
  /\ pc[l] = "get_hit"
  /\ ~ VersionMoved(l)
  /\ GetReturns(l, TRUE, IF MovesToHead(l) THEN "move_to_head" ELSE "cleanup")
  /\ UNCHANGED <<build, phase, version, item_vec, pool, plock, flag, ops, req, last>>

GetMiss(l) ==
  /\ pc[l] = "get_miss"
  /\ ~ VersionMoved(l)
  /\ GetReturns(l, FALSE, "cleanup")
  /\ UNCHANGED <<build, phase, version, item_vec, pool, plock, flag, ops, req, last>>

\* The stale item is removed, or whatever is in its place by now.
GetStale(l) ==
  /\ pc[l] = "get_stale"
  /\ ~ VersionMoved(l)
  /\ GetReturns(l, FALSE, "remove")
  /\ UNCHANGED <<build, phase, version, item_vec, pool, plock, flag, ops, req, last>>

RemoveStale(l) ==
  LET b == req[l].key.bucket
  IN  /\ pc[l] = "remove"
      /\ mehcached_lock_bucket(b)
      /\ item_vec' = [item_vec EXCEPT ![b][req[l].slot] = Empty]
      /\ version' = Versions(b, 2)
      /\ Goto(l, "cleanup")
      /\ UNCHANGED <<build, phase, pool, plock, flag, ops, req, last, result>>

\* The item is written anew at the tail, if its vector is still there and the
\* room made for it has not cost it its own place.  mth_threshold is the size
\* of the log, which no distance exceeds, except with one polling lcore.
Copied(p, from, to, size) ==
  [p EXCEPT !.data = [i \in DOMAIN @ |->
     IF \E n \in 0 .. size-1 : i = Place(p, to + n)
       THEN LET n == CHOOSE n \in 0 .. size-1 : i = Place(p, to + n)
            IN  IF n = 0 THEN [@[Place(p, from)] EXCEPT !.item_size = size] ELSE @[Place(p, from + n)]
       ELSE @[i]]]

MoveToHead(l) ==
  LET r      == req[l]
      b      == r.key.bucket
      pushed == mehcached_pool_push_tail(pool, r.key.size)
  IN  /\ pc[l] = "move_to_head"
      /\ mehcached_lock_bucket(b) /\ mehcached_pool_lock
      /\ version' = Versions(b, 2)
      /\ \/ /\ item_vec[b][r.slot].offset = r.offset
            /\ IF mehcached_pool_is_valid(pushed, r.offset)
                 THEN /\ pool' = Copied(pushed, r.offset, NewOffset(pool), r.key.size)
                      /\ item_vec' = [item_vec EXCEPT ![b][r.slot].offset = NewOffset(pool),
                                                      ![b][r.slot].at = pool.tail]
                 ELSE pool' = pushed /\ UNCHANGED item_vec
            /\ req' = [req EXCEPT ![l].from = NewOffset(pool), ![l].to = pushed.tail]
         \/ item_vec[b][r.slot].offset # r.offset /\ UNCHANGED <<pool, item_vec, req>>
      /\ Goto(l, "cleanup")
      /\ UNCHANGED <<build, phase, plock, flag, ops, last, result>>

-----------------------------------------------------------------------------
(***************************************************************************)
(* The operations of the library that the program does not call.           *)
(***************************************************************************)
Library(l, key) ==
  /\ phase = "poll" /\ build.library
  /\ pc[l] = "idle"
  /\ ops[l] < build.max_ops
  /\ mehcached_lock_bucket(key.bucket)
  /\ ops' = [ops EXCEPT ![l] = @ + 1]

Delete(l, key, pad) ==
  LET slot == mehcached_find_item_index(key.bucket, key, pad)
  IN  /\ Library(l, key)
      /\ slot # ItemsPerBucket
      /\ item_vec' = [item_vec EXCEPT ![key.bucket][slot] = Empty]
      /\ version' = Versions(key.bucket, 2)
      /\ last' = [last EXCEPT ![key] = None]
      /\ UNCHANGED <<build, phase, pool, plock, flag, pc, req, result>>

\* Of a value of one word, in place.
Increment(l, key, pad) ==
  LET slot   == mehcached_find_item_index(key.bucket, key, pad)
      offset == item_vec[key.bucket][slot].offset
      old    == mehcached_pool_item(pool, offset + 1).val
      new    == [old EXCEPT !.n = @ + 1]
  IN  /\ Library(l, key)
      /\ mehcached_pool_lock
      /\ slot # ItemsPerBucket
      /\ mehcached_pool_is_valid(pool, offset)
      /\ key.size = 2
      /\ pool' = WriteValue(pool, offset, 1, new)
      /\ version' = Versions(key.bucket, 2)
      /\ last' = [last EXCEPT ![key] = new]
      /\ UNCHANGED <<build, phase, item_vec, plock, flag, pc, req, result>>

\* mehcached_table_free, when the loops of all lcores have returned, resets
\* the table and gives its memory back.
Free ==
  /\ phase = "poll"
  /\ \A l \in Lcores : pc[l] = "idle"
  /\ phase' = "freed"
  /\ version' = [b \in Buckets |-> 0]
  /\ item_vec' = [b \in Buckets |-> [s \in Slots |-> Empty]]
  /\ pool' = mehcached_pool_reset(pool)
  /\ UNCHANGED <<build, plock, flag, ops, pc, req, last, result>>

Freed == phase = "freed" /\ UNCHANGED vars

Step(l) ==
  \/ SetLock(l) \/ SetFind(l) \/ SetAllocate(l) \/ SetWrite(l) \/ SetPoolUnlock(l) \/ SetPublish(l)
  \/ mehcached_cleanup_bucket(l) \/ Return(l)
  \/ GetVersion(l) \/ GetFind(l) \/ GetCopy(l) \/ GetIsValid(l) \/ GetRetry(l)
  \/ GetHit(l) \/ GetMiss(l) \/ GetStale(l) \/ RemoveStale(l) \/ MoveToHead(l)

main_lcore == CHOOSE l \in Lcores : \A k \in Lcores : l <= k

Next ==
  \/ \E key \in build.default : Load(main_lcore, key)
  \/ Launch
  \/ \E l \in Lcores : \/ Step(l)
                       \/ \E key \in build.keys \ build.default, pad \in build.pads :
                            Process5tuple(l, key, pad) \/ Delete(l, key, pad) \/ Increment(l, key, pad)
  \/ Free
  \/ Freed

\* An lcore is a running thread.
Fairness == \A l \in AnyLcore : WF_vars(l \in Lcores /\ Step(l))

Spec == Init /\ [][Next]_vars /\ Fairness

-----------------------------------------------------------------------------

\* A GET that finds its key returns the value of the last SET of that key,
\* whole: never words of two values, of another key whose item has taken the
\* place in the log, or of a value that has been replaced.
GetReturnsLastSet == \A l \in Lcores : result[l] # None /\ result[l].found => result[l].copy = {result[l].latest}

\* "tail change >= head change", "sufficient garbage collection time": no item
\* vector outlives its item for so long that the offset, which has fewer bits
\* than the tail, looks valid again.
NoItemRevives ==
  \A b \in Buckets, s \in Slots :
    LET iv == item_vec[b][s]
    IN  iv # Empty /\ mehcached_pool_is_valid(pool, iv.offset) => pool.tail - iv.at <= pool.size

\* The log is a sequence of whole items, however SETs and moves to its head
\* interleave; popping a header that is not one would lead head astray.
LogTiled == Tiled(pool)

\* A bucket has one item per tag, so that one key is never in two slots of
\* which a later SET updates the wrong one.
OneItemPerTag ==
  \A b \in Buckets : \A s, t \in Slots :
    item_vec[b][s].tag = item_vec[b][t].tag /\ item_vec[b][s].tag # 0 => s = t

\* Both together: neither the log nor a bucket is left in a state from which a
\* later operation goes astray.
StoreConsistent == LogTiled /\ OneItemPerTag

Busy(l) == l \in Lcores /\ pc[l] # "idle"

\* Every GET and SET returns: lcores that hold a bucket wait for the log, never
\* for another bucket, and a GET is only repeated because another lcore has
\* finished something.
OperationsReturn == \A l \in AnyLcore : Busy(l) ~> ~ Busy(l)

=============================================================================

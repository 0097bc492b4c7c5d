---------------------------- MODULE DoubleChain ----------------------------
(***************************************************************************)
(* The index allocator of nf-chain (double-chain.c, double-chain-impl.c).  *)
(* Two lists run through one array of cells: the allocated indices, doubly *)
(* linked, least recently used first, and the free ones, whose two links   *)
(* are equal.  Cell 0 heads the first, cell 1 the second, and index k is   *)
(* cell k + 2.  Whether an index is free is read off its links: they are   *)
(* equal, unless both lead to the head of the allocated list, whose only   *)
(* member it then is.                                                      *)
(*                                                                         *)
(* A chain is a record of the two link fields of the cells and of the      *)
(* timestamps.  Operators map a chain to the chain after the call; the     *)
(* result the C function returns is an operator of its own.                *)
(*                                                                         *)
(* A definition whose name ends in Bug is the one after it with a fault in *)
(* it, as in PollLoop.                                                     *)
(***************************************************************************)
EXTENDS Integers, Sequences, SequencesExt, FiniteSets, FiniteSetsExt

ALLOC_LIST_HEAD == 0
FREE_LIST_HEAD  == 1
INDEX_SHIFT     == 2

\* A timestamp nobody has written yet.
NoTime == -1

\* dchain_impl_init: every cell but the heads is free, in ascending order.
dchain_impl_init(size) ==
  LET succ == [c \in 0 .. size+1 |->
                 CASE c = ALLOC_LIST_HEAD -> ALLOC_LIST_HEAD
                   [] c = size+1          -> FREE_LIST_HEAD
                   [] OTHER               -> c + 1]
  IN  [prev |-> succ, next |-> succ]

dchain_allocate(size) ==
  [prev |-> dchain_impl_init(size).prev, next |-> dchain_impl_init(size).next,
   timestamps |-> [k \in 0 .. size-1 |-> NoTime]]

(***************************************************************************)
(* dchain_impl_allocate_new_index takes the head of the free list and      *)
(* links it in at the new end of the allocated list.                       *)
(***************************************************************************)
OutOfSpace(ch) == ch.next[FREE_LIST_HEAD] = FREE_LIST_HEAD

NewIndex(ch) == ch.next[FREE_LIST_HEAD] - INDEX_SHIFT

TakeFree(ch) ==
  LET second == ch.next[ch.next[FREE_LIST_HEAD]]
  IN  [ch EXCEPT !.next[FREE_LIST_HEAD] = second, !.prev[FREE_LIST_HEAD] = second]

LinkLast(ch, c) ==
  LET last == ch.prev[ALLOC_LIST_HEAD]
  IN  [ch EXCEPT !.next[c] = ALLOC_LIST_HEAD, !.prev[c] = last,
                 !.next[last] = c, !.prev[ALLOC_LIST_HEAD] = c]

dchain_impl_allocate_new_index(ch) == LinkLast(TakeFree(ch), ch.next[FREE_LIST_HEAD])

dchain_allocate_new_index(ch, time) ==
  IF OutOfSpace(ch) THEN ch
  ELSE [dchain_impl_allocate_new_index(ch) EXCEPT !.timestamps[NewIndex(ch)] = time]

\* dchain_is_index_allocated.
dchain_impl_is_index_allocated(ch, index) ==
  LET c == index + INDEX_SHIFT
  IN  ch.next[c] # ch.prev[c] \/ ch.next[c] = ALLOC_LIST_HEAD

dchain_is_index_allocated(ch, index) == dchain_impl_is_index_allocated(ch, index)

\* Cut a cell out of the allocated list.
Unlink(ch, c) ==
  [ch EXCEPT !.next[ch.prev[c]] = ch.next[c], !.prev[ch.next[c]] = ch.prev[c]]

(***************************************************************************)
(* dchain_impl_free_index: the cell becomes the head of the free list.     *)
(***************************************************************************)
LinkFree(ch, c) ==
  LET first == ch.next[FREE_LIST_HEAD]
  IN  [ch EXCEPT !.next[c] = first, !.prev[c] = first,
                 !.next[FREE_LIST_HEAD] = c, !.prev[FREE_LIST_HEAD] = c]

dchain_impl_free_index(ch, index) ==
  LET c == index + INDEX_SHIFT
  IN  IF dchain_impl_is_index_allocated(ch, index) THEN LinkFree(Unlink(ch, c), c) ELSE ch

dchain_free_index(ch, index) == dchain_impl_free_index(ch, index)

(***************************************************************************)
(* dchain_impl_rejuvenate_index: the cell moves to the new end.  The only  *)
(* allocated one stays where it is.                                        *)
(***************************************************************************)
dchain_impl_rejuvenate_indexBug(ch, index) == ch

dchain_impl_rejuvenate_index(ch, index) ==
  LET c == index + INDEX_SHIFT
  IN  IF ch.next[c] = ch.prev[c] THEN ch ELSE LinkLast(Unlink(ch, c), c)

dchain_rejuvenate_index(ch, index, time) ==
  IF dchain_is_index_allocated(ch, index)
    THEN [dchain_impl_rejuvenate_index(ch, index) EXCEPT !.timestamps[index] = time]
    ELSE ch

(***************************************************************************)
(* dchain_impl_get_oldest_index, and dchain_expire_one_index: whether the  *)
(* oldest index is older than time; expiring it frees it.                  *)
(***************************************************************************)
IsEmpty(ch) == ch.next[ALLOC_LIST_HEAD] = ALLOC_LIST_HEAD

dchain_impl_get_oldest_index(ch) == ch.next[ALLOC_LIST_HEAD] - INDEX_SHIFT

OldestExpiredBug(ch, time) ==
  ~ IsEmpty(ch) /\ ch.timestamps[dchain_impl_get_oldest_index(ch)] <= time

OldestExpired(ch, time) ==
  ~ IsEmpty(ch) /\ ch.timestamps[dchain_impl_get_oldest_index(ch)] < time

dchain_expire_one_index(ch, time) ==
  IF OldestExpired(ch, time) THEN dchain_impl_free_index(ch, dchain_impl_get_oldest_index(ch))
                             ELSE ch

-----------------------------------------------------------------------------

(***************************************************************************)
(* What the links stand for.  Walk(succ, head)[n] is the cell n links from *)
(* the head; the list is what comes before the head is reached again.      *)
(***************************************************************************)
Walk(succ, head) ==
  LET w[n \in 0 .. Cardinality(DOMAIN succ)] == IF n = 0 THEN head ELSE succ[w[n-1]]
  IN  w

CellsOf(succ, head) ==
  LET w    == Walk(succ, head)
      back == {n \in DOMAIN w : n > 0 /\ w[n] = head}
      len  == IF back = {} THEN Cardinality(DOMAIN succ) ELSE Min(back) - 1
  IN  [n \in 1 .. len |-> w[n]]

AllocList(ch) == CellsOf(ch.next, ALLOC_LIST_HEAD)
FreeList(ch)  == CellsOf(ch.next, FREE_LIST_HEAD)

\* dchainip(): the two lists part the cells between them, and each link is
\* matched by the one back.
WellLinked(ch) ==
  LET al == AllocList(ch)
      fl == FreeList(ch)
      links(list, head) == <<head>> \o list \o <<head>>
      Cells == DOMAIN ch.next \ {ALLOC_LIST_HEAD, FREE_LIST_HEAD}
  IN  /\ ToSet(al) \union ToSet(fl) = Cells
      /\ Len(al) + Len(fl) = Cardinality(Cells)
      /\ \A n \in 1 .. Len(al)+1 : ch.prev[links(al, ALLOC_LIST_HEAD)[n+1]]
                                     = links(al, ALLOC_LIST_HEAD)[n]
      /\ \A n \in 0 .. Len(fl) : LET c == links(fl, FREE_LIST_HEAD)[n+1]
                                 IN  ch.prev[c] = ch.next[c]

\* dchain_alist_fp: the abstract value of a chain, index and timestamp of each
\* allocated index, oldest first.
dchain_alist(ch) ==
  LET al == AllocList(ch)
  IN  [n \in DOMAIN al |-> [index |-> al[n] - INDEX_SHIFT,
                            time  |-> ch.timestamps[al[n] - INDEX_SHIFT]]]

=============================================================================

------------------------------ MODULE MapImpl ------------------------------
(***************************************************************************)
(* The hash table of nf-chain (map-impl.c): open addressing with linear    *)
(* probing.  chns[c] counts the keys whose probe sequence runs over cell   *)
(* c: map_impl_put increments it for every cell it passes and              *)
(* map_impl_erase decrements it for every cell it passes on the way to the *)
(* key, so that a lookup may stop at a cell that does not match and whose  *)
(* count is zero.                                                          *)
(*                                                                         *)
(* A key is stored by reference: a busy cell holds the pointer to a key    *)
(* that its owner keeps in a vector, and comparing dereferences it.  A     *)
(* pointer is the index in that vector, and the operators take its         *)
(* contents, mem.  The fields of a cell that is not busy are never read    *)
(* and are left out.                                                       *)
(*                                                                         *)
(* map-impl-pow2.c is the same code with another loop(); it is this module *)
(* with another value of Loop.                                             *)
(***************************************************************************)
EXTENDS Integers, FiniteSets, FiniteSetsExt

CONSTANT
  Loop(_, _)  \* loop(k, capacity)

\* A cell whose busybit is 0.
NotBusy == [keyp |-> -1, hash |-> -1, val |-> -1]

NotFound == -1

Capacity(m) == Cardinality(DOMAIN m.cell)

\* map_impl_init.
map_impl_init(capacity) ==
  [cell |-> [c \in 0 .. capacity-1 |-> NotBusy],
   chns |-> [c \in 0 .. capacity-1 |-> 0]]

\* The cell a search for this hash comes to after n others.
Probe(m, hash, n) == Loop(Loop(hash, Capacity(m)) + n, Capacity(m))

Steps(m) == 0 .. Capacity(m) - 1

(***************************************************************************)
(* find_key.  Cells with the right hash are compared; any other cell ends  *)
(* the search if no key has passed over it.                                *)
(***************************************************************************)
SameHash(m, key, c) == m.cell[c] # NotBusy /\ m.cell[c].hash = key.hash

Hit(m, mem, key, c) == SameHash(m, key, c) /\ mem[m.cell[c].keyp] = key

StopsBug(m, key, c) == ~ SameHash(m, key, c) /\ m.cell[c] = NotBusy

Stops(m, key, c) == ~ SameHash(m, key, c) /\ m.chns[c] = 0

find_key(m, mem, key) ==
  LET At(n) == Probe(m, key.hash, n)
      ends  == {n \in Steps(m) : Hit(m, mem, key, At(n)) \/ Stops(m, key, At(n))}
  IN  IF ends # {} /\ Hit(m, mem, key, At(Min(ends))) THEN At(Min(ends)) ELSE NotFound

\* map_impl_get: the value of the key, or NotFound.
map_impl_get(m, mem, key) ==
  LET c == find_key(m, mem, key)
  IN  IF c = NotFound THEN NotFound ELSE m.cell[c].val

(***************************************************************************)
(* find_empty and map_impl_put.                                            *)
(***************************************************************************)
\* The cells that come before step n.
Passed(m, hash, n) == {Probe(m, hash, j) : j \in 0 .. n-1}

find_empty(m, hash) == Min({n \in Steps(m) : m.cell[Probe(m, hash, n)] = NotBusy})

AddChain(m, cells) == [c \in DOMAIN m.chns |-> IF c \in cells THEN m.chns[c] + 1 ELSE m.chns[c]]

map_impl_put(m, key, keyp, val) ==
  LET n == find_empty(m, key.hash)
  IN  [m EXCEPT !.cell[Probe(m, key.hash, n)] = [keyp |-> keyp, hash |-> key.hash, val |-> val],
                !.chns = AddChain(m, Passed(m, key.hash, n))]

(***************************************************************************)
(* find_key_remove_chain and map_impl_erase.  Unlike find_key it does not  *)
(* stop early; a key that is not there costs every cell a count.           *)
(***************************************************************************)
SubChainBug(m, cells) == m.chns

SubChain(m, cells) == [c \in DOMAIN m.chns |-> IF c \in cells THEN m.chns[c] - 1 ELSE m.chns[c]]

find_key_remove_chain(m, mem, key) ==
  LET hits == {n \in Steps(m) : Hit(m, mem, key, Probe(m, key.hash, n))}
  IN  IF hits = {} THEN [m EXCEPT !.chns = SubChain(m, DOMAIN m.chns)]
      ELSE [m EXCEPT !.cell[Probe(m, key.hash, Min(hits))] = NotBusy,
                     !.chns = SubChain(m, Passed(m, key.hash, Min(hits)))]

map_impl_erase(m, mem, key) == find_key_remove_chain(m, mem, key)

map_impl_size(m) == Cardinality({c \in DOMAIN m.cell : m.cell[c] # NotBusy})

-----------------------------------------------------------------------------

\* buckets_ks_insync(): chns[c] is the number of keys stored beyond c by a
\* probe sequence that runs over c.
Distance(m, c) == CHOOSE n \in Steps(m) : Probe(m, m.cell[c].hash, n) = c

ChainsExact(m) ==
  \A c \in DOMAIN m.cell :
    m.chns[c] = Cardinality({d \in DOMAIN m.cell :
                  /\ m.cell[d] # NotBusy
                  /\ c \in Passed(m, m.cell[d].hash, Distance(m, d))})

=============================================================================

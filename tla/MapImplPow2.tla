---------------------------- MODULE MapImplPow2 ----------------------------
(***************************************************************************)
(* map-impl-pow2.c, the hash table of a build with CAPACITY_POW2: the code *)
(* of map-impl.c with a loop() that masks instead of dividing.             *)
(***************************************************************************)
EXTENDS Integers, FiniteSetsExt

CONSTANT
  HashBits  \* width of a hash, 32

\* The bitwise and of two numbers of that width.
And(a, b) ==
  MapThenSumSet(LAMBDA n : ((a \div 2^n) % 2) * ((b \div 2^n) % 2) * 2^n, 0 .. HashBits-1)

loop(k, capacity) == And(k, capacity - 1)

Impl == INSTANCE MapImpl WITH Loop <- loop

\* As in map-impl.c.
map_impl_init(capacity) == Impl!map_impl_init(capacity)

find_key(m, mem, key) == Impl!find_key(m, mem, key)

find_empty(m, hash) == Impl!find_empty(m, hash)

find_key_remove_chain(m, mem, key) == Impl!find_key_remove_chain(m, mem, key)

map_impl_get(m, mem, key) ==
  LET c == find_key(m, mem, key)
  IN  IF c = Impl!NotFound THEN Impl!NotFound ELSE m.cell[c].val

map_impl_put(m, key, keyp, val) ==
  LET n == find_empty(m, key.hash)
  IN  [m EXCEPT !.cell[Impl!Probe(m, key.hash, n)] =
                   [keyp |-> keyp, hash |-> key.hash, val |-> val],
                !.chns = Impl!AddChain(m, Impl!Passed(m, key.hash, n))]

map_impl_erase(m, mem, key) == find_key_remove_chain(m, mem, key)

map_impl_size(m) == Impl!map_impl_size(m)

=============================================================================

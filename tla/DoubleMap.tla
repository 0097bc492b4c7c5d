----------------------------- MODULE DoubleMap -----------------------------
(***************************************************************************)
(* double-map.c: values in an array, each found by two keys that are part  *)
(* of it.  Each key has a hash table of its own, the one of map-impl.c (or *)
(* of map-impl-pow2.c), whose references point into the array.             *)
(***************************************************************************)
EXTENDS Integers, Map

\* A slot of the array that holds no value.
NoValue == [a |-> [id |-> -1, hash |-> 0], b |-> [id |-> -1, hash |-> 0]]

\* What dmap_allocate sets up once its memory is there.
dmap_init(pow2, capacity, keys_capacity) ==
  [values |-> [k \in 0 .. capacity-1 |-> NoValue],
   a      |-> impl_init(pow2, keys_capacity),
   b      |-> impl_init(pow2, keys_capacity),
   n_vals |-> 0]

\* exk: the keys inside the values.
KeysA(d) == [k \in DOMAIN d.values |-> d.values[k].a]
KeysB(d) == [k \in DOMAIN d.values |-> d.values[k].b]

dmap_get_a(d, key) == impl_get(d.a, KeysA(d), key)

dmap_get_b(d, key) == impl_get(d.b, KeysB(d), key)

dmap_put(d, value, index) ==
  [values |-> [d.values EXCEPT ![index] = value],
   a      |-> impl_put(d.a, value.a, index, index),
   b      |-> impl_put(d.b, value.b, index, index),
   n_vals |-> d.n_vals + 1]

dmap_get_value(d, index) == d.values[index]

\* The keys to erase are read from the value, which is destroyed last.
dmap_erase(d, index) ==
  [values |-> [d.values EXCEPT ![index] = NoValue],
   a      |-> impl_erase(d.a, KeysA(d), d.values[index].a),
   b      |-> impl_erase(d.b, KeysB(d), d.values[index].b),
   n_vals |-> d.n_vals - 1]

dmap_size(d) == d.n_vals

=============================================================================

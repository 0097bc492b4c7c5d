-------------------------------- MODULE Map --------------------------------
(***************************************************************************)
(* map.c: the hash table with its count of keys, on top of map-impl.c or,  *)
(* in a build with CAPACITY_POW2, of map-impl-pow2.c.  A table records     *)
(* which of the two the program was built with.                            *)
(***************************************************************************)
EXTENDS Integers, FiniteSets

CONSTANT
  HashBits  \* width of a hash, 32

\* loop() of map-impl.c: "It was semantically justified for negative numbers."
loop(k, capacity) == ((k % capacity) + capacity) % capacity

Mod  == INSTANCE MapImpl WITH Loop <- loop
Pow2 == INSTANCE MapImplPow2

\* A fact about the bits of numbers: masking with a power of two less one takes
\* the remainder.
ASSUME MaskAssumption ==
  /\ 2^HashBits \in Nat
  /\ \A n \in 0 .. HashBits-1 : \A k \in 0 .. 2^HashBits + 2 * 2^n :
       Pow2!And(k, 2^n - 1) = k % 2^n

NotFound == Mod!NotFound

\* A build with CAPACITY_POW2 refuses any other capacity.
CapacityRefused(pow2, capacity) == pow2 /\ capacity \notin {2^n : n \in 0 .. HashBits-1}

impl_init(pow2, capacity) ==
  [impl |-> IF pow2 THEN Pow2!map_impl_init(capacity) ELSE Mod!map_impl_init(capacity),
   pow2 |-> pow2]

impl_get(t, mem, key) ==
  IF t.pow2 THEN Pow2!map_impl_get(t.impl, mem, key) ELSE Mod!map_impl_get(t.impl, mem, key)

impl_put(t, key, keyp, val) ==
  [t EXCEPT !.impl = IF t.pow2 THEN Pow2!map_impl_put(@, key, keyp, val)
                               ELSE Mod!map_impl_put(@, key, keyp, val)]

impl_erase(t, mem, key) ==
  [t EXCEPT !.impl = IF t.pow2 THEN Pow2!map_impl_erase(@, mem, key)
                               ELSE Mod!map_impl_erase(@, mem, key)]

impl_size(t) == IF t.pow2 THEN Pow2!map_impl_size(t.impl) ELSE Mod!map_impl_size(t.impl)

\* What map_allocate sets up once its memory is there.
map_init(pow2, capacity) == [t |-> impl_init(pow2, capacity), size |-> 0]

map_get(m, mem, key) == impl_get(m.t, mem, key)

map_put(m, key, keyp, val) == [t |-> impl_put(m.t, key, keyp, val), size |-> m.size + 1]

map_erase(m, mem, key) == [t |-> impl_erase(m.t, mem, key), size |-> m.size - 1]

map_size(m) == m.size

ChainsExact(t) == IF t.pow2 THEN Pow2!Impl!ChainsExact(t.impl) ELSE Mod!ChainsExact(t.impl)

=============================================================================

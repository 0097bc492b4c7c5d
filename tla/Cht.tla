------------------------------- MODULE Cht -------------------------------
(***************************************************************************)
(* The consistent hash table of utils/cht.c: for every hash an order of    *)
(* preference over the backends, in one vector, a row of backend_capacity  *)
(* elements per hash.  The backends that are active are the indices        *)
(* allocated in a double chain.                                            *)
(***************************************************************************)
EXTENDS Integers, DoubleChain

loop(k, capacity) == k % capacity

\* permutations[i * cht_height + j]: the hash that backend i prefers j-th.
base_shiftBug(i, cht_height) == loop(i, cht_height) - 1

base_shift(i, cht_height) == loop(i, cht_height - 1)

permutation(i, j, cht_height) ==
  loop(loop(i * 31, cht_height) + (base_shift(i, cht_height) + 1) * j, cht_height)

\* One round of the two loops that fill the rows: backend j takes the next
\* place in the row of the hash that it prefers i-th.
FillOne(s, i, j, cht_height, backend_capacity) ==
  LET bucket_id == permutation(j, i, cht_height)
      place     == backend_capacity * bucket_id + s.next[bucket_id]
  IN  [cht  |-> [k \in DOMAIN s.cht |-> IF k = place THEN j ELSE s.cht[k]],
       next |-> [s.next EXCEPT ![bucket_id] = @ + 1]]

cht_fill_cht(cht, cht_height, backend_capacity) ==
  LET filled[n \in 0 .. cht_height * backend_capacity] ==
        IF n = 0 THEN [cht |-> cht, next |-> [b \in 0 .. cht_height-1 |-> 0]]
        ELSE FillOne(filled[n-1], (n-1) \div backend_capacity, (n-1) % backend_capacity,
                     cht_height, backend_capacity)
  IN  filled[cht_height * backend_capacity].cht

NoBackend == -1

candidate_idxBug(start, i, backend_capacity) == start + i

candidate_idx(start, i, backend_capacity) == start * backend_capacity + i

\* The first active backend in the row of the hash.
cht_find_preferred_available_backend(hash, cht, active_backends, cht_height, backend_capacity) ==
  LET candidate(i) == cht[candidate_idx(loop(hash, cht_height), i, backend_capacity)]
      available    == {i \in 0 .. backend_capacity-1 :
                         dchain_is_index_allocated(active_backends, candidate(i))}
  IN  IF available = {} THEN NoBackend
      ELSE candidate(CHOOSE i \in available : \A k \in available : i <= k)

=============================================================================

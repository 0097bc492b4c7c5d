---------------------------- MODULE Steering ----------------------------
(***************************************************************************)
(* The two structures of nf-chain/src/utils that say where a packet goes:  *)
(* the next hop of an address (lpm-dir-24-8.c) and the backend of a flow   *)
(* (cht.c, over a double chain of active backends).  The NAT uses neither; *)
(* their client here keeps to the contracts in their headers.              *)
(***************************************************************************)
EXTENDS Integers, Sequences, Lpm, DoubleChain

CONSTANTS
  NextHops,  \* values of rules
  MaxRules,  \* bound on the rules added
  ChtSizes   \* cht_height and backend_capacity to try

\* No product of two smaller numbers is a multiple of it.
Prime(n) == n \in Nat \ {0, 1} /\ \A a, b \in 1 .. n-1 : (a * b) % n # 0

ASSUME SteeringAssumption ==
  /\ NextHops \subseteq 0 .. FlagMask-1 /\ MaxRules \in Nat
  /\ \A x \in ChtSizes : Prime(x.height) /\ x.capacity \in 1 .. x.height - 1

Hashing == INSTANCE Cht

Addresses == 0 .. 2^AddressBits - 1
Rule      == [prefix : Addresses, len : 0 .. AddressBits, hop : NextHops]

VARIABLES
  part,   \* which of the two structures
  lpm,    \* struct lpm
  rules,  \* history: the rules that lpm_update_elem accepted, in order
  size,   \* cht_height and backend_capacity
  cht,    \* the vector of preferences
  active  \* the double chain of active backends

steering_vars == <<part, lpm, rules, size, cht, active>>

Unset == <<>>

SteeringInit ==
  /\ lpm = lpm_allocate
  /\ rules = <<>>
  /\ \/ part = "lpm" /\ size = Unset /\ cht = Unset /\ active = Unset
     \/ /\ part = "cht"
        /\ size \in ChtSizes
        /\ cht = Unset
        /\ active = dchain_allocate(size.capacity)

\* Rules come in any order and with any bits beyond their length.
Update(r) ==
  /\ part = "lpm"
  /\ Len(rules) < MaxRules
  /\ ~ LongFull(lpm, r.prefix, r.len)
  /\ lpm' = lpm_update_elem(lpm, r.prefix, r.len, r.hop)
  /\ rules' = Append(rules, [r EXCEPT !.prefix = Masked(@, r.len)])
  /\ UNCHANGED <<part, size, cht, active>>

\* The vector that cht_fill_cht is given holds anything; zeros here.
Fill ==
  /\ part = "cht"
  /\ cht = Unset
  /\ cht' = Hashing!cht_fill_cht([k \in 0 .. size.height * size.capacity - 1 |-> 0], size.height, size.capacity)
  /\ UNCHANGED <<part, lpm, rules, size, active>>

Activate ==
  /\ part = "cht" /\ cht # Unset
  /\ ~ OutOfSpace(active)
  /\ active' = dchain_allocate_new_index(active, 0)
  /\ UNCHANGED <<part, lpm, rules, size, cht>>

Deactivate(b) ==
  /\ part = "cht" /\ cht # Unset
  /\ dchain_is_index_allocated(active, b)
  /\ active' = dchain_free_index(active, b)
  /\ UNCHANGED <<part, lpm, rules, size, cht>>

\* A rule can always be added, up to the bound.
Full ==
  /\ part = "lpm"
  /\ Len(rules) = MaxRules
  /\ UNCHANGED steering_vars

SteeringNext ==
  \/ \E r \in Rule : Update(r)
  \/ Fill \/ Activate
  \/ part = "cht" /\ \E b \in 0 .. size.capacity-1 : Deactivate(b)
  \/ Full

SteeringSpec == SteeringInit /\ [][SteeringNext]_steering_vars

-----------------------------------------------------------------------------

Covers(r, a) == Masked(a, r.len) = Masked(r.prefix, r.len)

SameBlock(r, a) == lpm_24_extract_first_index(r.prefix) = lpm_24_extract_first_index(a)

Long(r) == r.len > FirstBits

\* After the rules rs: the last one that covers a and is not longer than the
\* first bits, the longer ones since then for the addresses that share a's first
\* bits, and those of them that cover a.
Latest(S) == CHOOSE n \in S : \A k \in S : k <= n

Shorts(rs, a) == {n \in DOMAIN rs : ~ Long(rs[n]) /\ Covers(rs[n], a)}

Since(rs, a) == IF Shorts(rs, a) = {} THEN 0 ELSE Latest(Shorts(rs, a))

Longs(rs, a) == {n \in Since(rs, a)+1 .. Len(rs) : Long(rs[n]) /\ SameBlock(rs[n], a)}

Fitting(rs, a) == {n \in Longs(rs, a) : Covers(rs[n], a)}

Answer(rs, a) ==
  CASE Fitting(rs, a) # {}                       -> rs[Latest(Fitting(rs, a))].hop
    [] Fitting(rs, a) = {} /\ Longs(rs, a) # {}    -> INVALID
    [] Longs(rs, a) = {} /\ Since(rs, a) # 0       -> rs[Since(rs, a)].hop
    [] OTHER                                       -> INVALID

\* What the table answers after any sequence of rules: a rule overwrites older
\* ones where it applies, except that the first long rule of a block also takes
\* away the short rule that the rest of the block was under.
LookupIsLatestRule == \A a \in Addresses : lpm_lookup_elem(lpm, a) = Answer(rules, a)

Backends == 0 .. size.capacity - 1
Row(h)   == [i \in Backends |-> cht[h * size.capacity + i]]

\* Every row of a filled table names every backend once (valid_cht in cht.h).
ChtRowsArePermutations ==
  part = "cht" /\ cht # Unset => \A h \in 0 .. size.height - 1 : {Row(h)[i] : i \in Backends} = Backends

Preferred(h) == Hashing!cht_find_preferred_available_backend(h, cht, active, size.height, size.capacity)

Up(chain, b) == b # Hashing!NoBackend /\ dchain_is_index_allocated(chain, b)

\* Consistent hashing: when a backend comes or goes, a flow changes its backend
\* only if its own went away or the one that came is the one it prefers; and a
\* flow is served exactly while some backend is active.
FlowsMoveOnlyIfTheyMust ==
  [][part = "cht" /\ cht # Unset =>
       \A h \in 0 .. 2 * size.height :
         /\ Preferred(h)' # Preferred(h) => ~ Up(active', Preferred(h)) \/ ~ Up(active, Preferred(h)')
         /\ (Preferred(h) = Hashing!NoBackend) <=> IsEmpty(active)]_steering_vars

=============================================================================

------------------------------- MODULE Lpm -------------------------------
(***************************************************************************)
(* The longest-prefix-match table of utils/lpm-dir-24-8.c: one table       *)
(* indexed by the first bits of an address, whose flagged entries point    *)
(* into blocks of a second table indexed by the remaining bits.  The       *)
(* program has 24 and 8 bits, 256 blocks and a flag in bit 15.             *)
(***************************************************************************)
EXTENDS Integers

CONSTANTS
  FirstBits,     \* 24
  LastBits,      \* BYTE_SIZE
  LongOffsetMax, \* lpm_LONG_OFFSET_MAX
  FlagMask       \* lpm_24_FLAG_MASK

ASSUME LpmAssumption ==
  /\ FirstBits \in Nat /\ LastBits \in Nat /\ LongOffsetMax \in Nat
  /\ FlagMask \in Nat /\ LongOffsetMax <= FlagMask - 1

AddressBits == FirstBits + LastBits

\* The powers that addresses are cut up by are positive and multiply as powers do.
ASSUME PowersAssumption ==
  \A m, n \in 0 .. AddressBits :
    2^m \in Nat \ {0} /\ (m + n <= AddressBits => 2^(m+n) = 2^m * 2^n)

INVALID     == 2 * FlagMask - 1

fill_invalid(size) == [i \in 0 .. size-1 |-> INVALID]

lpm_allocate ==
  [lpm_24 |-> fill_invalid(2^FirstBits), lpm_long |-> fill_invalid(LongOffsetMax * 2^LastBits),
   lpm_long_index |-> 0]

\* What remains of an address under build_mask_from_prefixlen.
Masked(address, prefixlen) ==
  LET rest == 2^(AddressBits - prefixlen) IN  (address \div rest) * rest

lpm_24_extract_first_index(data) == data \div 2^LastBits

\* The number of entries that a rule takes in its table.
compute_rule_size(prefixlen) ==
  2^((IF prefixlen <= FirstBits THEN FirstBits ELSE AddressBits) - prefixlen)

lpm_24_entry_flag(entry) == entry \div FlagMask = 1

lpm_24_entry_set_flag(entry) == entry + FlagMask

lpm_long_extract_first_index(data, prefixlen, base_index) ==
  base_index * 2^LastBits + (Masked(data, prefixlen) % 2^LastBits)

lpm_lookup_elem(lpm, prefix) ==
  LET value == lpm.lpm_24[lpm_24_extract_first_index(prefix)]
  IN  IF value # INVALID /\ lpm_24_entry_flag(value)
        THEN lpm.lpm_long[lpm_long_extract_first_index(prefix, AddressBits, value % FlagMask)]
        ELSE value

-----------------------------------------------------------------------------

\* The entries from first on that a rule of this length takes hold its value.
Stored(t, first, prefixlen, value) ==
  [i \in DOMAIN t |-> IF i \in first .. first + compute_rule_size(prefixlen) - 1 THEN value ELSE t[i]]

UpdateShort(lpm, prefix, prefixlen, value) ==
  [lpm EXCEPT !.lpm_24 =
     Stored(@, lpm_24_extract_first_index(Masked(prefix, prefixlen)), prefixlen, value)]

need_new_index(lpm, prefix) ==
  LET entry == lpm.lpm_24[lpm_24_extract_first_index(prefix)]
  IN  entry = INVALID \/ ~ lpm_24_entry_flag(entry)

\* "No more available index for lpm_long!"
LongFull(lpm, prefix, prefixlen) ==
  prefixlen > FirstBits /\ need_new_index(lpm, prefix) /\ lpm.lpm_long_index >= LongOffsetMax

\* The next block, whose entries are all INVALID, takes the place of whatever
\* the address's first bits led to.
TakeBlockBug(lpm, prefix) ==
  [lpm EXCEPT !.lpm_24[lpm_24_extract_first_index(prefix)] = lpm_24_entry_set_flag(lpm.lpm_long_index)]

TakeBlock(lpm, prefix) ==
  [lpm EXCEPT !.lpm_24[lpm_24_extract_first_index(prefix)] = lpm_24_entry_set_flag(lpm.lpm_long_index),
              !.lpm_long_index = @ + 1]

UpdateLong(lpm, prefix, prefixlen, value) ==
  LET base_index == lpm.lpm_24[lpm_24_extract_first_index(prefix)] % FlagMask
  IN  [lpm EXCEPT !.lpm_long =
         Stored(@, lpm_long_extract_first_index(prefix, prefixlen, base_index), prefixlen, value)]

\* Called when ~ LongFull: otherwise the table stays and the caller is told.
lpm_update_elem(lpm, prefix, prefixlen, value) ==
  IF prefixlen <= FirstBits THEN UpdateShort(lpm, prefix, prefixlen, value)
  ELSE UpdateLong(IF need_new_index(lpm, prefix) THEN TakeBlock(lpm, prefix) ELSE lpm,
                  prefix, prefixlen, value)

=============================================================================

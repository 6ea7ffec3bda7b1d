----------------------------- MODULE DonutEntries -----------------------------
(***************************************************************************)
(* How a hash is split into a prefix and a suffix of bits, and how the     *)
(* entries of a donut's files are encoded: hash_prefix_suffix.hpp,         *)
(* donut_entries_calculator.hpp and the index types of types.hpp.          *)
(*                                                                         *)
(* A byte is the set of its one bits, so that a mask is an intersection,   *)
(* an OR a union, and a copy of bytes a shift of bit numbers.  A run of    *)
(* bytes is a sequence, little endian as in the code; n is the             *)
(* prefix_bits_count throughout.                                           *)
(***************************************************************************)
EXTENDS Integers, Sequences, FiniteSets

CONSTANTS
    ByteBits,        \* 8
    WordBytes,       \* bytes of a uint64_t: 8
    HashBytesCount,  \* bytes of a hash
    NoHash           \* std::nullopt

ASSUME SizesArePositive ==
    /\ ByteBits \in Nat \ {0}
    /\ WordBytes \in Nat \ {0}
    /\ HashBytesCount \in Nat \ {0}

HashBits == HashBytesCount * ByteBits
WordBits == WordBytes * ByteBits

Byte    == SUBSET (0 .. ByteBits - 1)
AllOnes == 0 .. ByteBits - 1

\* HashBytes<HashBytesCount>
HashBytes == [1 .. HashBytesCount -> Byte]

\* Whole bytes that are enough for that many bits.
BytesFor(bits) == (bits + ByteBits - 1) \div ByteBits

BitsOf(bytes) ==
    {ByteBits * (p[1] - 1) + p[2] : p \in {q \in (DOMAIN bytes) \X AllOnes : q[2] \in bytes[q[1]]}}

\* The first `count` bytes of an integer that is given by its bits.
BytesOf(bits, count) ==
    [i \in 1 .. count |-> {b \in AllOnes : ByteBits * (i - 1) + b \in bits}]

ShiftRight(bits, by) == {b - by : b \in {c \in bits : c >= by}}

BitsOfNumber(x) == {i \in 0 .. WordBits - 1 : (x \div 2 ^ i) % 2 = 1}

NumberOf(bits) == CHOOSE x \in 0 .. 2 ^ WordBits - 1 : BitsOfNumber(x) = bits

-----------------------------------------------------------------------------
\* The index types: all ones is "no match", and arithmetic keeps it.

NoMatch == 2 ^ WordBits - 1

\* LocalPi + GlobalPi
PiPlus(a, b) == IF NoMatch \in {a, b} THEN NoMatch ELSE (a + b) % 2 ^ WordBits

\* GlobalPi - GlobalPi
PiMinus(target, base) ==
    IF NoMatch \in {target, base} \/ target < base THEN NoMatch ELSE target - base

-----------------------------------------------------------------------------
\* The prefix is the most significant bits, at the end of the hash; the
\* suffix is the rest.  They share a byte unless n is a number of bytes.

PrefixBytes(n) == BytesFor(n)
SuffixBytes(n) == BytesFor(HashBits - n)

ms_prefix_bytes(hash, n) ==
    SubSeq(hash, HashBytesCount - PrefixBytes(n) + 1, HashBytesCount)

ls_suffix_bytes(hash, n) == SubSeq(hash, 1, SuffixBytes(n))

ms_prefix_bytes_masked(hash, n) ==
    LET num_zero_bits == PrefixBytes(n) * ByteBits - n
    IN  [i \in 1 .. PrefixBytes(n) |->
            IF i = 1 THEN ms_prefix_bytes(hash, n)[i] \ (0 .. num_zero_bits - 1)
                     ELSE ms_prefix_bytes(hash, n)[i]]

\* Fault: the mask is shifted by one bit less.
SuffixMaskedShort(hash, n) ==
    LET num_zero_bits == SuffixBytes(n) * ByteBits - (HashBits - n)
    IN  [i \in 1 .. SuffixBytes(n) |->
            IF i = SuffixBytes(n)
            THEN ls_suffix_bytes(hash, n)[i] \cap (0 .. ByteBits - 2 - num_zero_bits)
            ELSE ls_suffix_bytes(hash, n)[i]]

ls_suffix_bytes_masked(hash, n) ==
    LET num_zero_bits == SuffixBytes(n) * ByteBits - (HashBits - n)
    IN  [i \in 1 .. SuffixBytes(n) |->
            IF i = SuffixBytes(n)
            THEN ls_suffix_bytes(hash, n)[i] \cap (0 .. ByteBits - 1 - num_zero_bits)
            ELSE ls_suffix_bytes(hash, n)[i]]

\* A number of n bits, read from a window on the last word of the hash.
ms_prefix_index(hash, n) ==
    LET bytes_to_copy == IF HashBytesCount < WordBytes THEN HashBytesCount ELSE WordBytes
        msb_window    == SubSeq(hash, HashBytesCount - bytes_to_copy + 1, HashBytesCount)
    IN  IF n = 0 THEN {} ELSE ShiftRight(BitsOf(msb_window), bytes_to_copy * ByteBits - n)

\* The folders and the file of a prefix, most significant byte first; the
\* empty path is HashEntries.bin.
make_ms_prefix_path(n, index) ==
    LET num_levels   == BytesFor(n)
        masked_index == index \cap (0 .. n - 1)
    IN  [level \in 1 .. num_levels |-> BytesOf(masked_index, num_levels)[num_levels + 1 - level]]

-----------------------------------------------------------------------------
\* DonutEntriesWriteCalculator

bit_width(x) == Cardinality({i \in 0 .. WordBits - 1 : 2 ^ i <= x})

\* Fault: no room for the value that stands for "no match".
BytesForLastPi(entries_per_donut) == BytesFor(bit_width(entries_per_donut - 1))

calculate_bytes_per_local_pi(entries_per_donut) == BytesFor(bit_width(entries_per_donut))

hashes_order_entry_size(n, bytes_per_suffix_index) == PrefixBytes(n) + bytes_per_suffix_index

suffixes_entry_size(n, bytes_per_local_pi) == SuffixBytes(n) + bytes_per_local_pi

write_hashes_order_file_entry(n, optional_hash, suffix_index, bytes_per_suffix_index) ==
    IF optional_hash = NoHash
    THEN [i \in 1 .. hashes_order_entry_size(n, bytes_per_suffix_index) |-> AllOnes]
    ELSE ms_prefix_bytes_masked(optional_hash, n)
             \o BytesOf(BitsOfNumber(suffix_index), bytes_per_suffix_index)

\* There is no entry without a hash.
write_suffixes_file_entry(n, optional_hash, global_pi, first_global_pi, bytes_per_local_pi) ==
    IF optional_hash = NoHash
    THEN << >>
    ELSE ls_suffix_bytes_masked(optional_hash, n)
             \o BytesOf(BitsOfNumber(PiMinus(global_pi, first_global_pi)), bytes_per_local_pi)

-----------------------------------------------------------------------------
\* DonutEntriesCalculator

read_hashes_order_entry_from_bytes(n, bytes, bytes_per_suffix_index) ==
    LET required == hashes_order_entry_size(n, bytes_per_suffix_index)
        sentinel == \A i \in 1 .. required : bytes[i] = AllOnes
    IN  [is_sentinel         |-> sentinel,
         ms_prefix           |-> SubSeq(bytes, 1, PrefixBytes(n)),
         suffixes_file_index |->
             IF sentinel THEN NoMatch
             ELSE NumberOf(BitsOf(SubSeq(bytes, PrefixBytes(n) + 1, required)))]

read_ls_suffixes_entry_from_bytes(n, bytes, bytes_per_local_pi) ==
    [ls_suffix |-> SubSeq(bytes, 1, SuffixBytes(n)),
     local_pi  |-> NumberOf(BitsOf(SubSeq(bytes, SuffixBytes(n) + 1,
                                          suffixes_entry_size(n, bytes_per_local_pi))))]

\* The shared byte, if there is one, is an OR of the two.
hash_from_prefix_suffix(n, ms_prefix, ls_suffix) ==
    LET prefix_start == HashBytesCount - PrefixBytes(n)
    IN  [i \in 1 .. HashBytesCount |->
            IF i <= prefix_start THEN ls_suffix[i]
            ELSE IF i = prefix_start + 1 /\ n % ByteBits # 0
                 THEN ls_suffix[i] \cup ms_prefix[1]
                 ELSE ms_prefix[i - prefix_start]]

=============================================================================

-------------------------- MODULE EntryFilesProofs --------------------------
(***************************************************************************)
(* A hash that was split into prefix and suffix is put together again as   *)
(* it was, and what a reader returns of an entry file is what was          *)
(* appended, for any size of bytes, words, hashes and donuts, every number *)
(* of prefix bits and any number of entries, however often the writer's    *)
(* buffer is drained, the writer crashes or the reader is moved.           *)
(*                                                                         *)
(* The module goes from numbers to files: division and the split of a      *)
(* hash; powers of two and the bits of a number; the bits of bytes; the    *)
(* codec of a hash; the codec of a file's entries; the bytes of a file     *)
(* that holds entries; the two streams.                                    *)
(***************************************************************************)
EXTENDS EntryFiles, FiniteSetTheorems, SequenceTheorems, WellFoundedInduction, TLAPS

\* Any number of bits is some bytes and a rest.
LEMMA Division ==
  ASSUME NEW x \in Nat, NEW k \in Nat \ {0}
  PROVE  \E q \in Nat, r \in 0 .. k - 1 : x = k * q + r
<1>1. x \div k \in Nat /\ x % k \in 0 .. k - 1
  BY SMT
<1>2. PICK q \in Nat, r \in 0 .. k - 1 : q = x \div k /\ r = x % k
  BY <1>1
<1>3. x = k * q + r
  BY <1>2, Z3
<1> QED
  BY <1>3

\* A quotient is known by the interval it is in.
LEMMA QuotientIs ==
  ASSUME NEW k \in Nat \ {0}, NEW q \in Nat, NEW r \in 0 .. k - 1
  PROVE  (k * q + r) \div k = q /\ (k * q + r) % k = r
<1>1. \A x \in Int : x = k * q + r => x \div k = q /\ x % k = r
  BY Z3
<1> QED
  BY <1>1

LEMMA WholeBytes ==
  ASSUME NEW q \in Nat
  PROVE  BytesFor(ByteBits * q) = q
<1>1. ByteBits * q + ByteBits - 1 = ByteBits * q + (ByteBits - 1)
  BY SizesArePositive
<1>2. ByteBits - 1 \in 0 .. ByteBits - 1
  BY SizesArePositive
<1> QED
  BY <1>1, <1>2, QuotientIs, SizesArePositive DEF BytesFor

LEMMA PartOfByte ==
  ASSUME NEW q \in Nat, NEW r \in 1 .. ByteBits - 1
  PROVE  BytesFor(ByteBits * q + r) = q + 1
<1>1. ByteBits * q + r + ByteBits - 1 = ByteBits * (q + 1) + (r - 1)
  BY SizesArePositive
<1>2. r - 1 \in 0 .. ByteBits - 1
  BY SizesArePositive
<1> QED
  BY <1>1, <1>2, QuotientIs, SizesArePositive DEF BytesFor

\* The prefix is a number of bytes: nothing is shared and nothing is cut.
LEMMA SplitBetweenBytes ==
  ASSUME NEW p \in 0 .. HashBytesCount
  PROVE  LET bits == ByteBits * p IN
         /\ PrefixBytes(bits) = p /\ SuffixBytes(bits) = HashBytesCount - p
         /\ PrefixBytes(bits) * ByteBits - bits = 0
         /\ SuffixBytes(bits) * ByteBits - (HashBits - bits) = 0
         /\ bits % ByteBits = 0
<1> DEFINE bits == ByteBits * p
<1>1. PrefixBytes(bits) = p
  BY WholeBytes DEF PrefixBytes
<1>2. HashBits - bits = ByteBits * (HashBytesCount - p)
  BY SizesArePositive DEF HashBits
<1>3. SuffixBytes(bits) = HashBytesCount - p
  BY <1>2, WholeBytes, SizesArePositive DEF SuffixBytes
<1>4. bits % ByteBits = 0
  <2>1. bits = ByteBits * p + 0
    BY SizesArePositive
  <2> QED
    BY <2>1, QuotientIs, SizesArePositive
<1>5. p * ByteBits - bits = 0
  BY SizesArePositive
<1>6. (HashBytesCount - p) * ByteBits - (HashBits - bits) = 0
  BY <1>2, SizesArePositive
<1> QED
  BY <1>1, <1>3, <1>4, <1>5, <1>6

\* It is not: prefix and suffix share a byte, which both cut at the same bit.
LEMMA SplitInByte ==
  ASSUME NEW p \in 0 .. HashBytesCount - 1, NEW r \in 1 .. ByteBits - 1
  PROVE  LET bits == ByteBits * p + r IN
         /\ PrefixBytes(bits) = p + 1 /\ SuffixBytes(bits) = HashBytesCount - p
         /\ PrefixBytes(bits) * ByteBits - bits = ByteBits - r
         /\ SuffixBytes(bits) * ByteBits - (HashBits - bits) = r
         /\ bits % ByteBits = r
<1> DEFINE bits == ByteBits * p + r
<1>1. PrefixBytes(bits) = p + 1
  BY PartOfByte DEF PrefixBytes
<1>2. HashBits - bits = ByteBits * (HashBytesCount - p - 1) + (ByteBits - r)
  BY SizesArePositive DEF HashBits
<1>3. SuffixBytes(bits) = HashBytesCount - p
  <2>1. HashBytesCount - p - 1 \in Nat /\ ByteBits - r \in 1 .. ByteBits - 1
    BY SizesArePositive
  <2>2. BytesFor(HashBits - bits) = (HashBytesCount - p - 1) + 1
    BY <1>2, <2>1, PartOfByte
  <2> QED
    BY <2>2, SizesArePositive DEF SuffixBytes
<1>4. bits % ByteBits = r
  BY QuotientIs, SizesArePositive
<1>5. (p + 1) * ByteBits - bits = ByteBits - r
  BY SizesArePositive
<1>6. (HashBytesCount - p) * ByteBits - (HashBits - bits) = r
  BY SizesArePositive DEF HashBits
<1> QED
  BY <1>1, <1>3, <1>4, <1>5, <1>6

-----------------------------------------------------------------------------
(* The two parts, byte by byte.                                            *)

LEMMA PrefixByte ==
  ASSUME NEW h \in HashBytes, NEW bits, PrefixBytes(bits) \in 0 .. HashBytesCount,
         NEW i \in 1 .. PrefixBytes(bits)
  PROVE  /\ i # 1 => ms_prefix_bytes_masked(h, bits)[i] = h[HashBytesCount - PrefixBytes(bits) + i]
         /\ i = 1 => ms_prefix_bytes_masked(h, bits)[i] =
                        h[HashBytesCount - PrefixBytes(bits) + i]
                            \ (0 .. PrefixBytes(bits) * ByteBits - bits - 1)
<1>1. h \in Seq(Byte) /\ Len(h) = HashBytesCount /\ HashBytesCount \in Nat
  BY SizesArePositive DEF HashBytes
<1>2. ms_prefix_bytes(h, bits)[i] = h[HashBytesCount - PrefixBytes(bits) + i]
  BY <1>1 DEF ms_prefix_bytes
<1> QED
  BY <1>2 DEF ms_prefix_bytes_masked

LEMMA SuffixByte ==
  ASSUME NEW h \in HashBytes, NEW bits, SuffixBytes(bits) \in 0 .. HashBytesCount,
         NEW i \in 1 .. SuffixBytes(bits)
  PROVE  /\ i # SuffixBytes(bits) => ls_suffix_bytes_masked(h, bits)[i] = h[i]
         /\ i = SuffixBytes(bits) => ls_suffix_bytes_masked(h, bits)[i] =
                h[i] \cap (0 .. ByteBits - 1 - (SuffixBytes(bits) * ByteBits - (HashBits - bits)))
<1>1. h \in Seq(Byte) /\ Len(h) = HashBytesCount /\ HashBytesCount \in Nat
  BY SizesArePositive DEF HashBytes
<1>2. ls_suffix_bytes(h, bits)[i] = h[i]
  BY <1>1 DEF ls_suffix_bytes
<1> QED
  BY <1>2 DEF ls_suffix_bytes_masked

-----------------------------------------------------------------------------

Rejoined(h, bits) ==
    hash_from_prefix_suffix(bits, ms_prefix_bytes_masked(h, bits), ls_suffix_bytes_masked(h, bits))

\* Splitting a hash into the masked prefix of one file and the masked suffix
\* of the other and putting it together loses nothing, for every number of
\* bits that the prefix may have (hash_prefix_suffix.hpp).
THEOREM SplitLosesNothing ==
  \A h \in HashBytes, bits \in 0 .. HashBits : Rejoined(h, bits) = h
<1> SUFFICES ASSUME NEW h \in HashBytes, NEW bits \in 0 .. HashBits
             PROVE  Rejoined(h, bits) = h
  OBVIOUS
<1>n. PICK p \in Nat, r \in 0 .. ByteBits - 1 : bits = ByteBits * p + r
  <2>1. HashBits \in Nat
    BY SizesArePositive DEF HashBits
  <2>2. bits \in Nat
    BY <2>1
  <2> QED
    BY <2>2, Division, SizesArePositive
<1>0. /\ p \in Nat /\ r \in 0 .. ByteBits - 1
      /\ HashBytesCount \in Nat \ {0} /\ ByteBits \in Nat \ {0}
  BY <1>n, SizesArePositive
<1>h. /\ h = [i \in 1 .. HashBytesCount |-> h[i]]
      /\ \A i \in 1 .. HashBytesCount : h[i] \subseteq 0 .. ByteBits - 1
  BY <1>0 DEF HashBytes, Byte
<1>1. CASE r = 0
  <2>1. p \in 0 .. HashBytesCount
    BY <1>n, <1>0, <1>1 DEF HashBits
  <2>2. bits = ByteBits * p
    BY <1>n, <1>0, <1>1
  <2>3. /\ PrefixBytes(bits) = p /\ SuffixBytes(bits) = HashBytesCount - p
        /\ bits % ByteBits = 0
    BY <2>1, <2>2, SplitBetweenBytes
  <2>4. /\ p * ByteBits - bits = 0
        /\ (HashBytesCount - p) * ByteBits - (HashBits - bits) = 0
    BY <2>1, <2>2, SplitBetweenBytes
  <2>5. ASSUME NEW i \in 1 .. p
        PROVE  ms_prefix_bytes_masked(h, bits)[i] = h[HashBytesCount - p + i]
    <3>1. PrefixBytes(bits) \in 0 .. HashBytesCount /\ i \in 1 .. PrefixBytes(bits)
      BY <2>1, <2>3
    <3>2. CASE i # 1
      BY <2>3, <3>1, <3>2, PrefixByte
    <3>3. CASE i = 1
      <4>1. ms_prefix_bytes_masked(h, bits)[i] =
              h[HashBytesCount - p + i] \ (0 .. p * ByteBits - bits - 1)
        BY <2>3, <3>1, <3>3, PrefixByte
      <4>2. 0 .. p * ByteBits - bits - 1 = {}
        BY <2>4
      <4> QED
        BY <4>1, <4>2
    <3> QED
      BY <3>2, <3>3
  <2>6. ASSUME NEW i \in 1 .. HashBytesCount - p
        PROVE  ls_suffix_bytes_masked(h, bits)[i] = h[i]
    <3>1. SuffixBytes(bits) \in 0 .. HashBytesCount /\ i \in 1 .. SuffixBytes(bits)
      BY <1>0, <2>1, <2>3
    <3>2. CASE i # SuffixBytes(bits)
      BY <3>1, <3>2, SuffixByte
    <3>3. CASE i = SuffixBytes(bits)
      <4>1. ls_suffix_bytes_masked(h, bits)[i] =
              h[i] \cap (0 .. ByteBits - 1 - (SuffixBytes(bits) * ByteBits - (HashBits - bits)))
        BY <3>1, <3>3, SuffixByte
      <4>2. h[i] \cap (0 .. ByteBits - 1 - 0) = h[i]
        BY <1>0, <1>h, <2>1
      <4>3. SuffixBytes(bits) * ByteBits - (HashBits - bits) = 0
        BY <2>3, <2>4
      <4> QED
        BY <4>1, <4>2, <4>3
    <3> QED
      BY <3>2, <3>3
  <2>7. ASSUME NEW i \in 1 .. HashBytesCount
        PROVE  Rejoined(h, bits)[i] = h[i]
    <3>1. CASE i <= HashBytesCount - p
      BY <1>0, <2>1, <2>3, <2>6, <3>1 DEF Rejoined, hash_from_prefix_suffix
    <3>2. CASE i > HashBytesCount - p
      <4>1. i - (HashBytesCount - p) \in 1 .. p
        BY <1>0, <2>1, <3>2
      <4>2. Rejoined(h, bits)[i] = ms_prefix_bytes_masked(h, bits)[i - (HashBytesCount - p)]
        BY <1>0, <2>1, <2>3, <3>2 DEF Rejoined, hash_from_prefix_suffix
      <4>3. HashBytesCount - p + (i - (HashBytesCount - p)) = i
        BY <1>0
      <4> QED
        BY <2>5, <4>1, <4>2, <4>3
    <3> QED
      BY <1>0, <2>1, <3>1, <3>2
  <2> QED
    BY <1>h, <2>7 DEF Rejoined, hash_from_prefix_suffix
<1>2. CASE r # 0
  <2>1. p \in 0 .. HashBytesCount - 1 /\ r \in 1 .. ByteBits - 1
    <3>1. ByteBits * p < ByteBits * HashBytesCount
      BY <1>n, <1>0, <1>2 DEF HashBits
    <3>2. p < HashBytesCount
      BY <1>0, <3>1
    <3> QED
      BY <1>0, <1>2, <3>2
  <2> DEFINE shared == HashBytesCount - p
  <2>2. /\ PrefixBytes(bits) = p + 1 /\ SuffixBytes(bits) = shared
        /\ bits % ByteBits = r
    BY <1>n, <2>1, SplitInByte
  <2>3. /\ (p + 1) * ByteBits - bits = ByteBits - r
        /\ shared * ByteBits - (HashBits - bits) = r
    BY <1>n, <2>1, SplitInByte
  <2>4. /\ PrefixBytes(bits) \in 1 .. HashBytesCount /\ SuffixBytes(bits) \in 1 .. HashBytesCount
        /\ HashBytesCount - PrefixBytes(bits) = shared - 1
    BY <1>0, <2>1, <2>2
  <2>5. ASSUME NEW i \in 2 .. p + 1
        PROVE  ms_prefix_bytes_masked(h, bits)[i] = h[shared - 1 + i]
    <3>1. i \in 1 .. PrefixBytes(bits) /\ i # 1 /\ PrefixBytes(bits) \in 0 .. HashBytesCount
      BY <2>2, <2>4
    <3> QED
      BY <2>4, <3>1, PrefixByte
  <2>6. ms_prefix_bytes_masked(h, bits)[1] = h[shared] \ (0 .. ByteBits - r - 1)
    <3>1. 1 \in 1 .. PrefixBytes(bits) /\ PrefixBytes(bits) \in 0 .. HashBytesCount
      BY <2>4
    <3>2. ms_prefix_bytes_masked(h, bits)[1] =
            h[HashBytesCount - PrefixBytes(bits) + 1] \ (0 .. PrefixBytes(bits) * ByteBits - bits - 1)
      BY <3>1, PrefixByte
    <3>3. HashBytesCount - PrefixBytes(bits) + 1 = shared
      BY <1>0, <2>1, <2>4
    <3> QED
      BY <2>2, <2>3, <3>2, <3>3
  <2>7. ASSUME NEW i \in 1 .. shared - 1
        PROVE  ls_suffix_bytes_masked(h, bits)[i] = h[i]
    <3>1. i \in 1 .. SuffixBytes(bits) /\ i # SuffixBytes(bits) /\ SuffixBytes(bits) \in 0 .. HashBytesCount
      BY <2>2, <2>4
    <3> QED
      BY <3>1, SuffixByte
  <2>8. ls_suffix_bytes_masked(h, bits)[shared] = h[shared] \cap (0 .. ByteBits - 1 - r)
    <3>1. SuffixBytes(bits) \in 1 .. SuffixBytes(bits) /\ SuffixBytes(bits) \in 0 .. HashBytesCount
      BY <2>4
    <3>2. ls_suffix_bytes_masked(h, bits)[SuffixBytes(bits)] =
            h[SuffixBytes(bits)]
                \cap (0 .. ByteBits - 1 - (SuffixBytes(bits) * ByteBits - (HashBits - bits)))
      BY <3>1, SuffixByte
    <3> QED
      BY <2>2, <2>3, <3>2
  <2>9. ASSUME NEW i \in 1 .. HashBytesCount
        PROVE  Rejoined(h, bits)[i] = h[i]
    <3>1. CASE i < shared
      BY <1>0, <2>1, <2>2, <2>7, <3>1 DEF Rejoined, hash_from_prefix_suffix
    <3>2. CASE i = shared
      <4>1. Rejoined(h, bits)[i] = ls_suffix_bytes_masked(h, bits)[shared] \cup ms_prefix_bytes_masked(h, bits)[1]
        BY <1>0, <2>1, <2>2, <3>2 DEF Rejoined, hash_from_prefix_suffix
      <4>2. ByteBits - r - 1 = ByteBits - 1 - r
        BY <1>0
      <4>3. (h[shared] \cap (0 .. ByteBits - 1 - r)) \cup (h[shared] \ (0 .. ByteBits - 1 - r)) = h[shared]
        OBVIOUS
      <4> QED
        BY <2>6, <2>8, <3>2, <4>1, <4>2, <4>3
    <3>3. CASE i > shared
      <4>1. i - (shared - 1) \in 2 .. p + 1
        BY <1>0, <2>1, <3>3
      <4>2. Rejoined(h, bits)[i] = ms_prefix_bytes_masked(h, bits)[i - (shared - 1)]
        BY <1>0, <2>1, <2>2, <3>3 DEF Rejoined, hash_from_prefix_suffix
      <4>3. shared - 1 + (i - (shared - 1)) = i
        BY <1>0, <2>1
      <4> QED
        BY <2>5, <4>1, <4>2, <4>3
    <3> QED
      BY <1>0, <2>1, <3>1, <3>2, <3>3
  <2> QED
    BY <1>h, <2>9 DEF Rejoined, hash_from_prefix_suffix
<1> QED
  BY <1>0, <1>1, <1>2

-----------------------------------------------------------------------------
(* Powers of two.                                                          *)

\* A nonempty set of numbers has a least one.
LEMMA LeastNumber ==
  ASSUME NEW T \in SUBSET Nat, T # {}
  PROVE  \E m \in T : \A k \in T : m <= k
<1>1. PICK m \in T : \A k \in T : ~ (<< k, m >> \in OpToRel(<, Nat))
  BY NatLessThanWellFounded, WFMin
<1>2. \A k \in T : ~ (k < m)
  BY <1>1 DEF OpToRel
<1> QED
  BY <1>2

\* A set that has zero and with each number the next has all numbers.
LEMMA AllNumbers ==
  ASSUME NEW T \in SUBSET Nat, 0 \in T, \A k \in T : k + 1 \in T
  PROVE  T = Nat
<1> SUFFICES ASSUME Nat \ T # {} PROVE FALSE
  OBVIOUS
<1>1. PICK m \in Nat \ T : \A k \in Nat \ T : m <= k
  BY LeastNumber
<1>2. m - 1 \in Nat /\ m - 1 \notin Nat \ T
  BY <1>1
<1> QED
  BY <1>1, <1>2

\* The sets of numbers below k + 1 are those below k, without and with k.
LEMMA Doubling ==
  ASSUME NEW k \in Nat
  PROVE  2 ^ k \in Nat \ {0} /\ 2 ^ (k + 1) = 2 * 2 ^ k
<1> DEFINE Low == 0 .. k - 1
           Without == SUBSET Low
           With == {s \cup {k} : s \in Without}
           add == [s \in Without |-> s \cup {k}]
<1>1. IsFiniteSet(Low) /\ Cardinality(Low) = k
  <2>1. k - 1 \in Int /\ 0 \in Int
    OBVIOUS
  <2>2. IsFiniteSet(Low) /\ Cardinality(Low) = IF 0 > k - 1 THEN 0 ELSE k - 1 - 0 + 1
    BY <2>1, FS_Interval
  <2> QED
    BY <2>2
<1>2. IsFiniteSet(0 .. k) /\ Cardinality(0 .. k) = k + 1
  <2>1. IsFiniteSet(0 .. k) /\ Cardinality(0 .. k) = IF 0 > k THEN 0 ELSE k - 0 + 1
    BY FS_Interval
  <2> QED
    BY <2>1
<1>3. IsFiniteSet(Without) /\ Cardinality(Without) = 2 ^ k
  BY <1>1, FS_SUBSET
<1>4. IsFiniteSet(SUBSET (0 .. k)) /\ Cardinality(SUBSET (0 .. k)) = 2 ^ (k + 1)
  BY <1>2, FS_SUBSET
<1>5. add \in Bijection(Without, With)
  <2>1. add \in [Without -> With] /\ \A t \in With : \E s \in Without : add[s] = t
    OBVIOUS
  <2>2. ASSUME NEW s \in Without, NEW t \in Without, add[s] = add[t]
        PROVE  s = t
    <3>1. k \notin s /\ k \notin t
      OBVIOUS
    <3>2. s \cup {k} = t \cup {k}
      BY <2>2
    <3> QED
      BY <3>1, <3>2
  <2> HIDE DEF Without, With, add
  <2> QED
    BY <2>1, <2>2 DEF Bijection, Injection, Surjection, IsInjective
<1>6. IsFiniteSet(With) /\ Cardinality(With) = 2 ^ k
  <2> HIDE DEF Without, With, add
  <2>1. ExistsBijection(Without, With)
    BY <1>5 DEF ExistsBijection
  <2> QED
    BY <1>3, <2>1, FS_Bijection
<1>7. SUBSET (0 .. k) = Without \cup With
  <2>1. ASSUME NEW s \in SUBSET (0 .. k) PROVE s \in Without \cup With
    <3>1. CASE k \in s
      <4>1. s \ {k} \in Without /\ (s \ {k}) \cup {k} = s
        BY <3>1
      <4> QED
        BY <4>1
    <3>2. CASE k \notin s
      BY <3>2
    <3> QED
      BY <3>1, <3>2
  <2>2. Without \subseteq SUBSET (0 .. k) /\ With \subseteq SUBSET (0 .. k)
    <3>1. Low \subseteq 0 .. k /\ k \in 0 .. k
      OBVIOUS
    <3> HIDE DEF Low
    <3> QED
      BY <3>1
  <2> HIDE DEF Without, With
  <2> QED
    BY <2>1, <2>2
<1>8. Without \cap With = {}
  OBVIOUS
<1>9. Cardinality(SUBSET (0 .. k)) = 2 ^ k + 2 ^ k
  <2> HIDE DEF Without, With
  <2>1. Cardinality(Without \cup With) = Cardinality(Without) + Cardinality(With) - Cardinality(Without \cap With)
    BY <1>3, <1>6, FS_Union
  <2>2. Cardinality(Without \cap With) = 0
    BY <1>8, FS_EmptySet
  <2>3. Cardinality(Without) \in Nat
    BY <1>3, FS_CardinalityType
  <2>4. Cardinality(Without) + Cardinality(With) - 0 = Cardinality(Without) + Cardinality(With)
    BY <1>3, <1>6, <2>3
  <2> QED
    BY ONLY <1>3, <1>6, <1>7, <2>1, <2>2, <2>4
<1>10. Cardinality(Without) \in Nat /\ Cardinality(Without) # 0
  <2>1. {} \in Without
    OBVIOUS
  <2> HIDE DEF Without
  <2> QED
    BY <1>3, <2>1, FS_CardinalityType, FS_EmptySet
<1>11. 2 ^ k \in Nat \ {0}
  BY <1>3, <1>10
<1> QED
  BY <1>4, <1>9, <1>11

LEMMA PowersGrow ==
  ASSUME NEW i \in Nat, NEW j \in Nat, i <= j
  PROVE  2 ^ i <= 2 ^ j
<1> DEFINE T == {d \in Nat : 2 ^ i <= 2 ^ (i + d)}
<1>1. 0 \in T
  <2>1. 2 ^ i \in Nat /\ i + 0 = i
    BY Doubling
  <2> QED
    BY <2>1
<1>2. ASSUME NEW d \in T PROVE d + 1 \in T
  <2>1. i + d \in Nat /\ i + (d + 1) = (i + d) + 1
    OBVIOUS
  <2>2. 2 ^ (i + d) \in Nat /\ 2 ^ ((i + d) + 1) = 2 * 2 ^ (i + d) /\ 2 ^ i \in Nat
    BY <2>1, Doubling
  <2>3. 2 ^ i <= 2 ^ (i + d)
    OBVIOUS
  <2>4. 2 ^ i <= 2 ^ (i + (d + 1))
    BY <2>1, <2>2, <2>3
  <2> QED
    BY <2>4
<1>3. T = Nat
  <2> HIDE DEF T
  <2>1. T \in SUBSET Nat
    BY DEF T
  <2> QED
    BY <1>1, <1>2, <2>1, AllNumbers
<1>4. j - i \in Nat /\ i + (j - i) = j
  OBVIOUS
<1>5. 2 ^ i <= 2 ^ (i + (j - i))
  BY <1>3, <1>4
<1> QED
  BY <1>4, <1>5

-----------------------------------------------------------------------------
(* The bits of numbers.                                                    *)

Bit(x, i) == (x \div 2 ^ i) % 2

\* The bits of a number are its last one and those of its half.
LEMMA BitsOfHalf ==
  ASSUME NEW x \in Nat, NEW i \in Nat
  PROVE  /\ x \div 2 \in Nat /\ x = 2 * (x \div 2) + (x % 2)
         /\ x % 2 \in 0 .. 1
         /\ Bit(x, 0) = x % 2
         /\ Bit(x, i + 1) = Bit(x \div 2, i)
<1>1. x \div 2 \in Nat /\ x = 2 * (x \div 2) + (x % 2) /\ x % 2 \in 0 .. 1
  OBVIOUS
<1>2. Bit(x, 0) = x % 2
  <2>1. 2 ^ 0 = 1
    OBVIOUS
  <2>2. x \div 1 = x
    OBVIOUS
  <2> QED
    BY <2>1, <2>2 DEF Bit
<1>3. PICK h \in Nat, r \in 0 .. 1 : h = x \div 2 /\ r = x % 2 /\ x = 2 * h + r
  BY <1>1
<1>4. PICK p \in Nat \ {0} : p = 2 ^ i /\ 2 ^ (i + 1) = 2 * p
  BY Doubling
<1>5. PICK q \in Nat, s \in 0 .. p - 1 : h = p * q + s
  BY Division
<1>6. h \div p = q
  BY <1>5, QuotientIs
<1>7. x = (2 * p) * q + (2 * s + r)
  <2>1. 2 * (p * q + s) = (2 * p) * q + 2 * s
    BY Z3
  <2> QED
    BY <1>3, <1>5, <2>1
<1>8. 2 * s + r \in 0 .. 2 * p - 1 /\ 2 * p \in Nat \ {0}
  OBVIOUS
<1>9. x \div (2 * p) = q
  <2>1. PICK u \in Nat \ {0} : \E t \in 0 .. u - 1 : u = 2 * p /\ t = 2 * s + r
    BY <1>8
  <2>a. PICK t \in 0 .. u - 1 : u = 2 * p /\ t = 2 * s + r
    BY <2>1
  <2>2. (u * q + t) \div u = q
    BY QuotientIs
  <2> QED
    BY <1>7, <2>a, <2>2
<1> QED
  BY <1>1, <1>2, <1>3, <1>4, <1>6, <1>9 DEF Bit

\* A number below 2 ^ k is known by its bits below k.
LEMMA SameBits ==
  ASSUME NEW k \in Nat, NEW x \in 0 .. 2 ^ k - 1, NEW y \in 0 .. 2 ^ k - 1,
         \A i \in 0 .. k - 1 : Bit(x, i) = Bit(y, i)
  PROVE  x = y
<1> DEFINE Known2(j) == \A u, v \in 0 .. 2 ^ j - 1 :
                           (\A i \in 0 .. j - 1 : Bit(u, i) = Bit(v, i)) => u = v
           T == {j \in Nat : Known2(j)}
<1>1. 0 \in T
  <2>1. 2 ^ 0 = 1
    OBVIOUS
  <2>2. \A u, v \in 0 .. 2 ^ 0 - 1 : u = v
    BY <2>1
  <2> QED
    BY <2>2
<1>2. ASSUME NEW j \in T PROVE j + 1 \in T
  <2> SUFFICES ASSUME NEW u \in 0 .. 2 ^ (j + 1) - 1, NEW v \in 0 .. 2 ^ (j + 1) - 1,
                      \A i \in 0 .. (j + 1) - 1 : Bit(u, i) = Bit(v, i)
               PROVE  u = v
    OBVIOUS
  <2>0. 2 ^ j \in Nat \ {0} /\ 2 ^ (j + 1) = 2 * 2 ^ j
    BY Doubling
  <2>1. u \in Nat /\ v \in Nat /\ u < 2 * 2 ^ j /\ v < 2 * 2 ^ j
    BY <2>0
  <2>2. u \div 2 \in 0 .. 2 ^ j - 1 /\ v \div 2 \in 0 .. 2 ^ j - 1
    BY <2>0, <2>1
  <2>3. ASSUME NEW i \in 0 .. j - 1 PROVE Bit(u \div 2, i) = Bit(v \div 2, i)
    <3>1. i \in Nat /\ i + 1 \in 0 .. (j + 1) - 1
      OBVIOUS
    <3>2. Bit(u, i + 1) = Bit(v, i + 1)
      BY <3>1
    <3>3. Bit(u, i + 1) = Bit(u \div 2, i) /\ Bit(v, i + 1) = Bit(v \div 2, i)
      BY <2>1, <3>1, BitsOfHalf
    <3> QED
      BY <3>2, <3>3
  <2>4. u \div 2 = v \div 2
    BY <2>2, <2>3
  <2>5. u % 2 = v % 2
    <3>1. 0 \in 0 .. (j + 1) - 1
      OBVIOUS
    <3>2. Bit(u, 0) = Bit(v, 0)
      BY <3>1
    <3>3. Bit(u, 0) = u % 2 /\ Bit(v, 0) = v % 2
      BY <2>1, BitsOfHalf
    <3> QED
      BY <3>2, <3>3
  <2>6. u = 2 * (u \div 2) + (u % 2) /\ v = 2 * (v \div 2) + (v % 2)
    BY <2>1
  <2> QED
    BY <2>4, <2>5, <2>6
<1>3. T = Nat
  <2> HIDE DEF T
  <2>1. T \in SUBSET Nat
    BY DEF T
  <2> QED
    BY <1>1, <1>2, <2>1, AllNumbers
<1>4. Known2(k)
  BY <1>3
<1> QED
  BY <1>4

\* It has no others.
LEMMA NoHigherBits ==
  ASSUME NEW k \in Nat, NEW x \in 0 .. 2 ^ k - 1, NEW i \in Nat, i >= k
  PROVE  Bit(x, i) = 0
<1>1. 2 ^ k \in Nat /\ 2 ^ k <= 2 ^ i
  BY Doubling, PowersGrow
<1>2. PICK p \in Nat \ {0} : p = 2 ^ i
  BY Doubling
<1>3. x \in 0 .. p - 1
  BY <1>1, <1>2
<1>4. x \div p = 0
  <2>1. (p * 0 + x) \div p = 0
    BY <1>3, QuotientIs
  <2>2. p * 0 + x = x
    BY <1>3
  <2> QED
    BY <2>1, <2>2
<1> QED
  BY <1>2, <1>4 DEF Bit

\* The number before 2 ^ k has them all.
LEMMA OnesOnly ==
  ASSUME NEW k \in Nat, NEW i \in 0 .. k - 1
  PROVE  Bit(2 ^ k - 1, i) = 1
<1> DEFINE Ones(j) == \A b \in 0 .. j - 1 : Bit(2 ^ j - 1, b) = 1
           T == {j \in Nat : Ones(j)}
<1>1. 0 \in T
  OBVIOUS
<1>2. ASSUME NEW j \in T PROVE j + 1 \in T
  <2> SUFFICES ASSUME NEW b \in 0 .. (j + 1) - 1
               PROVE  Bit(2 ^ (j + 1) - 1, b) = 1
    OBVIOUS
  <2>1. PICK p \in Nat \ {0} : p = 2 ^ j /\ 2 ^ (j + 1) = 2 * p
    BY Doubling
  <2>2. 2 ^ (j + 1) - 1 \in Nat /\ (2 ^ (j + 1) - 1) \div 2 = 2 ^ j - 1 /\ (2 ^ (j + 1) - 1) % 2 = 1
    <3>1. \A q \in Nat \ {0} : 2 * q - 1 \in Nat /\ (2 * q - 1) \div 2 = q - 1 /\ (2 * q - 1) % 2 = 1
      OBVIOUS
    <3> QED
      BY <2>1, <3>1
  <2>3. CASE b = 0
    <3>1. Bit(2 ^ (j + 1) - 1, 0) = (2 ^ (j + 1) - 1) % 2
      BY <2>2, BitsOfHalf
    <3> QED
      BY <2>2, <2>3, <3>1
  <2>4. CASE b # 0
    <3>1. b - 1 \in Nat /\ b - 1 \in 0 .. j - 1 /\ (b - 1) + 1 = b
      BY <2>4
    <3>2. Bit(2 ^ (j + 1) - 1, (b - 1) + 1) = Bit((2 ^ (j + 1) - 1) \div 2, b - 1)
      BY <2>2, <3>1, BitsOfHalf
    <3>3. Bit(2 ^ j - 1, b - 1) = 1
      BY <3>1
    <3> QED
      BY <2>2, <3>1, <3>2, <3>3
  <2> QED
    BY <2>3, <2>4
<1>3. T = Nat
  <2> HIDE DEF T
  <2>1. T \in SUBSET Nat
    BY DEF T
  <2> QED
    BY <1>1, <1>2, <2>1, AllNumbers
<1>4. Ones(k)
  BY <1>3
<1> QED
  BY <1>4

-----------------------------------------------------------------------------
(* Bytes and their bits.                                                   *)

LEMMA BytesForIs ==
  ASSUME NEW x \in Nat
  PROVE  /\ BytesFor(x) \in Nat /\ x <= ByteBits * BytesFor(x)
         /\ ByteBits * BytesFor(x) <= x + (ByteBits - 1)
         /\ \A k \in Nat : x <= ByteBits * k => BytesFor(x) <= k
<1>0. PICK B \in Nat \ {0} : B = ByteBits
  BY SizesArePositive
<1>1. x + (B - 1) \in Nat
  OBVIOUS
<1>2. PICK q \in Nat, r \in 0 .. B - 1 : x + (B - 1) = B * q + r
  BY <1>1, Division
<1>3. BytesFor(x) = q
  <2>1. (B * q + r) \div B = q
    BY QuotientIs
  <2>2. x + B - 1 = x + (B - 1)
    OBVIOUS
  <2> QED
    BY <1>0, <1>2, <2>1, <2>2 DEF BytesFor
<1>4. B * q \in Nat
  OBVIOUS
<1>5. x <= B * q /\ B * q <= x + (B - 1)
  BY <1>2, <1>4
<1>6. ASSUME NEW k \in Nat, x <= B * k PROVE q <= k
  <2>1. B * q < B * (k + 1)
    BY <1>5, <1>6
  <2> QED
    BY <2>1
<1> QED
  BY <1>0, <1>3, <1>5, <1>6

LEMMA ByteOfBit ==
  ASSUME NEW c \in Nat, NEW b \in 0 .. ByteBits * c - 1
  PROVE  \E i \in 1 .. c, s \in AllOnes : b = ByteBits * (i - 1) + s
<1>0. PICK B \in Nat \ {0} : B = ByteBits
  BY SizesArePositive
<1>1. b \in Nat
  BY <1>0
<1>2. PICK q \in Nat, s \in 0 .. B - 1 : b = B * q + s
  BY <1>1, Division
<1>3. q < c
  <2>1. b < B * c
    BY <1>0
  <2>2. B * q < B * c
    BY <1>2, <2>1
  <2> QED
    BY <2>2
<1>4. q + 1 \in 1 .. c /\ (q + 1) - 1 = q
  BY <1>3
<1> QED
  BY <1>0, <1>2, <1>4 DEF AllOnes

LEMMA OneByte ==
  ASSUME NEW i \in Nat \ {0}, NEW j \in Nat \ {0}, NEW s \in AllOnes, NEW t \in AllOnes,
         ByteBits * (i - 1) + s = ByteBits * (j - 1) + t
  PROVE  i = j /\ s = t
<1>0. PICK B \in Nat \ {0} : B = ByteBits
  BY SizesArePositive
<1>1. PICK p \in Nat : p = i - 1
  OBVIOUS
<1>2. PICK q \in Nat : q = j - 1
  OBVIOUS
<1>3. s \in 0 .. B - 1 /\ t \in 0 .. B - 1
  BY <1>0 DEF AllOnes
<1>4. (B * p + s) \div B = p /\ (B * p + s) % B = s
  BY <1>3, QuotientIs
<1>5. (B * q + t) \div B = q /\ (B * q + t) % B = t
  BY <1>3, QuotientIs
<1>6. B * p + s = B * q + t
  BY <1>0, <1>1, <1>2
<1>7. p = q /\ s = t
  BY <1>4, <1>5, <1>6
<1> QED
  BY <1>1, <1>2, <1>7

LEMMA BitOfByte ==
  ASSUME NEW c \in Nat, NEW bytes, DOMAIN bytes = 1 .. c,
         NEW i \in 1 .. c, NEW s \in AllOnes
  PROVE  ByteBits * (i - 1) + s \in BitsOf(bytes) <=> s \in bytes[i]
<1>1. ASSUME s \in bytes[i] PROVE ByteBits * (i - 1) + s \in BitsOf(bytes)
  <2>1. << i, s >> \in {q \in (DOMAIN bytes) \X AllOnes : q[2] \in bytes[q[1]]}
    BY <1>1
  <2> QED
    BY <2>1 DEF BitsOf
<1>2. ASSUME ByteBits * (i - 1) + s \in BitsOf(bytes) PROVE s \in bytes[i]
  <2>1. PICK j \in 1 .. c, t \in AllOnes : ByteBits * (i - 1) + s = ByteBits * (j - 1) + t /\ t \in bytes[j]
    BY <1>2 DEF BitsOf
  <2>2. i = j /\ s = t
    BY <2>1, OneByte
  <2> QED
    BY <2>1, <2>2
<1> QED
  BY <1>1, <1>2

LEMMA BitsInBytes ==
  ASSUME NEW c \in Nat, NEW bytes, DOMAIN bytes = 1 .. c
  PROVE  BitsOf(bytes) \subseteq 0 .. ByteBits * c - 1
<1> SUFFICES ASSUME NEW b \in BitsOf(bytes) PROVE b \in 0 .. ByteBits * c - 1
  OBVIOUS
<1>0. PICK B \in Nat \ {0} : B = ByteBits
  BY SizesArePositive
<1>1. PICK j \in 1 .. c, t \in AllOnes : b = B * (j - 1) + t
  BY <1>0 DEF BitsOf
<1>2. t \in 0 .. B - 1
  BY <1>0 DEF AllOnes
<1>3. PICK q \in Nat : q = j - 1 /\ q + 1 <= c
  OBVIOUS
<1>4. B * q \in Nat /\ B * q + B <= B * c
  <2>1. B * (q + 1) <= B * c
    BY <1>3
  <2> QED
    BY <2>1
<1>5. B * c \in Nat
  OBVIOUS
<1> QED
  BY <1>0, <1>1, <1>2, <1>3, <1>4, <1>5

LEMMA BitsOfBytesOf ==
  ASSUME NEW c \in Nat, NEW number_bits \in SUBSET (0 .. ByteBits * c - 1)
  PROVE  BitsOf(BytesOf(number_bits, c)) = number_bits
<1> DEFINE bytes == BytesOf(number_bits, c)
<1>1. DOMAIN bytes = 1 .. c
  BY DEF BytesOf
<1>2. \A i \in 1 .. c, s \in AllOnes : s \in bytes[i] <=> ByteBits * (i - 1) + s \in number_bits
  BY DEF BytesOf
<1>3. \A i \in 1 .. c, s \in AllOnes :
         ByteBits * (i - 1) + s \in BitsOf(bytes) <=> ByteBits * (i - 1) + s \in number_bits
  <2> HIDE DEF bytes
  <2> QED
    BY <1>1, <1>2, BitOfByte
<1>4. BitsOf(bytes) \subseteq 0 .. ByteBits * c - 1
  <2> HIDE DEF bytes
  <2> QED
    BY <1>1, BitsInBytes
<1>5. ASSUME NEW b \in 0 .. ByteBits * c - 1 PROVE b \in BitsOf(bytes) <=> b \in number_bits
  <2>1. PICK i \in 1 .. c, s \in AllOnes : b = ByteBits * (i - 1) + s
    BY ByteOfBit
  <2> QED
    BY <1>3, <2>1
<1>6. BitsOf(bytes) \subseteq number_bits /\ number_bits \subseteq BitsOf(bytes)
  <2> HIDE DEF bytes
  <2> QED
    BY <1>4, <1>5
<1> QED
  BY <1>6

LEMMA BytesByBits ==
  ASSUME NEW c \in Nat, NEW a \in [1 .. c -> Byte], NEW b \in [1 .. c -> Byte],
         BitsOf(a) = BitsOf(b)
  PROVE  a = b
<1>1. ASSUME NEW i \in 1 .. c PROVE a[i] = b[i]
  <2>1. a[i] \subseteq AllOnes /\ b[i] \subseteq AllOnes
    BY DEF Byte, AllOnes
  <2>2. \A s \in AllOnes : s \in a[i] <=> s \in b[i]
    BY BitOfByte
  <2> QED
    BY <2>1, <2>2
<1> QED
  BY <1>1

LEMMA BytesAreBytes ==
  ASSUME NEW number_bits, NEW c \in Nat
  PROVE  BytesOf(number_bits, c) \in [1 .. c -> Byte]
BY DEF BytesOf, Byte, AllOnes

-----------------------------------------------------------------------------
(* Numbers in words.                                                       *)

LEMMA WordIsNumber == WordBits \in Nat /\ HashBits \in Nat
BY SizesArePositive DEF WordBits, HashBits

LEMMA BitsAreBits ==
  ASSUME NEW x \in Nat, NEW i \in Nat
  PROVE  Bit(x, i) \in {0, 1}
<1>1. PICK p \in Nat \ {0} : p = 2 ^ i
  BY Doubling
<1>2. x \div p \in Int
  OBVIOUS
<1> QED
  BY <1>1, <1>2 DEF Bit

\* A number of a word is known by its bits.
LEMMA NumberByBits ==
  ASSUME NEW x \in 0 .. 2 ^ WordBits - 1, NEW y \in 0 .. 2 ^ WordBits - 1,
         BitsOfNumber(x) = BitsOfNumber(y)
  PROVE  x = y
<1>1. PICK w \in Nat : w = WordBits
  BY WordIsNumber
<1>0. x \in Nat /\ y \in Nat
  BY <1>1, Doubling
<1>2. ASSUME NEW i \in 0 .. w - 1 PROVE Bit(x, i) = Bit(y, i)
  <2>1. Bit(x, i) = 1 <=> Bit(y, i) = 1
    BY <1>1 DEF BitsOfNumber, Bit
  <2>2. Bit(x, i) \in {0, 1} /\ Bit(y, i) \in {0, 1}
    BY <1>0, BitsAreBits
  <2> QED
    BY <2>1, <2>2
<1> QED
  BY <1>1, <1>2, SameBits

LEMMA NumberBack ==
  ASSUME NEW x \in 0 .. 2 ^ WordBits - 1
  PROVE  NumberOf(BitsOfNumber(x)) = x
<1>1. \A y \in 0 .. 2 ^ WordBits - 1 : BitsOfNumber(y) = BitsOfNumber(x) => y = x
  BY NumberByBits
<1> QED
  BY <1>1 DEF NumberOf

LEMMA BitsOfSmall ==
  ASSUME NEW k \in 0 .. WordBits, NEW x \in 0 .. 2 ^ k - 1
  PROVE  /\ x \in 0 .. 2 ^ WordBits - 1
         /\ BitsOfNumber(x) \subseteq 0 .. k - 1
<1>0. PICK w \in Nat : w = WordBits
  BY WordIsNumber
<1>1. 2 ^ k <= 2 ^ w /\ 2 ^ k \in Nat /\ 2 ^ w \in Nat
  BY <1>0, Doubling, PowersGrow
<1>2. ASSUME NEW i \in BitsOfNumber(x) PROVE i \in 0 .. k - 1
  <2>1. i \in 0 .. w - 1 /\ Bit(x, i) = 1
    BY <1>0 DEF BitsOfNumber, Bit
  <2>2. CASE i >= k
    <3>1. Bit(x, i) = 0
      BY <1>0, <2>1, <2>2, NoHigherBits
    <3> QED
      BY <2>1, <3>1
  <2> QED
    BY <1>0, <2>1, <2>2
<1> QED
  BY <1>0, <1>1, <1>2

LEMMA BitsOfOnes ==
  ASSUME NEW k \in 0 .. WordBits
  PROVE  BitsOfNumber(2 ^ k - 1) = 0 .. k - 1
<1>0. PICK w \in Nat : w = WordBits
  BY WordIsNumber
<1>1. k \in Nat /\ 2 ^ k \in Nat \ {0}
  BY <1>0, Doubling
<1>2. 2 ^ k - 1 \in 0 .. 2 ^ k - 1
  BY <1>1
<1>3. BitsOfNumber(2 ^ k - 1) \subseteq 0 .. k - 1
  BY <1>2, BitsOfSmall
<1>4. ASSUME NEW i \in 0 .. k - 1 PROVE i \in BitsOfNumber(2 ^ k - 1)
  <2>1. Bit(2 ^ k - 1, i) = 1
    BY <1>1, OnesOnly
  <2>2. i \in 0 .. w - 1
    BY <1>0
  <2> QED
    BY <1>0, <2>1, <2>2 DEF BitsOfNumber, Bit
<1> QED
  BY <1>3, <1>4

\* bit_width is what its name says.
LEMMA WidthIs ==
  ASSUME NEW x \in 0 .. 2 ^ WordBits - 1
  PROVE  bit_width(x) \in 0 .. WordBits /\ x < 2 ^ bit_width(x)
<1>0. PICK w \in Nat : w = WordBits
  BY WordIsNumber
<1>1. 2 ^ w \in Nat /\ x \in Nat /\ x < 2 ^ w
  BY <1>0, Doubling
<1> DEFINE T == {k \in Nat : x < 2 ^ k}
<1>2. PICK m \in T : \A k \in T : m <= k
  <2>1. w \in T
    BY <1>1
  <2>2. T \in SUBSET Nat
    OBVIOUS
  <2> HIDE DEF T
  <2> QED
    BY <2>1, <2>2, LeastNumber
<1>3. m \in Nat /\ x < 2 ^ m /\ m <= w
  BY <1>1, <1>2
<1>4. ASSUME NEW i \in 0 .. w - 1 PROVE 2 ^ i <= x <=> i \in 0 .. m - 1
  <2>1. 2 ^ i \in Nat
    BY Doubling
  <2>2. CASE i < m
    <3>1. i \notin T
      BY <1>2, <1>3, <2>2
    <3> QED
      BY <1>1, <1>3, <2>1, <2>2, <3>1
  <2>3. CASE i >= m
    <3>1. 2 ^ m <= 2 ^ i /\ 2 ^ m \in Nat
      BY <1>3, <2>3, PowersGrow, Doubling
    <3> QED
      BY <1>1, <1>3, <2>1, <2>3, <3>1
  <2> QED
    BY <1>3, <2>2, <2>3
<1>5. {i \in 0 .. w - 1 : 2 ^ i <= x} = 0 .. m - 1
  <2>1. 0 .. m - 1 \subseteq 0 .. w - 1
    BY <1>3
  <2> QED
    BY <1>4, <2>1
<1>6. Cardinality(0 .. m - 1) = m
  <2>1. Cardinality(0 .. m - 1) = IF 0 > m - 1 THEN 0 ELSE m - 1 - 0 + 1
    BY <1>3, FS_Interval
  <2> QED
    BY <1>3, <2>1
<1>7. bit_width(x) = m
  BY <1>0, <1>5, <1>6 DEF bit_width
<1> QED
  BY <1>0, <1>3, <1>7

-----------------------------------------------------------------------------
(* Local indices in as many bytes as a donut's capacity needs.             *)

LEMMA PiBytesIs ==
  /\ pi_bytes_count \in Nat \ {0} /\ pi_bytes_count <= WordBytes
  /\ ByteBits * pi_bytes_count \in 0 .. WordBits
  /\ Capacity < 2 ^ (ByteBits * pi_bytes_count)
<1>0. PICK B \in Nat \ {0} : B = ByteBits
  BY SizesArePositive
<1>1. Capacity \in 0 .. 2 ^ WordBits - 1
  BY NumbersFit, WordIsNumber, Doubling
<1>2. PICK w \in 0 .. WordBits : w = bit_width(Capacity) /\ Capacity < 2 ^ w
  BY <1>1, WidthIs
<1>3. w \in Nat /\ w <= B * WordBytes /\ WordBits = B * WordBytes
  BY <1>0, <1>2, SizesArePositive DEF WordBits
<1>4. PICK c \in Nat : c = BytesFor(w)
  BY <1>3, BytesForIs
<1>5. w <= B * c /\ c <= WordBytes
  BY <1>0, <1>3, <1>4, BytesForIs, SizesArePositive
<1>6. B * c \in Nat /\ B * c <= B * WordBytes
  BY <1>5, SizesArePositive
<1>7. 2 ^ w <= 2 ^ (B * c) /\ 2 ^ w \in Nat /\ 2 ^ (B * c) \in Nat
  BY <1>3, <1>5, <1>6, PowersGrow, Doubling
<1>8. Capacity < 2 ^ (B * c)
  BY <1>2, <1>7, NumbersFit
<1>9. c # 0
  <2>1. ASSUME c = 0 PROVE FALSE
    <3>1. B * c = 0 /\ 2 ^ 0 = 1
      BY <2>1
    <3>2. Capacity < 2 ^ 0
      BY <1>8, <3>1
    <3> QED
      BY <3>1, <3>2, NumbersFit
  <2> QED
    BY <2>1
<1>10. pi_bytes_count = c
  BY <1>2, <1>4 DEF pi_bytes_count, calculate_bytes_per_local_pi
<1> QED
  BY <1>0, <1>3, <1>5, <1>6, <1>8, <1>9, <1>10

Ones(c) == [i \in 1 .. c |-> AllOnes]

LEMMA BitsOfAllOnes ==
  ASSUME NEW c \in Nat
  PROVE  BitsOf(Ones(c)) = 0 .. ByteBits * c - 1
<1>1. DOMAIN Ones(c) = 1 .. c /\ \A i \in 1 .. c : Ones(c)[i] = AllOnes
  BY DEF Ones
<1>2. BitsOf(Ones(c)) \subseteq 0 .. ByteBits * c - 1
  BY <1>1, BitsInBytes
<1>3. ASSUME NEW b \in 0 .. ByteBits * c - 1 PROVE b \in BitsOf(Ones(c))
  <2>1. PICK i \in 1 .. c, s \in AllOnes : b = ByteBits * (i - 1) + s
    BY ByteOfBit
  <2>2. s \in Ones(c)[i]
    BY <1>1
  <2> QED
    BY <1>1, <2>1, <2>2, BitOfByte
<1> QED
  BY <1>2, <1>3

LEMMA IndexBack ==
  ASSUME NEW i \in 0 .. Capacity - 1
  PROVE  /\ NumberOf(BitsOf(BytesOf(BitsOfNumber(i), pi_bytes_count))) = i
         /\ BytesOf(BitsOfNumber(i), pi_bytes_count) # Ones(pi_bytes_count)
<1>1. PICK c \in Nat : c = pi_bytes_count
  BY PiBytesIs
<1>2. PICK k \in 0 .. WordBits : k = ByteBits * c /\ Capacity < 2 ^ k
  BY <1>1, PiBytesIs
<1>3. k \in Nat /\ 2 ^ k \in Nat
  BY <1>2, WordIsNumber, Doubling
<1>4. i \in 0 .. 2 ^ k - 1 /\ i # 2 ^ k - 1
  BY <1>2, <1>3, NumbersFit
<1>5. i \in 0 .. 2 ^ WordBits - 1 /\ BitsOfNumber(i) \subseteq 0 .. ByteBits * c - 1
  BY <1>2, <1>4, BitsOfSmall
<1>6. BitsOf(BytesOf(BitsOfNumber(i), c)) = BitsOfNumber(i)
  BY <1>5, BitsOfBytesOf
<1>7. ASSUME BytesOf(BitsOfNumber(i), c) = Ones(c) PROVE FALSE
  <2>1. BitsOfNumber(i) = 0 .. k - 1
    BY <1>2, <1>6, <1>7, BitsOfAllOnes
  <2>2. 2 ^ k - 1 \in 0 .. 2 ^ k - 1
    BY <1>3, <1>4
  <2>3. 2 ^ k - 1 \in 0 .. 2 ^ WordBits - 1 /\ BitsOfNumber(2 ^ k - 1) = 0 .. k - 1
    BY <2>2, BitsOfSmall, BitsOfOnes
  <2> QED
    BY <1>4, <1>5, <2>1, <2>3, NumberByBits
<1> QED
  BY <1>1, <1>5, <1>6, <1>7, NumberBack

LEMMA NoMatchIsOnes == BytesOf(BitsOfNumber(NoMatch), pi_bytes_count) = Ones(pi_bytes_count)
<1>1. PICK c \in Nat : c = pi_bytes_count
  BY PiBytesIs
<1>2. BitsOfNumber(NoMatch) = 0 .. WordBits - 1
  BY WordIsNumber, BitsOfOnes DEF NoMatch
<1>3. ByteBits * c \in 0 .. WordBits
  BY <1>1, PiBytesIs
<1>4. ASSUME NEW i \in 1 .. c, NEW s \in AllOnes
      PROVE  ByteBits * (i - 1) + s \in 0 .. WordBits - 1
  <2>1. PICK B \in Nat \ {0} : B = ByteBits
    BY SizesArePositive
  <2>2. PICK q \in Nat : q = i - 1 /\ q + 1 <= c
    OBVIOUS
  <2>3. B * q \in Nat /\ B * q + B <= B * c
    <3>1. B * (q + 1) <= B * c
      BY <2>2
    <3> QED
      BY <3>1
  <2>4. s \in 0 .. B - 1
    BY <2>1 DEF AllOnes
  <2>5. B * c \in Nat
    OBVIOUS
  <2> QED
    BY <1>3, <2>1, <2>2, <2>3, <2>4, <2>5, WordIsNumber
<1>5. ASSUME NEW i \in 1 .. c PROVE {s \in AllOnes : ByteBits * (i - 1) + s \in 0 .. WordBits - 1} = AllOnes
  BY <1>4
<1> QED
  BY <1>1, <1>2, <1>5 DEF BytesOf, Ones

-----------------------------------------------------------------------------
(* The prefix as a number, as bytes and as a path.                         *)

LEMMA SplitSizes ==
  ASSUME NEW bits \in 0 .. HashBits
  PROVE  /\ bits \in Nat
         /\ PrefixBytes(bits) \in 0 .. HashBytesCount
         /\ SuffixBytes(bits) \in 0 .. HashBytesCount
         /\ PrefixBytes(bits) * ByteBits - bits \in 0 .. ByteBits - 1
<1>0. PICK B \in Nat \ {0} : B = ByteBits
  BY SizesArePositive
<1>1. HashBits = B * HashBytesCount /\ HashBits \in Nat /\ HashBytesCount \in Nat
  BY <1>0, SizesArePositive DEF HashBits
<1>2. bits \in Nat /\ HashBits - bits \in Nat /\ bits <= B * HashBytesCount /\ HashBits - bits <= B * HashBytesCount
  BY <1>1
<1>3. PICK p \in Nat : p = PrefixBytes(bits) /\ bits <= B * p /\ B * p <= bits + (B - 1) /\ p <= HashBytesCount
  BY <1>0, <1>1, <1>2, BytesForIs DEF PrefixBytes
<1>4. SuffixBytes(bits) \in Nat /\ SuffixBytes(bits) <= HashBytesCount
  BY <1>0, <1>1, <1>2, BytesForIs DEF SuffixBytes
<1>5. p * B - bits \in 0 .. B - 1
  <2>1. p * B = B * p /\ B * p \in Nat
    OBVIOUS
  <2> QED
    BY <1>2, <1>3, <2>1
<1> QED
  BY <1>0, <1>1, <1>2, <1>3, <1>4, <1>5

\* The bits of the last bytes of a hash.
LEMMA BitsOfTail ==
  ASSUME NEW h \in HashBytes, NEW c \in 0 .. HashBytesCount, NEW tail,
         DOMAIN tail = 1 .. c, \A i \in 1 .. c : tail[i] = h[HashBytesCount - c + i],
         NEW t \in 0 .. ByteBits * c - 1
  PROVE  t \in BitsOf(tail) <=> ByteBits * (HashBytesCount - c) + t \in BitsOf(h)
<1>0. PICK B \in Nat \ {0} : B = ByteBits
  BY SizesArePositive
<1>1. c \in Nat /\ HashBytesCount \in Nat
  BY SizesArePositive
<1>2. PICK i \in 1 .. c, s \in AllOnes : t = ByteBits * (i - 1) + s
  BY <1>1, ByteOfBit
<1>3. t \in BitsOf(tail) <=> s \in tail[i]
  BY <1>1, <1>2, BitOfByte
<1>4. PICK j \in 1 .. HashBytesCount : j = HashBytesCount - c + i
  BY <1>1
<1>5. DOMAIN h = 1 .. HashBytesCount
  BY DEF HashBytes
<1>6. ByteBits * (j - 1) + s \in BitsOf(h) <=> s \in h[j]
  BY <1>1, <1>5, BitOfByte
<1>7. ByteBits * (j - 1) + s = ByteBits * (HashBytesCount - c) + t
  <2>1. PICK d \in Nat : d = HashBytesCount - c
    BY <1>1
  <2>2. PICK e \in Nat : e = i - 1
    OBVIOUS
  <2>3. j - 1 = d + e
    BY <1>1, <1>4, <2>1, <2>2
  <2>4. B * (d + e) = B * d + B * e /\ B * d \in Nat /\ B * e \in Nat
    BY Z3
  <2>5. s \in 0 .. B - 1
    BY <1>0 DEF AllOnes
  <2>6. B * (d + e) + s = B * d + (B * e + s)
    BY <2>4, <2>5
  <2> QED
    BY <1>0, <1>2, <2>1, <2>2, <2>3, <2>6
<1> QED
  BY <1>3, <1>4, <1>6, <1>7

\* The prefix as a set of bits.
TopBits(h, bits) == {j \in 0 .. bits - 1 : HashBits - bits + j \in BitsOf(h)}

LEMMA IndexIsTopBits ==
  ASSUME NEW h \in HashBytes, NEW bits \in (0 .. HashBits) \cap (0 .. WordBits)
  PROVE  ms_prefix_index(h, bits) = TopBits(h, bits)
<1>0. PICK B \in Nat \ {0} : B = ByteBits
  BY SizesArePositive
<1>1. /\ HashBits = B * HashBytesCount /\ WordBits = B * WordBytes
      /\ HashBytesCount \in Nat \ {0} /\ WordBytes \in Nat \ {0}
      /\ HashBits \in Nat /\ WordBits \in Nat
  BY <1>0, SizesArePositive DEF HashBits, WordBits
<1>2. CASE bits = 0
  BY <1>2 DEF ms_prefix_index, TopBits
<1>3. CASE bits # 0
  <2>1. PICK c \in Nat : c = IF HashBytesCount < WordBytes THEN HashBytesCount ELSE WordBytes
    BY <1>1
  <2>2. c \in 0 .. HashBytesCount /\ bits \in Nat /\ bits <= B * c
    BY <1>1, <2>1
  <2> DEFINE window == SubSeq(h, HashBytesCount - c + 1, HashBytesCount)
  <2>3. DOMAIN window = 1 .. c /\ \A i \in 1 .. c : window[i] = h[HashBytesCount - c + i]
    <3>1. h \in Seq(Byte) /\ Len(h) = HashBytesCount
      BY <1>1 DEF HashBytes
    <3> QED
      BY <1>1, <2>2, <3>1
  <2>4. PICK off \in Nat : off = B * c - bits
    <3>1. B * c \in Nat
      OBVIOUS
    <3> QED
      BY <2>2, <3>1
  <2>5. B * (HashBytesCount - c) + off = HashBits - bits /\ B * c = off + bits
    <3>1. PICK d \in Nat : d = HashBytesCount - c
      BY <1>1, <2>2
    <3>2. B * (d + c) = B * d + B * c /\ B * d \in Nat /\ B * c \in Nat
      BY Z3
    <3>3. d + c = HashBytesCount
      BY <1>1, <2>2, <3>1
    <3> QED
      BY <1>1, <2>2, <2>4, <3>1, <3>2, <3>3
  <2>6. ASSUME NEW t \in 0 .. ByteBits * c - 1
        PROVE  t \in BitsOf(window) <=> ByteBits * (HashBytesCount - c) + t \in BitsOf(h)
    <3> HIDE DEF window
    <3> QED
      BY <2>2, <2>3, BitsOfTail
  <2>7. BitsOf(window) \subseteq 0 .. B * c - 1
    <3> HIDE DEF window
    <3> QED
      BY <1>0, <2>2, <2>3, BitsInBytes
  <2>8. ms_prefix_index(h, bits) = {b - off : b \in {t \in BitsOf(window) : t >= off}}
    <3>1. c * ByteBits - bits = off
      BY <1>0, <2>4
    <3> QED
      BY <1>3, <2>1, <3>1 DEF ms_prefix_index, ShiftRight
  <2> HIDE DEF window
  <2>9. ASSUME NEW b \in BitsOf(window), b >= off PROVE b - off \in TopBits(h, bits)
    <3>1. b \in 0 .. B * c - 1
      BY <2>7
    <3>2. b \in Nat /\ b - off \in 0 .. bits - 1
      BY <2>2, <2>4, <2>5, <2>9, <3>1
    <3>3. HashBits - bits + (b - off) = B * (HashBytesCount - c) + b
      <4>1. PICK x \in Int : x = B * (HashBytesCount - c)
        BY <1>1
      <4> QED
        BY <1>1, <2>2, <2>5, <3>2, <4>1
    <3>4. B * (HashBytesCount - c) + b \in BitsOf(h)
      BY <1>0, <2>6, <3>1
    <3> QED
      BY <3>2, <3>3, <3>4 DEF TopBits
  <2>10. ASSUME NEW j \in TopBits(h, bits)
         PROVE  \E b \in {t \in BitsOf(window) : t >= off} : j = b - off
    <3>1. j \in 0 .. bits - 1 /\ HashBits - bits + j \in BitsOf(h)
      BY DEF TopBits
    <3>2. off + j \in 0 .. B * c - 1 /\ off + j >= off /\ j = (off + j) - off
      BY <2>2, <2>5, <3>1
    <3>3. B * (HashBytesCount - c) + (off + j) = HashBits - bits + j
      <4>1. PICK x \in Int : x = B * (HashBytesCount - c)
        BY <1>1
      <4> QED
        BY <1>1, <2>2, <2>5, <3>1, <4>1
    <3>4. off + j \in BitsOf(window)
      BY <1>0, <2>6, <3>1, <3>2, <3>3
    <3> QED
      BY <3>2, <3>4
  <2> QED
    BY <2>8, <2>9, <2>10
<1> QED
  BY <1>2, <1>3

LEMMA MaskedBits ==
  ASSUME NEW h \in HashBytes, NEW bits \in 0 .. HashBits
  PROVE  LET P == PrefixBytes(bits)
             z == PrefixBytes(bits) * ByteBits - bits
         IN  /\ ms_prefix_bytes_masked(h, bits) \in [1 .. P -> Byte]
             /\ \A t \in 0 .. ByteBits * P - 1 :
                   t \in BitsOf(ms_prefix_bytes_masked(h, bits)) <=>
                       t >= z /\ ByteBits * (HashBytesCount - P) + t \in BitsOf(h)
<1>0. PICK B \in Nat \ {0} : B = ByteBits
  BY SizesArePositive
<1>1. PICK P \in 0 .. HashBytesCount : P = PrefixBytes(bits)
  BY SplitSizes
<1>2. PICK z \in 0 .. B - 1 : z = PrefixBytes(bits) * ByteBits - bits
  BY <1>0, SplitSizes
<1> DEFINE masked == ms_prefix_bytes_masked(h, bits)
           tail == [i \in 1 .. P |-> h[HashBytesCount - P + i]]
<1>3. DOMAIN masked = 1 .. P
  BY <1>1 DEF ms_prefix_bytes_masked
<1>4. ASSUME NEW i \in 1 .. P
      PROVE  /\ i # 1 => masked[i] = tail[i]
             /\ i = 1 => masked[i] = tail[i] \ (0 .. z - 1)
  <2>1. i \in 1 .. PrefixBytes(bits) /\ PrefixBytes(bits) \in 0 .. HashBytesCount
    BY <1>1
  <2>2. /\ i # 1 => masked[i] = h[HashBytesCount - PrefixBytes(bits) + i]
        /\ i = 1 => masked[i] = h[HashBytesCount - PrefixBytes(bits) + i]
                                    \ (0 .. PrefixBytes(bits) * ByteBits - bits - 1)
    BY <2>1, PrefixByte
  <2> QED
    BY <1>1, <1>2, <2>2
<1>5. \A i \in 1 .. P : tail[i] \in Byte
  BY <1>1, SizesArePositive DEF HashBytes
<1>6. masked \in [1 .. P -> Byte]
  <2>1. ASSUME NEW i \in 1 .. P PROVE masked[i] \in Byte
    BY <1>4, <1>5 DEF Byte
  <2>2. masked = [i \in 1 .. P |-> masked[i]]
    BY <1>1 DEF ms_prefix_bytes_masked
  <2> HIDE DEF masked
  <2> QED
    BY <2>1, <2>2
<1>7. ASSUME NEW t \in 0 .. ByteBits * P - 1
      PROVE  t \in BitsOf(masked) <=> t >= z /\ ByteBits * (HashBytesCount - P) + t \in BitsOf(h)
  <2>1. P \in Nat
    BY SizesArePositive
  <2>2. PICK i \in 1 .. P, s \in AllOnes : t = ByteBits * (i - 1) + s
    BY <2>1, ByteOfBit
  <2>3. t \in BitsOf(masked) <=> s \in masked[i]
    <3> HIDE DEF masked
    <3> QED
      BY <1>3, <2>1, <2>2, BitOfByte
  <2>4. DOMAIN tail = 1 .. P /\ \A k \in 1 .. P : tail[k] = h[HashBytesCount - P + k]
    OBVIOUS
  <2> HIDE DEF tail
  <2>5. t \in BitsOf(tail) <=> s \in tail[i]
    BY <2>1, <2>2, <2>4, BitOfByte
  <2>6. t \in BitsOf(tail) <=> ByteBits * (HashBytesCount - P) + t \in BitsOf(h)
    BY <2>4, BitsOfTail
  <2>7. s \in 0 .. B - 1
    BY <1>0 DEF AllOnes
  <2>8. CASE i = 1
    <3>1. t = s
      BY <1>0, <2>2, <2>7, <2>8
    <3>2. s \in 0 .. z - 1 <=> ~(t >= z)
      BY <2>7, <3>1
    <3> HIDE DEF masked
    <3> QED
      BY <1>4, <2>3, <2>5, <2>6, <2>8, <3>2
  <2>9. CASE i # 1
    <3>1. t >= z
      <4>1. PICK q \in Nat \ {0} : q = i - 1
        BY <2>9
      <4>2. B * q >= B /\ B * q \in Nat
        BY Z3
      <4> QED
        BY <1>0, <2>2, <2>7, <4>1, <4>2
    <3> HIDE DEF masked
    <3> QED
      BY <1>4, <2>3, <2>5, <2>6, <2>9, <3>1
  <2> QED
    BY <2>8, <2>9
<1> QED
  BY <1>1, <1>2, <1>6, <1>7

LEMMA MaskedByIndex ==
  ASSUME NEW h \in HashBytes, NEW g \in HashBytes,
         NEW bits \in (0 .. HashBits) \cap (0 .. WordBits)
  PROVE  ms_prefix_bytes_masked(h, bits) = ms_prefix_bytes_masked(g, bits)
            <=> ms_prefix_index(h, bits) = ms_prefix_index(g, bits)
<1>0. PICK B \in Nat \ {0} : B = ByteBits
  BY SizesArePositive
<1>1. PICK P \in 0 .. HashBytesCount : P = PrefixBytes(bits)
  BY SplitSizes
<1>2. PICK z \in 0 .. B - 1 : z = PrefixBytes(bits) * ByteBits - bits
  BY <1>0, SplitSizes
<1>3. PICK base \in Int : base = B * (HashBytesCount - P)
  BY <1>1, SizesArePositive
<1>4. /\ P \in Nat /\ bits \in Nat /\ HashBits \in Nat
      /\ B * P = z + bits /\ base + z = HashBits - bits
  <2>1. P \in Nat /\ HashBytesCount \in Nat /\ bits \in Nat /\ HashBits \in Nat
    BY SizesArePositive, SplitSizes, WordIsNumber
  <2>2. PICK d \in Nat : d = HashBytesCount - P
    BY <2>1
  <2>3. B * (d + P) = B * d + B * P /\ B * d \in Nat /\ B * P \in Nat /\ P * B = B * P
    BY <2>1, Z3
  <2>4. d + P = HashBytesCount
    BY <2>1, <2>2
  <2>5. HashBits = B * (d + P)
    BY <1>0, <2>1, <2>4 DEF HashBits
  <2> QED
    BY <1>0, <1>1, <1>2, <1>3, <2>1, <2>2, <2>3, <2>5
<1>5. PICK a : a = ms_prefix_bytes_masked(h, bits)
  OBVIOUS
<1>6. PICK b : b = ms_prefix_bytes_masked(g, bits)
  OBVIOUS
<1>7. /\ a \in [1 .. P -> Byte]
      /\ \A t \in 0 .. B * P - 1 : t \in BitsOf(a) <=> t >= z /\ base + t \in BitsOf(h)
  BY <1>0, <1>1, <1>2, <1>3, <1>5, MaskedBits
<1>8. /\ b \in [1 .. P -> Byte]
      /\ \A t \in 0 .. B * P - 1 : t \in BitsOf(b) <=> t >= z /\ base + t \in BitsOf(g)
  BY <1>0, <1>1, <1>2, <1>3, <1>6, MaskedBits
<1>9. ms_prefix_index(h, bits) = TopBits(h, bits) /\ ms_prefix_index(g, bits) = TopBits(g, bits)
  BY IndexIsTopBits
<1>10. ASSUME NEW j \in 0 .. bits - 1
       PROVE  /\ z + j \in 0 .. B * P - 1
              /\ z + j \in BitsOf(a) <=> j \in TopBits(h, bits)
              /\ z + j \in BitsOf(b) <=> j \in TopBits(g, bits)
  <2>1. z + j \in 0 .. B * P - 1 /\ z + j >= z
    BY <1>4
  <2>2. base + (z + j) = HashBits - bits + j
    BY <1>4
  <2> QED
    BY <1>7, <1>8, <2>1, <2>2 DEF TopBits
<1>11. ASSUME a = b PROVE TopBits(h, bits) = TopBits(g, bits)
  BY <1>10, <1>11 DEF TopBits
<1>12. ASSUME TopBits(h, bits) = TopBits(g, bits) PROVE a = b
  <2>1. ASSUME NEW t \in 0 .. B * P - 1 PROVE t \in BitsOf(a) <=> t \in BitsOf(b)
    <3>1. CASE t >= z
      <4>1. t - z \in 0 .. bits - 1 /\ z + (t - z) = t
        BY <1>4, <3>1
      <4> QED
        BY <1>10, <1>12, <4>1
    <3>2. CASE ~(t >= z)
      BY <1>7, <1>8, <3>2
    <3> QED
      BY <3>1, <3>2
  <2>2. BitsOf(a) \subseteq 0 .. B * P - 1 /\ BitsOf(b) \subseteq 0 .. B * P - 1
    BY <1>0, <1>4, <1>7, <1>8, BitsInBytes
  <2>3. BitsOf(a) = BitsOf(b)
    BY <2>1, <2>2
  <2> QED
    BY <1>4, <1>7, <1>8, <2>3, BytesByBits
<1> QED
  BY <1>5, <1>6, <1>9, <1>11, <1>12

LEMMA PathByIndex ==
  ASSUME NEW bits \in 0 .. HashBits, NEW a \in SUBSET (0 .. bits - 1), NEW b \in SUBSET (0 .. bits - 1)
  PROVE  make_ms_prefix_path(bits, a) = make_ms_prefix_path(bits, b) <=> a = b
<1>1. PICK P \in Nat : P = PrefixBytes(bits)
  BY SplitSizes, SizesArePositive
<1>2. a \subseteq 0 .. ByteBits * P - 1 /\ b \subseteq 0 .. ByteBits * P - 1
  <2>1. bits \in Nat /\ bits <= ByteBits * P /\ ByteBits * P \in Nat
    BY <1>1, SplitSizes, BytesForIs, SizesArePositive DEF PrefixBytes
  <2> QED
    BY <2>1
<1>3. a \cap (0 .. bits - 1) = a /\ b \cap (0 .. bits - 1) = b
  OBVIOUS
<1>4. /\ make_ms_prefix_path(bits, a) = [level \in 1 .. P |-> BytesOf(a, P)[P + 1 - level]]
      /\ make_ms_prefix_path(bits, b) = [level \in 1 .. P |-> BytesOf(b, P)[P + 1 - level]]
  BY <1>1, <1>3 DEF make_ms_prefix_path, PrefixBytes
<1>5. ASSUME make_ms_prefix_path(bits, a) = make_ms_prefix_path(bits, b)
      PROVE  a = b
  <2>1. PICK c : c = BytesOf(a, P)
    OBVIOUS
  <2>2. PICK d : d = BytesOf(b, P)
    OBVIOUS
  <2>3. c \in [1 .. P -> Byte] /\ d \in [1 .. P -> Byte]
    BY <2>1, <2>2, BytesAreBytes
  <2>4. \A level \in 1 .. P : c[P + 1 - level] = d[P + 1 - level]
    BY <1>4, <1>5, <2>1, <2>2
  <2>5. ASSUME NEW i \in 1 .. P PROVE c[i] = d[i]
    <3>1. P + 1 - i \in 1 .. P /\ P + 1 - (P + 1 - i) = i
      BY <1>1
    <3> QED
      BY <2>4, <3>1
  <2>6. c = d
    BY <2>3, <2>5
  <2> QED
    BY <1>2, <2>1, <2>2, <2>6, BitsOfBytesOf
<1> QED
  BY <1>5

-----------------------------------------------------------------------------
(* Two parts of a sequence.                                                *)

LEMMA Parts ==
  ASSUME NEW S, NEW a \in Seq(S), NEW b \in Seq(S), NEW m, NEW k, m = Len(a), k = Len(b)
  PROVE  /\ a \o b \in Seq(S) /\ Len(a \o b) = m + k
         /\ \A i \in 1 .. m : (a \o b)[i] = a[i]
         /\ \A i \in 1 .. k : (a \o b)[m + i] = b[i]
         /\ SubSeq(a \o b, 1, m) = a
         /\ SubSeq(a \o b, m + 1, m + k) = b
<1>1. m \in Nat /\ k \in Nat
  OBVIOUS
<1>2. /\ a \o b \in Seq(S) /\ Len(a \o b) = m + k
      /\ \A i \in 1 .. m + k : (a \o b)[i] = IF i <= m THEN a[i] ELSE b[i - m]
  BY ConcatProperties
<1>3. PICK t \in Seq(S) : t = a \o b
  BY <1>2
<1>4. /\ Len(t) = m + k
      /\ \A i \in 1 .. m : t[i] = a[i]
      /\ \A i \in 1 .. k : t[m + i] = b[i]
  <2>1. \A i \in 1 .. m + k : t[i] = IF i <= m THEN a[i] ELSE b[i - m]
    BY <1>2, <1>3
  <2>2. ASSUME NEW i \in 1 .. k PROVE t[m + i] = b[i]
    <3>1. m + i \in 1 .. m + k /\ ~(m + i <= m) /\ m + i - m = i
      BY <1>1
    <3> QED
      BY <2>1, <3>1
  <2>3. \A i \in 1 .. m : i \in 1 .. m + k /\ i <= m
    BY <1>1
  <2> QED
    BY <1>2, <1>3, <2>1, <2>2, <2>3
<1>5. SubSeq(t, 1, m) = a
  <2>1. \A i \in 1 .. m : t[i] \in S
    BY <1>4
  <2>2. /\ SubSeq(t, 1, m) \in Seq(S) /\ Len(SubSeq(t, 1, m)) = m
        /\ \A i \in 1 .. m : SubSeq(t, 1, m)[i] = t[i]
    <3>1. /\ SubSeq(t, 1, m) \in Seq(S)
          /\ Len(SubSeq(t, 1, m)) = IF 1 <= m THEN m - 1 + 1 ELSE 0
          /\ \A i \in 1 .. m - 1 + 1 : SubSeq(t, 1, m)[i] = t[1 + i - 1]
      BY <1>1, <2>1, SubSeqProperties
    <3>2. m - 1 + 1 = m /\ \A i \in 1 .. m : 1 + i - 1 = i
      BY <1>1
    <3> QED
      BY <1>1, <3>1, <3>2
  <2>3. \A i \in 1 .. Len(a) : SubSeq(t, 1, m)[i] = a[i]
    BY <1>4, <2>2
  <2> QED
    BY <2>2, <2>3, SeqEqual
<1>6. SubSeq(t, m + 1, m + k) = b
  <2>1. \A i \in m + 1 .. m + k : t[i] \in S
    BY <1>1, <1>4
  <2>2. /\ SubSeq(t, m + 1, m + k) \in Seq(S) /\ Len(SubSeq(t, m + 1, m + k)) = k
        /\ \A i \in 1 .. k : SubSeq(t, m + 1, m + k)[i] = t[m + i]
    <3>1. PICK f \in Int : f = m + 1
      BY <1>1
    <3>2. PICK l \in Int : l = m + k
      BY <1>1
    <3>3. /\ SubSeq(t, f, l) \in Seq(S)
          /\ Len(SubSeq(t, f, l)) = IF f <= l THEN l - f + 1 ELSE 0
          /\ \A i \in 1 .. l - f + 1 : SubSeq(t, f, l)[i] = t[f + i - 1]
      BY <2>1, <3>1, <3>2, SubSeqProperties
    <3>4. l - f + 1 = k /\ (f <= l <=> k # 0)
      BY <1>1, <3>1, <3>2
    <3>5. \A i \in 1 .. k : f + i - 1 = m + i
      BY <1>1, <3>1
    <3>6. Len(SubSeq(t, f, l)) = k
      BY <1>1, <3>3, <3>4
    <3>7. \A i \in 1 .. k : SubSeq(t, f, l)[i] = t[m + i]
      BY <3>3, <3>4, <3>5
    <3>8. SubSeq(t, m + 1, m + k) = SubSeq(t, f, l)
      BY <3>1, <3>2
    <3> QED
      BY <3>3, <3>6, <3>7, <3>8
  <2>3. \A i \in 1 .. Len(b) : SubSeq(t, m + 1, m + k)[i] = b[i]
    BY <1>4, <2>2
  <2> QED
    BY <2>2, <2>3, SeqEqual
<1> QED
  BY <1>2, <1>3, <1>4, <1>5, <1>6

LEMMA FunctionIsSeq ==
  ASSUME NEW S, NEW c \in Nat, NEW f \in [1 .. c -> S]
  PROVE  f \in Seq(S) /\ Len(f) = c
OBVIOUS

-----------------------------------------------------------------------------
(* What a hash is after it was split into its entries.                     *)

SurvivesSplit(h, i, first, bits) ==
    LET order  == write_hashes_order_file_entry(bits, h, i, pi_bytes_count)
        gap    == write_hashes_order_file_entry(bits, NoHash, NoMatch, pi_bytes_count)
        suffix == write_suffixes_file_entry(bits, h, PiPlus(first, i), first, pi_bytes_count)
        o      == read_hashes_order_entry_from_bytes(bits, order, pi_bytes_count)
        s      == read_ls_suffixes_entry_from_bytes(bits, suffix, pi_bytes_count)
        path   == make_ms_prefix_path(bits, ms_prefix_index(h, bits))
    IN  /\ hash_from_prefix_suffix(bits, o.ms_prefix, s.ls_suffix) = h
        /\ o.suffixes_file_index = i /\ s.local_pi = i
        /\ ~o.is_sentinel
        /\ read_hashes_order_entry_from_bytes(bits, gap, pi_bytes_count).is_sentinel
        /\ \A g \in HashBytes :
               path = make_ms_prefix_path(bits, ms_prefix_index(g, bits))
                   <=> o.ms_prefix = ms_prefix_bytes_masked(g, bits)

LEMMA SuffixIsBytes ==
  ASSUME NEW h \in HashBytes, NEW bits \in 0 .. HashBits
  PROVE  ls_suffix_bytes_masked(h, bits) \in [1 .. SuffixBytes(bits) -> Byte]
<1>1. SuffixBytes(bits) \in 0 .. HashBytesCount
  BY SplitSizes
<1>2. ASSUME NEW i \in 1 .. SuffixBytes(bits) PROVE ls_suffix_bytes_masked(h, bits)[i] \in Byte
  <2>1. h[i] \in Byte
    BY <1>1, SizesArePositive DEF HashBytes
  <2> QED
    BY <1>1, <2>1, SuffixByte DEF Byte
<1>3. ls_suffix_bytes_masked(h, bits) = [i \in 1 .. SuffixBytes(bits) |-> ls_suffix_bytes_masked(h, bits)[i]]
  BY DEF ls_suffix_bytes_masked
<1> QED
  BY <1>2, <1>3

LEMMA LocalIndexBack ==
  ASSUME NEW i \in 0 .. Capacity - 1, NEW first \in {0, Capacity}
  PROVE  PiMinus(PiPlus(first, i), first) = i
<1>1. PICK word \in Nat : word = 2 ^ WordBits /\ NoMatch = word - 1 /\ 2 * Capacity < word
  BY WordIsNumber, Doubling, NumbersFit DEF NoMatch
<1>2. i \in Nat /\ first \in Nat /\ first + i < word - 1 /\ first < word - 1 /\ i < word - 1
  BY <1>1, NumbersFit
<1>3. (first + i) % word = first + i
  <2>1. PICK x \in Nat : x = first + i
    BY <1>2
  <2> QED
    BY <1>2, <2>1
<1>4. PiPlus(first, i) = first + i
  BY <1>1, <1>2, <1>3 DEF PiPlus
<1>5. PiMinus(first + i, first) = (first + i) - first
  BY <1>1, <1>2 DEF PiMinus
<1> QED
  BY <1>2, <1>4, <1>5

LEMMA SplitSurvived ==
  ASSUME NEW bits \in (0 .. HashBits) \cap (0 .. WordBits), NEW h \in HashBytes,
         NEW i \in 0 .. Capacity - 1, NEW first \in {0, Capacity}
  PROVE  SurvivesSplit(h, i, first, bits)
<1>0. h # NoHash
  BY PresentedAreHashes
<1>1. PICK c \in Nat \ {0} : c = pi_bytes_count
  BY PiBytesIs
<1>2. PICK index : index = BytesOf(BitsOfNumber(i), c)
  OBVIOUS
<1>3. index \in [1 .. c -> Byte] /\ index \in Seq(Byte) /\ Len(index) = c
  BY <1>2, BytesAreBytes, FunctionIsSeq
<1>4. NumberOf(BitsOf(index)) = i /\ index # Ones(c)
  BY <1>1, <1>2, IndexBack
<1>5. PICK P \in Nat : P = PrefixBytes(bits)
  BY SplitSizes, SizesArePositive
<1>6. PICK Q \in Nat : Q = SuffixBytes(bits)
  BY SplitSizes, SizesArePositive
<1>7. PICK prefix \in Seq(Byte) : prefix = ms_prefix_bytes_masked(h, bits) /\ Len(prefix) = P
  BY <1>5, MaskedBits, FunctionIsSeq
<1>8. PICK ls \in Seq(Byte) : ls = ls_suffix_bytes_masked(h, bits) /\ Len(ls) = Q
  BY <1>6, SuffixIsBytes, FunctionIsSeq
<1>9. PICK order : order = prefix \o index
  OBVIOUS
<1>10. PICK suffix : suffix = ls \o index
  OBVIOUS
<1>11. write_hashes_order_file_entry(bits, h, i, pi_bytes_count) = order
  BY <1>0, <1>1, <1>2, <1>7, <1>9 DEF write_hashes_order_file_entry
<1>12. write_suffixes_file_entry(bits, h, PiPlus(first, i), first, pi_bytes_count) = suffix
  BY <1>0, <1>1, <1>2, <1>8, <1>10, LocalIndexBack DEF write_suffixes_file_entry
<1>13. /\ \A j \in 1 .. c : order[P + j] = index[j]
       /\ Len(order) = P + c /\ SubSeq(order, 1, P) = prefix /\ SubSeq(order, P + 1, P + c) = index
       /\ Len(suffix) = Q + c /\ SubSeq(suffix, 1, Q) = ls /\ SubSeq(suffix, Q + 1, Q + c) = index
  <2>a. prefix \in Seq(Byte) /\ index \in Seq(Byte) /\ P = Len(prefix) /\ c = Len(index)
    BY <1>3, <1>7
  <2>1. /\ Len(prefix \o index) = P + c
        /\ SubSeq(prefix \o index, 1, P) = prefix
        /\ SubSeq(prefix \o index, P + 1, P + c) = index
    BY ONLY <2>a, Parts, SMTT(30)
  <2>3. \A j \in 1 .. c : (prefix \o index)[P + j] = index[j]
    BY ONLY <2>a, Parts, SMTT(30)
  <2>b. ls \in Seq(Byte) /\ index \in Seq(Byte) /\ Q = Len(ls) /\ c = Len(index)
    BY <1>3, <1>8
  <2>2. /\ Len(ls \o index) = Q + c
        /\ SubSeq(ls \o index, 1, Q) = ls
        /\ SubSeq(ls \o index, Q + 1, Q + c) = index
    BY ONLY <2>b, Parts, SMTT(30)
  <2> QED
    BY <1>9, <1>10, <2>1, <2>2, <2>3
<1>14. PICK j \in 1 .. c : index[j] # AllOnes
  BY <1>3, <1>4 DEF Ones
<1>15. P + j \in 1 .. P + c /\ order[P + j] # AllOnes
  <2>1. order[P + j] = index[j]
    BY <1>13
  <2> QED
    BY <1>14, <2>1
<1>16. PICK o : o = read_hashes_order_entry_from_bytes(bits, order, c)
  OBVIOUS
<1>17. o.ms_prefix = prefix /\ o.suffixes_file_index = i /\ ~o.is_sentinel
  BY <1>4, <1>5, <1>13, <1>15, <1>16 DEF read_hashes_order_entry_from_bytes, hashes_order_entry_size
<1>18. PICK s : s = read_ls_suffixes_entry_from_bytes(bits, suffix, c)
  OBVIOUS
<1>19. s.ls_suffix = ls /\ s.local_pi = i
  BY <1>4, <1>6, <1>13, <1>18 DEF read_ls_suffixes_entry_from_bytes, suffixes_entry_size
<1>20. read_hashes_order_entry_from_bytes(bits,
           write_hashes_order_file_entry(bits, NoHash, NoMatch, c), c).is_sentinel
  BY DEF read_hashes_order_entry_from_bytes, write_hashes_order_file_entry
<1>21. hash_from_prefix_suffix(bits, prefix, ls) = h
  <2>1. bits \in 0 .. HashBits
    OBVIOUS
  <2>2. Rejoined(h, bits) = h
    BY <2>1, SplitLosesNothing
  <2> QED
    BY <1>7, <1>8, <2>2 DEF Rejoined
<1>22. ASSUME NEW g \in HashBytes
       PROVE  make_ms_prefix_path(bits, ms_prefix_index(h, bits))
                  = make_ms_prefix_path(bits, ms_prefix_index(g, bits))
                <=> prefix = ms_prefix_bytes_masked(g, bits)
  <2>1. ms_prefix_index(h, bits) \in SUBSET (0 .. bits - 1) /\ ms_prefix_index(g, bits) \in SUBSET (0 .. bits - 1)
    BY IndexIsTopBits DEF TopBits
  <2>2. bits \in 0 .. HashBits
    OBVIOUS
  <2>3. make_ms_prefix_path(bits, ms_prefix_index(h, bits))
            = make_ms_prefix_path(bits, ms_prefix_index(g, bits))
          <=> ms_prefix_index(h, bits) = ms_prefix_index(g, bits)
    BY <2>1, <2>2, PathByIndex
  <2> QED
    BY <1>7, <2>3, MaskedByIndex
<1> QED
  BY <1>1, <1>11, <1>12, <1>16, <1>17, <1>18, <1>19, <1>20, <1>21, <1>22 DEF SurvivesSplit

-----------------------------------------------------------------------------

LEMMA CountStays == Spec => [](n \in PrefixCounts)
<1>1. Init => n \in PrefixCounts
  BY DEF Init
<1>2. n \in PrefixCounts /\ [Next]_vars => (n \in PrefixCounts)'
  BY DEF Next, vars, create_empty, open_writer, append, drain, close_writer, crash,
         open_reader, close_reader, seek_entry, has_more, read_next
<1> QED
  BY <1>1, <1>2, PTL DEF Spec

\* Whatever the sizes of bytes, words, hashes and donuts are, a hash and its
\* local indices come back from their two entries, no hash reads as the
\* sentinel, and a file is one prefix (donut_entries_calculator.hpp,
\* hash_prefix_suffix.hpp).
THEOREM HashesSurviveSplit == Spec => []HashSurvivesSplit
<1>1. n \in PrefixCounts => HashSurvivesSplit
  <2> SUFFICES ASSUME n \in PrefixCounts, NEW h \in HashBytes, NEW i \in 0 .. Capacity - 1,
                      NEW first \in {0, Capacity}
               PROVE  SurvivesSplit(h, i, first, n)
    BY DEF HashSurvivesSplit, SurvivesSplit
  <2>1. n \in (0 .. HashBits) \cap (0 .. WordBits)
    BY NumbersFit
  <2> QED
    BY <2>1, SplitSurvived
<1> QED
  BY <1>1, CountStays, PTL

-----------------------------------------------------------------------------
(* Entries and their bytes.                                                *)

Entries == IF format = "order" THEN OrderEntries ELSE SuffixEntries

Encoded == [e \in Entries |-> BytesOfEntry(e)]

LEMMA SizesAre ==
  ASSUME n \in PrefixCounts
  PROVE  /\ n \in 0 .. HashBits /\ n \in (0 .. HashBits) \cap (0 .. WordBits) /\ n \in Nat
         /\ PrefixBytes(n) \in Nat /\ SuffixBytes(n) \in 0 .. HashBytesCount
         /\ spare_bits_count \in Nat /\ n + spare_bits_count = ByteBits * PrefixBytes(n)
         /\ suffix_start_idx \in 0 .. HashBytesCount
         /\ suffix_start_idx + SuffixBytes(n) = HashBytesCount
         /\ pi_bytes_count \in Nat \ {0}
         /\ entry_bytes \in Nat \ {0}
<1>1. n \in 0 .. HashBits /\ n \in (0 .. HashBits) \cap (0 .. WordBits)
  BY NumbersFit
<1>2. /\ n \in Nat /\ PrefixBytes(n) \in 0 .. HashBytesCount /\ SuffixBytes(n) \in 0 .. HashBytesCount
      /\ PrefixBytes(n) * ByteBits - n \in 0 .. ByteBits - 1
  BY <1>1, SplitSizes
<1>3. PICK P \in Nat : P = PrefixBytes(n)
  BY <1>2, SizesArePositive
<1>4. PICK Q \in Nat : Q = SuffixBytes(n) /\ Q \in 0 .. HashBytesCount
  BY <1>2, SizesArePositive
<1>5. pi_bytes_count \in Nat \ {0}
  BY PiBytesIs
<1>6. P * ByteBits = ByteBits * P /\ ByteBits * P \in Nat
  BY SizesArePositive
<1>7. spare_bits_count \in Nat /\ n + spare_bits_count = ByteBits * P
  BY <1>2, <1>3, <1>6, SizesArePositive DEF spare_bits_count
<1>8. suffix_start_idx \in 0 .. HashBytesCount /\ suffix_start_idx + Q = HashBytesCount
  BY <1>4, SizesArePositive DEF suffix_start_idx
<1>9. entry_bytes \in Nat \ {0}
  BY <1>3, <1>4, <1>5 DEF entry_bytes
<1> QED
  BY <1>1, <1>2, <1>3, <1>4, <1>5, <1>7, <1>8, <1>9

PrefixField(e) ==
    (e.ms_prefix_bits \cap (0 .. n - 1)) \cup {n + b : b \in e.spare_bits \cap (0 .. spare_bits_count - 1)}

\* An entry of the order file is the bytes of its index and those of its
\* prefix, and is read back from them.
LEMMA OrderEntryBack ==
  ASSUME n \in PrefixCounts, NEW e \in OrderEntries
  PROVE  /\ BytesOf(BitsOfNumber(e.local_pi), pi_bytes_count) \in [1 .. pi_bytes_count -> Byte]
         /\ BytesOf(PrefixField(e), PrefixBytes(n)) \in [1 .. PrefixBytes(n) -> Byte]
         /\ OrderBytes(e) = BytesOf(BitsOfNumber(e.local_pi), pi_bytes_count)
                                \o BytesOf(PrefixField(e), PrefixBytes(n))
         /\ OrderEntryFrom(BytesOf(BitsOfNumber(e.local_pi), pi_bytes_count),
                           BytesOf(PrefixField(e), PrefixBytes(n))) = e
<1>1. PICK c \in Nat \ {0} : c = pi_bytes_count
  BY PiBytesIs
<1>2. PICK P \in Nat : P = PrefixBytes(n)
  BY SizesAre
<1>3. PICK spare \in Nat : spare = spare_bits_count /\ n + spare = ByteBits * P
  BY <1>2, SizesAre
<1>4. n \in Nat
  BY SizesAre
<1>5. /\ e = [local_pi |-> e.local_pi, ms_prefix_bits |-> e.ms_prefix_bits, spare_bits |-> e.spare_bits]
      /\ e.local_pi \in LocalPis \cup {NoMatch}
      /\ e.ms_prefix_bits \subseteq 0 .. n - 1
      /\ e.spare_bits = 0 .. spare - 1
  <2>1. \E h \in Presented : e.ms_prefix_bits = ms_prefix_index(h, n)
    BY DEF OrderEntries
  <2>2. \A h \in Presented : ms_prefix_index(h, n) \subseteq 0 .. n - 1
    BY SizesAre, PresentedAreHashes, IndexIsTopBits DEF TopBits
  <2> QED
    BY <1>3, <2>1, <2>2 DEF OrderEntries
<1>6. PICK field : field = PrefixField(e)
  OBVIOUS
<1>7. field = e.ms_prefix_bits \cup {n + b : b \in 0 .. spare - 1}
  BY <1>3, <1>5, <1>6 DEF PrefixField
<1>8. field \in SUBSET (0 .. ByteBits * P - 1)
  BY <1>3, <1>4, <1>5, <1>7
<1>9. BitsOf(BytesOf(field, P)) = field
  BY <1>8, BitsOfBytesOf
<1>10. field \cap (0 .. n - 1) = e.ms_prefix_bits
  BY <1>4, <1>5, <1>7
<1>11. ShiftRight(field, n) = e.spare_bits
  <2>1. ASSUME NEW b \in 0 .. spare - 1 PROVE n + b \in field /\ n + b >= n /\ (n + b) - n = b
    BY <1>4, <1>7
  <2>2. ASSUME NEW b \in field, b >= n PROVE b - n \in 0 .. spare - 1
    BY <1>4, <1>5, <1>7, <2>2
  <2>3. ShiftRight(field, n) \subseteq 0 .. spare - 1
    BY <2>2 DEF ShiftRight
  <2>4. 0 .. spare - 1 \subseteq ShiftRight(field, n)
    <3>1. ASSUME NEW b \in 0 .. spare - 1 PROVE b \in ShiftRight(field, n)
      BY <2>1 DEF ShiftRight
    <3> QED
      BY <3>1
  <2> QED
    BY <1>5, <2>3, <2>4
<1>12. PICK index : index = BytesOf(BitsOfNumber(e.local_pi), c)
  OBVIOUS
<1>13. (IF index = Ones(c) THEN NoMatch ELSE NumberOf(BitsOf(index))) = e.local_pi
  <2>1. CASE e.local_pi = NoMatch
    BY <1>1, <1>12, <2>1, NoMatchIsOnes
  <2>2. CASE e.local_pi # NoMatch
    <3>1. e.local_pi \in 0 .. Capacity - 1
      BY <1>5, <2>2, LocalPisFit
    <3> QED
      BY <1>1, <1>12, <3>1, IndexBack
  <2> QED
    BY <2>1, <2>2
<1>14. OrderEntryFrom(index, BytesOf(field, P)) =
          [local_pi |-> e.local_pi, ms_prefix_bits |-> e.ms_prefix_bits, spare_bits |-> e.spare_bits]
  BY <1>1, <1>9, <1>10, <1>11, <1>13 DEF OrderEntryFrom, Ones
<1>15. OrderBytes(e) = index \o BytesOf(field, P)
  BY <1>1, <1>2, <1>6, <1>12 DEF OrderBytes, PrefixField
<1>16. index \in [1 .. c -> Byte] /\ BytesOf(field, P) \in [1 .. P -> Byte]
  BY <1>12, BytesAreBytes
<1> QED
  BY <1>1, <1>2, <1>5, <1>6, <1>12, <1>14, <1>15, <1>16

\* What the file keeps of an entry: all of it, or the last bytes of the hash.
Kept(e) ==
    IF format = "order" THEN e
    ELSE [e EXCEPT !.hash = [i \in 1 .. HashBytesCount |->
                                IF i <= suffix_start_idx THEN {} ELSE e.hash[i]]]

\* What EntriesReadBack asks of an entry r that is read for an entry e.
ReadsAs(r, e) ==
    /\ r = Kept(e)
    /\ r.local_pi = e.local_pi
    /\ format = "order" \/ suffix_start_idx = 0 => r = e

\* So is an entry of a file of suffixes, as far as the file keeps it.
LEMMA SuffixEntryBack ==
  ASSUME n \in PrefixCounts, format = "suffixes", NEW e \in SuffixEntries
  PROVE  /\ SubSeq(e.hash, suffix_start_idx + 1, HashBytesCount) \in Seq(Byte)
         /\ Len(SubSeq(e.hash, suffix_start_idx + 1, HashBytesCount)) = SuffixBytes(n)
         /\ BytesOf(BitsOfNumber(e.local_pi), pi_bytes_count) \in [1 .. pi_bytes_count -> Byte]
         /\ SuffixEntryFrom(SubSeq(e.hash, suffix_start_idx + 1, HashBytesCount),
                            BytesOf(BitsOfNumber(e.local_pi), pi_bytes_count)) = Kept(e)
<1>1. PICK c \in Nat \ {0} : c = pi_bytes_count
  BY PiBytesIs
<1>2. PICK Q \in Nat : Q = SuffixBytes(n)
  BY SizesAre, SizesArePositive
<1>3. PICK start \in Nat : start = suffix_start_idx /\ start + Q = HashBytesCount
  BY <1>2, SizesAre, SizesArePositive
<1>4. /\ e = [local_pi |-> e.local_pi, hash |-> e.hash]
      /\ e.local_pi \in 0 .. Capacity - 1 /\ e.hash \in HashBytes
  BY LocalPisFit, PresentedAreHashes DEF SuffixEntries
<1>5. PICK h \in Seq(Byte) : h = e.hash /\ Len(h) = start + Q
  BY <1>3, <1>4, FunctionIsSeq, SizesArePositive DEF HashBytes
<1>6. PICK tail : tail = SubSeq(h, start + 1, start + Q)
  OBVIOUS
<1>7. tail \in Seq(Byte) /\ Len(tail) = Q /\ \A i \in 1 .. Q : tail[i] = h[start + i]
  <2>1. \A i \in start + 1 .. start + Q : h[i] \in Byte
    BY <1>5
  <2>2. PICK f \in Int : f = start + 1
    OBVIOUS
  <2>3. PICK l \in Int : l = start + Q
    OBVIOUS
  <2>4. /\ SubSeq(h, f, l) \in Seq(Byte)
        /\ Len(SubSeq(h, f, l)) = IF f <= l THEN l - f + 1 ELSE 0
        /\ \A i \in 1 .. l - f + 1 : SubSeq(h, f, l)[i] = h[f + i - 1]
    BY <2>1, <2>2, <2>3, SubSeqProperties
  <2>5. l - f + 1 = Q /\ (f <= l <=> Q # 0)
    BY <2>2, <2>3
  <2>6. \A i \in 1 .. Q : f + i - 1 = start + i
    BY <2>2
  <2>7. Len(SubSeq(h, f, l)) = Q
    BY <2>4, <2>5
  <2>8. tail = SubSeq(h, f, l)
    BY <1>6, <2>2, <2>3
  <2>9. \A i \in 1 .. Q : SubSeq(h, f, l)[i] = h[start + i]
    BY <2>4, <2>5, <2>6
  <2> QED
    BY ONLY <2>4, <2>7, <2>8, <2>9, Zenon
<1>8. PICK zeros : zeros = [i \in 1 .. start |-> {}]
  OBVIOUS
<1>9. zeros \in Seq(Byte) /\ Len(zeros) = start
  <2>1. zeros \in [1 .. start -> Byte]
    BY <1>8 DEF Byte
  <2> QED
    BY <2>1, FunctionIsSeq
<1>10. /\ zeros \o tail \in Seq(Byte) /\ Len(zeros \o tail) = start + Q
       /\ \A i \in 1 .. start + Q : (zeros \o tail)[i] = IF i <= start THEN zeros[i] ELSE tail[i - start]
  BY <1>7, <1>9, ConcatProperties
<1>11. zeros \o tail = [i \in 1 .. start + Q |-> IF i <= start THEN {} ELSE h[i]]
  <2>1. PICK z \in Seq(Byte) : z = zeros \o tail
    BY <1>10
  <2>2. ASSUME NEW i \in 1 .. start + Q
        PROVE  z[i] = IF i <= start THEN {} ELSE h[i]
    <3>1. CASE i <= start
      BY <1>8, <1>10, <2>1, <3>1
    <3>2. CASE ~(i <= start)
      <4>1. i - start \in 1 .. Q /\ start + (i - start) = i
        BY <3>2
      <4> QED
        BY <1>7, <1>10, <2>1, <3>2, <4>1
    <3> QED
      BY <3>1, <3>2
  <2>3. z = [i \in 1 .. start + Q |-> z[i]]
    <3>1. Len(z) = start + Q
      BY <1>10, <2>1
    <3>2. z \in [1 .. Len(z) -> Byte]
      BY LenProperties
    <3> QED
      BY <3>1, <3>2
  <2> QED
    BY <2>1, <2>2, <2>3
<1>12. PICK index : index = BytesOf(BitsOfNumber(e.local_pi), c)
  OBVIOUS
<1>13. index \in [1 .. c -> Byte] /\ NumberOf(BitsOf(index)) = e.local_pi
  BY <1>1, <1>4, <1>12, BytesAreBytes, IndexBack
<1>14. Kept(e) = [local_pi |-> e.local_pi, hash |-> [i \in 1 .. start + Q |-> IF i <= start THEN {} ELSE h[i]]]
  BY <1>3, <1>4, <1>5 DEF Kept
<1>15. SuffixEntryFrom(tail, index) = [local_pi |-> e.local_pi, hash |-> zeros \o tail]
  BY <1>3, <1>8, <1>13 DEF SuffixEntryFrom
<1> QED
  BY <1>1, <1>2, <1>3, <1>5, <1>6, <1>7, <1>11, <1>12, <1>13, <1>14, <1>15

LEMMA EncodedIs ==
  ASSUME n \in PrefixCounts, format \in {"order", "suffixes"}, NEW e \in Entries
  PROVE  /\ Encoded[e] = BytesOfEntry(e)
         /\ Encoded[e] \in Seq(Byte) /\ Len(Encoded[e]) = entry_bytes
<1>0. Encoded[e] = BytesOfEntry(e)
  BY DEF Encoded
<1>1. PICK c \in Nat \ {0} : c = pi_bytes_count
  BY PiBytesIs
<1>2. CASE format = "order"
  <2>1. PICK P \in Nat : P = PrefixBytes(n)
    BY SizesAre
  <2>2. e \in OrderEntries
    BY <1>2 DEF Entries
  <2>3. PICK index : index = BytesOf(BitsOfNumber(e.local_pi), pi_bytes_count)
    OBVIOUS
  <2>4. PICK prefix : prefix = BytesOf(PrefixField(e), PrefixBytes(n))
    OBVIOUS
  <2>5. /\ index \in [1 .. c -> Byte] /\ prefix \in [1 .. P -> Byte]
        /\ OrderBytes(e) = index \o prefix
    BY <1>1, <2>1, <2>2, <2>3, <2>4, OrderEntryBack
  <2>6. /\ index \in Seq(Byte) /\ Len(index) = c /\ prefix \in Seq(Byte) /\ Len(prefix) = P
    BY <2>5, FunctionIsSeq
  <2>7. index \o prefix \in Seq(Byte) /\ Len(index \o prefix) = c + P
    BY <2>6, ConcatProperties
  <2> QED
    BY <1>0, <1>1, <1>2, <2>1, <2>5, <2>7 DEF BytesOfEntry, entry_bytes
<1>3. CASE format = "suffixes"
  <2>1. PICK Q \in Nat : Q = SuffixBytes(n)
    BY SizesAre, SizesArePositive
  <2>2. e \in SuffixEntries
    BY <1>3 DEF Entries
  <2>3. PICK index : index = BytesOf(BitsOfNumber(e.local_pi), pi_bytes_count)
    OBVIOUS
  <2>4. PICK tail : tail = SubSeq(e.hash, suffix_start_idx + 1, HashBytesCount)
    OBVIOUS
  <2>5. index \in [1 .. c -> Byte] /\ tail \in Seq(Byte) /\ Len(tail) = Q
    BY <1>1, <1>3, <2>1, <2>2, <2>3, <2>4, SuffixEntryBack
  <2>6. index \in Seq(Byte) /\ Len(index) = c
    BY <2>5, FunctionIsSeq
  <2>7. tail \o index \in Seq(Byte) /\ Len(tail \o index) = Q + c
    BY <2>5, <2>6, ConcatProperties
  <2>8. BytesOfEntry(e) = tail \o index
    BY <1>3, <2>3, <2>4 DEF BytesOfEntry, SuffixEntryBytes
  <2>9. entry_bytes = Q + c
    BY <1>1, <1>3, <2>1 DEF entry_bytes
  <2> QED
    BY <1>0, <2>7, <2>8, <2>9
<1> QED
  BY <1>2, <1>3

-----------------------------------------------------------------------------
(* A sequence of bytes that holds entries of one size.                     *)

Holds(bytes, entries, encode, size) ==
    /\ Len(bytes) = size * Len(entries)
    /\ \A k \in 1 .. Len(entries) : \A j \in 1 .. size :
           bytes[size * (k - 1) + j] = encode[entries[k]][j]

\* Where the j-th byte of the k-th entry is.
LEMMA PlaceInEntry ==
  ASSUME NEW size \in Nat \ {0}, NEW count \in Nat, NEW k \in 1 .. count, NEW j \in 1 .. size
  PROVE  size * (k - 1) + j \in 1 .. size * count
<1>1. PICK q \in Nat : q = k - 1 /\ q + 1 <= count
  OBVIOUS
<1>2. size * q \in Nat /\ size * q + size <= size * count /\ size * count \in Nat
  <2>1. size * (q + 1) = size * q + size /\ size * q \in Nat /\ size * count \in Nat
    BY Z3
  <2>2. size * (q + 1) <= size * count
    BY <1>1, Z3
  <2> QED
    BY <2>1, <2>2
<1> QED
  BY <1>1, <1>2

LEMMA HoldsMore ==
  ASSUME NEW S, NEW E, NEW size \in Nat \ {0}, NEW encode,
         NEW bytes \in Seq(S), NEW entries \in Seq(E), NEW e \in E, NEW more \in Seq(S),
         Holds(bytes, entries, encode, size), more = encode[e], Len(more) = size
  PROVE  Holds(bytes \o more, Append(entries, e), encode, size)
<1>1. PICK count \in Nat : count = Len(entries)
  OBVIOUS
<1>2. PICK longer : longer = Append(entries, e)
  OBVIOUS
<1>3. /\ Len(longer) = count + 1 /\ longer[count + 1] = e
      /\ \A k \in 1 .. count : longer[k] = entries[k]
  BY <1>1, <1>2, AppendProperties
<1>4. size * count \in Nat /\ size * (count + 1) = size * count + size
  BY Z3
<1>5. Len(bytes) = size * count
  BY <1>1 DEF Holds
<1>6. /\ bytes \o more \in Seq(S) /\ Len(bytes \o more) = size * count + size
      /\ \A i \in 1 .. size * count : (bytes \o more)[i] = bytes[i]
      /\ \A i \in 1 .. size : (bytes \o more)[size * count + i] = more[i]
  <2>1. PICK m \in Nat : m = size * count
    BY <1>4
  <2>2. m = Len(bytes) /\ size = Len(more)
    BY <1>5, <2>1
  <2>3. bytes \o more \in Seq(S) /\ Len(bytes \o more) = m + size
    BY <2>2, Parts
  <2>4. \A i \in 1 .. size : (bytes \o more)[m + i] = more[i]
    BY <2>2, Parts
  <2>5. \A i \in 1 .. m : (bytes \o more)[i] = bytes[i]
    BY <2>2, Parts
  <2> QED
    BY <2>1, <2>3, <2>4, <2>5
<1>7. ASSUME NEW k \in 1 .. count + 1, NEW j \in 1 .. size
      PROVE  (bytes \o more)[size * (k - 1) + j] = encode[longer[k]][j]
  <2>1. CASE k = count + 1
    <3>1. k - 1 = count
      BY <2>1
    <3> QED
      BY <1>3, <1>6, <2>1, <3>1
  <2>2. CASE k # count + 1
    <3>1. k \in 1 .. count
      BY <2>2
    <3>2. size * (k - 1) + j \in 1 .. size * count
      BY <3>1, PlaceInEntry
    <3>3. bytes[size * (k - 1) + j] = encode[entries[k]][j]
      BY <1>1, <3>1 DEF Holds
    <3> QED
      BY <1>3, <1>6, <3>1, <3>2, <3>3
  <2> QED
    BY <2>1, <2>2
<1>8. Len(bytes \o more) = size * (count + 1)
  BY <1>4, <1>6
<1>9. PICK all : all = bytes \o more
  OBVIOUS
<1>10. \A k \in 1 .. Len(longer) : \A j \in 1 .. size :
           all[size * (k - 1) + j] = encode[longer[k]][j]
  <2>1. Len(longer) = count + 1
    BY <1>3
  <2> QED
    BY <1>7, <1>9, <2>1
<1>11. Len(all) = size * Len(longer)
  BY <1>3, <1>8, <1>9
<1>12. Holds(all, longer, encode, size)
  BY ONLY <1>10, <1>11 DEF Holds
<1> QED
  BY <1>2, <1>9, <1>12

\* The entries that are wholly in the first part.
LEMMA EntryInFirst ==
  ASSUME NEW S, NEW E, NEW size \in Nat \ {0}, NEW encode, NEW entries \in Seq(E),
         NEW a \in Seq(S), NEW b \in Seq(S), Holds(a \o b, entries, encode, size),
         NEW m \in Nat, size * m + size <= Len(a)
  PROVE  /\ m + 1 \in 1 .. Len(entries)
         /\ \A j \in 1 .. size : a[size * m + j] = encode[entries[m + 1]][j]
<1>1. PICK count \in Nat : count = Len(entries)
  OBVIOUS
<1>2. PICK la \in Nat : la = Len(a)
  OBVIOUS
<1>3. PICK lb \in Nat : lb = Len(b)
  OBVIOUS
<1>4. /\ Len(a \o b) = la + lb /\ \A i \in 1 .. la : (a \o b)[i] = a[i]
  BY <1>2, <1>3, Parts
<1>5. la + lb = size * count
  BY <1>1, <1>4 DEF Holds
<1>6. size * m \in Nat /\ size * (m + 1) = size * m + size
  BY Z3
<1>7. m + 1 <= count
  <2>1. size * (m + 1) <= size * count
    BY <1>2, <1>5, <1>6
  <2>2. \A x, y \in Nat : size * x <= size * y => x <= y
    BY Z3
  <2> QED
    BY <2>1, <2>2
<1>8. ASSUME NEW j \in 1 .. size PROVE a[size * m + j] = encode[entries[m + 1]][j]
  <2>1. size * m + j \in 1 .. la
    BY <1>2, <1>6
  <2>2. m + 1 \in 1 .. count /\ (m + 1) - 1 = m
    BY <1>7
  <2>3. (a \o b)[size * ((m + 1) - 1) + j] = encode[entries[m + 1]][j]
    BY <1>1, <2>2 DEF Holds
  <2> QED
    BY <1>4, <2>1, <2>2, <2>3
<1> QED
  BY <1>1, <1>7, <1>8

LEMMA HoldsFirst ==
  ASSUME NEW S, NEW E, NEW size \in Nat \ {0}, NEW encode, NEW entries \in Seq(E),
         NEW a \in Seq(S), NEW b \in Seq(S), Holds(a \o b, entries, encode, size),
         NEW q \in 0 .. Len(entries), Len(a) = size * q
  PROVE  Holds(a, SubSeq(entries, 1, q), encode, size)
<1>0. PICK fewer : fewer = SubSeq(entries, 1, q)
  OBVIOUS
<1>1. Len(fewer) = q /\ \A k \in 1 .. q : fewer[k] = entries[k]
  <2>1. \A i \in 1 .. q : entries[i] \in E
    OBVIOUS
  <2>2. /\ Len(fewer) = IF 1 <= q THEN q - 1 + 1 ELSE 0
        /\ \A i \in 1 .. q - 1 + 1 : fewer[i] = entries[1 + i - 1]
    BY <1>0, <2>1, SubSeqProperties
  <2>3. q - 1 + 1 = q /\ \A i \in 1 .. q : 1 + i - 1 = i
    OBVIOUS
  <2>4. Len(fewer) = q
    BY <2>2
  <2> QED
    BY <2>2, <2>3, <2>4
<1>2. q \in Nat
  OBVIOUS
<1>3. ASSUME NEW k \in 1 .. q, NEW j \in 1 .. size
      PROVE  a[size * (k - 1) + j] = encode[fewer[k]][j]
  <2>1. PICK m \in Nat : m = k - 1 /\ m + 1 = k /\ m + 1 <= q
    OBVIOUS
  <2>2. size * m + size <= Len(a)
    <3>1. size * (m + 1) = size * m + size
      BY Z3
    <3>2. size * (m + 1) <= size * q
      BY <1>2, <2>1, Z3
    <3> QED
      BY <3>1, <3>2
  <2>3. \A i \in 1 .. size : (a \o b)[size * (k - 1) + i] = encode[entries[k]][i]
    <3>1. k \in 1 .. Len(entries)
      <4>1. PICK count \in Nat : count = Len(entries)
        OBVIOUS
      <4> QED
        BY <4>1
    <3> QED
      BY <3>1 DEF Holds
  <2>4. PICK p \in Nat : p = size * m + j /\ p \in 1 .. Len(a)
    <3>1. PICK x \in Nat : x = size * m
      BY Z3
    <3>2. PICK la \in Nat : la = Len(a)
      OBVIOUS
    <3>3. x + size <= la
      BY <2>2, <3>1, <3>2
    <3>4. x + j \in 1 .. la
      BY <3>3
    <3> QED
      BY <3>1, <3>2, <3>4
  <2>5. (a \o b)[p] = a[p]
    BY <2>4, Parts
  <2>6. size * (k - 1) + j = p
    BY <2>1, <2>4
  <2> QED
    BY <1>1, <2>3, <2>5, <2>6
<1> QED
  BY <1>0, <1>1, <1>3 DEF Holds

\* Bytes that agree with a sequence are it.
LEMMA CutOut ==
  ASSUME NEW S, NEW s \in Seq(S), NEW a \in Seq(S), NEW p \in Nat, NEW c \in Nat,
         Len(a) = c, p + c <= Len(s), \A j \in 1 .. c : s[p + j] = a[j]
  PROVE  SubSeq(s, p + 1, p + c) = a
<1>1. PICK f \in Int : f = p + 1
  OBVIOUS
<1>2. PICK l \in Int : l = p + c
  OBVIOUS
<1>3. \A i \in f .. l : s[i] \in S
  BY <1>1, <1>2
<1>4. /\ SubSeq(s, f, l) \in Seq(S)
      /\ Len(SubSeq(s, f, l)) = IF f <= l THEN l - f + 1 ELSE 0
      /\ \A i \in 1 .. l - f + 1 : SubSeq(s, f, l)[i] = s[f + i - 1]
  BY <1>3, SubSeqProperties
<1>5. l - f + 1 = c /\ (f <= l <=> c # 0)
  BY <1>1, <1>2
<1>6. Len(SubSeq(s, f, l)) = c
  BY <1>4, <1>5
<1>7. ASSUME NEW i \in 1 .. c PROVE SubSeq(s, f, l)[i] = a[i]
  <2>1. f + i - 1 = p + i
    BY <1>1
  <2> QED
    BY <1>4, <1>5, <2>1
<1>8. SubSeq(s, f, l) = a
  BY <1>4, <1>6, <1>7, SeqEqual
<1> QED
  BY <1>1, <1>2, <1>8

\* What has moved from the stream's buffer into the file is where it was.
Cut(t, first, rest) ==
    \E count \in 1 .. Len(t) : first = SubSeq(t, 1, count) /\ rest = SubSeq(t, count + 1, Len(t))

LEMMA Drained ==
  ASSUME NEW S, NEW s \in Seq(S), NEW t \in Seq(S), NEW first, NEW rest, Cut(t, first, rest)
  PROVE  s \o first \in Seq(S) /\ rest \in Seq(S) /\ (s \o first) \o rest = s \o t
<1>0. PICK count \in 1 .. Len(t) :
          first = SubSeq(t, 1, count) /\ rest = SubSeq(t, count + 1, Len(t))
  BY DEF Cut
<1>1. PICK l \in Nat : l = Len(t)
  OBVIOUS
<1>2. SubSeq(t, 1, count) \in Seq(S)
  <2>1. \A i \in 1 .. count : t[i] \in S
    BY <1>1
  <2> QED
    BY <2>1, SubSeqProperties
<1>3. SubSeq(t, count + 1, l) \in Seq(S)
  <2>1. PICK f \in Int : f = count + 1
    BY <1>1
  <2>2. \A i \in f .. l : t[i] \in S
    BY <1>1, <2>1
  <2>3. SubSeq(t, f, l) \in Seq(S)
    BY <1>1, <2>2, SubSeqProperties
  <2> QED
    BY <2>1, <2>3
<1>4. SubSeq(t, 1, count) \o SubSeq(t, count + 1, l) = t
  <2>1. SubSeq(t, 1, count) \o SubSeq(t, count + 1, Len(t)) = SubSeq(t, 1, Len(t))
    <3>1. 1 \in 1 .. Len(t) + 1 /\ count \in 1 - 1 .. Len(t) /\ Len(t) \in count .. Len(t)
      BY <1>1
    <3> QED
      BY <3>1, ConcatAdjacentSubSeq
  <2> QED
    BY <1>1, <2>1, SubSeqFull
<1>5. PICK x \in Seq(S) : x = first
  BY <1>0, <1>2
<1>6. PICK y \in Seq(S) : y = rest
  BY <1>0, <1>1, <1>3
<1>7. s \o x \in Seq(S)
  BY ConcatProperties
<1>8. (s \o x) \o y = s \o (x \o y)
  <2>1. s \in Seq(S) /\ x \in Seq(S) /\ y \in Seq(S)
    OBVIOUS
  <2> QED
    BY ONLY <2>1, ConcatAssociative, SMTT(30)
<1>9. x \o y = t
  BY <1>0, <1>1, <1>4, <1>5, <1>6
<1> QED
  BY <1>5, <1>6, <1>7, <1>8, <1>9

-----------------------------------------------------------------------------
(* What the two streams keep.                                              *)

Streams == [pos : Nat, eof : BOOLEAN, fail : BOOLEAN]

FilesInv ==
    /\ format \in {"order", "suffixes"} /\ n \in PrefixCounts
    /\ file \in Seq(Byte) /\ buffer \in Seq(Byte) /\ appended \in Seq(Entries)
    /\ writer \in BOOLEAN /\ torn \in BOOLEAN
    /\ ~writer => buffer = << >>
    /\ Len(file) + Len(buffer) < entry_bytes * (Len(appended) + 1)
    /\ ~torn => Holds(file \o buffer, appended, Encoded, entry_bytes)

ReaderInv ==
    /\ reader \in Streams \cup {NoReader}
    /\ reader = NoReader => got = Nothing
    /\ reader # NoReader /\ ~reader.fail => \E m \in Nat : reader.pos = entry_bytes * m

LEMMA SameCodec ==
  ASSUME UNCHANGED <<format, n>>
  PROVE  /\ Entries' = Entries /\ Encoded' = Encoded /\ entry_bytes' = entry_bytes
         /\ pi_bytes_count' = pi_bytes_count
<1>1. Entries' = Entries
  BY DEF Entries, OrderEntries, SuffixEntries, spare_bits_count
<1>2. pi_bytes_count' = pi_bytes_count /\ entry_bytes' = entry_bytes
  BY DEF pi_bytes_count, entry_bytes
<1>3. \A e : BytesOfEntry(e)' = BytesOfEntry(e)
  BY DEF BytesOfEntry, OrderBytes, SuffixEntryBytes, spare_bits_count, suffix_start_idx, pi_bytes_count
<1>4. Encoded' = Encoded
  BY <1>1, <1>3 DEF Encoded
<1> QED
  BY <1>1, <1>2, <1>4

\* The room an append takes and a crash leaves.
LEMMA RoomIs ==
  ASSUME NEW size \in Nat \ {0}, NEW count \in Nat, NEW used \in Nat, used < size * (count + 1)
  PROVE  /\ used + size < size * (count + 1 + 1)
         /\ used \div size \in 0 .. count /\ used < size * ((used \div size) + 1)
         /\ used % size = 0 => used = size * (used \div size)
<1>1. size * (count + 1 + 1) = size * (count + 1) + size /\ size * (count + 1) \in Nat
  BY Z3
<1>2. PICK q \in Nat : q = used \div size
  BY Division
<1>3. PICK r \in 0 .. size - 1 : r = used % size /\ used = size * q + r
  BY <1>2, Division
<1>4. size * q \in Nat /\ size * (q + 1) = size * q + size
  BY Z3
<1>5. used < size * (q + 1)
  BY <1>3, <1>4
<1>6. q <= count
  <2>1. size * q < size * (count + 1)
    BY <1>1, <1>3, <1>4
  <2>2. \A x, y \in Nat : size * x < size * y => x < y
    BY Z3
  <2> QED
    BY <2>1, <2>2
<1>7. r = 0 => used = size * q
  BY <1>3, <1>4
<1>8. used + size < size * (count + 1 + 1)
  BY <1>1
<1> QED
  BY <1>2, <1>3, <1>5, <1>6, <1>7, <1>8

LEMMA NoBytes == << >> \in Seq(Byte) /\ Len(<< >>) = 0
  OBVIOUS

LEMMA FilesInit == Init => FilesInv
<1> SUFFICES ASSUME Init PROVE FilesInv
  OBVIOUS
<1>1. n \in PrefixCounts /\ format \in {"order", "suffixes"}
  BY DEF Init
<1>2. entry_bytes \in Nat \ {0}
  BY <1>1, SizesAre
<1>3. PICK none : none = << >>
  OBVIOUS
<1>4. file = none /\ buffer = none /\ appended = none /\ ~writer /\ writer \in BOOLEAN /\ torn \in BOOLEAN
  BY <1>3 DEF Init
<1>5. none \in Seq(Byte) /\ none \in Seq(Entries) /\ Len(none) = 0 /\ none \o none = none
  BY <1>3
<1>6. Holds(none, none, Encoded, entry_bytes)
  BY <1>2, <1>5 DEF Holds
<1>7. Len(file) + Len(buffer) < entry_bytes * (Len(appended) + 1)
  <2>1. entry_bytes * (0 + 1) = entry_bytes
    BY <1>2
  <2> QED
    BY <1>2, <1>4, <1>5, <2>1
<1> QED
  BY <1>1, <1>3, <1>4, <1>5, <1>6, <1>7 DEF FilesInv

LEMMA AppendKeepsFiles ==
  ASSUME FilesInv, append
  PROVE  FilesInv'
<1>1. PICK size \in Nat \ {0} : size = entry_bytes
  BY SizesAre DEF FilesInv
<1>2. PICK e \in Entries : buffer' = buffer \o BytesOfEntry(e) /\ appended' = Append(appended, e)
  BY DEF append, Entries
<1>3. PICK more \in Seq(Byte) : more = BytesOfEntry(e) /\ more = Encoded[e] /\ Len(more) = size
  BY <1>1, EncodedIs DEF FilesInv
<1>4. UNCHANGED <<format, n, file, writer, torn>> /\ writer
  BY DEF append
<1>5. Entries' = Entries /\ Encoded' = Encoded /\ entry_bytes' = size
  BY <1>1, <1>4, SameCodec
<1>6. PICK f \in Seq(Byte) : f = file
  BY DEF FilesInv
<1>7. PICK b \in Seq(Byte) : b = buffer
  BY DEF FilesInv
<1>8. PICK s \in Seq(Entries) : s = appended
  BY DEF FilesInv
<1>9. PICK t \in Seq(Entries) : t = Append(s, e) /\ Len(t) = Len(s) + 1
  BY AppendProperties
<1>10. PICK b2 \in Seq(Byte) : b2 = b \o more /\ Len(b2) = Len(b) + size
  BY <1>3, ConcatProperties
<1>11. f \o b2 = (f \o b) \o more
  <2>1. f \in Seq(Byte) /\ b \in Seq(Byte) /\ more \in Seq(Byte)
    OBVIOUS
  <2>2. (f \o b) \o more = f \o (b \o more)
    BY ONLY <2>1, ConcatAssociative, SMTT(30)
  <2> QED
    BY <1>10, <2>2
<1>12. Len(f) + Len(b2) < size * (Len(t) + 1)
  <2>1. PICK used \in Nat : used = Len(f) + Len(b)
    OBVIOUS
  <2>2. PICK count \in Nat : count = Len(s)
    OBVIOUS
  <2>3. used < size * (count + 1)
    BY <1>1, <1>6, <1>7, <1>8, <2>1, <2>2 DEF FilesInv
  <2>4. used + size < size * (count + 1 + 1)
    BY <2>3, RoomIs
  <2>5. Len(f) + Len(b2) = used + size
    BY <1>10, <2>1
  <2>6. Len(t) = count + 1
    BY <1>9, <2>2
  <2> QED
    BY <2>4, <2>5, <2>6
<1>13. ~torn => Holds(f \o b2, t, Encoded, size)
  <2>1. SUFFICES ASSUME ~torn PROVE Holds(f \o b2, t, Encoded, size)
    OBVIOUS
  <2>2. PICK fb \in Seq(Byte) : fb = f \o b
    BY ConcatProperties
  <2>3. Holds(fb, s, Encoded, size)
    BY <1>1, <1>6, <1>7, <1>8, <2>1, <2>2 DEF FilesInv
  <2>4. Holds(fb \o more, Append(s, e), Encoded, size)
    BY <1>3, <2>3, HoldsMore
  <2> QED
    BY <1>9, <1>11, <2>2, <2>4
<1>14. buffer' = b2 /\ appended' = t
  BY <1>2, <1>3, <1>7, <1>8, <1>9, <1>10
<1> QED
  BY <1>4, <1>5, <1>6, <1>9, <1>10, <1>12, <1>13, <1>14 DEF FilesInv

LEMMA DrainKeepsFiles ==
  ASSUME FilesInv, drain
  PROVE  FilesInv'
<1>1. PICK f \in Seq(Byte) : f = file
  BY DEF FilesInv
<1>2. PICK b \in Seq(Byte) : b = buffer
  BY DEF FilesInv
<1>3. PICK count \in 1 .. Len(b) :
          /\ file' = f \o SubSeq(b, 1, count)
          /\ buffer' = SubSeq(b, count + 1, Len(b))
  BY <1>1, <1>2 DEF drain
<1>a. PICK first : first = SubSeq(b, 1, count)
  OBVIOUS
<1>b. PICK b2 : b2 = SubSeq(b, count + 1, Len(b))
  OBVIOUS
<1>4. f \o first \in Seq(Byte) /\ b2 \in Seq(Byte) /\ (f \o first) \o b2 = f \o b
  <2>1. Cut(b, first, b2)
    BY <1>a, <1>b DEF Cut
  <2> QED
    BY <2>1, Drained
<1>5. PICK f2 \in Seq(Byte) : f2 = f \o first
  BY <1>4
<1>6. f2 = file' /\ b2 = buffer'
  BY <1>3, <1>a, <1>b, <1>5
<1>7. f2 \o b2 = f \o b
  BY <1>4, <1>5
<1>8. Len(f2) + Len(b2) = Len(f) + Len(b)
  <2>1. Len(f2 \o b2) = Len(f2) + Len(b2) /\ Len(f \o b) = Len(f) + Len(b)
    BY <1>4, ConcatProperties
  <2> QED
    BY <1>7, <2>1
<1>9. UNCHANGED <<format, n, writer, torn, appended>>
  BY DEF drain
<1>10. Entries' = Entries /\ Encoded' = Encoded /\ entry_bytes' = entry_bytes
  BY <1>9, SameCodec
<1>11. writer
  <2>1. SUFFICES ASSUME ~writer PROVE FALSE
    OBVIOUS
  <2>2. b = << >>
    BY <1>2, <2>1 DEF FilesInv
  <2>3. Len(b) = 0
    BY <2>2
  <2> QED
    BY <1>3, <2>3
<1> QED
  BY <1>1, <1>2, <1>4, <1>6, <1>7, <1>8, <1>9, <1>10, <1>11 DEF FilesInv

LEMMA CloseKeepsFiles ==
  ASSUME FilesInv, close_writer
  PROVE  FilesInv'
<1>1. PICK f \in Seq(Byte) : f = file
  BY DEF FilesInv
<1>2. PICK b \in Seq(Byte) : b = buffer
  BY DEF FilesInv
<1>3. PICK f2 \in Seq(Byte) : f2 = f \o b /\ Len(f2) = Len(f) + Len(b)
  BY ConcatProperties
<1>4. PICK none \in Seq(Byte) : none = << >> /\ Len(none) = 0
  BY NoBytes
<1>5. f2 \o none = f2
  BY <1>4, ConcatEmptySeq
<1>6. file' = f2 /\ buffer' = none /\ UNCHANGED <<format, n, torn, appended>> /\ writer' \in BOOLEAN
  BY <1>1, <1>2, <1>3, <1>4 DEF close_writer
<1>7. Entries' = Entries /\ Encoded' = Encoded /\ entry_bytes' = entry_bytes
  BY <1>6, SameCodec
<1>8. Len(f2) + Len(none) = Len(f) + Len(b)
  BY <1>3, <1>4
<1> QED
  BY <1>1, <1>2, <1>3, <1>4, <1>5, <1>6, <1>7, <1>8 DEF FilesInv

LEMMA CrashKeepsFiles ==
  ASSUME FilesInv, crash
  PROVE  FilesInv'
<1>1. PICK size \in Nat \ {0} : size = entry_bytes
  BY SizesAre DEF FilesInv
<1>2. PICK f \in Seq(Byte) : f = file
  BY DEF FilesInv
<1>3. PICK b \in Seq(Byte) : b = buffer
  BY DEF FilesInv
<1>4. PICK s \in Seq(Entries) : s = appended
  BY DEF FilesInv
<1>5. PICK none \in Seq(Byte) : none = << >> /\ Len(none) = 0
  BY NoBytes
<1>6. PICK used \in Nat : used = Len(f)
  OBVIOUS
<1>7. PICK count \in Nat : count = Len(s)
  OBVIOUS
<1>8. used < size * (count + 1)
  BY <1>1, <1>2, <1>3, <1>4, <1>6, <1>7 DEF FilesInv
<1>9. PICK q \in 0 .. count :
          /\ q = used \div size /\ used < size * (q + 1)
          /\ used % size = 0 => used = size * q
  BY <1>8, RoomIs
<1>10. PICK t : t = SubSeq(s, 1, q)
  OBVIOUS
<1>11. t \in Seq(Entries) /\ Len(t) = q
  <2>1. \A i \in 1 .. q : s[i] \in Entries
    BY <1>7
  <2>2. t \in Seq(Entries) /\ Len(t) = IF 1 <= q THEN q - 1 + 1 ELSE 0
    BY <1>10, <2>1, SubSeqProperties
  <2> QED
    BY <2>2
<1>12. /\ file' = f /\ buffer' = none /\ appended' = t /\ torn' = (torn \/ used % size # 0)
       /\ UNCHANGED <<format, n>> /\ writer' \in BOOLEAN
  BY <1>1, <1>2, <1>4, <1>5, <1>6, <1>9, <1>10 DEF crash
<1>13. Entries' = Entries /\ Encoded' = Encoded /\ entry_bytes' = size
  BY <1>1, <1>12, SameCodec
<1>14. f \o none = f
  BY <1>5, ConcatEmptySeq
<1>15. ~torn /\ used % size = 0 => Holds(f, t, Encoded, size)
  <2>1. SUFFICES ASSUME ~torn, used % size = 0 PROVE Holds(f, t, Encoded, size)
    OBVIOUS
  <2>2. Holds(f \o b, s, Encoded, size)
    BY <1>1, <1>2, <1>3, <1>4, <2>1 DEF FilesInv
  <2>3. Len(f) = size * q /\ q \in 0 .. Len(s)
    BY <1>6, <1>7, <1>9, <2>1
  <2> QED
    BY <1>10, <2>2, <2>3, HoldsFirst
<1>16. Len(f) + Len(none) < size * (Len(t) + 1)
  BY <1>5, <1>6, <1>9, <1>11
<1>17. torn' \in BOOLEAN
  BY <1>12
<1> QED
  BY <1>5, <1>11, <1>12, <1>13, <1>14, <1>15, <1>16, <1>17 DEF FilesInv

LEMMA NextKeepsFiles ==
  ASSUME FilesInv, [Next]_vars
  PROVE  FilesInv'
<1>1. CASE create_empty
  <2>1. format \in {"order", "suffixes"} /\ n \in PrefixCounts /\ UNCHANGED <<format, n, writer, buffer>>
    BY <1>1 DEF FilesInv, create_empty
  <2>2. Entries' = Entries /\ Encoded' = Encoded /\ entry_bytes' = entry_bytes
    BY <2>1, SameCodec
  <2>3. PICK none : none = << >>
    OBVIOUS
  <2>4. file' = none /\ buffer = none /\ appended' = none /\ ~torn' /\ torn' \in BOOLEAN
    BY <1>1, <2>3 DEF FilesInv, create_empty
  <2>5. none \in Seq(Byte) /\ none \in Seq(Entries) /\ Len(none) = 0 /\ none \o none = none
    BY <2>3
  <2>6. entry_bytes \in Nat \ {0}
    BY <2>1, SizesAre
  <2>7. Holds(none, none, Encoded, entry_bytes)
    BY <2>5, <2>6 DEF Holds
  <2>8. Len(none) + Len(none) < entry_bytes * (Len(none) + 1)
    <3>1. entry_bytes * (0 + 1) = entry_bytes
      BY <2>6
    <3> QED
      BY <2>5, <2>6, <3>1
  <2>9. ~writer' /\ writer' \in BOOLEAN
    BY <1>1, <2>1 DEF create_empty, FilesInv
  <2> QED
    BY <2>1, <2>2, <2>3, <2>4, <2>5, <2>7, <2>8, <2>9 DEF FilesInv
<1>2. CASE open_writer
  <2>1. UNCHANGED <<format, n, file, buffer, appended, torn>> /\ ~writer /\ writer' = TRUE
    BY <1>2 DEF open_writer
  <2>2. Entries' = Entries /\ Encoded' = Encoded /\ entry_bytes' = entry_bytes
    BY <2>1, SameCodec
  <2> QED
    BY <2>1, <2>2 DEF FilesInv
<1>3. CASE append
  BY <1>3, AppendKeepsFiles
<1>4. CASE drain
  BY <1>4, DrainKeepsFiles
<1>5. CASE close_writer
  BY <1>5, CloseKeepsFiles
<1>6. CASE crash
  BY <1>6, CrashKeepsFiles
<1>7. CASE UNCHANGED <<format, n, file, buffer, writer, appended, torn>>
  <2>1. Entries' = Entries /\ Encoded' = Encoded /\ entry_bytes' = entry_bytes
    BY <1>7, SameCodec
  <2> QED
    BY <1>7, <2>1 DEF FilesInv
<1>8. CASE open_reader \/ close_reader \/ seek_entry \/ has_more \/ read_next \/ UNCHANGED vars
  <2>1. UNCHANGED <<format, n, file, buffer, writer, appended, torn>>
    BY <1>8 DEF open_reader, close_reader, seek_entry, has_more, read_next, vars
  <2> QED
    BY <1>7, <2>1
<1> QED
  BY <1>1, <1>2, <1>3, <1>4, <1>5, <1>6, <1>8 DEF Next

LEMMA FilesKept == Spec => []FilesInv
<1>1. FilesInv /\ [Next]_vars => FilesInv'
  BY NextKeepsFiles
<1> QED
  BY <1>1, FilesInit, PTL DEF Spec

-----------------------------------------------------------------------------
(* The reader's stream.                                                    *)

\* What read(count) needs to succeed.
Fits(s, count) == Good(s) /\ (count = 0 \/ s.pos + count <= Len(file))

Advanced(s, count) == [pos |-> s.pos + count, eof |-> FALSE, fail |-> FALSE]

\* EXCEPT on a stream.
LEMMA StreamIs ==
  ASSUME NEW s \in Streams
  PROVE  \E p \in Nat : \E e, f \in BOOLEAN : s = [pos |-> p, eof |-> e, fail |-> f]
<1>1. s.pos \in Nat /\ s.eof \in BOOLEAN /\ s.fail \in BOOLEAN
  BY DEF Streams
<1>2. s = [pos |-> s.pos, eof |-> s.eof, fail |-> s.fail]
  BY DEF Streams
<1> QED
  BY <1>1, <1>2, Zenon

LEMMA WithPos ==
  ASSUME NEW s, NEW p, NEW e, NEW f, NEW to, s = [pos |-> p, eof |-> e, fail |-> f]
  PROVE  [s EXCEPT !.pos = to] = [pos |-> to, eof |-> e, fail |-> f]
  OBVIOUS

LEMMA WithEof ==
  ASSUME NEW s, NEW p, NEW e, NEW f, NEW to, s = [pos |-> p, eof |-> e, fail |-> f]
  PROVE  [s EXCEPT !.eof = to] = [pos |-> p, eof |-> to, fail |-> f]
  OBVIOUS

LEMMA WithFail ==
  ASSUME NEW s, NEW p, NEW e, NEW f, NEW to, s = [pos |-> p, eof |-> e, fail |-> f]
  PROVE  [s EXCEPT !.fail = to] = [pos |-> p, eof |-> e, fail |-> to]
  OBVIOUS

LEMMA ReadIs ==
  ASSUME file \in Seq(Byte), NEW s \in Streams, NEW count \in Nat
  PROVE  /\ Read(s, count) \in Streams
         /\ Fits(s, count) => /\ Read(s, count) = Advanced(s, count)
                              /\ Len(Available(s, count)) = count
         /\ ~Fits(s, count) => /\ Read(s, count).fail
                               /\ count # 0 => Len(Available(s, count)) < count
<1>1. PICK l \in Nat : l = Len(file)
  OBVIOUS
<1>2. PICK p \in Nat : p = s.pos
  BY DEF Streams
<1>3. s = [pos |-> p, eof |-> s.eof, fail |-> s.fail] /\ s.eof \in BOOLEAN /\ s.fail \in BOOLEAN
  BY <1>2 DEF Streams
<1>4. CASE ~Good(s)
  <2>1. PICK none : none = Available(s, count)
    OBVIOUS
  <2>2. none = << >>
    BY <1>4, <2>1 DEF Available
  <2>3. Len(none) = 0
    BY <2>2
  <2>4. Read(s, count) = [s EXCEPT !.fail = TRUE]
    BY <1>4 DEF Read
  <2>5. [s EXCEPT !.fail = TRUE] \in Streams /\ [s EXCEPT !.fail = TRUE].fail
    BY <1>3 DEF Streams
  <2> QED
    BY <1>4, <2>1, <2>3, <2>4, <2>5 DEF Fits
<1>5. CASE Good(s)
  <2>1. PICK end \in Nat : end = IF p + count <= l THEN p + count ELSE l
    OBVIOUS
  <2>2. Available(s, count) = SubSeq(file, p + 1, end)
    BY <1>1, <1>2, <1>5, <2>1 DEF Available
  <2>3. PICK from \in Int : from = p + 1
    OBVIOUS
  <2>4. \A i \in from .. end : file[i] \in Byte
    BY <1>1, <2>1, <2>3
  <2>5. Len(SubSeq(file, from, end)) = IF from <= end THEN end - from + 1 ELSE 0
    BY <2>1, <2>3, <2>4, SubSeqProperties
  <2>6. PICK gcount : gcount = Len(Available(s, count))
    OBVIOUS
  <2>7. gcount = IF from <= end THEN end - from + 1 ELSE 0
    BY <2>2, <2>3, <2>5, <2>6
  <2>8. /\ gcount \in Nat
        /\ count = 0 \/ p + count <= l => gcount = count
        /\ ~(count = 0 \/ p + count <= l) => gcount < count
    BY <2>1, <2>3, <2>7
  <2>a. PICK short \in BOOLEAN : short = (gcount < count)
    <3>1. (gcount < count) \in BOOLEAN
      BY <2>8
    <3> QED
      BY <3>1, Zenon
  <2>9. Read(s, count) = [pos |-> p + gcount, eof |-> short, fail |-> short]
    BY <1>2, <1>5, <2>6, <2>a DEF Read
  <2>10. Fits(s, count) <=> count = 0 \/ p + count <= l
    BY <1>1, <1>2, <1>5 DEF Fits
  <2>11. Read(s, count) \in Streams
    BY <2>8, <2>9 DEF Streams
  <2>12. Fits(s, count) => Read(s, count) = Advanced(s, count)
    <3>1. Fits(s, count) => gcount = count /\ ~(gcount < count)
      BY <2>8, <2>10
    <3>2. Fits(s, count) => ~short
      BY <2>a, <3>1
    <3>3. Fits(s, count) => short = FALSE
      BY <2>a, <3>2
    <3>4. Fits(s, count) => Read(s, count) = [pos |-> p + count, eof |-> FALSE, fail |-> FALSE]
      BY <2>9, <3>1, <3>3, Zenon
    <3> QED
      BY <1>2, <3>4 DEF Advanced
  <2>13. ~Fits(s, count) => Read(s, count).fail /\ gcount < count
    <3>1. ~Fits(s, count) => short = TRUE /\ gcount < count
      BY <2>8, <2>10, <2>a
    <3> QED
      BY <2>9, <3>1
  <2>14. Fits(s, count) => gcount = count
    BY <2>8, <2>10
  <2> QED
    BY <2>6, <2>11, <2>12, <2>13, <2>14
<1> QED
  BY <1>4, <1>5

\* The bytes that are there.
LEMMA AvailableIs ==
  ASSUME NEW s \in Streams, NEW count \in Nat, Good(s), s.pos + count <= Len(file)
  PROVE  Available(s, count) = SubSeq(file, s.pos + 1, s.pos + count)
BY DEF Available

LEMMA AdvancedIs ==
  ASSUME NEW s \in Streams, NEW count \in Nat
  PROVE  /\ Advanced(s, count) \in Streams /\ Good(Advanced(s, count))
         /\ ~Advanced(s, count).fail /\ Advanced(s, count).pos = s.pos + count
BY DEF Advanced, Streams, Good

\* A read that succeeds began on a good stream and ends on one.
LEMMA ReadTwice ==
  ASSUME file \in Seq(Byte), NEW s \in Streams, NEW a \in Nat, NEW b \in Nat,
         ~Read(Read(s, a), b).fail
  PROVE  Good(s) /\ Fits(s, a) /\ Fits(Advanced(s, a), b) /\ Read(Read(s, a), b) = Advanced(s, a + b)
<1>1. PICK t \in Streams : t = Read(s, a)
  BY ReadIs
<1>2. Fits(t, b) /\ Read(t, b) = Advanced(t, b)
  BY <1>1, ReadIs
<1>3. Good(t)
  BY <1>2 DEF Fits
<1>4. ~t.fail
  BY <1>3 DEF Good
<1>5. Fits(s, a) /\ t = Advanced(s, a)
  BY <1>1, <1>4, ReadIs
<1>6. Good(s)
  BY <1>5 DEF Fits
<1>7. Advanced(t, b) = Advanced(s, a + b)
  <2>1. PICK p \in Nat : p = s.pos
    BY DEF Streams
  <2>2. t.pos = p + a /\ (p + a) + b = p + (a + b)
    BY <1>5, <2>1 DEF Advanced
  <2> QED
    BY <2>1, <2>2 DEF Advanced
<1> QED
  BY <1>1, <1>2, <1>5, <1>6, <1>7

\* peek and the seeks.
LEMMA StreamsMove ==
  ASSUME NEW s \in Streams, NEW to \in Nat
  PROVE  /\ Peek(s) \in Streams /\ Peek(s).pos = s.pos
         /\ Good(s) => Peek(s) = [pos |-> s.pos, eof |-> AtEnd(s), fail |-> FALSE]
         /\ ~Good(s) => Peek(s).fail
         /\ Clear(s) = [pos |-> s.pos, eof |-> FALSE, fail |-> FALSE]
         /\ SeekG(s, to) = [pos |-> IF s.fail THEN s.pos ELSE to, eof |-> FALSE, fail |-> s.fail]
<1>1. PICK p \in Nat : \E e, f \in BOOLEAN : s = [pos |-> p, eof |-> e, fail |-> f]
  BY StreamIs
<1>a. PICK e \in BOOLEAN, f \in BOOLEAN : s = [pos |-> p, eof |-> e, fail |-> f]
  BY <1>1
<1>b. PICK no \in BOOLEAN : no = FALSE
  OBVIOUS
<1>c. PICK yes \in BOOLEAN : yes = TRUE
  OBVIOUS
<1>2. PICK last \in BOOLEAN : last = AtEnd(s)
  <2>1. AtEnd(s) \in BOOLEAN
    BY DEF AtEnd
  <2> QED
    BY <2>1, Zenon
<1>3. Good(s) => Peek(s) = [pos |-> p, eof |-> last, fail |-> no]
  <2>1. Good(s) => f = no
    BY <1>a, <1>b DEF Good
  <2>2. Good(s) => Peek(s) = [s EXCEPT !.eof = last]
    BY <1>2 DEF Peek
  <2>3. [s EXCEPT !.eof = last] = [pos |-> p, eof |-> last, fail |-> f]
    BY <1>a, WithEof
  <2> QED
    BY <2>1, <2>2, <2>3
<1>4. ~Good(s) => Peek(s) = [pos |-> p, eof |-> e, fail |-> yes]
  <2>1. [s EXCEPT !.fail = yes] = [pos |-> p, eof |-> e, fail |-> yes]
    BY <1>a, WithFail
  <2> QED
    BY <1>c, <2>1 DEF Peek
<1>5. Peek(s) \in Streams /\ Peek(s).pos = p
  BY <1>2, <1>3, <1>4 DEF Streams
<1>6. Clear(s) = [pos |-> p, eof |-> no, fail |-> no]
  <2>1. PICK t : t = [s EXCEPT !.eof = no]
    OBVIOUS
  <2>2. t = [pos |-> p, eof |-> no, fail |-> f]
    BY <1>a, <2>1, WithEof
  <2>3. [t EXCEPT !.fail = no] = [pos |-> p, eof |-> no, fail |-> no]
    BY <2>2, WithFail
  <2>4. Clear(s) = [t EXCEPT !.fail = no]
    BY <1>b, <2>1 DEF Clear
  <2> QED
    BY <2>3, <2>4
<1>7. SeekG(s, to) = [pos |-> IF f THEN p ELSE to, eof |-> no, fail |-> f]
  <2>1. PICK t : t = [s EXCEPT !.eof = no]
    OBVIOUS
  <2>2. t = [pos |-> p, eof |-> no, fail |-> f]
    BY <1>a, <2>1, WithEof
  <2>3. [t EXCEPT !.pos = to] = [pos |-> to, eof |-> no, fail |-> f]
    BY <2>2, WithPos
  <2>4. SeekG(s, to) = IF f THEN t ELSE [t EXCEPT !.pos = to]
    BY <1>a, <1>b, <2>1 DEF SeekG
  <2> QED
    BY <2>2, <2>3, <2>4
<1>8. s.pos = p /\ s.fail = f
  BY <1>a
<1>9. SeekG(s, to) = [pos |-> IF s.fail THEN s.pos ELSE to, eof |-> FALSE, fail |-> s.fail]
  BY <1>b, <1>7, <1>8
<1>10. Clear(s) = [pos |-> s.pos, eof |-> FALSE, fail |-> FALSE]
  BY <1>b, <1>6, <1>8
<1>11. Good(s) => Peek(s) = [pos |-> s.pos, eof |-> AtEnd(s), fail |-> FALSE]
  BY <1>b, <1>2, <1>3, <1>8
<1>12. ~Good(s) => Peek(s).fail
  <2>1. SUFFICES ASSUME ~Good(s) PROVE Peek(s).fail
    OBVIOUS
  <2>2. Peek(s).fail = yes
    BY <1>4, <2>1
  <2> QED
    BY <1>c, <2>2
<1>13. Peek(s) \in Streams /\ Peek(s).pos = s.pos
  BY <1>5, <1>8
<1> QED
  BY <1>9, <1>10, <1>11, <1>12, <1>13, Zenon

-----------------------------------------------------------------------------
(* What is read at the beginning of an entry.                              *)

\* From where s is, the file goes on with the bytes x and then y.
ThereAre(s, x, y) ==
    /\ s.pos + (Len(x) + Len(y)) <= Len(file)
    /\ \A j \in 1 .. Len(x) + Len(y) : file[s.pos + j] = (x \o y)[j]

LEMMA TwoParts ==
  ASSUME file \in Seq(Byte), NEW s \in Streams, Good(s), NEW x \in Seq(Byte), NEW y \in Seq(Byte),
         ThereAre(s, x, y), NEW a, NEW b, a = Len(x), b = Len(y)
  PROVE  Available(s, a) = x /\ Available(Read(s, a), b) = y
<1>0. /\ a \in Nat /\ b \in Nat /\ s.pos + (a + b) <= Len(file)
      /\ \A j \in 1 .. a + b : file[s.pos + j] = (x \o y)[j]
  BY DEF ThereAre
<1>1. PICK l \in Nat : l = Len(file)
  OBVIOUS
<1>2. PICK p \in Nat : p = s.pos
  BY DEF Streams
<1>3. p + (a + b) <= l /\ p + a <= l /\ (p + a) + b <= l
  BY <1>0, <1>1, <1>2
<1>4. /\ \A i \in 1 .. a : (x \o y)[i] = x[i]
      /\ \A i \in 1 .. b : (x \o y)[a + i] = y[i]
  <2>1. \A i \in 1 .. a : (x \o y)[i] = x[i]
    BY Parts
  <2>2. /\ x \in Seq(Byte) /\ y \in Seq(Byte) /\ a = Len(x) /\ b = Len(y)
    OBVIOUS
  <2>3. \A i \in 1 .. b : (x \o y)[a + i] = y[i]
    BY ONLY <2>2, Parts
  <2> QED
    BY <2>1, <2>3
<1>5. \A j \in 1 .. a : file[p + j] = x[j]
  <2>1. \A j \in 1 .. a : j \in 1 .. a + b
    BY <1>0
  <2> QED
    BY <1>0, <1>2, <1>4, <2>1
<1>6. \A j \in 1 .. b : file[(p + a) + j] = y[j]
  <2>1. \A j \in 1 .. b : a + j \in 1 .. a + b /\ p + (a + j) = (p + a) + j
    <3>1. a \in Nat /\ b \in Nat /\ p \in Nat
      BY <1>0
    <3> QED
      BY ONLY <3>1
  <2>2. \A j \in 1 .. b : file[p + (a + j)] = (x \o y)[a + j]
    BY <1>0, <1>2, <2>1
  <2> QED
    BY <1>4, <2>1, <2>2
<1>7. Available(s, a) = x
  <2>1. SubSeq(file, p + 1, p + a) = x
    BY <1>0, <1>1, <1>3, <1>5, CutOut
  <2>2. Available(s, a) = SubSeq(file, p + 1, p + a)
    BY <1>0, <1>1, <1>2, <1>3, AvailableIs
  <2> QED
    BY <2>1, <2>2
<1>8. PICK t \in Streams : t = Advanced(s, a) /\ Good(t) /\ t.pos = p + a
  BY <1>0, <1>2, AdvancedIs
<1>9. Read(s, a) = t
  <2>1. Fits(s, a)
    BY <1>0, <1>1, <1>2, <1>3 DEF Fits
  <2> QED
    BY <1>0, <1>8, <2>1, ReadIs
<1>10. Available(t, b) = y
  <2>1. PICK r \in Nat : r = p + a
    BY <1>0
  <2>2. SubSeq(file, r + 1, r + b) = y
    BY <1>0, <1>1, <1>3, <1>6, <2>1, CutOut
  <2>3. Available(t, b) = SubSeq(file, r + 1, r + b)
    BY <1>0, <1>1, <1>3, <1>8, <2>1, AvailableIs
  <2> QED
    BY <2>2, <2>3
<1> QED
  BY <1>7, <1>9, <1>10

LEMMA EntryAt ==
  ASSUME FilesInv, ~torn, NEW s \in Streams, NEW m \in Nat,
         s.pos = entry_bytes * m, s.pos + entry_bytes <= Len(file)
  PROVE  /\ s.pos \div entry_bytes = m
         /\ appended[m + 1] \in Entries
         /\ \A j \in 1 .. entry_bytes : file[s.pos + j] = BytesOfEntry(appended[m + 1])[j]
<1>1. PICK size \in Nat \ {0} : size = entry_bytes
  BY SizesAre DEF FilesInv
<1>2. PICK f \in Seq(Byte) : f = file
  BY DEF FilesInv
<1>3. PICK b \in Seq(Byte) : b = buffer
  BY DEF FilesInv
<1>4. PICK entries \in Seq(Entries) : entries = appended
  BY DEF FilesInv
<1>5. Holds(f \o b, entries, Encoded, size)
  BY <1>1, <1>2, <1>3, <1>4 DEF FilesInv
<1>6. size * m + size <= Len(f)
  BY <1>1, <1>2
<1>7. /\ m + 1 \in 1 .. Len(entries)
      /\ \A j \in 1 .. size : f[size * m + j] = Encoded[entries[m + 1]][j]
  <2>1. m + 1 \in 1 .. Len(entries)
    BY <1>5, <1>6, EntryInFirst
  <2>2. \A j \in 1 .. size : f[size * m + j] = Encoded[entries[m + 1]][j]
    BY <1>5, <1>6, EntryInFirst
  <2> QED
    BY <2>1, <2>2
<1>8. entries[m + 1] \in Entries
  BY <1>7
<1>9. Encoded[entries[m + 1]] = BytesOfEntry(entries[m + 1])
  BY <1>8, EncodedIs DEF FilesInv
<1>10. size * m + 0 = size * m /\ size * m \in Nat
  BY Z3
<1>11. (size * m) \div size = m
  BY <1>10, QuotientIs
<1> QED
  BY <1>1, <1>2, <1>4, <1>7, <1>8, <1>9, <1>11

\* That is asked of what the file keeps.
LEMMA KeptReads ==
  ASSUME FilesInv, NEW e \in Entries
  PROVE  ReadsAs(Kept(e), e)
<1>1. CASE format = "order"
  BY <1>1 DEF ReadsAs, Kept
<1>2. CASE format # "order"
  <2>1. /\ e = [local_pi |-> e.local_pi, hash |-> e.hash]
        /\ e.hash \in HashBytes
    BY <1>2, PresentedAreHashes DEF Entries, SuffixEntries
  <2>2. PICK h : h = [i \in 1 .. HashBytesCount |-> IF i <= suffix_start_idx THEN {} ELSE e.hash[i]]
    OBVIOUS
  <2>3. Kept(e) = [local_pi |-> e.local_pi, hash |-> h]
    BY <1>2, <2>1, <2>2 DEF Kept
  <2>4. suffix_start_idx = 0 => h = e.hash
    <3>1. SUFFICES ASSUME suffix_start_idx = 0 PROVE h = e.hash
      OBVIOUS
    <3>2. \A i \in 1 .. HashBytesCount : ~(i <= suffix_start_idx)
      BY <3>1
    <3>3. h = [i \in 1 .. HashBytesCount |-> e.hash[i]]
      BY <2>2, <3>2
    <3> QED
      BY <2>1, <3>3 DEF HashBytes
  <2>5. Kept(e).local_pi = e.local_pi
    BY <2>3
  <2>6. suffix_start_idx = 0 => Kept(e) = e
    BY <2>1, <2>3, <2>4
  <2> QED
    BY <1>2, <2>5, <2>6 DEF ReadsAs
<1> QED
  BY <1>1, <1>2

LEMMA OrderReadBack ==
  ASSUME FilesInv, ~torn, format = "order", NEW s \in Streams, Good(s), NEW m \in Nat,
         s.pos = entry_bytes * m, s.pos + entry_bytes <= Len(file)
  PROVE  ReadsAs(OrderEntryFrom(Available(s, pi_bytes_count),
                                Available(Read(s, pi_bytes_count), PrefixBytes(n))),
                 appended[(s.pos \div entry_bytes) + 1])
<1>1. PICK e \in OrderEntries : e = appended[m + 1]
  BY EntryAt DEF Entries
<1>2. s.pos \div entry_bytes = m
  BY EntryAt
<1>3. PICK c \in Nat : c = pi_bytes_count
  BY SizesAre DEF FilesInv
<1>4. PICK P \in Nat : P = PrefixBytes(n)
  BY SizesAre DEF FilesInv
<1>5. entry_bytes = c + P
  BY <1>3, <1>4 DEF entry_bytes
<1>6. PICK index : index = BytesOf(BitsOfNumber(e.local_pi), pi_bytes_count)
  OBVIOUS
<1>7. PICK prefix : prefix = BytesOf(PrefixField(e), PrefixBytes(n))
  OBVIOUS
<1>8. /\ index \in [1 .. c -> Byte] /\ prefix \in [1 .. P -> Byte]
      /\ OrderBytes(e) = index \o prefix
      /\ OrderEntryFrom(index, prefix) = e
  BY <1>3, <1>4, <1>6, <1>7, OrderEntryBack DEF FilesInv
<1>9. index \in Seq(Byte) /\ Len(index) = c /\ prefix \in Seq(Byte) /\ Len(prefix) = P
  BY <1>8, FunctionIsSeq
<1>10. \A j \in 1 .. c + P : file[s.pos + j] = (index \o prefix)[j]
  <2>1. \A j \in 1 .. entry_bytes : file[s.pos + j] = BytesOfEntry(e)[j]
    BY <1>1, EntryAt
  <2> QED
    BY <1>5, <1>8, <2>1 DEF BytesOfEntry
<1>11. file \in Seq(Byte) /\ s.pos + (c + P) <= Len(file)
  BY <1>5 DEF FilesInv
<1>12. Available(s, c) = index /\ Available(Read(s, c), P) = prefix
  <2>1. ThereAre(s, index, prefix)
    BY <1>9, <1>10, <1>11 DEF ThereAre
  <2>2. /\ index \in Seq(Byte) /\ prefix \in Seq(Byte) /\ c = Len(index) /\ P = Len(prefix)
        /\ file \in Seq(Byte) /\ s \in Streams /\ Good(s)
    BY <1>9, <1>11
  <2> QED
    BY ONLY <2>1, <2>2, TwoParts
<1>13. ReadsAs(e, e)
  <2>1. e \in Entries /\ Kept(e) = e
    BY DEF Entries, Kept
  <2> QED
    BY <2>1, KeptReads
<1> QED
  BY <1>1, <1>2, <1>3, <1>4, <1>8, <1>12, <1>13

LEMMA SuffixReadBack ==
  ASSUME FilesInv, ~torn, format = "suffixes", NEW s \in Streams, Good(s), NEW m \in Nat,
         s.pos = entry_bytes * m, s.pos + entry_bytes <= Len(file)
  PROVE  ReadsAs(SuffixEntryFrom(Available(s, SuffixBytes(n)),
                                 Available(Read(s, SuffixBytes(n)), pi_bytes_count)),
                 appended[(s.pos \div entry_bytes) + 1])
<1>1. PICK e \in SuffixEntries : e = appended[m + 1]
  BY EntryAt DEF Entries
<1>2. s.pos \div entry_bytes = m
  BY EntryAt
<1>3. PICK c \in Nat : c = pi_bytes_count
  BY SizesAre DEF FilesInv
<1>4. PICK Q \in Nat : Q = SuffixBytes(n)
  BY SizesAre, SizesArePositive DEF FilesInv
<1>5. entry_bytes = Q + c
  BY <1>3, <1>4 DEF entry_bytes
<1>6. PICK index : index = BytesOf(BitsOfNumber(e.local_pi), pi_bytes_count)
  OBVIOUS
<1>7. PICK tail : tail = SubSeq(e.hash, suffix_start_idx + 1, HashBytesCount)
  OBVIOUS
<1>8. /\ index \in [1 .. c -> Byte] /\ tail \in Seq(Byte) /\ Len(tail) = Q
      /\ SuffixEntryFrom(tail, index) = Kept(e)
  BY <1>3, <1>4, <1>6, <1>7, SuffixEntryBack DEF FilesInv
<1>9. index \in Seq(Byte) /\ Len(index) = c
  BY <1>8, FunctionIsSeq
<1>10. \A j \in 1 .. Q + c : file[s.pos + j] = (tail \o index)[j]
  <2>1. \A j \in 1 .. entry_bytes : file[s.pos + j] = BytesOfEntry(e)[j]
    BY <1>1, EntryAt
  <2>2. BytesOfEntry(e) = tail \o index
    BY <1>6, <1>7 DEF BytesOfEntry, SuffixEntryBytes
  <2> QED
    BY <1>5, <2>1, <2>2
<1>11. file \in Seq(Byte) /\ s.pos + (Q + c) <= Len(file)
  BY <1>5 DEF FilesInv
<1>12. Available(s, Q) = tail /\ Available(Read(s, Q), c) = index
  <2>1. ThereAre(s, tail, index)
    BY <1>8, <1>9, <1>10, <1>11 DEF ThereAre
  <2>2. /\ tail \in Seq(Byte) /\ index \in Seq(Byte) /\ Q = Len(tail) /\ c = Len(index)
        /\ file \in Seq(Byte) /\ s \in Streams /\ Good(s)
    BY <1>8, <1>9, <1>11
  <2> QED
    BY ONLY <2>1, <2>2, TwoParts
<1>13. ReadsAs(Kept(e), e)
  <2>1. e \in Entries
    BY DEF Entries
  <2> QED
    BY <2>1, KeptReads
<1> QED
  BY <1>1, <1>2, <1>3, <1>4, <1>8, <1>12, <1>13

-----------------------------------------------------------------------------
(* The reader's calls.                                                     *)

LEMMA ReadBoth ==
  ASSUME file \in Seq(Byte), NEW s \in Streams, Good(s), NEW a \in Nat, NEW b \in Nat,
         s.pos + (a + b) <= Len(file)
  PROVE  Read(s, a) = Advanced(s, a) /\ Read(Read(s, a), b) = Advanced(s, a + b)
<1>1. PICK l \in Nat : l = Len(file)
  OBVIOUS
<1>2. PICK p \in Nat : p = s.pos
  BY DEF Streams
<1>3. Fits(s, a)
  BY <1>1, <1>2 DEF Fits
<1>4. PICK t \in Streams : t = Advanced(s, a) /\ Good(t) /\ t.pos = p + a
  BY <1>2, AdvancedIs
<1>5. Read(s, a) = t
  BY <1>3, <1>4, ReadIs
<1>6. Fits(t, b)
  BY <1>1, <1>2, <1>4 DEF Fits
<1>7. Read(t, b) = Advanced(t, b)
  BY <1>6, ReadIs
<1>8. Advanced(t, b) = Advanced(s, a + b)
  <2>1. (p + a) + b = p + (a + b)
    OBVIOUS
  <2> QED
    BY <1>2, <1>4, <2>1 DEF Advanced
<1> QED
  BY <1>4, <1>5, <1>7, <1>8

\* What a call of the reader owes: the stream is broken or at the beginning
\* of an entry, and an entry returned is the one appended.
Called ==
    /\ reader' \in Streams
    /\ ~reader'.fail => \E m \in Nat : reader'.pos = entry_bytes * m
    /\ got'.found /\ ~torn => /\ got'.whole => ReadsAs(got'.entry, appended[got'.index + 1])
                              /\ format = "suffixes" => got'.whole
    /\ format = "order" /\ Good(reader) /\ (got'.found => got'.whole) => ~reader'.fail

LEMMA NothingIs == ~Nothing.found
  BY DEF Nothing

LEMMA FoundIs ==
  ASSUME NEW s \in Streams, NEW entry
  PROVE  /\ Found(s, entry).found
         /\ Found(s, entry).whole <=> s.pos + entry_bytes <= Len(file)
         /\ Found(s, entry).index = s.pos \div entry_bytes
         /\ Found(s, entry).entry = entry
  BY DEF Found

LEMMA SeekCalled ==
  ASSUME FilesInv, ReaderInv, seek_entry
  PROVE  Called
<1>1. PICK size \in Nat \ {0} : size = entry_bytes
  BY SizesAre DEF FilesInv
<1>2. reader \in Streams
  BY DEF ReaderInv, seek_entry
<1>3. PICK index \in Nat : reader' = Sought(reader, index)
  <2>1. appended \in Seq(Entries)
    BY DEF FilesInv
  <2>2. 0 .. Len(appended) \subseteq Nat
    BY <2>1
  <2> QED
    BY <2>2 DEF seek_entry
<1>4. ~got'.found
  BY NothingIs DEF seek_entry
<1>5. PICK to \in Nat : to = index * size /\ to = size * index
  BY Z3
<1>6. PICK s \in Streams : s = (IF format = "order" THEN reader ELSE Clear(reader))
                           /\ (format = "order" => s = reader)
  <2>1. Clear(reader) = [pos |-> reader.pos, eof |-> FALSE, fail |-> FALSE]
    BY <1>2, StreamsMove
  <2>2. Clear(reader) \in Streams
    BY <1>2, <2>1 DEF Streams
  <2> QED
    BY <1>2, <2>2
<1>7. reader' = [pos |-> IF s.fail THEN s.pos ELSE to, eof |-> FALSE, fail |-> s.fail]
  <2>1. reader' = SeekG(s, to)
    BY <1>1, <1>3, <1>5, <1>6 DEF Sought
  <2>2. SeekG(s, to) = [pos |-> IF s.fail THEN s.pos ELSE to, eof |-> FALSE, fail |-> s.fail]
    BY StreamsMove
  <2> QED
    BY <2>1, <2>2
<1>8. reader' \in Streams
  BY <1>7 DEF Streams
<1>9. ~reader'.fail => reader'.pos = size * index
  BY <1>5, <1>7
<1>10. format = "order" /\ Good(reader) => ~reader'.fail
  BY <1>6, <1>7 DEF Good
<1> QED
  BY <1>1, <1>4, <1>8, <1>9, <1>10 DEF Called

LEMMA LookCalled ==
  ASSUME FilesInv, ReaderInv, has_more
  PROVE  Called
<1>1. reader \in Streams /\ reader # NoReader
  BY DEF ReaderInv, has_more
<1>2. reader' = Looked(reader) /\ ~got'.found
  BY NothingIs DEF has_more
<1>3. ~reader.fail => \E m \in Nat : reader.pos = entry_bytes * m
  BY <1>1 DEF ReaderInv
<1>4. CASE format = "order"
  <2>1. reader' = Peek(reader)
    BY <1>2, <1>4 DEF Looked
  <2>2. reader' \in Streams /\ reader'.pos = reader.pos
    BY <1>1, <2>1, StreamsMove
  <2>3. ~Good(reader) => reader'.fail
    BY <1>1, <2>1, StreamsMove
  <2>4. Good(reader) => ~reader'.fail /\ ~reader.fail
    BY <1>1, <2>1, StreamsMove DEF Good
  <2> QED
    BY <1>2, <1>3, <2>2, <2>3, <2>4 DEF Called
<1>5. CASE format # "order"
  <2>1. reader' = reader \/ (~reader.fail /\ reader' = Clear(reader))
    BY <1>2, <1>5 DEF Looked
  <2>2. Clear(reader) = [pos |-> reader.pos, eof |-> FALSE, fail |-> FALSE]
    BY <1>1, StreamsMove
  <2>3. Clear(reader) \in Streams /\ Clear(reader).pos = reader.pos
    BY <1>1, <2>2 DEF Streams
  <2> QED
    BY <1>1, <1>2, <1>3, <1>5, <2>1, <2>3 DEF Called
<1> QED
  BY <1>4, <1>5

\* The entry behind one that begins where entries begin.
LEMMA NextEntry ==
  ASSUME NEW size \in Nat \ {0}, NEW s \in Streams, NEW m \in Nat, s.pos = size * m
  PROVE  \E k \in Nat : Advanced(s, size).pos = size * k
<1>1. size * (m + 1) = size * m + size
  BY Z3
<1>2. Advanced(s, size).pos = size * (m + 1)
  BY <1>1 DEF Advanced
<1> QED
  BY <1>2

LEMMA OrderCalled ==
  ASSUME FilesInv, ReaderInv, reader # NoReader, format = "order", read_next_order
  PROVE  Called
<1>1. PICK s \in Streams : s = reader
  BY DEF ReaderInv
<1>2. PICK c \in Nat \ {0} : c = pi_bytes_count
  BY SizesAre DEF FilesInv
<1>3. PICK P \in Nat : P = PrefixBytes(n)
  BY SizesAre DEF FilesInv
<1>4. PICK size \in Nat \ {0} : size = entry_bytes /\ size = c + P
  <2>1. entry_bytes \in Nat \ {0}
    BY SizesAre DEF FilesInv
  <2>2. entry_bytes = c + P
    BY <1>2, <1>3 DEF entry_bytes
  <2> QED
    BY <2>1, <2>2
<1>5. ~s.fail => \E m \in Nat : s.pos = size * m
  BY <1>1, <1>4 DEF ReaderInv
<1>6. file \in Seq(Byte)
  BY DEF FilesInv
<1>7. CASE ~Good(Peek(s))
  <2>1. reader' = Peek(s) /\ ~got'.found
    BY <1>1, <1>7, NothingIs DEF read_next_order
  <2>2. reader' \in Streams /\ reader'.pos = s.pos
    BY <2>1, StreamsMove
  <2>3. ~Good(s) => reader'.fail
    BY <2>1, StreamsMove
  <2>4. Good(s) => ~reader'.fail /\ ~s.fail
    BY <2>1, StreamsMove DEF Good
  <2> QED
    BY <1>1, <1>4, <1>5, <2>1, <2>2, <2>3, <2>4 DEF Called
<1>8. CASE Good(Peek(s))
  <2>1. Good(s) /\ Peek(s) = s
    <3>1. ~Good(s) => Peek(s).fail
      BY StreamsMove
    <3>2. Good(s)
      BY <1>8, <3>1 DEF Good
    <3>3. Peek(s) = [pos |-> s.pos, eof |-> AtEnd(s), fail |-> FALSE]
      BY <3>2, StreamsMove
    <3>4. AtEnd(s) = FALSE
      <4>1. AtEnd(s) \in BOOLEAN
        BY DEF AtEnd
      <4>2. Peek(s).eof = AtEnd(s)
        BY <3>3
      <4>3. ~AtEnd(s)
        BY <1>8, <4>2 DEF Good
      <4> QED
        BY <4>1, <4>3
    <3>5. s = [pos |-> s.pos, eof |-> FALSE, fail |-> FALSE]
      <4>1. PICK p \in Nat : \E e, f \in BOOLEAN : s = [pos |-> p, eof |-> e, fail |-> f]
        BY StreamIs
      <4>2. PICK e \in BOOLEAN, f \in BOOLEAN : s = [pos |-> p, eof |-> e, fail |-> f]
        BY <4>1
      <4>3. e = FALSE /\ f = FALSE
        BY <3>2, <4>2 DEF Good
      <4> QED
        BY <4>2, <4>3
    <3> QED
      BY <3>2, <3>3, <3>4, <3>5
  <2>2. PICK second \in Streams : second = Read(s, c)
    BY <1>6, ReadIs
  <2>3. PICK entry : entry = OrderEntryFrom(Available(s, c), Available(second, P))
    OBVIOUS
  <2>4. /\ reader' = IF P > 0 THEN Read(second, P) ELSE second
        /\ got' = Found(s, entry)
    BY <1>1, <1>2, <1>3, <1>8, <2>1, <2>2, <2>3 DEF read_next_order
  <2>5. reader' \in Streams
    BY <1>6, <2>2, <2>4, ReadIs
  <2>6. ~reader'.fail => reader' = Advanced(s, size)
    <3>1. CASE P > 0
      BY <1>4, <1>6, <2>2, <2>4, <3>1, ReadTwice
    <3>2. CASE P = 0
      <4>1. reader' = Read(s, c) /\ size = c
        BY <1>4, <2>2, <2>4, <3>2
      <4> QED
        BY <1>6, <4>1, ReadIs
    <3> QED
      BY <3>1, <3>2
  <2>7. PICK m \in Nat : s.pos = size * m
    BY <1>5, <2>1 DEF Good
  <2>8. ~reader'.fail => \E k \in Nat : reader'.pos = size * k
    BY <2>6, <2>7, NextEntry
  <2>9. got'.whole <=> s.pos + size <= Len(file)
    BY <1>4, <2>4, FoundIs
  <2>10. got'.found /\ got'.index = s.pos \div size /\ got'.entry = entry
    BY <1>4, <2>4, FoundIs
  <2>11. got'.whole => ~reader'.fail
    <3>1. SUFFICES ASSUME got'.whole PROVE ~reader'.fail
      OBVIOUS
    <3>2. s.pos + (c + P) <= Len(file)
      BY <1>4, <2>9, <3>1
    <3>3. second = Advanced(s, c) /\ Read(second, P) = Advanced(s, c + P)
      BY <1>6, <2>1, <2>2, <3>2, ReadBoth
    <3>4. ~Advanced(s, c).fail /\ ~Advanced(s, c + P).fail
      BY AdvancedIs
    <3> QED
      BY <2>4, <3>3, <3>4
  <2>12. ~torn /\ got'.whole => ReadsAs(entry, appended[(s.pos \div size) + 1])
    <3>1. SUFFICES ASSUME ~torn, got'.whole
                   PROVE  ReadsAs(entry, appended[(s.pos \div size) + 1])
      OBVIOUS
    <3>2. s.pos + entry_bytes <= Len(file) /\ s.pos = entry_bytes * m
      BY <1>4, <2>7, <2>9, <3>1
    <3> QED
      BY <1>2, <1>3, <1>4, <2>1, <2>2, <2>3, <3>1, <3>2, OrderReadBack
  <2> QED
    BY <1>1, <1>4, <2>5, <2>8, <2>10, <2>11, <2>12 DEF Called
<1> QED
  BY <1>7, <1>8

LEMMA SuffixCalled ==
  ASSUME FilesInv, ReaderInv, reader # NoReader, format = "suffixes", read_next_suffix
  PROVE  Called
<1>1. PICK s \in Streams : s = reader
  BY DEF ReaderInv
<1>2. PICK c \in Nat \ {0} : c = pi_bytes_count
  BY SizesAre DEF FilesInv
<1>3. PICK Q \in Nat : Q = SuffixBytes(n)
  BY SizesAre, SizesArePositive DEF FilesInv
<1>4. PICK size \in Nat \ {0} : size = entry_bytes /\ size = Q + c
  <2>1. entry_bytes \in Nat \ {0}
    BY SizesAre DEF FilesInv
  <2>2. entry_bytes = Q + c
    BY <1>2, <1>3 DEF entry_bytes
  <2> QED
    BY <2>1, <2>2
<1>5. ~s.fail => \E m \in Nat : s.pos = size * m
  BY <1>1, <1>4 DEF ReaderInv
<1>6. file \in Seq(Byte)
  BY DEF FilesInv
<1>7. CASE s.fail
  <2>1. reader' = s /\ ~got'.found
    BY <1>1, <1>7, NothingIs DEF read_next_suffix
  <2> QED
    BY <1>7, <2>1 DEF Called
<1>8. CASE ~s.fail /\ Len(Available(s, Q)) < Q
  <2>1. reader' = Read(s, Q) /\ ~got'.found
    BY <1>1, <1>3, <1>8, NothingIs DEF read_next_suffix
  <2>2. ~Fits(s, Q)
    <3>1. Fits(s, Q) => Len(Available(s, Q)) = Q
      BY <1>6, ReadIs
    <3> QED
      BY <1>8, <3>1
  <2>3. reader' \in Streams /\ reader'.fail
    BY <1>6, <2>1, <2>2, ReadIs
  <2> QED
    BY <2>1, <2>3 DEF Called
<1>9. CASE ~s.fail /\ ~(Len(Available(s, Q)) < Q)
  <2>1. PICK second \in Streams : second = Read(s, Q)
    BY <1>6, ReadIs
  <2>2. PICK entry : entry = SuffixEntryFrom(Available(s, Q), Available(second, c))
    OBVIOUS
  <2>3. /\ reader' = Read(second, c)
        /\ got' = IF Len(Available(second, c)) < c THEN Nothing ELSE Found(s, entry)
    BY <1>1, <1>2, <1>3, <1>9, <2>1, <2>2 DEF read_next_suffix
  <2>4. reader' \in Streams
    BY <1>6, <2>1, <2>3, ReadIs
  <2>5. PICK m \in Nat : s.pos = size * m
    BY <1>5, <1>9
  <2>6. ~reader'.fail => reader' = Advanced(s, size)
    BY <1>4, <1>6, <2>1, <2>3, ReadTwice
  <2>7. ~reader'.fail => \E k \in Nat : reader'.pos = size * k
    BY <2>5, <2>6, NextEntry
  <2>8. got'.found => Good(s) /\ s.pos + size <= Len(file) /\ got' = Found(s, entry)
    <3>1. SUFFICES ASSUME got'.found
                   PROVE  Good(s) /\ s.pos + size <= Len(file) /\ got' = Found(s, entry)
      OBVIOUS
    <3>2. ~(Len(Available(second, c)) < c) /\ got' = Found(s, entry)
      BY <2>3, <3>1, NothingIs
    <3>3. Fits(second, c)
      BY <1>6, <3>2, ReadIs
    <3>4. ~Read(second, c).fail
      BY <1>6, <3>3, ReadIs, AdvancedIs
    <3>5. Good(s) /\ Fits(Advanced(s, Q), c)
      BY <1>6, <2>1, <3>4, ReadTwice
    <3>6. PICK p \in Nat : p = s.pos
      BY DEF Streams
    <3>7. (p + Q) + c <= Len(file)
      BY <3>5, <3>6 DEF Fits, Advanced
    <3>8. PICK l \in Nat : l = Len(file)
      BY <1>6
    <3>9. p + size <= l
      BY <1>4, <3>7, <3>8
    <3> QED
      BY <3>2, <3>5, <3>6, <3>8, <3>9
  <2>9. got'.found => got'.whole
    BY <1>4, <2>8, FoundIs
  <2>10. got'.found => got'.index = s.pos \div size /\ got'.entry = entry
    BY <1>4, <2>8, FoundIs
  <2>11. ~torn /\ got'.found => ReadsAs(entry, appended[(s.pos \div size) + 1])
    <3>1. SUFFICES ASSUME ~torn, got'.found
                   PROVE  ReadsAs(entry, appended[(s.pos \div size) + 1])
      OBVIOUS
    <3>2. Good(s) /\ s.pos + entry_bytes <= Len(file) /\ s.pos = entry_bytes * m
      BY <1>4, <2>5, <2>8, <3>1
    <3> QED
      BY <1>2, <1>3, <1>4, <2>1, <2>2, <3>1, <3>2, SuffixReadBack
  <2> QED
    BY <1>4, <2>4, <2>7, <2>9, <2>10, <2>11 DEF Called
<1> QED
  BY <1>7, <1>8, <1>9

-----------------------------------------------------------------------------
(* What is read is what was appended.                                      *)

LEMMA NoReaderIsNone == NoReader \notin Streams
  BY DEF NoReader, Streams

LEMMA CallsAre ==
  ASSUME FilesInv, ReaderInv, seek_entry \/ has_more \/ read_next
  PROVE  Called /\ UNCHANGED <<format, n, file, writer, buffer, appended, torn>> /\ reader # NoReader
<1>1. CASE seek_entry
  BY <1>1, SeekCalled DEF seek_entry
<1>2. CASE has_more
  BY <1>2, LookCalled DEF has_more
<1>3. CASE read_next
  <2>1. reader # NoReader /\ IF format = "order" THEN read_next_order ELSE read_next_suffix
    BY <1>3 DEF read_next
  <2>2. UNCHANGED <<format, n, file, writer, buffer, appended, torn>>
    BY <1>3 DEF read_next
  <2>3. format \in {"order", "suffixes"}
    BY DEF FilesInv
  <2>4. Called
    <3>1. CASE format = "order"
      BY <2>1, <3>1, OrderCalled
    <3>2. CASE format = "suffixes"
      BY <2>1, <3>2, SuffixCalled
    <3> QED
      BY <2>3, <3>1, <3>2
  <2> QED
    BY <2>1, <2>2, <2>4
<1> QED
  BY <1>1, <1>2, <1>3

\* Every entry returned since the last call is what the file keeps of the
\* entry appended in its place.
EntriesKept ==
    got.found /\ ~torn =>
        /\ got.whole => ReadsAs(got.entry, appended[got.index + 1])
        /\ format = "suffixes" => got.whole

LEMMA StreamsInit == Init => ReaderInv /\ EntriesKept
  BY NothingIs DEF Init, ReaderInv, EntriesKept

LEMMA NextKeepsStreams ==
  ASSUME FilesInv, ReaderInv, EntriesKept, [Next]_vars
  PROVE  ReaderInv' /\ EntriesKept'
<1>1. CASE seek_entry \/ has_more \/ read_next
  <2>1. Called /\ UNCHANGED <<format, n, file, writer, buffer, appended, torn>>
    BY <1>1, CallsAre
  <2>2. entry_bytes' = entry_bytes
    BY <2>1, SameCodec
  <2>3. reader' # NoReader
    BY <2>1, NoReaderIsNone DEF Called
  <2>4. ReaderInv'
    BY <2>1, <2>2, <2>3 DEF Called, ReaderInv, NoReader, Nothing
  <2>5. EntriesKept'
    BY <2>1 DEF Called, EntriesKept, ReadsAs, Kept, suffix_start_idx
  <2> QED
    BY <2>4, <2>5
<1>2. CASE append \/ drain \/ close_writer \/ close_reader \/ crash
  <2>1. got' = Nothing /\ (reader' = reader \/ reader' = NoReader) /\ UNCHANGED <<format, n>>
    BY <1>2 DEF append, drain, close_writer, close_reader, crash
  <2>2. entry_bytes' = entry_bytes
    BY <2>1, SameCodec
  <2>3. ReaderInv'
    BY <2>1, <2>2 DEF ReaderInv, NoReader, Nothing
  <2> QED
    BY <2>1, <2>3, NothingIs DEF EntriesKept
<1>3. CASE create_empty \/ open_writer \/ UNCHANGED vars
  <2>1. UNCHANGED <<format, n, reader, got>>
    BY <1>3 DEF create_empty, open_writer, vars
  <2>2. entry_bytes' = entry_bytes
    BY <2>1, SameCodec
  <2>3. ReaderInv'
    BY <2>1, <2>2 DEF ReaderInv, NoReader, Nothing
  <2>4. EntriesKept'
    <3>1. CASE create_empty
      <4>1. got' = Nothing
        BY <2>1, <3>1 DEF create_empty, ReaderInv
      <4> QED
        BY <4>1, NothingIs DEF EntriesKept
    <3>2. CASE open_writer \/ UNCHANGED vars
      <4>1. UNCHANGED <<format, n, appended, got, torn>>
        BY <3>2 DEF open_writer, vars
      <4> QED
        BY <4>1 DEF EntriesKept, ReadsAs, Kept, suffix_start_idx
    <3> QED
      BY <1>3, <3>1, <3>2
  <2> QED
    BY <2>3, <2>4
<1>4. CASE open_reader
  <2>1. /\ UNCHANGED <<format, n, got, appended, torn>> /\ reader' = [NoReader EXCEPT !.pos = 0]
        /\ got = Nothing
    BY <1>4 DEF open_reader, ReaderInv
  <2>2. entry_bytes' = entry_bytes /\ entry_bytes \in Nat \ {0}
    BY <2>1, SameCodec, SizesAre DEF FilesInv
  <2>3. reader' = [pos |-> 0, eof |-> FALSE, fail |-> FALSE]
    BY <2>1 DEF NoReader
  <2>4. entry_bytes * 0 = 0
    BY <2>2
  <2>5. reader' \in Streams /\ reader'.pos = 0
    BY <2>3 DEF Streams
  <2>6. reader' # NoReader
    BY <2>5, NoReaderIsNone
  <2>7. ReaderInv'
    BY <2>2, <2>4, <2>5, <2>6 DEF ReaderInv, NoReader, Nothing
  <2> QED
    BY <2>1, <2>7, NothingIs DEF EntriesKept
<1> QED
  BY <1>1, <1>2, <1>3, <1>4 DEF Next

LEMMA StreamsKept == Spec => [](FilesInv /\ ReaderInv /\ EntriesKept)
<1>1. Init => FilesInv /\ ReaderInv /\ EntriesKept
  BY FilesInit, StreamsInit
<1>2. /\ FilesInv /\ ReaderInv /\ EntriesKept
      /\ [Next]_vars
      => (FilesInv /\ ReaderInv /\ EntriesKept)'
  BY NextKeepsFiles, NextKeepsStreams
<1> QED
  BY <1>1, <1>2, PTL DEF Spec

\* An entry that is wholly in the file is read back under the local index it
\* was appended with - all of it in the order file, and in a suffix file
\* whose entries have room for the whole hash - however the writer's buffer was
\* drained, the writer crashed or the reader was moved, as long as no crash
\* has cut an entry; and the reader of suffixes returns no entry that is not
\* wholly there.
THEOREM EntriesAreReadBack == Spec => []EntriesReadBack
<1>1. EntriesKept => EntriesReadBack
  BY DEF EntriesKept, EntriesReadBack, ReadsAs
<1> QED
  BY <1>1, StreamsKept, PTL

\* The reader's stream is not lost at the end of the file.
THEOREM SeeksRecover == Spec => SeekRecovers
<1> DEFINE P == /\ reader # NoReader /\ reader' # NoReader
                /\ format = "suffixes" \/ (Good(reader) /\ (got'.found => got'.whole))
<1>1. ASSUME FilesInv, ReaderInv, ReaderInv', [Next]_vars, P
      PROVE  Good(Sought(reader', 0))
  <2>1. PICK s \in Streams : s = reader'
    BY <1>1 DEF ReaderInv
  <2>2. PICK t \in Streams : t = reader
    BY <1>1 DEF ReaderInv
  <2>3. format = "order" => ~s.fail
    <3>1. SUFFICES ASSUME format = "order" PROVE ~s.fail
      OBVIOUS
    <3>2. Good(reader) /\ (got'.found => got'.whole)
      BY <1>1, <3>1
    <3>3. CASE seek_entry \/ has_more \/ read_next
      BY <1>1, <2>1, <3>1, <3>2, <3>3, CallsAre DEF Called
    <3>4. CASE ~(seek_entry \/ has_more \/ read_next)
      <4>1. reader' = reader
        BY <1>1, <3>4 DEF Next, create_empty, open_writer, append, drain, close_writer, crash,
                          open_reader, close_reader, vars
      <4> QED
        BY <2>1, <3>2, <4>1 DEF Good
    <3> QED
      BY <3>3, <3>4
  <2>4. PICK to \in Nat : to = 0 * entry_bytes
    BY <1>1, SizesAre DEF FilesInv
  <2>5. CASE format = "order"
    <3>1. SeekG(s, to) = [pos |-> IF s.fail THEN s.pos ELSE to, eof |-> FALSE, fail |-> s.fail]
      BY StreamsMove
    <3>2. Sought(reader', 0) = SeekG(s, to)
      BY <2>1, <2>4, <2>5 DEF Sought
    <3> QED
      BY <2>3, <2>5, <3>1, <3>2 DEF Good
  <2>6. CASE format # "order"
    <3>1. PICK c \in Streams : c = Clear(s) /\ ~c.fail
      <4>1. Clear(s) = [pos |-> s.pos, eof |-> FALSE, fail |-> FALSE]
        BY StreamsMove
      <4>2. Clear(s) \in Streams /\ ~Clear(s).fail
        BY <4>1 DEF Streams
      <4> QED
        BY <4>2
    <3>2. SeekG(c, to) = [pos |-> IF c.fail THEN c.pos ELSE to, eof |-> FALSE, fail |-> c.fail]
      BY StreamsMove
    <3>3. Sought(reader', 0) = SeekG(c, to)
      BY <2>1, <2>4, <2>6, <3>1 DEF Sought
    <3> QED
      BY <3>1, <3>2, <3>3 DEF Good
  <2> QED
    BY <2>5, <2>6
<1>2. FilesInv /\ ReaderInv /\ ReaderInv' /\ [Next]_vars
      => [P => Good(Sought(reader', 0))]_vars
  BY <1>1
<1> QED
  BY <1>2, StreamsKept, PTL DEF Spec, SeekRecovers, P

=============================================================================

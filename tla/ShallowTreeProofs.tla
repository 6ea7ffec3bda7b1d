-------------------------- MODULE ShallowTreeProofs --------------------------
(***************************************************************************)
(* What holds of ShallowTree for hashes of any size, any number of them,   *)
(* any tail and any number of reassurance bytes.  The invariant says what  *)
(* is under a key: the span of a call holds just the items that match its  *)
(* key, a leaf is the one presentation that matches it, and whatever       *)
(* matches a node with slots matches one that its slot leads to.           *)
(***************************************************************************)
EXTENDS ShallowTree, FiniteSetTheorems, WellFoundedInduction, TLAPS

Items == [hash : Hashes, presentation_index : Nat]

Keys == UNION {[D -> Bytes] : D \in SUBSET Unused}

Matches(h, key) == \A b \in DOMAIN key : h[b] = key[b]

IsLeaf(key) == nodes[key].kind = "leaf"
IsSlots(key) == nodes[key].kind = "slots"

CallKeys == {c.key : c \in calls}
LeafKeys == {k \in DOMAIN nodes : IsLeaf(k)}
SlotKeys == {k \in DOMAIN nodes : IsSlots(k)}

\* The keys of the nodes there are or will be, and those without a split so far.
Known == DOMAIN nodes \cup CallKeys
Ends == LeafKeys \cup CallKeys

-----------------------------------------------------------------------------
\* The inductive invariant

TypeInv ==
    /\ ls_tail_bits_count \in Nat
    /\ reassurance_bytes_count \in Nat \ {0}
    /\ presented \in Seq(Items)
    /\ \A i \in DOMAIN presented : presented[i].presentation_index = i - 1
    /\ state \in {"unbuilt", "building", "built", "duplicate", "invalid_argument"}
    /\ DOMAIN nodes \subseteq Keys
    /\ IsFiniteSet(DOMAIN nodes)
    /\ \A k \in DOMAIN nodes : IsLeaf(k) \/ IsSlots(k)
    /\ calls \subseteq [key : Keys, from : Nat, to : Nat]
    /\ IsFiniteSet(calls)

\* The span holds what was presented, in another order.
SpanInv ==
    /\ input \in Seq(Items)
    /\ Len(input) = Len(presented)
    /\ \A p \in DOMAIN input : \E i \in DOMAIN presented : input[p] = presented[i]
    /\ \A i \in DOMAIN presented : \E p \in DOMAIN input : input[p] = presented[i]
    /\ \A p, q \in DOMAIN input : input[p] = input[q] => p = q

StateInv ==
    /\ state \in {"building", "built"} => HandledBytes <= HashBytesCount
    /\ state = "building" => presented # << >>
    /\ state # "building" => calls = {}
    /\ state = "unbuilt" => DOMAIN nodes = {} /\ input = presented
    /\ presented = << >> => DOMAIN nodes = {}
    /\ state = "duplicate" => Indistinguishable

CallsInv ==
    /\ \A c \in calls : 1 <= c.from /\ c.from < c.to /\ c.to <= Len(input)
    /\ \A c \in calls : \A p \in DOMAIN input : p \in Span(c) <=> Matches(input[p].hash, c.key)
    /\ \A c, d \in calls : c.key = d.key => c = d
    /\ CallKeys \cap DOMAIN nodes = {}

IsLeafOf(k, i) == nodes[k] = Leaf(presented[i], Left(k))

LeavesInv ==
    \A k \in LeafKeys : \E i \in DOMAIN presented :
        /\ IsLeafOf(k, i)
        /\ \A j \in DOMAIN presented : Matches(presented[j].hash, k) <=> j = i

SlotsInv ==
    \A k \in SlotKeys :
        /\ nodes[k].hash_byte_index \in Left(k)
        /\ \A i \in DOMAIN presented :
             Matches(presented[i].hash, k) =>
                Under(k, nodes[k].hash_byte_index,
                      presented[i].hash[nodes[k].hash_byte_index]) \in Known

\* What a presentation matches leads to the end that it matches.
EndsInv ==
    \A i \in DOMAIN presented : \A k \in Ends : \A m \in Known :
        Matches(presented[i].hash, k) /\ Matches(presented[i].hash, m) =>
            DOMAIN m \subseteq DOMAIN k

\* Each split has made one more end at least.
CountInv == ~ Indistinguishable => Cardinality(SlotKeys) + 1 <= Cardinality(Ends)

RootInv ==
    presented # << >> /\ state \in {"building", "built"} => Root \in Known /\ CountInv

TreeInv ==
    /\ TypeInv
    /\ SpanInv
    /\ StateInv
    /\ CallsInv
    /\ LeavesInv
    /\ SlotsInv
    /\ EndsInv
    /\ RootInv

-----------------------------------------------------------------------------
\* Numbers, keys and settings

\* A set of natural numbers with a member has a least one.
LEMMA LeastNumber ==
  ASSUME NEW T \in SUBSET Nat, T # {}
  PROVE  \E m \in T : \A k \in T : m <= k
<1>1. PICK m \in T : \A k \in T : ~ (<< k, m >> \in OpToRel(<, Nat))
  BY NatLessThanWellFounded, WFMin
<1>2. \A k \in T : ~ (k < m)
  BY <1>1 DEF OpToRel
<1> QED
  BY <1>2

LEMMA MinIs ==
  ASSUME NEW T \in SUBSET Nat, T # {}
  PROVE  Min(T) \in T /\ \A k \in T : Min(T) <= k
<1>1. \E m \in T : \A k \in T : m <= k
  BY LeastNumber
<1> QED
  BY <1>1 DEF Min

\* What there is to examine.
LEMMA UnusedFacts ==
  ASSUME TypeInv
  PROVE  /\ HashBytesCount \in Nat \ {0}
         /\ HandledBytes \in Nat
         /\ Unused \subseteq 0 .. HashBytesCount - 1
         /\ Unused \subseteq Nat
         /\ IsFiniteSet(Unused)
         /\ Cardinality(Unused) \in Nat
         /\ Cardinality(Unused) <= HashBytesCount
         /\ Bytes \subseteq Nat /\ IsFiniteSet(Bytes)
<1>1. HashBytesCount \in Nat \ {0} /\ Bytes \subseteq 0 .. 255
  BY ShallowTreeAssumption
<1>2. HandledBytes \in Nat
  BY DEF TypeInv, HandledBytes
<1>3. Unused \subseteq 0 .. HashBytesCount - 1 /\ Unused \subseteq Nat
  BY <1>1, <1>2 DEF Unused
<1>4. /\ IsFiniteSet(0 .. HashBytesCount - 1)
      /\ Cardinality(0 .. HashBytesCount - 1) = HashBytesCount
  <2>1. HashBytesCount - 1 \in Int /\ 0 \in Int
    BY <1>1
  <2>2. IsFiniteSet(0 .. HashBytesCount - 1)
    BY <2>1, FS_Interval
  <2>3. Cardinality(0 .. HashBytesCount - 1)
          = IF 0 > HashBytesCount - 1 THEN 0 ELSE (HashBytesCount - 1) - 0 + 1
    BY <2>1, FS_Interval
  <2> QED
    BY <1>1, <2>2, <2>3
<1>5. IsFiniteSet(Unused) /\ Cardinality(Unused) <= HashBytesCount
  BY <1>3, <1>4, FS_Subset
<1>6. Cardinality(Unused) \in Nat
  BY <1>5, FS_CardinalityType
<1>7. IsFiniteSet(Bytes)
  <2>1. PICK from \in Int, to \in Int : from = 0 /\ to = 255
    OBVIOUS
  <2>2. IsFiniteSet(from .. to)
    BY FS_Interval
  <2> QED
    BY <1>1, <2>1, <2>2, FS_Subset
<1> QED
  BY <1>1, <1>2, <1>3, <1>5, <1>6, <1>7

LEMMA BytesAreNumbers == Bytes \subseteq Nat
<1>1. Bytes \subseteq 0 .. 255
  BY ShallowTreeAssumption
<1> QED
  BY <1>1

LEMMA KeyFacts ==
  ASSUME NEW k \in Keys
  PROVE  /\ DOMAIN k \subseteq Unused
         /\ k = [d \in DOMAIN k |-> k[d]]
         /\ \A d \in DOMAIN k : k[d] \in Bytes
<1>1. PICK D \in SUBSET Unused : k \in [D -> Bytes]
  BY DEF Keys
<1> QED
  BY <1>1

\* Two keys that examine the same bytes and match the same hash are one.
LEMMA MatchedKeysAreEqual ==
  ASSUME NEW k \in Keys, NEW m \in Keys, DOMAIN k = DOMAIN m,
         NEW h, Matches(h, k), Matches(h, m)
  PROVE  k = m
<1>1. k = [d \in DOMAIN k |-> k[d]] /\ m = [d \in DOMAIN m |-> m[d]]
  BY KeyFacts
<1>2. \A d \in DOMAIN k : k[d] = m[d]
  BY DEF Matches
<1> QED
  BY <1>1, <1>2

LEMMA RootFacts ==
  /\ Root \in Keys
  /\ DOMAIN Root = {}
  /\ \A h : Matches(h, Root)
  /\ Left(Root) = Unused
<1>1. Root \in [{} -> Bytes] /\ DOMAIN Root = {}
  BY DEF Root
<1> QED
  BY <1>1 DEF Keys, Matches, Left

\* The key of a slot.
LEMMA UnderFacts ==
  ASSUME NEW k \in Keys, NEW b \in Left(k), NEW v \in Bytes
  PROVE  /\ Under(k, b, v) \in Keys
         /\ DOMAIN Under(k, b, v) = DOMAIN k \cup {b}
         /\ Under(k, b, v)[b] = v
         /\ \A d \in DOMAIN k : Under(k, b, v)[d] = k[d]
<1>1. b \in Unused /\ b \notin DOMAIN k /\ DOMAIN k \subseteq Unused
      /\ \A d \in DOMAIN k : k[d] \in Bytes
  BY KeyFacts DEF Left
<1>2. DOMAIN Under(k, b, v) = DOMAIN k \cup {b} /\ Under(k, b, v)[b] = v
      /\ \A d \in DOMAIN k : Under(k, b, v)[d] = k[d]
  BY <1>1 DEF Under
<1>3. Under(k, b, v) \in [DOMAIN k \cup {b} -> Bytes]
  BY <1>1 DEF Under
<1>4. Under(k, b, v) \in Keys
  BY <1>1, <1>3 DEF Keys
<1> QED
  BY <1>2, <1>4

LEMMA UnderMatches ==
  ASSUME NEW k \in Keys, NEW b \in Left(k), NEW v \in Bytes, NEW h
  PROVE  Matches(h, Under(k, b, v)) <=> Matches(h, k) /\ h[b] = v
<1>1. b \notin DOMAIN k
  BY DEF Left
<1>2. /\ DOMAIN Under(k, b, v) = DOMAIN k \cup {b}
      /\ Under(k, b, v)[b] = v
      /\ \A d \in DOMAIN k : Under(k, b, v)[d] = k[d]
  BY UnderFacts
<1> QED
  BY <1>1, <1>2 DEF Matches

-----------------------------------------------------------------------------
\* bucket_partition_by_byte

\* The span of a call within the caller's array.
IsSpan(c, b) ==
    /\ input \in Seq(Items)
    /\ c.from \in Nat /\ c.to \in Nat
    /\ 1 <= c.from /\ c.from < c.to /\ c.to <= Len(input)
    /\ b \in 0 .. HashBytesCount - 1

Below(c, b, v) == {i \in Span(c) : input[i].hash[b] < v}

UpTo(c, b, v, i) == {j \in Bucket(c, b, v) : j <= i}

LEMMA SpanFacts ==
  ASSUME NEW c, NEW b, IsSpan(c, b)
  PROVE  /\ Span(c) \subseteq DOMAIN input
         /\ Span(c) \subseteq Nat
         /\ DOMAIN input = 1 .. Len(input) /\ Len(input) \in Nat
         /\ IsFiniteSet(Span(c))
         /\ Cardinality(Span(c)) = c.to - c.from + 1
         /\ \A p \in DOMAIN input : /\ input[p] \in Items
                                    /\ input[p].hash \in Hashes
                                    /\ input[p].hash[b] \in Bytes
                                    /\ input[p].hash[b] \in Nat
<1>1. DOMAIN input = 1 .. Len(input) /\ Len(input) \in Nat
  BY DEF IsSpan
<1>2. Span(c) \subseteq DOMAIN input /\ Span(c) \subseteq Nat
  BY <1>1 DEF IsSpan, Span
<1>3. IsFiniteSet(Span(c)) /\ Cardinality(Span(c)) = c.to - c.from + 1
  <2>1. PICK from \in Int, to \in Int : from = c.from /\ to = c.to
    BY DEF IsSpan
  <2>2. /\ IsFiniteSet(from .. to)
        /\ Cardinality(from .. to) = IF from > to THEN 0 ELSE to - from + 1
    BY FS_Interval
  <2>3. from < to /\ Span(c) = from .. to
    BY <2>1 DEF IsSpan, Span
  <2> QED
    BY <2>1, <2>2, <2>3
<1>4. ASSUME NEW p \in DOMAIN input
      PROVE  /\ input[p] \in Items
             /\ input[p].hash \in Hashes
             /\ input[p].hash[b] \in Bytes
             /\ input[p].hash[b] \in Nat
  <2>1. input[p] \in Items
    BY <1>1 DEF IsSpan
  <2>2. input[p].hash \in Hashes
    BY <2>1 DEF Items
  <2>3. input[p].hash[b] \in Bytes
    BY <2>2 DEF Hashes, IsSpan
  <2> QED
    BY <2>1, <2>2, <2>3, BytesAreNumbers
<1> QED
  BY <1>1, <1>2, <1>3, <1>4

\* How many items precede a bucket, and how many are in it.
LEMMA BucketFacts ==
  ASSUME NEW c, NEW b, IsSpan(c, b), NEW v \in Nat
  PROVE  /\ IsFiniteSet(Bucket(c, b, v)) /\ Count(c, b, v) \in Nat
         /\ Offset(c, b, v) \in Nat
         /\ c.from <= Offset(c, b, v) + 1
         /\ Offset(c, b, v) + Count(c, b, v) <= c.to
         /\ \A w \in Nat : v < w => Offset(c, b, v) + Count(c, b, v) <= Offset(c, b, w)
<1> DEFINE Between == Below(c, b, v) \cup Bucket(c, b, v)
<1>1. /\ Span(c) \subseteq DOMAIN input /\ IsFiniteSet(Span(c))
      /\ Cardinality(Span(c)) = c.to - c.from + 1
      /\ \A i \in Span(c) : input[i].hash[b] \in Nat
  BY SpanFacts
<1>2. c.from \in Nat /\ c.to \in Nat /\ 1 <= c.from
  BY DEF IsSpan
<1>3. \A w \in Nat : Below(c, b, w) \subseteq Span(c)
  BY DEF Below
<1>4. Bucket(c, b, v) \subseteq Span(c)
  BY DEF Bucket
<1>5. \A w \in Nat : /\ IsFiniteSet(Below(c, b, w)) /\ Cardinality(Below(c, b, w)) \in Nat
                     /\ Cardinality(Below(c, b, w)) <= Cardinality(Span(c))
  BY <1>1, <1>3, FS_Subset, FS_CardinalityType
<1>6. IsFiniteSet(Bucket(c, b, v)) /\ Count(c, b, v) \in Nat
  BY <1>1, <1>4, FS_Subset, FS_CardinalityType DEF Count
<1>7. IsFiniteSet(Between)
      /\ Cardinality(Between) = Cardinality(Below(c, b, v)) + Count(c, b, v)
  <2>1. Below(c, b, v) \cap Bucket(c, b, v) = {}
    BY <1>1 DEF Below, Bucket
  <2>2. /\ IsFiniteSet(Between)
        /\ Cardinality(Between)
             = Cardinality(Below(c, b, v)) + Cardinality(Bucket(c, b, v)) - Cardinality({})
    BY <1>5, <1>6, <2>1, FS_Union
  <2> QED
    BY <1>5, <1>6, <2>2, FS_EmptySet DEF Count
<1>8. Cardinality(Between) <= Cardinality(Span(c))
  <2>1. Between \subseteq Span(c)
    BY <1>3, <1>4
  <2> QED
    BY <1>1, <2>1, FS_Subset
<1>9. \A w \in Nat : v < w => Cardinality(Between) <= Cardinality(Below(c, b, w))
  <2> SUFFICES ASSUME NEW w \in Nat, v < w
               PROVE  Cardinality(Between) <= Cardinality(Below(c, b, w))
    OBVIOUS
  <2>1. Between \subseteq Below(c, b, w)
    BY <1>1 DEF Below, Bucket
  <2> QED
    BY <1>5, <2>1, FS_Subset
<1>10. \A w \in Nat : Offset(c, b, w) = c.from - 1 + Cardinality(Below(c, b, w))
  BY DEF Offset, Below
<1> HIDE DEF Between
<1>11. PICK low \in Nat : low = Cardinality(Below(c, b, v))
  BY <1>5
<1>12. Offset(c, b, v) = c.from - 1 + low /\ Cardinality(Between) = low + Count(c, b, v)
  BY <1>7, <1>10, <1>11
<1>13. \A w \in Nat : v < w => Offset(c, b, v) + Count(c, b, v) <= Offset(c, b, w)
  <2> SUFFICES ASSUME NEW w \in Nat, v < w
               PROVE  Offset(c, b, v) + Count(c, b, v) <= Offset(c, b, w)
    OBVIOUS
  <2>1. PICK high \in Nat : high = Cardinality(Below(c, b, w))
    BY <1>5
  <2>2. Offset(c, b, w) = c.from - 1 + high /\ low + Count(c, b, v) <= high
    BY <1>9, <1>10, <1>12, <2>1
  <2> QED
    BY <1>2, <1>6, <1>12, <2>2
<1>14. low + Count(c, b, v) <= c.to - c.from + 1
  BY <1>1, <1>8, <1>12
<1> QED
  BY <1>2, <1>6, <1>12, <1>13, <1>14

\* The place of an item is in the range of its bucket, and nobody else's.
LEMMA PlaceFacts ==
  ASSUME NEW c, NEW b, IsSpan(c, b), NEW i \in Span(c)
  PROVE  /\ Place(c, b, i) \in Span(c)
         /\ Offset(c, b, input[i].hash[b]) < Place(c, b, i)
         /\ Place(c, b, i) <= Offset(c, b, input[i].hash[b]) + Count(c, b, input[i].hash[b])
         /\ \A j \in Span(c) :
              i < j /\ input[i].hash[b] = input[j].hash[b] => Place(c, b, i) < Place(c, b, j)
<1>1. PICK v \in Nat : v = input[i].hash[b]
  BY SpanFacts
<1>2. Span(c) \subseteq Nat /\ c.from \in Nat /\ c.to \in Nat
  BY SpanFacts DEF IsSpan
<1>3. /\ IsFiniteSet(Bucket(c, b, v)) /\ Count(c, b, v) \in Nat /\ Offset(c, b, v) \in Nat
      /\ c.from <= Offset(c, b, v) + 1 /\ Offset(c, b, v) + Count(c, b, v) <= c.to
  BY BucketFacts
<1>4. Bucket(c, b, v) \subseteq Span(c) /\ i \in Bucket(c, b, v)
  BY <1>1 DEF Bucket
<1>5. \A j \in Span(c) : /\ IsFiniteSet(UpTo(c, b, v, j))
                         /\ Cardinality(UpTo(c, b, v, j)) \in Nat
                         /\ Cardinality(UpTo(c, b, v, j)) <= Count(c, b, v)
  <2>1. \A j \in Span(c) : UpTo(c, b, v, j) \subseteq Bucket(c, b, v)
    BY DEF UpTo
  <2> QED
    BY <1>3, <2>1, FS_Subset, FS_CardinalityType DEF Count
<1>6. Cardinality(UpTo(c, b, v, i)) # 0
  <2>1. i \in UpTo(c, b, v, i)
    BY <1>2, <1>4 DEF UpTo
  <2> QED
    BY <1>5, <2>1, FS_EmptySet
<1>7. \A j \in Span(c) : input[j].hash[b] = v =>
        Place(c, b, j) = Offset(c, b, v) + Cardinality(UpTo(c, b, v, j))
  BY DEF Place, UpTo
<1>8. PICK r \in Nat : r = Cardinality(UpTo(c, b, v, i))
  BY <1>5
<1>9. Place(c, b, i) = Offset(c, b, v) + r /\ r # 0 /\ r <= Count(c, b, v)
  BY <1>1, <1>5, <1>6, <1>7, <1>8
<1>10. Place(c, b, i) \in Span(c)
       /\ Offset(c, b, v) < Place(c, b, i)
       /\ Place(c, b, i) <= Offset(c, b, v) + Count(c, b, v)
  BY <1>2, <1>3, <1>9 DEF Span
<1>11. \A j \in Span(c) : i < j /\ v = input[j].hash[b] => Place(c, b, i) < Place(c, b, j)
  <2> SUFFICES ASSUME NEW j \in Span(c), i < j, v = input[j].hash[b]
               PROVE  Place(c, b, i) < Place(c, b, j)
    OBVIOUS
  <2>1. UpTo(c, b, v, i) \subseteq UpTo(c, b, v, j)
    BY <1>2, <1>4 DEF UpTo
  <2>2. j \in UpTo(c, b, v, j) /\ j \notin UpTo(c, b, v, i)
    BY <1>2 DEF UpTo, Bucket
  <2>3. Cardinality(UpTo(c, b, v, i)) <= Cardinality(UpTo(c, b, v, j))
        /\ Cardinality(UpTo(c, b, v, i)) # Cardinality(UpTo(c, b, v, j))
    BY <1>5, <2>1, <2>2, FS_Subset
  <2>4. PICK s \in Nat : s = Cardinality(UpTo(c, b, v, j))
    BY <1>5
  <2>5. Place(c, b, j) = Offset(c, b, v) + s /\ r < s
    BY <1>7, <1>8, <2>3, <2>4
  <2> QED
    BY <1>3, <1>9, <2>5
<1> QED
  BY <1>1, <1>10, <1>11

\* No two items have the same place, so that every place has its item.
LEMMA PlacesAreFilled ==
  ASSUME NEW c, NEW b, IsSpan(c, b)
  PROVE  /\ \A i, j \in Span(c) : Place(c, b, i) = Place(c, b, j) => i = j
         /\ \A p \in Span(c) : \E i \in Span(c) : Place(c, b, i) = p
<1> DEFINE f == [i \in Span(c) |-> Place(c, b, i)]
<1>1. \A i \in Span(c) : i \in Nat /\ input[i].hash[b] \in Nat /\ Place(c, b, i) \in Nat
  BY SpanFacts, PlaceFacts
<1>2. ASSUME NEW i \in Span(c), NEW j \in Span(c), input[i].hash[b] < input[j].hash[b]
      PROVE  Place(c, b, i) < Place(c, b, j)
  <2>1. PICK v \in Nat : v = input[i].hash[b]
    BY <1>1
  <2>2. PICK w \in Nat : w = input[j].hash[b]
    BY <1>1
  <2>3. /\ Offset(c, b, v) + Count(c, b, v) <= Offset(c, b, w)
        /\ Offset(c, b, v) \in Nat /\ Count(c, b, v) \in Nat /\ Offset(c, b, w) \in Nat
    BY <1>2, <2>1, <2>2, BucketFacts
  <2>4. Place(c, b, i) <= Offset(c, b, v) + Count(c, b, v)
    BY <2>1, PlaceFacts
  <2>5. Offset(c, b, w) < Place(c, b, j)
    BY <2>2, PlaceFacts
  <2> QED
    BY <1>1, <2>3, <2>4, <2>5
<1>3. ASSUME NEW i \in Span(c), NEW j \in Span(c), i < j, input[i].hash[b] = input[j].hash[b]
      PROVE  Place(c, b, i) < Place(c, b, j)
  BY <1>3, PlaceFacts
<1>4. ASSUME NEW i \in Span(c), NEW j \in Span(c), Place(c, b, i) = Place(c, b, j)
      PROVE  i = j
  <2>1. ~ (input[i].hash[b] < input[j].hash[b]) /\ ~ (input[j].hash[b] < input[i].hash[b])
    BY <1>1, <1>2, <1>4
  <2>2. input[i].hash[b] = input[j].hash[b]
    BY <1>1, <2>1
  <2>3. ~ (i < j) /\ ~ (j < i)
    BY <1>1, <1>3, <1>4, <2>2
  <2> QED
    BY <1>1, <2>3
<1>5. f \in Injection(Span(c), Span(c))
  BY <1>4, PlaceFacts DEF Injection, IsInjective
<1>6. f \in Surjection(Span(c), Span(c))
  <2>1. IsFiniteSet(Span(c))
    BY SpanFacts
  <2> HIDE DEF f
  <2> QED
    BY <1>5, <2>1, FS_Injection
<1>7. \A p \in Span(c) : \E i \in Span(c) : Place(c, b, i) = p
  BY <1>6 DEF Surjection
<1> QED
  BY <1>4, <1>7

\* After the partition the span holds the same items, each within its bucket.
LEMMA PartitionedFacts ==
  ASSUME NEW c, NEW b, IsSpan(c, b), NEW split, split = Partitioned(c, b),
         \A i, j \in DOMAIN input : input[i] = input[j] => i = j
  PROVE  /\ split \in Seq(Items) /\ Len(split) = Len(input) /\ DOMAIN split = DOMAIN input
         /\ \A p \in DOMAIN input : p \notin Span(c) => split[p] = input[p]
         /\ \A p \in Span(c) : \E i \in Span(c) : split[p] = input[i]
         /\ \A i \in DOMAIN input : \E p \in DOMAIN input : split[p] = input[i]
         /\ \A p, q \in DOMAIN input : split[p] = split[q] => p = q
<1> DEFINE At(p) == CHOOSE i \in Span(c) : Place(c, b, i) = p
<1>1. /\ Span(c) \subseteq DOMAIN input /\ Span(c) \subseteq Nat
      /\ DOMAIN input = 1 .. Len(input) /\ Len(input) \in Nat
      /\ \A p \in DOMAIN input : input[p] \in Items /\ input[p].hash[b] \in Bytes
  BY SpanFacts
<1>2. \A p \in Span(c) : At(p) \in Span(c) /\ Place(c, b, At(p)) = p
  BY PlacesAreFilled
<1>3. \A i \in Span(c) : Place(c, b, i) \in Span(c) /\ At(Place(c, b, i)) = i
  BY <1>2, PlaceFacts, PlacesAreFilled
<1>4. split = [p \in DOMAIN input |-> IF p \in Span(c) THEN input[At(p)] ELSE input[p]]
  BY DEF Partitioned
<1> HIDE DEF At
<1>5. DOMAIN split = DOMAIN input
      /\ \A p \in DOMAIN input : p \notin Span(c) => split[p] = input[p]
  BY <1>4
<1>6. \A p \in Span(c) : split[p] = input[At(p)]
  BY <1>1, <1>4
<1>7. split \in Seq(Items) /\ Len(split) = Len(input)
  <2>1. \A p \in 1 .. Len(input) : split[p] \in Items
    BY <1>1, <1>2, <1>5, <1>6
  <2>2. split \in [1 .. Len(input) -> Items]
    BY <1>1, <1>4, <1>5, <2>1
  <2> QED
    BY <1>1, <2>2
<1>8. \A i \in DOMAIN input : \E p \in DOMAIN input : split[p] = input[i]
  <2> SUFFICES ASSUME NEW i \in DOMAIN input
               PROVE  \E p \in DOMAIN input : split[p] = input[i]
    OBVIOUS
  <2>1. CASE i \in Span(c)
    BY <1>1, <1>3, <1>6, <2>1
  <2>2. CASE i \notin Span(c)
    BY <1>5, <2>2
  <2> QED
    BY <2>1, <2>2
<1>9. ASSUME NEW p \in DOMAIN input, NEW q \in DOMAIN input, split[p] = split[q]
      PROVE  p = q
  <2>1. CASE p \in Span(c) /\ q \in Span(c)
    <3>1. At(p) = At(q)
      BY <1>1, <1>2, <1>6, <1>9, <2>1
    <3> QED
      BY <1>2, <2>1, <3>1
  <2>2. CASE p \notin Span(c) /\ q \notin Span(c)
    BY <1>5, <1>9, <2>2
  <2>3. CASE p \in Span(c) /\ q \notin Span(c)
    BY <1>1, <1>2, <1>5, <1>6, <1>9, <2>3
  <2>4. CASE p \notin Span(c) /\ q \in Span(c)
    BY <1>1, <1>2, <1>5, <1>6, <1>9, <2>4
  <2> QED
    BY <2>1, <2>2, <2>3, <2>4
<1> QED
  BY <1>1, <1>2, <1>5, <1>6, <1>7, <1>8, <1>9

LEMMA PartitionedBuckets ==
  ASSUME NEW c, NEW b, IsSpan(c, b), NEW split, split = Partitioned(c, b),
         NEW p \in Span(c), NEW v \in Bytes
  PROVE  split[p].hash[b] = v <=>
            Offset(c, b, v) < p /\ p <= Offset(c, b, v) + Count(c, b, v)
<1> DEFINE At(q) == CHOOSE i \in Span(c) : Place(c, b, i) = q
<1>1. /\ Span(c) \subseteq DOMAIN input /\ Span(c) \subseteq Nat
      /\ DOMAIN input = 1 .. Len(input) /\ Len(input) \in Nat
      /\ \A q \in DOMAIN input : input[q] \in Items /\ input[q].hash[b] \in Bytes
  BY SpanFacts
<1>2. \A q \in Span(c) : At(q) \in Span(c) /\ Place(c, b, At(q)) = q
  BY PlacesAreFilled
<1>3. split = [q \in DOMAIN input |-> IF q \in Span(c) THEN input[At(q)] ELSE input[q]]
  BY DEF Partitioned
<1> HIDE DEF At
<1>4. \A q \in Span(c) : split[q] = input[At(q)]
  BY <1>1, <1>3
<1>5. PICK w \in Bytes : w = split[p].hash[b]
  BY <1>1, <1>2, <1>4
<1>6. w \in Nat /\ v \in Nat /\ p \in Nat
  BY <1>1, BytesAreNumbers
<1>7. At(p) \in Span(c) /\ w = input[At(p)].hash[b] /\ Place(c, b, At(p)) = p
  BY <1>2, <1>4, <1>5
<1>8. Offset(c, b, w) < p /\ p <= Offset(c, b, w) + Count(c, b, w)
  BY <1>7, PlaceFacts
<1>9. /\ Offset(c, b, v) \in Nat /\ Count(c, b, v) \in Nat
      /\ Offset(c, b, w) \in Nat /\ Count(c, b, w) \in Nat
      /\ v < w => Offset(c, b, v) + Count(c, b, v) <= Offset(c, b, w)
      /\ w < v => Offset(c, b, w) + Count(c, b, w) <= Offset(c, b, v)
  BY <1>6, BucketFacts
<1>10. Offset(c, b, v) < p /\ p <= Offset(c, b, v) + Count(c, b, v) => ~ (v < w) /\ ~ (w < v)
  BY <1>6, <1>8, <1>9
<1>11. Offset(c, b, v) < p /\ p <= Offset(c, b, v) + Count(c, b, v) => v = w
  BY <1>6, <1>10
<1> QED
  BY <1>5, <1>8, <1>11

\* A bucket has an item just when the count says so.
LEMMA CountFacts ==
  ASSUME NEW c, NEW b, IsSpan(c, b), NEW v \in Bytes
  PROVE  /\ Count(c, b, v) \in Nat
         /\ Count(c, b, v) # 0 <=> \E i \in Span(c) : input[i].hash[b] = v
<1>1. IsFiniteSet(Bucket(c, b, v)) /\ Count(c, b, v) \in Nat
  BY BucketFacts, BytesAreNumbers
<1>2. Count(c, b, v) = 0 <=> Bucket(c, b, v) = {}
  BY <1>1, FS_EmptySet DEF Count
<1> QED
  BY <1>1, <1>2 DEF Bucket

-----------------------------------------------------------------------------
\* The choice of a byte

LEMMA CollisionFacts ==
  ASSUME NEW c, NEW b, IsSpan(c, b)
  PROVE  /\ IsFiniteSet(Span(c) \X Span(c))
         /\ Collisions(c, b) \in Nat
         /\ Collisions(c, b) <= Cardinality(Span(c) \X Span(c))
         /\ Collisions(c, b) = Cardinality(Span(c) \X Span(c)) <=>
              \A p, q \in Span(c) : input[p].hash[b] = input[q].hash[b]
<1> DEFINE Pairs == {pair \in Span(c) \X Span(c) :
                        input[pair[1]].hash[b] = input[pair[2]].hash[b]}
<1>1. IsFiniteSet(Span(c) \X Span(c))
  BY SpanFacts, FS_Product
<1>2. Pairs \subseteq Span(c) \X Span(c)
  OBVIOUS
<1>3. Collisions(c, b) = Cardinality(Pairs)
  BY DEF Collisions
<1>4. Pairs = Span(c) \X Span(c) <=>
        \A p, q \in Span(c) : input[p].hash[b] = input[q].hash[b]
  <2>1. ASSUME Pairs = Span(c) \X Span(c), NEW p \in Span(c), NEW q \in Span(c)
        PROVE  input[p].hash[b] = input[q].hash[b]
    <3>1. <<p, q>> \in Pairs
      BY <2>1
    <3> QED
      BY <3>1
  <2>2. ASSUME \A p, q \in Span(c) : input[p].hash[b] = input[q].hash[b],
               NEW pair \in Span(c) \X Span(c)
        PROVE  pair \in Pairs
    BY <2>2
  <2> QED
    BY <1>2, <2>1, <2>2
<1> HIDE DEF Pairs
<1>5. /\ IsFiniteSet(Pairs) /\ Cardinality(Pairs) <= Cardinality(Span(c) \X Span(c))
      /\ Cardinality(Pairs) = Cardinality(Span(c) \X Span(c)) => Pairs = Span(c) \X Span(c)
  BY <1>1, <1>2, FS_Subset
<1>6. Cardinality(Pairs) \in Nat
  BY <1>5, FS_CardinalityType
<1> QED
  BY <1>1, <1>3, <1>4, <1>5, <1>6

LEMMA BestByteFacts ==
  ASSUME NEW c, Left(c.key) # {}, Left(c.key) \subseteq Nat,
         \A b \in Left(c.key) : Collisions(c, b) \in Nat
  PROVE  /\ BestByte(c) \in Left(c.key)
         /\ \A d \in Left(c.key) : Collisions(c, BestByte(c)) <= Collisions(c, d)
<1> DEFINE Sums == {Collisions(c, b) : b \in Left(c.key)}
<1> DEFINE Best == {b \in Left(c.key) :
                      \A d \in Left(c.key) : Collisions(c, b) <= Collisions(c, d)}
<1>1. PICK m \in Sums : \A k \in Sums : m <= k
  <2>1. Sums \in SUBSET Nat /\ Sums # {}
    OBVIOUS
  <2> HIDE DEF Sums
  <2> QED
    BY <2>1, LeastNumber
<1>2. Best # {}
  <2>1. PICK b \in Left(c.key) : m = Collisions(c, b)
    BY <1>1
  <2>2. b \in Best
    BY <1>1, <2>1
  <2> QED
    BY <2>2
<1>3. Best \in SUBSET Nat
  OBVIOUS
<1>4. BestByte(c) = Min(Best)
  BY DEF BestByte
<1>5. BestByte(c) \in Best
  <2> HIDE DEF Best
  <2> QED
    BY <1>2, <1>3, <1>4, MinIs
<1> QED
  BY <1>5

-----------------------------------------------------------------------------
\* What the invariant says of a call

LEMMA CallFacts ==
  ASSUME TypeInv, SpanInv, CallsInv, NEW c \in calls
  PROVE  /\ c.key \in Keys /\ c.key \in Known /\ c.key \in Ends /\ c.key \in CallKeys
         /\ c.key \notin DOMAIN nodes
         /\ c.from \in Nat /\ c.to \in Nat /\ c.from < c.to
         /\ c.from \in Span(c) /\ c.to \in Span(c) /\ Span(c) \subseteq DOMAIN input
         /\ Left(c.key) \subseteq Nat /\ Left(c.key) \subseteq Unused
         /\ \A b \in Left(c.key) : IsSpan(c, b)
<1>1. c \in [key : Keys, from : Nat, to : Nat]
  BY DEF TypeInv
<1>2. 1 <= c.from /\ c.from < c.to /\ c.to <= Len(input) /\ input \in Seq(Items)
  BY DEF CallsInv, SpanInv
<1>3. Left(c.key) \subseteq Unused /\ Unused \subseteq 0 .. HashBytesCount - 1
      /\ Unused \subseteq Nat
  BY UnusedFacts DEF Left
<1>4. c.key \in CallKeys
  BY DEF CallKeys
<1>5. c.from \in Nat /\ c.to \in Nat /\ c.key \in Keys
  BY <1>1
<1>6. c.from \in Span(c) /\ c.to \in Span(c) /\ Span(c) \subseteq DOMAIN input
  <2>1. DOMAIN input = 1 .. Len(input) /\ Len(input) \in Nat
    BY <1>2
  <2> QED
    BY <1>2, <1>5, <2>1 DEF Span
<1>7. \A b \in Left(c.key) : IsSpan(c, b)
  BY <1>2, <1>3, <1>5 DEF IsSpan
<1>8. c.key \in Known /\ c.key \in Ends /\ c.key \notin DOMAIN nodes
  BY <1>4 DEF Known, Ends, CallsInv
<1> QED
  BY <1>2, <1>3, <1>4, <1>5, <1>6, <1>7, <1>8

\* The presentations that match a call are those of its span.
LEMMA CallHasItsItems ==
  ASSUME TypeInv, SpanInv, CallsInv, NEW c \in calls, NEW i \in DOMAIN presented
  PROVE  Matches(presented[i].hash, c.key) <=> \E p \in Span(c) : input[p] = presented[i]
<1>1. PICK p \in DOMAIN input : input[p] = presented[i]
  BY DEF SpanInv
<1>2. Matches(presented[i].hash, c.key) <=> p \in Span(c)
  BY <1>1 DEF CallsInv
<1>3. \A q \in Span(c) : q \in DOMAIN input
  BY CallFacts
<1>4. \A q \in Span(c) : input[q] = presented[i] => q = p
  BY <1>1, <1>3 DEF SpanInv
<1> QED
  BY <1>1, <1>2, <1>4

\* When no byte is left, two items of the span cannot be told apart.
LEMMA NothingLeft ==
  ASSUME TypeInv, SpanInv, CallsInv, NEW c \in calls, Left(c.key) = {}
  PROVE  Indistinguishable
<1>1. /\ c.key \in Keys /\ c.from \in Nat /\ c.to \in Nat /\ c.from < c.to
      /\ c.from \in Span(c) /\ c.to \in Span(c)
  BY CallFacts
<1>2. c.from \in DOMAIN input /\ c.to \in DOMAIN input
  BY <1>1 DEF CallsInv, SpanInv
<1>3. Matches(input[c.from].hash, c.key) /\ Matches(input[c.to].hash, c.key)
  BY <1>1, <1>2 DEF CallsInv
<1>4. PICK i \in DOMAIN presented : input[c.from] = presented[i]
  BY <1>2 DEF SpanInv
<1>5. PICK j \in DOMAIN presented : input[c.to] = presented[j]
  BY <1>2 DEF SpanInv
<1>6. i # j
  <2>1. input[c.from] # input[c.to]
    BY <1>1, <1>2 DEF SpanInv
  <2> QED
    BY <1>4, <1>5, <2>1
<1>7. Unused \subseteq DOMAIN c.key
  BY DEF Left
<1>8. Agreement(presented[i].hash, presented[j].hash) = Unused
  BY <1>3, <1>4, <1>5, <1>7 DEF Agreement, Matches
<1> QED
  BY <1>6, <1>8 DEF Indistinguishable

\* Otherwise the byte with the highest entropy tells two of its items apart,
\* because some byte does.
LEMMA BestByteSeparates ==
  ASSUME TypeInv, SpanInv, CallsInv, NEW c \in calls, Left(c.key) # {}
  PROVE  /\ BestByte(c) \in Left(c.key)
         /\ ~ Indistinguishable =>
               \E p, q \in Span(c) : input[p].hash[BestByte(c)] # input[q].hash[BestByte(c)]
<1>1. /\ c.key \in Keys /\ c.from \in Nat /\ c.to \in Nat /\ c.from < c.to
      /\ c.from \in Span(c) /\ c.to \in Span(c)
      /\ Left(c.key) \subseteq Nat
      /\ \A b \in Left(c.key) : IsSpan(c, b)
  BY CallFacts
<1> DEFINE Pairs == Cardinality(Span(c) \X Span(c))
<1>2. PICK all \in Nat : all = Pairs
  BY <1>1, CollisionFacts, FS_CardinalityType
<1>3. \A b \in Left(c.key) :
        /\ Collisions(c, b) \in Nat
        /\ Collisions(c, b) <= all
        /\ Collisions(c, b) = all <=>
             \A p, q \in Span(c) : input[p].hash[b] = input[q].hash[b]
  BY <1>2, <1>1, CollisionFacts
<1>4. /\ BestByte(c) \in Left(c.key)
      /\ \A d \in Left(c.key) : Collisions(c, BestByte(c)) <= Collisions(c, d)
  BY <1>1, <1>3, BestByteFacts
<1>5. ASSUME ~ Indistinguishable
      PROVE  \E p, q \in Span(c) : input[p].hash[BestByte(c)] # input[q].hash[BestByte(c)]
  <2>1. c.from \in DOMAIN input /\ c.to \in DOMAIN input
    BY <1>1 DEF CallsInv, SpanInv
  <2>2. Matches(input[c.from].hash, c.key) /\ Matches(input[c.to].hash, c.key)
    BY <1>1, <2>1 DEF CallsInv
  <2>3. PICK i \in DOMAIN presented : input[c.from] = presented[i]
    BY <2>1 DEF SpanInv
  <2>4. PICK j \in DOMAIN presented : input[c.to] = presented[j]
    BY <2>1 DEF SpanInv
  <2>5. i # j
    <3>1. input[c.from] # input[c.to]
      BY <1>1, <2>1 DEF SpanInv
    <3> QED
      BY <2>3, <2>4, <3>1
  <2>6. PICK d \in Unused : presented[i].hash[d] # presented[j].hash[d]
    BY <1>5, <2>5 DEF Indistinguishable, Agreement
  <2>7. d \in Left(c.key)
    BY <2>2, <2>3, <2>4, <2>6 DEF Left, Matches
  <2>8. Collisions(c, d) # all
    BY <1>1, <1>3, <2>3, <2>4, <2>6, <2>7
  <2>9. Collisions(c, BestByte(c)) # all
    <3>1. Collisions(c, d) \in Nat /\ Collisions(c, d) <= all
      BY <1>3, <2>7
    <3>2. /\ Collisions(c, BestByte(c)) \in Nat
          /\ Collisions(c, BestByte(c)) <= Collisions(c, d)
      BY <1>3, <1>4, <2>7
    <3> QED
      BY <1>2, <2>8, <3>1, <3>2
  <2> QED
    BY <1>3, <1>4, <2>9
<1> QED
  BY <1>4, <1>5

-----------------------------------------------------------------------------
\* What a split makes

\* The values in the span, the keys they get, and which of those are leaves.
Values(c, b) == {v \in Bytes : Count(c, b, v) # 0}
Fresh(c, b) == {Under(c.key, b, v) : v \in Values(c, b)}
Loners(c, b) == {Under(c.key, b, v) : v \in {w \in Bytes : Count(c, b, w) = 1}}
Crowds(c, b) == {Under(c.key, b, v) : v \in {w \in Bytes : Count(c, b, w) > 1}}

Part(c, b, v) == [key  |-> Under(c.key, b, v),
                  from |-> Offset(c, b, v) + 1,
                  to   |-> Offset(c, b, v) + Count(c, b, v)]

NewCalls(c, b) == {Part(c, b, v) : v \in {w \in Bytes : Count(c, b, w) > 1}}

\* A step that splits the span of a call, if only by the byte it chose.
Splitting(c, b) ==
    /\ TreeInv /\ c \in calls /\ b \in Left(c.key)
    /\ Split(c, b)
    /\ UNCHANGED <<settings, presented>>

LEMMA SplittingFacts ==
  ASSUME NEW c, NEW b, Splitting(c, b)
  PROVE  /\ TypeInv /\ SpanInv /\ StateInv /\ CallsInv
         /\ LeavesInv /\ SlotsInv /\ EndsInv /\ RootInv
         /\ c \in calls /\ b \in Left(c.key)
         /\ input' = Partitioned(c, b)
         /\ IsSpan(c, b) /\ state = "building" /\ presented # << >>
         /\ presented' = presented
         /\ ls_tail_bits_count' = ls_tail_bits_count
         /\ reassurance_bytes_count' = reassurance_bytes_count
<1>1. TypeInv /\ SpanInv /\ StateInv /\ CallsInv /\ c \in calls /\ b \in Left(c.key)
  BY DEF Splitting, TreeInv
<1>2. input' = Partitioned(c, b)
  BY DEF Splitting, Split
<1>3. IsSpan(c, b)
  BY <1>1, CallFacts
<1>4. state = "building" /\ presented # << >>
  BY <1>1 DEF StateInv
<1> QED
  BY <1>1, <1>2, <1>3, <1>4 DEF Splitting, TreeInv, settings

\* The keys of the slots, and what matches one.
LEMMA SlotKeyFacts ==
  ASSUME NEW c, NEW b, Splitting(c, b), NEW v \in Bytes
  PROVE  /\ Under(c.key, b, v) \in Keys
         /\ DOMAIN Under(c.key, b, v) = DOMAIN c.key \cup {b}
         /\ Under(c.key, b, v)[b] = v
<1>1. PICK k \in Keys : k = c.key
  BY SplittingFacts, CallFacts
<1>2. b \in Left(k)
  BY <1>1, SplittingFacts
<1> QED
  BY <1>1, <1>2, UnderFacts

LEMMA SlotHasValue ==
  ASSUME NEW k, NEW b, NEW v
  PROVE  Under(k, b, v)[b] = v
<1> QED
  BY DEF Under

LEMMA SlotMatches ==
  ASSUME NEW c, NEW b, Splitting(c, b), NEW v \in Bytes, NEW h
  PROVE  Matches(h, Under(c.key, b, v)) <=> Matches(h, c.key) /\ h[b] = v
<1>1. PICK k \in Keys : k = c.key
  BY SplittingFacts, CallFacts
<1>2. b \in Left(k)
  BY <1>1, SplittingFacts
<1>3. Matches(h, Under(k, b, v)) <=> Matches(h, k) /\ h[b] = v
  BY <1>2, UnderMatches
<1> QED
  BY <1>1, <1>3, Zenon

\* They are new: whatever matches one has the call as its end.
LEMMA FreshFacts ==
  ASSUME NEW c, NEW b, Splitting(c, b)
  PROVE  /\ Fresh(c, b) \cap Known = {} /\ Fresh(c, b) \subseteq Keys
         /\ Fresh(c, b) = Loners(c, b) \cup Crowds(c, b)
         /\ Loners(c, b) \cap Crowds(c, b) = {}
         /\ c.key \in Known /\ c.key \in Keys /\ c.key \notin DOMAIN nodes
         /\ b \notin DOMAIN c.key
<1>1. /\ TypeInv /\ SpanInv /\ CallsInv /\ EndsInv /\ IsSpan(c, b)
      /\ c \in calls /\ b \in Left(c.key)
  BY SplittingFacts
<1>2. /\ c.key \in Keys /\ c.key \in Known /\ c.key \in Ends /\ c.key \notin DOMAIN nodes
      /\ Span(c) \subseteq DOMAIN input
  BY <1>1, CallFacts
<1>3. \A v \in Bytes :
        /\ Under(c.key, b, v) \in Keys
        /\ DOMAIN Under(c.key, b, v) = DOMAIN c.key \cup {b}
        /\ Under(c.key, b, v)[b] = v
  BY SlotKeyFacts
<1>4. b \notin DOMAIN c.key
  BY <1>1 DEF Left
<1>5. ASSUME NEW v \in Values(c, b) PROVE Under(c.key, b, v) \notin Known
  <2>1. v \in Bytes /\ Count(c, b, v) # 0
    BY DEF Values
  <2>2. PICK p \in Span(c) : input[p].hash[b] = v
    BY <1>1, <2>1, CountFacts
  <2>3. p \in DOMAIN input /\ Matches(input[p].hash, c.key)
    BY <1>1, <1>2 DEF CallsInv
  <2>4. PICK i \in DOMAIN presented : input[p] = presented[i]
    BY <1>1, <2>3 DEF SpanInv
  <2>5. Matches(presented[i].hash, c.key) /\ Matches(presented[i].hash, Under(c.key, b, v))
    BY <2>1, <2>2, <2>3, <2>4, SlotMatches
  <2>6. ASSUME Under(c.key, b, v) \in Known
        PROVE  DOMAIN Under(c.key, b, v) \subseteq DOMAIN c.key
    BY <1>1, <1>2, <2>5, <2>6 DEF EndsInv
  <2>7. b \in DOMAIN Under(c.key, b, v)
    BY <1>3, <2>1
  <2> QED
    BY <1>4, <2>6, <2>7
<1>6. Fresh(c, b) \cap Known = {} /\ Fresh(c, b) \subseteq Keys
  BY <1>3, <1>5 DEF Fresh, Values
<1>7. \A v \in Bytes : Count(c, b, v) \in Nat
  BY <1>1, CountFacts
<1>8. Fresh(c, b) = Loners(c, b) \cup Crowds(c, b)
  <2>1. \A v \in Bytes : Count(c, b, v) # 0 <=> Count(c, b, v) = 1 \/ Count(c, b, v) > 1
    BY <1>7
  <2> QED
    BY <2>1 DEF Fresh, Values, Loners, Crowds
<1>9. Loners(c, b) \cap Crowds(c, b) = {}
  <2> SUFFICES ASSUME NEW k \in Loners(c, b), k \in Crowds(c, b) PROVE FALSE
    OBVIOUS
  <2>1. PICK v \in Bytes : Count(c, b, v) = 1 /\ k = Under(c.key, b, v)
    BY DEF Loners
  <2>2. PICK w \in Bytes : Count(c, b, w) > 1 /\ k = Under(c.key, b, w)
    BY DEF Crowds
  <2>3. v = w
    BY <1>3, <2>1, <2>2
  <2> QED
    BY <2>1, <2>2, <2>3
<1> QED
  BY <1>2, <1>4, <1>6, <1>8, <1>9

LEMMA KindsAreTwo == \A b : \A item, left :
  /\ Slots(b).kind = "slots" /\ Slots(b).hash_byte_index = b
  /\ Leaf(item, left).kind = "leaf"
  /\ Leaf(item, left).presentation_index = item.presentation_index
BY DEF Slots, Leaf

\* The sets of keys after a split.
LEMMA SplitKeys ==
  ASSUME NEW c, NEW b, Splitting(c, b)
  PROVE  /\ calls' = (calls \ {c}) \cup NewCalls(c, b)
         /\ DOMAIN nodes' = DOMAIN nodes \cup {c.key} \cup Loners(c, b)
         /\ nodes'[c.key] = Slots(b)
         /\ CallKeys' = (CallKeys \ {c.key}) \cup Crowds(c, b)
         /\ SlotKeys' = SlotKeys \cup {c.key}
         /\ LeafKeys' = LeafKeys \cup Loners(c, b)
         /\ Known' = Known \cup Fresh(c, b)
         /\ Ends' = (Ends \ {c.key}) \cup Fresh(c, b)
         /\ \A k \in DOMAIN nodes : nodes'[k] = nodes[k] /\ k # c.key
<1>1. /\ TypeInv /\ CallsInv /\ c \in calls
  BY SplittingFacts
<1>2. /\ Fresh(c, b) \cap Known = {} /\ Fresh(c, b) = Loners(c, b) \cup Crowds(c, b)
      /\ c.key \in Known /\ c.key \notin DOMAIN nodes
  BY FreshFacts
<1>3. /\ DOMAIN nodes' = DOMAIN nodes \cup {c.key} \cup Loners(c, b)
      /\ nodes'[c.key] = Slots(b)
      /\ \A k \in Loners(c, b) : k # c.key =>
           nodes'[k] = Leaf(input'[Offset(c, b, k[b]) + 1], Left(k))
      /\ \A k \in DOMAIN nodes : k # c.key /\ k \notin Loners(c, b) => nodes'[k] = nodes[k]
  <2>1. nodes' = [k \in DOMAIN nodes \cup {c.key} \cup Loners(c, b) |->
                    IF k = c.key THEN Slots(b)
                    ELSE IF k \in Loners(c, b)
                         THEN Leaf(input'[Offset(c, b, k[b]) + 1], Left(k))
                         ELSE nodes[k]]
    BY DEF Splitting, Split, Loners
  <2> QED
    BY <2>1
<1>4. calls' = (calls \ {c}) \cup NewCalls(c, b)
  BY Zenon DEF Splitting, Split, Part, NewCalls
<1>5. \A k \in DOMAIN nodes : nodes'[k] = nodes[k] /\ k # c.key
  BY <1>2, <1>3 DEF Known
<1>6. \A k \in Loners(c, b) :
        k # c.key /\ nodes'[k] = Leaf(input'[Offset(c, b, k[b]) + 1], Left(k))
  BY <1>2, <1>3
<1>7. CallKeys' = (CallKeys \ {c.key}) \cup Crowds(c, b)
  <2>1. {d.key : d \in calls \ {c}} = CallKeys \ {c.key}
    BY <1>1 DEF CallKeys, CallsInv
  <2>2. {d.key : d \in NewCalls(c, b)} = Crowds(c, b)
    <3>1. \A v : Part(c, b, v).key = Under(c.key, b, v)
      BY DEF Part
    <3> QED
      BY <3>1 DEF Crowds, NewCalls
  <2> QED
    BY <1>4, <2>1, <2>2 DEF CallKeys
<1>8. \A k \in DOMAIN nodes : IsLeaf(k)' <=> IsLeaf(k)
  BY <1>5 DEF IsLeaf
<1>9. \A k \in DOMAIN nodes : IsSlots(k)' <=> IsSlots(k)
  BY <1>5 DEF IsSlots
<1>10. \A k \in Loners(c, b) : nodes'[k].kind = "leaf"
  BY <1>6, KindsAreTwo
<1>11. \A k \in Loners(c, b) : IsLeaf(k)' /\ ~ IsSlots(k)'
  BY <1>10 DEF IsLeaf, IsSlots
<1>12. nodes'[c.key].kind = "slots"
  BY <1>3, KindsAreTwo
<1>13. IsSlots(c.key)' /\ ~ IsLeaf(c.key)'
  BY <1>12 DEF IsLeaf, IsSlots
<1>14. SlotKeys' = SlotKeys \cup {c.key}
  BY <1>3, <1>9, <1>11, <1>13 DEF SlotKeys
<1>15. LeafKeys' = LeafKeys \cup Loners(c, b)
  BY <1>3, <1>8, <1>11, <1>13 DEF LeafKeys
<1>16. Known' = Known \cup Fresh(c, b)
  BY <1>2, <1>3, <1>7 DEF Known
<1>17. Ends' = (Ends \ {c.key}) \cup Fresh(c, b)
  <2>1. c.key \notin LeafKeys
    BY <1>2 DEF LeafKeys
  <2> QED
    BY <1>2, <1>7, <1>15, <2>1 DEF Ends
<1> QED
  BY <1>3, <1>4, <1>5, <1>6, <1>7, <1>14, <1>15, <1>16, <1>17

LEMMA SplitLeaf ==
  ASSUME NEW c, NEW b, Splitting(c, b), NEW k \in Loners(c, b)
  PROVE  nodes'[k] = Leaf(input'[Offset(c, b, k[b]) + 1], Left(k))
<1>1. nodes' = [m \in DOMAIN nodes \cup {c.key} \cup Loners(c, b) |->
                  IF m = c.key THEN Slots(b)
                  ELSE IF m \in Loners(c, b)
                       THEN Leaf(input'[Offset(c, b, m[b]) + 1], Left(m))
                       ELSE nodes[m]]
  BY DEF Splitting, Split, Loners
<1>2. k # c.key
  BY FreshFacts
<1> QED
  BY <1>1, <1>2

\* The span after a split: every call still has the items that match its key,
\* and every new key has its part.
LEMMA SplitSpan ==
  ASSUME NEW c, NEW b, Splitting(c, b)
  PROVE  /\ SpanInv'
         /\ DOMAIN input' = DOMAIN input /\ Len(input') = Len(input)
         /\ \A d \in calls : \A p \in DOMAIN input :
              p \in Span(d) <=> Matches(input'[p].hash, d.key)
         /\ \A v \in Bytes : \A p \in DOMAIN input :
              Matches(input'[p].hash, Under(c.key, b, v)) <=>
                 Offset(c, b, v) < p /\ p <= Offset(c, b, v) + Count(c, b, v)
<1>1. /\ TypeInv /\ SpanInv /\ CallsInv /\ EndsInv /\ IsSpan(c, b)
      /\ c \in calls /\ b \in Left(c.key)
      /\ input' = Partitioned(c, b) /\ presented' = presented
  BY SplittingFacts
<1>2. PICK split : split = Partitioned(c, b)
  OBVIOUS
<1>3. /\ split \in Seq(Items) /\ Len(split) = Len(input) /\ DOMAIN split = DOMAIN input
      /\ \A p \in DOMAIN input : p \notin Span(c) => split[p] = input[p]
      /\ \A p \in Span(c) : \E i \in Span(c) : split[p] = input[i]
      /\ \A i \in DOMAIN input : \E p \in DOMAIN input : split[p] = input[i]
      /\ \A p, q \in DOMAIN input : split[p] = split[q] => p = q
  <2>1. \A i, j \in DOMAIN input : input[i] = input[j] => i = j
    BY <1>1 DEF SpanInv
  <2> QED
    BY <1>1, <1>2, <2>1, PartitionedFacts
<1>4. \A p \in Span(c) : \A v \in Bytes :
        split[p].hash[b] = v <=>
           Offset(c, b, v) < p /\ p <= Offset(c, b, v) + Count(c, b, v)
  BY <1>1, <1>2, PartitionedBuckets
<1>5. Span(c) \subseteq DOMAIN input /\ DOMAIN input = 1 .. Len(input) /\ Len(input) \in Nat
  BY <1>1, SpanFacts
<1>6. \A p \in DOMAIN input : \E i \in DOMAIN input : split[p] = input[i]
  BY <1>3, <1>5
<1>7. SpanInv'
  <2>1. \A p \in DOMAIN split : \E i \in DOMAIN presented : split[p] = presented[i]
    BY <1>1, <1>3, <1>6 DEF SpanInv
  <2>2. \A i \in DOMAIN presented : \E p \in DOMAIN split : split[p] = presented[i]
    <3> SUFFICES ASSUME NEW i \in DOMAIN presented
                 PROVE  \E p \in DOMAIN input : split[p] = presented[i]
      BY <1>3
    <3>1. PICK q \in DOMAIN input : input[q] = presented[i]
      BY <1>1 DEF SpanInv
    <3> QED
      BY <1>3, <3>1
  <2>3. \A p, q \in DOMAIN split : split[p] = split[q] => p = q
    BY <1>3
  <2>4. Len(split) = Len(presented) /\ split \in Seq(Items)
    BY <1>1, <1>3 DEF SpanInv
  <2>5. input' = split
    BY <1>1, <1>2
  <2> QED
    BY <1>1, <2>1, <2>2, <2>3, <2>4, <2>5 DEF SpanInv
<1>8. ASSUME NEW d \in calls, NEW p \in DOMAIN input
      PROVE  p \in Span(d) <=> Matches(split[p].hash, d.key)
  <2>1. \A q \in DOMAIN input : q \in Span(d) <=> Matches(input[q].hash, d.key)
    BY <1>1 DEF CallsInv
  <2>2. CASE p \notin Span(c)
    BY <1>3, <2>1, <2>2
  <2>3. CASE p \in Span(c)
    <3>1. PICK i \in Span(c) : split[p] = input[i]
      BY <1>3, <2>3
    <3>2. CASE d = c
      BY <1>5, <2>1, <2>3, <3>1, <3>2
    <3>3. CASE d # c
      <4>1. \A q \in Span(c) : q \notin Span(d)
        <5> SUFFICES ASSUME NEW q \in Span(c), q \in Span(d) PROVE FALSE
          OBVIOUS
        <5>1. q \in DOMAIN input
          BY <1>5
        <5>2. Matches(input[q].hash, c.key) /\ Matches(input[q].hash, d.key)
          BY <1>1, <5>1 DEF CallsInv
        <5>3. PICK j \in DOMAIN presented : input[q] = presented[j]
          BY <1>1, <5>1 DEF SpanInv
        <5>4. /\ c.key \in Keys /\ c.key \in Known /\ c.key \in Ends
              /\ d.key \in Keys /\ d.key \in Known /\ d.key \in Ends
          BY <1>1, CallFacts
        <5>5. DOMAIN c.key \subseteq DOMAIN d.key /\ DOMAIN d.key \subseteq DOMAIN c.key
          BY <1>1, <5>2, <5>3, <5>4 DEF EndsInv
        <5>6. DOMAIN c.key = DOMAIN d.key
          BY <5>5
        <5>7. c.key = d.key
          BY <5>2, <5>4, <5>6, MatchedKeysAreEqual
        <5> QED
          BY <1>1, <3>3, <5>7 DEF CallsInv
      <4> QED
        BY <1>5, <2>1, <2>3, <3>1, <4>1
    <3> QED
      BY <3>2, <3>3
  <2> QED
    BY <2>2, <2>3
<1>9. ASSUME NEW v \in Bytes, NEW p \in DOMAIN input
      PROVE  Matches(split[p].hash, Under(c.key, b, v)) <=>
                Offset(c, b, v) < p /\ p <= Offset(c, b, v) + Count(c, b, v)
  <2>1. Matches(split[p].hash, Under(c.key, b, v)) <=> p \in Span(c) /\ split[p].hash[b] = v
    BY <1>1, <1>8, SlotMatches
  <2>2. /\ Offset(c, b, v) \in Nat /\ Count(c, b, v) \in Nat
        /\ c.from <= Offset(c, b, v) + 1 /\ Offset(c, b, v) + Count(c, b, v) <= c.to
    BY <1>1, BucketFacts, BytesAreNumbers
  <2>3. p \in Nat /\ c.from \in Nat /\ c.to \in Nat
    BY <1>1, <1>5 DEF IsSpan
  <2>4. Offset(c, b, v) < p /\ p <= Offset(c, b, v) + Count(c, b, v) => p \in Span(c)
    BY <2>2, <2>3 DEF Span
  <2> QED
    BY <1>4, <2>1, <2>4
<1> QED
  BY <1>1, <1>2, <1>3, <1>7, <1>8, <1>9

\* The calls after a split.
LEMMA SplitKeepsCalls ==
  ASSUME NEW c, NEW b, Splitting(c, b)
  PROVE  CallsInv'
<1>1. /\ TypeInv /\ SpanInv /\ CallsInv /\ EndsInv /\ IsSpan(c, b) /\ c \in calls
  BY SplittingFacts
<1>2. /\ calls' = (calls \ {c}) \cup NewCalls(c, b)
      /\ DOMAIN nodes' = DOMAIN nodes \cup {c.key} \cup Loners(c, b)
      /\ CallKeys' = (CallKeys \ {c.key}) \cup Crowds(c, b)
  BY SplitKeys
<1>3. /\ DOMAIN input' = DOMAIN input /\ Len(input') = Len(input)
      /\ \A d \in calls : \A p \in DOMAIN input :
           p \in Span(d) <=> Matches(input'[p].hash, d.key)
      /\ \A v \in Bytes : \A p \in DOMAIN input :
           Matches(input'[p].hash, Under(c.key, b, v)) <=>
              Offset(c, b, v) < p /\ p <= Offset(c, b, v) + Count(c, b, v)
  BY SplitSpan
<1>4. /\ Fresh(c, b) \cap Known = {} /\ Fresh(c, b) = Loners(c, b) \cup Crowds(c, b)
      /\ Loners(c, b) \cap Crowds(c, b) = {}
      /\ c.key \in Known /\ c.key \notin DOMAIN nodes
      /\ \A v \in Bytes : Under(c.key, b, v)[b] = v
  BY FreshFacts, SlotHasValue
<1>5. ASSUME NEW d \in NewCalls(c, b)
      PROVE  \E v \in Bytes : d = Part(c, b, v) /\ Count(c, b, v) > 1
  BY DEF NewCalls
<1>6. ASSUME NEW v \in Bytes, Count(c, b, v) > 1, NEW d, d = Part(c, b, v)
      PROVE  /\ d.key = Under(c.key, b, v) /\ d.key \in Crowds(c, b)
             /\ 1 <= d.from /\ d.from < d.to /\ d.to <= Len(input)
             /\ \A p \in DOMAIN input :
                  p \in Span(d) <=> Offset(c, b, v) < p /\ p <= Offset(c, b, v) + Count(c, b, v)
  <2>1. PICK o \in Nat : o = Offset(c, b, v)
    BY <1>1, BucketFacts, BytesAreNumbers
  <2>2. PICK n \in Nat : n = Count(c, b, v)
    BY <1>1, BucketFacts, BytesAreNumbers
  <2>3. c.from <= o + 1 /\ o + n <= c.to
    BY <1>1, <2>1, <2>2, BucketFacts, BytesAreNumbers
  <2>4. d.key = Under(c.key, b, v) /\ d.from = o + 1 /\ d.to = o + n
    BY <1>6, <2>1, <2>2 DEF Part
  <2>5. c.from \in Nat /\ c.to \in Nat /\ 1 <= c.from /\ c.to <= Len(input) /\ Len(input) \in Nat
        /\ DOMAIN input = 1 .. Len(input)
    BY <1>1, SpanFacts DEF IsSpan
  <2>6. n > 1
    BY <1>6, <2>2
  <2>7. d.key \in Crowds(c, b)
    BY <1>6, <2>4 DEF Crowds
  <2>8. 1 <= d.from /\ d.from < d.to /\ d.to <= Len(input)
    BY <2>3, <2>4, <2>5, <2>6
  <2>9. \A p \in Nat : p \in Span(d) <=> o < p /\ p <= o + n
    BY <2>4 DEF Span
  <2> QED
    BY <2>1, <2>2, <2>4, <2>5, <2>7, <2>8, <2>9
<1>7. ASSUME NEW d \in calls'
      PROVE  /\ 1 <= d.from /\ d.from < d.to /\ d.to <= Len(input)
             /\ \A p \in DOMAIN input : p \in Span(d) <=> Matches(input'[p].hash, d.key)
  <2>1. CASE d \in calls
    BY <1>1, <1>3, <2>1 DEF CallsInv
  <2>2. CASE d \in NewCalls(c, b)
    <3>1. PICK v \in Bytes : d = Part(c, b, v) /\ Count(c, b, v) > 1
      BY <1>5, <2>2
    <3> QED
      BY <1>3, <1>6, <3>1
  <2> QED
    BY <1>2, <2>1, <2>2
<1>8. ASSUME NEW d \in NewCalls(c, b) PROVE d.key \in Crowds(c, b)
  <2>1. PICK v \in Bytes : d = Part(c, b, v) /\ Count(c, b, v) > 1
    BY <1>5
  <2> QED
    BY <1>6, <2>1
<1>9. ASSUME NEW d \in NewCalls(c, b), NEW e \in NewCalls(c, b), d.key = e.key
      PROVE  d = e
  <2>1. PICK v \in Bytes : d = Part(c, b, v) /\ Count(c, b, v) > 1
    BY <1>5
  <2>2. PICK w \in Bytes : e = Part(c, b, w) /\ Count(c, b, w) > 1
    BY <1>5
  <2>3. Under(c.key, b, v) = Under(c.key, b, w)
    BY <1>6, <1>9, <2>1, <2>2
  <2>4. v = w
    BY <1>4, <2>3
  <2> QED
    BY <2>1, <2>2, <2>4
<1>10. \A d \in calls : d.key \notin Crowds(c, b)
  BY <1>4 DEF Known, CallKeys
<1>11. ASSUME NEW d \in calls', NEW e \in calls', d.key = e.key
       PROVE  d = e
  <2>1. CASE d \in calls /\ e \in calls
    BY <1>1, <1>11, <2>1 DEF CallsInv
  <2>2. CASE d \in NewCalls(c, b) /\ e \in NewCalls(c, b)
    BY <1>9, <1>11, <2>2
  <2>3. CASE d \in calls /\ e \in NewCalls(c, b)
    BY <1>8, <1>10, <1>11, <2>3
  <2>4. CASE d \in NewCalls(c, b) /\ e \in calls
    BY <1>8, <1>10, <1>11, <2>4
  <2> QED
    BY <1>2, <2>1, <2>2, <2>3, <2>4
<1>12. CallKeys' \cap DOMAIN nodes' = {}
  <2>1. CallKeys \cap DOMAIN nodes = {}
    BY <1>1 DEF CallsInv
  <2> QED
    BY <1>2, <1>4, <2>1 DEF Known
<1>13. \A d : Span(d)' = Span(d)
  BY DEF Span
<1> QED
  BY <1>3, <1>7, <1>11, <1>12, <1>13 DEF CallsInv, Matches, Span

\* A leaf of the split is the only presentation that matches its key.
LEMMA SplitKeepsLeaves ==
  ASSUME NEW c, NEW b, Splitting(c, b)
  PROVE  LeavesInv'
<1>1. /\ TypeInv /\ SpanInv /\ LeavesInv /\ IsSpan(c, b) /\ presented' = presented
      /\ ls_tail_bits_count' = ls_tail_bits_count
      /\ reassurance_bytes_count' = reassurance_bytes_count
  BY SplittingFacts
<1>2. /\ LeafKeys' = LeafKeys \cup Loners(c, b)
      /\ \A k \in DOMAIN nodes : nodes'[k] = nodes[k]
  BY SplitKeys
<1>3. SpanInv' /\ DOMAIN input' = DOMAIN input
  BY SplitSpan
<1>4. ASSUME NEW k \in LeafKeys
      PROVE  \E i \in DOMAIN presented :
               /\ nodes'[k] = Leaf(presented[i], Left(k))
               /\ \A j \in DOMAIN presented : Matches(presented[j].hash, k) <=> j = i
  <2>1. k \in DOMAIN nodes
    BY DEF LeafKeys
  <2> QED
    BY <1>1, <1>2, <2>1 DEF LeavesInv, IsLeafOf
<1>5. ASSUME NEW k \in Loners(c, b)
      PROVE  \E i \in DOMAIN presented :
               /\ nodes'[k] = Leaf(presented[i], Left(k))
               /\ \A j \in DOMAIN presented : Matches(presented[j].hash, k) <=> j = i
  <2>1. PICK v \in Bytes : Count(c, b, v) = 1 /\ k = Under(c.key, b, v)
    BY DEF Loners
  <2>2. k[b] = v
    BY <2>1, SlotHasValue
  <2>3. PICK o \in Nat : o = Offset(c, b, v)
    BY <1>1, BucketFacts, BytesAreNumbers
  <2>4. c.from <= o + 1 /\ o + 1 <= c.to
    BY <1>1, <2>1, <2>3, BucketFacts, BytesAreNumbers
  <2>5. o + 1 \in DOMAIN input
    <3>1. /\ c.from \in Nat /\ c.to \in Nat /\ 1 <= c.from /\ c.to <= Len(input)
          /\ DOMAIN input = 1 .. Len(input) /\ Len(input) \in Nat
      BY <1>1, SpanFacts DEF IsSpan
    <3> QED
      BY <2>4, <3>1
  <2>6. \A p \in DOMAIN input : Matches(input'[p].hash, k) <=> o < p /\ p <= o + 1
    <3>1. \A p \in DOMAIN input :
            Matches(input'[p].hash, Under(c.key, b, v)) <=>
               Offset(c, b, v) < p /\ p <= Offset(c, b, v) + Count(c, b, v)
      BY SplitSpan
    <3> QED
      BY <2>1, <2>3, <3>1
  <2>7. \A p \in DOMAIN input : Matches(input'[p].hash, k) <=> p = o + 1
    <3>1. DOMAIN input \subseteq Nat
      BY <1>1, SpanFacts
    <3> QED
      BY <2>3, <2>6, <3>1
  <2>8. PICK i \in DOMAIN presented : input'[o + 1] = presented[i]
    BY <1>1, <1>3, <2>5 DEF SpanInv
  <2>9. nodes'[k] = Leaf(presented[i], Left(k))
    BY <2>2, <2>3, <2>8, SplitLeaf
  <2>10. ASSUME NEW j \in DOMAIN presented
         PROVE  Matches(presented[j].hash, k) <=> j = i
    <3>1. PICK p \in DOMAIN input : input'[p] = presented[j]
      BY <1>1, <1>3 DEF SpanInv
    <3>2. Matches(presented[j].hash, k) <=> p = o + 1
      BY <2>7, <3>1
    <3>3. p = o + 1 => presented[i] = presented[j]
      BY <2>8, <3>1
    <3>4. \A n \in DOMAIN presented : presented[n].presentation_index = n - 1 /\ n \in Nat
      BY <1>1 DEF TypeInv
    <3>5. presented[i] = presented[j] => i = j
      BY <3>4
    <3>6. i = j => p = o + 1
      BY <1>3, <2>5, <2>8, <3>1 DEF SpanInv
    <3> QED
      BY <3>2, <3>3, <3>5, <3>6
  <2> QED
    BY <2>9, <2>10
<1>6. ASSUME NEW k, NEW i, nodes'[k] = Leaf(presented[i], Left(k))
      PROVE  IsLeafOf(k, i)'
  BY <1>1, <1>6 DEF IsLeafOf, Leaf, Left, Unused, HandledBytes
<1>7. \A k \in LeafKeys' : \E i \in DOMAIN presented :
        /\ IsLeafOf(k, i)'
        /\ \A j \in DOMAIN presented : Matches(presented[j].hash, k) <=> j = i
  BY <1>2, <1>4, <1>5, <1>6
<1> QED
  BY <1>1, <1>7 DEF LeavesInv

\* Whatever matched the call has a slot.
LEMMA SplitKeepsSlots ==
  ASSUME NEW c, NEW b, Splitting(c, b)
  PROVE  SlotsInv'
<1>1. /\ TypeInv /\ SpanInv /\ CallsInv /\ SlotsInv /\ IsSpan(c, b) /\ presented' = presented
      /\ ls_tail_bits_count' = ls_tail_bits_count
      /\ c \in calls /\ b \in Left(c.key)
  BY SplittingFacts
<1>2. /\ SlotKeys' = SlotKeys \cup {c.key}
      /\ Known' = Known \cup Fresh(c, b)
      /\ \A k \in DOMAIN nodes : nodes'[k] = nodes[k]
      /\ nodes'[c.key] = Slots(b)
  BY SplitKeys
<1>3. ASSUME NEW k \in SlotKeys
      PROVE  /\ nodes'[k].hash_byte_index \in Left(k)
             /\ \A i \in DOMAIN presented :
                  Matches(presented[i].hash, k) =>
                     Under(k, nodes'[k].hash_byte_index,
                           presented[i].hash[nodes'[k].hash_byte_index]) \in Known'
  <2>1. nodes'[k] = nodes[k]
    BY <1>2 DEF SlotKeys
  <2> QED
    BY <1>1, <1>2, <2>1 DEF SlotsInv
<1>4. nodes'[c.key].hash_byte_index = b
  BY <1>2, KindsAreTwo
<1>5. ASSUME NEW i \in DOMAIN presented, Matches(presented[i].hash, c.key)
      PROVE  Under(c.key, b, presented[i].hash[b]) \in Known'
  <2>1. PICK p \in Span(c) : input[p] = presented[i]
    BY <1>1, <1>5, CallHasItsItems
  <2>2. PICK v \in Bytes : v = presented[i].hash[b]
    BY <1>1, <2>1, SpanFacts
  <2>3. Count(c, b, v) # 0
    BY <1>1, <2>1, <2>2, CountFacts
  <2>4. Under(c.key, b, v) \in Fresh(c, b)
    BY <2>3 DEF Fresh, Values
  <2> QED
    BY <1>2, <2>2, <2>4
<1>6. \A k : Left(k)' = Left(k)
  BY <1>1 DEF Left, Unused, HandledBytes
<1>7. \A k \in SlotKeys' :
        /\ nodes'[k].hash_byte_index \in Left(k)
        /\ \A i \in DOMAIN presented :
             Matches(presented[i].hash, k) =>
                Under(k, nodes'[k].hash_byte_index,
                      presented[i].hash[nodes'[k].hash_byte_index]) \in Known'
  BY <1>1, <1>2, <1>3, <1>4, <1>5
<1> QED
  BY <1>1, <1>6, <1>7 DEF SlotsInv

\* The ends are still the longest keys that anything matches.
LEMMA SplitKeepsEnds ==
  ASSUME NEW c, NEW b, Splitting(c, b)
  PROVE  EndsInv'
<1>1. /\ TypeInv /\ SpanInv /\ CallsInv /\ EndsInv /\ presented' = presented /\ c \in calls
      /\ DOMAIN nodes \subseteq Keys
  BY SplittingFacts DEF TypeInv
<1>2. /\ Known' = Known \cup Fresh(c, b)
      /\ Ends' = (Ends \ {c.key}) \cup Fresh(c, b)
  BY SplitKeys
<1>3. c.key \in Keys /\ c.key \in Known /\ c.key \in Ends
  BY <1>1, CallFacts
<1>4. ASSUME NEW m \in Fresh(c, b)
      PROVE  \E v \in Bytes :
               /\ m = Under(c.key, b, v)
               /\ DOMAIN m = DOMAIN c.key \cup {b}
               /\ \A h : Matches(h, m) <=> Matches(h, c.key) /\ h[b] = v
  <2>1. PICK v \in Bytes : m = Under(c.key, b, v)
    BY DEF Fresh, Values
  <2>2. DOMAIN m = DOMAIN c.key \cup {b}
    BY <2>1, SlotKeyFacts
  <2>3. \A h : Matches(h, m) <=> Matches(h, c.key) /\ h[b] = v
    BY <2>1, SlotMatches
  <2> QED
    BY <2>1, <2>2, <2>3
<1>5. ASSUME NEW k \in Ends PROVE k \in Known /\ k \in Keys
  <2>1. \A d \in calls : d.key \in Keys
    BY <1>1, CallFacts
  <2> QED
    BY <1>1, <2>1 DEF Ends, Known, LeafKeys, CallKeys
<1>6. ASSUME NEW i \in DOMAIN presented, NEW k \in Ends', NEW m \in Known',
             Matches(presented[i].hash, k), Matches(presented[i].hash, m)
      PROVE  DOMAIN m \subseteq DOMAIN k
  <2>1. CASE k \in Ends \ {c.key} /\ m \in Known
    BY <1>1, <1>6, <2>1 DEF EndsInv
  <2>2. CASE k \in Ends \ {c.key} /\ m \in Fresh(c, b)
    <3>1. Matches(presented[i].hash, c.key)
      BY <1>4, <1>6, <2>2
    <3>2. DOMAIN k \subseteq DOMAIN c.key /\ DOMAIN c.key \subseteq DOMAIN k
      BY <1>1, <1>3, <1>5, <1>6, <2>2, <3>1 DEF EndsInv
    <3>3. DOMAIN k = DOMAIN c.key
      BY <3>2
    <3>4. k = c.key
      BY <1>3, <1>5, <1>6, <2>2, <3>1, <3>3, MatchedKeysAreEqual
    <3> QED
      BY <2>2, <3>4
  <2>3. CASE k \in Fresh(c, b) /\ m \in Known
    <3>1. Matches(presented[i].hash, c.key) /\ DOMAIN k = DOMAIN c.key \cup {b}
      BY <1>4, <1>6, <2>3
    <3>2. DOMAIN m \subseteq DOMAIN c.key
      BY <1>1, <1>3, <1>6, <2>3, <3>1 DEF EndsInv
    <3> QED
      BY <3>1, <3>2
  <2>4. CASE k \in Fresh(c, b) /\ m \in Fresh(c, b)
    <3>1. DOMAIN k = DOMAIN c.key \cup {b} /\ DOMAIN m = DOMAIN c.key \cup {b}
      BY <1>4, <2>4
    <3> QED
      BY <3>1
  <2> QED
    BY <1>2, <2>1, <2>2, <2>3, <2>4
<1> QED
  BY <1>1, <1>6 DEF EndsInv, Matches

\* What a finite set is mapped to is finite.
LEMMA FiniteImage ==
  ASSUME NEW S, IsFiniteSet(S), NEW f, DOMAIN f = S
  PROVE  IsFiniteSet({f[x] : x \in S})
<1> DEFINE T == {f[x] : x \in S}
           g == [x \in S |-> f[x]]
<1>1. g \in Surjection(S, T)
  BY DEF Surjection
<1> HIDE DEF g, T
<1>2. IsFiniteSet(T)
  BY <1>1, FS_Surjection
<1> QED
  BY <1>2 DEF T

LEMMA SplitKeepsTypes ==
  ASSUME NEW c, NEW b, Splitting(c, b)
  PROVE  TypeInv'
<1>1. /\ TypeInv /\ IsSpan(c, b) /\ presented' = presented
      /\ ls_tail_bits_count' = ls_tail_bits_count
      /\ reassurance_bytes_count' = reassurance_bytes_count
  BY SplittingFacts
<1>2. /\ calls' = (calls \ {c}) \cup NewCalls(c, b)
      /\ DOMAIN nodes' = DOMAIN nodes \cup {c.key} \cup Loners(c, b)
      /\ SlotKeys' = SlotKeys \cup {c.key}
      /\ LeafKeys' = LeafKeys \cup Loners(c, b)
  BY SplitKeys
<1>3. /\ Fresh(c, b) \subseteq Keys /\ Fresh(c, b) = Loners(c, b) \cup Crowds(c, b)
      /\ c.key \in Keys
  BY FreshFacts
<1>4. Keys' = Keys
  BY <1>1 DEF Keys, Unused, HandledBytes
<1>5. IsFiniteSet(Bytes)
  BY <1>1, UnusedFacts
<1>6. IsFiniteSet(Loners(c, b))
  <2> DEFINE S == {w \in Bytes : Count(c, b, w) = 1}
             f == [v \in S |-> Under(c.key, b, v)]
  <2>1. IsFiniteSet(S)
    BY <1>5, FS_Subset
  <2>2. Loners(c, b) = {f[v] : v \in S}
    BY DEF Loners
  <2>3. DOMAIN f = S
    OBVIOUS
  <2> HIDE DEF S, f
  <2> QED
    BY <2>1, <2>2, <2>3, FiniteImage
<1>7. IsFiniteSet(NewCalls(c, b))
  <2> DEFINE S == {w \in Bytes : Count(c, b, w) > 1}
             f == [v \in S |-> Part(c, b, v)]
  <2>1. IsFiniteSet(S)
    BY <1>5, FS_Subset
  <2>2. NewCalls(c, b) = {f[v] : v \in S}
    BY DEF NewCalls
  <2>3. DOMAIN f = S
    OBVIOUS
  <2> HIDE DEF S, f
  <2> QED
    BY <2>1, <2>2, <2>3, FiniteImage
<1>8. IsFiniteSet(DOMAIN nodes')
  <2>1. IsFiniteSet(DOMAIN nodes \cup {c.key})
    BY <1>1, FS_AddElement DEF TypeInv
  <2> QED
    BY <1>2, <1>6, <2>1, FS_Union
<1>9. IsFiniteSet(calls')
  <2>1. IsFiniteSet(calls \ {c})
    BY <1>1, FS_RemoveElement DEF TypeInv
  <2> QED
    BY <1>2, <1>7, <2>1, FS_Union
<1>10. DOMAIN nodes' \subseteq Keys
  BY <1>1, <1>2, <1>3 DEF TypeInv
<1>11. \A k \in DOMAIN nodes' : IsLeaf(k)' \/ IsSlots(k)'
  <2>1. \A k \in DOMAIN nodes : k \in LeafKeys \/ k \in SlotKeys
    BY <1>1 DEF TypeInv, LeafKeys, SlotKeys
  <2>2. \A k \in DOMAIN nodes' : k \in LeafKeys' \/ k \in SlotKeys'
    BY <1>2, <2>1
  <2> QED
    BY <2>2 DEF LeafKeys, SlotKeys
<1>12. calls' \subseteq [key : Keys, from : Nat, to : Nat]
  <2>1. calls \subseteq [key : Keys, from : Nat, to : Nat]
    BY <1>1 DEF TypeInv
  <2>2. ASSUME NEW v \in Bytes PROVE Part(c, b, v) \in [key : Keys, from : Nat, to : Nat]
    <3>1. Under(c.key, b, v) \in Keys
      BY SlotKeyFacts
    <3>2. Offset(c, b, v) \in Nat /\ Count(c, b, v) \in Nat
      BY <1>1, BucketFacts, BytesAreNumbers
    <3>3. Offset(c, b, v) + 1 \in Nat /\ Offset(c, b, v) + Count(c, b, v) \in Nat
      BY <3>2
    <3> QED
      BY <3>1, <3>3 DEF Part
  <2>3. NewCalls(c, b) \subseteq [key : Keys, from : Nat, to : Nat]
    BY <2>2 DEF NewCalls
  <2> QED
    BY <1>2, <2>1, <2>3
<1>13. state' \in {"building", "built"}
  BY DEF Splitting, Split
<1> QED
  BY <1>1, <1>4, <1>8, <1>9, <1>10, <1>11, <1>12, <1>13 DEF TypeInv

LEMMA SplitKeepsState ==
  ASSUME NEW c, NEW b, Splitting(c, b)
  PROVE  StateInv'
<1>1. /\ StateInv /\ presented' = presented /\ state = "building" /\ presented # << >>
      /\ ls_tail_bits_count' = ls_tail_bits_count
  BY SplittingFacts
<1>2. state' = IF calls' = {} THEN "built" ELSE "building"
  BY DEF Splitting, Split
<1>3. HandledBytes <= HashBytesCount
  BY <1>1 DEF StateInv
<1> QED
  BY <1>1, <1>2, <1>3 DEF StateInv, HandledBytes

\* A byte that tells two items apart makes two ends at least out of one.
LEMMA SplitKeepsCount ==
  ASSUME NEW c, Splitting(c, BestByte(c))
  PROVE  RootInv'
<1> DEFINE b == BestByte(c)
<1>1. /\ TypeInv /\ SpanInv /\ CallsInv /\ RootInv /\ IsSpan(c, b)
      /\ presented' = presented /\ state = "building" /\ presented # << >>
      /\ ls_tail_bits_count' = ls_tail_bits_count
      /\ c \in calls /\ b \in Left(c.key)
  BY SplittingFacts
<1>2. /\ SlotKeys' = SlotKeys \cup {c.key}
      /\ Known' = Known \cup Fresh(c, b)
      /\ Ends' = (Ends \ {c.key}) \cup Fresh(c, b)
  BY SplitKeys
<1>3. /\ Fresh(c, b) \cap Known = {} /\ c.key \in Known /\ c.key \notin DOMAIN nodes
  BY FreshFacts
<1>4. c.key \in Ends
  BY <1>1, CallFacts
<1>5. Root \in Known'
  BY <1>1, <1>2 DEF RootInv
<1>6. Root' = Root
  BY DEF Root
<1>7. Indistinguishable' = Indistinguishable
  BY <1>1 DEF Indistinguishable, Agreement, Unused, HandledBytes
<1>8. IsFiniteSet(SlotKeys) /\ IsFiniteSet(Ends)
      /\ Cardinality(SlotKeys) \in Nat /\ Cardinality(Ends) \in Nat
  <2>1. IsFiniteSet(SlotKeys) /\ IsFiniteSet(LeafKeys)
    BY <1>1, FS_Subset DEF TypeInv, SlotKeys, LeafKeys
  <2>2. IsFiniteSet(CallKeys)
    <3> DEFINE f == [d \in calls |-> d.key]
    <3>1. IsFiniteSet(calls)
      BY <1>1 DEF TypeInv
    <3>2. CallKeys = {f[d] : d \in calls}
      BY DEF CallKeys
    <3>3. DOMAIN f = calls
      OBVIOUS
    <3> HIDE DEF f
    <3> QED
      BY <3>1, <3>2, <3>3, FiniteImage
  <2>3. IsFiniteSet(Ends)
    BY <2>1, <2>2, FS_Union DEF Ends
  <2> QED
    BY <2>1, <2>3, FS_CardinalityType
<1>9. ASSUME ~ Indistinguishable
      PROVE  Cardinality(SlotKeys') + 1 <= Cardinality(Ends')
  <2>1. Cardinality(SlotKeys) + 1 <= Cardinality(Ends)
    BY <1>1, <1>9 DEF RootInv, CountInv
  <2>2. Cardinality(SlotKeys') = Cardinality(SlotKeys) + 1
    <3>1. c.key \notin SlotKeys
      BY <1>3 DEF SlotKeys
    <3> QED
      BY <1>2, <1>8, <3>1, FS_AddElement
  <2>3. PICK p \in Span(c), q \in Span(c) : input[p].hash[b] # input[q].hash[b]
    <3>1. Left(c.key) # {}
      BY <1>1
    <3> QED
      BY <1>1, <1>9, <3>1, BestByteSeparates
  <2>4. PICK v \in Bytes : v = input[p].hash[b]
    BY <1>1, SpanFacts
  <2>5. PICK w \in Bytes : w = input[q].hash[b]
    BY <1>1, SpanFacts
  <2>6. Under(c.key, b, v) \in Fresh(c, b) /\ Under(c.key, b, w) \in Fresh(c, b)
    <3>1. Count(c, b, v) # 0 /\ Count(c, b, w) # 0
      BY <1>1, <2>4, <2>5, CountFacts
    <3> QED
      BY <3>1 DEF Fresh, Values
  <2>7. PICK x, y : x = Under(c.key, b, v) /\ y = Under(c.key, b, w)
    OBVIOUS
  <2>8. x # y /\ x \in Fresh(c, b) /\ y \in Fresh(c, b)
    <3>1. x[b] = v /\ y[b] = w
      BY <2>7, SlotKeyFacts
    <3> QED
      BY <2>3, <2>4, <2>5, <2>6, <2>7, <3>1
  <2>9. x \notin Ends /\ y \notin Ends
    <3>1. Ends \subseteq Known
      BY DEF Ends, Known, LeafKeys
    <3> QED
      BY <1>3, <2>8, <3>1
  <2> DEFINE A == Ends \ {c.key}
             B == A \cup {x}
             C == B \cup {y}
  <2>10. IsFiniteSet(A) /\ Cardinality(A) = Cardinality(Ends) - 1
    BY <1>4, <1>8, FS_RemoveElement
  <2>11. IsFiniteSet(B) /\ Cardinality(B) = Cardinality(A) + 1
    <3>1. x \notin A
      BY <2>9
    <3> HIDE DEF A
    <3> QED
      BY <2>10, <3>1, FS_AddElement
  <2>12. IsFiniteSet(C) /\ Cardinality(C) = Cardinality(B) + 1
    <3>1. y \notin B
      BY <2>8, <2>9
    <3> HIDE DEF B
    <3> QED
      BY <2>11, <3>1, FS_AddElement
  <2>13. C \subseteq Ends'
    BY <1>2, <2>8
  <2>14. IsFiniteSet(Ends')
    <3>1. IsFiniteSet(Fresh(c, b))
      <4> DEFINE S == Values(c, b)
                 f == [u \in S |-> Under(c.key, b, u)]
      <4>1. IsFiniteSet(S)
        BY <1>1, UnusedFacts, FS_Subset DEF Values
      <4>2. Fresh(c, b) = {f[u] : u \in S}
        BY DEF Fresh
      <4>3. DOMAIN f = S
        OBVIOUS
      <4> HIDE DEF S, f
      <4> QED
        BY <4>1, <4>2, <4>3, FiniteImage
    <3> HIDE DEF A
    <3> QED
      BY <1>2, <2>10, <3>1, FS_Union DEF A
  <2>15. Cardinality(C) <= Cardinality(Ends')
    <3> HIDE DEF C
    <3> QED
      BY <2>13, <2>14, FS_Subset
  <2>16. Cardinality(Ends') \in Nat /\ Cardinality(C) = Cardinality(Ends) + 1
    <3> HIDE DEF A, B, C
    <3> QED
      BY <1>8, <2>10, <2>11, <2>12, <2>14, FS_CardinalityType
  <2> HIDE DEF A, B, C
  <2> QED
    BY <1>8, <2>1, <2>2, <2>15, <2>16
<1> HIDE DEF b
<1>10. CountInv'
  BY <1>7, <1>9 DEF CountInv
<1> QED
  BY <1>5, <1>6, <1>10 DEF RootInv

-----------------------------------------------------------------------------
\* The invariant is inductive

LEMMA RecurseKeepsTree ==
  ASSUME TreeInv, NEW c \in calls, Recurse(c)
  PROVE  TreeInv'
<1>1. TypeInv /\ SpanInv /\ CallsInv
  BY DEF TreeInv
<1>2. Left(c.key) # {} /\ Split(c, BestByte(c)) /\ UNCHANGED <<settings, presented>>
  BY DEF Recurse
<1>3. BestByte(c) \in Left(c.key)
  BY <1>1, <1>2, BestByteSeparates
<1>4. PICK b : b = BestByte(c)
  OBVIOUS
<1>5. Splitting(c, b) /\ Splitting(c, BestByte(c))
  BY <1>2, <1>3, <1>4 DEF Splitting
<1>6. TypeInv' /\ StateInv' /\ SpanInv'
  BY <1>5, SplitKeepsTypes, SplitKeepsState, SplitSpan
<1>7. CallsInv' /\ LeavesInv'
  BY <1>5, SplitKeepsCalls, SplitKeepsLeaves
<1>8. SlotsInv' /\ EndsInv' /\ RootInv'
  BY <1>5, SplitKeepsSlots, SplitKeepsEnds, SplitKeepsCount
<1> QED
  BY <1>6, <1>7, <1>8 DEF TreeInv

\* With neither nodes nor calls there is little to say.
LEMMA NothingBuilt ==
  ASSUME DOMAIN nodes = {}, calls = {}
  PROVE  CallsInv /\ LeavesInv /\ SlotsInv /\ EndsInv
<1>1. CallKeys = {} /\ LeafKeys = {} /\ SlotKeys = {}
  BY DEF CallKeys, LeafKeys, SlotKeys
<1> QED
  BY <1>1 DEF CallsInv, LeavesInv, SlotsInv, EndsInv, Ends

LEMMA InitTree == Init => TreeInv
<1> SUFFICES ASSUME Init PROVE TreeInv
  OBVIOUS
<1>1. /\ input = << >> /\ presented = << >> /\ state = "unbuilt" /\ calls = {}
      /\ DOMAIN nodes = {}
      /\ ls_tail_bits_count \in TailBits /\ reassurance_bytes_count \in ReassuranceBytes
  BY DEF Init
<1>2. CallsInv /\ LeavesInv /\ SlotsInv /\ EndsInv
  BY <1>1, NothingBuilt
<1>3. TypeInv
  BY <1>1, ShallowTreeAssumption, FS_EmptySet DEF TypeInv
<1>4. SpanInv
  BY <1>1 DEF SpanInv
<1>5. StateInv /\ RootInv
  BY <1>1 DEF StateInv, RootInv
<1> QED
  BY <1>2, <1>3, <1>4, <1>5 DEF TreeInv

LEMMA NothingBuiltYet ==
  ASSUME DOMAIN nodes' = {}, calls' = {}
  PROVE  (CallsInv /\ LeavesInv /\ SlotsInv /\ EndsInv)'
<1>1. CallKeys' = {} /\ LeafKeys' = {} /\ SlotKeys' = {}
  BY DEF CallKeys, LeafKeys, SlotKeys
<1> QED
  BY <1>1 DEF CallsInv, LeavesInv, SlotsInv, EndsInv, Ends

LEMMA PresentKeepsTree ==
  ASSUME TreeInv, NEW h \in Hashes, Present(h)
  PROVE  TreeInv'
<1>1. TypeInv /\ SpanInv /\ StateInv
  BY DEF TreeInv
<1>2. PICK item : item = [hash |-> h, presentation_index |-> Len(input)]
  OBVIOUS
<1>3. /\ state = "unbuilt" /\ state' = state /\ nodes' = nodes /\ calls' = calls
      /\ ls_tail_bits_count' = ls_tail_bits_count
      /\ reassurance_bytes_count' = reassurance_bytes_count
      /\ input' = Append(input, item) /\ presented' = input'
  BY <1>2 DEF Present, settings
<1>4. /\ DOMAIN nodes = {} /\ calls = {} /\ input = presented
  BY <1>1, <1>3 DEF StateInv
<1>5. PICK n \in Nat : n = Len(input)
  BY <1>1 DEF SpanInv
<1>6. item \in Items /\ item.presentation_index = n
  BY <1>2, <1>5 DEF Items
<1>7. \A i \in 1 .. n : input[i].presentation_index = i - 1
  BY <1>1, <1>4, <1>5 DEF TypeInv
<1>8. /\ input' \in Seq(Items) /\ Len(input') = n + 1 /\ DOMAIN input' = 1 .. n + 1
      /\ \A i \in 1 .. n : input'[i] = input[i]
      /\ input'[n + 1] = item
  <2>1. input \in Seq(Items)
    BY <1>1 DEF SpanInv
  <2> QED
    BY <1>3, <1>5, <1>6, <2>1
<1>9. \A i \in 1 .. n + 1 : input'[i].presentation_index = i - 1
  <2> SUFFICES ASSUME NEW i \in 1 .. n + 1 PROVE input'[i].presentation_index = i - 1
    OBVIOUS
  <2>1. CASE i = n + 1
    BY <1>6, <1>8, <2>1
  <2>2. CASE i \in 1 .. n
    BY <1>7, <1>8, <2>2
  <2> QED
    BY <2>1, <2>2
<1>10. Keys' = Keys
  BY <1>3 DEF Keys, Unused, HandledBytes
<1>11. TypeInv'
  <2>1. (IsFiniteSet(DOMAIN nodes) /\ IsFiniteSet(calls))'
    BY <1>3, <1>4, FS_EmptySet
  <2>2. (DOMAIN nodes)' = {} /\ calls' = {}
    BY <1>3, <1>4
  <2> QED
    BY <1>1, <1>3, <1>8, <1>9, <2>1, <2>2 DEF TypeInv
<1>12. SpanInv'
  <2>1. \A i, j \in 1 .. n + 1 : input'[i] = input'[j] => i = j
    BY <1>9
  <2> QED
    BY <1>3, <1>8, <2>1 DEF SpanInv
<1>13. (CallsInv /\ LeavesInv /\ SlotsInv /\ EndsInv)'
  BY <1>3, <1>4, NothingBuiltYet
<1>14. StateInv' /\ RootInv'
  BY <1>3, <1>4 DEF StateInv, RootInv
<1> QED
  BY <1>11, <1>12, <1>13, <1>14 DEF TreeInv

\* What a step leaves alone.
LEMMA SpanIsKept ==
  ASSUME TypeInv, SpanInv, UNCHANGED <<input, settings, presented>>
  PROVE  /\ SpanInv' /\ Keys' = Keys /\ HandledBytes' = HandledBytes
         /\ ls_tail_bits_count' \in Nat /\ reassurance_bytes_count' \in Nat \ {0}
         /\ presented' \in Seq(Items)
         /\ \A i \in DOMAIN presented' : presented'[i].presentation_index = i - 1
         /\ Indistinguishable' = Indistinguishable
<1>1. /\ input' = input /\ presented' = presented
      /\ ls_tail_bits_count' = ls_tail_bits_count
      /\ reassurance_bytes_count' = reassurance_bytes_count
  BY DEF settings
<1>2. SpanInv'
  BY <1>1 DEF SpanInv
<1>3. Keys' = Keys /\ HandledBytes' = HandledBytes
  BY <1>1 DEF Keys, Unused, HandledBytes
<1>4. Indistinguishable' = Indistinguishable
  BY <1>1 DEF Indistinguishable, Agreement, Unused, HandledBytes
<1>5. /\ ls_tail_bits_count \in Nat /\ reassurance_bytes_count \in Nat \ {0}
      /\ presented \in Seq(Items)
      /\ \A i \in DOMAIN presented : presented[i].presentation_index = i - 1
  BY DEF TypeInv
<1> QED
  BY <1>1, <1>2, <1>3, <1>4, <1>5

\* Refused, or nothing to build, or torn down again: no nodes and no calls.
LEMMA EmptyKeepsTree ==
  ASSUME TreeInv, Refuse \/ BuildEmpty \/ \E c \in calls : Throw(c)
  PROVE  TreeInv'
<1>1. TypeInv /\ SpanInv /\ StateInv /\ CallsInv
  BY DEF TreeInv
<1>2. /\ UNCHANGED <<input, settings, presented>>
      /\ DOMAIN nodes' = {} /\ calls' = {}
      /\ \/ state' = "invalid_argument"
         \/ state' = "built" /\ presented = << >> /\ HandledBytes <= HashBytesCount
         \/ state' = "duplicate" /\ Indistinguishable
  <2>1. CASE Refuse
    BY <1>1, <2>1 DEF Refuse, StateInv, settings
  <2>2. CASE BuildEmpty
    BY <1>1, <2>2 DEF BuildEmpty, StateInv, settings
  <2>3. CASE \E c \in calls : Throw(c)
    <3>1. PICK c \in calls : Throw(c)
      BY <2>3
    <3>2. Left(c.key) = {}
      BY <3>1 DEF Throw
    <3>3. Indistinguishable
      BY <1>1, <3>2, NothingLeft
    <3> QED
      BY <3>1, <3>3 DEF Throw, settings
  <2> QED
    BY <2>1, <2>2, <2>3
<1>3. /\ SpanInv' /\ Keys' = Keys /\ HandledBytes' = HandledBytes
      /\ ls_tail_bits_count' \in Nat /\ reassurance_bytes_count' \in Nat \ {0}
      /\ presented' \in Seq(Items)
      /\ \A i \in DOMAIN presented' : presented'[i].presentation_index = i - 1
      /\ Indistinguishable' = Indistinguishable
  BY <1>1, <1>2, SpanIsKept
<1>4. TypeInv'
  <2>1. (IsFiniteSet(DOMAIN nodes) /\ IsFiniteSet(calls))'
    BY <1>2, FS_EmptySet
  <2> QED
    BY <1>2, <1>3, <2>1 DEF TypeInv
<1>5. (CallsInv /\ LeavesInv /\ SlotsInv /\ EndsInv)'
  BY <1>2, NothingBuiltYet
<1>6. StateInv'
  BY <1>2, <1>3 DEF StateInv
<1>7. RootInv'
  BY <1>2 DEF RootInv
<1> QED
  BY <1>3, <1>4, <1>5, <1>6, <1>7 DEF TreeInv

\* One hash alone: the root is its leaf.
LEMMA BuildLeafKeepsTree ==
  ASSUME TreeInv, BuildLeaf
  PROVE  TreeInv'
<1>1. TypeInv /\ SpanInv /\ StateInv
  BY DEF TreeInv
<1>2. /\ UNCHANGED <<input, settings, presented>>
      /\ DOMAIN nodes' = {Root} /\ nodes'[Root] = Leaf(input[1], Unused)
      /\ calls' = {} /\ state' = "built" /\ HandledBytes <= HashBytesCount
      /\ Len(input) = 1 /\ input = presented
  BY <1>1 DEF BuildLeaf, settings, StateInv
<1>3. /\ SpanInv' /\ Keys' = Keys /\ HandledBytes' = HandledBytes
      /\ ls_tail_bits_count' \in Nat /\ reassurance_bytes_count' \in Nat \ {0}
      /\ presented' \in Seq(Items)
      /\ \A i \in DOMAIN presented' : presented'[i].presentation_index = i - 1
      /\ Indistinguishable' = Indistinguishable
  BY <1>1, <1>2, SpanIsKept
<1>4. /\ presented' = presented /\ ls_tail_bits_count' = ls_tail_bits_count
      /\ reassurance_bytes_count' = reassurance_bytes_count
      /\ DOMAIN presented = {1} /\ presented # << >>
  <2>1. presented \in Seq(Items) /\ Len(presented) = 1
    BY <1>1, <1>2 DEF TypeInv
  <2>2. DOMAIN presented = 1 .. 1 /\ presented # << >>
    BY <2>1
  <2> QED
    BY <1>2, <2>2 DEF settings
<1>5. IsLeaf(Root)' /\ ~ IsSlots(Root)'
  <2>1. nodes'[Root].kind = "leaf"
    BY <1>2, KindsAreTwo
  <2>2. Root' = Root
    BY DEF Root
  <2> QED
    BY <2>1, <2>2 DEF IsLeaf, IsSlots
<1>6. PICK root : root = Root
  OBVIOUS
<1>7. /\ LeafKeys' = {root} /\ SlotKeys' = {} /\ CallKeys' = {}
      /\ Known' = {root} /\ Ends' = {root}
  <2>1. nodes'[root].kind = "leaf" /\ DOMAIN nodes' = {root}
    BY <1>2, <1>6, KindsAreTwo
  <2>2. LeafKeys' = {root} /\ SlotKeys' = {}
    BY <2>1 DEF LeafKeys, SlotKeys, IsLeaf, IsSlots
  <2>3. CallKeys' = {}
    BY <1>2 DEF CallKeys
  <2> QED
    BY <2>1, <2>2, <2>3 DEF Known, Ends
<1>8. /\ root \in Keys /\ \A h : Matches(h, root) /\ Left(root) = Unused
  BY <1>6, RootFacts
<1>9. TypeInv'
  <2>1. IsFiniteSet({root}) /\ IsFiniteSet({})
    BY FS_Singleton, FS_EmptySet
  <2>2. \A k \in DOMAIN nodes' : IsLeaf(k)'
    <3>1. \A k \in DOMAIN nodes' : k \in LeafKeys'
      BY <1>2, <1>6, <1>7
    <3> QED
      BY <3>1 DEF LeafKeys
  <2> QED
    BY <1>2, <1>3, <1>6, <1>8, <2>1, <2>2 DEF TypeInv
<1>10. StateInv'
  BY <1>2, <1>3, <1>4 DEF StateInv
<1>11. CallsInv' /\ SlotsInv'
  BY <1>2, <1>7 DEF CallsInv, SlotsInv
<1>12. LeavesInv'
  <2>1. nodes'[root] = Leaf(presented[1], Left(root))
    BY <1>2, <1>6, <1>8
  <2>2. IsLeafOf(root, 1)'
    BY <1>4, <2>1 DEF IsLeafOf, Leaf, Left, Unused, HandledBytes
  <2> QED
    BY <1>4, <1>7, <1>8, <2>2 DEF LeavesInv
<1>13. EndsInv'
  BY <1>7 DEF EndsInv
<1>14. RootInv'
  <2>1. Cardinality({root}) = 1 /\ Cardinality({}) = 0
    BY FS_Singleton, FS_EmptySet
  <2>2. CountInv'
    BY <1>7, <2>1 DEF CountInv
  <2>3. Root' = root
    BY <1>6 DEF Root
  <2> QED
    BY <1>7, <2>2, <2>3 DEF RootInv
<1> QED
  BY <1>3, <1>9, <1>10, <1>11, <1>12, <1>13, <1>14 DEF TreeInv

\* More than one: the first call has the whole span.
LEMMA BuildTreeKeepsTree ==
  ASSUME TreeInv, BuildTree
  PROVE  TreeInv'
<1>1. TypeInv /\ SpanInv /\ StateInv
  BY DEF TreeInv
<1>2. PICK n \in Nat : n = Len(input)
  BY <1>1 DEF SpanInv
<1>3. PICK root : root = Root
  OBVIOUS
<1>4. PICK c : c = [key |-> root, from |-> 1, to |-> n]
  OBVIOUS
<1>5. c.key = root /\ c.from = 1 /\ c.to = n
  BY <1>4
<1>6. /\ UNCHANGED <<input, settings, presented>>
      /\ nodes' = nodes /\ DOMAIN nodes = {} /\ n > 1
      /\ calls' = {c} /\ state' = "building" /\ HandledBytes <= HashBytesCount
  BY <1>1, <1>2, <1>3, <1>4 DEF BuildTree, settings, StateInv
<1>7. /\ SpanInv' /\ Keys' = Keys /\ HandledBytes' = HandledBytes
      /\ ls_tail_bits_count' \in Nat /\ reassurance_bytes_count' \in Nat \ {0}
      /\ presented' \in Seq(Items)
      /\ \A i \in DOMAIN presented' : presented'[i].presentation_index = i - 1
      /\ Indistinguishable' = Indistinguishable
  BY <1>1, <1>6, SpanIsKept
<1>8. root \in Keys /\ \A h : Matches(h, root)
  BY <1>3, RootFacts
<1>9. /\ LeafKeys' = {} /\ SlotKeys' = {} /\ CallKeys' = {root}
      /\ Known' = {root} /\ Ends' = {root}
  <2>1. LeafKeys' = {} /\ SlotKeys' = {}
    BY <1>6 DEF LeafKeys, SlotKeys
  <2>2. CallKeys' = {root}
    BY <1>5, <1>6 DEF CallKeys
  <2> QED
    BY <1>6, <2>1, <2>2 DEF Known, Ends
<1>10. TypeInv'
  <2>1. (IsFiniteSet(DOMAIN nodes) /\ IsFiniteSet(calls))'
    BY <1>6, FS_EmptySet, FS_Singleton
  <2>2. calls' \subseteq [key : Keys, from : Nat, to : Nat]
    BY <1>4, <1>6, <1>8
  <2> QED
    BY <1>6, <1>7, <2>1, <2>2 DEF TypeInv
<1>11. input \in Seq(Items) /\ DOMAIN input = 1 .. n /\ Len(presented) = n
       /\ input' = input /\ presented' = presented
  BY <1>1, <1>2, <1>6 DEF SpanInv
<1>12. presented # << >>
  BY <1>6, <1>11
<1>13. StateInv'
  BY <1>6, <1>7, <1>11, <1>12 DEF StateInv
<1>14. CallsInv'
  <2>1. Span(c) = 1 .. n
    BY <1>5 DEF Span
  <2>2. Span(c)' = Span(c)
    BY DEF Span
  <2>3. \A p \in DOMAIN input : p \in Span(c) /\ Matches(input[p].hash, c.key)
    BY <1>5, <1>8, <1>11, <2>1
  <2>4. \A d \in calls' : d = c
    BY <1>6
  <2>5. \A d \in calls' : 1 <= d.from /\ d.from < d.to /\ d.to <= Len(input')
    BY <1>2, <1>5, <1>6, <1>11, <2>4
  <2>6. \A d \in calls' : \A p \in DOMAIN input' : p \in Span(d) <=> Matches(input'[p].hash, d.key)
    BY <1>11, <2>3, <2>4
  <2>7. CallKeys' \cap DOMAIN nodes' = {}
    BY <1>6
  <2> QED
    BY <2>4, <2>5, <2>6, <2>7 DEF CallsInv, Span, Matches
<1>15. LeavesInv' /\ SlotsInv' /\ EndsInv'
  BY <1>9 DEF LeavesInv, SlotsInv, EndsInv
<1>16. RootInv'
  <2>1. Cardinality({root}) = 1 /\ Cardinality({}) = 0
    BY FS_Singleton, FS_EmptySet
  <2>2. CountInv'
    BY <1>9, <2>1 DEF CountInv
  <2>3. Root' = root
    BY <1>3 DEF Root
  <2> QED
    BY <1>9, <2>2, <2>3 DEF RootInv
<1> QED
  BY <1>7, <1>10, <1>13, <1>14, <1>15, <1>16 DEF TreeInv

LEMMA StutterKeepsTree == TreeInv /\ UNCHANGED vars => TreeInv'
<1> SUFFICES ASSUME TreeInv, UNCHANGED vars PROVE TreeInv'
  OBVIOUS
<1>1. /\ input' = input /\ ls_tail_bits_count' = ls_tail_bits_count
      /\ reassurance_bytes_count' = reassurance_bytes_count
      /\ state' = state /\ nodes' = nodes /\ calls' = calls /\ presented' = presented
  BY DEF vars, settings
<1>2. TypeInv' /\ SpanInv'
  BY <1>1 DEF TreeInv, TypeInv, SpanInv, Keys, Unused, HandledBytes, IsLeaf, IsSlots
<1>3. StateInv'
  BY <1>1 DEF TreeInv, StateInv, HandledBytes, Indistinguishable, Agreement, Unused
<1>4. /\ LeafKeys' = LeafKeys /\ SlotKeys' = SlotKeys /\ CallKeys' = CallKeys
      /\ Known' = Known /\ Ends' = Ends
  BY <1>1 DEF LeafKeys, SlotKeys, CallKeys, Known, Ends, IsLeaf, IsSlots
<1>5. CallsInv'
  BY <1>1, <1>4 DEF TreeInv, CallsInv, Span, Matches
<1>6. \A k, i : IsLeafOf(k, i)' = IsLeafOf(k, i)
  BY <1>1 DEF IsLeafOf, Leaf, Left, Unused, HandledBytes
<1>7. LeavesInv'
  BY <1>1, <1>4, <1>6 DEF TreeInv, LeavesInv, Matches
<1>8. SlotsInv'
  BY <1>1, <1>4 DEF TreeInv, SlotsInv, Left, Unused, HandledBytes
<1>9. EndsInv'
  BY <1>1, <1>4 DEF TreeInv, EndsInv
<1>10. RootInv'
  BY <1>1, <1>4 DEF TreeInv, RootInv, CountInv, Indistinguishable, Agreement, Unused,
                    HandledBytes, Root
<1> QED
  BY <1>2, <1>3, <1>5, <1>7, <1>8, <1>9, <1>10 DEF TreeInv

LEMMA NextKeepsTree == TreeInv /\ [Next]_vars => TreeInv'
<1> SUFFICES ASSUME TreeInv, [Next]_vars PROVE TreeInv'
  OBVIOUS
<1>1. CASE \E h \in Hashes : Present(h)
  BY <1>1, PresentKeepsTree
<1>2. CASE Refuse \/ BuildEmpty \/ \E c \in calls : Throw(c)
  BY <1>2, EmptyKeepsTree
<1>3. CASE BuildLeaf
  BY <1>3, BuildLeafKeepsTree
<1>4. CASE BuildTree
  BY <1>4, BuildTreeKeepsTree
<1>5. CASE \E c \in calls : Recurse(c)
  BY <1>5, RecurseKeepsTree
<1>6. CASE UNCHANGED vars
  BY <1>6, StutterKeepsTree
<1> QED
  BY <1>1, <1>2, <1>3, <1>4, <1>5, <1>6 DEF Next

\* The span holds what was presented, each call the items that match its key,
\* each leaf the one that matches its own, and each node the slots it needs.
THEOREM TreeIsConsistent == Spec => []TreeInv
<1>1. Init => TreeInv
  BY InitTree
<1>2. TreeInv /\ [Next]_vars => TreeInv'
  BY NextKeepsTree
<1> QED
  BY <1>1, <1>2, PTL DEF Spec

-----------------------------------------------------------------------------
\* The way of a lookup

StepFrom(key, target) ==
    IF key \in DOMAIN nodes /\ nodes[key].kind = "slots"
    THEN Under(key, nodes[key].hash_byte_index, target[nodes[key].hash_byte_index])
    ELSE key

IsWay(way, n, target) ==
    way = [m \in 0 .. n |-> IF m = 0 THEN Root ELSE StepFrom(way[m - 1], target)]

\* The loop has a next node for each number of rounds.
LEMMA WaysExist ==
  ASSUME NEW target, NEW n \in Nat
  PROVE  \E way : IsWay(way, n, target)
<1> DEFINE T == {m \in Nat : ~ \E way : IsWay(way, m, target)}
<1>1. SUFFICES ASSUME T # {} PROVE FALSE
  OBVIOUS
<1>2. PICK m \in T : \A k \in T : m <= k
  <2>1. T \in SUBSET Nat
    OBVIOUS
  <2> HIDE DEF T
  <2> QED
    BY <1>1, <2>1, LeastNumber
<1>3. m \in Nat /\ ~ \E way : IsWay(way, m, target)
  BY <1>2
<1>4. m # 0
  <2>1. SUFFICES ASSUME m = 0 PROVE FALSE
    OBVIOUS
  <2>2. PICK way : way = [k \in 0 .. 0 |-> Root]
    OBVIOUS
  <2>3. IsWay(way, 0, target)
    BY <2>2 DEF IsWay
  <2> QED
    BY <1>3, <2>1, <2>3
<1>5. m - 1 \in Nat /\ m - 1 \notin T
  BY <1>2, <1>3, <1>4
<1>6. PICK short : IsWay(short, m - 1, target)
  BY <1>5
<1>7. PICK way : way = [k \in 0 .. m |-> IF k = m THEN StepFrom(short[m - 1], target) ELSE short[k]]
  OBVIOUS
<1>8. \A k \in 0 .. m - 1 : way[k] = short[k]
  BY <1>3, <1>7
<1>9. \A k \in 0 .. m : way[k] = IF k = 0 THEN Root ELSE StepFrom(way[k - 1], target)
  <2> SUFFICES ASSUME NEW k \in 0 .. m
               PROVE  way[k] = IF k = 0 THEN Root ELSE StepFrom(way[k - 1], target)
    OBVIOUS
  <2>1. CASE k = m
    <3>1. way[m] = StepFrom(short[m - 1], target) /\ way[m - 1] = short[m - 1]
      BY <1>3, <1>4, <1>7, <1>8
    <3> QED
      BY <1>4, <2>1, <3>1
  <2>2. CASE k # m
    <3>1. k \in 0 .. m - 1 /\ way[k] = short[k]
      BY <1>3, <1>8, <2>2
    <3>2. short[k] = IF k = 0 THEN Root ELSE StepFrom(short[k - 1], target)
      BY <1>6, <3>1 DEF IsWay
    <3>3. k # 0 => way[k - 1] = short[k - 1]
      BY <1>8, <3>1
    <3> QED
      BY <3>1, <3>2, <3>3
  <2> QED
    BY <2>1, <2>2
<1>10. IsWay(way, m, target)
  BY <1>7, <1>9 DEF IsWay
<1> QED
  BY <1>3, <1>10

LEMMA WayFacts ==
  ASSUME NEW target, NEW way, way = NodesOnTheWay(target)
  PROVE  /\ way[0] = Root
         /\ \A n \in 1 .. HashBytesCount : way[n] = StepFrom(way[n - 1], target)
<1>1. HashBytesCount \in Nat
  BY ShallowTreeAssumption
<1>2. \E w : IsWay(w, HashBytesCount, target)
  BY <1>1, WaysExist
<1>3. NodesOnTheWay(target) = CHOOSE w : IsWay(w, HashBytesCount, target)
  BY DEF NodesOnTheWay, IsWay, StepFrom
<1>4. IsWay(way, HashBytesCount, target)
  BY <1>2, <1>3
<1> QED
  BY <1>1, <1>4 DEF IsWay

\* A property of the root that each round keeps holds all the way.
LEMMA AllTheWay ==
  ASSUME NEW S \in SUBSET Nat, 0 \in S,
         \A n \in 1 .. HashBytesCount : n - 1 \in S => n \in S
  PROVE  \A n \in 0 .. HashBytesCount : n \in S
<1>1. HashBytesCount \in Nat
  BY ShallowTreeAssumption
<1> DEFINE T == {n \in 0 .. HashBytesCount : n \notin S}
<1>2. SUFFICES ASSUME T # {} PROVE FALSE
  OBVIOUS
<1>3. PICK m \in T : \A k \in T : m <= k
  <2>1. T \in SUBSET Nat
    OBVIOUS
  <2> HIDE DEF T
  <2> QED
    BY <1>2, <2>1, LeastNumber
<1>4. m \in 1 .. HashBytesCount /\ m \notin S
  BY <1>1, <1>3
<1>5. m - 1 \in 0 .. HashBytesCount /\ m - 1 \notin T
  BY <1>1, <1>3, <1>4
<1> QED
  BY <1>4, <1>5

\* Each round examines one more byte, which the key then has.
LEMMA WayMatches ==
  ASSUME TypeInv, SlotsInv, NEW target \in Hashes, NEW way, way = NodesOnTheWay(target),
         NEW n \in 0 .. HashBytesCount
  PROVE  /\ way[n] \in Keys
         /\ Matches(target, way[n])
         /\ way[n] \in SlotKeys => Cardinality(DOMAIN way[n]) = n
<1> DEFINE S == {m \in 0 .. HashBytesCount :
                   /\ way[m] \in Keys
                   /\ Matches(target, way[m])
                   /\ way[m] \in SlotKeys => Cardinality(DOMAIN way[m]) = m}
<1>1. /\ way[0] = Root
      /\ \A m \in 1 .. HashBytesCount : way[m] = StepFrom(way[m - 1], target)
  BY WayFacts
<1>2. HashBytesCount \in Nat
  BY ShallowTreeAssumption
<1>3. 0 \in S
  <2>1. way[0] \in Keys /\ Matches(target, way[0]) /\ DOMAIN way[0] = {}
    BY <1>1, RootFacts
  <2> QED
    BY <1>2, <2>1, FS_EmptySet
<1>4. ASSUME NEW m \in 1 .. HashBytesCount, m - 1 \in S
      PROVE  m \in S
  <2>1. PICK k : k = way[m - 1]
    OBVIOUS
  <2>2. /\ k \in Keys /\ Matches(target, k)
        /\ k \in SlotKeys => Cardinality(DOMAIN k) = m - 1
    BY <1>4, <2>1
  <2>3. way[m] = StepFrom(k, target)
    BY <1>1, <2>1
  <2>4. CASE k \in SlotKeys
    <3>1. k \in DOMAIN nodes /\ nodes[k].kind = "slots"
      BY <2>4 DEF SlotKeys, IsSlots
    <3>2. PICK b \in Left(k) : b = nodes[k].hash_byte_index
      BY <2>4 DEF SlotsInv
    <3>3. b \in 0 .. HashBytesCount - 1 /\ IsFiniteSet(Unused)
      BY <3>2, UnusedFacts DEF Left
    <3>4. PICK v \in Bytes : v = target[b]
      BY <3>3 DEF Hashes
    <3>5. way[m] = Under(k, b, v)
      BY <2>3, <3>1, <3>2, <3>4 DEF StepFrom
    <3>6. Under(k, b, v) \in Keys /\ DOMAIN Under(k, b, v) = DOMAIN k \cup {b}
      BY <2>2, UnderFacts
    <3>7. Matches(target, Under(k, b, v))
      BY <2>2, <3>4, UnderMatches
    <3>8. Cardinality(DOMAIN k \cup {b}) = m
      <4>1. IsFiniteSet(DOMAIN k) /\ b \notin DOMAIN k
        BY <2>2, <3>2, <3>3, KeyFacts, FS_Subset DEF Left
      <4>2. Cardinality(DOMAIN k \cup {b}) = Cardinality(DOMAIN k) + 1
        BY <4>1, FS_AddElement
      <4> QED
        BY <1>2, <2>2, <2>4, <4>2
    <3>9. PICK u : u = way[m]
      OBVIOUS
    <3>10. u \in Keys /\ Matches(target, u) /\ Cardinality(DOMAIN u) = m
      BY <3>5, <3>6, <3>7, <3>8, <3>9
    <3> QED
      BY <1>2, <3>9, <3>10
  <2>5. CASE k \notin SlotKeys
    <3>1. way[m] = k
      BY <2>3, <2>5 DEF StepFrom, SlotKeys, IsSlots
    <3> QED
      BY <1>2, <2>2, <2>5, <3>1
  <2> QED
    BY <2>4, <2>5
<1>5. S \in SUBSET Nat
  BY <1>2
<1>6. n \in S
  <2> HIDE DEF S
  <2> QED
    BY <1>3, <1>4, <1>5, AllTheWay
<1> QED
  BY <1>6

\* There are not enough bytes for the loop to go on.
LEMMA WayEnds ==
  ASSUME TypeInv, SlotsInv, NEW target \in Hashes
  PROVE  /\ NodesOnTheWay(target)[HashBytesCount] \in Keys \ SlotKeys
         /\ Matches(target, NodesOnTheWay(target)[HashBytesCount])
<1>1. PICK way : way = NodesOnTheWay(target)
  OBVIOUS
<1>2. HashBytesCount \in 0 .. HashBytesCount
  BY ShallowTreeAssumption
<1>3. PICK k : k = way[HashBytesCount]
  OBVIOUS
<1>4. /\ k \in Keys /\ Matches(target, k)
      /\ k \in SlotKeys => Cardinality(DOMAIN k) = HashBytesCount
  BY <1>1, <1>2, <1>3, WayMatches
<1>5. k \notin SlotKeys
  <2> SUFFICES ASSUME k \in SlotKeys PROVE FALSE
    OBVIOUS
  <2>1. PICK b \in Left(k) : b = nodes[k].hash_byte_index
    BY DEF SlotsInv
  <2>2. DOMAIN k \subseteq Unused /\ b \in Unused /\ b \notin DOMAIN k
    BY <1>4, <2>1, KeyFacts DEF Left
  <2>3. /\ IsFiniteSet(Unused) /\ Cardinality(Unused) \in Nat
        /\ Cardinality(Unused) <= HashBytesCount /\ HashBytesCount \in Nat
    BY UnusedFacts
  <2>4. Cardinality(DOMAIN k) <= Cardinality(Unused) /\ Cardinality(DOMAIN k) # Cardinality(Unused)
    BY <2>2, <2>3, FS_Subset
  <2> QED
    BY <1>4, <2>3, <2>4
<1> QED
  BY <1>1, <1>3, <1>4, <1>5

\* In a tree that is built, the way of a presentation ends in its leaf.
LEMMA WayOfPresented ==
  ASSUME TreeInv, IsBuilt, NEW i \in DOMAIN presented
  PROVE  LET k == NodesOnTheWay(presented[i].hash)[HashBytesCount]
         IN  /\ k \in LeafKeys /\ IsLeafOf(k, i)
             /\ \A j \in DOMAIN presented : Matches(presented[j].hash, k) <=> j = i
<1> DEFINE target == presented[i].hash
<1>1. TypeInv /\ SlotsInv /\ LeavesInv /\ RootInv /\ StateInv
  BY DEF TreeInv
<1>2. target \in Hashes /\ presented # << >>
  <2>1. presented \in Seq(Items)
    BY <1>1 DEF TypeInv
  <2>2. presented[i] \in Items /\ presented # << >>
    BY <2>1
  <2> QED
    BY <2>2 DEF Items
<1>3. PICK way : way = NodesOnTheWay(target)
  OBVIOUS
<1>4. /\ way[0] = Root
      /\ \A m \in 1 .. HashBytesCount : way[m] = StepFrom(way[m - 1], target)
  BY <1>3, WayFacts
<1>5. Known = DOMAIN nodes
  BY <1>1 DEF Known, CallKeys, StateInv, IsBuilt
<1>6. HashBytesCount \in Nat
  BY ShallowTreeAssumption
<1> DEFINE S == {m \in 0 .. HashBytesCount : way[m] \in DOMAIN nodes}
<1>7. 0 \in S
  BY <1>1, <1>2, <1>4, <1>5, <1>6 DEF RootInv, IsBuilt
<1>8. ASSUME NEW m \in 1 .. HashBytesCount, m - 1 \in S
      PROVE  m \in S
  <2>1. PICK k : k = way[m - 1]
    OBVIOUS
  <2>2. k \in DOMAIN nodes /\ way[m] = StepFrom(k, target) /\ m - 1 \in 0 .. HashBytesCount
    BY <1>4, <1>8, <2>1
  <2>3. CASE k \in SlotKeys
    <3>1. Matches(target, k)
      BY <1>1, <1>2, <1>3, <2>1, <2>2, WayMatches
    <3>2. Under(k, nodes[k].hash_byte_index, target[nodes[k].hash_byte_index]) \in DOMAIN nodes
      BY <1>1, <1>5, <2>3, <3>1 DEF SlotsInv
    <3>3. way[m] \in DOMAIN nodes
      BY <2>2, <2>3, <3>2 DEF StepFrom, SlotKeys, IsSlots
    <3> QED
      BY <1>6, <3>3
  <2>4. CASE k \notin SlotKeys
    <3>1. way[m] = k
      BY <2>2, <2>4 DEF StepFrom, SlotKeys, IsSlots
    <3> QED
      BY <1>6, <2>2, <3>1
  <2> QED
    BY <2>3, <2>4
<1>9. PICK k : k = way[HashBytesCount]
  OBVIOUS
<1>10. k \in DOMAIN nodes
  <2>1. S \in SUBSET Nat
    BY <1>6
  <2>2. HashBytesCount \in S
    <3> HIDE DEF S
    <3> QED
      BY <1>6, <1>7, <1>8, <2>1, AllTheWay
  <2> QED
    BY <1>9, <2>2
<1>11. k \notin SlotKeys /\ Matches(target, k)
  BY <1>1, <1>2, <1>3, <1>9, WayEnds
<1>12. k \in LeafKeys
  BY <1>1, <1>10, <1>11 DEF TypeInv, LeafKeys, SlotKeys
<1>13. PICK n \in DOMAIN presented :
         /\ IsLeafOf(k, n)
         /\ \A j \in DOMAIN presented : Matches(presented[j].hash, k) <=> j = n
  BY <1>1, <1>12 DEF LeavesInv
<1>14. n = i
  BY <1>11, <1>13
<1> QED
  BY <1>3, <1>9, <1>12, <1>13, <1>14

-----------------------------------------------------------------------------
\* Reassurance

\* The ranks of the bytes count up from one.
LEMMA RankFacts ==
  ASSUME NEW left \in SUBSET Nat, IsFiniteSet(left), NEW b \in left
  PROVE  /\ Rank(b, left) \in Nat \ {0}
         /\ \A d \in left : Rank(b, left) = Rank(d, left) => b = d
<1> DEFINE UpToByte(d) == {e \in left : e <= d}
<1>1. ASSUME NEW d \in left
      PROVE  /\ IsFiniteSet(UpToByte(d)) /\ Cardinality(UpToByte(d)) \in Nat \ {0}
             /\ Rank(d, left) = Cardinality(UpToByte(d))
  <2>1. UpToByte(d) \subseteq left /\ d \in UpToByte(d)
    OBVIOUS
  <2>2. Rank(d, left) = Cardinality(UpToByte(d))
    BY DEF Rank
  <2> HIDE DEF UpToByte
  <2>3. IsFiniteSet(UpToByte(d)) /\ Cardinality(UpToByte(d)) \in Nat
    BY <2>1, FS_Subset, FS_CardinalityType
  <2>4. Cardinality(UpToByte(d)) # 0
    BY <2>1, <2>3, FS_EmptySet
  <2> QED
    BY <2>2, <2>3, <2>4
<1>2. ASSUME NEW d \in left, NEW e \in left, d < e
      PROVE  Rank(d, left) # Rank(e, left)
  <2>1. UpToByte(d) \subseteq UpToByte(e) /\ e \in UpToByte(e) /\ e \notin UpToByte(d)
    <3>1. left \subseteq Nat /\ d \in Nat /\ e \in Nat
      OBVIOUS
    <3>2. \A x \in UpToByte(d) : x \in UpToByte(e)
      <4> SUFFICES ASSUME NEW x \in left, x <= d PROVE x <= e
        OBVIOUS
      <4>1. x \in Nat
        BY <3>1
      <4> QED
        BY <1>2, <3>1, <4>1
    <3>3. e <= e /\ ~ (e <= d)
      BY <1>2, <3>1
    <3> QED
      BY <3>2, <3>3
  <2>2. UpToByte(d) # UpToByte(e)
    BY <2>1
  <2>3. /\ IsFiniteSet(UpToByte(e)) /\ Rank(e, left) = Cardinality(UpToByte(e))
        /\ Rank(d, left) = Cardinality(UpToByte(d))
    BY <1>1
  <2> HIDE DEF UpToByte
  <2> QED
    BY <2>1, <2>2, <2>3, FS_Subset
<1>3. \A d \in left : Rank(b, left) = Rank(d, left) => b = d
  <2> SUFFICES ASSUME NEW d \in left, Rank(b, left) = Rank(d, left) PROVE b = d
    OBVIOUS
  <2>1. ~ (b < d) /\ ~ (d < b)
    BY <1>2
  <2> QED
    BY <2>1
<1> QED
  BY <1>1, <1>3

\* The bytes that reassure: as many as are asked for, or all that are left.
LEMMA ReassuranceIsLongEnough ==
  ASSUME NEW left \in SUBSET Nat, IsFiniteSet(left), NEW n \in Nat,
         NEW S, S = {b \in left : Rank(b, left) <= n}
  PROVE  /\ IsFiniteSet(S) /\ Cardinality(S) \in Nat
         /\ S = left \/ Cardinality(S) >= n
<1>1. S \subseteq left /\ IsFiniteSet(S) /\ Cardinality(S) \in Nat
  BY FS_Subset, FS_CardinalityType
<1>2. ASSUME S # left PROVE Cardinality(S) >= n
  <2> DEFINE T == left \ S
  <2>1. PICK b \in T : \A d \in T : b <= d
    <3>1. T \in SUBSET Nat /\ T # {}
      BY <1>1, <1>2
    <3> HIDE DEF T
    <3> QED
      BY <3>1, LeastNumber
  <2>2. Rank(b, left) \in Nat /\ ~ (Rank(b, left) <= n)
    BY <2>1, RankFacts
  <2> DEFINE UpToByte == {d \in left : d <= b}
  <2>3. UpToByte \in SUBSET (S \cup {b})
    <3>1. \A d \in UpToByte : d \in T => d = b
      <4> SUFFICES ASSUME NEW d \in T, d <= b PROVE d = b
        OBVIOUS
      <4>1. d \in Nat /\ b \in Nat /\ b <= d
        BY <2>1
      <4> QED
        BY <4>1
    <3> QED
      BY <3>1
  <2>4. Rank(b, left) = Cardinality(UpToByte)
    BY DEF Rank
  <2>5. /\ IsFiniteSet(S \cup {b}) /\ Cardinality(S \cup {b}) = Cardinality(S) + 1
    BY <1>1, <2>1, FS_AddElement
  <2> HIDE DEF UpToByte
  <2>6. Cardinality(UpToByte) <= Cardinality(S) + 1
    <3>1. PICK U : U = S \cup {b}
      OBVIOUS
    <3>2. IsFiniteSet(U) /\ UpToByte \in SUBSET U
      BY <2>3, <2>5, <3>1
    <3>3. Cardinality(UpToByte) <= Cardinality(U)
      BY <3>2, FS_Subset
    <3> QED
      BY <2>5, <3>1, <3>3
  <2> QED
    BY <1>1, <2>2, <2>4, <2>6
<1> QED
  BY <1>1, <1>2

\* A leaf compares the bytes of its presentation.
LEMMA ReassuranceCompares ==
  ASSUME NEW left \in SUBSET Nat, IsFiniteSet(left), reassurance_bytes_count \in Nat,
         NEW item, NEW target
  PROVE  Reassured(Leaf(item, left), target, left) <=>
           \A b \in left : Rank(b, left) <= reassurance_bytes_count => target[b] = item.hash[b]
<1>1. ASSUME NEW b \in left, Rank(b, left) <= reassurance_bytes_count
      PROVE  Leaf(item, left).reassurance[Rank(b, left)] = item.hash[b]
  <2>1. PICK r \in Nat \ {0} : r = Rank(b, left)
    BY RankFacts
  <2>2. r \in 1 .. reassurance_bytes_count
    BY <1>1, <2>1
  <2>3. \A d \in left : Rank(d, left) = r => d = b
    BY <2>1, RankFacts
  <2>4. (CHOOSE d \in left : Rank(d, left) = r) = b
    BY <2>1, <2>3
  <2>5. Leaf(item, left).reassurance[r] = item.hash[CHOOSE d \in left : Rank(d, left) = r]
    BY <2>1, <2>2 DEF Leaf
  <2> QED
    BY <2>1, <2>4, <2>5
<1> QED
  BY <1>1 DEF Reassured

-----------------------------------------------------------------------------
\* The properties

LEMMA LeftIsFinite ==
  ASSUME TypeInv, NEW k
  PROVE  Left(k) \in SUBSET Nat /\ IsFiniteSet(Left(k)) /\ Left(k) \subseteq Unused
BY UnusedFacts, FS_Subset DEF Left

LEMMA TreeFindsPresented ==
  ASSUME TreeInv, IsBuilt, NEW i \in DOMAIN presented
  PROVE  Candidate(presented[i].hash) = presented[i].presentation_index
<1>1. PICK k : k = NodesOnTheWay(presented[i].hash)[HashBytesCount]
  OBVIOUS
<1>2. k \in LeafKeys /\ IsLeafOf(k, i)
  BY <1>1, WayOfPresented
<1>3. k \in DOMAIN nodes /\ nodes[k] = Leaf(presented[i], Left(k))
  BY <1>2 DEF LeafKeys, IsLeafOf
<1>4. TypeInv /\ reassurance_bytes_count \in Nat
  BY DEF TreeInv, TypeInv
<1>5. Reassured(nodes[k], presented[i].hash, Left(k))
  BY <1>3, <1>4, LeftIsFinite, ReassuranceCompares
<1>6. nodes[k].presentation_index = presented[i].presentation_index
  BY <1>3, KindsAreTwo
<1> QED
  BY <1>1, <1>3, <1>5, <1>6 DEF Candidate

\* Each presented hash is found under its own index, unless two of them agree
\* on all bytes outside of the tail, and the span holds what it held.
THEOREM LookupAlwaysFindsPresented == Spec => []LookupFindsPresented
<1>1. TreeInv => LookupFindsPresented
  <2> SUFFICES ASSUME TreeInv PROVE LookupFindsPresented
    OBVIOUS
  <2>1. SpanInv /\ StateInv
    BY DEF TreeInv
  <2>2. ToSet(input) = ToSet(presented)
    BY <2>1 DEF SpanInv, ToSet
  <2>3. Len(input) = Len(presented) /\ (state = "duplicate" => Indistinguishable)
    BY <2>1 DEF SpanInv, StateInv
  <2> QED
    BY <2>2, <2>3, TreeFindsPresented DEF LookupFindsPresented
<1> QED
  BY <1>1, TreeIsConsistent, PTL

\* What a lookup answers is a presentation that matches all that was compared.
LEMMA AnswerFacts ==
  ASSUME TreeInv, IsBuilt, NEW target \in Hashes, Candidate(target) # NoMatch
  PROVE  \E k \in LeafKeys : \E i \in DOMAIN presented :
           /\ k \in Keys /\ Matches(target, k)
           /\ presented[i].presentation_index = Candidate(target)
           /\ \A j \in DOMAIN presented : Matches(presented[j].hash, k) <=> j = i
           /\ \A b \in Left(k) :
                Rank(b, Left(k)) <= reassurance_bytes_count => target[b] = presented[i].hash[b]
<1>1. TypeInv /\ SlotsInv /\ LeavesInv /\ reassurance_bytes_count \in Nat
  BY DEF TreeInv, TypeInv
<1>2. PICK k : k = NodesOnTheWay(target)[HashBytesCount]
  OBVIOUS
<1>3. k \in Keys /\ k \notin SlotKeys /\ Matches(target, k)
  BY <1>1, <1>2, WayEnds
<1>4. /\ k \in DOMAIN nodes /\ Reassured(nodes[k], target, Left(k))
      /\ Candidate(target) = nodes[k].presentation_index
  BY <1>2 DEF Candidate
<1>5. k \in LeafKeys
  BY <1>1, <1>3, <1>4 DEF TypeInv, LeafKeys, SlotKeys
<1>6. PICK i \in DOMAIN presented :
        /\ IsLeafOf(k, i)
        /\ \A j \in DOMAIN presented : Matches(presented[j].hash, k) <=> j = i
  BY <1>1, <1>5 DEF LeavesInv
<1>7. nodes[k] = Leaf(presented[i], Left(k))
  BY <1>6 DEF IsLeafOf
<1>8. presented[i].presentation_index = Candidate(target)
  BY <1>4, <1>7, KindsAreTwo
<1>9. \A b \in Left(k) :
        Rank(b, Left(k)) <= reassurance_bytes_count => target[b] = presented[i].hash[b]
  BY <1>1, <1>4, <1>7, LeftIsFinite, ReassuranceCompares
<1> QED
  BY <1>3, <1>5, <1>6, <1>8, <1>9

\* An answer agrees with its target on as many bytes as were to reassure, and
\* on one more if there was a choice, or on all there are.
THEOREM AnswersAreAlwaysReassured == Spec => []AnswersAreReassured
<1>1. TreeInv => AnswersAreReassured
  <2> SUFFICES ASSUME TreeInv, IsBuilt, NEW target \in Hashes, Candidate(target) # NoMatch
               PROVE  \E p \in ToSet(presented) :
                        /\ p.presentation_index = Candidate(target)
                        /\ Cardinality(Agreement(target, p.hash)) >=
                             Min({Cardinality(Unused),
                                  reassurance_bytes_count
                                    + (IF Len(presented) > 1 THEN 1 ELSE 0)})
    BY DEF AnswersAreReassured
  <2>1. PICK k \in LeafKeys : \E i \in DOMAIN presented :
           /\ k \in Keys /\ Matches(target, k)
           /\ presented[i].presentation_index = Candidate(target)
           /\ \A j \in DOMAIN presented : Matches(presented[j].hash, k) <=> j = i
           /\ \A b \in Left(k) :
                Rank(b, Left(k)) <= reassurance_bytes_count => target[b] = presented[i].hash[b]
    BY AnswerFacts
  <2>2. PICK i \in DOMAIN presented :
           /\ k \in Keys /\ Matches(target, k)
           /\ presented[i].presentation_index = Candidate(target)
           /\ \A j \in DOMAIN presented : Matches(presented[j].hash, k) <=> j = i
           /\ \A b \in Left(k) :
                Rank(b, Left(k)) <= reassurance_bytes_count => target[b] = presented[i].hash[b]
    BY <2>1
  <2>3. PICK n \in Nat : n = reassurance_bytes_count
    BY DEF TreeInv, TypeInv
  <2>4. /\ DOMAIN k \subseteq Unused /\ IsFiniteSet(Unused) /\ Cardinality(Unused) \in Nat
        /\ Left(k) \in SUBSET Nat /\ IsFiniteSet(Left(k))
    BY <2>2, KeyFacts, UnusedFacts, LeftIsFinite DEF TreeInv
  <2> DEFINE S == {b \in Left(k) : Rank(b, Left(k)) <= n}
             A == Agreement(target, presented[i].hash)
  <2>5. IsFiniteSet(S) /\ Cardinality(S) \in Nat /\ (S = Left(k) \/ Cardinality(S) >= n)
    BY <2>4, ReassuranceIsLongEnough
  <2>6. DOMAIN k \cup S \subseteq A
    <3>1. \A b \in DOMAIN k : target[b] = presented[i].hash[b]
      BY <2>2 DEF Matches
    <3>2. \A b \in S : target[b] = presented[i].hash[b] /\ b \in Unused
      BY <2>2, <2>3 DEF Left
    <3> HIDE DEF S
    <3> QED
      BY <2>4, <3>1, <3>2 DEF Agreement
  <2>7. A \subseteq Unused /\ IsFiniteSet(A) /\ Cardinality(A) \in Nat
    BY <2>4, FS_Subset, FS_CardinalityType DEF Agreement
  <2>8. PICK a \in Nat : a = Cardinality(A)
    BY <2>7
  <2>9. PICK u \in Nat : u = Cardinality(Unused)
    BY <2>4
  <2>10. PICK m \in {0, 1} : m = IF Len(presented) > 1 THEN 1 ELSE 0
    OBVIOUS
  <2>11. a = u \/ a >= n + m
    <3>1. CASE S = Left(k)
      <4>1. A = Unused
        BY <2>4, <2>6, <2>7, <3>1 DEF Left
      <4> QED
        BY <2>8, <2>9, <4>1
    <3>2. CASE Cardinality(S) >= n
      <4>1. PICK D : D = DOMAIN k
        OBVIOUS
      <4>2. /\ IsFiniteSet(D) /\ IsFiniteSet(S) /\ D \cap S = {}
            /\ D \cup S \in SUBSET A /\ IsFiniteSet(D \cup S)
        <5>1. IsFiniteSet(D) /\ D \cap S = {}
          BY <2>4, <4>1, FS_Subset DEF Left
        <5> HIDE DEF S, A
        <5> QED
          BY <2>5, <2>6, <4>1, <5>1, FS_Union
      <4>3. Cardinality(D) \in Nat /\ Cardinality(D) >= m
        <5>1. Cardinality(D) \in Nat
          BY <4>2, FS_CardinalityType
        <5>2. SUFFICES ASSUME Cardinality(D) = 0 PROVE m = 0
          BY <5>1
        <5>3. DOMAIN k = {}
          BY <4>1, <4>2, <5>2, FS_EmptySet
        <5>4. \A j \in DOMAIN presented : j = i
          BY <2>2, <5>3 DEF Matches
        <5>5. PICK l \in Nat : l = Len(presented) /\ DOMAIN presented = 1 .. l
          <6>1. presented \in Seq(Items)
            BY DEF TreeInv, TypeInv
          <6> QED
            BY <6>1
        <5>6. ~ (l > 1)
          BY <5>4, <5>5
        <5> QED
          BY <2>10, <5>5, <5>6
      <4>4. PICK s \in Nat : s = Cardinality(S)
        BY <2>5
      <4>5. PICK d \in Nat : d = Cardinality(D)
        BY <4>3
      <4>6. Cardinality(D \cup S) = d + s
        <5> HIDE DEF S, A
        <5>1. Cardinality(D \cup S) = Cardinality(D) + Cardinality(S) - Cardinality(D \cap S)
          BY <4>2, FS_Union
        <5>2. Cardinality(D \cap S) = 0
          BY <4>2, FS_EmptySet
        <5> QED
          BY <4>4, <4>5, <5>1, <5>2
      <4>7. d + s <= a
        <5>1. PICK both : both = D \cup S
          OBVIOUS
        <5>2. PICK agreed : agreed = A
          OBVIOUS
        <5>3. both \in SUBSET agreed /\ IsFiniteSet(agreed)
          BY <2>7, <4>2, <5>1, <5>2
        <5>4. Cardinality(both) <= Cardinality(agreed)
          BY <5>3, FS_Subset
        <5> QED
          BY <2>8, <4>6, <5>1, <5>2, <5>4
      <4> QED
        BY <2>8, <3>2, <4>3, <4>4, <4>5, <4>7
    <3> QED
      BY <2>5, <3>1, <3>2
  <2>12. a >= Min({u, n + m})
    <3>1. PICK t \in Nat : t = n + m
      OBVIOUS
    <3>2. Min({u, t}) \in {u, t} /\ Min({u, t}) <= u /\ Min({u, t}) <= t
      <4>1. PICK both : both = {u, t}
        OBVIOUS
      <4>2. both \in SUBSET Nat /\ both # {} /\ u \in both /\ t \in both
        BY <4>1
      <4> QED
        BY <4>1, <4>2, MinIs
    <3>3. PICK least \in Nat : least = Min({u, t})
      BY <3>2
    <3>4. a >= least
      BY <2>11, <3>1, <3>2, <3>3
    <3> QED
      BY <3>1, <3>3, <3>4
  <2>13. presented[i] \in ToSet(presented)
    BY DEF ToSet
  <2> QED
    BY <2>2, <2>3, <2>8, <2>9, <2>10, <2>12, <2>13
<1> QED
  BY <1>1, TreeIsConsistent, PTL


\* A built tree has told all presentations apart: each has a leaf of its own.
LEMMA BuiltTellsApart ==
  ASSUME TreeInv, IsBuilt
  PROVE  ~ Indistinguishable
<1> SUFFICES ASSUME NEW i \in DOMAIN presented, NEW j \in DOMAIN presented, i # j,
                    Agreement(presented[i].hash, presented[j].hash) = Unused
             PROVE  FALSE
  BY DEF Indistinguishable
<1>1. PICK k : k = NodesOnTheWay(presented[i].hash)[HashBytesCount]
  OBVIOUS
<1>2. /\ k \in LeafKeys
      /\ \A l \in DOMAIN presented : Matches(presented[l].hash, k) <=> l = i
  BY <1>1, WayOfPresented
<1>3. DOMAIN k \subseteq Unused
  BY <1>2, KeyFacts DEF TreeInv, TypeInv, LeafKeys
<1>4. \A b \in Unused : presented[i].hash[b] = presented[j].hash[b]
  BY DEF Agreement
<1>5. Matches(presented[i].hash, k) /\ ~ Matches(presented[j].hash, k)
  BY <1>2
<1> QED
  BY <1>3, <1>4, <1>5 DEF Matches

\* No presentation has two leaves.
LEMMA LeavesAreFew ==
  ASSUME TreeInv
  PROVE  /\ IsFiniteSet(LeafKeys) /\ Cardinality(LeafKeys) \in Nat
         /\ Cardinality(LeafKeys) <= Len(presented)
<1>1. TypeInv /\ LeavesInv /\ EndsInv
  BY DEF TreeInv
<1>2. PICK n \in Nat : n = Len(presented) /\ DOMAIN presented = 1 .. n
  BY <1>1 DEF TypeInv
<1> DEFINE Of(k) == CHOOSE i \in 1 .. n : Matches(presented[i].hash, k)
<1>3. \A k \in LeafKeys : Of(k) \in 1 .. n /\ Matches(presented[Of(k)].hash, k)
  BY <1>1, <1>2 DEF LeavesInv
<1>4. LeafKeys \subseteq Keys
  BY <1>1 DEF LeafKeys, TypeInv
<1>5. ASSUME NEW k \in LeafKeys, NEW m \in LeafKeys, Of(k) = Of(m)
      PROVE  k = m
  <2>1. PICK i \in DOMAIN presented :
           Matches(presented[i].hash, k) /\ Matches(presented[i].hash, m)
    BY <1>2, <1>3, <1>5
  <2>2. k \in Ends /\ m \in Ends /\ k \in Known /\ m \in Known
    BY DEF Ends, Known, LeafKeys
  <2>3. DOMAIN k = DOMAIN m
    BY <1>1, <2>1, <2>2 DEF EndsInv
  <2> QED
    BY <1>4, <2>1, <2>3, MatchedKeysAreEqual
<1>6. PICK f : f = [k \in LeafKeys |-> Of(k)]
  OBVIOUS
<1>7. f \in Injection(LeafKeys, 1 .. n)
  <2>1. \A k \in LeafKeys : f[k] = Of(k)
    BY <1>6
  <2>2. f \in [LeafKeys -> 1 .. n]
    BY <1>3, <1>6
  <2>3. \A k, m \in LeafKeys : f[k] = f[m] => k = m
    <3> HIDE DEF Of
    <3> QED
      BY <1>5, <2>1
  <2> QED
    BY <2>2, <2>3 DEF Injection, IsInjective
<1>8. PICK T : T = 1 .. n
  OBVIOUS
<1>9. IsFiniteSet(T) /\ Cardinality(T) = n
  <2>1. PICK from \in Int, to \in Int : from = 1 /\ to = n
    OBVIOUS
  <2>2. /\ IsFiniteSet(from .. to)
        /\ Cardinality(from .. to) = IF from > to THEN 0 ELSE to - from + 1
    BY FS_Interval
  <2> QED
    BY <1>8, <2>1, <2>2
<1>10. IsFiniteSet(LeafKeys) /\ Cardinality(LeafKeys) <= Cardinality(T)
  BY <1>7, <1>8, <1>9, FS_Injection
<1>11. Cardinality(LeafKeys) \in Nat
  BY <1>10, FS_CardinalityType
<1> QED
  BY <1>2, <1>9, <1>10, <1>11

\* There are fewer nodes with slots than leaves, and as many leaves as hashes.
THEOREM TreeIsAlwaysShallow == Spec => []TreeIsShallow
<1>1. TreeInv => TreeIsShallow
  <2> SUFFICES ASSUME TreeInv, IsBuilt, presented # << >>
               PROVE  count_nodes < 2 * Len(presented)
    BY DEF TreeIsShallow
  <2>1. TypeInv /\ StateInv /\ RootInv
    BY DEF TreeInv
  <2>2. Ends = LeafKeys
    BY <2>1 DEF StateInv, IsBuilt, Ends, CallKeys
  <2>3. Cardinality(SlotKeys) + 1 <= Cardinality(LeafKeys)
    BY <2>1, <2>2, BuiltTellsApart DEF RootInv, CountInv, IsBuilt
  <2>4. /\ DOMAIN nodes = SlotKeys \cup LeafKeys /\ SlotKeys \cap LeafKeys = {}
        /\ IsFiniteSet(SlotKeys)
    <3>1. DOMAIN nodes = SlotKeys \cup LeafKeys /\ SlotKeys \in SUBSET DOMAIN nodes
      BY <2>1 DEF TypeInv, SlotKeys, LeafKeys
    <3>2. SlotKeys \cap LeafKeys = {}
      BY DEF SlotKeys, LeafKeys, IsSlots, IsLeaf
    <3>3. IsFiniteSet(SlotKeys)
      <4>1. PICK N : N = DOMAIN nodes
        OBVIOUS
      <4>2. IsFiniteSet(N) /\ SlotKeys \in SUBSET N
        BY <2>1, <3>1, <4>1 DEF TypeInv
      <4> QED
        BY <4>2, FS_Subset
    <3> QED
      BY <3>1, <3>2, <3>3
  <2>5. PICK s \in Nat : s = Cardinality(SlotKeys)
    BY <2>4, FS_CardinalityType
  <2>6. PICK l \in Nat : l = Cardinality(LeafKeys)
    BY LeavesAreFew
  <2>7. Cardinality(DOMAIN nodes) = s + l
    <3>1. Cardinality(SlotKeys \cup LeafKeys)
            = Cardinality(SlotKeys) + Cardinality(LeafKeys) - Cardinality(SlotKeys \cap LeafKeys)
      BY <2>4, LeavesAreFew, FS_Union
    <3>2. Cardinality(SlotKeys \cap LeafKeys) = 0
      BY <2>4, FS_EmptySet
    <3> QED
      BY <2>4, <2>5, <2>6, <3>1, <3>2
  <2>8. PICK n \in Nat : n = Len(presented)
    BY <2>1 DEF TypeInv
  <2>9. s + 1 <= l /\ l <= n
    BY <2>3, <2>5, <2>6, <2>8, LeavesAreFew
  <2> QED
    BY <2>5, <2>6, <2>7, <2>8, <2>9 DEF count_nodes
<1> QED
  BY <1>1, TreeIsConsistent, PTL
=============================================================================

------------------------------ MODULE DonutFiles ------------------------------
(***************************************************************************)
(* The two files of an ingester donut, what append_hashes writes to them   *)
(* and what hydrate_self_for_lookup makes of them.                         *)
(*                                                                         *)
(* HashesOrder.bin is a header and one entry for each item: the index of   *)
(* its hash in the suffix file, or all ones for a gap.  The suffix file is *)
(* one entry for each hash: the hash (in this tier the prefix has no bits) *)
(* and its local index.  A file is a sequence of these cells; a crash may  *)
(* leave a part of a cell at the end.                                      *)
(***************************************************************************)
EXTENDS Naturals, Sequences, FiniteSets

CONSTANTS
    Hashes,         \* hash values
    NoHash,         \* an optional without a value: a gap
    DonutCapacity   \* ingester_donut_capacity

ASSUME NoHashIsNoHash == NoHash \notin Hashes

ASSUME DonutCapacityAssumption == DonutCapacity \in Nat \ {0}

Items == Hashes \cup {NoHash}

\* A donut in memory: its first index, forward_lookup_vector_ and
\* reverse_lookup_map_.
NewDonut(offset) == [first |-> offset, forward |-> << >>, reverse |-> [h \in {} |-> 0]]

RemainingCapacity(d) == DonutCapacity - Len(d.forward)

NextOffset(d) == d.first + Len(d.forward)

\* The header byte, asserted to be the one value it always has.
Header == 0

\* All ones.  It has as many bytes as the capacity needs, so that no index
\* below the capacity is all ones.
Sentinel == DonutCapacity

\* A file that does not exist, and one that was just created.
NoFile == [there |-> FALSE, cells |-> << >>, torn |-> FALSE]

EmptyFile == [there |-> TRUE, cells |-> << >>, torn |-> FALSE]

-----------------------------------------------------------------------------
\* append_hashes

HashesIn(s) == {s[i] : i \in DOMAIN s} \ {NoHash}

\* How many of the first i items are hashes.
Rank(s, i) == Cardinality({j \in 1 .. i : s[j] # NoHash})

\* Where the k-th hash of s is.
PlaceOfHash(s, k) == CHOOSE i \in DOMAIN s : s[i] # NoHash /\ Rank(s, i) = k

FirstPlace(s, h) == CHOOSE i \in DOMAIN s : s[i] = h /\ \A j \in 1 .. i - 1 : s[j] # h

\* Fault: gaps are counted too.
NextIndexOfItem(d) == Len(d.forward)

\* next_suffix_file_index at the start of a call.
NextSuffixIndex(d) == Cardinality(DOMAIN d.reverse)

\* What is appended to HashesOrder.bin.
OrderCells(d, taken) ==
    [i \in DOMAIN taken |->
        IF taken[i] = NoHash THEN Sentinel
                             ELSE (NextSuffixIndex(d) + Rank(taken, i)) - 1]

\* What is appended to the suffix file.
SuffixCells(d, taken) ==
    [k \in 1 .. Rank(taken, Len(taken)) |->
        [hash |-> taken[PlaceOfHash(taken, k)],
         local_pi |-> (Len(d.forward) + PlaceOfHash(taken, k)) - 1]]

\* Fault: the map is assigned to.
MapAssigned(d, taken) ==
    [h \in DOMAIN d.reverse \cup HashesIn(taken) |->
        IF h \in HashesIn(taken) THEN (Len(d.forward) + FirstPlace(taken, h)) - 1
                                 ELSE d.reverse[h]]

\* The map is inserted into: the first place of a hash stays.
MapInserted(d, taken) ==
    [h \in DOMAIN d.reverse \cup HashesIn(taken) |->
        IF h \in DOMAIN d.reverse THEN d.reverse[h]
                                  ELSE (Len(d.forward) + FirstPlace(taken, h)) - 1]

Appended(d, taken) ==
    [d EXCEPT !.reverse = MapInserted(d, taken), !.forward = @ \o taken]

-----------------------------------------------------------------------------
\* hydrate_self_for_lookup.  f is a folder: the record of its two files.

Entries(order) == SubSeq(order.cells, 2, Len(order.cells))

\* How many of the first i entries are no sentinels.
EntryRank(entries, i) == Cardinality({j \in 1 .. i : entries[j] # Sentinel})

\* Nothing to hydrate yet.
NotBegun(f) ==
    \/ ~f.order.there
    \/ ~f.suffixes.there
    \/ f.order.cells = << >>

\* The loop's assertion comes before the read of the suffix it is about.
OutOfOrder(f) ==
    LET entries == Entries(f.order)
    IN  \E i \in DOMAIN entries :
            /\ entries[i] # Sentinel
            /\ EntryRank(entries, i) <= Len(f.suffixes.cells) + 1
            /\ entries[i] + 1 # EntryRank(entries, i)

Truncated(f) ==
    LET entries == Entries(f.order)
    IN  EntryRank(entries, Len(entries)) > Len(f.suffixes.cells)

\* How hydration fails, or "none".
HydrationError(f) ==
    IF NotBegun(f)        THEN "none"
    ELSE IF f.order.torn  THEN "misaligned"
    ELSE IF OutOfOrder(f) THEN "out_of_order"
    ELSE IF Truncated(f)  THEN "truncated"
    ELSE "none"

\* Fault: the last entry is not read.
ForwardWithoutLast(order, suffixes) ==
    LET entries == Entries(order)
    IN  [i \in 1 .. Len(entries) - 1 |->
            IF entries[i] = Sentinel THEN NoHash
            ELSE suffixes.cells[EntryRank(entries, i)].hash]

\* Entries and suffixes are read in step.
ForwardFrom(order, suffixes) ==
    LET entries == Entries(order)
    IN  [i \in DOMAIN entries |->
            IF entries[i] = Sentinel THEN NoHash
            ELSE suffixes.cells[EntryRank(entries, i)].hash]

ReverseFrom(forward) == [h \in HashesIn(forward) |-> FirstPlace(forward, h) - 1]

Hydrated(offset, f) ==
    IF NotBegun(f) THEN NewDonut(offset)
    ELSE LET forward == ForwardFrom(f.order, f.suffixes)
         IN  [first |-> offset, forward |-> forward, reverse |-> ReverseFrom(forward)]

=============================================================================

--------------------------- MODULE TierDiskProofs ---------------------------
(***************************************************************************)
(* What TierDisk says of the tier on disk, for any capacity, fanout,       *)
(* batches, hashes and number of starts.                                   *)
(*                                                                         *)
(* The first half is about folders, counted from below: the hatchling's is *)
(* number k of them.  Every folder but the last holds a whole donut at any *)
(* moment, and so at any crash (FoldersInv).                               *)
(*                                                                         *)
(* The second is about what is in them.  An entry of an order file names a *)
(* place among the hashes of its donut, and Describes says what cells a    *)
(* sequence of items is written as: extending a sequence extends its cells *)
(* ("Writing them"), and reading a whole beginning of the cells gives that *)
(* beginning of the sequence ("Reading them").  The donut at offset o is   *)
(* for Portion(log, o) of the log, and DataInv says that memory, streams   *)
(* and files have of it what they should.                                  *)
(*                                                                         *)
(* The last part is about what happened before: PastInv relates what a     *)
(* start finds to the crashes, shutdowns and starts there were.            *)
(***************************************************************************)
EXTENDS TierDisk, FiniteSetTheorems, SequenceTheorems, TLAPS

IsSeq(s) == \E S : s \in Seq(S)

\* The offsets of n donuts that begin at the first index.
Offsets(n) == {i * DonutCapacity : i \in 0 .. n - 1}

Filled(f) == Len(f.order.cells) = DonutCapacity + 1 /\ ~f.order.torn

-----------------------------------------------------------------------------
(* Sequences of whatever.                                                  *)

LEMMA LenIsNat ==
  ASSUME NEW s, IsSeq(s)
  PROVE  Len(s) \in Nat
BY LenProperties DEF IsSeq

LEMMA ConcatIsSeq ==
  ASSUME NEW s, NEW t, IsSeq(s), IsSeq(t)
  PROVE  IsSeq(s \o t) /\ Len(s \o t) = Len(s) + Len(t)
<1>1. PICK S : s \in Seq(S)
  BY DEF IsSeq
<1>2. PICK T : t \in Seq(T)
  BY DEF IsSeq
<1>3. s \in Seq(S \cup T) /\ t \in Seq(S \cup T)
  BY <1>1, <1>2, SeqMonotonic
<1> QED
  BY <1>3, ConcatProperties DEF IsSeq

LEMMA AppendIsSeq ==
  ASSUME NEW s, NEW x, IsSeq(s)
  PROVE  IsSeq(Append(s, x)) /\ Len(Append(s, x)) = Len(s) + 1
<1>1. PICK S : s \in Seq(S)
  BY DEF IsSeq
<1>2. s \in Seq(S \cup {x})
  BY <1>1, SeqMonotonic
<1>3. Append(s, x) \in Seq(S \cup {x}) /\ Len(Append(s, x)) = Len(s) + 1
  BY <1>2
<1> QED
  BY <1>3 DEF IsSeq

LEMMA SubSeqIsSeq ==
  ASSUME NEW s, IsSeq(s), NEW m \in Nat \ {0}, NEW n \in 0 .. Len(s)
  PROVE  IsSeq(SubSeq(s, m, n)) /\ Len(SubSeq(s, m, n)) = (IF m <= n THEN n - m + 1 ELSE 0)
<1>1. PICK S : s \in Seq(S)
  BY DEF IsSeq
<1>2. \A i \in m .. n : s[i] \in S
  BY <1>1, LenProperties, ElementOfSeq
<1> QED
  BY <1>1, <1>2, SubSeqProperties, LenIsNat DEF IsSeq

\* A sequence that is given item by item.
LEMMA ItemsAreSeq ==
  ASSUME NEW n \in Nat, NEW s, s = [i \in 1 .. n |-> s[i]]
  PROVE  IsSeq(s) /\ Len(s) = n
<1>1. s \in [1 .. n -> {s[i] : i \in 1 .. n}]
  OBVIOUS
<1>2. s \in Seq({s[i] : i \in 1 .. n})
  BY <1>1
<1>3. Len(s) = n
  BY <1>1, <1>2
<1> QED
  BY <1>2, <1>3 DEF IsSeq

LEMMA EmptyIsSeq == IsSeq(<< >>) /\ Len(<< >>) = 0
<1>1. << >> \in Seq({})
  OBVIOUS
<1> QED
  BY <1>1 DEF IsSeq

-----------------------------------------------------------------------------
(* Offsets.                                                                *)

LEMMA OffsetsAdd ==
  ASSUME NEW n \in Nat
  PROVE  /\ Offsets(n + 1) = Offsets(n) \cup {n * DonutCapacity}
         /\ n * DonutCapacity \in Nat
         /\ n * DonutCapacity \notin Offsets(n)
         /\ \A o \in Offsets(n) : o \in Nat /\ o < n * DonutCapacity
<1>c. DonutCapacity \in Nat /\ DonutCapacity > 0
  BY DonutCapacityAssumption
<1>1. \A i \in Nat : i * DonutCapacity \in Nat
  BY <1>c, Z3
<1>2. \A i \in 0 .. n - 1 : i * DonutCapacity < n * DonutCapacity
  BY <1>c, Z3
<1>3. 0 .. (n + 1) - 1 = (0 .. n - 1) \cup {n}
  OBVIOUS
<1>4. Offsets(n + 1) = Offsets(n) \cup {n * DonutCapacity}
  BY <1>3 DEF Offsets
<1>5. \A o \in Offsets(n) : o \in Nat /\ o < n * DonutCapacity
  BY <1>1, <1>2 DEF Offsets
<1> QED
  BY <1>1, <1>4, <1>5

LEMMA NextMultiple ==
  ASSUME NEW n \in Nat
  PROVE  (n * DonutCapacity) + DonutCapacity = (n + 1) * DonutCapacity
BY DonutCapacityAssumption, Z3

LEMMA OffsetsNone == Offsets(0) = {}
BY DEF Offsets

LEMMA OffsetsCardinality ==
  ASSUME NEW n \in Nat
  PROVE  IsFiniteSet(Offsets(n)) /\ Cardinality(Offsets(n)) = n
<1> DEFINE f == [i \in 0 .. n - 1 |-> i * DonutCapacity]
<1>c. DonutCapacity \in Nat /\ DonutCapacity > 0
  BY DonutCapacityAssumption
<1>1. \A i, j \in 0 .. n - 1 : i * DonutCapacity = j * DonutCapacity => i = j
  BY <1>c, Z3
<1>2. f \in Injection(0 .. n - 1, Offsets(n))
  BY <1>1 DEF Injection, IsInjective, Offsets
<1>3. f \in Surjection(0 .. n - 1, Offsets(n))
  BY DEF Surjection, Offsets
<1>4. ExistsBijection(0 .. n - 1, Offsets(n))
  BY <1>2, <1>3 DEF ExistsBijection, Bijection
<1>5. IsFiniteSet(0 .. n - 1) /\ Cardinality(0 .. n - 1) = n
  BY FS_Interval
<1> QED
  BY <1>4, <1>5, FS_Bijection
-----------------------------------------------------------------------------
(* The invariant.                                                          *)

Labels == {"down", "hatch", "create_order", "create_suffixes", "room", "check",
           "idle", "append", "seal", "promote", "feed", "spawn"}

IsFile(f) ==
    /\ f = [there |-> f.there, cells |-> f.cells, torn |-> f.torn]
    /\ IsSeq(f.cells)
    /\ f.torn \in BOOLEAN

\* What the invariant has to say of a folder: a donut that is promoted is whole.
IsFolder(f) ==
    /\ f = [st00 |-> f.st00, st01 |-> f.st01, order |-> f.order, suffixes |-> f.suffixes]
    /\ f.st00 \in BOOLEAN /\ f.st01 \in BOOLEAN
    /\ IsFile(f.order)
    /\ f.st01 => f.st00 /\ Filled(f)

DiskInv ==
    /\ disk = [o \in DOMAIN disk |-> disk[o]]
    /\ \A o \in DOMAIN disk : IsFolder(disk[o])

ShapeInv ==
    /\ at \in Labels
    /\ starting \in BOOLEAN
    /\ hatchling = [first |-> hatchling.first, forward |-> hatchling.forward,
                    reverse |-> hatchling.reverse]
    /\ IsSeq(room) /\ IsSeq(batch)
    /\ pending = [f \in Files |-> pending[f]]
    /\ IsSeq(pending["order"])

\* What the order file and its stream hold together, step by step.
StreamInv ==
    /\ open_files = Files =>
          /\ at \in {"room", "check", "idle", "append", "seal"}
          /\ disk[Here].st00 /\ ~disk[Here].st01 /\ ~disk[Here].order.torn
          /\ IsSeq(hatchling.forward) /\ Len(hatchling.forward) <= DonutCapacity
          /\ Len(disk[Here].order.cells) + Len(pending["order"]) = 1 + Len(hatchling.forward)
    /\ open_files # Files => pending["order"] = << >>
    /\ at \in {"hatch", "create_order", "create_suffixes"} => hatchling.forward = << >>
    /\ at \in {"create_order", "create_suffixes"} => disk[Here].st00 /\ ~disk[Here].st01
    /\ at = "create_suffixes" => disk[Here].order = EmptyFile
    /\ at = "seal" => open_files = Files /\ Len(hatchling.forward) = DonutCapacity
    /\ at = "promote" => disk[Here].st00 /\ Filled(disk[Here])
    /\ at \in {"feed", "spawn"} => disk[Here].st01
    /\ at \in {"room", "check"} => starting
    /\ at \in {"down", "idle", "append", "seal", "promote", "feed", "spawn"} => ~starting

\* Every donut below the hatchling was promoted; with no hatchling, every one
\* below another.
PromotedInv ==
    IF at = "down"
    THEN \A o, p \in DOMAIN disk : o < p => disk[o].st01
    ELSE \A o \in DOMAIN disk \ {Here} : disk[o].st01

\* k donuts are below the hatchling; they are in the room once it is hydrated.
CountInv(k) ==
    IF at = "down"
    THEN DOMAIN disk = Offsets(k) \/ DOMAIN disk = Offsets(k + 1)
    ELSE /\ Here = k * DonutCapacity
         /\ DOMAIN disk = Offsets(k + 1) \/ (at = "hatch" /\ DOMAIN disk = Offsets(k))
         /\ (~starting \/ at = "check") => Len(room) = (IF at = "spawn" THEN k + 1 ELSE k)
         /\ at = "spawn" => k + 1 <= Fanout

FoldersInv ==
    /\ DiskInv
    /\ ShapeInv
    /\ StreamInv
    /\ PromotedInv
    /\ \E k \in 0 .. Fanout : CountInv(k)

LEMMA FoldersInit == Init => FoldersInv
<1> SUFFICES ASSUME Init PROVE FoldersInv
  OBVIOUS
<1>1. DOMAIN disk = {} /\ DiskInv /\ PromotedInv
  BY DEF Init, DiskInv, PromotedInv
<1>2. ShapeInv /\ StreamInv
  BY EmptyIsSeq DEF Init, ShapeInv, StreamInv, Labels, NewDonut, NoPending, Files
<1>3. 0 \in 0 .. Fanout /\ CountInv(0)
  BY <1>1, OffsetsNone, DiskBoundsAssumption DEF CountInv, Init
<1> QED
  BY <1>1, <1>2, <1>3 DEF FoldersInv

LEMMA HereIsThere ==
  ASSUME NEW k \in 0 .. Fanout, CountInv(k), at \notin {"down", "hatch"}
  PROVE  Here \in DOMAIN disk
BY OffsetsAdd DEF CountInv

\* Writing more to the hatchling's files takes nothing away from a folder that
\* was promoted, because nothing is written to it.
LEMMA WritingKeepsFolders ==
  ASSUME FoldersInv, NEW order, NEW suffixes, NEW torn \in BOOLEAN,
         IsSeq(order), open_files # Files => Len(order) = 0 /\ ~torn,
         NEW new, new = Written(order, suffixes, torn)
  PROVE  /\ new = [o \in DOMAIN disk |-> new[o]]
         /\ \A o \in DOMAIN disk : /\ IsFolder(new[o])
                                    /\ new[o].st00 = disk[o].st00
                                    /\ new[o].st01 = disk[o].st01
         /\ Here \in DOMAIN disk =>
              /\ Len(new[Here].order.cells) = Len(disk[Here].order.cells) + Len(order)
              /\ new[Here].order.torn = (disk[Here].order.torn \/ torn)
<1>0. DiskInv /\ ShapeInv /\ StreamInv
  BY DEF FoldersInv
<1>1. new = [o \in DOMAIN disk |-> new[o]] /\ \A o \in DOMAIN disk \ {Here} : new[o] = disk[o]
  BY DEF Written
<1>2. CASE Here \notin DOMAIN disk
  BY <1>0, <1>1, <1>2 DEF DiskInv
<1>3. CASE Here \in DOMAIN disk
  <2> DEFINE f     == disk[Here]
             cells == f.order.cells \o order
  <2>2. IsFolder(f) /\ IsFile(f.order)
    BY <1>0, <1>3 DEF DiskInv, IsFolder
  <2>3. new[Here] = [f EXCEPT !.order    = Extended(f.order, order, torn),
                              !.suffixes = Extended(f.suffixes, suffixes, FALSE)]
    BY <1>3 DEF Written
  <2>4. new[Here] = [st00 |-> f.st00, st01 |-> f.st01,
                     order |-> Extended(f.order, order, torn),
                     suffixes |-> Extended(f.suffixes, suffixes, FALSE)]
    BY <2>2, <2>3 DEF IsFolder
  <2>5. new[Here].order = [there |-> f.order.there, cells |-> cells,
                           torn |-> f.order.torn \/ torn]
    BY <2>4 DEF Extended
  <2>6. IsSeq(cells) /\ Len(cells) = Len(f.order.cells) + Len(order)
    BY <2>2, ConcatIsSeq DEF IsFile
  <2>7. f.st01 => Len(order) = 0 /\ ~torn
    BY <1>0 DEF StreamInv
  <2>8. /\ new[Here].st01 = f.st01 /\ new[Here].st00 = f.st00
        /\ new[Here].order.cells = cells
        /\ new[Here].order.torn = (f.order.torn \/ torn)
    BY <2>4, <2>5
  <2>9. IsFile(new[Here].order)
    <3>1. (f.order.torn \/ torn) \in BOOLEAN
      OBVIOUS
    <3> QED
      BY <2>5, <2>6, <2>8, <3>1 DEF IsFile
  <2>10. f.st01 => f.st00 /\ Filled(new[Here])
    <3> SUFFICES ASSUME f.st01 PROVE f.st00 /\ Filled(new[Here])
      OBVIOUS
    <3>1. f.st00 /\ Filled(f) /\ Len(order) = 0 /\ ~torn
      BY <2>2, <2>7 DEF IsFolder
    <3>2. Len(f.order.cells) \in Nat
      BY <2>2, LenIsNat DEF IsFile
    <3> QED
      BY <2>6, <2>8, <3>1, <3>2 DEF Filled
  <2>11. IsFolder(new[Here])
    BY <2>2, <2>4, <2>8, <2>9, <2>10 DEF IsFolder
  <2> QED
    BY <1>0, <1>1, <2>6, <2>8, <2>11 DEF DiskInv
<1> QED
  BY <1>2, <1>3

\* So does the end of the process, ...
LEMMA SurvivalKeepsFolders ==
  ASSUME FoldersInv, NEW new, Survives(new)
  PROVE  /\ new = [o \in DOMAIN disk |-> new[o]]
         /\ \A o \in DOMAIN disk : /\ IsFolder(new[o])
                                    /\ new[o].st00 = disk[o].st00
                                    /\ new[o].st01 = disk[o].st01
<1>1. ShapeInv /\ StreamInv
  BY DEF FoldersInv
<1>2. PICK i \in 0 .. Len(pending["order"]), k \in 0 .. Len(pending["suffixes"]),
           torn \in BOOLEAN :
        /\ torn => i < Len(pending["order"])
        /\ new = Written(SubSeq(pending["order"], 1, i), SubSeq(pending["suffixes"], 1, k), torn)
  BY DEF Survives
<1> DEFINE order    == SubSeq(pending["order"], 1, i)
           suffixes == SubSeq(pending["suffixes"], 1, k)
<1>3. IsSeq(order) /\ Len(order) = i
  <2>1. IsSeq(pending["order"]) /\ Len(pending["order"]) \in Nat
    BY <1>1, LenIsNat DEF ShapeInv
  <2>2. IsSeq(order) /\ Len(order) = (IF 1 <= i THEN i - 1 + 1 ELSE 0)
    BY <2>1, SubSeqIsSeq
  <2> QED
    BY <2>1, <2>2
<1>4. open_files # Files => Len(order) = 0 /\ ~torn
  BY <1>1, <1>2, <1>3, EmptyIsSeq DEF StreamInv
<1>5. new = Written(order, suffixes, torn)
  BY <1>2
<1> HIDE DEF order, suffixes
<1> QED
  BY <1>3, <1>4, <1>5, WritingKeepsFolders

\* ... and closing the streams.
LEMMA FlushKeepsFolders ==
  ASSUME FoldersInv
  PROVE  /\ Flushed = [o \in DOMAIN disk |-> Flushed[o]]
         /\ \A o \in DOMAIN disk : /\ IsFolder(Flushed[o])
                                    /\ Flushed[o].st00 = disk[o].st00
                                    /\ Flushed[o].st01 = disk[o].st01
         /\ Here \in DOMAIN disk =>
              /\ Len(Flushed[Here].order.cells)
                    = Len(disk[Here].order.cells) + Len(pending["order"])
              /\ Flushed[Here].order.torn = (disk[Here].order.torn \/ FALSE)
<1>1. IsSeq(pending["order"]) /\ (open_files # Files => Len(pending["order"]) = 0)
  BY EmptyIsSeq DEF FoldersInv, ShapeInv, StreamInv
<1> DEFINE order    == pending["order"]
           suffixes == pending["suffixes"]
<1>2. PICK torn \in BOOLEAN : torn = FALSE
  OBVIOUS
<1>3. Flushed = Written(order, suffixes, torn)
  BY <1>2 DEF Flushed
<1>4. IsSeq(order) /\ (open_files # Files => Len(order) = 0 /\ ~torn)
  BY <1>1, <1>2
<1> HIDE DEF order, suffixes
<1>5. /\ Flushed = [o \in DOMAIN disk |-> Flushed[o]]
      /\ \A o \in DOMAIN disk : /\ IsFolder(Flushed[o])
                                 /\ Flushed[o].st00 = disk[o].st00
                                 /\ Flushed[o].st01 = disk[o].st01
      /\ Here \in DOMAIN disk =>
           /\ Len(Flushed[Here].order.cells) = Len(disk[Here].order.cells) + Len(order)
           /\ Flushed[Here].order.torn = (disk[Here].order.torn \/ torn)
  BY <1>3, <1>4, WritingKeepsFolders
<1> QED
  BY <1>2, <1>5 DEF order
-----------------------------------------------------------------------------
(* The end of the process, and a start.                                    *)

LEMMA FanoutIsNat == Fanout \in Nat \ {0} /\ \A k \in 0 .. Fanout : k \in Nat
BY DiskBoundsAssumption

LEMMA MemoryLossKeepsInv ==
  ASSUME FoldersInv, at # "down", MemoryLost,
         disk' = [o \in DOMAIN disk |-> disk'[o]],
         \A o \in DOMAIN disk : IsFolder(disk'[o]) /\ disk'[o].st01 = disk[o].st01
  PROVE  FoldersInv'
<1>1. DiskInv' /\ DOMAIN disk' = DOMAIN disk
  BY DEF DiskInv
<1>2. ShapeInv'
  BY EmptyIsSeq DEF ShapeInv, MemoryLost, Labels, NewDonut, NoPending, Files
<1>3. StreamInv'
  BY DEF StreamInv, MemoryLost, NewDonut, NoPending, Files
<1>4. PICK k \in 0 .. Fanout : CountInv(k)
  BY DEF FoldersInv
<1>5. CountInv(k)'
  BY <1>1, <1>4 DEF CountInv, MemoryLost
<1>6. PromotedInv'
  <2> SUFFICES ASSUME NEW o \in DOMAIN disk, NEW p \in DOMAIN disk, o < p
               PROVE  disk[o].st01
    BY <1>1 DEF PromotedInv, MemoryLost
  <2>1. /\ Offsets(k + 1) = Offsets(k) \cup {k * DonutCapacity}
        /\ k * DonutCapacity \in Nat
        /\ \A q \in Offsets(k) : q \in Nat /\ q < k * DonutCapacity
    BY FanoutIsNat, OffsetsAdd
  <2>2. Here = k * DonutCapacity /\ DOMAIN disk \subseteq Offsets(k + 1)
    BY <1>4, <2>1 DEF CountInv
  <2>3. o # Here
    BY <2>1, <2>2
  <2> QED
    BY <2>3 DEF FoldersInv, PromotedInv
<1> QED
  BY <1>1, <1>2, <1>3, <1>5, <1>6 DEF FoldersInv

LEMMA FailKeepsInv ==
  ASSUME FoldersInv, at # "down", NEW reason, Fail(reason)
  PROVE  FoldersInv'
<1>1. MemoryLost /\ Survives(disk')
  BY DEF Fail
<1> QED
  BY <1>1, SurvivalKeepsFolders, MemoryLossKeepsInv

LEMMA ShutdownKeepsInv ==
  ASSUME FoldersInv, Shutdown
  PROVE  FoldersInv'
<1>1. MemoryLost /\ disk' = Flushed /\ at # "down"
  BY DEF Shutdown
<1> QED
  BY <1>1, FlushKeepsFolders, MemoryLossKeepsInv

LEMMA HighestIsLast ==
  ASSUME NEW k \in Nat, DOMAIN disk = Offsets(k + 1)
  PROVE  HighestOffset = k * DonutCapacity
<1>1. /\ DOMAIN disk = Offsets(k) \cup {k * DonutCapacity}
      /\ k * DonutCapacity \in Nat
      /\ \A o \in Offsets(k) : o \in Nat /\ o < k * DonutCapacity
  BY OffsetsAdd
<1> DEFINE last == k * DonutCapacity
<1>2. last \in DOMAIN disk /\ \A p \in DOMAIN disk : p <= last
  BY <1>1
<1>3. \A o \in DOMAIN disk : (\A p \in DOMAIN disk : p <= o) => o = last
  BY <1>1
<1> HIDE DEF last
<1>4. HighestOffset = last
  BY <1>2, <1>3 DEF HighestOffset
<1> QED
  BY <1>4 DEF last

LEMMA StartKeepsInv ==
  ASSUME FoldersInv, Start
  PROVE  FoldersInv'
<1>0. /\ DiskInv /\ ShapeInv /\ StreamInv /\ PromotedInv
      /\ at = "down" /\ at' = "hatch" /\ starting' = TRUE
      /\ UNCHANGED << disk, room, batch, open_files, pending >>
  BY DEF FoldersInv, Start
<1>1. DiskInv'
  BY <1>0 DEF DiskInv
<1>2. ShapeInv'
  BY <1>0 DEF ShapeInv, Start, NewDonut, Labels
<1>3. StreamInv'
  BY <1>0 DEF StreamInv, Start, NewDonut
<1>4. PICK k \in 0 .. Fanout : CountInv(k)
  BY DEF FoldersInv
<1>5. PICK j \in 0 .. Fanout :
        \/ DOMAIN disk = Offsets(j + 1)
        \/ j = 0 /\ DOMAIN disk = {}
  <2>1. CASE DOMAIN disk = Offsets(k + 1)
    BY <2>1
  <2>2. CASE DOMAIN disk = Offsets(k) /\ k > 0
    <3>1. k - 1 \in 0 .. Fanout /\ (k - 1) + 1 = k
      BY <2>2, FanoutIsNat
    <3> QED
      BY <2>2, <3>1
  <2>3. CASE DOMAIN disk = Offsets(k) /\ k = 0
    BY <2>3, OffsetsNone, FanoutIsNat
  <2> QED
    BY <1>0, <1>4, <2>1, <2>2, <2>3 DEF CountInv
<1>6. j \in Nat
  BY FanoutIsNat
<1>7. Offsets(j + 1) # {}
  BY <1>6, OffsetsAdd
<1>8. Here' = j * DonutCapacity
  <2>1. Here' = (IF DOMAIN disk = {} THEN 0 ELSE HighestOffset)
    BY DEF Start, Here, NewDonut
  <2>2. 0 * DonutCapacity = 0
    BY DonutCapacityAssumption
  <2> QED
    BY <1>5, <1>6, <1>7, <2>1, <2>2, HighestIsLast
<1>9. CountInv(j)'
  BY <1>0, <1>5, <1>8, OffsetsNone DEF CountInv
<1>10. PromotedInv'
  <2> SUFFICES ASSUME NEW o \in DOMAIN disk, o # Here' PROVE disk[o].st01
    BY <1>0 DEF PromotedInv
  <2>1. DOMAIN disk = Offsets(j + 1)
    BY <1>5
  <2>2. Here' \in DOMAIN disk /\ o < Here'
    BY <1>6, <1>8, <2>1, OffsetsAdd
  <2> QED
    BY <1>0, <2>2 DEF PromotedInv
<1> QED
  BY <1>1, <1>2, <1>3, <1>9, <1>10 DEF FoldersInv
-----------------------------------------------------------------------------
(* Opening a donut.                                                        *)

LEMMA HydratedIsDonut ==
  ASSUME NEW o, NEW f
  PROVE  LET d == Hydrated(o, f)
         IN  d.first = o /\ d = [first |-> d.first, forward |-> d.forward, reverse |-> d.reverse]
<1>1. CASE NotBegun(f)
  BY <1>1 DEF Hydrated, NewDonut
<1>2. CASE ~NotBegun(f)
  BY <1>2 DEF Hydrated
<1> QED
  BY <1>1, <1>2

LEMMA HydrateHatchlingKeepsInv ==
  ASSUME FoldersInv, HydrateHatchling
  PROVE  FoldersInv'
<1>0. /\ DiskInv /\ ShapeInv /\ StreamInv /\ PromotedInv
      /\ at = "hatch" /\ Here \in DOMAIN disk
  BY DEF FoldersInv, HydrateHatchling
<1>1. CASE Fail(HydrationError(disk[Here]))
  BY <1>0, <1>1, FailKeepsInv
<1>2. CASE /\ hatchling' = Hydrated(Here, disk[Here])
           /\ at' = Opened
           /\ UNCHANGED << disk, room, batch, open_files, pending, starting, history >>
  <2>1. DiskInv'
    BY <1>0, <1>2 DEF DiskInv
  <2>2. Here' = Here
    BY <1>2, HydratedIsDonut DEF Here
  <2>3. ShapeInv'
    BY <1>0, <1>2, HydratedIsDonut DEF ShapeInv, Labels, Opened
  <2>4. StreamInv'
    BY <1>0, <1>2 DEF StreamInv, Opened, ShapeInv
  <2>5. PromotedInv'
    BY <1>0, <1>2, <2>2 DEF PromotedInv, Opened
  <2>6. PICK k \in 0 .. Fanout : CountInv(k)
    BY DEF FoldersInv
  <2>7. DOMAIN disk = Offsets(k + 1)
    BY <1>0, <2>6, FanoutIsNat, OffsetsAdd DEF CountInv
  <2>8. CountInv(k)'
    BY <1>0, <1>2, <2>2, <2>6, <2>7 DEF CountInv, Opened
  <2> QED
    BY <2>1, <2>3, <2>4, <2>5, <2>8 DEF FoldersInv
<1> QED
  BY <1>1, <1>2 DEF HydrateHatchling

LEMMA NewFolderIsFolder == IsFolder(NewFolder) /\ ~NewFolder.st00 /\ ~NewFolder.st01
BY EmptyIsSeq DEF IsFolder, IsFile, NewFolder, NoFile

\* The object folder, and then the folder in it.
LEMMA MakeFolderKeepsInv ==
  ASSUME FoldersInv, MakeFolder
  PROVE  FoldersInv'
<1>0. /\ DiskInv /\ ShapeInv /\ StreamInv /\ PromotedInv /\ at = "hatch"
      /\ UNCHANGED << memory, starting >> /\ Here' = Here
  BY DEF FoldersInv, MakeFolder, memory, Here
<1>1. PICK k \in 0 .. Fanout : CountInv(k)
  BY DEF FoldersInv
<1>2. /\ k * DonutCapacity \in Nat
      /\ Offsets(k + 1) = Offsets(k) \cup {k * DonutCapacity}
      /\ k * DonutCapacity \notin Offsets(k)
  BY FanoutIsNat, OffsetsAdd
<1>3. CASE Here \notin DOMAIN disk
  <2>1. /\ disk' = [o \in DOMAIN disk \cup {Here} |-> IF o = Here THEN NewFolder ELSE disk[o]]
        /\ at' = "hatch"
    BY <1>3 DEF MakeFolder
  <2>2. DiskInv'
    BY <1>0, <2>1, NewFolderIsFolder DEF DiskInv
  <2>3. ShapeInv'
    BY <1>0, <2>1 DEF ShapeInv, memory
  <2>4. StreamInv'
    BY <1>0, <2>1 DEF StreamInv, memory
  <2>5. PromotedInv'
    BY <1>0, <2>1 DEF PromotedInv
  <2>6. DOMAIN disk' = Offsets(k + 1)
    BY <1>0, <1>1, <1>2, <1>3, <2>1 DEF CountInv
  <2>7. CountInv(k)'
    BY <1>0, <1>1, <2>1, <2>6 DEF CountInv, memory
  <2> QED
    BY <2>2, <2>3, <2>4, <2>5, <2>7 DEF FoldersInv
<1>4. CASE Here \in DOMAIN disk
  <2>1. disk' = [disk EXCEPT ![Here].st00 = TRUE] /\ at' = "create_order" /\ ~disk[Here].st00
    BY <1>4 DEF MakeFolder
  <2> DEFINE f == disk[Here]
  <2>2. IsFolder(f) /\ ~f.st01
    BY <1>0, <1>4, <2>1 DEF DiskInv, IsFolder
  <2>3. /\ disk' = [o \in DOMAIN disk |-> disk'[o]]
        /\ disk'[Here] = [f EXCEPT !.st00 = TRUE]
        /\ \A o \in DOMAIN disk \ {Here} : disk'[o] = disk[o]
    BY <1>4, <2>1
  <2>4. disk'[Here] = [st00 |-> TRUE, st01 |-> f.st01, order |-> f.order, suffixes |-> f.suffixes]
    BY <2>2, <2>3 DEF IsFolder
  <2>5. IsFolder(disk'[Here]) /\ disk'[Here].st00 /\ ~disk'[Here].st01
    BY <2>2, <2>4 DEF IsFolder
  <2>6. DiskInv'
    BY <1>0, <2>3, <2>5 DEF DiskInv
  <2>7. ShapeInv'
    BY <1>0, <2>1 DEF ShapeInv, memory, Labels
  <2>8. StreamInv'
    BY <1>0, <2>1, <2>5 DEF StreamInv, memory
  <2>9. PromotedInv'
    BY <1>0, <2>1, <2>3 DEF PromotedInv
  <2>10. DOMAIN disk' = Offsets(k + 1)
    BY <1>0, <1>1, <1>2, <1>4, <2>3 DEF CountInv
  <2>11. CountInv(k)'
    BY <1>0, <1>1, <2>1, <2>10 DEF CountInv, memory
  <2> QED
    BY <2>6, <2>7, <2>8, <2>9, <2>11 DEF FoldersInv
<1> QED
  BY <1>3, <1>4

LEMMA EmptyFileIsFile == IsFile(EmptyFile) /\ EmptyFile.cells = << >> /\ ~EmptyFile.torn
BY EmptyIsSeq DEF IsFile, EmptyFile

LEMMA CreateOrderKeepsInv ==
  ASSUME FoldersInv, CreateOrder
  PROVE  FoldersInv'
<1>0. /\ DiskInv /\ ShapeInv /\ StreamInv /\ PromotedInv /\ at = "create_order"
      /\ disk' = [disk EXCEPT ![Here].order = EmptyFile]
      /\ open_files' = {"order"} /\ at' = "create_suffixes"
      /\ UNCHANGED << hatchling, room, batch, pending, starting >> /\ Here' = Here
  BY DEF FoldersInv, CreateOrder, Here
<1>1. PICK k \in 0 .. Fanout : CountInv(k)
  BY DEF FoldersInv
<1>2. Here \in DOMAIN disk
  BY <1>0, <1>1, HereIsThere
<1> DEFINE f == disk[Here]
<1>3. IsFolder(f) /\ f.st00 /\ ~f.st01
  BY <1>0, <1>2 DEF DiskInv, StreamInv
<1>4. /\ disk' = [o \in DOMAIN disk |-> disk'[o]]
      /\ disk'[Here] = [f EXCEPT !.order = EmptyFile]
      /\ \A o \in DOMAIN disk \ {Here} : disk'[o] = disk[o]
  BY <1>0, <1>2
<1>5. disk'[Here] = [st00 |-> f.st00, st01 |-> f.st01, order |-> EmptyFile, suffixes |-> f.suffixes]
  BY <1>3, <1>4 DEF IsFolder
<1>6. IsFile(EmptyFile)
  BY EmptyFileIsFile
<1>7. /\ IsFolder(disk'[Here]) /\ disk'[Here].st00 /\ ~disk'[Here].st01
      /\ disk'[Here].order = EmptyFile
  BY <1>3, <1>5, <1>6 DEF IsFolder
<1>8. DiskInv'
  BY <1>0, <1>4, <1>7 DEF DiskInv
<1>9. ShapeInv'
  BY <1>0 DEF ShapeInv, Labels
<1>10. StreamInv'
  BY <1>0, <1>7 DEF StreamInv, Files
<1>11. PromotedInv'
  BY <1>0, <1>4 DEF PromotedInv
<1>12. CountInv(k)'
  BY <1>0, <1>1, <1>4 DEF CountInv
<1> QED
  BY <1>8, <1>9, <1>10, <1>11, <1>12 DEF FoldersInv

LEMMA CreateSuffixesKeepsInv ==
  ASSUME FoldersInv, CreateSuffixes
  PROVE  FoldersInv'
<1>0. /\ DiskInv /\ ShapeInv /\ StreamInv /\ PromotedInv /\ at = "create_suffixes"
      /\ disk' = [disk EXCEPT ![Here].suffixes = EmptyFile]
      /\ open_files' = Files /\ at' = Opened
      /\ pending' = [pending EXCEPT !["order"] = << Header >>]
      /\ UNCHANGED << hatchling, room, batch, starting >> /\ Here' = Here
  BY DEF FoldersInv, CreateSuffixes, Here
<1>1. PICK k \in 0 .. Fanout : CountInv(k)
  BY DEF FoldersInv
<1>2. Here \in DOMAIN disk
  BY <1>0, <1>1, HereIsThere
<1> DEFINE f == disk[Here]
<1>3. IsFolder(f) /\ f.st00 /\ ~f.st01 /\ f.order = EmptyFile
  BY <1>0, <1>2 DEF DiskInv, StreamInv
<1>4. /\ disk' = [o \in DOMAIN disk |-> disk'[o]]
      /\ disk'[Here] = [f EXCEPT !.suffixes = EmptyFile]
      /\ \A o \in DOMAIN disk \ {Here} : disk'[o] = disk[o]
  BY <1>0, <1>2
<1>5. disk'[Here] = [st00 |-> f.st00, st01 |-> f.st01, order |-> f.order, suffixes |-> EmptyFile]
  BY <1>3, <1>4 DEF IsFolder
<1>6. /\ IsFolder(disk'[Here]) /\ disk'[Here].st00 /\ ~disk'[Here].st01
      /\ disk'[Here].order.cells = << >> /\ ~disk'[Here].order.torn
  BY <1>3, <1>5, EmptyFileIsFile DEF IsFolder
<1>7. pending' = [g \in Files |-> pending'[g]] /\ pending'["order"] = << Header >>
  BY <1>0 DEF ShapeInv, Files
<1>8. IsSeq(<< Header >>) /\ Len(<< Header >>) = 1
  <2>1. << Header >> \in Seq({Header})
    OBVIOUS
  <2> QED
    BY <2>1 DEF IsSeq
<1>9. DiskInv'
  BY <1>0, <1>4, <1>6 DEF DiskInv
<1>10. ShapeInv'
  BY <1>0, <1>7, <1>8 DEF ShapeInv, Labels, Opened
<1>11. StreamInv'
  <2>1. hatchling'.forward = << >> /\ Len(<< >>) = 0 /\ DonutCapacity \in Nat
    BY <1>0, DonutCapacityAssumption DEF StreamInv
  <2>2. /\ IsSeq(hatchling'.forward) /\ Len(hatchling'.forward) <= DonutCapacity
        /\ Len(disk'[Here'].order.cells) + Len(pending'["order"]) = 1 + Len(hatchling'.forward)
    <3>1. Len(disk'[Here'].order.cells) = 0 /\ Len(hatchling'.forward) = 0
      BY <1>0, <1>6, <2>1
    <3>2. Len(pending'["order"]) = 1
      BY <1>7, <1>8
    <3>3. IsSeq(hatchling'.forward)
      BY <2>1, EmptyIsSeq
    <3> QED
      BY <2>1, <3>1, <3>2, <3>3
  <2>3. disk'[Here'].st00 /\ ~disk'[Here'].st01 /\ ~disk'[Here'].order.torn
    BY <1>0, <1>6
  <2>4. CASE starting
    BY <1>0, <2>2, <2>3, <2>4 DEF StreamInv, Opened
  <2>5. CASE ~starting
    BY <1>0, <2>2, <2>3, <2>5 DEF StreamInv, Opened
  <2> QED
    BY <2>4, <2>5
<1>12. PromotedInv'
  BY <1>0, <1>4 DEF PromotedInv, Opened
<1>13. CountInv(k)'
  BY <1>0, <1>1, <1>4 DEF CountInv, Opened
<1> QED
  BY <1>9, <1>10, <1>11, <1>12, <1>13 DEF FoldersInv

LEMMA HydrateRoomKeepsInv ==
  ASSUME FoldersInv, HydrateRoom
  PROVE  FoldersInv'
<1>0. DiskInv /\ ShapeInv /\ StreamInv /\ PromotedInv /\ at = "room"
  BY DEF FoldersInv, HydrateRoom
<1>1. ASSUME NEW reason, Fail(reason) PROVE FoldersInv'
  BY <1>0, <1>1, FailKeepsInv
<1>2. CASE /\ room' = [i \in 1 .. Cardinality(RoomOffsets) |->
                          Hydrated(NthOffset(i), disk[NthOffset(i)])]
           /\ at' = "check"
           /\ UNCHANGED << disk, hatchling, batch, open_files, pending, starting, history >>
  <2>1. PICK k \in 0 .. Fanout : CountInv(k)
    BY DEF FoldersInv
  <2>2. DOMAIN disk = Offsets(k + 1) /\ Here = k * DonutCapacity /\ k \in Nat
    BY <1>0, <2>1, FanoutIsNat DEF CountInv
  <2>3. RoomOffsets = Offsets(k)
    BY <2>2, HighestIsLast, OffsetsAdd DEF RoomOffsets
  <2>4. Cardinality(RoomOffsets) = k
    BY <2>2, <2>3, OffsetsCardinality
  <2>5. IsSeq(room') /\ Len(room') = k
    BY <1>2, <2>2, <2>4, ItemsAreSeq
  <2>6. DiskInv' /\ Here' = Here
    BY <1>0, <1>2 DEF DiskInv, Here
  <2>7. ShapeInv'
    BY <1>0, <1>2, <2>5 DEF ShapeInv, Labels
  <2>8. StreamInv'
    BY <1>0, <1>2, <2>6 DEF StreamInv
  <2>9. PromotedInv'
    BY <1>0, <1>2, <2>6 DEF PromotedInv
  <2>10. CountInv(k)'
    BY <1>0, <1>2, <2>2, <2>5, <2>6 DEF CountInv
  <2> QED
    BY <2>6, <2>7, <2>8, <2>9, <2>10 DEF FoldersInv
<1> QED
  BY <1>1, <1>2 DEF HydrateRoom

LEMMA ReadyKeepsInv ==
  ASSUME FoldersInv, Ready
  PROVE  FoldersInv'
<1>0. DiskInv /\ ShapeInv /\ StreamInv /\ PromotedInv /\ at = "check"
  BY DEF FoldersInv, Ready
<1>1. CASE Fail("no_capacity")
  BY <1>0, <1>1, FailKeepsInv
<1>2. CASE at' = "idle" /\ starting' = FALSE /\ UNCHANGED << disk, memory >>
  <2>1. PICK k \in 0 .. Fanout : CountInv(k)
    BY DEF FoldersInv
  <2>2. DiskInv' /\ Here' = Here
    BY <1>0, <1>2 DEF DiskInv, Here, memory
  <2>3. ShapeInv'
    BY <1>0, <1>2 DEF ShapeInv, Labels, memory
  <2>4. StreamInv'
    BY <1>0, <1>2, <2>2 DEF StreamInv, memory
  <2>5. PromotedInv'
    BY <1>0, <1>2, <2>2 DEF PromotedInv
  <2>6. CountInv(k)'
    BY <1>0, <1>2, <2>1, <2>2 DEF CountInv, memory
  <2> QED
    BY <2>2, <2>3, <2>4, <2>5, <2>6 DEF FoldersInv
<1> QED
  BY <1>1, <1>2 DEF Ready
-----------------------------------------------------------------------------
(* The worker.                                                             *)

LEMMA TakeBatchKeepsInv ==
  ASSUME FoldersInv, TakeBatch
  PROVE  FoldersInv'
<1>0. /\ DiskInv /\ ShapeInv /\ StreamInv /\ PromotedInv /\ at = "idle" /\ at' = "append"
      /\ UNCHANGED << disk, hatchling, room, open_files, pending, starting >> /\ Here' = Here
  BY DEF FoldersInv, TakeBatch, Here
<1>1. PICK k \in 0 .. Fanout : CountInv(k)
  BY DEF FoldersInv
<1>2. IsSeq(batch')
  <2>1. PICK n \in 1 .. MaxBatch : batch' \in [1 .. n -> Items]
    BY DEF TakeBatch, Batches
  <2>2. batch' = [i \in 1 .. n |-> batch'[i]] /\ n \in Nat
    BY <2>1, DiskBoundsAssumption
  <2> QED
    BY <2>2, ItemsAreSeq
<1>3. DiskInv'
  BY <1>0 DEF DiskInv
<1>4. ShapeInv'
  BY <1>0, <1>2 DEF ShapeInv, Labels
<1>5. StreamInv'
  BY <1>0 DEF StreamInv
<1>6. PromotedInv'
  BY <1>0 DEF PromotedInv
<1>7. CountInv(k)'
  BY <1>0, <1>1 DEF CountInv
<1> QED
  BY <1>3, <1>4, <1>5, <1>6, <1>7 DEF FoldersInv

\* What the hatchling takes fits in.
LEMMA TakenFits ==
  ASSUME IsSeq(batch), IsSeq(hatchling.forward), Len(hatchling.forward) <= DonutCapacity
  PROVE  LET taken == SubSeq(batch, 1, Taking)
         IN  /\ IsSeq(taken) /\ taken = [i \in DOMAIN taken |-> taken[i]]
             /\ Len(taken) + Len(hatchling.forward) <= DonutCapacity
             /\ IsSeq(SubSeq(batch, Taking + 1, Len(batch)))
<1> DEFINE taken == SubSeq(batch, 1, Taking)
<1>1. /\ Len(batch) \in Nat /\ Len(hatchling.forward) \in Nat /\ DonutCapacity \in Nat
  BY LenIsNat, DonutCapacityAssumption
<1>2. Taking \in 0 .. Len(batch) /\ Taking <= DonutCapacity - Len(hatchling.forward)
  <2>1. \A n, m, c \in Nat : m <= c =>
            LET t == IF n < c - m THEN n ELSE c - m IN t \in 0 .. n /\ t <= c - m
    OBVIOUS
  <2>2. Taking = (IF Len(batch) < DonutCapacity - Len(hatchling.forward)
                  THEN Len(batch) ELSE DonutCapacity - Len(hatchling.forward))
    BY DEF Taking, RemainingCapacity
  <2> QED
    BY <1>1, <2>1, <2>2
<1>3. IsSeq(taken) /\ Len(taken) = Taking
  <2>1. 1 \in Nat \ {0} /\ Taking \in Nat
    BY <1>1, <1>2
  <2> HIDE DEF Taking
  <2>2. IsSeq(taken) /\ Len(taken) = (IF 1 <= Taking THEN Taking - 1 + 1 ELSE 0)
    BY <1>2, <2>1, SubSeqIsSeq
  <2> QED
    BY <2>1, <2>2
<1>4. IsSeq(SubSeq(batch, Taking + 1, Len(batch)))
  <2>1. Taking + 1 \in Nat \ {0} /\ Len(batch) \in 0 .. Len(batch)
    BY <1>1, <1>2
  <2> QED
    BY <2>1, SubSeqIsSeq
<1>5. taken = [i \in DOMAIN taken |-> taken[i]]
  <2>1. PICK S : taken \in Seq(S)
    BY <1>3 DEF IsSeq
  <2> HIDE DEF taken
  <2> QED
    BY <2>1, LenProperties
<1>6. Len(taken) + Len(hatchling.forward) <= DonutCapacity
  <2> HIDE DEF taken
  <2> QED
    BY <1>1, <1>2, <1>3
<1> QED
  BY <1>3, <1>4, <1>5, <1>6

LEMMA AppendHashesKeepsInv ==
  ASSUME FoldersInv, AppendHashes
  PROVE  FoldersInv'
<1> DEFINE taken == SubSeq(batch, 1, Taking)
<1>0. /\ DiskInv /\ ShapeInv /\ StreamInv /\ PromotedInv /\ at = "append"
  BY DEF FoldersInv, AppendHashes
<1>1. CASE Fail("not_open")
  BY <1>0, <1>1, FailKeepsInv
<1>2. CASE /\ open_files = Files
           /\ pending' = [order    |-> pending["order"] \o OrderCells(hatchling, taken),
                          suffixes |-> pending["suffixes"] \o SuffixCells(hatchling, taken)]
           /\ hatchling' = Appended(hatchling, taken)
           /\ batch' = SubSeq(batch, Taking + 1, Len(batch))
           /\ at' = IF RemainingCapacity(hatchling') = 0 THEN "seal" ELSE "append"
           /\ UNCHANGED << disk, room, open_files, starting >>
  <2>1. PICK k \in 0 .. Fanout : CountInv(k)
    BY DEF FoldersInv
  <2>2. /\ IsSeq(hatchling.forward) /\ Len(hatchling.forward) <= DonutCapacity
        /\ IsSeq(batch) /\ IsSeq(pending["order"])
        /\ Len(disk[Here].order.cells) + Len(pending["order"]) = 1 + Len(hatchling.forward)
    BY <1>0, <1>2 DEF StreamInv, ShapeInv
  <2>3. /\ IsSeq(taken) /\ taken = [i \in DOMAIN taken |-> taken[i]]
        /\ Len(taken) + Len(hatchling.forward) <= DonutCapacity
        /\ IsSeq(SubSeq(batch, Taking + 1, Len(batch)))
    BY <2>2, TakenFits
  <2>4. IsSeq(OrderCells(hatchling, taken)) /\ Len(OrderCells(hatchling, taken)) = Len(taken)
    <3>1. DOMAIN taken = 1 .. Len(taken) /\ Len(taken) \in Nat
      BY <2>3, LenProperties DEF IsSeq
    <3>2. OrderCells(hatchling, taken)
             = [i \in 1 .. Len(taken) |-> OrderCells(hatchling, taken)[i]]
      BY <3>1 DEF OrderCells
    <3> QED
      BY <3>1, <3>2, ItemsAreSeq
  <2>5. /\ hatchling'.first = hatchling.first
        /\ hatchling'.forward = hatchling.forward \o taken
        /\ hatchling' = [first |-> hatchling'.first, forward |-> hatchling'.forward,
                         reverse |-> hatchling'.reverse]
    BY <1>0, <1>2 DEF ShapeInv, Appended
  <2> HIDE DEF taken
  <2>6. /\ IsSeq(hatchling'.forward)
        /\ Len(hatchling'.forward) = Len(hatchling.forward) + Len(taken)
    BY <2>2, <2>3, <2>5, ConcatIsSeq
  <2>7. /\ pending'["order"] = pending["order"] \o OrderCells(hatchling, taken)
        /\ pending' = [f \in Files |-> pending'[f]]
    <3> DEFINE new_order    == pending["order"] \o OrderCells(hatchling, taken)
               new_suffixes == pending["suffixes"] \o SuffixCells(hatchling, taken)
    <3>1. pending' = [order |-> new_order, suffixes |-> new_suffixes]
      BY <1>2
    <3> HIDE DEF new_order, new_suffixes
    <3>2. pending'["order"] = new_order /\ pending' = [f \in Files |-> pending'[f]]
      BY <3>1 DEF Files
    <3> QED
      BY <3>2, Zenon DEF new_order
  <2>8. IsSeq(pending'["order"]) /\ Len(pending'["order"]) = Len(pending["order"]) + Len(taken)
    <3> DEFINE cells == OrderCells(hatchling, taken)
    <3> HIDE DEF cells
    <3>1. IsSeq(cells) /\ Len(cells) = Len(taken) /\ pending'["order"] = pending["order"] \o cells
      BY <2>4, <2>7 DEF cells
    <3>2. IsSeq(pending["order"])
      BY <2>2
    <3> QED
      BY <3>1, <3>2, ConcatIsSeq
  <2>9. Here' = Here /\ DiskInv'
    BY <1>0, <1>2, <2>5 DEF Here, DiskInv
  <2>10. Here \in DOMAIN disk
    BY <1>0, <2>1, HereIsThere
  <2>11. Len(disk[Here].order.cells) \in Nat
    BY <1>0, <2>10, LenIsNat DEF DiskInv, IsFolder, IsFile
  <2>12. /\ Len(hatchling'.forward) <= DonutCapacity
         /\ Len(disk[Here].order.cells) + Len(pending'["order"]) = 1 + Len(hatchling'.forward)
         /\ at' = "seal" => Len(hatchling'.forward) = DonutCapacity
    <3>1. /\ Len(taken) \in Nat /\ Len(hatchling.forward) \in Nat
          /\ Len(pending["order"]) \in Nat /\ DonutCapacity \in Nat
      BY <2>2, <2>3, LenIsNat, DonutCapacityAssumption
    <3>2. at' = "seal" => DonutCapacity - Len(hatchling'.forward) = 0
      BY <1>2 DEF RemainingCapacity
    <3>3. Len(hatchling'.forward) \in Nat /\ Len(hatchling'.forward) <= DonutCapacity
      BY <2>3, <2>6, <3>1
    <3>4. PICK a, b, c, d \in Nat :
              /\ a = Len(disk[Here].order.cells) /\ b = Len(pending["order"])
              /\ c = Len(hatchling.forward) /\ d = Len(taken)
      BY <2>11, <3>1, Zenon
    <3>5. Len(disk[Here].order.cells) + Len(pending'["order"]) = 1 + Len(hatchling'.forward)
      <4>1. a + b = 1 + c
        BY <2>2, <3>4
      <4>2. a + (b + d) = 1 + (c + d)
        BY <4>1
      <4> QED
        BY <2>6, <2>8, <3>4, <4>2
    <3>6. at' = "seal" => Len(hatchling'.forward) = DonutCapacity
      BY <3>1, <3>2, <3>3
    <3> QED
      BY <3>3, <3>5, <3>6
  <2>13. ShapeInv'
    BY <1>0, <1>2, <2>3, <2>5, <2>7, <2>8 DEF ShapeInv, Labels
  <2>14. StreamInv'
    BY <1>0, <1>2, <2>6, <2>9, <2>12 DEF StreamInv
  <2>15. PromotedInv'
    BY <1>0, <1>2, <2>9 DEF PromotedInv
  <2>16. CountInv(k)'
    BY <1>0, <1>2, <2>1, <2>9 DEF CountInv
  <2> QED
    BY <2>9, <2>13, <2>14, <2>15, <2>16 DEF FoldersInv
<1> QED
  BY <1>1, <1>2 DEF AppendHashes

LEMMA SealKeepsInv ==
  ASSUME FoldersInv, Seal
  PROVE  FoldersInv'
<1>0. /\ DiskInv /\ ShapeInv /\ StreamInv /\ PromotedInv /\ at = "seal"
      /\ disk' = Flushed /\ pending' = NoPending /\ open_files' = {} /\ at' = "promote"
      /\ UNCHANGED << hatchling, room, batch, starting >> /\ Here' = Here
  BY DEF FoldersInv, Seal, Here
<1>1. PICK k \in 0 .. Fanout : CountInv(k)
  BY DEF FoldersInv
<1>2. Here \in DOMAIN disk
  BY <1>0, <1>1, HereIsThere
<1>3. /\ Len(disk[Here].order.cells) + Len(pending["order"]) = 1 + DonutCapacity
      /\ disk[Here].st00 /\ ~disk[Here].order.torn
  BY <1>0 DEF StreamInv
<1>4. Filled(disk'[Here]) /\ disk'[Here].st00
  <2>1. DonutCapacity \in Nat /\ 1 + DonutCapacity = DonutCapacity + 1
    BY DonutCapacityAssumption
  <2>2. /\ Flushed[Here].st00
        /\ Len(Flushed[Here].order.cells)
              = Len(disk[Here].order.cells) + Len(pending["order"])
        /\ Flushed[Here].order.torn = (disk[Here].order.torn \/ FALSE)
    BY <1>2, <1>3, FlushKeepsFolders
  <2>3. Filled(Flushed[Here])
    BY <1>3, <2>1, <2>2 DEF Filled
  <2>4. disk'[Here] = Flushed[Here]
    BY <1>0
  <2> QED
    BY <2>2, <2>3, <2>4
<1>5. DiskInv' /\ DOMAIN disk' = DOMAIN disk
  BY <1>0, FlushKeepsFolders DEF DiskInv
<1>6. ShapeInv'
  BY <1>0, EmptyIsSeq DEF ShapeInv, Labels, NoPending, Files
<1>7. StreamInv'
  BY <1>0, <1>4 DEF StreamInv, NoPending, Files
<1>8. PromotedInv'
  BY <1>0, <1>5, FlushKeepsFolders DEF PromotedInv
<1>9. CountInv(k)'
  BY <1>0, <1>1, <1>5 DEF CountInv
<1> QED
  BY <1>5, <1>6, <1>7, <1>8, <1>9 DEF FoldersInv

LEMMA PromoteKeepsInv ==
  ASSUME FoldersInv, Promote
  PROVE  FoldersInv'
<1>0. /\ DiskInv /\ ShapeInv /\ StreamInv /\ PromotedInv /\ at = "promote"
      /\ disk' = [disk EXCEPT ![Here] = Made(@)] /\ at' = "feed"
      /\ UNCHANGED << memory, starting >> /\ Here' = Here
  BY DEF FoldersInv, Promote, memory, Here
<1>1. PICK k \in 0 .. Fanout : CountInv(k)
  BY DEF FoldersInv
<1>2. Here \in DOMAIN disk
  BY <1>0, <1>1, HereIsThere
<1> DEFINE f == disk[Here]
<1>3. IsFolder(f) /\ f.st00 /\ Filled(f)
  BY <1>0, <1>2 DEF DiskInv, StreamInv
<1>4. /\ disk' = [o \in DOMAIN disk |-> disk'[o]]
      /\ disk'[Here] = [f EXCEPT !.st01 = TRUE]
      /\ \A o \in DOMAIN disk \ {Here} : disk'[o] = disk[o]
  BY <1>0, <1>2 DEF Made
<1>5. disk'[Here] = [st00 |-> f.st00, st01 |-> TRUE, order |-> f.order, suffixes |-> f.suffixes]
  BY <1>3, <1>4 DEF IsFolder
<1>6. IsFolder(disk'[Here]) /\ disk'[Here].st01
  BY <1>3, <1>5 DEF IsFolder, Filled
<1>7. DiskInv'
  BY <1>0, <1>4, <1>6 DEF DiskInv
<1>8. ShapeInv'
  BY <1>0 DEF ShapeInv, Labels, memory
<1>9. StreamInv'
  BY <1>0, <1>6 DEF StreamInv, memory
<1>10. PromotedInv'
  BY <1>0, <1>4 DEF PromotedInv
<1>11. CountInv(k)'
  BY <1>0, <1>1, <1>4 DEF CountInv, memory
<1> QED
  BY <1>7, <1>8, <1>9, <1>10, <1>11 DEF FoldersInv

LEMMA FeedRoomKeepsInv ==
  ASSUME FoldersInv, FeedRoom
  PROVE  FoldersInv'
<1>0. /\ DiskInv /\ ShapeInv /\ StreamInv /\ PromotedInv /\ at = "feed" /\ at' = "spawn"
      /\ Len(room) < Fanout /\ room' = Append(room, hatchling)
      /\ UNCHANGED << disk, hatchling, batch, open_files, pending, starting >> /\ Here' = Here
  BY DEF FoldersInv, FeedRoom, Here
<1>1. PICK k \in 0 .. Fanout : CountInv(k)
  BY DEF FoldersInv
<1>2. Len(room) = k /\ k + 1 <= Fanout
  BY <1>0, <1>1, FanoutIsNat DEF CountInv, StreamInv
<1>3. IsSeq(room') /\ Len(room') = k + 1
  BY <1>0, <1>2, AppendIsSeq DEF ShapeInv
<1>4. DiskInv'
  BY <1>0 DEF DiskInv
<1>5. ShapeInv'
  BY <1>0, <1>3 DEF ShapeInv, Labels
<1>6. StreamInv'
  BY <1>0 DEF StreamInv
<1>7. PromotedInv'
  BY <1>0 DEF PromotedInv
<1>8. CountInv(k)'
  BY <1>0, <1>1, <1>2, <1>3 DEF CountInv
<1> QED
  BY <1>4, <1>5, <1>6, <1>7, <1>8 DEF FoldersInv

LEMMA SpawnKeepsInv ==
  ASSUME FoldersInv, Spawn
  PROVE  FoldersInv'
<1>0. /\ DiskInv /\ ShapeInv /\ StreamInv /\ PromotedInv /\ at = "spawn" /\ at' = "hatch"
      /\ hatchling' = NewDonut(Here + DonutCapacity)
      /\ UNCHANGED << disk, room, batch, open_files, pending, starting >>
  BY DEF FoldersInv, Spawn, NewOffset, Here
<1>1. PICK k \in 0 .. Fanout : CountInv(k)
  BY DEF FoldersInv
<1>2. /\ Here = k * DonutCapacity /\ k + 1 \in 0 .. Fanout /\ k \in Nat
      /\ DOMAIN disk = Offsets(k + 1) /\ Len(room) = k + 1
  BY <1>0, <1>1, FanoutIsNat DEF CountInv, StreamInv
<1>3. Here' = (k + 1) * DonutCapacity
  BY <1>0, <1>2, NextMultiple DEF Here, NewDonut
<1>4. DiskInv'
  BY <1>0 DEF DiskInv
<1>5. ShapeInv'
  BY <1>0 DEF ShapeInv, Labels, NewDonut
<1>6. StreamInv'
  BY <1>0 DEF StreamInv, NewDonut
<1>7. PromotedInv'
  BY <1>0 DEF PromotedInv, StreamInv
<1>8. CountInv(k + 1)'
  BY <1>0, <1>2, <1>3 DEF CountInv
<1> QED
  BY <1>2, <1>4, <1>5, <1>6, <1>7, <1>8 DEF FoldersInv

LEMMA LambdaEndsKeepsInv ==
  ASSUME FoldersInv, LambdaEnds
  PROVE  FoldersInv'
<1>0. /\ DiskInv /\ ShapeInv /\ StreamInv /\ PromotedInv /\ at = "append" /\ at' = "idle"
      /\ UNCHANGED << disk, hatchling, room, batch, open_files, pending, starting >>
      /\ Here' = Here
  BY DEF FoldersInv, LambdaEnds, Here
<1>1. PICK k \in 0 .. Fanout : CountInv(k)
  BY DEF FoldersInv
<1>2. DiskInv'
  BY <1>0 DEF DiskInv
<1>3. ShapeInv'
  BY <1>0 DEF ShapeInv, Labels
<1>4. StreamInv'
  BY <1>0 DEF StreamInv
<1>5. PromotedInv'
  BY <1>0 DEF PromotedInv
<1>6. CountInv(k)'
  BY <1>0, <1>1 DEF CountInv
<1> QED
  BY <1>2, <1>3, <1>4, <1>5, <1>6 DEF FoldersInv

-----------------------------------------------------------------------------
(* The specification.                                                      *)

LEMMA FoldersNext == FoldersInv /\ [Next]_vars => FoldersInv'
<1> SUFFICES ASSUME FoldersInv, [Next]_vars
             PROVE  FoldersInv'
  OBVIOUS
<1>1. CASE Start
  BY <1>1, StartKeepsInv
<1>2. CASE HydrateHatchling
  BY <1>2, HydrateHatchlingKeepsInv
<1>3. CASE MakeFolder
  BY <1>3, MakeFolderKeepsInv
<1>4. CASE CreateOrder
  BY <1>4, CreateOrderKeepsInv
<1>5. CASE CreateSuffixes
  BY <1>5, CreateSuffixesKeepsInv
<1>6. CASE HydrateRoom
  BY <1>6, HydrateRoomKeepsInv
<1>7. CASE Ready
  BY <1>7, ReadyKeepsInv
<1>8. CASE TakeBatch
  BY <1>8, TakeBatchKeepsInv
<1>9. CASE AppendHashes
  BY <1>9, AppendHashesKeepsInv
<1>10. CASE Seal
  BY <1>10, SealKeepsInv
<1>11. CASE Promote
  BY <1>11, PromoteKeepsInv
<1>12. CASE FeedRoom
  BY <1>12, FeedRoomKeepsInv
<1>13. CASE Spawn
  BY <1>13, SpawnKeepsInv
<1>14. CASE LambdaEnds
  BY <1>14, LambdaEndsKeepsInv
<1>15. CASE Shutdown
  BY <1>15, ShutdownKeepsInv
<1>16. CASE Crash
  BY <1>16, FailKeepsInv DEF Crash
<1>17. CASE UNCHANGED vars
  BY <1>17 DEF FoldersInv, DiskInv, ShapeInv, StreamInv, PromotedInv, CountInv,
               Here, vars, memory, history
<1> QED
  BY <1>1, <1>2, <1>3, <1>4, <1>5, <1>6, <1>7, <1>8, <1>9, <1>10, <1>11, <1>12,
     <1>13, <1>14, <1>15, <1>16, <1>17 DEF Next, Opening, Working

\* What the folders, the streams and the buffer room have to do with each other
\* at every step of making, filling, promoting and replacing a hatchling
\* (ingester_tier_folder.hpp:43-200), across crashes and starts.
THEOREM FoldersStayInOrder == Spec => []FoldersInv
<1>1. Init => FoldersInv
  BY FoldersInit
<1>2. FoldersInv /\ [Next]_vars => FoldersInv'
  BY FoldersNext
<1> QED
  BY <1>1, <1>2, PTL DEF Spec

LEMMA FoldersAreWhole == FoldersInv => OnlyLastFolderIsUnfilled
<1> SUFFICES ASSUME FoldersInv PROVE OnlyLastFolderIsUnfilled
  OBVIOUS
<1>0. DiskInv /\ PromotedInv
  BY DEF FoldersInv
<1>1. PICK k \in 0 .. Fanout : CountInv(k)
  BY DEF FoldersInv
<1>2. PICK n \in 0 .. Fanout + 1 : DOMAIN disk = Offsets(n)
  <2>1. k \in 0 .. Fanout + 1 /\ k + 1 \in 0 .. Fanout + 1
    BY FanoutIsNat
  <2> QED
    BY <1>1, <2>1 DEF CountInv
<1>3. n \in Nat /\ n <= Fanout + 1 /\ Cardinality(DOMAIN disk) = n
  BY <1>2, OffsetsCardinality, FanoutIsNat
<1>4. ASSUME NEW o \in DOMAIN disk, NEW p \in DOMAIN disk, o < p
      PROVE  disk[o].st01
  <2>1. CASE at = "down"
    BY <1>0, <1>4, <2>1 DEF PromotedInv
  <2>2. CASE at # "down"
    <3>1. /\ Here = k * DonutCapacity /\ k \in Nat
          /\ DOMAIN disk = Offsets(k + 1) \/ DOMAIN disk = Offsets(k)
      BY <1>1, <2>2, FanoutIsNat DEF CountInv
    <3>2. \A q \in DOMAIN disk : q \in Nat /\ Here \in Nat /\ q <= Here
      BY <3>1, OffsetsAdd
    <3>3. o # Here
      BY <1>4, <3>2
    <3> QED
      BY <1>0, <2>2, <3>3 DEF PromotedInv
  <2> QED
    BY <2>1, <2>2
<1>5. \A o \in DOMAIN disk : (\E p \in DOMAIN disk : o < p) => disk[o].st01 /\ Filled(disk[o])
  BY <1>0, <1>4 DEF DiskInv, IsFolder
<1> QED
  BY <1>2, <1>3, <1>5 DEF OnlyLastFolderIsUnfilled, Offsets, Filled

\* At any moment, and so at any crash, the folders of the tier are contiguous,
\* no more of them than the next start accepts, and all but the last hold a
\* whole donut (ingester_tier_folder.hpp:91-107): for any capacity, fanout,
\* batch, number of items and number of starts.
THEOREM LastFolderOnlyIsUnfilled == Spec => []OnlyLastFolderIsUnfilled
<1>1. Spec => []FoldersInv
  BY FoldersStayInOrder
<1>2. FoldersInv => OnlyLastFolderIsUnfilled
  BY FoldersAreWhole
<1> QED
  BY <1>1, <1>2, PTL

-----------------------------------------------------------------------------
(* What a start may refuse.                                                *)

RoomIsAccepted == failure \notin {"too_many_folders", "not_filled"}

LEMMA HydrationErrorsAreOthers ==
  ASSUME NEW f
  PROVE  HydrationError(f) \in {"none", "misaligned", "out_of_order", "truncated"}
BY DEF HydrationError

LEMMA RoomIsAcceptedNext ==
  FoldersInv /\ RoomIsAccepted /\ [Next]_vars => RoomIsAccepted'
<1> SUFFICES ASSUME FoldersInv, RoomIsAccepted, [Next]_vars
             PROVE  RoomIsAccepted'
  OBVIOUS
<1>1. CASE Start \/ MakeFolder \/ CreateOrder \/ CreateSuffixes
  BY <1>1 DEF RoomIsAccepted, Start, MakeFolder, CreateOrder, CreateSuffixes, history
<1>2. CASE HydrateHatchling
  BY <1>2, HydrationErrorsAreOthers DEF RoomIsAccepted, HydrateHatchling, Fail, history
<1>3. CASE HydrateRoom
  <2>0. DiskInv /\ PromotedInv /\ at = "room"
    BY <1>3 DEF FoldersInv, HydrateRoom
  <2>1. PICK k \in 0 .. Fanout : CountInv(k)
    BY DEF FoldersInv
  <2>2. DOMAIN disk = Offsets(k + 1) /\ Here = k * DonutCapacity /\ k \in Nat
    BY <2>0, <2>1, FanoutIsNat DEF CountInv
  <2>3. Cardinality(DOMAIN disk) <= Fanout + 1
    BY <2>2, OffsetsCardinality, FanoutIsNat
  <2>4. \A o \in RoomOffsets : disk[o].st01
    BY <2>0, <2>2, HighestIsLast DEF RoomOffsets, PromotedInv
  <2>5. ~ (Cardinality(DOMAIN disk) > Fanout + 1)
    BY <2>2, <2>3, OffsetsCardinality, FanoutIsNat
  <2> QED
    BY <1>3, <2>4, <2>5, HydrationErrorsAreOthers
    DEF RoomIsAccepted, HydrateRoom, Fail, history
<1>4. CASE Ready \/ AppendHashes \/ Crash
  BY <1>4 DEF RoomIsAccepted, Ready, AppendHashes, Crash, Fail
<1>5. CASE TakeBatch \/ Seal \/ Promote \/ FeedRoom \/ Spawn \/ LambdaEnds \/ Shutdown
  BY <1>5 DEF RoomIsAccepted, TakeBatch, Seal, Promote, FeedRoom, Spawn, LambdaEnds,
              Shutdown, history
<1>6. CASE UNCHANGED vars
  BY <1>6 DEF RoomIsAccepted, vars, history
<1> QED
  BY <1>1, <1>2, <1>3, <1>4, <1>5, <1>6 DEF Next, Opening, Working

\* After any crashes, a start finds neither too many folders nor an unfilled
\* donut among those of the buffer room: hydrate_buffer_room never throws, and
\* never fails its assertion, for these reasons (ingester_tier_folder.hpp:92-105).
THEOREM RoomIsAlwaysAccepted == Spec => []RoomIsAccepted
<1>1. Init => RoomIsAccepted
  BY DEF Init, RoomIsAccepted
<1>2. FoldersInv /\ RoomIsAccepted /\ [Next]_vars => RoomIsAccepted'
  BY RoomIsAcceptedNext
<1>3. Spec => []FoldersInv
  BY FoldersStayInOrder
<1> QED
  BY <1>1, <1>2, <1>3, PTL DEF Spec

-----------------------------------------------------------------------------
(* Order files with a part of an entry at the end.                         *)

\* A torn file is what an end without a shutdown left.
TornInv ==
    \A o \in DOMAIN disk : disk[o].order.torn => crashed \/ (at = "down" /\ ~clean)

MisalignedAfterCrash == failure = "misaligned" => crashed

NoNewTear == \A o \in DOMAIN disk' : disk'[o].order.torn =>
                                        o \in DOMAIN disk /\ disk[o].order.torn

LEMMA FlushTearsNothing ==
  ASSUME FoldersInv, disk' = Flushed
  PROVE  NoNewTear
<1>1. DiskInv /\ DOMAIN disk' = DOMAIN disk
  BY DEF FoldersInv, Flushed, Written
<1>2. \A o \in DOMAIN disk \ {Here} : disk'[o] = disk[o]
  BY DEF Flushed, Written
<1>3. Here \in DOMAIN disk => disk'[Here].order.torn = (disk[Here].order.torn \/ FALSE)
  BY FlushKeepsFolders
<1> QED
  BY <1>1, <1>2, <1>3 DEF NoNewTear

LEMMA MakingTearsNothing ==
  ASSUME FoldersInv, MakeFolder \/ CreateOrder \/ CreateSuffixes \/ Promote
  PROVE  NoNewTear
<1>0. DiskInv
  BY DEF FoldersInv
<1>1. CASE MakeFolder /\ Here \notin DOMAIN disk
  <2>1. disk' = [o \in DOMAIN disk \cup {Here} |-> IF o = Here THEN NewFolder ELSE disk[o]]
    BY <1>1 DEF MakeFolder
  <2> QED
    BY <2>1 DEF NoNewTear, NewFolder, NoFile
<1>2. CASE /\ Here \in DOMAIN disk
           /\ \/ disk' = [disk EXCEPT ![Here].st00 = TRUE]
              \/ disk' = [disk EXCEPT ![Here].order = EmptyFile]
              \/ disk' = [disk EXCEPT ![Here].suffixes = EmptyFile]
              \/ disk' = [disk EXCEPT ![Here] = Made(@)]
  <2> DEFINE f == disk[Here]
  <2>1. f = [st00 |-> f.st00, st01 |-> f.st01, order |-> f.order, suffixes |-> f.suffixes]
    BY <1>0, <1>2 DEF DiskInv, IsFolder
  <2>2. /\ DOMAIN disk' = DOMAIN disk
        /\ \A o \in DOMAIN disk \ {Here} : disk'[o] = disk[o]
    BY <1>2
  <2>3. \/ disk'[Here] = [f EXCEPT !.st00 = TRUE]
        \/ disk'[Here] = [f EXCEPT !.order = EmptyFile]
        \/ disk'[Here] = [f EXCEPT !.suffixes = EmptyFile]
        \/ disk'[Here] = [f EXCEPT !.st01 = TRUE]
    BY <1>2 DEF Made
  <2>4. disk'[Here].order = f.order \/ disk'[Here].order = EmptyFile
    BY <2>1, <2>3
  <2> QED
    BY <2>2, <2>4, EmptyFileIsFile DEF NoNewTear
<1>3. CASE MakeFolder /\ Here \in DOMAIN disk
  BY <1>2, <1>3 DEF MakeFolder
<1>4. CASE CreateOrder \/ CreateSuffixes \/ Promote
  <2>1. PICK k \in 0 .. Fanout : CountInv(k)
    BY DEF FoldersInv
  <2>2. Here \in DOMAIN disk
    BY <1>4, <2>1, HereIsThere DEF CreateOrder, CreateSuffixes, Promote
  <2> QED
    BY <1>2, <1>4, <2>2 DEF CreateOrder, CreateSuffixes, Promote
<1> QED
  BY <1>1, <1>3, <1>4

LEMMA TornNext ==
  FoldersInv /\ TornInv /\ MisalignedAfterCrash /\ [Next]_vars
     => TornInv' /\ MisalignedAfterCrash'
<1> SUFFICES ASSUME FoldersInv, TornInv, MisalignedAfterCrash, [Next]_vars
             PROVE  TornInv' /\ MisalignedAfterCrash'
  OBVIOUS
<1>1. ASSUME NEW reason, Fail(reason), reason = "misaligned" => crashed
      PROVE  TornInv' /\ MisalignedAfterCrash'
  BY <1>1 DEF Fail, MemoryLost, TornInv, MisalignedAfterCrash
<1>2. CASE Start
  BY <1>2 DEF Start, TornInv, MisalignedAfterCrash
<1>3. CASE /\ NoNewTear /\ (at = "down" <=> at' = "down")
           /\ UNCHANGED << failure, clean, crashed >>
  BY <1>3 DEF NoNewTear, TornInv, MisalignedAfterCrash
<1>4. CASE MakeFolder \/ CreateOrder \/ CreateSuffixes \/ Promote
  BY <1>3, <1>4, MakingTearsNothing
  DEF MakeFolder, CreateOrder, CreateSuffixes, Promote, history, Opened
<1>5. CASE Shutdown
  <2>1. NoNewTear /\ at # "down" /\ UNCHANGED << failure, crashed >>
    BY <1>5, FlushTearsNothing DEF Shutdown
  <2> QED
    BY <2>1 DEF NoNewTear, TornInv, MisalignedAfterCrash
<1>6. CASE Seal
  <2>1. NoNewTear
    BY <1>6, FlushTearsNothing DEF Seal
  <2> QED
    BY <1>3, <1>6, <2>1 DEF Seal, history
<1>7. CASE HydrateHatchling
  <2>1. CASE HydrationError(disk[Here]) # "none" /\ Fail(HydrationError(disk[Here]))
    <3>1. HydrationError(disk[Here]) = "misaligned" => disk[Here].order.torn
      BY DEF HydrationError
    <3>2. HydrationError(disk[Here]) = "misaligned" => crashed
      BY <1>7, <3>1 DEF TornInv, HydrateHatchling
    <3> QED
      BY <1>1, <2>1, <3>2
  <2>2. CASE UNCHANGED disk /\ at' = Opened /\ UNCHANGED history
    BY <1>3, <1>7, <2>2 DEF HydrateHatchling, history, Opened, NoNewTear
  <2> QED
    BY <1>7, <2>1, <2>2 DEF HydrateHatchling
<1>8. CASE HydrateRoom
  <2>1. ASSUME NEW o \in RoomOffsets, Fail(HydrationError(disk[o]))
        PROVE  TornInv' /\ MisalignedAfterCrash'
    <3>1. HydrationError(disk[o]) = "misaligned" => disk[o].order.torn
      BY DEF HydrationError
    <3>2. HydrationError(disk[o]) = "misaligned" => crashed
      BY <1>8, <3>1 DEF TornInv, HydrateRoom, RoomOffsets
    <3> QED
      BY <1>1, <2>1, <3>2
  <2>2. CASE Fail("too_many_folders") \/ Fail("not_filled")
    BY <1>1, <2>2
  <2>3. CASE UNCHANGED disk /\ at' = "check" /\ UNCHANGED history
    BY <1>3, <1>8, <2>3 DEF HydrateRoom, history, NoNewTear
  <2> QED
    BY <1>8, <2>1, <2>2, <2>3 DEF HydrateRoom
<1>9. CASE Ready \/ AppendHashes \/ Crash
  <2>1. CASE Fail("no_capacity") \/ Fail("not_open") \/ Fail("killed")
    BY <1>1, <2>1
  <2>2. CASE /\ UNCHANGED << disk, failure, clean, crashed >>
             /\ at # "down" /\ at' # "down"
    BY <1>3, <2>2 DEF NoNewTear
  <2> QED
    BY <1>9, <2>1, <2>2 DEF Ready, AppendHashes, Crash
<1>10. CASE TakeBatch \/ FeedRoom \/ Spawn \/ LambdaEnds
  BY <1>3, <1>10 DEF TakeBatch, FeedRoom, Spawn, LambdaEnds, history, NoNewTear
<1>11. CASE UNCHANGED vars
  BY <1>3, <1>11 DEF vars, history, NoNewTear
<1> QED
  BY <1>2, <1>4, <1>5, <1>6, <1>7, <1>8, <1>9, <1>10, <1>11 DEF Next, Opening, Working

\* An order file whose size is no whole number of entries, for which hydration
\* throws (ingester_evolver_types.hpp:233-236), is only met after a process that
\* was not shut down.
THEOREM MisalignedOnlyAfterCrash == Spec => []MisalignedAfterCrash
<1>1. Init => TornInv /\ MisalignedAfterCrash
  BY DEF Init, TornInv, MisalignedAfterCrash
<1>2. FoldersInv /\ TornInv /\ MisalignedAfterCrash /\ [Next]_vars
        => TornInv' /\ MisalignedAfterCrash'
  BY TornNext
<1>3. Spec => []FoldersInv
  BY FoldersStayInOrder
<1> QED
  BY <1>1, <1>2, <1>3, PTL DEF Spec

-----------------------------------------------------------------------------
(* Counting the hashes of a sequence.                                      *)

\* The places among the first n that do not hold v.
PlacesOf(s, v, n) == {j \in 1 .. n : s[j] # v}

LEMMA PlacesAreFinite ==
  ASSUME NEW s, NEW v, NEW n \in Nat
  PROVE  /\ IsFiniteSet(PlacesOf(s, v, n))
         /\ Cardinality(PlacesOf(s, v, n)) \in 0 .. n
<1>1. IsFiniteSet(1 .. n) /\ Cardinality(1 .. n) = n
  BY FS_Interval
<1>2. PlacesOf(s, v, n) \in SUBSET (1 .. n)
  BY DEF PlacesOf
<1> DEFINE P == PlacesOf(s, v, n)
<1> HIDE DEF P
<1>3. IsFiniteSet(P) /\ Cardinality(P) <= n
  BY <1>1, <1>2, FS_Subset DEF P
<1>4. Cardinality(P) \in Nat
  BY <1>3, FS_CardinalityType
<1> QED
  BY <1>3, <1>4 DEF P

LEMMA PlacesGrow ==
  ASSUME NEW s, NEW v, NEW m \in Nat, NEW n \in Nat, m <= n
  PROVE  /\ Cardinality(PlacesOf(s, v, m)) <= Cardinality(PlacesOf(s, v, n))
         /\ m < n /\ s[n] # v
               => Cardinality(PlacesOf(s, v, m)) < Cardinality(PlacesOf(s, v, n))
<1> DEFINE P == PlacesOf(s, v, m)
           Q == PlacesOf(s, v, n)
<1>1. P \in SUBSET Q
  BY DEF PlacesOf
<1>2. IsFiniteSet(Q) /\ Cardinality(P) \in Nat /\ Cardinality(Q) \in Nat
  BY PlacesAreFinite
<1>3. m < n /\ s[n] # v => n \in Q /\ n \notin P
  BY DEF PlacesOf
<1> HIDE DEF P, Q
<1>4. Cardinality(P) <= Cardinality(Q) /\ (Cardinality(P) = Cardinality(Q) => P = Q)
  BY <1>1, <1>2, FS_Subset
<1>5. m < n /\ s[n] # v => Cardinality(P) < Cardinality(Q)
  BY <1>2, <1>3, <1>4
<1> QED
  BY <1>4, <1>5 DEF P, Q

LEMMA RankIsCount ==
  ASSUME NEW s, NEW n \in Nat
  PROVE  Rank(s, n) = Cardinality(PlacesOf(s, NoHash, n)) /\ Rank(s, n) \in 0 .. n
BY PlacesAreFinite DEF Rank, PlacesOf

LEMMA RankGrows ==
  ASSUME NEW s, NEW m \in Nat, NEW n \in Nat, m <= n
  PROVE  /\ Rank(s, m) <= Rank(s, n)
         /\ m < n /\ s[n] # NoHash => Rank(s, m) < Rank(s, n)
BY PlacesGrow, RankIsCount

LEMMA RankOfHash ==
  ASSUME NEW s, NEW n \in Nat \ {0}, s[n] # NoHash
  PROVE  Rank(s, n) >= 1
<1>1. n \in Nat /\ 0 \in Nat /\ 0 <= n /\ 0 < n
  OBVIOUS
<1>2. Rank(s, 0) < Rank(s, n)
  BY <1>1, RankGrows
<1>3. Rank(s, 0) \in 0 .. 0 /\ Rank(s, n) \in 0 .. n
  BY <1>1, RankIsCount
<1> QED
  BY <1>1, <1>2, <1>3

\* Two sequences with their gaps at the same places.
LEMMA RankOfLike ==
  ASSUME NEW s, NEW t, NEW n \in Nat, \A j \in 1 .. n : s[j] = NoHash <=> t[j] = NoHash
  PROVE  \A i \in 0 .. n : Rank(s, i) = Rank(t, i)
<1> SUFFICES ASSUME NEW i \in 0 .. n PROVE Rank(s, i) = Rank(t, i)
  OBVIOUS
<1>1. {j \in 1 .. i : s[j] # NoHash} = {j \in 1 .. i : t[j] # NoHash}
  OBVIOUS
<1> QED
  BY <1>1 DEF Rank

LEMMA RankOfConcat ==
  ASSUME NEW s \in Seq(Items), NEW t \in Seq(Items), NEW i \in 0 .. Len(t)
  PROVE  Rank(s \o t, Len(s) + i) = Rank(s, Len(s)) + Rank(t, i)
<1> DEFINE m == Len(s)
           A == PlacesOf(s, NoHash, m)
           B == PlacesOf(t, NoHash, i)
           C == {m + j : j \in B}
           P == PlacesOf(s \o t, NoHash, m + i)
<1>1. m \in Nat /\ i \in Nat /\ i <= Len(t) /\ Len(t) \in Nat
  BY LenProperties
<1>2. \A j \in 1 .. m + Len(t) : (s \o t)[j] = IF j <= m THEN s[j] ELSE t[j - m]
  BY ConcatProperties
<1>3. P = A \cup C
  <2>1. ASSUME NEW j \in P PROVE j \in A \cup C
    <3>1. j \in 1 .. m + Len(t) /\ (s \o t)[j] # NoHash /\ j <= m + i
      BY <1>1 DEF PlacesOf
    <3>2. CASE j <= m
      BY <1>1, <1>2, <3>1, <3>2 DEF PlacesOf
    <3>3. CASE j > m
      <4>1. j - m \in 1 .. i /\ j = m + (j - m)
        BY <1>1, <3>1, <3>3
      <4>2. j - m \in B
        BY <1>1, <1>2, <3>1, <3>3, <4>1 DEF PlacesOf
      <4> QED
        BY <4>1, <4>2
    <3> QED
      BY <1>1, <3>1, <3>2, <3>3
  <2>2. ASSUME NEW j \in A PROVE j \in P
    BY <1>1, <1>2 DEF PlacesOf
  <2>3. ASSUME NEW j \in B PROVE m + j \in P
    <3>1. j \in 1 .. i /\ t[j] # NoHash
      BY DEF PlacesOf
    <3>2. m + j \in 1 .. m + i /\ m + j \in 1 .. m + Len(t) /\ ~(m + j <= m) /\ (m + j) - m = j
      BY <1>1, <3>1
    <3>3. (s \o t)[m + j] = t[j]
      BY <1>2, <3>2
    <3> QED
      BY <3>1, <3>2, <3>3 DEF PlacesOf
  <2> QED
    BY <2>1, <2>2, <2>3
<1>4. A \cap C = {}
  BY <1>1 DEF PlacesOf
<1>5. IsFiniteSet(A) /\ IsFiniteSet(B) /\ Cardinality(A) \in Nat /\ Cardinality(B) \in Nat
  BY <1>1, PlacesAreFinite
<1>6. IsFiniteSet(C) /\ Cardinality(C) = Cardinality(B)
  <2> DEFINE f == [j \in B |-> m + j]
  <2>1. B \subseteq Nat
    BY <1>1 DEF PlacesOf
  <2> HIDE DEF B
  <2>2. f \in Injection(B, C)
    BY <1>1, <2>1 DEF Injection, IsInjective
  <2>3. f \in Surjection(B, C)
    BY DEF Surjection
  <2>4. ExistsBijection(B, C)
    BY <2>2, <2>3 DEF ExistsBijection, Bijection
  <2> QED
    BY <1>5, <2>4, FS_Bijection
<1>7. Cardinality(P) = Cardinality(A) + Cardinality(B)
  <2> HIDE DEF A, B, C, P
  <2>1. Cardinality(A \cup C) = Cardinality(A) + Cardinality(C) - Cardinality(A \cap C)
    BY <1>5, <1>6, FS_Union
  <2>2. Cardinality(A \cap C) = 0
    BY <1>4, FS_EmptySet
  <2> QED
    BY <1>3, <1>5, <1>6, <2>1, <2>2
<1> QED
  BY <1>1, <1>7, RankIsCount

-----------------------------------------------------------------------------
(* Hashes, and the places they have.                                       *)

\* A hash is there again.
Repeats(s) == \E i, j \in 1 .. Len(s) : i < j /\ s[i] = s[j] /\ s[i] # NoHash

LEMMA HashesAreCounted ==
  ASSUME NEW s \in Seq(Items)
  PROVE  /\ Cardinality(HashesIn(s)) \in 0 .. Rank(s, Len(s))
         /\ ~Repeats(s) => Cardinality(HashesIn(s)) = Rank(s, Len(s))
<1> DEFINE P == PlacesOf(s, NoHash, Len(s))
           H == HashesIn(s)
           f == [i \in P |-> s[i]]
<1>1. Len(s) \in Nat /\ DOMAIN s = 1 .. Len(s)
  BY LenProperties
<1>2. IsFiniteSet(P) /\ Rank(s, Len(s)) = Cardinality(P)
  BY <1>1, PlacesAreFinite, RankIsCount
<1>3. P = {i \in DOMAIN s : s[i] # NoHash}
  BY <1>1 DEF PlacesOf
<1>4. f \in Surjection(P, H)
  BY <1>3 DEF Surjection, HashesIn
<1>5. ~Repeats(s) => f \in Injection(P, H)
  <2> SUFFICES ASSUME ~Repeats(s), NEW i \in P, NEW j \in P, s[i] = s[j] PROVE i = j
    BY <1>4 DEF Injection, IsInjective, Surjection
  <2>1. i \in 1 .. Len(s) /\ j \in 1 .. Len(s) /\ s[i] # NoHash /\ s[j] # NoHash
    BY <1>1, <1>3
  <2> QED
    BY <1>1, <2>1 DEF Repeats
<1> HIDE DEF P, H, f
<1>6. /\ IsFiniteSet(H) /\ Cardinality(H) <= Cardinality(P)
      /\ Cardinality(H) = Cardinality(P) <=> f \in Injection(P, H)
  BY <1>2, <1>4, FS_Surjection
<1>7. Cardinality(H) \in Nat /\ Cardinality(P) \in Nat
  BY <1>2, <1>6, FS_CardinalityType
<1> QED
  BY <1>2, <1>5, <1>6, <1>7 DEF H

\* A nonempty set of numbers has a least one.
LEMMA LeastNumber ==
  ASSUME NEW T \in SUBSET Nat, T # {}
  PROVE  \E n \in T : \A m \in T : n <= m
<1>1. PICK n \in T : \A m \in T : ~ (<< m, n >> \in OpToRel(<, Nat))
  BY NatLessThanWellFounded, WFMin
<1>2. \A m \in T : ~ (m < n)
  BY <1>1 DEF OpToRel
<1> QED
  BY <1>2

LEMMA FirstPlaceIs ==
  ASSUME NEW s \in Seq(Items), NEW h, NEW i \in 1 .. Len(s),
         s[i] = h, \A j \in 1 .. i - 1 : s[j] # h
  PROVE  FirstPlace(s, h) = i
<1>1. DOMAIN s = 1 .. Len(s) /\ Len(s) \in Nat
  BY LenProperties
<1>2. ASSUME NEW k \in DOMAIN s, s[k] = h, \A j \in 1 .. k - 1 : s[j] # h
      PROVE  k = i
  <2>1. ~(k < i)
    BY <1>1, <1>2
  <2>2. ~(i < k)
    BY <1>1, <1>2
  <2> QED
    BY <1>1, <2>1, <2>2
<1> QED
  BY <1>1, <1>2 DEF FirstPlace

LEMMA FirstPlaceIsFirst ==
  ASSUME NEW s \in Seq(Items), NEW h \in HashesIn(s)
  PROVE  /\ FirstPlace(s, h) \in 1 .. Len(s)
         /\ s[FirstPlace(s, h)] = h
         /\ \A j \in 1 .. FirstPlace(s, h) - 1 : s[j] # h
<1> DEFINE T == {i \in 1 .. Len(s) : s[i] = h}
<1>1. DOMAIN s = 1 .. Len(s) /\ Len(s) \in Nat
  BY LenProperties
<1>2. T \in SUBSET Nat /\ T # {}
  BY <1>1 DEF HashesIn
<1>3. PICK i \in T : \A j \in T : i <= j
  <2> HIDE DEF T
  <2> QED
    BY <1>2, LeastNumber
<1>4. i \in 1 .. Len(s) /\ s[i] = h /\ \A j \in 1 .. i - 1 : s[j] # h
  <2>1. i \in 1 .. Len(s) /\ s[i] = h
    OBVIOUS
  <2>2. ASSUME NEW j \in 1 .. i - 1 PROVE s[j] # h
    <3>1. j \in 1 .. Len(s) /\ ~(i <= j)
      BY <1>1, <2>1
    <3> QED
      BY <1>3, <3>1
  <2> QED
    BY <2>1, <2>2
<1>5. FirstPlace(s, h) = i
  BY <1>4, FirstPlaceIs
<1> QED
  BY <1>4, <1>5

LEMMA HashesOfConcat ==
  ASSUME NEW s \in Seq(Items), NEW t \in Seq(Items)
  PROVE  HashesIn(s \o t) = HashesIn(s) \cup HashesIn(t)
<1>1. /\ Len(s) \in Nat /\ Len(t) \in Nat
      /\ DOMAIN s = 1 .. Len(s) /\ DOMAIN t = 1 .. Len(t)
      /\ DOMAIN (s \o t) = 1 .. Len(s) + Len(t)
      /\ \A i \in 1 .. Len(s) + Len(t) : (s \o t)[i] = IF i <= Len(s) THEN s[i] ELSE t[i - Len(s)]
  BY LenProperties, ConcatProperties
<1>2. ASSUME NEW i \in DOMAIN (s \o t)
      PROVE  (\E j \in DOMAIN s : s[j] = (s \o t)[i]) \/ (\E j \in DOMAIN t : t[j] = (s \o t)[i])
  <2>1. CASE i <= Len(s)
    BY <1>1, <2>1
  <2>2. CASE i > Len(s)
    <3>1. i - Len(s) \in DOMAIN t /\ (s \o t)[i] = t[i - Len(s)]
      BY <1>1, <2>2
    <3> QED
      BY <3>1
  <2> QED
    BY <1>1, <2>1, <2>2
<1>3. ASSUME NEW i \in DOMAIN s PROVE i \in DOMAIN (s \o t) /\ (s \o t)[i] = s[i]
  BY <1>1
<1>4. ASSUME NEW i \in DOMAIN t
      PROVE  Len(s) + i \in DOMAIN (s \o t) /\ (s \o t)[Len(s) + i] = t[i]
  <2>1. Len(s) + i \in 1 .. Len(s) + Len(t) /\ ~(Len(s) + i <= Len(s)) /\ (Len(s) + i) - Len(s) = i
    BY <1>1
  <2> QED
    BY <1>1, <2>1
<1>5. HashesIn(s \o t) \subseteq HashesIn(s) \cup HashesIn(t)
  BY <1>2 DEF HashesIn
<1>6. HashesIn(s) \subseteq HashesIn(s \o t)
  BY <1>3 DEF HashesIn
<1>7. HashesIn(t) \subseteq HashesIn(s \o t)
  BY <1>4 DEF HashesIn
<1> QED
  BY <1>5, <1>6, <1>7

LEMMA FirstPlaceInConcat ==
  ASSUME NEW s \in Seq(Items), NEW t \in Seq(Items)
  PROVE  /\ \A h \in HashesIn(s) : FirstPlace(s \o t, h) = FirstPlace(s, h)
         /\ \A h \in HashesIn(t) \ HashesIn(s) :
               FirstPlace(s \o t, h) = Len(s) + FirstPlace(t, h)
<1>1. /\ Len(s) \in Nat /\ Len(t) \in Nat /\ DOMAIN s = 1 .. Len(s)
      /\ s \o t \in Seq(Items) /\ Len(s \o t) = Len(s) + Len(t)
      /\ \A i \in 1 .. Len(s) + Len(t) : (s \o t)[i] = IF i <= Len(s) THEN s[i] ELSE t[i - Len(s)]
  BY LenProperties, ConcatProperties
<1>2. ASSUME NEW h \in HashesIn(s) PROVE FirstPlace(s \o t, h) = FirstPlace(s, h)
  <2>1. PICK i \in 1 .. Len(s) : /\ i = FirstPlace(s, h) /\ s[i] = h
                                 /\ \A j \in 1 .. i - 1 : s[j] # h
    BY FirstPlaceIsFirst
  <2>2. i \in 1 .. Len(s \o t) /\ (s \o t)[i] = h
    BY <1>1, <2>1
  <2>3. ASSUME NEW j \in 1 .. i - 1 PROVE (s \o t)[j] # h
    <3>1. j \in 1 .. Len(s) + Len(t) /\ j <= Len(s)
      BY <1>1
    <3> QED
      BY <1>1, <2>1, <3>1
  <2> QED
    BY <1>1, <2>1, <2>2, <2>3, FirstPlaceIs
<1>3. ASSUME NEW h \in HashesIn(t) \ HashesIn(s)
      PROVE  FirstPlace(s \o t, h) = Len(s) + FirstPlace(t, h)
  <2>1. PICK i \in 1 .. Len(t) : /\ i = FirstPlace(t, h) /\ t[i] = h
                                 /\ \A j \in 1 .. i - 1 : t[j] # h
    BY FirstPlaceIsFirst
  <2>2. h # NoHash /\ \A j \in 1 .. Len(s) : s[j] # h
    BY <1>1, <1>3 DEF HashesIn
  <2>3. /\ Len(s) + i \in 1 .. Len(s) + Len(t) /\ ~(Len(s) + i <= Len(s))
        /\ (Len(s) + i) - Len(s) = i
    BY <1>1
  <2>4. (s \o t)[Len(s) + i] = h
    BY <1>1, <2>1, <2>3
  <2>5. ASSUME NEW j \in 1 .. (Len(s) + i) - 1 PROVE (s \o t)[j] # h
    <3>1. j \in 1 .. Len(s) + Len(t)
      BY <1>1
    <3>2. CASE j <= Len(s)
      BY <1>1, <2>2, <3>1, <3>2
    <3>3. CASE ~(j <= Len(s))
      <4>1. j - Len(s) \in 1 .. i - 1
        BY <1>1, <3>3
      <4> QED
        BY <1>1, <2>1, <3>1, <3>3, <4>1
    <3> QED
      BY <3>2, <3>3
  <2>6. Len(s) + i \in 1 .. Len(s \o t)
    BY <1>1, <2>3
  <2> QED
    BY <1>1, <2>1, <2>4, <2>5, <2>6, FirstPlaceIs
<1> QED
  BY <1>2, <1>3

\* Inserting what is taken makes the map of both.
LEMMA MapOfBoth ==
  ASSUME NEW d, NEW taken \in Seq(Items), d.forward \in Seq(Items),
         d.reverse = ReverseFrom(d.forward)
  PROVE  MapInserted(d, taken) = ReverseFrom(d.forward \o taken)
<1> DEFINE s == d.forward
<1>1. DOMAIN d.reverse = HashesIn(s)
  BY DEF ReverseFrom
<1>2. HashesIn(s \o taken) = HashesIn(s) \cup HashesIn(taken)
  BY HashesOfConcat
<1>3. ASSUME NEW h \in HashesIn(s)
      PROVE  d.reverse[h] = FirstPlace(s \o taken, h) - 1
  BY FirstPlaceInConcat DEF ReverseFrom
<1>4. ASSUME NEW h \in HashesIn(taken) \ HashesIn(s)
      PROVE  (Len(s) + FirstPlace(taken, h)) - 1 = FirstPlace(s \o taken, h) - 1
  BY FirstPlaceInConcat
<1>5. ReverseFrom(s \o taken) = [h \in HashesIn(s) \cup HashesIn(taken) |-> FirstPlace(s \o taken, h) - 1]
  BY <1>2 DEF ReverseFrom
<1> QED
  BY <1>1, <1>3, <1>4, <1>5 DEF MapInserted

LEMMA PlaceOfHashIs ==
  ASSUME NEW s \in Seq(Items), NEW i \in 1 .. Len(s), s[i] # NoHash
  PROVE  PlaceOfHash(s, Rank(s, i)) = i
<1>1. DOMAIN s = 1 .. Len(s) /\ Len(s) \in Nat
  BY LenProperties
<1>2. ASSUME NEW k \in DOMAIN s, s[k] # NoHash, Rank(s, k) = Rank(s, i)
      PROVE  k = i
  <2>1. k \in Nat /\ i \in Nat /\ Rank(s, k) \in Nat
    <3>1. k \in Nat /\ i \in Nat
      BY <1>1
    <3> QED
      BY <3>1, RankIsCount
  <2>2. ~(k < i)
    BY <1>2, <2>1, RankGrows
  <2>3. ~(i < k)
    BY <1>2, <2>1, RankGrows
  <2> QED
    BY <2>1, <2>2, <2>3
<1> QED
  BY <1>1, <1>2 DEF PlaceOfHash

-----------------------------------------------------------------------------
(* What the files of a donut say.                                          *)

\* The cells of the two files are those of a beginning of s each: gaps are where
\* they are in s, an entry is the place its suffix has unless a hash was there
\* again, and the suffixes are the hashes of s in order.
Describes(cells, suffixes, s) ==
    /\ IsSeq(cells) /\ IsSeq(suffixes)
    /\ Len(cells) <= Len(s) + 1
    /\ \A i \in 1 .. Len(cells) - 1 :
          /\ cells[i + 1] = Sentinel <=> s[i] = NoHash
          /\ cells[i + 1] = Sentinel \/ cells[i + 1] + 1 = Rank(s, i) \/ Repeats(s)
    /\ \A i \in 1 .. Len(s) :
          s[i] # NoHash /\ Rank(s, i) <= Len(suffixes) => suffixes[Rank(s, i)].hash = s[i]

LEMMA SubSeqFrom1 ==
  ASSUME NEW s, IsSeq(s), NEW n \in 0 .. Len(s)
  PROVE  IsSeq(SubSeq(s, 1, n)) /\ Len(SubSeq(s, 1, n)) = n /\ \A i \in 1 .. n : SubSeq(s, 1, n)[i] = s[i]
<1>1. PICK S : s \in Seq(S)
  BY DEF IsSeq
<1>2. Len(s) \in Nat /\ \A i \in 1 .. n : s[i] \in S
  BY <1>1, LenProperties, ElementOfSeq
<1>3. /\ SubSeq(s, 1, n) \in Seq(S)
      /\ Len(SubSeq(s, 1, n)) = (IF 1 <= n THEN n - 1 + 1 ELSE 0)
      /\ \A i \in 1 .. n - 1 + 1 : SubSeq(s, 1, n)[i] = s[1 + i - 1]
  BY <1>2, SubSeqProperties
<1>4. IsSeq(SubSeq(s, 1, n))
  BY <1>3 DEF IsSeq
<1>5. n \in Nat /\ n - 1 + 1 = n /\ (1 <= n \/ n = 0) /\ \A i \in 1 .. n : 1 + i - 1 = i
  BY <1>2
<1> DEFINE t == SubSeq(s, 1, n)
<1>6. Len(t) = (IF 1 <= n THEN n ELSE 0) /\ \A i \in 1 .. n : t[i] = s[1 + i - 1]
  BY <1>3, <1>5
<1> HIDE DEF t
<1>7. Len(t) = n /\ \A i \in 1 .. n : t[i] = s[i]
  BY <1>5, <1>6
<1> QED
  BY <1>4, <1>7 DEF t

LEMMA SubSeqOfItems ==
  ASSUME NEW s \in Seq(Items), NEW m \in Nat \ {0}, NEW n \in 0 .. Len(s)
  PROVE  /\ SubSeq(s, m, n) \in Seq(Items)
         /\ Len(SubSeq(s, m, n)) = (IF m <= n THEN n - m + 1 ELSE 0)
         /\ \A i \in 1 .. n - m + 1 : SubSeq(s, m, n)[i] = s[m + i - 1]
<1>1. Len(s) \in Nat /\ \A i \in m .. n : s[i] \in Items
  BY LenProperties, ElementOfSeq
<1> QED
  BY <1>1, SubSeqProperties

\* What is left of the files after a crash still does.
LEMMA BeginningDescribes ==
  ASSUME NEW cells, NEW suffixes, NEW s \in Seq(Items), Describes(cells, suffixes, s),
         NEW m \in 0 .. Len(cells), NEW n \in 0 .. Len(suffixes)
  PROVE  Describes(SubSeq(cells, 1, m), SubSeq(suffixes, 1, n), s)
<1> DEFINE c == SubSeq(cells, 1, m)
           t == SubSeq(suffixes, 1, n)
<1>1. /\ IsSeq(c) /\ Len(c) = m /\ \A i \in 1 .. m : c[i] = cells[i]
      /\ IsSeq(t) /\ Len(t) = n /\ \A i \in 1 .. n : t[i] = suffixes[i]
      /\ Len(cells) \in Nat /\ Len(suffixes) \in Nat /\ Len(s) \in Nat
  BY SubSeqFrom1, LenIsNat, LenProperties DEF Describes
<1> HIDE DEF c, t
<1>2. Len(c) <= Len(s) + 1
  BY <1>1 DEF Describes
<1>3. ASSUME NEW i \in 1 .. Len(c) - 1
      PROVE  /\ c[i + 1] = Sentinel <=> s[i] = NoHash
             /\ c[i + 1] = Sentinel \/ c[i + 1] + 1 = Rank(s, i) \/ Repeats(s)
  <2>1. i \in 1 .. Len(cells) - 1 /\ i + 1 \in 1 .. m
    BY <1>1
  <2> QED
    BY <1>1, <2>1 DEF Describes
<1>4. ASSUME NEW i \in 1 .. Len(s), s[i] # NoHash, Rank(s, i) <= Len(t)
      PROVE  t[Rank(s, i)].hash = s[i]
  <2>1. i \in Nat \ {0}
    BY <1>1
  <2>2. Rank(s, i) \in Nat /\ Rank(s, i) >= 1
    BY <1>4, <2>1, RankOfHash, RankIsCount
  <2>3. Rank(s, i) \in 1 .. n /\ Rank(s, i) <= Len(suffixes)
    BY <1>1, <1>4, <2>2
  <2> QED
    BY <1>1, <1>4, <2>3 DEF Describes
<1>5. Describes(c, t, s)
  BY <1>1, <1>2, <1>3, <1>4 DEF Describes
<1> QED
  BY <1>5 DEF c, t

\* A header at most.
LEMMA BareDescribes ==
  ASSUME NEW cells, NEW suffixes, NEW s \in Seq(Items), IsSeq(cells), IsSeq(suffixes),
         Len(cells) <= 1, Len(suffixes) = 0
  PROVE  Describes(cells, suffixes, s)
<1>1. Len(s) \in Nat /\ Len(cells) \in Nat
  BY LenProperties, LenIsNat
<1>2. ASSUME NEW i \in 1 .. Len(s), s[i] # NoHash, Rank(s, i) <= 0
      PROVE  FALSE
  <2>1. i \in Nat \ {0}
    BY <1>1
  <2> QED
    BY <1>2, <2>1, RankOfHash, RankIsCount
<1>3. Len(cells) <= Len(s) + 1 /\ 1 .. Len(cells) - 1 = {}
  BY <1>1
<1> QED
  BY <1>2, <1>3 DEF Describes

\* No entry is off.
InStep(cells, s) ==
    \A i \in 1 .. Len(cells) - 1 : cells[i + 1] = Sentinel \/ cells[i + 1] + 1 = Rank(s, i)

\* Files that a crash left shorter than the log describe what they still hold.
LEMMA ShortenedDescribes ==
  ASSUME NEW cells, NEW suffixes, NEW s \in Seq(Items), Describes(cells, suffixes, s),
         NEW n \in 0 .. Len(s), Len(cells) <= n + 1, InStep(cells, s)
  PROVE  Describes(cells, suffixes, SubSeq(s, 1, n))
<1> DEFINE t == SubSeq(s, 1, n)
<1>1. t \in Seq(Items) /\ Len(t) = n /\ \A i \in 1 .. n : t[i] = s[i]
  BY SubSeqFrom1, SubSeqOfItems, LenProperties DEF IsSeq
<1>2. Len(s) \in Nat /\ n \in Nat /\ Len(cells) \in Nat
  BY LenProperties, LenIsNat DEF Describes
<1> HIDE DEF t
<1>3. \A i \in 0 .. n : Rank(t, i) = Rank(s, i)
  <2>1. \A j \in 1 .. n : t[j] = NoHash <=> s[j] = NoHash
    BY <1>1
  <2> QED
    BY <1>2, <2>1, RankOfLike
<1>4. ASSUME NEW i \in 1 .. Len(cells) - 1
      PROVE  /\ cells[i + 1] = Sentinel <=> t[i] = NoHash
             /\ cells[i + 1] = Sentinel \/ cells[i + 1] + 1 = Rank(t, i)
  <2>1. i \in 1 .. n /\ i \in 0 .. n
    BY <1>2
  <2> QED
    BY <1>1, <1>3, <2>1 DEF InStep, Describes
<1>5. ASSUME NEW i \in 1 .. Len(t), t[i] # NoHash, Rank(t, i) <= Len(suffixes)
      PROVE  suffixes[Rank(t, i)].hash = t[i]
  <2>1. i \in 1 .. n /\ i \in 0 .. n /\ i \in 1 .. Len(s)
    BY <1>1, <1>2
  <2> QED
    BY <1>1, <1>3, <1>5, <2>1 DEF Describes
<1>6. Describes(cells, suffixes, t)
  BY <1>1, <1>4, <1>5 DEF Describes
<1> QED
  BY <1>6 DEF t

-----------------------------------------------------------------------------
(* Reading them.                                                           *)

LEMMA EntriesAre ==
  ASSUME NEW order, IsSeq(order.cells)
  PROVE  /\ Len(Entries(order)) = IF Len(order.cells) = 0 THEN 0 ELSE Len(order.cells) - 1
         /\ Len(Entries(order)) \in Nat
         /\ DOMAIN Entries(order) = 1 .. Len(Entries(order))
         /\ \A i \in 1 .. Len(Entries(order)) :
               Entries(order)[i] = order.cells[i + 1] /\ i \in 1 .. Len(order.cells) - 1
<1> DEFINE c == order.cells
           e == SubSeq(c, 2, Len(c))
<1>1. PICK S : c \in Seq(S)
  BY DEF IsSeq
<1>2. Len(c) \in Nat /\ \A i \in 2 .. Len(c) : c[i] \in S
  BY <1>1, LenProperties, ElementOfSeq
<1>3. /\ e \in Seq(S)
      /\ Len(e) = (IF 2 <= Len(c) THEN Len(c) - 2 + 1 ELSE 0)
      /\ \A i \in 1 .. Len(c) - 2 + 1 : e[i] = c[2 + i - 1]
  BY <1>2, SubSeqProperties
<1>4. DOMAIN e = 1 .. Len(e)
  BY <1>3, LenProperties
<1>5. Entries(order) = e
  BY DEF Entries
<1> HIDE DEF e, c
<1>6. /\ Len(e) = (IF Len(c) = 0 THEN 0 ELSE Len(c) - 1)
      /\ Len(e) \in Nat
      /\ \A i \in 1 .. Len(e) : e[i] = c[i + 1] /\ i \in 1 .. Len(c) - 1
  BY <1>2, <1>3
<1> QED
  BY <1>4, <1>5, <1>6 DEF c

\* Entries are counted as the hashes are.
LEMMA EntryRankIs ==
  ASSUME NEW order, NEW suffixes, NEW s \in Seq(Items), Describes(order.cells, suffixes, s)
  PROVE  \A i \in 0 .. Len(Entries(order)) :
            EntryRank(Entries(order), i) = Rank(s, i) /\ Rank(s, i) \in Nat
<1> SUFFICES ASSUME NEW i \in 0 .. Len(Entries(order))
             PROVE  EntryRank(Entries(order), i) = Rank(s, i) /\ Rank(s, i) \in Nat
  OBVIOUS
<1>1. /\ Len(Entries(order)) \in Nat
      /\ \A j \in 1 .. Len(Entries(order)) :
            Entries(order)[j] = order.cells[j + 1] /\ j \in 1 .. Len(order.cells) - 1
  BY EntriesAre DEF Describes
<1>2. ASSUME NEW j \in 1 .. i PROVE Entries(order)[j] # Sentinel <=> s[j] # NoHash
  <2>1. j \in 1 .. Len(Entries(order))
    BY <1>1
  <2> QED
    BY <1>1, <2>1 DEF Describes
<1>3. {j \in 1 .. i : Entries(order)[j] # Sentinel} = {j \in 1 .. i : s[j] # NoHash}
  BY <1>2
<1>4. EntryRank(Entries(order), i) = Rank(s, i)
  BY <1>3, Zenon DEF EntryRank, Rank
<1>5. i \in Nat
  BY <1>1
<1> QED
  BY <1>4, <1>5, RankIsCount

LEMMA EntriesFit ==
  ASSUME NEW order, NEW suffixes, NEW s \in Seq(Items), Describes(order.cells, suffixes, s)
  PROVE  Len(Entries(order)) \in 0 .. Len(s)
<1>1. Len(s) \in Nat /\ Len(order.cells) \in Nat /\ Len(order.cells) <= Len(s) + 1
  BY LenProperties, LenIsNat DEF Describes
<1> QED
  BY <1>1, EntriesAre DEF Describes

\* The assertion that the indices are sequential fails only if a hash was there
\* again.
LEMMA OffIfRepeated ==
  ASSUME NEW f, NEW s \in Seq(Items), Describes(f.order.cells, f.suffixes.cells, s),
         OutOfOrder(f)
  PROVE  Repeats(s)
<1> DEFINE e == Entries(f.order)
<1>1. /\ Len(e) \in Nat /\ DOMAIN e = 1 .. Len(e)
      /\ \A i \in 1 .. Len(e) : e[i] = f.order.cells[i + 1] /\ i \in 1 .. Len(f.order.cells) - 1
  BY EntriesAre DEF Describes
<1>2. \A i \in 0 .. Len(e) : EntryRank(e, i) = Rank(s, i)
  BY EntryRankIs
<1>3. PICK i \in DOMAIN e : e[i] # Sentinel /\ e[i] + 1 # EntryRank(e, i)
  BY DEF OutOfOrder
<1>4. i \in 1 .. Len(e) /\ i \in 0 .. Len(e)
  BY <1>1
<1> QED
  BY <1>1, <1>2, <1>3, <1>4 DEF Describes

LEMMA TruncatedIs ==
  ASSUME NEW f, NEW s \in Seq(Items), Describes(f.order.cells, f.suffixes.cells, s)
  PROVE  Truncated(f) <=> Rank(s, Len(Entries(f.order))) > Len(f.suffixes.cells)
<1> DEFINE e == Entries(f.order)
<1>1. Len(e) \in 0 .. Len(e)
  BY EntriesAre DEF Describes
<1>2. EntryRank(e, Len(e)) = Rank(s, Len(e))
  BY <1>1, EntryRankIs
<1> QED
  BY <1>2 DEF Truncated

\* Files that hydrate have as many suffixes as they need, and no entry is off.
LEMMA HydratingIsInStep ==
  ASSUME NEW f, NEW s \in Seq(Items), Describes(f.order.cells, f.suffixes.cells, s),
         HydrationError(f) = "none", ~NotBegun(f)
  PROVE  /\ Rank(s, Len(Entries(f.order))) <= Len(f.suffixes.cells)
         /\ InStep(f.order.cells, s)
<1> DEFINE e == Entries(f.order)
<1>1. ~OutOfOrder(f) /\ ~Truncated(f)
  BY DEF HydrationError
<1>2. /\ Len(e) \in Nat /\ DOMAIN e = 1 .. Len(e) /\ Len(f.suffixes.cells) \in Nat
      /\ Len(f.order.cells) \in Nat
      /\ Len(e) = IF Len(f.order.cells) = 0 THEN 0 ELSE Len(f.order.cells) - 1
      /\ \A i \in 1 .. Len(e) : e[i] = f.order.cells[i + 1]
  BY EntriesAre, LenIsNat DEF Describes
<1>3. \A i \in 0 .. Len(e) : EntryRank(e, i) = Rank(s, i) /\ Rank(s, i) \in Nat
  BY EntryRankIs
<1>4. Rank(s, Len(e)) <= Len(f.suffixes.cells)
  <2>1. ~(Rank(s, Len(e)) > Len(f.suffixes.cells))
    BY <1>1, TruncatedIs
  <2>2. Rank(s, Len(e)) \in Nat
    BY <1>2, <1>3
  <2> QED
    BY <1>2, <2>1, <2>2
<1>5. ASSUME NEW i \in 1 .. Len(f.order.cells) - 1, f.order.cells[i + 1] # Sentinel
      PROVE  f.order.cells[i + 1] + 1 = Rank(s, i)
  <2>1. i \in 1 .. Len(e) /\ i \in 0 .. Len(e) /\ i \in Nat /\ i <= Len(e) /\ i \in DOMAIN e
    BY <1>2
  <2>2. Rank(s, i) <= Rank(s, Len(e))
    BY <1>2, <2>1, RankGrows
  <2>3. EntryRank(e, i) <= Len(f.suffixes.cells) + 1
    <3>1. Rank(s, i) \in Nat /\ Rank(s, Len(e)) \in Nat /\ EntryRank(e, i) = Rank(s, i)
      BY <1>2, <1>3, <2>1
    <3> QED
      BY <1>2, <1>4, <2>2, <3>1
  <2>4. e[i] + 1 = EntryRank(e, i)
    BY <1>1, <1>2, <1>5, <2>1, <2>3 DEF OutOfOrder
  <2> QED
    BY <1>2, <1>3, <2>1, <2>4
<1> QED
  BY <1>4, <1>5 DEF InStep

\* Hydration undoes appending.
LEMMA ReadBack ==
  ASSUME NEW order, NEW suffixes, NEW s \in Seq(Items),
         Describes(order.cells, suffixes.cells, s),
         Rank(s, Len(Entries(order))) <= Len(suffixes.cells)
  PROVE  ForwardFrom(order, suffixes) = SubSeq(s, 1, Len(Entries(order)))
<1> DEFINE e == Entries(order)
           t == SubSeq(s, 1, Len(e))
<1>1. /\ Len(e) \in Nat /\ DOMAIN e = 1 .. Len(e) /\ Len(suffixes.cells) \in Nat
      /\ \A i \in 1 .. Len(e) : e[i] = order.cells[i + 1] /\ i \in 1 .. Len(order.cells) - 1
  BY EntriesAre, LenIsNat DEF Describes
<1>2. Len(e) \in 0 .. Len(s) /\ Len(s) \in Nat
  BY EntriesFit, LenProperties
<1>3. \A i \in 0 .. Len(e) : EntryRank(e, i) = Rank(s, i) /\ Rank(s, i) \in Nat
  BY EntryRankIs
<1>4. t \in Seq(Items) /\ Len(t) = Len(e) /\ \A i \in 1 .. Len(e) : t[i] = s[i]
  BY <1>2, SubSeqFrom1, SubSeqOfItems DEF IsSeq
<1>5. t = [i \in 1 .. Len(e) |-> s[i]]
  <2> HIDE DEF t
  <2>1. t \in [1 .. Len(t) -> Items]
    BY <1>4, LenProperties
  <2> QED
    BY <1>4, <2>1
<1>6. ASSUME NEW i \in 1 .. Len(e)
      PROVE  (IF e[i] = Sentinel THEN NoHash ELSE suffixes.cells[EntryRank(e, i)].hash) = s[i]
  <2>1. i \in 0 .. Len(e) /\ i \in Nat /\ i <= Len(e) /\ i \in 1 .. Len(s)
    BY <1>1, <1>2
  <2>2. e[i] = Sentinel <=> s[i] = NoHash
    BY <1>1 DEF Describes
  <2>3. Rank(s, i) <= Rank(s, Len(e))
    BY <1>1, <2>1, RankGrows
  <2>4. Rank(s, i) <= Len(suffixes.cells)
    <3>1. Rank(s, i) \in Nat /\ Rank(s, Len(e)) \in Nat
      BY <1>1, <2>1, RankIsCount
    <3> QED
      BY <1>1, <2>3, <3>1
  <2>5. s[i] # NoHash => suffixes.cells[Rank(s, i)].hash = s[i]
    BY <2>1, <2>4 DEF Describes
  <2> QED
    BY <1>3, <2>1, <2>2, <2>5
<1>7. ForwardFrom(order, suffixes)
         = [i \in 1 .. Len(e) |->
               IF e[i] = Sentinel THEN NoHash ELSE suffixes.cells[EntryRank(e, i)].hash]
  BY <1>1 DEF ForwardFrom
<1> QED
  BY <1>5, <1>6, <1>7

-----------------------------------------------------------------------------
(* Writing them.                                                           *)

LEMMA ConcatAt ==
  ASSUME NEW s, NEW t, IsSeq(s), IsSeq(t)
  PROVE  /\ \A i \in 1 .. Len(s) : (s \o t)[i] = s[i]
         /\ \A i \in 1 .. Len(t) : (s \o t)[Len(s) + i] = t[i]
<1>1. PICK S : s \in Seq(S)
  BY DEF IsSeq
<1>2. PICK T : t \in Seq(T)
  BY DEF IsSeq
<1>3. s \in Seq(S \cup T) /\ t \in Seq(S \cup T)
  BY <1>1, <1>2, SeqMonotonic
<1>4. /\ Len(s) \in Nat /\ Len(t) \in Nat
      /\ \A i \in 1 .. Len(s) + Len(t) : (s \o t)[i] = IF i <= Len(s) THEN s[i] ELSE t[i - Len(s)]
  BY <1>3, ConcatProperties, LenProperties
<1>5. ASSUME NEW i \in 1 .. Len(t) PROVE (s \o t)[Len(s) + i] = t[i]
  <2>1. /\ Len(s) + i \in 1 .. Len(s) + Len(t)
        /\ ~(Len(s) + i <= Len(s)) /\ (Len(s) + i) - Len(s) = i
    BY <1>4
  <2> QED
    BY <1>4, <2>1
<1> QED
  BY <1>4, <1>5

\* What append_hashes writes for some of the items.
LEMMA CellsAre ==
  ASSUME NEW d, NEW taken \in Seq(Items), d.forward \in Seq(Items),
         d.reverse = ReverseFrom(d.forward),
         Len(d.forward) + Len(taken) <= DonutCapacity
  PROVE  /\ IsSeq(OrderCells(d, taken)) /\ Len(OrderCells(d, taken)) = Len(taken)
         /\ \A j \in 1 .. Len(taken) :
               LET cell == OrderCells(d, taken)[j]
               IN  /\ cell = Sentinel <=> taken[j] = NoHash
                   /\ taken[j] # NoHash /\ ~Repeats(d.forward)
                         => cell + 1 = Rank(d.forward, Len(d.forward)) + Rank(taken, j)
<1> DEFINE m == Len(d.forward)
           N == NextSuffixIndex(d)
           c == OrderCells(d, taken)
<1>1. m \in Nat /\ Len(taken) \in Nat /\ DOMAIN taken = 1 .. Len(taken) /\ DonutCapacity \in Nat
  BY LenProperties, DonutCapacityAssumption
<1>2. N = Cardinality(HashesIn(d.forward))
  BY DEF NextSuffixIndex, ReverseFrom
<1>3. /\ N \in 0 .. Rank(d.forward, m) /\ Rank(d.forward, m) \in 0 .. m
      /\ ~Repeats(d.forward) => N = Rank(d.forward, m)
  BY <1>1, <1>2, HashesAreCounted, RankIsCount
<1>4. c = [j \in 1 .. Len(taken) |-> c[j]]
  BY <1>1 DEF OrderCells
<1>5. \A j \in 1 .. Len(taken) :
         c[j] = IF taken[j] = NoHash THEN Sentinel ELSE (N + Rank(taken, j)) - 1
  BY <1>1 DEF OrderCells
<1> HIDE DEF c, N
<1>6. ASSUME NEW j \in 1 .. Len(taken), taken[j] # NoHash
      PROVE  /\ c[j] # Sentinel
             /\ ~Repeats(d.forward) => c[j] + 1 = Rank(d.forward, m) + Rank(taken, j)
  <2>1. j \in Nat \ {0} /\ j \in Nat /\ j <= Len(taken)
    BY <1>1
  <2>2. Rank(taken, j) \in 1 .. j
    BY <1>6, <2>1, RankOfHash, RankIsCount
  <2>3. PICK n, r \in Nat : n = N /\ r = Rank(taken, j) /\ n <= m /\ r >= 1 /\ r <= j
    BY <1>1, <1>3, <2>1, <2>2
  <2>4. c[j] = (n + r) - 1
    BY <1>5, <1>6, <2>3
  <2>5. c[j] < DonutCapacity
    BY <1>1, <2>1, <2>3, <2>4
  <2>6. c[j] + 1 = n + r
    BY <2>3, <2>4
  <2> QED
    BY <1>1, <1>3, <2>3, <2>5, <2>6 DEF Sentinel
<1>7. IsSeq(c) /\ Len(c) = Len(taken)
  BY <1>1, <1>4, ItemsAreSeq
<1> QED
  BY <1>5, <1>6, <1>7 DEF c

LEMMA SuffixesAre ==
  ASSUME NEW d, NEW taken \in Seq(Items)
  PROVE  /\ IsSeq(SuffixCells(d, taken))
         /\ Len(SuffixCells(d, taken)) = Rank(taken, Len(taken))
         /\ \A j \in 1 .. Len(taken) :
               taken[j] # NoHash => /\ Rank(taken, j) \in 1 .. Rank(taken, Len(taken))
                                    /\ SuffixCells(d, taken)[Rank(taken, j)].hash = taken[j]
<1> DEFINE n == Rank(taken, Len(taken))
           t == SuffixCells(d, taken)
<1>1. Len(taken) \in Nat /\ n \in Nat
  BY LenProperties, RankIsCount
<1>2. t = [k \in 1 .. n |-> t[k]]
  BY DEF SuffixCells
<1>3. \A k \in 1 .. n : t[k].hash = taken[PlaceOfHash(taken, k)]
  BY DEF SuffixCells
<1> HIDE DEF t
<1>4. ASSUME NEW j \in 1 .. Len(taken), taken[j] # NoHash
      PROVE  Rank(taken, j) \in 1 .. n /\ t[Rank(taken, j)].hash = taken[j]
  <2>1. j \in Nat \ {0} /\ j \in Nat /\ j <= Len(taken)
    BY <1>1
  <2>2. Rank(taken, j) \in Nat /\ Rank(taken, j) >= 1 /\ Rank(taken, j) <= n
    BY <1>1, <1>4, <2>1, RankOfHash, RankIsCount, RankGrows
  <2>3. PlaceOfHash(taken, Rank(taken, j)) = j
    BY <1>4, PlaceOfHashIs
  <2>4. Rank(taken, j) \in 1 .. n
    BY <1>1, <2>2
  <2> QED
    BY <1>3, <2>3, <2>4
<1>5. IsSeq(t) /\ Len(t) = n
  BY <1>1, <1>2, ItemsAreSeq
<1> QED
  BY <1>4, <1>5 DEF t

LEMMA RepeatsInBoth ==
  ASSUME NEW s \in Seq(Items), NEW t \in Seq(Items), Repeats(s)
  PROVE  Repeats(s \o t)
<1>1. PICK i, j \in 1 .. Len(s) : i < j /\ s[i] = s[j] /\ s[i] # NoHash
  BY DEF Repeats
<1>2. /\ Len(s) \in Nat /\ Len(t) \in Nat /\ Len(s \o t) = Len(s) + Len(t)
      /\ \A k \in 1 .. Len(s) : (s \o t)[k] = s[k]
  BY LenProperties, ConcatProperties, ConcatAt DEF IsSeq
<1>3. i \in 1 .. Len(s \o t) /\ j \in 1 .. Len(s \o t)
  BY <1>2
<1> QED
  BY <1>1, <1>2, <1>3 DEF Repeats

\* What is appended goes with what was there.
LEMMA AppendingDescribes ==
  ASSUME NEW d, NEW taken \in Seq(Items), d.forward \in Seq(Items),
         d.reverse = ReverseFrom(d.forward),
         Len(d.forward) + Len(taken) <= DonutCapacity,
         NEW cells, NEW suffixes, Describes(cells, suffixes, d.forward),
         Len(cells) = Len(d.forward) + 1,
         Len(suffixes) = Rank(d.forward, Len(d.forward))
  PROVE  LET both == d.forward \o taken
             more == suffixes \o SuffixCells(d, taken)
         IN  /\ Describes(cells \o OrderCells(d, taken), more, both)
             /\ Len(more) = Rank(both, Len(both))
<1> DEFINE s == d.forward
           m == Len(s)
           n == Len(taken)
           u == s \o taken
           c == OrderCells(d, taken)
           t == SuffixCells(d, taken)
           cc == cells \o c
           tt == suffixes \o t
<1>1. m \in Nat /\ n \in Nat /\ IsSeq(cells) /\ IsSeq(suffixes) /\ IsSeq(s) /\ IsSeq(taken)
  BY LenProperties DEF Describes, IsSeq
<1>2. /\ IsSeq(c) /\ Len(c) = n
      /\ \A j \in 1 .. n :
            /\ c[j] = Sentinel <=> taken[j] = NoHash
            /\ taken[j] # NoHash /\ ~Repeats(s) => c[j] + 1 = Rank(s, m) + Rank(taken, j)
  BY CellsAre
<1>3. /\ IsSeq(t) /\ Len(t) = Rank(taken, n)
      /\ \A j \in 1 .. n :
            taken[j] # NoHash => /\ Rank(taken, j) \in 1 .. Rank(taken, n)
                                 /\ t[Rank(taken, j)].hash = taken[j]
  BY SuffixesAre
<1> HIDE DEF c, t
<1>4. /\ IsSeq(cc) /\ Len(cc) = (m + 1) + n
      /\ \A i \in 1 .. m + 1 : cc[i] = cells[i]
      /\ \A j \in 1 .. n : cc[(m + 1) + j] = c[j]
  <2>1. Len(cells) = m + 1 /\ Len(c) = n
    BY <1>2
  <2>2. IsSeq(cc) /\ Len(cc) = Len(cells) + Len(c)
    BY <1>1, <1>2, ConcatIsSeq
  <2>3. /\ \A i \in 1 .. Len(cells) : cc[i] = cells[i]
        /\ \A j \in 1 .. Len(c) : cc[Len(cells) + j] = c[j]
    BY <1>1, <1>2, ConcatAt
  <2> HIDE DEF cc
  <2> QED
    BY <2>1, <2>2, <2>3
<1>5. /\ IsSeq(tt) /\ Len(tt) = Rank(s, m) + Rank(taken, n)
      /\ \A k \in 1 .. Rank(s, m) : tt[k] = suffixes[k]
      /\ \A k \in 1 .. Rank(taken, n) : tt[Rank(s, m) + k] = t[k]
  <2>1. Len(suffixes) = Rank(s, m) /\ Len(t) = Rank(taken, n)
    BY <1>3
  <2>2. IsSeq(tt) /\ Len(tt) = Len(suffixes) + Len(t)
    BY <1>1, <1>3, ConcatIsSeq
  <2>3. /\ \A k \in 1 .. Len(suffixes) : tt[k] = suffixes[k]
        /\ \A k \in 1 .. Len(t) : tt[Len(suffixes) + k] = t[k]
    BY <1>1, <1>3, ConcatAt
  <2> HIDE DEF tt
  <2> QED
    BY <2>1, <2>2, <2>3
<1>6. /\ u \in Seq(Items) /\ Len(u) = m + n
      /\ \A i \in 1 .. m : u[i] = s[i]
      /\ \A j \in 1 .. n : u[m + j] = taken[j]
  BY <1>1, ConcatProperties, ConcatAt
<1>7. \A i \in 0 .. m : Rank(u, i) = Rank(s, i)
  <2>1. \A j \in 1 .. m : u[j] = NoHash <=> s[j] = NoHash
    BY <1>6
  <2> HIDE DEF u
  <2> QED
    BY <1>1, <2>1, RankOfLike
<1>8. \A j \in 0 .. n : Rank(u, m + j) = Rank(s, m) + Rank(taken, j)
  BY RankOfConcat
<1>9. Repeats(s) => Repeats(u)
  BY RepeatsInBoth
<1>10. Rank(s, m) \in Nat /\ Rank(taken, n) \in Nat
  BY <1>1, RankIsCount
<1> HIDE DEF cc, tt, u
<1>11. ASSUME NEW i \in 1 .. Len(cc) - 1
       PROVE  /\ cc[i + 1] = Sentinel <=> u[i] = NoHash
              /\ cc[i + 1] = Sentinel \/ cc[i + 1] + 1 = Rank(u, i) \/ Repeats(u)
  <2>1. CASE i <= m
    <3>1. i \in 1 .. m /\ i \in 0 .. m /\ i + 1 \in 1 .. m + 1 /\ i \in 1 .. Len(cells) - 1
      BY <1>1, <1>4, <2>1
    <3>2. /\ cells[i + 1] = Sentinel <=> s[i] = NoHash
          /\ cells[i + 1] = Sentinel \/ cells[i + 1] + 1 = Rank(s, i) \/ Repeats(s)
      BY <3>1 DEF Describes
    <3> QED
      BY <1>4, <1>6, <1>7, <1>9, <3>1, <3>2
  <2>2. CASE i > m
    <3>1. PICK j \in 1 .. n : i = m + j
      <4>1. i - m \in 1 .. n /\ i = m + (i - m)
        BY <1>1, <1>4, <2>2
      <4> QED
        BY <4>1
    <3>2. i + 1 = (m + 1) + j /\ j \in 0 .. n
      BY <1>1, <3>1
    <3>3. cc[i + 1] = c[j] /\ u[i] = taken[j] /\ Rank(u, i) = Rank(s, m) + Rank(taken, j)
      BY <1>4, <1>6, <1>8, <3>1, <3>2
    <3> QED
      BY <1>2, <1>9, <3>3
  <2> QED
    BY <1>1, <1>4, <2>1, <2>2
<1>12. ASSUME NEW i \in 1 .. Len(u), u[i] # NoHash
       PROVE  tt[Rank(u, i)].hash = u[i]
  <2>1. CASE i <= m
    <3>1. i \in 1 .. m /\ i \in 0 .. m /\ i \in Nat \ {0} /\ s[i] # NoHash /\ u[i] = s[i]
      BY <1>1, <1>6, <1>12, <2>1
    <3>2. Rank(s, i) \in Nat /\ Rank(s, i) >= 1 /\ Rank(s, i) <= Rank(s, m)
      BY <1>1, <2>1, <3>1, RankIsCount, RankOfHash, RankGrows
    <3>3. Rank(s, i) \in 1 .. Rank(s, m) /\ suffixes[Rank(s, i)].hash = s[i]
      BY <1>10, <3>1, <3>2 DEF Describes
    <3> QED
      BY <1>5, <1>7, <3>1, <3>3
  <2>2. CASE i > m
    <3>1. PICK j \in 1 .. n : i = m + j
      <4>1. i - m \in 1 .. n /\ i = m + (i - m)
        BY <1>1, <1>6, <2>2
      <4> QED
        BY <4>1
    <3>2. j \in 0 .. n
      BY <1>1
    <3>3. u[i] = taken[j] /\ Rank(u, i) = Rank(s, m) + Rank(taken, j)
      BY <1>6, <1>8, <3>1, <3>2
    <3>4. Rank(taken, j) \in 1 .. Rank(taken, n) /\ t[Rank(taken, j)].hash = taken[j]
      BY <1>3, <1>12, <3>3
    <3>5. tt[Rank(s, m) + Rank(taken, j)] = t[Rank(taken, j)]
      BY <1>5, <3>4
    <3> QED
      BY <3>3, <3>4, <3>5
  <2> QED
    BY <1>1, <1>6, <2>1, <2>2
<1>13. Len(cc) <= Len(u) + 1
  BY <1>1, <1>4, <1>6
<1>14. Describes(cc, tt, u)
  BY <1>4, <1>5, <1>11, <1>12, <1>13 DEF Describes
<1>15. Len(tt) = Rank(u, Len(u))
  <2>1. n \in 0 .. n
    BY <1>1
  <2> QED
    BY <1>5, <1>6, <1>8, <2>1
<1> QED
  BY <1>14, <1>15 DEF cc, tt, u, c, t

-----------------------------------------------------------------------------
(* The items of the log that a donut is for.                               *)

Lesser(m, n) == IF m <= n THEN m ELSE n

Portion(l, o) == SubSeq(l, o + 1, Lesser(o + DonutCapacity, Len(l)))

LEMMA PortionIs ==
  ASSUME NEW l \in Seq(Items), NEW o \in Nat, o <= Len(l)
  PROVE  /\ Portion(l, o) \in Seq(Items)
         /\ Len(Portion(l, o)) = Lesser(DonutCapacity, Len(l) - o)
         /\ \A i \in 1 .. Len(Portion(l, o)) : Portion(l, o)[i] = l[o + i]
<1> DEFINE n == Lesser(o + DonutCapacity, Len(l))
           p == SubSeq(l, o + 1, n)
<1>1. Len(l) \in Nat /\ DonutCapacity \in Nat
  BY LenProperties, DonutCapacityAssumption
<1>2. n \in 0 .. Len(l) /\ o + 1 \in Nat \ {0} /\ o <= n
  BY <1>1 DEF Lesser
<1>3. n - o = Lesser(DonutCapacity, Len(l) - o)
  BY <1>1 DEF Lesser
<1> HIDE DEF n
<1>4. /\ p \in Seq(Items)
      /\ Len(p) = (IF o + 1 <= n THEN n - (o + 1) + 1 ELSE 0)
      /\ \A i \in 1 .. n - (o + 1) + 1 : p[i] = l[(o + 1) + i - 1]
  BY <1>2, SubSeqOfItems
<1>5. Len(p) = n - o
  BY <1>1, <1>2, <1>4
<1>6. \A i \in 1 .. Len(p) : p[i] = l[o + i]
  <2> HIDE DEF p
  <2>1. \A i \in 1 .. Len(p) : i \in 1 .. n - (o + 1) + 1 /\ (o + 1) + i - 1 = o + i
    BY <1>1, <1>2, <1>5
  <2> QED
    BY <1>4, <2>1
<1>7. Portion(l, o) = p
  BY DEF Portion, n
<1> HIDE DEF p
<1> QED
  BY <1>3, <1>4, <1>5, <1>6, <1>7

LEMMA PortionStays ==
  ASSUME NEW l \in Seq(Items), NEW t \in Seq(Items), NEW o \in Nat,
         o + DonutCapacity <= Len(l)
  PROVE  Portion(l \o t, o) = Portion(l, o)
<1>1. /\ Len(l) \in Nat /\ Len(t) \in Nat /\ DonutCapacity \in Nat
      /\ l \o t \in Seq(Items) /\ Len(l \o t) = Len(l) + Len(t)
      /\ \A i \in 1 .. Len(l) : (l \o t)[i] = l[i]
  BY LenProperties, DonutCapacityAssumption, ConcatProperties, ConcatAt DEF IsSeq
<1> DEFINE p == Portion(l, o)
           q == Portion(l \o t, o)
<1>2. o <= Len(l) /\ o <= Len(l \o t)
  BY <1>1
<1>3. /\ p \in Seq(Items) /\ Len(p) = DonutCapacity
      /\ \A i \in 1 .. Len(p) : p[i] = l[o + i]
  BY <1>1, <1>2, PortionIs DEF Lesser
<1>4. /\ q \in Seq(Items) /\ Len(q) = DonutCapacity
      /\ \A i \in 1 .. Len(q) : q[i] = (l \o t)[o + i]
  <2> DEFINE u == l \o t
  <2>1. u \in Seq(Items) /\ o <= Len(u) /\ DonutCapacity <= Len(u) - o /\ Len(u) \in Nat
    BY <1>1
  <2> HIDE DEF u
  <2>2. Len(Portion(u, o)) = DonutCapacity
    BY <1>1, <2>1, PortionIs DEF Lesser
  <2> QED
    BY <2>1, <2>2, PortionIs DEF u
<1> HIDE DEF p, q
<1>5. \A i \in 1 .. Len(p) : p[i] = q[i]
  <2>1. \A i \in 1 .. DonutCapacity : o + i \in 1 .. Len(l)
    BY <1>1
  <2> QED
    BY <1>1, <1>3, <1>4, <2>1
<1>6. p = q
  BY <1>3, <1>4, <1>5, SeqEqual
<1> QED
  BY <1>6 DEF p, q

\* A donut that holds what the log has from its first index on.
LEMMA HeldPortion ==
  ASSUME NEW l \in Seq(Items), NEW o \in Nat, NEW s \in Seq(Items),
         Len(s) <= DonutCapacity, o + Len(s) <= Len(l),
         \A i \in 1 .. Len(s) : s[i] = l[o + i]
  PROVE  /\ s = SubSeq(Portion(l, o), 1, Len(s))
         /\ Len(s) \in 0 .. Len(Portion(l, o))
         /\ o + Len(s) = Len(l) \/ Len(s) = DonutCapacity => s = Portion(l, o)
<1> DEFINE p == Portion(l, o)
           t == SubSeq(p, 1, Len(s))
<1>1. Len(l) \in Nat /\ Len(s) \in Nat /\ DonutCapacity \in Nat
  BY LenProperties, DonutCapacityAssumption
<1>2. /\ p \in Seq(Items) /\ Len(p) = Lesser(DonutCapacity, Len(l) - o)
      /\ \A i \in 1 .. Len(p) : p[i] = l[o + i]
  BY <1>1, PortionIs
<1> HIDE DEF p
<1>3. Len(s) \in 0 .. Len(p) /\ Len(p) \in Nat
  BY <1>1, <1>2 DEF Lesser
<1>4. t \in Seq(Items) /\ Len(t) = Len(s) /\ \A i \in 1 .. Len(s) : t[i] = p[i]
  BY <1>2, <1>3, SubSeqFrom1, SubSeqOfItems DEF IsSeq
<1> HIDE DEF t
<1>5. \A i \in 1 .. Len(s) : s[i] = p[i]
  BY <1>2, <1>3
<1>6. s = t
  BY <1>4, <1>5, SeqEqual
<1>7. ASSUME o + Len(s) = Len(l) \/ Len(s) = DonutCapacity PROVE s = p
  <2>1. Len(s) = Len(p)
    BY <1>1, <1>2, <1>7 DEF Lesser
  <2> QED
    BY <1>2, <1>5, <2>1, SeqEqual
<1> QED
  BY <1>3, <1>6, <1>7 DEF p, t

\* What is cut off the end of the log.
LEMMA PortionCut ==
  ASSUME NEW l \in Seq(Items), NEW o \in Nat, NEW m \in 0 .. Len(l), o <= m
  PROVE  /\ m <= o + DonutCapacity
               => Portion(SubSeq(l, 1, m), o) = SubSeq(Portion(l, o), 1, m - o)
         /\ m <= o + DonutCapacity => m - o \in 0 .. Len(Portion(l, o))
         /\ o + DonutCapacity <= m => Portion(SubSeq(l, 1, m), o) = Portion(l, o)
<1> DEFINE k == SubSeq(l, 1, m)
           p == Portion(l, o)
           q == Portion(k, o)
<1>1. Len(l) \in Nat /\ m \in Nat /\ DonutCapacity \in Nat /\ o <= Len(l)
  BY LenProperties, DonutCapacityAssumption
<1>2. k \in Seq(Items) /\ Len(k) = m /\ \A i \in 1 .. m : k[i] = l[i]
  BY <1>1, SubSeqFrom1, SubSeqOfItems DEF IsSeq
<1> HIDE DEF k
<1>3. /\ p \in Seq(Items) /\ Len(p) = Lesser(DonutCapacity, Len(l) - o)
      /\ \A i \in 1 .. Len(p) : p[i] = l[o + i]
  BY <1>1, PortionIs
<1>4. /\ q \in Seq(Items) /\ Len(q) = Lesser(DonutCapacity, m - o)
      /\ \A i \in 1 .. Len(q) : q[i] = k[o + i]
  BY <1>2, PortionIs
<1> HIDE DEF p, q
<1>5. Len(q) \in 0 .. Len(p) /\ Len(p) \in Nat /\ o + Len(q) <= m
  BY <1>1, <1>3, <1>4 DEF Lesser
<1>6. \A i \in 1 .. Len(q) : q[i] = p[i]
  <2> SUFFICES ASSUME NEW i \in 1 .. Len(q) PROVE q[i] = p[i]
    OBVIOUS
  <2>1. i \in 1 .. Len(p) /\ o + i \in 1 .. m
    BY <1>1, <1>5
  <2> QED
    BY <1>2, <1>3, <1>4, <2>1
<1>7. ASSUME o + DonutCapacity <= m PROVE q = p
  <2>1. Len(q) = Len(p)
    BY <1>1, <1>3, <1>4, <1>7 DEF Lesser
  <2> QED
    BY <1>3, <1>4, <1>6, <2>1, SeqEqual
<1>8. ASSUME m <= o + DonutCapacity PROVE q = SubSeq(p, 1, m - o) /\ m - o \in 0 .. Len(p)
  <2>1. Len(q) = m - o
    BY <1>1, <1>4, <1>8 DEF Lesser
  <2>2. m - o \in 0 .. Len(p)
    BY <1>5, <2>1
  <2> DEFINE n == m - o
             t == SubSeq(p, 1, n)
  <2> HIDE DEF n
  <2>3. t \in Seq(Items) /\ Len(t) = n /\ \A i \in 1 .. n : t[i] = p[i]
    BY <1>3, <1>5, <2>2, SubSeqFrom1, SubSeqOfItems DEF IsSeq, n
  <2> HIDE DEF t
  <2>4. q = t
    BY <1>4, <1>6, <2>1, <2>3, SeqEqual DEF n
  <2> QED
    BY <2>2, <2>4 DEF t, n
<1> QED
  BY <1>7, <1>8 DEF p, q, k

-----------------------------------------------------------------------------
(* The invariant of the data.                                              *)

\* d holds the items l has from d's first index on.
HoldsOf(d, l) ==
    /\ d.forward \in Seq(Items)
    /\ d.first + Len(d.forward) <= Len(l)
    /\ \A i \in 1 .. Len(d.forward) : d.forward[i] = l[d.first + i]

\* What is in the files of the folder at o is what l has from o on ...
Tells(f, l, o) ==
    /\ o <= Len(l)
    /\ IsFile(f.suffixes)
    /\ f.order.cells # << >> => f.order.there /\ f.suffixes.there
    /\ Describes(f.order.cells, f.suffixes.cells, Portion(l, o))

\* ... and no hash of the donut is missing.
TellsAll(f, l, o) ==
    /\ o + DonutCapacity <= Len(l)
    /\ Rank(Portion(l, o), DonutCapacity) <= Len(f.suffixes.cells)

ItemsInv == log \in Seq(Items) /\ batch \in Seq(Items) /\ hatchling.forward \in Seq(Items)

FilesInv ==
    \A o \in DOMAIN disk :
        /\ Tells(disk[o], log, o)
        /\ disk[o].st01 \/ (at = "promote" /\ o = Here) => TellsAll(disk[o], log, o)

\* What the streams of the hatchling hold back.
PendingInv ==
    /\ open_files = Files =>
          /\ disk[Here].order = EmptyFile /\ disk[Here].suffixes = EmptyFile
          /\ Describes(pending["order"], pending["suffixes"], hatchling.forward)
          /\ Len(pending["suffixes"]) = Rank(hatchling.forward, Len(hatchling.forward))
          /\ starting => hatchling.forward = << >>
    /\ open_files # Files => pending["suffixes"] = << >>

HatchlingInv ==
    /\ hatchling.reverse = ReverseFrom(hatchling.forward)
    /\ at # "down" => HoldsOf(hatchling, log) /\ Len(hatchling.forward) <= DonutCapacity
    /\ at # "down" /\ ~starting => Here + Len(hatchling.forward) = Len(log)
    /\ at = "hatch" /\ ~starting => Here \notin DOMAIN disk \/ ~disk[Here].st00
    /\ at \in {"promote", "feed", "spawn"} => Len(hatchling.forward) = DonutCapacity
    /\ at \in {"room", "check", "idle", "append"} /\ open_files # Files =>
          hatchling = Hydrated(Here, disk[Here]) /\ HydrationError(disk[Here]) = "none"

Kept(d, l, i) ==
    /\ d.first = (i - 1) * DonutCapacity
    /\ Len(d.forward) = DonutCapacity
    /\ HoldsOf(d, l)
    /\ d.reverse = ReverseFrom(d.forward)

KeptInv == \A i \in DOMAIN room : Kept(room[i], log, i)

DataInv ==
    /\ ItemsInv
    /\ FilesInv
    /\ PendingInv
    /\ HatchlingInv
    /\ KeptInv

LEMMA NewDonutIs ==
  ASSUME NEW o
  PROVE  /\ NewDonut(o).first = o /\ NewDonut(o).forward = << >>
         /\ << >> \in Seq(Items) /\ Len(<< >>) = 0
         /\ NewDonut(o).reverse = ReverseFrom(<< >>)
<1>1. HashesIn(<< >>) = {}
  BY DEF HashesIn
<1> QED
  BY <1>1 DEF NewDonut, ReverseFrom

LEMMA DataInit == Init => DataInv
<1> SUFFICES ASSUME Init PROVE DataInv
  OBVIOUS
<1>1. hatchling = NewDonut(0) /\ hatchling.forward = << >>
  BY NewDonutIs DEF Init
<1>2. ItemsInv
  BY <1>1, NewDonutIs DEF Init, ItemsInv
<1>3. FilesInv
  BY DEF Init, FilesInv
<1>4. PendingInv
  BY DEF Init, PendingInv, NoPending, Files
<1>5. HatchlingInv
  BY <1>1, NewDonutIs DEF Init, HatchlingInv
<1>6. KeptInv
  BY DEF Init, KeptInv
<1> QED
  BY <1>2, <1>3, <1>4, <1>5, <1>6 DEF DataInv

LEMMA CapacityIs == DonutCapacity \in Nat /\ DonutCapacity > 0
BY DonutCapacityAssumption

LEMMA OffsetsInUse ==
  ASSUME FoldersInv
  PROVE  /\ \A o \in DOMAIN disk : o \in Nat
         /\ at # "down" => Here \in Nat
         /\ at # "down" => \A o \in DOMAIN disk \ {Here} : o + DonutCapacity <= Here
<1>1. PICK k \in 0 .. Fanout : CountInv(k)
  BY DEF FoldersInv
<1>2. /\ k \in Nat /\ k + 1 \in Nat
      /\ Offsets(k + 1) = Offsets(k) \cup {k * DonutCapacity}
      /\ k * DonutCapacity \in Nat
      /\ \A o \in Offsets(k) : o \in Nat
  BY <1>1, FanoutIsNat, OffsetsAdd
<1>3. ASSUME NEW o \in Offsets(k) PROVE o + DonutCapacity <= k * DonutCapacity
  <2>1. PICK i \in 0 .. k - 1 : o = i * DonutCapacity
    BY DEF Offsets
  <2>2. i \in Nat /\ i + 1 <= k
    BY <1>2
  <2>3. (i + 1) * DonutCapacity <= k * DonutCapacity
    BY <1>2, <2>2, CapacityIs, Z3
  <2> QED
    BY <2>1, <2>2, <2>3, NextMultiple
<1> QED
  BY <1>1, <1>2, <1>3 DEF CountInv

LEMMA HighestIsThere ==
  ASSUME FoldersInv, DOMAIN disk # {}
  PROVE  HighestOffset \in DOMAIN disk /\ \A p \in DOMAIN disk : p <= HighestOffset
<1>1. PICK k \in 0 .. Fanout : CountInv(k)
  BY DEF FoldersInv
<1>2. k \in Nat
  BY FanoutIsNat
<1>3. PICK j \in Nat : DOMAIN disk = Offsets(j + 1)
  <2>1. CASE DOMAIN disk = Offsets(k) /\ k > 0
    <3>1. k - 1 \in Nat /\ (k - 1) + 1 = k
      BY <1>2, <2>1
    <3> QED
      BY <2>1, <3>1
  <2>2. CASE DOMAIN disk = Offsets(k + 1)
    BY <1>2, <2>2
  <2> QED
    BY <1>1, <1>2, <2>1, <2>2, OffsetsNone DEF CountInv
<1>4. HighestOffset = j * DonutCapacity
  BY <1>3, HighestIsLast
<1>5. /\ Offsets(j + 1) = Offsets(j) \cup {j * DonutCapacity}
      /\ j * DonutCapacity \in Nat
      /\ \A o \in Offsets(j) : o \in Nat /\ o < j * DonutCapacity
  BY OffsetsAdd
<1> DEFINE last == j * DonutCapacity
<1>6. HighestOffset = last /\ DOMAIN disk = Offsets(j) \cup {last} /\ last \in Nat
      /\ \A o \in Offsets(j) : o \in Nat /\ o < last
  BY <1>3, <1>4, <1>5
<1> HIDE DEF last
<1> QED
  BY <1>6

-----------------------------------------------------------------------------
(* What is left on the disk.                                               *)

LEMMA EmptyConcat ==
  ASSUME NEW s, IsSeq(s)
  PROVE  << >> \o s = s /\ s \o << >> = s
BY ConcatEmptySeq DEF IsSeq

LEMMA WrittenFiles ==
  ASSUME DiskInv, FilesInv, Here \in DOMAIN disk,
         NEW order, NEW suffixes, NEW torn, NEW new, new = Written(order, suffixes, torn)
  PROVE  /\ new[Here].order.cells = disk[Here].order.cells \o order
         /\ new[Here].suffixes.cells = disk[Here].suffixes.cells \o suffixes
         /\ disk[Here].order.there => new[Here].order.there
         /\ disk[Here].suffixes.there => new[Here].suffixes.there
         /\ IsSeq(new[Here].suffixes.cells) => IsFile(new[Here].suffixes)
<1> DEFINE f == disk[Here]
           g == Extended(f.order, order, torn)
           h == Extended(f.suffixes, suffixes, FALSE)
<1>1. /\ f = [st00 |-> f.st00, st01 |-> f.st01, order |-> f.order, suffixes |-> f.suffixes]
      /\ f.suffixes.torn \in BOOLEAN
  BY DEF DiskInv, IsFolder, FilesInv, Tells, IsFile
<1>2. new[Here] = [f EXCEPT !.order = g, !.suffixes = h]
  BY DEF Written
<1>3. /\ g.cells = f.order.cells \o order /\ g.there = f.order.there
      /\ h.cells = f.suffixes.cells \o suffixes /\ h.there = f.suffixes.there
      /\ h.torn = (f.suffixes.torn \/ FALSE)
      /\ h = [there |-> h.there, cells |-> h.cells, torn |-> h.torn]
  BY DEF Extended
<1> HIDE DEF g, h
<1>4. new[Here].order = g /\ new[Here].suffixes = h
  BY <1>1, <1>2
<1>5. h.torn \in BOOLEAN
  BY <1>1, <1>3
<1> QED
  BY <1>3, <1>4, <1>5 DEF IsFile

\* The files and the streams of the hatchling say together what it holds.
LEMMA PendingDescribes ==
  ASSUME FoldersInv, DataInv, open_files = Files
  PROVE  Describes(pending["order"], pending["suffixes"], Portion(log, Here))
<1>0. /\ ShapeInv /\ StreamInv /\ ItemsInv /\ PendingInv /\ HatchlingInv /\ at # "down"
  BY DEF FoldersInv, DataInv, StreamInv
<1>1. /\ Here \in Nat /\ HoldsOf(hatchling, log) /\ log \in Seq(Items)
      /\ Len(hatchling.forward) <= DonutCapacity
  BY <1>0, OffsetsInUse DEF HatchlingInv, ItemsInv
<1>2. CASE ~starting
  <2>1. /\ hatchling.forward \in Seq(Items)
        /\ Here + Len(hatchling.forward) = Len(log)
        /\ Here + Len(hatchling.forward) <= Len(log)
        /\ \A i \in 1 .. Len(hatchling.forward) : hatchling.forward[i] = log[Here + i]
    BY <1>0, <1>1, <1>2 DEF HatchlingInv, HoldsOf, Here
  <2>2. hatchling.forward = Portion(log, Here)
    BY <1>1, <2>1, HeldPortion
  <2> QED
    BY <1>0, <2>2 DEF PendingInv
<1>3. CASE starting
  <2>1. /\ Here <= Len(log) /\ hatchling.forward = << >> /\ Len(hatchling.forward) = 0
    BY <1>0, <1>1, <1>3, NewDonutIs DEF HoldsOf, PendingInv, Here
  <2>2. Portion(log, Here) \in Seq(Items)
    BY <1>1, <2>1, PortionIs
  <2>3. IsSeq(pending["order"]) /\ IsSeq(pending["suffixes"]) /\ Len(pending["suffixes"]) = 0
    <3>1. Rank(hatchling.forward, 0) \in 0 .. 0
      BY RankIsCount
    <3> QED
      BY <1>0, <2>1, <3>1 DEF PendingInv, Describes
  <2>4. Len(pending["order"]) <= 1
    <3>1. Len(disk[Here].order.cells) = 0
      BY <1>0, EmptyFileIsFile, EmptyIsSeq DEF PendingInv
    <3>2. /\ Len(disk[Here].order.cells) \in Nat /\ Len(pending["order"]) \in Nat
          /\ Len(hatchling.forward) \in Nat
      BY <2>1, <2>3, <3>1, LenIsNat
    <3>3. Len(disk[Here].order.cells) + Len(pending["order"]) = 1 + Len(hatchling.forward)
      BY <1>0 DEF StreamInv
    <3>4. \A a, b, c \in Nat : a = 0 /\ c = 0 /\ a + b = 1 + c => b <= 1
      OBVIOUS
    <3> QED
      BY <2>1, <3>1, <3>2, <3>3, <3>4
  <2> QED
    BY <2>2, <2>3, <2>4, BareDescribes
<1> QED
  BY <1>2, <1>3

LEMMA FlushedIsWritten ==
  ASSUME FoldersInv, DataInv
  PROVE  /\ IsSeq(pending["order"]) /\ IsSeq(pending["suffixes"])
         /\ \E i \in 0 .. Len(pending["order"]), k \in 0 .. Len(pending["suffixes"]),
               torn \in BOOLEAN :
               Flushed = Written(SubSeq(pending["order"], 1, i),
                                 SubSeq(pending["suffixes"], 1, k), torn)
<1> DEFINE a == pending["order"]
           b == pending["suffixes"]
<1>1. IsSeq(a) /\ IsSeq(b)
  BY EmptyIsSeq DEF FoldersInv, ShapeInv, DataInv, PendingInv, Describes
<1>2. Flushed = Written(a, b, FALSE)
  BY DEF Flushed
<1> HIDE DEF a, b
<1>3. /\ Len(a) \in 0 .. Len(a) /\ Len(b) \in 0 .. Len(b)
      /\ SubSeq(a, 1, Len(a)) = a /\ SubSeq(b, 1, Len(b)) = b
  BY <1>1, LenIsNat, SubSeqFull DEF IsSeq
<1>4. PICK torn \in BOOLEAN : torn = FALSE
  OBVIOUS
<1>5. Flushed = Written(SubSeq(a, 1, Len(a)), SubSeq(b, 1, Len(b)), torn)
  BY <1>2, <1>3, <1>4, Zenon
<1> QED
  BY <1>1, <1>3, <1>5 DEF a, b

\* Whatever the streams leave when the process ends.
LEMMA SurvivorsTell ==
  ASSUME FoldersInv, DataInv, at # "down", NEW new, Survives(new) \/ new = Flushed
  PROVE  /\ DOMAIN new = DOMAIN disk
         /\ \A o \in DOMAIN disk :
               /\ Tells(new[o], log, o)
               /\ disk[o].st01 => TellsAll(new[o], log, o)
<1> DEFINE a == pending["order"]
           b == pending["suffixes"]
<1>0. DiskInv /\ StreamInv /\ FilesInv /\ PendingInv /\ ItemsInv
  BY DEF FoldersInv, DataInv
<1>1. IsSeq(a) /\ IsSeq(b)
  BY FlushedIsWritten
<1>2. PICK i \in 0 .. Len(a), k \in 0 .. Len(b), torn \in BOOLEAN :
        new = Written(SubSeq(a, 1, i), SubSeq(b, 1, k), torn)
  BY FlushedIsWritten DEF Survives
<1> DEFINE order    == SubSeq(a, 1, i)
           suffixes == SubSeq(b, 1, k)
<1>3. /\ IsSeq(order) /\ Len(order) = i /\ IsSeq(suffixes) /\ Len(suffixes) = k
  BY <1>1, SubSeqFrom1
<1>4. DOMAIN new = DOMAIN disk /\ \A o \in DOMAIN disk \ {Here} : new[o] = disk[o]
  BY <1>2 DEF Written
<1>5. ASSUME Here \in DOMAIN disk
      PROVE  /\ Tells(new[Here], log, Here)
             /\ disk[Here].st01 => TellsAll(new[Here], log, Here)
  <2> DEFINE f == disk[Here]
  <2>1. /\ new[Here].order.cells = f.order.cells \o order
        /\ f.order.there => new[Here].order.there
        /\ new[Here].suffixes.cells = f.suffixes.cells \o suffixes
        /\ f.suffixes.there => new[Here].suffixes.there
        /\ IsSeq(new[Here].suffixes.cells) => IsFile(new[Here].suffixes)
    <3>1. new = Written(order, suffixes, torn)
      BY <1>2
    <3> HIDE DEF order, suffixes, f
    <3>2. /\ new[Here].order.cells = disk[Here].order.cells \o order
          /\ disk[Here].order.there => new[Here].order.there
          /\ new[Here].suffixes.cells = disk[Here].suffixes.cells \o suffixes
          /\ disk[Here].suffixes.there => new[Here].suffixes.there
          /\ IsSeq(new[Here].suffixes.cells) => IsFile(new[Here].suffixes)
      <4> HIDE DEF a, b
      <4>1. DiskInv /\ FilesInv /\ Here \in DOMAIN disk
        BY <1>0, <1>5, Zenon
      <4>2. new[Here].order.cells = disk[Here].order.cells \o order
        BY ONLY <4>1, <3>1, WrittenFiles
      <4>3. disk[Here].order.there => new[Here].order.there
        BY ONLY <4>1, <3>1, WrittenFiles
      <4>4. new[Here].suffixes.cells = disk[Here].suffixes.cells \o suffixes
        BY ONLY <4>1, <3>1, WrittenFiles
      <4>5. disk[Here].suffixes.there => new[Here].suffixes.there
        BY ONLY <4>1, <3>1, WrittenFiles
      <4>6. IsSeq(new[Here].suffixes.cells) => IsFile(new[Here].suffixes)
        BY ONLY <4>1, <3>1, WrittenFiles
      <4> QED
        BY ONLY <4>2, <4>3, <4>4, <4>5, <4>6
    <3> QED
      BY <3>2 DEF f
  <2>2. Tells(f, log, Here)
    BY <1>0, <1>5 DEF FilesInv
  <2>3. CASE open_files = Files
    <3>1. /\ f.order = EmptyFile /\ f.suffixes = EmptyFile /\ ~f.st01
          /\ Describes(a, b, Portion(log, Here))
      BY <1>0, <2>3, PendingDescribes DEF PendingInv, StreamInv
    <3>2. Portion(log, Here) \in Seq(Items)
      BY <1>0, <1>5, <2>2, OffsetsInUse, PortionIs DEF Tells, ItemsInv
    <3>3. Describes(order, suffixes, Portion(log, Here))
      BY <3>1, <3>2, BeginningDescribes
    <3> HIDE DEF order, suffixes
    <3>4. new[Here].order.cells = order /\ new[Here].suffixes.cells = suffixes
      BY <1>3, <2>1, <3>1, EmptyConcat DEF EmptyFile
    <3>5. new[Here].order.there /\ new[Here].suffixes.there
      BY <2>1, <3>1 DEF EmptyFile
    <3> QED
      BY <1>3, <2>1, <2>2, <3>1, <3>3, <3>4, <3>5 DEF Tells
  <2>4. CASE open_files # Files
    <3>1. a = << >> /\ b = << >>
      BY <1>0, <2>4 DEF StreamInv, PendingInv
    <3>2. Len(order) = 0 /\ Len(suffixes) = 0
      BY <1>3, <3>1, EmptyIsSeq
    <3>3. order = << >> /\ suffixes = << >>
      BY <1>3, <3>2, EmptySeq DEF IsSeq
    <3>4. IsSeq(f.order.cells) /\ IsSeq(f.suffixes.cells)
      BY <2>2 DEF Tells, Describes
    <3> HIDE DEF order, suffixes
    <3>5. /\ new[Here].order.cells = f.order.cells
          /\ new[Here].suffixes.cells = f.suffixes.cells
      BY <2>1, <3>3, <3>4, EmptyConcat
    <3>6. Tells(new[Here], log, Here)
      BY <2>1, <2>2, <3>4, <3>5 DEF Tells
    <3>7. f.st01 => TellsAll(new[Here], log, Here)
      BY <1>0, <1>5, <3>5 DEF FilesInv, TellsAll
    <3> QED
      BY <3>6, <3>7
  <2> QED
    BY <2>3, <2>4
<1> QED
  BY <1>0, <1>4, <1>5 DEF FilesInv

-----------------------------------------------------------------------------
(* The end of the process, and a start.                                    *)

LEMMA EndKeepsData ==
  ASSUME FoldersInv, DataInv, at # "down", MemoryLost, Survives(disk') \/ disk' = Flushed,
         log' = log
  PROVE  DataInv'
<1>0. ItemsInv
  BY DEF DataInv
<1>1. /\ hatchling' = NewDonut(0) /\ room' = << >> /\ batch' = << >> /\ open_files' = {}
      /\ pending' = NoPending /\ at' = "down"
  BY DEF MemoryLost
<1>2. /\ hatchling'.forward = << >> /\ << >> \in Seq(Items)
      /\ hatchling'.reverse = ReverseFrom(<< >>)
  BY <1>1, NewDonutIs
<1>3. ItemsInv'
  BY <1>0, <1>1, <1>2 DEF ItemsInv
<1>4. FilesInv'
  <2> SUFFICES ASSUME NEW o \in DOMAIN disk'
               PROVE  Tells(disk'[o], log, o) /\ (disk'[o].st01 => TellsAll(disk'[o], log, o))
    BY <1>1 DEF FilesInv
  <2>1. /\ DOMAIN disk' = DOMAIN disk
        /\ Tells(disk'[o], log, o) /\ (disk[o].st01 => TellsAll(disk'[o], log, o))
    BY SurvivorsTell
  <2>2. disk'[o].st01 = disk[o].st01
    BY <2>1, SurvivalKeepsFolders, FlushKeepsFolders
  <2> QED
    BY <2>1, <2>2
<1>5. PendingInv'
  BY <1>1 DEF PendingInv, NoPending, Files
<1>6. HatchlingInv'
  BY <1>1, <1>2 DEF HatchlingInv
<1>7. KeptInv'
  BY <1>1 DEF KeptInv
<1> QED
  BY <1>3, <1>4, <1>5, <1>6, <1>7 DEF DataInv

LEMMA FailKeepsData ==
  ASSUME FoldersInv, DataInv, at # "down", NEW reason, Fail(reason)
  PROVE  DataInv'
<1>1. MemoryLost /\ Survives(disk') /\ log' = log
  BY DEF Fail
<1> QED
  BY <1>1, EndKeepsData

LEMMA ShutdownKeepsData ==
  ASSUME FoldersInv, DataInv, Shutdown
  PROVE  DataInv'
<1>1. MemoryLost /\ disk' = Flushed /\ log' = log /\ at # "down"
  BY DEF Shutdown
<1> QED
  BY <1>1, EndKeepsData

LEMMA StartKeepsData ==
  ASSUME FoldersInv, DataInv, Start
  PROVE  DataInv'
<1>0. /\ StreamInv /\ ItemsInv /\ FilesInv /\ PendingInv /\ KeptInv
      /\ at = "down" /\ at' = "hatch" /\ starting' = TRUE
      /\ UNCHANGED << disk, room, batch, open_files, pending, log >>
  BY DEF FoldersInv, DataInv, Start
<1>1. open_files # Files
  BY <1>0 DEF StreamInv
<1>2. /\ hatchling'.forward = << >> /\ << >> \in Seq(Items) /\ Len(<< >>) = 0
      /\ hatchling'.reverse = ReverseFrom(<< >>)
      /\ hatchling'.first = (IF DOMAIN disk = {} THEN 0 ELSE HighestOffset)
  BY NewDonutIs DEF Start
<1>3. hatchling'.first \in Nat /\ hatchling'.first <= Len(log)
  <2>1. Len(log) \in Nat
    BY <1>0, LenProperties DEF ItemsInv
  <2> QED
    BY <1>0, <1>2, <2>1, HighestIsThere, OffsetsInUse DEF FilesInv, Tells
<1>4. ItemsInv'
  BY <1>0, <1>2 DEF ItemsInv
<1>5. FilesInv'
  BY <1>0 DEF FilesInv
<1>6. PendingInv'
  BY <1>0, <1>1 DEF PendingInv
<1>7. HatchlingInv'
  <2>1. HoldsOf(hatchling', log)
    BY <1>2, <1>3 DEF HoldsOf
  <2> QED
    BY <1>0, <1>2, <2>1, CapacityIs DEF HatchlingInv
<1>8. KeptInv'
  BY <1>0 DEF KeptInv
<1> QED
  BY <1>4, <1>5, <1>6, <1>7, <1>8 DEF DataInv

-----------------------------------------------------------------------------
(* Opening a donut.                                                        *)

\* What hydration makes of the files holds what the log has.
LEMMA HydratedHolds ==
  ASSUME log \in Seq(Items), NEW o \in Nat, NEW f, Tells(f, log, o),
         HydrationError(f) = "none", NEW d, d = Hydrated(o, f)
  PROVE  /\ d.first = o
         /\ HoldsOf(d, log)
         /\ Len(d.forward) = Len(Entries(f.order))
         /\ Len(d.forward) <= DonutCapacity
         /\ d.reverse = ReverseFrom(d.forward)
         /\ InStep(f.order.cells, Portion(log, o))
<1> DEFINE p == Portion(log, o)
           n == Len(Entries(f.order))
<1>1. /\ Describes(f.order.cells, f.suffixes.cells, p) /\ o <= Len(log)
      /\ f.order.cells # << >> => f.order.there /\ f.suffixes.there
  BY DEF Tells
<1>2. /\ p \in Seq(Items) /\ Len(p) = Lesser(DonutCapacity, Len(log) - o)
      /\ \A i \in 1 .. Len(p) : p[i] = log[o + i]
      /\ Len(log) \in Nat
  BY <1>1, PortionIs, LenProperties
<1>3. /\ n \in 0 .. Len(p)
      /\ n = IF Len(f.order.cells) = 0 THEN 0 ELSE Len(f.order.cells) - 1
  BY <1>1, <1>2, EntriesFit, EntriesAre DEF Describes
<1> HIDE DEF p
<1>4. CASE NotBegun(f)
  <2>1. f.order.cells = << >>
    BY <1>1, <1>4 DEF NotBegun
  <2>2. n = 0 /\ d = NewDonut(o) /\ InStep(f.order.cells, p)
    BY <1>3, <1>4, <2>1, EmptyIsSeq DEF Hydrated, InStep
  <2> HIDE DEF n
  <2>3. d.forward = << >> /\ d.first = o /\ d.reverse = ReverseFrom(<< >>)
    BY <2>2, NewDonutIs
  <2>4. HoldsOf(d, log)
    <3>1. PICK s \in Seq(Items) : s = << >> /\ Len(s) = 0
      BY NewDonutIs
    <3>2. d.forward = s /\ o + 0 <= Len(log) /\ \A i \in 1 .. 0 : FALSE
      BY <1>1, <1>2, <2>3, <3>1
    <3> QED
      BY <2>3, <3>1, <3>2 DEF HoldsOf
  <2> QED
    BY <2>2, <2>3, <2>4, NewDonutIs, CapacityIs DEF p, n
<1>5. CASE ~NotBegun(f)
  <2>1. /\ Rank(p, n) <= Len(f.suffixes.cells)
        /\ InStep(f.order.cells, p)
    BY <1>1, <1>2, <1>5, HydratingIsInStep
  <2>2. ForwardFrom(f.order, f.suffixes) = SubSeq(p, 1, n)
    BY <1>1, <1>2, <2>1, ReadBack
  <2> HIDE DEF n
  <2>3. d.first = o /\ d.forward = SubSeq(p, 1, n) /\ d.reverse = ReverseFrom(d.forward)
    BY <1>5, <2>2 DEF Hydrated
  <2>4. /\ d.forward \in Seq(Items) /\ Len(d.forward) = n
        /\ \A i \in 1 .. n : d.forward[i] = p[i]
    BY <1>2, <1>3, <2>3, SubSeqFrom1, SubSeqOfItems DEF IsSeq
  <2>5. n <= DonutCapacity /\ o + n <= Len(log) /\ \A i \in 1 .. n : i \in 1 .. Len(p)
    <3>1. /\ Len(p) \in Nat /\ Len(log) \in Nat /\ o \in Nat /\ DonutCapacity \in Nat /\ o <= Len(log)
          /\ Len(p) <= DonutCapacity /\ Len(p) <= Len(log) - o
      BY <1>1, <1>2, LenProperties, CapacityIs DEF Lesser
    <3>2. \A c, k, l, h, e \in Nat : k \in 0 .. e /\ e <= c /\ e <= l - h /\ h <= l =>
            k <= c /\ h + k <= l /\ \A i \in 1 .. k : i \in 1 .. e
      OBVIOUS
    <3>3. n \in Nat /\ n \in 0 .. Len(p)
      BY <1>3, <3>1
    <3> QED
      BY <3>1, <3>2, <3>3
  <2>6. HoldsOf(d, log)
    <3>1. d.first = o /\ Len(d.forward) = n /\ o + n <= Len(log) /\ d.forward \in Seq(Items)
      BY <2>3, <2>4, <2>5
    <3>2. \A i \in 1 .. n : d.forward[i] = log[o + i]
      BY <1>2, <2>4, <2>5
    <3> QED
      BY ONLY <3>1, <3>2 DEF HoldsOf
  <2> QED
    BY <2>1, <2>3, <2>4, <2>5, <2>6 DEF n, p
<1> QED
  BY <1>4, <1>5

LEMMA HydrateHatchlingKeepsData ==
  ASSUME FoldersInv, DataInv, HydrateHatchling
  PROVE  DataInv'
<1>0. /\ StreamInv /\ ItemsInv /\ FilesInv /\ PendingInv /\ HatchlingInv /\ KeptInv
      /\ at = "hatch" /\ Here \in DOMAIN disk /\ disk[Here].st00
  BY DEF FoldersInv, DataInv, HydrateHatchling
<1>1. CASE Fail(HydrationError(disk[Here]))
  BY <1>0, <1>1, FailKeepsData
<1>2. CASE /\ HydrationError(disk[Here]) = "none"
           /\ hatchling' = Hydrated(Here, disk[Here])
           /\ at' = Opened
           /\ UNCHANGED << disk, room, batch, open_files, pending, starting, history >>
  <2>1. open_files # Files /\ starting
    BY <1>0 DEF StreamInv, HatchlingInv
  <2>2. at' = "room" /\ log' = log /\ starting'
    BY <1>2, <2>1 DEF Opened, history
  <2>3. /\ hatchling'.first = Here /\ HoldsOf(hatchling', log)
        /\ Len(hatchling'.forward) <= DonutCapacity
        /\ hatchling'.reverse = ReverseFrom(hatchling'.forward)
    <3>1. log \in Seq(Items) /\ Here \in Nat /\ Tells(disk[Here], log, Here)
      BY <1>0, OffsetsInUse DEF ItemsInv, FilesInv
    <3> QED
      BY <1>2, <3>1, HydratedHolds
  <2>4. ItemsInv'
    BY <1>0, <1>2, <2>2, <2>3 DEF ItemsInv, HoldsOf
  <2>5. FilesInv'
    BY <1>0, <1>2, <2>2 DEF FilesInv
  <2>6. PendingInv'
    BY <1>0, <1>2, <2>1 DEF PendingInv
  <2>7. HatchlingInv'
    BY <1>2, <2>2, <2>3 DEF HatchlingInv, Here
  <2>8. KeptInv'
    BY <1>0, <1>2, <2>2 DEF KeptInv
  <2> QED
    BY <2>4, <2>5, <2>6, <2>7, <2>8 DEF DataInv
<1> QED
  BY <1>1, <1>2 DEF HydrateHatchling

LEMMA MakeFolderKeepsData ==
  ASSUME FoldersInv, DataInv, MakeFolder
  PROVE  DataInv'
<1>0. /\ DiskInv /\ StreamInv /\ ItemsInv /\ FilesInv /\ PendingInv /\ HatchlingInv /\ KeptInv
      /\ at = "hatch" /\ log' = log
      /\ UNCHANGED << hatchling, room, batch, open_files, pending, starting >> /\ Here' = Here
  BY DEF FoldersInv, DataInv, MakeFolder, memory, history, Here
<1>1. /\ open_files # Files /\ hatchling.forward = << >>
  BY <1>0 DEF StreamInv
<1>2. \/ at' = "hatch" /\ Here \notin DOMAIN disk
      \/ at' = "create_order" /\ Here \in DOMAIN disk
  BY DEF MakeFolder
<1>3. ItemsInv'
  BY <1>0 DEF ItemsInv
<1>4. FilesInv' /\ (at' = "hatch" => ~disk'[Here].st00)
  <2>1. CASE Here \notin DOMAIN disk
    <3>1. disk' = [o \in DOMAIN disk \cup {Here} |-> IF o = Here THEN NewFolder ELSE disk[o]]
      BY <2>1 DEF MakeFolder
    <3>2. /\ Here \in Nat /\ Here <= Len(log) /\ Portion(log, Here) \in Seq(Items)
      BY <1>0, <1>1, OffsetsInUse, PortionIs, NewDonutIs
      DEF HatchlingInv, HoldsOf, ItemsInv, Here
    <3>3. /\ NewFolder.order.cells = << >> /\ NewFolder.suffixes.cells = << >>
          /\ IsFile(NewFolder.suffixes)
      BY EmptyIsSeq DEF NewFolder, NoFile, IsFile
    <3>4. Tells(NewFolder, log, Here)
      BY <3>2, <3>3, EmptyIsSeq, BareDescribes DEF Tells
    <3> QED
      BY <1>0, <1>2, <2>1, <3>1, <3>4, NewFolderIsFolder DEF FilesInv
  <2>2. CASE Here \in DOMAIN disk
    <3>1. disk' = [disk EXCEPT ![Here].st00 = TRUE]
      BY <2>2 DEF MakeFolder
    <3> DEFINE f == disk[Here]
    <3>2. f = [st00 |-> f.st00, st01 |-> f.st01, order |-> f.order, suffixes |-> f.suffixes]
      BY <1>0, <2>2 DEF DiskInv, IsFolder
    <3>3. /\ DOMAIN disk' = DOMAIN disk
          /\ disk'[Here] = [f EXCEPT !.st00 = TRUE]
          /\ \A o \in DOMAIN disk \ {Here} : disk'[o] = disk[o]
      BY <2>2, <3>1
    <3>4. disk'[Here].order = f.order /\ disk'[Here].suffixes = f.suffixes /\ disk'[Here].st01 = f.st01
      BY <3>2, <3>3
    <3>5. Tells(disk'[Here], log, Here) /\ (f.st01 => TellsAll(disk'[Here], log, Here))
      BY <1>0, <2>2, <3>4 DEF FilesInv, Tells, TellsAll
    <3> QED
      BY <1>0, <1>2, <2>2, <3>3, <3>4, <3>5 DEF FilesInv
  <2> QED
    BY <2>1, <2>2
<1>5. PendingInv'
  BY <1>0, <1>1 DEF PendingInv
<1>6. HatchlingInv'
  BY <1>0, <1>2, <1>4 DEF HatchlingInv
<1>7. KeptInv'
  BY <1>0 DEF KeptInv
<1> QED
  BY <1>3, <1>4, <1>5, <1>6, <1>7 DEF DataInv

LEMMA NothingDescribes ==
  ASSUME NEW cells, NEW s \in Seq(Items), IsSeq(cells), Len(cells) <= 1
  PROVE  Describes(cells, << >>, s)
<1>1. PICK t : t = << >>
  OBVIOUS
<1>2. IsSeq(t) /\ Len(t) = 0
  BY <1>1, EmptyIsSeq, NewDonutIs
<1>3. Describes(cells, t, s)
  BY <1>2, BareDescribes
<1> QED
  BY <1>1, <1>3

LEMMA CreateOrderKeepsData ==
  ASSUME FoldersInv, DataInv, CreateOrder
  PROVE  DataInv'
<1>0. /\ DiskInv /\ StreamInv /\ ItemsInv /\ FilesInv /\ PendingInv /\ HatchlingInv /\ KeptInv
      /\ at = "create_order" /\ at' = "create_suffixes" /\ log' = log
      /\ open_files' = {"order"}
      /\ disk' = [disk EXCEPT ![Here].order = EmptyFile]
      /\ UNCHANGED << hatchling, room, batch, pending, starting >> /\ Here' = Here
  BY DEF FoldersInv, DataInv, CreateOrder, history, Here
<1>1. open_files # Files /\ {"order"} # Files
  BY <1>0 DEF StreamInv, Files
<1>2. Here \in DOMAIN disk
  BY <1>0, HereIsThere DEF FoldersInv
<1> DEFINE f == disk[Here]
<1>3. /\ f = [st00 |-> f.st00, st01 |-> f.st01, order |-> f.order, suffixes |-> f.suffixes]
      /\ ~f.st01
  BY <1>0, <1>2 DEF DiskInv, IsFolder, StreamInv
<1>4. /\ DOMAIN disk' = DOMAIN disk
      /\ disk'[Here] = [f EXCEPT !.order = EmptyFile]
      /\ \A o \in DOMAIN disk \ {Here} : disk'[o] = disk[o]
  BY <1>0, <1>2
<1>5. disk'[Here].order = EmptyFile /\ disk'[Here].suffixes = f.suffixes /\ ~disk'[Here].st01
  BY <1>3, <1>4
<1>6. Tells(disk'[Here], log, Here)
  <2>1. Tells(f, log, Here) /\ log \in Seq(Items) /\ Here \in Nat
    BY <1>0, <1>2, OffsetsInUse DEF FilesInv, ItemsInv
  <2>2. Portion(log, Here) \in Seq(Items)
    BY <2>1, PortionIs DEF Tells
  <2> DEFINE c == f.order.cells
             t == f.suffixes.cells
  <2>3. Describes(c, t, Portion(log, Here))
    BY <2>1 DEF Tells
  <2> HIDE DEF c, t
  <2>4. /\ 0 \in 0 .. Len(c) /\ Len(t) \in 0 .. Len(t)
        /\ SubSeq(t, 1, Len(t)) = t /\ SubSeq(c, 1, 0) = << >>
    BY <2>3, LenIsNat, SubSeqFull, SubSeqEmpty DEF Describes, IsSeq
  <2>5. Describes(SubSeq(c, 1, 0), SubSeq(t, 1, Len(t)), Portion(log, Here))
    BY <2>2, <2>3, <2>4, BeginningDescribes
  <2>6. Describes(<< >>, t, Portion(log, Here))
    BY <2>4, <2>5
  <2> QED
    BY <1>5, <2>1, <2>6, EmptyFileIsFile DEF Tells, t
<1>7. ItemsInv'
  BY <1>0 DEF ItemsInv
<1>8. FilesInv'
  BY <1>0, <1>4, <1>5, <1>6 DEF FilesInv
<1>9. PendingInv'
  BY <1>0, <1>1 DEF PendingInv
<1>10. HatchlingInv'
  BY <1>0 DEF HatchlingInv
<1>11. KeptInv'
  BY <1>0 DEF KeptInv
<1> QED
  BY <1>7, <1>8, <1>9, <1>10, <1>11 DEF DataInv

LEMMA CreateSuffixesKeepsData ==
  ASSUME FoldersInv, DataInv, CreateSuffixes
  PROVE  DataInv'
<1>0. /\ DiskInv /\ ShapeInv /\ StreamInv
      /\ ItemsInv /\ FilesInv /\ PendingInv /\ HatchlingInv /\ KeptInv
      /\ at = "create_suffixes" /\ at' = Opened /\ log' = log
      /\ open_files' = Files
      /\ disk' = [disk EXCEPT ![Here].suffixes = EmptyFile]
      /\ pending' = [pending EXCEPT !["order"] = << Header >>]
      /\ UNCHANGED << hatchling, room, batch, starting >> /\ Here' = Here
  BY DEF FoldersInv, DataInv, CreateSuffixes, history, Here
<1>1. /\ open_files # Files /\ pending["suffixes"] = << >> /\ hatchling.forward = << >>
      /\ at' = "room" \/ at' = "append"
  BY <1>0 DEF StreamInv, PendingInv, Opened
<1>2. Here \in DOMAIN disk
  BY <1>0, HereIsThere DEF FoldersInv
<1> DEFINE f == disk[Here]
<1>3. /\ f = [st00 |-> f.st00, st01 |-> f.st01, order |-> f.order, suffixes |-> f.suffixes]
      /\ ~f.st01 /\ f.order = EmptyFile
  BY <1>0, <1>2 DEF DiskInv, IsFolder, StreamInv
<1>4. /\ DOMAIN disk' = DOMAIN disk
      /\ disk'[Here] = [f EXCEPT !.suffixes = EmptyFile]
      /\ \A o \in DOMAIN disk \ {Here} : disk'[o] = disk[o]
  BY <1>0, <1>2
<1>5. disk'[Here].order = EmptyFile /\ disk'[Here].suffixes = EmptyFile /\ ~disk'[Here].st01
  BY <1>3, <1>4
<1>6. Tells(disk'[Here], log, Here)
  <2>1. Tells(f, log, Here) /\ log \in Seq(Items) /\ Here \in Nat
    BY <1>0, <1>2, OffsetsInUse DEF FilesInv, ItemsInv
  <2>2. Portion(log, Here) \in Seq(Items)
    BY <2>1, PortionIs DEF Tells
  <2>3. Describes(<< >>, << >>, Portion(log, Here))
    BY <2>2, BareDescribes, EmptyIsSeq
  <2> QED
    BY <1>5, <2>1, <2>3, EmptyFileIsFile DEF Tells
<1>7. ItemsInv'
  BY <1>0 DEF ItemsInv
<1>8. FilesInv'
  BY <1>0, <1>1, <1>4, <1>5, <1>6 DEF FilesInv
<1>9. PendingInv'
  <2> DEFINE c == << Header >>
  <2>1. c \in Seq({Header}) /\ Len(c) = 1
    OBVIOUS
  <2>2. pending'["order"] = c /\ pending'["suffixes"] = << >>
    <3>1. pending = [g \in Files |-> pending[g]]
      BY <1>0 DEF ShapeInv
    <3> QED
      BY <1>0, <1>1, <3>1 DEF Files
  <2> HIDE DEF c
  <2>3. << >> \in Seq(Items) /\ Len(<< >>) = 0
    BY NewDonutIs
  <2>4. Describes(c, << >>, << >>)
    <3>1. PICK s \in Seq(Items) : s = << >>
      BY <2>3
    <3>2. IsSeq(c) /\ Len(c) <= 1
      BY <2>1 DEF IsSeq
    <3>3. Describes(c, << >>, s)
      BY <3>2, NothingDescribes
    <3> QED
      BY <3>1, <3>3
  <2>5. Rank(<< >>, 0) = 0
    BY RankIsCount
  <2> QED
    BY <1>0, <1>1, <1>5, <2>2, <2>3, <2>4, <2>5 DEF PendingInv
<1>10. HatchlingInv'
  BY <1>0, <1>1 DEF HatchlingInv
<1>11. KeptInv'
  BY <1>0 DEF KeptInv
<1> QED
  BY <1>7, <1>8, <1>9, <1>10, <1>11 DEF DataInv

\* The folders of the buffer room are taken in the order of their offsets.
LEMMA NthOffsetIs ==
  ASSUME NEW k \in Nat, RoomOffsets = Offsets(k), NEW i \in 1 .. k
  PROVE  NthOffset(i) = (i - 1) * DonutCapacity /\ NthOffset(i) \in RoomOffsets
<1>1. ASSUME NEW j \in 0 .. k - 1
      PROVE  {p \in Offsets(k) : p < j * DonutCapacity} = Offsets(j)
  <2>1. \A m \in 0 .. k - 1 : m * DonutCapacity < j * DonutCapacity <=> m < j
    BY CapacityIs, Z3
  <2> QED
    BY <2>1 DEF Offsets
<1>2. ASSUME NEW j \in 0 .. k - 1
      PROVE  Cardinality({p \in Offsets(k) : p < j * DonutCapacity}) = j
  <2>1. j \in Nat
    OBVIOUS
  <2>2. Cardinality(Offsets(j)) = j
    BY <2>1, OffsetsCardinality
  <2> QED
    BY <1>1, <2>2
<1> DEFINE o == (i - 1) * DonutCapacity
<1>3. i - 1 \in 0 .. k - 1
  OBVIOUS
<1>4. o \in Offsets(k) /\ Cardinality({p \in Offsets(k) : p < o}) = i - 1
  BY <1>2, <1>3 DEF Offsets
<1>5. ASSUME NEW q \in Offsets(k), Cardinality({p \in Offsets(k) : p < q}) = i - 1
      PROVE  q = o
  <2>1. PICK j \in 0 .. k - 1 : q = j * DonutCapacity
    BY DEF Offsets
  <2>2. j = i - 1
    BY <1>2, <1>5, <2>1
  <2> QED
    BY <2>1, <2>2
<1> HIDE DEF o
<1>6. NthOffset(i) = o
  BY <1>4, <1>5 DEF NthOffset
<1> QED
  BY <1>4, <1>6 DEF o

LEMMA HydrateRoomKeepsData ==
  ASSUME FoldersInv, DataInv, HydrateRoom
  PROVE  DataInv'
<1>0. /\ DiskInv /\ StreamInv /\ ItemsInv /\ FilesInv /\ PendingInv /\ HatchlingInv /\ KeptInv
      /\ at = "room"
  BY DEF FoldersInv, DataInv, HydrateRoom
<1>1. ASSUME NEW reason, Fail(reason) PROVE DataInv'
  BY <1>0, <1>1, FailKeepsData
<1>2. CASE /\ \A o \in RoomOffsets : HydrationError(disk[o]) = "none" /\ disk[o].st01
           /\ room' = [i \in 1 .. Cardinality(RoomOffsets) |->
                          Hydrated(NthOffset(i), disk[NthOffset(i)])]
           /\ at' = "check"
           /\ UNCHANGED << disk, hatchling, batch, open_files, pending, starting, history >>
  <2>1. PICK k \in 0 .. Fanout : CountInv(k)
    BY DEF FoldersInv
  <2>2. DOMAIN disk = Offsets(k + 1) /\ k \in Nat
    BY <1>0, <2>1, FanoutIsNat DEF CountInv
  <2>3. RoomOffsets = Offsets(k) /\ Cardinality(RoomOffsets) = k
    <3>1. HighestOffset = k * DonutCapacity
      BY <2>2, HighestIsLast
    <3>2. /\ Offsets(k + 1) = Offsets(k) \cup {k * DonutCapacity}
          /\ k * DonutCapacity \notin Offsets(k)
      BY <2>2, OffsetsAdd
    <3>3. RoomOffsets = Offsets(k)
      BY <2>2, <3>1, <3>2 DEF RoomOffsets
    <3> QED
      BY <2>2, <3>3, OffsetsCardinality
  <2>4. log' = log /\ DOMAIN room' = 1 .. k
    BY <1>2, <2>3 DEF history
  <2>5. ASSUME NEW i \in 1 .. k PROVE Kept(room'[i], log, i)
    <3> DEFINE o == NthOffset(i)
    <3>1. o = (i - 1) * DonutCapacity /\ o \in RoomOffsets
      BY <2>2, <2>3, NthOffsetIs
    <3>2. room'[i] = Hydrated(o, disk[o])
      BY <1>2, <2>3
    <3> HIDE DEF o
    <3>3. /\ o \in DOMAIN disk /\ o \in Nat /\ log \in Seq(Items) /\ Tells(disk[o], log, o)
          /\ HydrationError(disk[o]) = "none" /\ disk[o].st01
      BY <1>0, <1>2, <3>1, OffsetsInUse DEF RoomOffsets, FilesInv, ItemsInv
    <3>4. /\ room'[i].first = o /\ HoldsOf(room'[i], log)
          /\ Len(room'[i].forward) = Len(Entries(disk[o].order))
          /\ room'[i].reverse = ReverseFrom(room'[i].forward)
      BY <3>2, <3>3, HydratedHolds
    <3>5. Len(Entries(disk[o].order)) = DonutCapacity
      <4>1. IsSeq(disk[o].order.cells) /\ Len(disk[o].order.cells) = DonutCapacity + 1
        BY <1>0, <3>3 DEF DiskInv, IsFolder, IsFile, Filled
      <4>2. Len(Entries(disk[o].order)) = IF Len(disk[o].order.cells) = 0 THEN 0
                                           ELSE Len(disk[o].order.cells) - 1
        BY <4>1, EntriesAre
      <4> QED
        BY <4>1, <4>2, CapacityIs
    <3> QED
      BY <3>1, <3>4, <3>5 DEF Kept
  <2>6. ItemsInv'
    BY <1>0, <1>2, <2>4 DEF ItemsInv
  <2>7. FilesInv'
    BY <1>0, <1>2, <2>4 DEF FilesInv
  <2>8. PendingInv'
    BY <1>0, <1>2 DEF PendingInv, Here
  <2>9. HatchlingInv'
    BY <1>0, <1>2, <2>4 DEF HatchlingInv, Here
  <2>10. KeptInv'
    BY <2>4, <2>5 DEF KeptInv
  <2> QED
    BY <2>6, <2>7, <2>8, <2>9, <2>10 DEF DataInv
<1> QED
  BY <1>1, <1>2 DEF HydrateRoom

LEMMA ReadyKeepsData ==
  ASSUME FoldersInv, DataInv, Ready
  PROVE  DataInv'
<1>0. /\ DiskInv /\ StreamInv /\ ItemsInv /\ FilesInv /\ PendingInv /\ HatchlingInv /\ KeptInv
      /\ at = "check"
  BY DEF FoldersInv, DataInv, Ready
<1>1. CASE Fail("no_capacity")
  BY <1>0, <1>1, FailKeepsData
<1>2. CASE /\ RemainingCapacity(hatchling) > 0
           /\ at' = "idle" /\ starting' = FALSE
           /\ log' = SubSeq(log, 1, NextOffset(hatchling))
           /\ UNCHANGED << disk, memory >>
  <2> DEFINE n == Len(hatchling.forward)
             m == Here + n
  <2>0. UNCHANGED << disk, hatchling, room, batch, open_files, pending >> /\ Here' = Here
    BY <1>2 DEF memory, Here
  <2>1. /\ log \in Seq(Items) /\ Here \in Nat /\ n \in Nat /\ n < DonutCapacity /\ n <= DonutCapacity
        /\ m \in 0 .. Len(log) /\ m \in Nat /\ Here <= m /\ m <= Here + DonutCapacity /\ m - Here = n
        /\ \A i \in 1 .. n : hatchling.forward[i] = log[Here + i]
    <3>1. /\ log \in Seq(Items) /\ hatchling.forward \in Seq(Items) /\ Here \in Nat
          /\ HoldsOf(hatchling, log) /\ DonutCapacity - n > 0
      BY <1>0, <1>2, OffsetsInUse DEF ItemsInv, HatchlingInv, RemainingCapacity
    <3>2. n \in Nat /\ Len(log) \in Nat /\ m <= Len(log)
      BY <3>1, LenProperties DEF HoldsOf, Here
    <3>3. \A i \in 1 .. n : hatchling.forward[i] = log[Here + i]
      BY <3>1 DEF HoldsOf, Here
    <3>4. \A c, k, h, l \in Nat : c - k > 0 /\ h + k <= l =>
            /\ k < c /\ k <= c /\ h + k \in 0 .. l /\ h + k \in Nat
            /\ h <= h + k /\ h + k <= h + c /\ h + k - h = k
      OBVIOUS
    <3>5. /\ n < DonutCapacity /\ n <= DonutCapacity
          /\ m \in 0 .. Len(log) /\ m \in Nat /\ Here <= m /\ m <= Here + DonutCapacity /\ m - Here = n
      <4> HIDE DEF n
      <4> QED
        BY <3>1, <3>2, <3>4, CapacityIs
    <3> QED
      BY <3>1, <3>2, <3>3, <3>5
  <2>2. log' = SubSeq(log, 1, m)
    BY <1>2 DEF NextOffset, Here
  <2>3. log' \in Seq(Items) /\ Len(log') = m /\ \A i \in 1 .. m : log'[i] = log[i]
    BY <2>1, <2>2, SubSeqFrom1, SubSeqOfItems DEF IsSeq
  <2>4. ASSUME NEW o \in DOMAIN disk, o # Here
        PROVE  Tells(disk[o], log', o) /\ (disk[o].st01 => TellsAll(disk[o], log', o))
    <3>1. o \in Nat /\ o + DonutCapacity <= Here /\ o + DonutCapacity <= m /\ o <= m
      <4>1. o \in Nat /\ o + DonutCapacity <= Here
        BY <1>0, <2>4, OffsetsInUse
      <4> QED
        BY <2>1, <4>1, CapacityIs
    <3> HIDE DEF m
    <3>2. Portion(log', o) = Portion(log, o)
      BY <2>1, <2>2, <3>1, PortionCut
    <3>3. Tells(disk[o], log, o) /\ (disk[o].st01 => TellsAll(disk[o], log, o))
      BY <1>0 DEF FilesInv
    <3> QED
      BY <2>3, <3>1, <3>2, <3>3 DEF Tells, TellsAll
  <2>5. ASSUME Here \in DOMAIN disk
        PROVE  Tells(disk[Here], log', Here) /\ ~disk[Here].st01
    <3> DEFINE f == disk[Here]
               p == Portion(log, Here)
    <3>1. Tells(f, log, Here) /\ Describes(f.order.cells, f.suffixes.cells, p)
      BY <1>0, <2>5 DEF FilesInv, Tells
    <3>2. /\ Portion(log', Here) = SubSeq(p, 1, n) /\ n \in 0 .. Len(p)
          /\ p \in Seq(Items) /\ Portion(log', Here) \in Seq(Items)
      <4>1. Portion(log', Here) = SubSeq(p, 1, m - Here) /\ m - Here \in 0 .. Len(p)
        <5> HIDE DEF m
        <5> QED
          BY <2>1, <2>2, PortionCut
      <4>2. p \in Seq(Items) /\ Portion(log', Here) \in Seq(Items)
        BY <2>1, <2>3, <3>1, PortionIs DEF Tells
      <4> QED
        BY <2>1, <4>1, <4>2
    <3>3. CASE open_files = Files
      <4>1. f.order = EmptyFile /\ f.suffixes = EmptyFile /\ ~f.st01
        BY <1>0, <3>3 DEF PendingInv, StreamInv
      <4>2. Describes(<< >>, << >>, Portion(log', Here))
        <5> DEFINE q == Portion(log', Here)
        <5>1. q \in Seq(Items) /\ IsSeq(<< >>) /\ Len(<< >>) <= 1
          BY <3>2, EmptyIsSeq, NewDonutIs
        <5> HIDE DEF q
        <5>2. Describes(<< >>, << >>, q)
          BY <5>1, NothingDescribes
        <5> QED
          BY <5>2 DEF q
      <4> QED
        BY <2>1, <2>3, <3>1, <4>1, <4>2, EmptyFileIsFile DEF Tells
    <3>4. CASE open_files # Files
      <4>1. hatchling = Hydrated(Here, f) /\ HydrationError(f) = "none"
        BY <1>0, <3>4 DEF HatchlingInv
      <4>2. n = Len(Entries(f.order)) /\ InStep(f.order.cells, p)
        BY <2>1, <3>1, <4>1, HydratedHolds
      <4>3. n = IF Len(f.order.cells) = 0 THEN 0 ELSE Len(f.order.cells) - 1
        BY <3>1, <4>2, EntriesAre DEF Describes
      <4>4. Len(f.order.cells) \in Nat
        BY <3>1, LenIsNat DEF Describes
      <4>5. Len(f.order.cells) <= n + 1
        BY <2>1, <4>3, <4>4
      <4>6. Describes(f.order.cells, f.suffixes.cells, SubSeq(p, 1, n))
        <5> HIDE DEF p, n
        <5> QED
          BY <3>1, <3>2, <4>2, <4>5, ShortenedDescribes
      <4>7. ~f.st01
        <5>1. f.st01 => Len(f.order.cells) = DonutCapacity + 1
          BY <1>0, <2>5 DEF DiskInv, IsFolder, Filled
        <5> QED
          BY <2>1, <4>3, <5>1, CapacityIs
      <4> QED
        BY <2>1, <2>3, <3>1, <3>2, <4>6, <4>7 DEF Tells
    <3> QED
      BY <3>3, <3>4
  <2>6. ItemsInv'
    BY <1>0, <2>0, <2>3 DEF ItemsInv
  <2>7. FilesInv'
    BY <1>2, <2>0, <2>4, <2>5 DEF FilesInv
  <2>8. PendingInv'
    BY <1>0, <1>2, <2>0 DEF PendingInv
  <2>9. HatchlingInv'
    <3>1. HoldsOf(hatchling, log')
      <4>1. \A i \in 1 .. n : Here + i \in 1 .. m
        BY <2>1
      <4>2. hatchling.forward \in Seq(Items) /\ hatchling.first + Len(hatchling.forward) = m
        BY <1>0 DEF ItemsInv, Here
      <4>3. \A i \in 1 .. n : hatchling.forward[i] = log'[Here + i]
        BY <2>1, <2>3, <4>1
      <4>4. hatchling.first + n <= Len(log')
        BY <2>1, <2>3 DEF Here
      <4> QED
        BY <4>2, <4>3, <4>4 DEF HoldsOf, Here
    <3> QED
      BY <1>0, <1>2, <2>0, <2>1, <2>3, <3>1 DEF HatchlingInv
  <2>10. KeptInv'
    <3> SUFFICES ASSUME NEW i \in DOMAIN room PROVE Kept(room[i], log', i)
      BY <2>0 DEF KeptInv
    <3>1. Kept(room[i], log, i)
      BY <1>0 DEF KeptInv
    <3>2. PICK k \in 0 .. Fanout : CountInv(k)
      BY DEF FoldersInv
    <3>3. Len(room) = k /\ Here = k * DonutCapacity /\ k \in Nat
      BY <1>0, <3>2, FanoutIsNat DEF CountInv
    <3>4. i \in 1 .. k
      BY <3>3, LenProperties DEF FoldersInv, ShapeInv, IsSeq
    <3>5. /\ room[i].first \in Nat
          /\ room[i].first + DonutCapacity <= k * DonutCapacity
      <4>1. /\ i - 1 \in Nat /\ (i - 1) + 1 = i /\ i <= k /\ i \in Nat
        BY <3>3, <3>4
      <4>2. i * DonutCapacity <= k * DonutCapacity
        BY <3>3, <4>1, CapacityIs, Z3
      <4>3. ((i - 1) * DonutCapacity) + DonutCapacity = i * DonutCapacity
        BY <4>1, NextMultiple
      <4>4. (i - 1) * DonutCapacity \in Nat
        BY <4>1, OffsetsAdd
      <4> QED
        BY <3>1, <4>2, <4>3, <4>4 DEF Kept
    <3>6. room[i].first \in Nat /\ room[i].first + DonutCapacity <= m
      <4>1. \A a, b, c, d \in Nat : a + b <= c => a + b <= c + d
        OBVIOUS
      <4> HIDE DEF n
      <4> QED
        BY <2>1, <3>3, <3>5, <4>1, CapacityIs
    <3>7. \A j \in 1 .. DonutCapacity : room[i].first + j \in 1 .. m
      BY <2>1, <3>6, CapacityIs
    <3> HIDE DEF m
    <3>8. HoldsOf(room[i], log')
      BY <2>3, <3>1, <3>6, <3>7 DEF Kept, HoldsOf
    <3> QED
      BY <3>1, <3>8 DEF Kept
  <2> QED
    BY <2>6, <2>7, <2>8, <2>9, <2>10 DEF DataInv
<1> QED
  BY <1>1, <1>2 DEF Ready

-----------------------------------------------------------------------------
(* The worker.                                                             *)

LEMMA TakeBatchKeepsData ==
  ASSUME FoldersInv, DataInv, TakeBatch
  PROVE  DataInv'
<1>0. /\ StreamInv /\ ItemsInv /\ FilesInv /\ PendingInv /\ HatchlingInv /\ KeptInv
      /\ at = "idle" /\ at' = "append" /\ log' = log
      /\ UNCHANGED << disk, hatchling, room, open_files, pending, starting >> /\ Here' = Here
  BY DEF FoldersInv, DataInv, TakeBatch, history, Here
<1>1. batch' \in Seq(Items)
  <2>1. PICK n \in 1 .. MaxBatch : batch' \in [1 .. n -> Items]
    BY DEF TakeBatch, Batches
  <2>2. n \in Nat
    BY <2>1, DiskBoundsAssumption
  <2> QED
    BY <2>1, <2>2
<1>2. ItemsInv'
  BY <1>0, <1>1 DEF ItemsInv
<1>3. FilesInv'
  BY <1>0 DEF FilesInv
<1>4. PendingInv'
  BY <1>0 DEF PendingInv
<1>5. HatchlingInv'
  BY <1>0 DEF HatchlingInv
<1>6. KeptInv'
  BY <1>0 DEF KeptInv
<1> QED
  BY <1>2, <1>3, <1>4, <1>5, <1>6 DEF DataInv

\* A longer log still has what it had.
LEMMA HoldsInLonger ==
  ASSUME NEW d, NEW l \in Seq(Items), NEW t \in Seq(Items), d.first \in Nat, HoldsOf(d, l)
  PROVE  HoldsOf(d, l \o t)
<1> DEFINE n == Len(d.forward)
<1>1. /\ d.forward \in Seq(Items) /\ n \in Nat /\ Len(l) \in Nat /\ Len(t) \in Nat
      /\ d.first + n <= Len(l)
      /\ \A i \in 1 .. n : d.forward[i] = l[d.first + i]
  BY LenProperties DEF HoldsOf
<1>2. Len(l \o t) = Len(l) + Len(t) /\ \A i \in 1 .. Len(l) : (l \o t)[i] = l[i]
  BY ConcatProperties, ConcatAt DEF IsSeq
<1> HIDE DEF n
<1>3. \A i \in 1 .. n : d.first + i \in 1 .. Len(l)
  BY <1>1
<1>4. d.first + n <= Len(l \o t)
  BY <1>1, <1>2
<1> QED
  BY <1>1, <1>2, <1>3, <1>4 DEF HoldsOf, n

LEMMA TakenAre ==
  ASSUME FoldersInv, DataInv, open_files = Files
  PROVE  LET taken == SubSeq(batch, 1, Taking)
         IN  /\ taken \in Seq(Items)
             /\ SubSeq(batch, Taking + 1, Len(batch)) \in Seq(Items)
             /\ Len(hatchling.forward) + Len(taken) <= DonutCapacity
<1>0. /\ batch \in Seq(Items) /\ Len(batch) \in Nat /\ hatchling.forward \in Seq(Items)
      /\ Len(hatchling.forward) \in Nat /\ Len(hatchling.forward) <= DonutCapacity
  BY LenProperties DEF DataInv, ItemsInv, FoldersInv, StreamInv
<1>1. Taking \in 0 .. Len(batch)
  <2>1. \A n, m, c \in Nat : m <= c => (IF n < c - m THEN n ELSE c - m) \in 0 .. n
    OBVIOUS
  <2> QED
    BY <1>0, <2>1, CapacityIs DEF Taking, RemainingCapacity
<1>2. SubSeq(batch, 1, Taking) \in Seq(Items)
  <2>1. 1 \in Nat \ {0}
    OBVIOUS
  <2> HIDE DEF Taking
  <2> QED
    BY <1>0, <1>1, <2>1, SubSeqOfItems
<1>3. SubSeq(batch, Taking + 1, Len(batch)) \in Seq(Items)
  <2>1. Taking + 1 \in Nat \ {0} /\ Len(batch) \in 0 .. Len(batch)
    BY <1>0, <1>1
  <2> QED
    BY <1>0, <2>1, SubSeqOfItems
<1>4. Len(SubSeq(batch, 1, Taking)) + Len(hatchling.forward) <= DonutCapacity
  BY <1>0, TakenFits DEF IsSeq
<1>5. Len(SubSeq(batch, 1, Taking)) \in Nat
  BY <1>2, LenProperties
<1> QED
  BY <1>0, <1>2, <1>3, <1>4, <1>5

LEMMA AppendHashesKeepsData ==
  ASSUME FoldersInv, DataInv, AppendHashes
  PROVE  DataInv'
<1> DEFINE taken == SubSeq(batch, 1, Taking)
<1>0. /\ DiskInv /\ ShapeInv /\ StreamInv /\ PromotedInv
      /\ ItemsInv /\ FilesInv /\ PendingInv /\ HatchlingInv /\ KeptInv
      /\ at = "append" /\ ~starting
  BY DEF FoldersInv, DataInv, AppendHashes, StreamInv
<1>1. CASE Fail("not_open")
  BY <1>0, <1>1, FailKeepsData
<1>2. CASE /\ open_files = Files
           /\ pending' = [order    |-> pending["order"] \o OrderCells(hatchling, taken),
                          suffixes |-> pending["suffixes"] \o SuffixCells(hatchling, taken)]
           /\ hatchling' = Appended(hatchling, taken)
           /\ batch' = SubSeq(batch, Taking + 1, Len(batch))
           /\ log' = log \o taken
           /\ at' = IF RemainingCapacity(hatchling') = 0 THEN "seal" ELSE "append"
           /\ UNCHANGED << disk, room, open_files, starting, failure, clean, crashed, starts >>
  <2> DEFINE s == hatchling.forward
  <2>1. /\ taken \in Seq(Items) /\ batch' \in Seq(Items)
        /\ Len(s) + Len(taken) <= DonutCapacity
    BY <1>2, TakenAre
  <2>2. /\ hatchling'.first = Here /\ hatchling'.forward = s \o taken
        /\ hatchling'.reverse = MapInserted(hatchling, taken)
    BY <1>0, <1>2 DEF ShapeInv, Appended, Here
  <2>3. /\ pending'["order"] = pending["order"] \o OrderCells(hatchling, taken)
        /\ pending'["suffixes"] = pending["suffixes"] \o SuffixCells(hatchling, taken)
    <3> DEFINE new_order    == pending["order"] \o OrderCells(hatchling, taken)
               new_suffixes == pending["suffixes"] \o SuffixCells(hatchling, taken)
    <3>1. pending' = [order |-> new_order, suffixes |-> new_suffixes]
      BY <1>2
    <3> HIDE DEF new_order, new_suffixes
    <3>2. pending'["order"] = new_order /\ pending'["suffixes"] = new_suffixes
      BY <3>1
    <3> QED
      BY <3>2, Zenon DEF new_order, new_suffixes
  <2>4. at' \in {"seal", "append"} /\ log' = log \o taken
        /\ UNCHANGED << disk, room, open_files, starting >>
    BY <1>2
  <2> HIDE DEF taken
  <2>5. /\ log \in Seq(Items) /\ s \in Seq(Items) /\ Len(log) \in Nat /\ Len(s) \in Nat
        /\ Len(taken) \in Nat /\ Here \in Nat /\ Here + Len(s) = Len(log)
        /\ hatchling.reverse = ReverseFrom(s)
    BY <1>0, <2>1, OffsetsInUse, LenProperties DEF ItemsInv, HatchlingInv
  <2>6. /\ log' \in Seq(Items) /\ Len(log') = Len(log) + Len(taken)
        /\ \A i \in 1 .. Len(log) : log'[i] = log[i]
        /\ \A i \in 1 .. Len(taken) : log'[Len(log) + i] = taken[i]
    BY <2>1, <2>4, <2>5, ConcatProperties, ConcatAt DEF IsSeq
  <2>7. /\ s \o taken \in Seq(Items) /\ Len(s \o taken) = Len(s) + Len(taken)
        /\ \A i \in 1 .. Len(s) : (s \o taken)[i] = s[i]
        /\ \A i \in 1 .. Len(taken) : (s \o taken)[Len(s) + i] = taken[i]
    BY <2>1, <2>5, ConcatProperties, ConcatAt DEF IsSeq
  <2>8. /\ disk[Here].order = EmptyFile /\ disk[Here].suffixes = EmptyFile /\ ~disk[Here].st01
        /\ Describes(pending["order"], pending["suffixes"], s)
        /\ Len(pending["suffixes"]) = Rank(s, Len(s))
        /\ Len(pending["order"]) = Len(s) + 1
    <3>1. /\ disk[Here].order = EmptyFile /\ disk[Here].suffixes = EmptyFile /\ ~disk[Here].st01
          /\ Describes(pending["order"], pending["suffixes"], s)
          /\ Len(pending["suffixes"]) = Rank(s, Len(s))
          /\ Len(disk[Here].order.cells) + Len(pending["order"]) = 1 + Len(s)
      BY <1>0, <1>2 DEF PendingInv, StreamInv
    <3>2. Len(disk[Here].order.cells) = 0 /\ Len(pending["order"]) \in Nat
      BY <3>1, EmptyFileIsFile, EmptyIsSeq, LenIsNat DEF Describes
    <3>3. \A a, b, c \in Nat : a = 0 /\ a + b = 1 + c => b = c + 1
      OBVIOUS
    <3>4. Len(disk[Here].order.cells) \in Nat
      BY <3>2
    <3>5. Len(pending["order"]) = Len(s) + 1
      BY <2>5, <3>1, <3>2, <3>3, <3>4
    <3> QED
      BY <3>1, <3>5
  <2>9. /\ Describes(pending'["order"], pending'["suffixes"], s \o taken)
        /\ Len(pending'["suffixes"]) = Rank(s \o taken, Len(s \o taken))
    <3>1. PICK d, c, t : d = hatchling /\ c = pending["order"] /\ t = pending["suffixes"]
      OBVIOUS
    <3>2. /\ d.forward \in Seq(Items) /\ d.reverse = ReverseFrom(d.forward)
          /\ taken \in Seq(Items) /\ Len(d.forward) + Len(taken) <= DonutCapacity
          /\ Describes(c, t, d.forward) /\ Len(c) = Len(d.forward) + 1
          /\ Len(t) = Rank(d.forward, Len(d.forward))
      BY <2>1, <2>5, <2>8, <3>1
    <3>3. /\ Describes(c \o OrderCells(d, taken), t \o SuffixCells(d, taken), d.forward \o taken)
          /\ Len(t \o SuffixCells(d, taken)) = Rank(d.forward \o taken, Len(d.forward \o taken))
      BY <3>2, AppendingDescribes
    <3> QED
      BY <2>3, <3>1, <3>3
  <2>10. ItemsInv'
    BY <2>1, <2>2, <2>6, <2>7 DEF ItemsInv
  <2>11. FilesInv'
    <3> SUFFICES ASSUME NEW o \in DOMAIN disk
                 PROVE  Tells(disk[o], log', o) /\ (disk[o].st01 => TellsAll(disk[o], log', o))
      BY <2>4 DEF FilesInv
    <3>1. o \in Nat /\ Tells(disk[o], log, o) /\ (disk[o].st01 => TellsAll(disk[o], log, o))
      BY <1>0, OffsetsInUse DEF FilesInv
    <3>2. CASE o # Here
      <4>1. TellsAll(disk[o], log, o) /\ o + DonutCapacity <= Len(log)
        BY <1>0, <3>1, <3>2 DEF PromotedInv, TellsAll
      <4>2. Portion(log', o) = Portion(log, o)
        BY <2>1, <2>4, <2>5, <3>1, <4>1, PortionStays
      <4>3. o <= Len(log') /\ o + DonutCapacity <= Len(log')
        BY <2>5, <2>6, <3>1, <4>1, CapacityIs
      <4> QED
        BY <3>1, <4>1, <4>2, <4>3 DEF Tells, TellsAll
    <3>3. CASE o = Here
      <4>1. Here <= Len(log') /\ Portion(log', Here) \in Seq(Items)
        <5>1. Here <= Len(log')
          BY <2>5, <2>6
        <5> QED
          BY <2>5, <2>6, <5>1, PortionIs
      <4> DEFINE p == Portion(log', Here)
      <4>2. p \in Seq(Items) /\ IsSeq(<< >>) /\ Len(<< >>) <= 1
        BY <4>1, EmptyIsSeq
      <4> HIDE DEF p
      <4>3. Describes(<< >>, << >>, p)
        BY <4>2, NothingDescribes
      <4> QED
        BY <2>8, <3>1, <3>3, <4>1, <4>3, EmptyFileIsFile DEF Tells, EmptyFile, p
    <3> QED
      BY <3>2, <3>3
  <2>12. PendingInv'
    <3>1. Here' = Here /\ ~starting'
      BY <1>0, <2>2, <2>4 DEF Here
    <3> QED
      BY <1>2, <2>2, <2>8, <2>9, <3>1 DEF PendingInv
  <2>13. HatchlingInv'
    <3>1. MapInserted(hatchling, taken) = ReverseFrom(s \o taken)
      BY <2>1, <2>5, MapOfBoth
    <3>2. Here + Len(s \o taken) = Len(log') /\ Len(s \o taken) <= DonutCapacity
          /\ Here + Len(s \o taken) <= Len(log')
      BY <2>1, <2>5, <2>6, <2>7
    <3>3. \A i \in 1 .. Len(s \o taken) : (s \o taken)[i] = log'[Here + i]
      <4> SUFFICES ASSUME NEW i \in 1 .. Len(s \o taken)
                   PROVE  (s \o taken)[i] = log'[Here + i]
        OBVIOUS
      <4>1. CASE i <= Len(s)
        <5>1. i \in 1 .. Len(s) /\ Here + i \in 1 .. Len(log)
          BY <2>5, <4>1
        <5>2. s[i] = log[Here + i]
          BY <1>0, <5>1 DEF HatchlingInv, HoldsOf, Here
        <5> QED
          BY <2>6, <2>7, <5>1, <5>2
      <4>2. CASE i > Len(s)
        <5>1. PICK j \in 1 .. Len(taken) : i = Len(s) + j
          <6>1. i - Len(s) \in 1 .. Len(taken) /\ i = Len(s) + (i - Len(s))
            BY <2>5, <2>7, <4>2
          <6> QED
            BY <6>1
        <5>2. Here + i = Len(log) + j
          BY <2>5, <5>1
        <5> QED
          BY <2>6, <2>7, <5>1, <5>2
      <4> QED
        BY <2>5, <4>1, <4>2
    <3>4. HoldsOf(hatchling', log')
      <4>1. hatchling'.forward = s \o taken /\ hatchling'.first = Here
        BY <2>2
      <4> QED
        BY <2>7, <3>2, <3>3, <4>1, Zenon DEF HoldsOf
    <3>5. Here' = Here
      BY <2>2 DEF Here
    <3> QED
      BY <1>0, <1>2, <2>2, <2>4, <3>1, <3>2, <3>4, <3>5 DEF HatchlingInv
  <2>14. KeptInv'
    <3> SUFFICES ASSUME NEW i \in DOMAIN room PROVE Kept(room[i], log', i)
      BY <2>4 DEF KeptInv
    <3>1. Kept(room[i], log, i)
      BY <1>0 DEF KeptInv
    <3>2. room[i].first \in Nat
      <4>1. room[i].first = (i - 1) * DonutCapacity
        BY <3>1 DEF Kept
      <4>2. i - 1 \in Nat
        BY <1>0, LenProperties DEF ShapeInv, IsSeq
      <4> QED
        BY <4>1, <4>2, OffsetsAdd
    <3>3. HoldsOf(room[i], log')
      BY <2>1, <2>4, <2>5, <3>1, <3>2, HoldsInLonger DEF Kept
    <3> QED
      BY <3>1, <3>3 DEF Kept
  <2> QED
    BY <2>10, <2>11, <2>12, <2>13, <2>14 DEF DataInv
<1> QED
  BY <1>1, <1>2 DEF AppendHashes

LEMMA SealKeepsData ==
  ASSUME FoldersInv, DataInv, Seal
  PROVE  DataInv'
<1>0. /\ DiskInv /\ StreamInv /\ ItemsInv /\ FilesInv /\ PendingInv /\ HatchlingInv /\ KeptInv
      /\ at = "seal" /\ disk' = Flushed /\ pending' = NoPending /\ open_files' = {}
      /\ at' = "promote" /\ log' = log /\ ~starting
      /\ UNCHANGED << hatchling, room, batch, starting >> /\ Here' = Here
  BY DEF FoldersInv, DataInv, Seal, history, Here, StreamInv
<1>1. Here \in DOMAIN disk
  BY <1>0, HereIsThere DEF FoldersInv
<1> DEFINE s == hatchling.forward
<1>2. /\ open_files = Files /\ Len(s) = DonutCapacity
      /\ disk[Here].suffixes = EmptyFile
      /\ IsSeq(pending["suffixes"]) /\ Len(pending["suffixes"]) = Rank(s, Len(s))
      /\ Here + Len(s) = Len(log) /\ Here \in Nat /\ log \in Seq(Items) /\ s \in Seq(Items)
      /\ HoldsOf(hatchling, log)
  BY <1>0, OffsetsInUse DEF StreamInv, PendingInv, HatchlingInv, ItemsInv, Describes
<1>3. Here + DonutCapacity <= Len(log) /\ Portion(log, Here) = s
  <2>1. /\ Len(s) <= DonutCapacity /\ Here + Len(s) <= Len(log)
        /\ \A i \in 1 .. Len(s) : s[i] = log[Here + i]
    BY <1>2, CapacityIs DEF HoldsOf, Here
  <2> QED
    BY <1>2, <2>1, HeldPortion
<1>4. disk'[Here].suffixes.cells = pending["suffixes"]
  <2> DEFINE order    == pending["order"]
             suffixes == pending["suffixes"]
  <2>1. disk' = Written(order, suffixes, FALSE)
    BY <1>0 DEF Flushed
  <2>2. PICK torn : torn = FALSE
    OBVIOUS
  <2> HIDE DEF order, suffixes
  <2>3. disk' = Written(order, suffixes, torn)
    BY <2>1, <2>2
  <2>4. disk'[Here].suffixes.cells = disk[Here].suffixes.cells \o suffixes
    <3>1. DiskInv /\ FilesInv /\ Here \in DOMAIN disk
      BY <1>0, <1>1, Zenon
    <3>2. PICK new : new = disk'
      OBVIOUS
    <3>3. new = Written(order, suffixes, torn)
      BY <2>3, <3>2
    <3>4. new[Here].suffixes.cells = disk[Here].suffixes.cells \o suffixes
      BY ONLY <3>1, <3>3, WrittenFiles
    <3> QED
      BY <3>2, <3>4
  <2>5. disk[Here].suffixes.cells = << >> /\ IsSeq(suffixes)
    BY <1>2, EmptyFileIsFile DEF suffixes
  <2>6. << >> \o suffixes = suffixes
    BY <2>5, EmptyConcat
  <2> QED
    BY <2>4, <2>5, <2>6 DEF suffixes
<1>5. TellsAll(disk'[Here], log, Here)
  <2>1. Len(disk'[Here].suffixes.cells) = Rank(s, DonutCapacity)
    BY <1>2, <1>4
  <2>2. Rank(s, DonutCapacity) \in Nat
    BY CapacityIs, RankIsCount
  <2> QED
    BY <1>3, <2>1, <2>2 DEF TellsAll
<1>6. ItemsInv'
  BY <1>0 DEF ItemsInv
<1>7. FilesInv'
  <2> SUFFICES ASSUME NEW o \in DOMAIN disk'
               PROVE  /\ Tells(disk'[o], log, o)
                      /\ disk'[o].st01 \/ o = Here => TellsAll(disk'[o], log, o)
    BY <1>0 DEF FilesInv
  <2>1. /\ DOMAIN disk' = DOMAIN disk
        /\ Tells(disk'[o], log, o) /\ (disk[o].st01 => TellsAll(disk'[o], log, o))
    BY <1>0, SurvivorsTell
  <2>2. disk'[o].st01 = disk[o].st01
    BY <1>0, <2>1, FlushKeepsFolders
  <2> QED
    BY <1>5, <2>1, <2>2
<1>8. PendingInv'
  BY <1>0 DEF PendingInv, NoPending, Files
<1>9. HatchlingInv'
  BY <1>0, <1>2 DEF HatchlingInv
<1>10. KeptInv'
  BY <1>0 DEF KeptInv
<1> QED
  BY <1>6, <1>7, <1>8, <1>9, <1>10 DEF DataInv

LEMMA PromoteKeepsData ==
  ASSUME FoldersInv, DataInv, Promote
  PROVE  DataInv'
<1>0. /\ DiskInv /\ StreamInv /\ ItemsInv /\ FilesInv /\ PendingInv /\ HatchlingInv /\ KeptInv
      /\ at = "promote" /\ disk' = [disk EXCEPT ![Here] = Made(@)]
      /\ at' = "feed" /\ log' = log /\ ~starting /\ open_files # Files
      /\ UNCHANGED << hatchling, room, batch, open_files, pending, starting >> /\ Here' = Here
  BY DEF FoldersInv, DataInv, Promote, memory, history, Here, StreamInv
<1>1. Here \in DOMAIN disk
  BY <1>0, HereIsThere DEF FoldersInv
<1> DEFINE f == disk[Here]
<1>2. f = [st00 |-> f.st00, st01 |-> f.st01, order |-> f.order, suffixes |-> f.suffixes]
  BY <1>0, <1>1 DEF DiskInv, IsFolder
<1>3. /\ DOMAIN disk' = DOMAIN disk
      /\ disk'[Here] = [f EXCEPT !.st01 = TRUE]
      /\ \A o \in DOMAIN disk \ {Here} : disk'[o] = disk[o]
  BY <1>0, <1>1 DEF Made
<1>4. disk'[Here].order = f.order /\ disk'[Here].suffixes = f.suffixes
  BY <1>2, <1>3
<1>5. Tells(disk'[Here], log, Here) /\ TellsAll(disk'[Here], log, Here)
  BY <1>0, <1>1, <1>4 DEF FilesInv, Tells, TellsAll
<1>6. ItemsInv'
  BY <1>0 DEF ItemsInv
<1>7. FilesInv'
  BY <1>0, <1>3, <1>5 DEF FilesInv
<1>8. PendingInv'
  BY <1>0 DEF PendingInv
<1>9. HatchlingInv'
  BY <1>0 DEF HatchlingInv
<1>10. KeptInv'
  BY <1>0 DEF KeptInv
<1> QED
  BY <1>6, <1>7, <1>8, <1>9, <1>10 DEF DataInv

LEMMA FeedRoomKeepsData ==
  ASSUME FoldersInv, DataInv, FeedRoom
  PROVE  DataInv'
<1>0. /\ ShapeInv /\ StreamInv /\ ItemsInv /\ FilesInv /\ PendingInv /\ HatchlingInv /\ KeptInv
      /\ at = "feed" /\ at' = "spawn" /\ log' = log /\ ~starting /\ open_files # Files
      /\ room' = Append(room, hatchling)
      /\ UNCHANGED << disk, hatchling, batch, open_files, pending, starting >> /\ Here' = Here
  BY DEF FoldersInv, DataInv, FeedRoom, history, Here, StreamInv
<1>1. PICK k \in 0 .. Fanout : CountInv(k)
  BY DEF FoldersInv
<1>2. Len(room) = k /\ Here = k * DonutCapacity /\ k \in Nat
  BY <1>0, <1>1, FanoutIsNat DEF CountInv
<1>3. Kept(hatchling, log, k + 1)
  <2>1. (k + 1) - 1 = k
    BY <1>2
  <2> QED
    BY <1>0, <1>2, <2>1 DEF Kept, HatchlingInv, Here
<1>4. \A i \in DOMAIN room' : \/ i = k + 1 /\ room'[i] = hatchling
                              \/ i \in DOMAIN room /\ room'[i] = room[i]
  <2>1. PICK S : room \in Seq(S)
    BY <1>0 DEF ShapeInv, IsSeq
  <2>2. room \in Seq(S \cup {hatchling})
    BY <2>1, SeqMonotonic
  <2>3. /\ DOMAIN room' = 1 .. k + 1 /\ DOMAIN room = 1 .. k
        /\ \A i \in 1 .. k : room'[i] = room[i]
        /\ room'[k + 1] = hatchling
    BY <1>0, <1>2, <2>2, AppendProperties, LenProperties
  <2>4. \A i \in 1 .. k + 1 : i = k + 1 \/ i \in 1 .. k
    BY <1>2
  <2> QED
    BY <2>3, <2>4
<1>5. ItemsInv'
  BY <1>0 DEF ItemsInv
<1>6. FilesInv'
  BY <1>0 DEF FilesInv
<1>7. PendingInv'
  BY <1>0 DEF PendingInv
<1>8. HatchlingInv'
  BY <1>0 DEF HatchlingInv
<1>9. KeptInv'
  BY <1>0, <1>3, <1>4 DEF KeptInv
<1> QED
  BY <1>5, <1>6, <1>7, <1>8, <1>9 DEF DataInv

LEMMA SpawnKeepsData ==
  ASSUME FoldersInv, DataInv, Spawn
  PROVE  DataInv'
<1>0. /\ StreamInv /\ ItemsInv /\ FilesInv /\ PendingInv /\ HatchlingInv /\ KeptInv
      /\ at = "spawn" /\ at' = "hatch" /\ log' = log /\ ~starting /\ open_files # Files
      /\ hatchling' = NewDonut(Here + DonutCapacity)
      /\ UNCHANGED << disk, room, batch, open_files, pending, starting >>
  BY DEF FoldersInv, DataInv, Spawn, NewOffset, history, Here, StreamInv
<1>1. PICK k \in 0 .. Fanout : CountInv(k)
  BY DEF FoldersInv
<1>2. /\ Here = k * DonutCapacity /\ k \in Nat /\ DOMAIN disk = Offsets(k + 1)
  BY <1>0, <1>1, FanoutIsNat DEF CountInv
<1>3. /\ hatchling'.forward = << >> /\ << >> \in Seq(Items) /\ Len(<< >>) = 0
      /\ hatchling'.reverse = ReverseFrom(<< >>)
      /\ Here' = Here + DonutCapacity
  BY <1>0, NewDonutIs DEF Here
<1>4. Here' \notin DOMAIN disk
  <2>1. k + 1 \in Nat /\ (k * DonutCapacity) + DonutCapacity = (k + 1) * DonutCapacity
    BY <1>2, NextMultiple
  <2>2. (k + 1) * DonutCapacity \notin Offsets(k + 1)
    BY <2>1, OffsetsAdd
  <2> QED
    BY <1>2, <1>3, <2>1, <2>2
<1>5. Here' \in Nat /\ Here' = Len(log)
  <2>1. Here \in Nat /\ Here + Len(hatchling.forward) = Len(log)
        /\ Len(hatchling.forward) = DonutCapacity
    BY <1>0, OffsetsInUse DEF HatchlingInv
  <2> QED
    BY <1>3, <2>1, CapacityIs
<1>6. ItemsInv'
  BY <1>0, <1>3 DEF ItemsInv
<1>7. FilesInv'
  BY <1>0 DEF FilesInv
<1>8. PendingInv'
  BY <1>0 DEF PendingInv
<1>9. HatchlingInv'
  <2>1. /\ hatchling'.first = Here' /\ Here' + 0 = Len(log) /\ Here' + 0 <= Len(log)
        /\ 0 <= DonutCapacity
    BY <1>5, CapacityIs DEF Here
  <2>2. HoldsOf(hatchling', log')
    <3>1. /\ Len(hatchling'.forward) = 0 /\ hatchling'.forward \in Seq(Items)
          /\ hatchling'.first + Len(hatchling'.forward) <= Len(log')
          /\ \A i \in 1 .. Len(hatchling'.forward) : FALSE
      <4>1. PICK f \in Seq(Items) : f = << >> /\ Len(f) = 0
        BY <1>3
      <4>2. hatchling'.forward = f /\ hatchling'.first + 0 <= Len(log')
        BY <1>0, <1>3, <2>1, <4>1
      <4>3. \A i \in 1 .. 0 : FALSE
        OBVIOUS
      <4> QED
        BY <4>1, <4>2, <4>3
    <3> QED
      BY <3>1 DEF HoldsOf
  <2> QED
    BY <1>0, <1>3, <1>4, <2>1, <2>2 DEF HatchlingInv
<1>10. KeptInv'
  BY <1>0 DEF KeptInv
<1> QED
  BY <1>6, <1>7, <1>8, <1>9, <1>10 DEF DataInv

LEMMA LambdaEndsKeepsData ==
  ASSUME FoldersInv, DataInv, LambdaEnds
  PROVE  DataInv'
<1>0. /\ ItemsInv /\ FilesInv /\ PendingInv /\ HatchlingInv /\ KeptInv
      /\ at = "append" /\ at' = "idle" /\ log' = log
      /\ UNCHANGED << disk, hatchling, room, batch, open_files, pending, starting >> /\ Here' = Here
  BY DEF DataInv, LambdaEnds, Here
<1>1. ItemsInv'
  BY <1>0 DEF ItemsInv
<1>2. FilesInv'
  BY <1>0 DEF FilesInv
<1>3. PendingInv'
  BY <1>0 DEF PendingInv
<1>4. HatchlingInv'
  BY <1>0 DEF HatchlingInv
<1>5. KeptInv'
  BY <1>0 DEF KeptInv
<1> QED
  BY <1>1, <1>2, <1>3, <1>4, <1>5 DEF DataInv

LEMMA DataNext == FoldersInv /\ DataInv /\ [Next]_vars => DataInv'
<1> SUFFICES ASSUME FoldersInv, DataInv, [Next]_vars
             PROVE  DataInv'
  OBVIOUS
<1>1. CASE Start
  BY <1>1, StartKeepsData
<1>2. CASE HydrateHatchling
  BY <1>2, HydrateHatchlingKeepsData
<1>3. CASE MakeFolder
  BY <1>3, MakeFolderKeepsData
<1>4. CASE CreateOrder
  BY <1>4, CreateOrderKeepsData
<1>5. CASE CreateSuffixes
  BY <1>5, CreateSuffixesKeepsData
<1>6. CASE HydrateRoom
  BY <1>6, HydrateRoomKeepsData
<1>7. CASE Ready
  BY <1>7, ReadyKeepsData
<1>8. CASE TakeBatch
  BY <1>8, TakeBatchKeepsData
<1>9. CASE AppendHashes
  BY <1>9, AppendHashesKeepsData
<1>10. CASE Seal
  BY <1>10, SealKeepsData
<1>11. CASE Promote
  BY <1>11, PromoteKeepsData
<1>12. CASE FeedRoom
  BY <1>12, FeedRoomKeepsData
<1>13. CASE Spawn
  BY <1>13, SpawnKeepsData
<1>14. CASE LambdaEnds
  BY <1>14, LambdaEndsKeepsData
<1>15. CASE Shutdown
  BY <1>15, ShutdownKeepsData
<1>16. CASE Crash
  BY <1>16, FailKeepsData DEF Crash
<1>17. CASE UNCHANGED vars
  BY <1>17 DEF DataInv, ItemsInv, FilesInv, PendingInv, HatchlingInv, KeptInv,
               Here, vars, memory, history
<1> QED
  BY <1>1, <1>2, <1>3, <1>4, <1>5, <1>6, <1>7, <1>8, <1>9, <1>10, <1>11, <1>12,
     <1>13, <1>14, <1>15, <1>16, <1>17 DEF Next, Opening, Working

\* What appending writes to the map, the vector, the streams and the files of a
\* donut (append_hashes, ingester_evolver_types.hpp:115-176), what survives of
\* it and what hydration makes of that (:194-290) is what was fed, under its
\* indices, after every step and across crashes and starts.
THEOREM DataStaysInStep == Spec => []DataInv
<1>1. Init => DataInv
  BY DataInit
<1>2. FoldersInv /\ DataInv /\ [Next]_vars => DataInv'
  BY DataNext
<1> QED
  BY <1>1, <1>2, FoldersStayInOrder, PTL DEF Spec

-----------------------------------------------------------------------------
(* What the invariants say.                                                *)

LEMMA HoldsOfIsHolds ==
  ASSUME NEW d, HoldsOf(d, log)
  PROVE  Holds(d)
BY DEF HoldsOf, Holds, NextOffset

LEMMA MemoryIsInStep == FoldersInv /\ DataInv => MemoryHoldsLog
<1> SUFFICES ASSUME FoldersInv, DataInv, InMemory
             PROVE  /\ \A i \in DOMAIN room :
                          /\ room[i].first = (i - 1) * DonutCapacity
                          /\ Len(room[i].forward) = DonutCapacity
                          /\ Holds(room[i])
                    /\ Holds(hatchling)
                    /\ hatchling.first
                          = (IF at = "spawn" THEN RoomEnd - DonutCapacity ELSE RoomEnd)
                    /\ Running => NextOffset(hatchling) = Len(log)
  BY DEF MemoryHoldsLog
<1>1. HatchlingInv /\ KeptInv /\ StreamInv /\ at # "down" /\ (at = "check" \/ ~starting)
  BY DEF DataInv, FoldersInv, InMemory, Running
<1>2. \A i \in DOMAIN room :
         /\ room[i].first = (i - 1) * DonutCapacity
         /\ Len(room[i].forward) = DonutCapacity
         /\ Holds(room[i])
  BY <1>1, HoldsOfIsHolds DEF KeptInv, Kept
<1>3. Holds(hatchling)
  BY <1>1, HoldsOfIsHolds DEF HatchlingInv
<1>4. Running => NextOffset(hatchling) = Len(log)
  BY <1>1 DEF HatchlingInv, Running, NextOffset, Here
<1>5. hatchling.first = (IF at = "spawn" THEN RoomEnd - DonutCapacity ELSE RoomEnd)
  <2>1. PICK k \in 0 .. Fanout : CountInv(k)
    BY DEF FoldersInv
  <2>2. /\ Here = k * DonutCapacity /\ k \in Nat
        /\ Len(room) = (IF at = "spawn" THEN k + 1 ELSE k)
    BY <1>1, <2>1, FanoutIsNat DEF CountInv
  <2>3. /\ (k * DonutCapacity) + DonutCapacity = (k + 1) * DonutCapacity
        /\ k * DonutCapacity \in Nat
    BY <2>2, NextMultiple, OffsetsAdd
  <2> DEFINE last == k * DonutCapacity
             next == (k + 1) * DonutCapacity
  <2>4. /\ last + DonutCapacity = next /\ last \in Nat /\ hatchling.first = last
        /\ RoomEnd = (IF at = "spawn" THEN next ELSE last)
    BY <2>2, <2>3 DEF RoomEnd, Here
  <2> HIDE DEF last, next
  <2>5. next - DonutCapacity = last
    BY <2>4, CapacityIs
  <2> QED
    BY <2>4, <2>5
<1> QED
  BY <1>2, <1>3, <1>4, <1>5

\* Whatever was started, crashed and hydrated before, the donuts in memory are
\* contiguous and full but for the last, and each forward_lookup_vector_ has
\* what was fed under its indices; while the store runs they have all of it
\* (ingester_tier_folder.hpp:56-120, ingester_evolver_types.hpp:165, :284-285).
THEOREM LogIsInMemory == Spec => []MemoryHoldsLog
BY DataStaysInStep, FoldersStayInOrder, MemoryIsInStep, PTL

LEMMA MapsAreInStep == DataInv => ReverseFindsFirst
BY DEF DataInv, HatchlingInv, KeptInv, Kept, ReverseFindsFirst

\* A reverse_lookup_map_, extended by insert (ingester_evolver_types.hpp:157-162)
\* or rebuilt by hydration (:286), leads each hash of its donut to the first place
\* it has there, and no other hash anywhere.
THEOREM MapsFindFirst == Spec => []ReverseFindsFirst
BY DataStaysInStep, MapsAreInStep, PTL

\* A donut whose files are whole is read back whole.
LEMMA WholeFileIsReadBack ==
  ASSUME log \in Seq(Items), NEW o \in Nat, NEW f, Tells(f, log, o), TellsAll(f, log, o),
         Filled(f)
  PROVE  ForwardFrom(f.order, f.suffixes) = SubSeq(log, o + 1, o + DonutCapacity)
<1> DEFINE p == Portion(log, o)
<1>1. /\ o + DonutCapacity <= Len(log) /\ o <= Len(log) /\ Len(log) \in Nat
      /\ Describes(f.order.cells, f.suffixes.cells, p)
      /\ Rank(p, DonutCapacity) <= Len(f.suffixes.cells)
      /\ Len(f.order.cells) = DonutCapacity + 1
  BY LenProperties DEF Tells, TellsAll, Filled
<1>2. p = SubSeq(log, o + 1, o + DonutCapacity)
  BY <1>1 DEF Portion, Lesser
<1>3. p \in Seq(Items) /\ Len(p) = DonutCapacity
  <2>1. p \in Seq(Items) /\ Len(p) = Lesser(DonutCapacity, Len(log) - o)
    BY <1>1, PortionIs
  <2>2. DonutCapacity <= Len(log) - o
    BY <1>1, CapacityIs
  <2> QED
    BY <2>1, <2>2 DEF Lesser
<1> HIDE DEF p
<1>4. Len(Entries(f.order)) = DonutCapacity
  <2>1. Len(Entries(f.order)) = IF Len(f.order.cells) = 0 THEN 0 ELSE Len(f.order.cells) - 1
    BY <1>1, EntriesAre DEF Describes
  <2> QED
    BY <1>1, <2>1, CapacityIs
<1>5. ForwardFrom(f.order, f.suffixes) = SubSeq(p, 1, DonutCapacity)
  <2> DEFINE order == f.order
             suffixes == f.suffixes
  <2>1. /\ Describes(order.cells, suffixes.cells, p)
        /\ Rank(p, Len(Entries(order))) <= Len(suffixes.cells)
    BY <1>1, <1>4
  <2> HIDE DEF order, suffixes
  <2>2. ForwardFrom(order, suffixes) = SubSeq(p, 1, Len(Entries(order)))
    BY <1>3, <2>1, ReadBack
  <2> QED
    BY <1>4, <2>2 DEF order, suffixes
<1>6. SubSeq(p, 1, DonutCapacity) = p
  BY <1>3, SubSeqFull
<1> QED
  BY <1>2, <1>5, <1>6

\* What the files of the hatchling hold once its streams are flushed.
LEMMA FlushedHatchling ==
  ASSUME FoldersInv, DataInv, open_files = Files
  PROVE  LET f == Flushed[Here]
             s == hatchling.forward
         IN  /\ Here \in DOMAIN disk /\ s \in Seq(Items)
             /\ Describes(f.order.cells, f.suffixes.cells, s)
             /\ Len(Entries(f.order)) = Len(s)
             /\ Rank(s, Len(s)) = Len(f.suffixes.cells)
<1> DEFINE s == hatchling.forward
           order == Flushed[Here].order
           suffixes == Flushed[Here].suffixes
           a == pending["order"]
           b == pending["suffixes"]
<1>0. DiskInv /\ StreamInv /\ ItemsInv /\ FilesInv /\ PendingInv
  BY DEF FoldersInv, DataInv
<1>1. Here \in DOMAIN disk
  BY <1>0, HereIsThere DEF FoldersInv, StreamInv
<1>2. /\ disk[Here].order = EmptyFile /\ disk[Here].suffixes = EmptyFile
      /\ Describes(a, b, s) /\ Len(b) = Rank(s, Len(s)) /\ s \in Seq(Items)
      /\ Len(disk[Here].order.cells) + Len(a) = 1 + Len(s)
      /\ IsSeq(a) /\ IsSeq(b)
  BY <1>0 DEF PendingInv, StreamInv, ItemsInv, Describes
<1>3. order.cells = a /\ suffixes.cells = b
  <2>1. Flushed = Written(a, b, FALSE)
    BY DEF Flushed
  <2>2. PICK torn : torn = FALSE
    OBVIOUS
  <2>3. PICK new : new = Flushed
    OBVIOUS
  <2> HIDE DEF a, b
  <2>4. new = Written(a, b, torn)
    BY <2>1, <2>2, <2>3
  <2>5. /\ new[Here].order.cells = disk[Here].order.cells \o a
        /\ new[Here].suffixes.cells = disk[Here].suffixes.cells \o b
    BY <1>0, <1>1, <2>4, WrittenFiles, Zenon
  <2>6. disk[Here].order.cells = << >> /\ disk[Here].suffixes.cells = << >>
    BY <1>2, EmptyFileIsFile
  <2>7. << >> \o a = a /\ << >> \o b = b
    BY <1>2, EmptyConcat
  <2> QED
    BY <2>3, <2>5, <2>6, <2>7
<1>4. Len(order.cells) = Len(s) + 1 /\ Len(s) \in Nat
  <2>1. Len(disk[Here].order.cells) = 0 /\ Len(a) \in Nat /\ Len(s) \in Nat
    BY <1>2, EmptyFileIsFile, EmptyIsSeq, LenIsNat, LenProperties
  <2>2. \A i, j, k \in Nat : i = 0 /\ i + j = 1 + k => j = k + 1
    OBVIOUS
  <2>3. Len(disk[Here].order.cells) \in Nat
    BY <2>1
  <2>4. Len(a) = Len(s) + 1
    BY <1>2, <2>1, <2>2, <2>3
  <2> QED
    BY <1>3, <2>1, <2>4
<1> HIDE DEF order, suffixes, a, b
<1>5. Len(Entries(order)) = Len(s)
  <2>1. IsSeq(order.cells)
    BY <1>2, <1>3
  <2>2. Len(Entries(order)) = IF Len(order.cells) = 0 THEN 0 ELSE Len(order.cells) - 1
    BY <2>1, EntriesAre
  <2> QED
    BY <1>4, <2>2
<1>6. Describes(order.cells, suffixes.cells, s) /\ Rank(s, Len(s)) = Len(suffixes.cells)
  BY <1>2, <1>3
<1> QED
  BY <1>1, <1>2, <1>5, <1>6 DEF order, suffixes

LEMMA FilesAreInStep == FoldersInv /\ DataInv => FilesHoldLog
<1> SUFFICES ASSUME FoldersInv, DataInv
             PROVE  FilesHoldLog
  OBVIOUS
<1>0. DiskInv /\ ItemsInv /\ FilesInv
  BY DEF FoldersInv, DataInv
<1>1. ASSUME NEW o \in DOMAIN disk, disk[o].st01
      PROVE  ForwardFrom(disk[o].order, disk[o].suffixes) = SubSeq(log, o + 1, o + DonutCapacity)
  <2>1. /\ o \in Nat /\ log \in Seq(Items) /\ Filled(disk[o])
        /\ Tells(disk[o], log, o) /\ TellsAll(disk[o], log, o)
    BY <1>0, <1>1, OffsetsInUse DEF ItemsInv, FilesInv, DiskInv, IsFolder
  <2> QED
    BY <2>1, WholeFileIsReadBack
<1>2. ASSUME Running, open_files = Files
      PROVE  ForwardFrom(Flushed[Here].order, Flushed[Here].suffixes) = hatchling.forward
  <2>1. PICK s, order, suffixes :
          s = hatchling.forward /\ order = Flushed[Here].order /\ suffixes = Flushed[Here].suffixes
    OBVIOUS
  <2>2. /\ s \in Seq(Items) /\ Describes(order.cells, suffixes.cells, s)
        /\ Len(Entries(order)) = Len(s) /\ Rank(s, Len(s)) = Len(suffixes.cells)
    BY <1>2, <2>1, FlushedHatchling
  <2>3. Rank(s, Len(s)) \in Nat
    BY <2>2, RankIsCount, LenProperties
  <2>4. Rank(s, Len(Entries(order))) <= Len(suffixes.cells)
    BY <2>2, <2>3
  <2>5. ForwardFrom(order, suffixes) = SubSeq(s, 1, Len(Entries(order)))
    BY <2>2, <2>4, ReadBack
  <2>6. SubSeq(s, 1, Len(s)) = s
    BY <2>2, SubSeqFull
  <2> QED
    BY <2>1, <2>2, <2>5, <2>6
<1> QED
  BY <1>1, <1>2 DEF FilesHoldLog

\* hydrate_self_for_lookup (ingester_evolver_types.hpp:194-290) undoes append_hashes
\* (:115-176): from the files of a filled donut, and from those of the hatchling
\* once its streams are flushed, what was appended is read back, duplicates or
\* not.
THEOREM LogIsInFiles == Spec => []FilesHoldLog
BY DataStaysInStep, FoldersStayInOrder, FilesAreInStep, PTL

-----------------------------------------------------------------------------
(* How often the store was opened, and what a donut without an ST00 has.   *)

\* An order file gets no cell before the folder of the hatchling is made.
BareInv == \A o \in DOMAIN disk : ~disk[o].st00 => disk[o].order.cells = << >>

\* The files are open unless they were found, which takes another start.
StartsInv ==
    /\ starts \in Nat
    /\ starts = 0 => at = "down" /\ DOMAIN disk = {}
    /\ starts = 1 /\ at = "hatch" => Here \notin DOMAIN disk \/ ~disk[Here].st00
    /\ at \in {"room", "check", "idle", "append"} => open_files = Files \/ starts > 1

\* With nothing held back, the end of the process writes nothing.
LEMMA NothingHeldBack ==
  ASSUME FoldersInv, DataInv, open_files # Files, NEW new, Survives(new) \/ new = Flushed
  PROVE  /\ DOMAIN new = DOMAIN disk
         /\ \A o \in DOMAIN disk :
               /\ new[o].st00 = disk[o].st00
               /\ new[o].order.cells = disk[o].order.cells
               /\ new[o].suffixes.cells = disk[o].suffixes.cells
<1> DEFINE a == pending["order"]
           b == pending["suffixes"]
<1>0. DiskInv /\ StreamInv /\ FilesInv /\ PendingInv
  BY DEF FoldersInv, DataInv
<1>1. IsSeq(a) /\ IsSeq(b)
  BY FlushedIsWritten
<1>2. PICK i \in 0 .. Len(a), k \in 0 .. Len(b), torn \in BOOLEAN :
        new = Written(SubSeq(a, 1, i), SubSeq(b, 1, k), torn)
  BY FlushedIsWritten DEF Survives
<1> DEFINE order    == SubSeq(a, 1, i)
           suffixes == SubSeq(b, 1, k)
<1>3. /\ IsSeq(order) /\ Len(order) = i /\ IsSeq(suffixes) /\ Len(suffixes) = k
  BY <1>1, SubSeqFrom1
<1>4. order = << >> /\ suffixes = << >>
  <2>1. a = << >> /\ b = << >>
    BY <1>0 DEF StreamInv, PendingInv
  <2>2. Len(order) = 0 /\ Len(suffixes) = 0
    BY <1>3, <2>1, EmptyIsSeq
  <2> HIDE DEF order, suffixes
  <2> QED
    BY <1>3, <2>2, EmptySeq DEF IsSeq
<1>5. DOMAIN new = DOMAIN disk /\ \A o \in DOMAIN disk \ {Here} : new[o] = disk[o]
  BY <1>2 DEF Written
<1>6. ASSUME Here \in DOMAIN disk
      PROVE  /\ new[Here].order.cells = disk[Here].order.cells
             /\ new[Here].suffixes.cells = disk[Here].suffixes.cells
  <2>1. new = Written(order, suffixes, torn)
    BY <1>2
  <2> HIDE DEF order, suffixes, a, b
  <2>2. /\ new[Here].order.cells = disk[Here].order.cells \o order
        /\ new[Here].suffixes.cells = disk[Here].suffixes.cells \o suffixes
    <3>1. DiskInv /\ FilesInv /\ Here \in DOMAIN disk
      BY <1>0, <1>6, Zenon
    <3> QED
      BY ONLY <3>1, <2>1, WrittenFiles
  <2>3. IsSeq(disk[Here].order.cells) /\ IsSeq(disk[Here].suffixes.cells)
    BY <1>0, <1>6 DEF FilesInv, Tells, Describes
  <2> QED
    BY <1>4, <2>2, <2>3, EmptyConcat
<1>7. \A o \in DOMAIN disk : new[o].st00 = disk[o].st00
  BY SurvivalKeepsFolders, FlushKeepsFolders
<1> QED
  BY <1>5, <1>6, <1>7

LEMMA BareAfterEnd ==
  ASSUME FoldersInv, DataInv, BareInv, Survives(disk') \/ disk' = Flushed
  PROVE  BareInv'
<1> SUFFICES ASSUME NEW o \in DOMAIN disk', ~disk'[o].st00
             PROVE  disk'[o].order.cells = << >>
  BY DEF BareInv
<1>1. /\ DOMAIN disk' = DOMAIN disk
      /\ \A p \in DOMAIN disk \ {Here} : disk'[p] = disk[p]
  BY DEF Survives, Flushed, Written
<1>2. disk'[o].st00 = disk[o].st00
  BY <1>1, SurvivalKeepsFolders, FlushKeepsFolders
<1>3. disk[o].order.cells = << >>
  BY <1>1, <1>2 DEF BareInv
<1>4. CASE o # Here
  BY <1>1, <1>3, <1>4
<1>5. CASE o = Here
  <2>1. open_files # Files
    BY <1>2, <1>5 DEF FoldersInv, StreamInv
  <2> QED
    BY <1>1, <1>3, <2>1, NothingHeldBack
<1> QED
  BY <1>4, <1>5

LEMMA BareNext == FoldersInv /\ DataInv /\ BareInv /\ [Next]_vars => BareInv'
<1> SUFFICES ASSUME FoldersInv, DataInv, BareInv, [Next]_vars
             PROVE  BareInv'
  OBVIOUS
<1>0. DiskInv /\ StreamInv
  BY DEF FoldersInv
<1>1. CASE UNCHANGED disk
  BY <1>1 DEF BareInv
<1>2. CASE Survives(disk') \/ disk' = Flushed
  BY <1>2, BareAfterEnd
<1>3. CASE Start \/ TakeBatch \/ FeedRoom \/ Spawn \/ LambdaEnds \/ UNCHANGED vars
  BY <1>1, <1>3 DEF Start, TakeBatch, FeedRoom, Spawn, LambdaEnds, vars
<1>4. CASE HydrateHatchling \/ HydrateRoom \/ Ready \/ AppendHashes \/ Crash
  <2>1. (UNCHANGED disk) \/ \E reason : Fail(reason)
    BY <1>4 DEF HydrateHatchling, HydrateRoom, Ready, AppendHashes, Crash
  <2> QED
    BY <1>1, <1>2, <2>1 DEF Fail
<1>5. CASE Shutdown \/ Seal
  BY <1>2, <1>5 DEF Shutdown, Seal
<1>6. CASE MakeFolder /\ Here \notin DOMAIN disk
  <2>1. disk' = [o \in DOMAIN disk \cup {Here} |-> IF o = Here THEN NewFolder ELSE disk[o]]
    BY <1>6 DEF MakeFolder
  <2>2. NewFolder.order.cells = << >>
    BY DEF NewFolder, NoFile
  <2> QED
    BY <2>1, <2>2 DEF BareInv
<1>7. CASE /\ Here \in DOMAIN disk
           /\ \/ disk' = [disk EXCEPT ![Here].st00 = TRUE]
              \/ disk[Here].st00 /\ disk' = [disk EXCEPT ![Here].order = EmptyFile]
              \/ disk[Here].st00 /\ disk' = [disk EXCEPT ![Here].suffixes = EmptyFile]
              \/ disk[Here].st00 /\ disk' = [disk EXCEPT ![Here] = Made(@)]
  <2> DEFINE f == disk[Here]
  <2>1. f = [st00 |-> f.st00, st01 |-> f.st01, order |-> f.order, suffixes |-> f.suffixes]
    BY <1>0, <1>7 DEF DiskInv, IsFolder
  <2>2. /\ DOMAIN disk' = DOMAIN disk
        /\ \A o \in DOMAIN disk \ {Here} : disk'[o] = disk[o]
    BY <1>7
  <2>3. \/ disk'[Here] = [f EXCEPT !.st00 = TRUE]
        \/ f.st00 /\ disk'[Here] = [f EXCEPT !.order = EmptyFile]
        \/ f.st00 /\ disk'[Here] = [f EXCEPT !.suffixes = EmptyFile]
        \/ f.st00 /\ disk'[Here] = [f EXCEPT !.st01 = TRUE]
    BY <1>7 DEF Made
  <2>4. disk'[Here].st00
    BY <2>1, <2>3
  <2> QED
    BY <2>2, <2>4 DEF BareInv
<1>8. CASE MakeFolder /\ Here \in DOMAIN disk
  BY <1>7, <1>8 DEF MakeFolder
<1>9. CASE CreateOrder \/ CreateSuffixes \/ Promote
  <2>1. Here \in DOMAIN disk
    BY <1>9, HereIsThere DEF FoldersInv, CreateOrder, CreateSuffixes, Promote
  <2>2. disk[Here].st00
    BY <1>0, <1>9 DEF StreamInv, CreateOrder, CreateSuffixes, Promote
  <2> QED
    BY <1>7, <1>9, <2>1, <2>2 DEF CreateOrder, CreateSuffixes, Promote
<1> QED
  BY <1>3, <1>4, <1>5, <1>6, <1>8, <1>9 DEF Next, Opening, Working

LEMMA StartsNext == FoldersInv /\ DataInv /\ StartsInv /\ [Next]_vars => StartsInv'
<1> SUFFICES ASSUME FoldersInv, DataInv, StartsInv, [Next]_vars
             PROVE  StartsInv'
  OBVIOUS
<1>0. StreamInv /\ HatchlingInv /\ starts \in Nat
  BY DEF FoldersInv, DataInv, StartsInv
<1>1. ASSUME NEW reason, Fail(reason), at # "down" PROVE StartsInv'
  BY <1>1 DEF Fail, MemoryLost, StartsInv
<1>2. CASE Start
  <2>1. at' = "hatch" /\ starts' = starts + 1 /\ disk' = disk /\ starts' # 0
    BY <1>0, <1>2 DEF Start
  <2>2. starts' = 1 => DOMAIN disk = {}
    BY <1>0, <2>1 DEF StartsInv
  <2> QED
    BY <1>0, <2>1, <2>2 DEF StartsInv
<1>3. CASE HydrateHatchling
  <2>1. CASE Fail(HydrationError(disk[Here]))
    BY <1>1, <1>3, <2>1 DEF HydrateHatchling
  <2>2. CASE at' = Opened /\ UNCHANGED << disk, history >>
    <3>1. starts > 1 /\ starts' = starts /\ at' # "hatch"
      BY <1>0, <1>3, <2>2 DEF StartsInv, HydrateHatchling, history, Opened
    <3> QED
      BY <1>0, <3>1 DEF StartsInv
  <2> QED
    BY <1>3, <2>1, <2>2 DEF HydrateHatchling
<1>4. CASE MakeFolder
  <2>1. /\ starts' = starts /\ starts # 0 /\ Here' = Here
        /\ at' \in {"hatch", "create_order"}
    BY <1>4 DEF MakeFolder, history, memory, StartsInv, Here
  <2>2. at' = "hatch" => ~disk'[Here].st00
    BY <1>4 DEF MakeFolder, NewFolder
  <2> QED
    BY <1>0, <2>1, <2>2 DEF StartsInv
<1>5. CASE CreateOrder
  BY <1>0, <1>5 DEF CreateOrder, history, StartsInv
<1>6. CASE CreateSuffixes
  BY <1>0, <1>6 DEF CreateSuffixes, history, StartsInv, Opened
<1>7. CASE HydrateRoom
  <2>1. CASE \E reason : Fail(reason)
    BY <1>1, <1>7, <2>1 DEF HydrateRoom
  <2>2. CASE at' = "check" /\ UNCHANGED << open_files, history >>
    BY <1>0, <1>7, <2>2 DEF HydrateRoom, history, StartsInv
  <2> QED
    BY <1>7, <2>1, <2>2 DEF HydrateRoom
<1>8. CASE Ready
  BY <1>0, <1>1, <1>8 DEF Ready, memory, StartsInv
<1>9. CASE AppendHashes
  BY <1>0, <1>1, <1>9 DEF AppendHashes, StartsInv
<1>10. CASE TakeBatch \/ LambdaEnds
  BY <1>0, <1>10 DEF TakeBatch, LambdaEnds, history, StartsInv
<1>11. CASE Seal \/ Promote \/ FeedRoom
  BY <1>0, <1>11 DEF Seal, Promote, FeedRoom, history, StartsInv
<1>12. CASE Spawn
  <2>1. HatchlingInv'
    BY <1>12, SpawnKeepsData DEF DataInv
  <2>2. at' = "hatch" /\ ~starting' /\ starts' = starts /\ starts # 0
    BY <1>0, <1>12 DEF Spawn, history, StartsInv, StreamInv
  <2> QED
    BY <1>0, <2>1, <2>2 DEF StartsInv, HatchlingInv
<1>13. CASE Shutdown
  BY <1>0, <1>13 DEF Shutdown, MemoryLost, StartsInv
<1>14. CASE Crash
  BY <1>1, <1>14 DEF Crash
<1>15. CASE UNCHANGED vars
  BY <1>0, <1>15 DEF vars, memory, history, StartsInv, Here
<1> QED
  BY <1>2, <1>3, <1>4, <1>5, <1>6, <1>7, <1>8, <1>9, <1>10, <1>11, <1>12, <1>13,
     <1>14, <1>15 DEF Next, Opening, Working

-----------------------------------------------------------------------------
(* Suffix files that end before the order file does.                       *)

\* Such a pair of files is what an end without a shutdown left.
TruncatedInv ==
    \A o \in DOMAIN disk : Truncated(disk[o]) => crashed \/ (at = "down" /\ ~clean)

NothingNewTruncated ==
    \A o \in DOMAIN disk' : Truncated(disk'[o]) => o \in DOMAIN disk /\ Truncated(disk[o])

LEMMA SameCells ==
  ASSUME NEW f, NEW g, f.order.cells = g.order.cells, f.suffixes.cells = g.suffixes.cells
  PROVE  (Truncated(f) <=> Truncated(g)) /\ Entries(f.order) = Entries(g.order)
BY DEF Truncated, Entries

LEMMA BareIsNotTruncated ==
  ASSUME NEW f, NEW l \in Seq(Items), NEW o \in Nat, Tells(f, l, o), f.order.cells = << >>
  PROVE  ~Truncated(f) /\ Len(Entries(f.order)) = 0
<1> DEFINE p == Portion(l, o)
<1>1. p \in Seq(Items) /\ Describes(f.order.cells, f.suffixes.cells, p)
  BY PortionIs DEF Tells
<1> HIDE DEF p
<1>2. Len(Entries(f.order)) = 0
  BY <1>1, EntriesAre, EmptyIsSeq DEF Describes
<1>3. Rank(p, 0) = 0 /\ Len(f.suffixes.cells) \in Nat
  BY <1>1, RankIsCount, LenIsNat DEF Describes
<1>4. Truncated(f) <=> Rank(p, Len(Entries(f.order))) > Len(f.suffixes.cells)
  BY <1>1, TruncatedIs
<1> QED
  BY <1>2, <1>3, <1>4

LEMMA FlushTruncatesNothing ==
  ASSUME FoldersInv, DataInv, disk' = Flushed
  PROVE  NothingNewTruncated
<1>1. /\ DOMAIN disk' = DOMAIN disk
      /\ \A o \in DOMAIN disk \ {Here} : disk'[o] = disk[o]
  BY DEF Flushed, Written
<1>2. CASE open_files = Files
  <2> DEFINE f == Flushed[Here]
             s == hatchling.forward
  <2>1. /\ s \in Seq(Items) /\ Describes(f.order.cells, f.suffixes.cells, s)
        /\ Len(Entries(f.order)) = Len(s) /\ Rank(s, Len(s)) = Len(f.suffixes.cells)
    BY <1>2, FlushedHatchling
  <2> HIDE DEF f, s
  <2>2. Rank(s, Len(s)) \in Nat
    BY <2>1, RankIsCount, LenProperties
  <2>3. ~Truncated(f)
    BY <2>1, <2>2, TruncatedIs
  <2> QED
    BY <1>1, <2>3 DEF NothingNewTruncated, f
<1>3. CASE open_files # Files
  <2>1. \A o \in DOMAIN disk : /\ disk'[o].order.cells = disk[o].order.cells
                                /\ disk'[o].suffixes.cells = disk[o].suffixes.cells
    BY <1>3, NothingHeldBack
  <2> QED
    BY <1>1, <2>1, SameCells DEF NothingNewTruncated
<1> QED
  BY <1>2, <1>3

LEMMA MakingTruncatesNothing ==
  ASSUME FoldersInv, DataInv, MakeFolder \/ CreateOrder \/ CreateSuffixes \/ Promote
  PROVE  NothingNewTruncated
<1>0. /\ DiskInv /\ StreamInv
      /\ \A o \in DOMAIN disk' : Tells(disk'[o], log', o)
      /\ log' \in Seq(Items) /\ Here \in Nat
  <2>1. DataInv'
    BY MakeFolderKeepsData, CreateOrderKeepsData, CreateSuffixesKeepsData, PromoteKeepsData
  <2>2. at # "down"
    BY DEF MakeFolder, CreateOrder, CreateSuffixes, Promote
  <2> QED
    BY <2>1, <2>2, OffsetsInUse DEF DataInv, FilesInv, ItemsInv, FoldersInv
<1>1. CASE MakeFolder /\ Here \notin DOMAIN disk
  <2>1. disk' = [o \in DOMAIN disk \cup {Here} |-> IF o = Here THEN NewFolder ELSE disk[o]]
    BY <1>1 DEF MakeFolder
  <2>2. disk'[Here].order.cells = << >> /\ Here \in DOMAIN disk'
    BY <2>1 DEF NewFolder, NoFile
  <2>3. ~Truncated(disk'[Here])
    BY <1>0, <2>2, BareIsNotTruncated
  <2> QED
    BY <2>1, <2>3 DEF NothingNewTruncated
<1>2. CASE /\ Here \in DOMAIN disk
           /\ \/ disk' = [disk EXCEPT ![Here].st00 = TRUE]
              \/ disk' = [disk EXCEPT ![Here].order = EmptyFile]
              \/ disk[Here].order = EmptyFile /\ disk' = [disk EXCEPT ![Here].suffixes = EmptyFile]
              \/ disk' = [disk EXCEPT ![Here] = Made(@)]
  <2> DEFINE f == disk[Here]
  <2>1. f = [st00 |-> f.st00, st01 |-> f.st01, order |-> f.order, suffixes |-> f.suffixes]
    BY <1>0, <1>2 DEF DiskInv, IsFolder
  <2>2. /\ DOMAIN disk' = DOMAIN disk
        /\ \A o \in DOMAIN disk \ {Here} : disk'[o] = disk[o]
    BY <1>2
  <2>3. \/ disk'[Here] = [f EXCEPT !.st00 = TRUE]
        \/ disk'[Here] = [f EXCEPT !.order = EmptyFile]
        \/ f.order = EmptyFile /\ disk'[Here] = [f EXCEPT !.suffixes = EmptyFile]
        \/ disk'[Here] = [f EXCEPT !.st01 = TRUE]
    BY <1>2 DEF Made
  <2>4. \/ disk'[Here].order = f.order /\ disk'[Here].suffixes = f.suffixes
        \/ disk'[Here].order = EmptyFile
    BY <2>1, <2>3
  <2>5. CASE disk'[Here].order = f.order /\ disk'[Here].suffixes = f.suffixes
    BY <1>2, <2>2, <2>5, SameCells DEF NothingNewTruncated
  <2>6. CASE disk'[Here].order = EmptyFile
    <3>1. disk'[Here].order.cells = << >> /\ Here \in DOMAIN disk'
      BY <1>2, <2>2, <2>6, EmptyFileIsFile
    <3>2. ~Truncated(disk'[Here])
      BY <1>0, <3>1, BareIsNotTruncated
    <3> QED
      BY <2>2, <3>2 DEF NothingNewTruncated
  <2> QED
    BY <2>4, <2>5, <2>6
<1>3. CASE MakeFolder /\ Here \in DOMAIN disk
  BY <1>2, <1>3 DEF MakeFolder
<1>4. CASE CreateOrder \/ CreateSuffixes \/ Promote
  <2>1. Here \in DOMAIN disk
    BY <1>4, HereIsThere DEF FoldersInv, CreateOrder, CreateSuffixes, Promote
  <2>2. CreateSuffixes => disk[Here].order = EmptyFile
    BY <1>0 DEF StreamInv, CreateSuffixes
  <2> QED
    BY <1>2, <1>4, <2>1, <2>2 DEF CreateOrder, CreateSuffixes, Promote
<1> QED
  BY <1>1, <1>3, <1>4

LEMMA TruncatedNext ==
  FoldersInv /\ DataInv /\ TruncatedInv /\ [Next]_vars => TruncatedInv'
<1> SUFFICES ASSUME FoldersInv, DataInv, TruncatedInv, [Next]_vars
             PROVE  TruncatedInv'
  OBVIOUS
<1>1. CASE \E reason : Fail(reason)
  BY <1>1 DEF Fail, MemoryLost, TruncatedInv
<1>2. CASE Start
  BY <1>2 DEF Start, TruncatedInv
<1>3. CASE /\ NothingNewTruncated
           /\ \/ (at = "down" <=> at' = "down") /\ UNCHANGED << clean, crashed >>
              \/ at # "down" /\ UNCHANGED crashed
  BY <1>3 DEF NothingNewTruncated, TruncatedInv
<1>4. CASE MakeFolder \/ CreateOrder \/ CreateSuffixes \/ Promote
  BY <1>3, <1>4, MakingTruncatesNothing
  DEF MakeFolder, CreateOrder, CreateSuffixes, Promote, history, Opened
<1>5. CASE Shutdown \/ Seal
  BY <1>3, <1>5, FlushTruncatesNothing DEF Shutdown, Seal, history
<1>6. CASE HydrateHatchling
  BY <1>1, <1>3, <1>6 DEF HydrateHatchling, history, Opened, NothingNewTruncated
<1>7. CASE HydrateRoom
  <2>1. \/ \E reason : Fail(reason)
        \/ UNCHANGED disk /\ at # "down" /\ UNCHANGED history
    BY <1>7 DEF HydrateRoom
  <2> QED
    BY <1>1, <1>3, <2>1 DEF history, NothingNewTruncated
<1>8. CASE Ready \/ AppendHashes \/ Crash
  <2>1. \/ \E reason : Fail(reason)
        \/ UNCHANGED disk /\ at # "down" /\ UNCHANGED crashed
    BY <1>8 DEF Ready, AppendHashes, Crash
  <2> QED
    BY <1>1, <1>3, <2>1 DEF NothingNewTruncated
<1>9. CASE TakeBatch \/ FeedRoom \/ Spawn \/ LambdaEnds
  BY <1>3, <1>9 DEF TakeBatch, FeedRoom, Spawn, LambdaEnds, history, NothingNewTruncated
<1>10. CASE UNCHANGED vars
  BY <1>3, <1>10 DEF vars, history, NothingNewTruncated
<1> QED
  BY <1>2, <1>4, <1>5, <1>6, <1>7, <1>8, <1>9, <1>10 DEF Next, Opening, Working

-----------------------------------------------------------------------------
(* What a shutdown leaves.                                                 *)

Stored(f) == Len(Entries(f.order))

\* The folder at o holds what the log has from o on, and is not full.
HoldsRest(o) == Len(log) = o + Stored(disk[o]) /\ Stored(disk[o]) < DonutCapacity

\* Nothing is missing from the folders after a shutdown, nor from what is
\* hydrated after it; and the hatchling of a worker that waits is never full.
CleanInv ==
    /\ at \in {"idle", "append"} => Len(hatchling.forward) < DonutCapacity
    /\ clean /\ at = "down" =>
          IF DOMAIN disk = {} THEN log = << >> ELSE HoldsRest(HighestOffset)
    /\ clean /\ at = "hatch" /\ starting =>
          IF Here \in DOMAIN disk THEN HoldsRest(Here) ELSE Len(log) = Here
    /\ clean /\ at \notin {"down", "hatch"} /\ starting =>
          Len(log) = NextOffset(hatchling) /\ Len(hatchling.forward) < DonutCapacity

LEMMA CleanInit == Init => CleanInv
BY DEF Init, CleanInv

LEMMA ShutdownIsClean ==
  ASSUME FoldersInv, DataInv, CleanInv, Shutdown
  PROVE  CleanInv'
<1>0. /\ StreamInv /\ HatchlingInv /\ FilesInv /\ ItemsInv
      /\ at = "idle" /\ ~starting /\ at' = "down" /\ disk' = Flushed /\ log' = log
  BY DEF FoldersInv, DataInv, Shutdown, MemoryLost, StreamInv
<1>1. /\ Here \in DOMAIN disk /\ HighestOffset = Here /\ Here \in Nat
  <2>1. PICK k \in 0 .. Fanout : CountInv(k)
    BY DEF FoldersInv
  <2>2. DOMAIN disk = Offsets(k + 1) /\ Here = k * DonutCapacity /\ k \in Nat
    BY <1>0, <2>1, FanoutIsNat DEF CountInv
  <2> QED
    BY <1>0, <2>1, <2>2, HighestIsLast, HereIsThere, OffsetsInUse
<1>2. DOMAIN disk' = DOMAIN disk
  BY <1>0 DEF Flushed, Written
<1>3. HighestOffset' = Here
  BY <1>1, <1>2 DEF HighestOffset
<1>4. Here + Len(hatchling.forward) = Len(log) /\ Len(hatchling.forward) < DonutCapacity
  BY <1>0 DEF HatchlingInv, CleanInv
<1>5. Stored(disk'[Here]) = Len(hatchling.forward)
  <2>1. CASE open_files = Files
    BY <1>0, <2>1, FlushedHatchling DEF Stored
  <2>2. CASE open_files # Files
    <3>1. hatchling = Hydrated(Here, disk[Here]) /\ HydrationError(disk[Here]) = "none"
      BY <1>0, <2>2 DEF HatchlingInv
    <3>2. Tells(disk[Here], log, Here) /\ log \in Seq(Items)
      BY <1>0, <1>1 DEF FilesInv, ItemsInv
    <3>3. Len(hatchling.forward) = Len(Entries(disk[Here].order))
      BY <1>1, <3>1, <3>2, HydratedHolds
    <3>4. /\ disk'[Here].order.cells = disk[Here].order.cells
          /\ disk'[Here].suffixes.cells = disk[Here].suffixes.cells
      BY <1>0, <1>1, <2>2, NothingHeldBack
    <3>5. Entries(disk'[Here].order) = Entries(disk[Here].order)
      BY <3>4, SameCells
    <3> QED
      BY <3>3, <3>5 DEF Stored
  <2> QED
    BY <2>1, <2>2
<1>6. HoldsRest(HighestOffset)'
  BY <1>0, <1>3, <1>4, <1>5 DEF HoldsRest
<1> QED
  BY <1>0, <1>1, <1>2, <1>6 DEF CleanInv

LEMMA StartIsClean ==
  ASSUME FoldersInv, DataInv, CleanInv, Start
  PROVE  CleanInv'
<1>1. /\ at = "down" /\ at' = "hatch" /\ UNCHANGED << disk, clean, log >>
      /\ Here' = (IF DOMAIN disk = {} THEN 0 ELSE HighestOffset)
  BY NewDonutIs DEF Start, Here
<1>2. CASE DOMAIN disk = {}
  <2>1. clean => Len(log') = 0
    BY <1>1, <1>2, NewDonutIs DEF CleanInv
  <2> QED
    BY <1>1, <1>2, <2>1 DEF CleanInv
<1>3. CASE DOMAIN disk # {}
  <2>1. Here' \in DOMAIN disk'
    BY <1>1, <1>3, HighestIsThere
  <2>2. clean => HoldsRest(HighestOffset)
    BY <1>1, <1>3 DEF CleanInv
  <2>3. clean' => HoldsRest(Here)'
    BY <1>1, <1>3, <2>2 DEF HoldsRest
  <2> QED
    BY <1>1, <2>1, <2>3 DEF CleanInv
<1> QED
  BY <1>2, <1>3

LEMMA HydrateHatchlingIsClean ==
  ASSUME FoldersInv, DataInv, CleanInv, HydrateHatchling
  PROVE  CleanInv'
<1>0. /\ HatchlingInv /\ FilesInv /\ ItemsInv /\ at = "hatch" /\ Here \in DOMAIN disk
      /\ disk[Here].st00
  BY DEF DataInv, HydrateHatchling
<1>1. CASE Fail(HydrationError(disk[Here]))
  BY <1>1 DEF Fail, MemoryLost, CleanInv
<1>2. CASE /\ HydrationError(disk[Here]) = "none"
           /\ hatchling' = Hydrated(Here, disk[Here])
           /\ at' = Opened
           /\ UNCHANGED << disk, room, batch, open_files, pending, starting, history >>
  <2>1. starting /\ at' = "room" /\ UNCHANGED << clean, log >>
    BY <1>0, <1>2 DEF HatchlingInv, Opened, history
  <2>2. clean => HoldsRest(Here)
    BY <1>0, <2>1 DEF CleanInv
  <2>3. Tells(disk[Here], log, Here) /\ log \in Seq(Items) /\ Here \in Nat
    BY <1>0, OffsetsInUse DEF FilesInv, ItemsInv
  <2>4. hatchling'.first = Here /\ Len(hatchling'.forward) = Len(Entries(disk[Here].order))
    BY <1>2, <2>3, HydratedHolds
  <2>5. clean => Len(log) = NextOffset(hatchling') /\ Len(hatchling'.forward) < DonutCapacity
    BY <2>2, <2>4 DEF HoldsRest, Stored, NextOffset
  <2> QED
    BY <2>1, <2>5 DEF CleanInv
<1> QED
  BY <1>1, <1>2 DEF HydrateHatchling

LEMMA MakeFolderIsClean ==
  ASSUME FoldersInv, DataInv, BareInv, CleanInv, MakeFolder
  PROVE  CleanInv'
<1>0. /\ StreamInv /\ DataInv' /\ FilesInv /\ ItemsInv /\ log \in Seq(Items) /\ Here \in Nat
      /\ at = "hatch" /\ UNCHANGED << log, clean, starting, hatchling >> /\ Here' = Here
      /\ hatchling.forward = << >> /\ Len(hatchling.forward) = 0
  BY MakeFolderKeepsData, OffsetsInUse, NewDonutIs
  DEF FoldersInv, StreamInv, DataInv, ItemsInv, MakeFolder, memory, history, Here
<1>1. CASE Here \notin DOMAIN disk
  <2>1. /\ disk' = [o \in DOMAIN disk \cup {Here} |-> IF o = Here THEN NewFolder ELSE disk[o]]
        /\ at' = "hatch"
    BY <1>1 DEF MakeFolder
  <2>2. Here \in DOMAIN disk' /\ disk'[Here].order.cells = << >>
    BY <2>1 DEF NewFolder, NoFile
  <2>3. Tells(disk'[Here], log', Here) /\ log' \in Seq(Items)
    BY <1>0, <2>2 DEF DataInv, FilesInv
  <2>4. Stored(disk'[Here]) = 0
    BY <1>0, <2>2, <2>3, BareIsNotTruncated DEF Stored
  <2>5. clean /\ starting => Len(log) = Here
    BY <1>0, <1>1 DEF CleanInv
  <2>6. Here = Here + 0 /\ 0 < DonutCapacity
    BY <1>0, CapacityIs
  <2>7. clean /\ starting => HoldsRest(Here)'
    BY <1>0, <2>4, <2>5, <2>6 DEF HoldsRest
  <2> QED
    BY <1>0, <2>1, <2>2, <2>7 DEF CleanInv
<1>2. CASE Here \in DOMAIN disk
  <2>1. at' = "create_order" /\ disk[Here].order.cells = << >>
    BY <1>2 DEF MakeFolder, BareInv
  <2>2. Tells(disk[Here], log, Here)
    BY <1>0, <1>2 DEF FilesInv
  <2>3. Stored(disk[Here]) = 0
    BY <1>0, <2>1, <2>2, BareIsNotTruncated DEF Stored
  <2>4. clean /\ starting => Len(log) = Here + 0
    BY <1>0, <1>2, <2>3 DEF CleanInv, HoldsRest
  <2>5. NextOffset(hatchling) = Here + 0 /\ 0 < DonutCapacity
    BY <1>0, CapacityIs DEF NextOffset, Here
  <2> QED
    BY <1>0, <2>1, <2>4, <2>5 DEF CleanInv
<1> QED
  BY <1>1, <1>2

LEMMA CleanNext ==
  FoldersInv /\ DataInv /\ BareInv /\ CleanInv /\ [Next]_vars => CleanInv'
<1> SUFFICES ASSUME FoldersInv, DataInv, BareInv, CleanInv, [Next]_vars
             PROVE  CleanInv'
  OBVIOUS
<1>0. StreamInv /\ HatchlingInv /\ ItemsInv
  BY DEF FoldersInv, DataInv
<1>1. CASE \E reason : Fail(reason)
  BY <1>1 DEF Fail, MemoryLost, CleanInv
<1>2. CASE Start
  BY <1>2, StartIsClean
<1>3. CASE HydrateHatchling
  BY <1>3, HydrateHatchlingIsClean
<1>4. CASE MakeFolder
  BY <1>4, MakeFolderIsClean
<1>5. CASE CreateOrder
  BY <1>5 DEF CreateOrder, history, CleanInv, NextOffset
<1>6. CASE CreateSuffixes
  <2>1. Len(hatchling.forward) < DonutCapacity
    BY <1>0, <1>6, NewDonutIs, CapacityIs DEF CreateSuffixes, StreamInv
  <2>2. at = "create_suffixes" /\ at' \in {"room", "append"}
        /\ UNCHANGED << hatchling, log, starting, clean >>
    BY <1>6 DEF CreateSuffixes, history, Opened
  <2> QED
    BY <2>1, <2>2 DEF CleanInv, NextOffset
<1>7. CASE HydrateRoom
  <2>1. CASE /\ at = "room" /\ at' = "check"
             /\ UNCHANGED << hatchling, log, starting, clean >>
    BY <2>1 DEF CleanInv, NextOffset
  <2>2. \/ \E reason : Fail(reason)
        \/ /\ at = "room" /\ at' = "check"
           /\ UNCHANGED << hatchling, log, starting, clean >>
    BY <1>7 DEF HydrateRoom, history
  <2> QED
    BY <1>1, <2>1, <2>2
<1>8. CASE Ready
  <2>1. CASE /\ RemainingCapacity(hatchling) > 0 /\ at' = "idle" /\ starting' = FALSE
             /\ UNCHANGED hatchling
    <3>1. Len(hatchling.forward) \in Nat /\ DonutCapacity - Len(hatchling.forward) > 0
      BY <1>0, <2>1, LenProperties DEF ItemsInv, RemainingCapacity
    <3>2. Len(hatchling.forward) < DonutCapacity
      BY <3>1, CapacityIs
    <3> QED
      BY <2>1, <3>2 DEF CleanInv
  <2> QED
    BY <1>1, <1>8, <2>1 DEF Ready, memory
<1>9. CASE AppendHashes
  <2>1. CASE /\ open_files' = Files /\ ~starting'
             /\ at' = (IF RemainingCapacity(hatchling') = 0 THEN "seal" ELSE "append")
    <3>1. StreamInv' /\ IsSeq(hatchling'.forward) /\ Len(hatchling'.forward) <= DonutCapacity
      BY <1>9, <2>1, AppendHashesKeepsInv DEF FoldersInv, StreamInv
    <3>2. Len(hatchling'.forward) \in Nat
      BY <3>1, LenIsNat
    <3>3. at' = "append" => DonutCapacity - Len(hatchling'.forward) # 0
      BY <2>1 DEF RemainingCapacity
    <3>4. at' = "append" => Len(hatchling'.forward) < DonutCapacity
      BY <3>1, <3>2, <3>3, CapacityIs
    <3> QED
      BY <2>1, <3>4 DEF CleanInv
  <2>2. ~starting
    BY <1>0, <1>9 DEF AppendHashes, StreamInv
  <2>3. \/ \E reason : Fail(reason)
        \/ /\ open_files' = Files /\ starting' = starting
           /\ at' = (IF RemainingCapacity(hatchling') = 0 THEN "seal" ELSE "append")
    <3>1. CASE Fail("not_open")
      BY <3>1
    <3>2. CASE ~Fail("not_open")
      <4>1. /\ open_files = Files
            /\ at' = (IF RemainingCapacity(hatchling') = 0 THEN "seal" ELSE "append")
            /\ UNCHANGED << disk, room, open_files, starting, failure, clean, crashed, starts >>
        BY <1>9, <3>2, Zenon DEF AppendHashes
      <4> QED
        BY <4>1
    <3> QED
      BY <3>1, <3>2
  <2> QED
    BY <1>1, <2>1, <2>2, <2>3
<1>10. CASE TakeBatch \/ LambdaEnds
  BY <1>0, <1>10 DEF TakeBatch, LambdaEnds, history, CleanInv, StreamInv
<1>11. CASE Seal \/ Promote \/ FeedRoom \/ Spawn
  BY <1>0, <1>11 DEF Seal, Promote, FeedRoom, Spawn, history, CleanInv, StreamInv
<1>12. CASE Shutdown
  BY <1>12, ShutdownIsClean
<1>13. CASE UNCHANGED vars
  BY <1>13 DEF vars, memory, history, CleanInv, HoldsRest, Stored, NextOffset, HighestOffset,
               Here
<1> QED
  BY <1>1, <1>2, <1>3, <1>4, <1>5, <1>6, <1>7, <1>8, <1>9, <1>10, <1>11, <1>12, <1>13
  DEF Next, Opening, Working, Crash

-----------------------------------------------------------------------------
(* Why the process ends.                                                   *)

Cause(reason) ==
    \/ reason \in {"none", "killed"}
    \/ reason \in {"misaligned", "truncated", "no_capacity"} /\ crashed
    \/ reason = "out_of_order" /\ Repeated
    \/ reason = "not_open" /\ starts > 1

CauseInv ==
    /\ at # "down" => failure = "none" /\ (clean \/ crashed)
    /\ Cause(failure)

LEMMA DivisionOfOffset ==
  ASSUME NEW m \in Nat, NEW a \in Nat, a < DonutCapacity
  PROVE  (m * DonutCapacity + a) \div DonutCapacity = m
BY CapacityIs, Z3

LEMMA RepeatsInLog ==
  ASSUME log \in Seq(Items), NEW m \in Nat, NEW o \in Nat, o = m * DonutCapacity,
         o <= Len(log), Repeats(Portion(log, o))
  PROVE  Repeated
<1> DEFINE p == Portion(log, o)
<1>1. /\ p \in Seq(Items) /\ Len(p) = Lesser(DonutCapacity, Len(log) - o)
      /\ \A i \in 1 .. Len(p) : p[i] = log[o + i]
      /\ Len(log) \in Nat
  BY PortionIs, LenProperties
<1>2. PICK i \in 1 .. Len(p), j \in 1 .. Len(p) : i < j /\ p[i] = p[j] /\ p[i] # NoHash
  BY DEF Repeats
<1> HIDE DEF p
<1>3. ASSUME NEW k \in 1 .. Len(p)
      PROVE  o + k \in 1 .. Len(log) /\ ((o + k) - 1) \div DonutCapacity = m
  <2>1. /\ o + k \in 1 .. Len(log) /\ k - 1 \in Nat /\ k - 1 < DonutCapacity
        /\ (o + k) - 1 = o + (k - 1)
    BY <1>1, CapacityIs DEF Lesser
  <2>2. (m * DonutCapacity + (k - 1)) \div DonutCapacity = m
    BY <2>1, DivisionOfOffset
  <2> QED
    BY <2>1, <2>2
<1>4. PICK a, b : a = o + i /\ b = o + j
  OBVIOUS
<1>5. a \in 1 .. Len(log) /\ b \in 1 .. Len(log) /\ a < b
  BY <1>1, <1>2, <1>3, <1>4
<1>6. log[a] = log[b] /\ log[a] # NoHash
  BY <1>1, <1>2, <1>4
<1>7. (a - 1) \div DonutCapacity = (b - 1) \div DonutCapacity
  BY <1>3, <1>4
<1> QED
  BY <1>5, <1>6, <1>7, Zenon DEF Repeated

LEMMA HydrationErrorHasCause ==
  ASSUME FoldersInv, DataInv, TornInv, TruncatedInv, at # "down", NEW o \in DOMAIN disk
  PROVE  Cause(HydrationError(disk[o]))
<1>0. FilesInv /\ ItemsInv
  BY DEF DataInv
<1>1. HydrationError(disk[o]) = "misaligned" => crashed
  BY DEF HydrationError, TornInv
<1>2. HydrationError(disk[o]) = "truncated" => crashed
  BY DEF HydrationError, TruncatedInv
<1>3. HydrationError(disk[o]) = "out_of_order" => Repeated
  <2> SUFFICES ASSUME HydrationError(disk[o]) = "out_of_order" PROVE Repeated
    OBVIOUS
  <2>1. PICK f : f = disk[o]
    OBVIOUS
  <2>2. OutOfOrder(f)
    BY <2>1 DEF HydrationError
  <2>3. /\ log \in Seq(Items) /\ o \in Nat /\ o <= Len(log)
        /\ Describes(f.order.cells, f.suffixes.cells, Portion(log, o))
    BY <1>0, <2>1, OffsetsInUse DEF FilesInv, ItemsInv, Tells
  <2>4. PICK m \in Nat : o = m * DonutCapacity
    <3>1. PICK k \in 0 .. Fanout : CountInv(k)
      BY DEF FoldersInv
    <3>2. o \in Offsets(k + 1) \/ o \in Offsets(k)
      BY <3>1 DEF CountInv
    <3>3. k \in Nat
      BY FanoutIsNat
    <3> QED
      BY <3>2, <3>3 DEF Offsets
  <2> DEFINE p == Portion(log, o)
  <2>5. p \in Seq(Items) /\ Describes(f.order.cells, f.suffixes.cells, p)
    BY <2>3, PortionIs
  <2> HIDE DEF p
  <2>6. Repeats(p)
    BY <2>2, <2>5, OffIfRepeated
  <2> QED
    BY <2>3, <2>4, <2>6, RepeatsInLog DEF p
<1> QED
  BY <1>1, <1>2, <1>3, HydrationErrorsAreOthers DEF Cause

LEMMA CauseNext ==
  /\ FoldersInv /\ RoomIsAccepted' /\ DataInv /\ TornInv /\ TruncatedInv
  /\ StartsInv /\ CleanInv /\ CauseInv /\ [Next]_vars
  => CauseInv'
<1> SUFFICES ASSUME FoldersInv, RoomIsAccepted', DataInv, TornInv, TruncatedInv, StartsInv,
                    CleanInv, CauseInv, [Next]_vars
             PROVE  CauseInv'
  OBVIOUS
<1>1. ASSUME NEW reason, Fail(reason), Cause(reason)
      PROVE  CauseInv'
  <2>1. at' = "down" /\ failure' = reason /\ UNCHANGED << crashed, log, starts >>
    BY <1>1 DEF Fail, MemoryLost
  <2> QED
    BY <1>1, <2>1 DEF CauseInv, Cause, Repeated
<1>2. CASE at # "down" /\ UNCHANGED << failure, clean, crashed >>
  BY <1>2 DEF CauseInv, Cause
<1>3. CASE Start
  <2>1. failure' = "none" /\ (clean' \/ crashed')
    BY <1>3 DEF Start
  <2> QED
    BY <2>1 DEF CauseInv, Cause
<1>4. CASE HydrateHatchling
  <2>1. at # "down" /\ Here \in DOMAIN disk
    BY <1>4 DEF HydrateHatchling
  <2>2. Cause(HydrationError(disk[Here]))
    BY <2>1, HydrationErrorHasCause
  <2>3. Fail(HydrationError(disk[Here])) \/ UNCHANGED << failure, clean, crashed >>
    BY <1>4 DEF HydrateHatchling, history
  <2> QED
    BY <1>1, <1>2, <2>1, <2>2, <2>3
<1>5. CASE HydrateRoom
  <2>1. \A o \in RoomOffsets : Cause(HydrationError(disk[o]))
    BY <1>5, HydrationErrorHasCause DEF HydrateRoom, RoomOffsets
  <2>2. ~Fail("too_many_folders") /\ ~Fail("not_filled")
    BY DEF RoomIsAccepted, Fail
  <2>3. \/ \E o \in RoomOffsets : Fail(HydrationError(disk[o]))
        \/ at # "down" /\ UNCHANGED << failure, clean, crashed >>
    BY <1>5, <2>2 DEF HydrateRoom, history
  <2> QED
    BY <1>1, <1>2, <2>1, <2>3
<1>6. CASE Ready
  <2>1. CASE RemainingCapacity(hatchling) = 0 /\ Fail("no_capacity")
    <3>1. Len(hatchling.forward) \in Nat /\ DonutCapacity - Len(hatchling.forward) = 0
      BY <2>1, LenProperties DEF RemainingCapacity, DataInv, ItemsInv
    <3>2. ~(Len(hatchling.forward) < DonutCapacity)
      BY <3>1, CapacityIs
    <3>3. at = "check" /\ starting
      BY <1>6 DEF Ready, FoldersInv, StreamInv
    <3>4. crashed
      BY <3>2, <3>3 DEF CleanInv, CauseInv
    <3>5. Cause("no_capacity")
      BY <3>4 DEF Cause
    <3> QED
      BY <1>1, <2>1, <3>5
  <2> QED
    BY <1>2, <1>6, <2>1 DEF Ready
<1>7. CASE AppendHashes
  <2>1. open_files # Files => Cause("not_open")
    BY <1>7 DEF AppendHashes, StartsInv, Cause
  <2>2. \/ open_files # Files /\ Fail("not_open")
        \/ at # "down" /\ UNCHANGED << failure, clean, crashed >>
    BY <1>7 DEF AppendHashes
  <2> QED
    BY <1>1, <1>2, <2>1, <2>2
<1>8. CASE Crash
  <2>1. Cause("killed")
    BY DEF Cause
  <2> QED
    BY <1>1, <1>8, <2>1 DEF Crash
<1>9. CASE Shutdown
  <2>1. at' = "down" /\ failure' = "none"
    BY <1>9 DEF Shutdown, MemoryLost, CauseInv
  <2> QED
    BY <2>1 DEF CauseInv, Cause
<1>10. CASE \/ MakeFolder \/ CreateOrder \/ CreateSuffixes \/ TakeBatch \/ Seal \/ Promote
            \/ FeedRoom \/ Spawn \/ LambdaEnds
  BY <1>2, <1>10 DEF MakeFolder, CreateOrder, CreateSuffixes, TakeBatch, Seal, Promote,
                     FeedRoom, Spawn, LambdaEnds, history
<1>11. CASE UNCHANGED vars
  <2>1. UNCHANGED << at, failure, clean, crashed, log, starts >>
    BY <1>11 DEF vars, history
  <2> QED
    BY <2>1 DEF CauseInv, Cause, Repeated
<1> QED
  BY <1>3, <1>4, <1>5, <1>6, <1>7, <1>8, <1>9, <1>10, <1>11 DEF Next, Opening, Working

\* The invariants about what happened before.
PastInv == TornInv /\ TruncatedInv /\ BareInv /\ StartsInv /\ CleanInv /\ CauseInv

LEMMA PastInit == Init => PastInv
<1> SUFFICES ASSUME Init PROVE PastInv
  OBVIOUS
<1>1. TornInv /\ TruncatedInv /\ BareInv
  BY DEF Init, TornInv, TruncatedInv, BareInv
<1>2. StartsInv /\ CauseInv
  BY DEF Init, StartsInv, CauseInv, Cause
<1> QED
  BY <1>1, <1>2, CleanInit DEF PastInv

LEMMA PastNext ==
  /\ FoldersInv /\ RoomIsAccepted /\ MisalignedAfterCrash /\ DataInv /\ PastInv /\ [Next]_vars
  => PastInv'
BY RoomIsAcceptedNext, TornNext, TruncatedNext, BareNext, StartsNext, CleanNext, CauseNext
DEF PastInv

\* How the files look when a start reads them tells what happened before:
\* half an entry or too few suffixes, that a process was killed; a donut that
\* has entries, that the store is open for a second time.
THEOREM PastIsRemembered == Spec => []PastInv
<1>1. Init => PastInv
  BY PastInit
<1>2. FoldersInv /\ RoomIsAccepted /\ MisalignedAfterCrash /\ DataInv /\ PastInv /\ [Next]_vars
        => PastInv'
  BY PastNext
<1> QED
  BY <1>1, <1>2, FoldersStayInOrder, RoomIsAlwaysAccepted, MisalignedOnlyAfterCrash,
     DataStaysInStep, PTL DEF Spec

\* Hydration throws (ingester_evolver_types.hpp:233-236, :270-274) only after a
\* crash, indices are out of order (:266-268) only if a donut has a hash twice,
\* and the room is never refused.
THEOREM FailuresHaveCauses == Spec => []FailureHasCause
<1>1. PastInv => FailureHasCause
  BY DEF PastInv, CauseInv, Cause, FailureHasCause
<1> QED
  BY <1>1, PastIsRemembered, PTL

LEMMA ReadyKeepsLog ==
  ASSUME FoldersInv, DataInv, CleanInv, at = "check", at' = "idle", [Next]_vars
  PROVE  /\ clean => log' = log
         /\ \A o \in DOMAIN disk : disk[o].st01 => Len(log') >= o + DonutCapacity
<1>1. Ready
  <2>1. at' # at
    OBVIOUS
  <2> QED
    BY <2>1 DEF Next, Opening, Working, vars, Start, HydrateHatchling, MakeFolder, CreateOrder,
         CreateSuffixes, HydrateRoom, TakeBatch, AppendHashes, Seal, Promote, FeedRoom,
         Spawn, LambdaEnds, Shutdown, Crash, Fail, MemoryLost
<1>2. /\ log' = SubSeq(log, 1, NextOffset(hatchling)) /\ disk' = disk
  BY <1>1 DEF Ready, Fail, MemoryLost
<1>3. clean => log' = log
  <2>1. starting /\ log \in Seq(Items)
    BY DEF FoldersInv, StreamInv, DataInv, ItemsInv
  <2>2. clean => NextOffset(hatchling) = Len(log)
    BY <2>1 DEF CleanInv
  <2>3. SubSeq(log, 1, Len(log)) = log
    BY <2>1, SubSeqFull
  <2> QED
    BY <1>2, <2>2, <2>3
<1>4. FilesInv' /\ ItemsInv' /\ \A o \in DOMAIN disk : o \in Nat
  BY <1>1, ReadyKeepsData, OffsetsInUse DEF DataInv
<1>5. ASSUME NEW o \in DOMAIN disk, disk[o].st01
      PROVE  Len(log') >= o + DonutCapacity
  <2>1. o + DonutCapacity <= Len(log')
    BY <1>2, <1>4, <1>5 DEF FilesInv, TellsAll
  <2>2. Len(log') \in Nat /\ o + DonutCapacity \in Nat
    BY <1>4, LenProperties, CapacityIs DEF ItemsInv
  <2> QED
    BY <2>1, <2>2
<1> QED
  BY <1>3, <1>5

\* A start after a shutdown (~FilesManifestDummy flushes the streams) finds
\* everything that was fed; a start after a crash loses no item of a donut
\* that was filled (ingester_tier_folder.hpp:56-108).
THEOREM RestartsKeepLog == Spec => RestartKeepsLog
<1>1. FoldersInv /\ DataInv /\ PastInv /\ [Next]_vars
         => [at = "check" /\ at' = "idle" =>
                /\ clean => log' = log
                /\ \A o \in DOMAIN disk : disk[o].st01 => Len(log') >= o + DonutCapacity]_vars
  BY ReadyKeepsLog DEF PastInv
<1> QED
  BY <1>1, FoldersStayInOrder, DataStaysInStep, PastIsRemembered, PTL DEF Spec, RestartKeepsLog

=============================================================================

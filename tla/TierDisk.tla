------------------------------- MODULE TierDisk -------------------------------
(***************************************************************************)
(* The ingester tier on disk.  The tier's folder has one object folder for *)
(* each donut, named after its first index; the one with the highest index *)
(* is the hatchling, the others are in the buffer room.  The worker makes  *)
(* folders and files one after the other and writes through two buffered   *)
(* streams; a shutdown flushes them, a crash of the process leaves any     *)
(* part of what they hold.  A start hydrates what it finds.                *)
(*                                                                         *)
(* How much of an open stream has reached the file matters only when the   *)
(* process ends, so it is decided there: until then `disk' has what is     *)
(* certain, and `pending' the rest.                                        *)
(***************************************************************************)
EXTENDS DonutFiles

CONSTANTS
    Fanout,     \* tier_fanout: what the buffer room holds
    MaxBatch,   \* BOUND: the items the worker is sent at once
    MaxItems,   \* BOUND: the items ever fed
    MaxStarts   \* BOUND: how often the store is opened

ASSUME DiskBoundsAssumption ==
    /\ Fanout \in Nat \ {0}
    /\ MaxBatch \in Nat
    /\ MaxItems \in Nat
    /\ MaxStarts \in Nat

VARIABLES
    disk,       \* from the offsets of the object folders to what they hold
    hatchling,  \* hatchling_
    room,       \* the donuts in buffer_room_
    batch,      \* the ram buffer the worker's lambda was given
    open_files, \* open_files_by_handle_ of the hatchling's manifest
    pending,    \* what the hatchling's streams have not written through
    at,         \* what the process does next
    starting,   \* whether the store is being opened
    failure,    \* what ended the process last, "none" if nothing did
    clean,      \* history: the last process was shut down
    crashed,    \* history: a process before this one was not
    log,        \* history: the items in the tier, in order
    starts      \* how often the store was opened

memory == << hatchling, room, batch, open_files, pending >>

history == << failure, clean, crashed, log, starts >>

vars == << disk, memory, at, starting, history >>

Files == {"order", "suffixes"}

NoPending == [f \in Files |-> << >>]

NewFolder == [st00 |-> FALSE, st01 |-> FALSE, order |-> NoFile, suffixes |-> NoFile]

Here == hatchling.first

Init ==
    /\ disk = [o \in {} |-> NewFolder]
    /\ hatchling = NewDonut(0)
    /\ room = << >>
    /\ batch = << >>
    /\ open_files = {}
    /\ pending = NoPending
    /\ at = "down"
    /\ starting = FALSE
    /\ failure = "none"
    /\ clean = TRUE
    /\ crashed = FALSE
    /\ log = << >>
    /\ starts = 0

-----------------------------------------------------------------------------
\* The end of the process

Extended(file, cells, torn) ==
    [there |-> file.there, cells |-> file.cells \o cells, torn |-> file.torn \/ torn]

\* The disk with more at the end of the hatchling's files.
Written(order, suffixes, torn) ==
    [o \in DOMAIN disk |->
        IF o = Here
        THEN [disk[o] EXCEPT !.order    = Extended(disk[o].order, order, torn),
                             !.suffixes = Extended(disk[o].suffixes, suffixes, FALSE)]
        ELSE disk[o]]

\* Fault: the streams are dropped.
Unflushed == disk

\* Everything pending is in the files.
Flushed == Written(pending["order"], pending["suffixes"], FALSE)

\* Some of what is pending is in the files; the cell after it may be there
\* in part, unless it is the header, which is one byte.  A part of a suffix
\* reads like none.
Survives(disk_) ==
    \E i \in 0 .. Len(pending["order"]), k \in 0 .. Len(pending["suffixes"]) :
        \E torn \in BOOLEAN :
            /\ torn => i < Len(pending["order"]) /\ (i > 0 \/ disk[Here].order.cells # << >>)
            /\ disk_ = Written(SubSeq(pending["order"], 1, i),
                               SubSeq(pending["suffixes"], 1, k), torn)

MemoryLost ==
    /\ hatchling' = NewDonut(0)
    /\ room' = << >>
    /\ batch' = << >>
    /\ open_files' = {}
    /\ pending' = NoPending
    /\ at' = "down"
    /\ starting' = FALSE

\* A failed assertion, or an exception: thrown in the worker thread it ends
\* the process, thrown in the constructor nobody in this code catches it.
Fail(reason) ==
    /\ MemoryLost
    /\ Survives(disk')
    /\ failure' = reason
    /\ clean' = FALSE
    /\ UNCHANGED << crashed, log, starts >>

Crash ==
    /\ at # "down"
    /\ Fail("killed")

\* ~Ingester between two lambdas, and then ~FilesManifestDummy.
Shutdown ==
    /\ at = "idle"
    /\ MemoryLost
    /\ disk' = Flushed
    /\ clean' = TRUE
    /\ UNCHANGED << failure, crashed, log, starts >>

-----------------------------------------------------------------------------
\* Opening a donut: at startup and when the next hatchling is made

HighestOffset == CHOOSE o \in DOMAIN disk : \A p \in DOMAIN disk : p <= o

Start ==
    /\ at = "down"
    /\ starts < MaxStarts
    /\ starts' = starts + 1
    /\ hatchling' = NewDonut(IF DOMAIN disk = {} THEN 0 ELSE HighestOffset)
    /\ at' = "hatch"
    /\ starting' = TRUE
    /\ failure' = "none"
    /\ crashed' = (crashed \/ ~clean)
    /\ UNCHANGED << disk, room, batch, open_files, pending, clean, log >>

Opened == IF starting THEN "room" ELSE "append"

\* The folder of the donut is there: hydrate.  The manifest knows the files
\* but does not open them.
HydrateHatchling ==
    /\ at = "hatch"
    /\ Here \in DOMAIN disk
    /\ disk[Here].st00
    /\ LET error == HydrationError(disk[Here])
       IN  \/ error # "none" /\ Fail(error)
           \/ /\ error = "none"
              /\ hatchling' = Hydrated(Here, disk[Here])
              /\ at' = Opened
              /\ UNCHANGED << disk, room, batch, open_files, pending,
                              starting, history >>

\* It is not: create_directories makes it and the folder in it, ...
MakeFolder ==
    /\ at = "hatch"
    /\ IF Here \notin DOMAIN disk
       THEN /\ disk' = [o \in DOMAIN disk \cup {Here} |->
                           IF o = Here THEN NewFolder ELSE disk[o]]
            /\ at' = "hatch"
       ELSE /\ ~disk[Here].st00
            /\ disk' = [disk EXCEPT ![Here].st00 = TRUE]
            /\ at' = "create_order"
    /\ UNCHANGED << memory, starting, history >>

\* ... the files are created in it, which did not exist ...
CreateOrder ==
    /\ at = "create_order"
    /\ disk' = [disk EXCEPT ![Here].order = EmptyFile]
    /\ open_files' = {"order"}
    /\ at' = "create_suffixes"
    /\ UNCHANGED << hatchling, room, batch, pending, starting, history >>

\* ... and the header is written.
CreateSuffixes ==
    /\ at = "create_suffixes"
    /\ disk' = [disk EXCEPT ![Here].suffixes = EmptyFile]
    /\ open_files' = Files
    /\ pending' = [pending EXCEPT !["order"] = << Header >>]
    /\ at' = Opened
    /\ UNCHANGED << hatchling, room, batch, starting, history >>

RoomOffsets == DOMAIN disk \ {HighestOffset}

NthOffset(i) ==
    CHOOSE o \in RoomOffsets : Cardinality({p \in RoomOffsets : p < o}) = i - 1

\* hydrate_buffer_room
HydrateRoom ==
    /\ at = "room"
    /\ \/ /\ Cardinality(DOMAIN disk) > Fanout + 1
          /\ Fail("too_many_folders")
       \/ /\ Cardinality(DOMAIN disk) <= Fanout + 1
          /\ \E o \in RoomOffsets :
                /\ \A p \in RoomOffsets :
                      p < o => HydrationError(disk[p]) = "none" /\ disk[p].st01
                /\ \/ HydrationError(disk[o]) # "none" /\ Fail(HydrationError(disk[o]))
                   \/ HydrationError(disk[o]) = "none" /\ ~disk[o].st01 /\ Fail("not_filled")
       \/ /\ Cardinality(DOMAIN disk) <= Fanout + 1
          /\ \A o \in RoomOffsets : HydrationError(disk[o]) = "none" /\ disk[o].st01
          /\ room' = [i \in 1 .. Cardinality(RoomOffsets) |->
                         Hydrated(NthOffset(i), disk[NthOffset(i)])]
          /\ at' = "check"
          /\ UNCHANGED << disk, hatchling, batch, open_files, pending,
                          starting, history >>

\* The constructor of IngesterBuffer asserts that there is capacity; then
\* the worker starts.  From here on the log is what was hydrated.
Ready ==
    /\ at = "check"
    /\ \/ RemainingCapacity(hatchling) = 0 /\ Fail("no_capacity")
       \/ /\ RemainingCapacity(hatchling) > 0
          /\ at' = "idle"
          /\ starting' = FALSE
          /\ log' = SubSeq(log, 1, NextOffset(hatchling))
          /\ UNCHANGED << disk, memory, failure, clean, crashed, starts >>

-----------------------------------------------------------------------------
\* The worker

Batches == UNION {[1 .. n -> Items] : n \in 1 .. MaxBatch}

TakeBatch ==
    /\ at = "idle"
    /\ \E b \in Batches :
          /\ Len(log) + Len(b) <= MaxItems
          /\ batch' = b
    /\ at' = "append"
    /\ UNCHANGED << disk, hatchling, room, open_files, pending, starting, history >>

Taking ==
    IF Len(batch) < RemainingCapacity(hatchling) THEN Len(batch)
                                                 ELSE RemainingCapacity(hatchling)

\* append_hashes and the erase after it.
AppendHashes ==
    LET taken == SubSeq(batch, 1, Taking)
    IN  /\ at = "append"
        /\ batch # << >>
        /\ \/ open_files # Files /\ Fail("not_open")
           \/ /\ open_files = Files
              /\ pending' = [order    |-> pending["order"] \o OrderCells(hatchling, taken),
                             suffixes |-> pending["suffixes"] \o SuffixCells(hatchling, taken)]
              /\ hatchling' = Appended(hatchling, taken)
              /\ batch' = SubSeq(batch, Taking + 1, Len(batch))
              /\ log' = log \o taken
              /\ at' = IF RemainingCapacity(hatchling') = 0 THEN "seal" ELSE "append"
              /\ UNCHANGED << disk, room, open_files, starting, failure,
                              clean, crashed, starts >>

\* Close both files and seal the manifest.
Seal ==
    /\ at = "seal"
    /\ disk' = Flushed
    /\ pending' = NoPending
    /\ open_files' = {}
    /\ at' = "promote"
    /\ UNCHANGED << hatchling, room, batch, starting, history >>

\* Fault: the folder is not made.
NotMade(f) == f

Made(f) == [f EXCEPT !.st01 = TRUE]

\* The hatchling becomes an ST01.  `hatchling' stands for what was moved out of
\* it until another takes its place; here that is the donut on its way, ...
Promote ==
    /\ at = "promote"
    /\ disk' = [disk EXCEPT ![Here] = Made(@)]
    /\ at' = "feed"
    /\ UNCHANGED << memory, starting, history >>

\* ... waits for a place in the room, ...
FeedRoom ==
    /\ at = "feed"
    /\ Len(room) < Fanout
    /\ room' = Append(room, hatchling)
    /\ at' = "spawn"
    /\ UNCHANGED << disk, hatchling, batch, open_files, pending,
                    starting, history >>

\* Fault: the offset counts donuts, not items.
OffsetByDonuts == hatchling.first + 1

NewOffset == hatchling.first + DonutCapacity

\* ... and another hatchling is made.
Spawn ==
    /\ at = "spawn"
    /\ hatchling' = NewDonut(NewOffset)
    /\ at' = "hatch"
    /\ UNCHANGED << disk, room, batch, open_files, pending, starting, history >>

\* The lambda ends.  If a flush was asked for, flush_manifest_to_disk() is
\* called, which does nothing.
LambdaEnds ==
    /\ at = "append"
    /\ batch = << >>
    /\ at' = "idle"
    /\ UNCHANGED << disk, hatchling, room, batch, open_files, pending, starting,
                    failure, clean, crashed, log, starts >>

Opening ==
    \/ Start
    \/ HydrateHatchling
    \/ MakeFolder
    \/ CreateOrder
    \/ CreateSuffixes
    \/ HydrateRoom
    \/ Ready

Working ==
    \/ TakeBatch
    \/ AppendHashes
    \/ Seal
    \/ Promote
    \/ FeedRoom
    \/ Spawn
    \/ LambdaEnds

Next == Opening \/ Working \/ Shutdown \/ Crash

Spec == Init /\ [][Next]_vars

-----------------------------------------------------------------------------
\* Safety

Running == at # "down" /\ ~starting

InMemory == at = "check" \/ Running

\* d holds the items the log has from d's first index on.
Holds(d) ==
    /\ NextOffset(d) <= Len(log)
    /\ \A i \in 1 .. Len(d.forward) : d.forward[i] = log[d.first + i]

RoomEnd == Len(room) * DonutCapacity

\* Whatever was started, crashed and hydrated before: the donuts in memory
\* are full and contiguous but for the last, hold what was fed under their
\* indices, and while the store runs they hold all of it.
MemoryHoldsLog ==
    InMemory =>
        /\ \A i \in DOMAIN room :
              /\ room[i].first = (i - 1) * DonutCapacity
              /\ Len(room[i].forward) = DonutCapacity
              /\ Holds(room[i])
        /\ Holds(hatchling)
        /\ hatchling.first = (IF at = "spawn" THEN RoomEnd - DonutCapacity ELSE RoomEnd)
        /\ Running => NextOffset(hatchling) = Len(log)

\* Each map, extended by appends or rebuilt by hydration, leads each hash of
\* its donut to the first place it has there, and knows no other hash.
ReverseFindsFirst ==
    InMemory =>
        \A d \in {hatchling} \cup {room[i] : i \in DOMAIN room} :
            d.reverse = ReverseFrom(d.forward)

\* Hydration undoes appending, duplicates or not: what the files of a filled
\* donut hold, and what those of the hatchling will hold when its streams are
\* flushed, is read back as what was appended.
FilesHoldLog ==
    /\ \A o \in DOMAIN disk :
          disk[o].st01 =>
              ForwardFrom(disk[o].order, disk[o].suffixes)
                  = SubSeq(log, o + 1, o + DonutCapacity)
    /\ Running /\ open_files = Files =>
          ForwardFrom(Flushed[Here].order, Flushed[Here].suffixes) = hatchling.forward

\* "BufferRoom on disk should only hold Ingester_ST01_FilledDonut's"
\* (ingester_tier_folder.hpp:106) and "as a maximum contain IngestorFanout+1
\* entries" (line 91): at any moment, and so at any crash, every object
\* folder but the last holds a whole donut, they are contiguous, and there are
\* no more of them than the next start accepts.
OnlyLastFolderIsUnfilled ==
    /\ Cardinality(DOMAIN disk) <= Fanout + 1
    /\ DOMAIN disk = {i * DonutCapacity : i \in 0 .. Cardinality(DOMAIN disk) - 1}
    /\ \A o \in DOMAIN disk :
          (\E p \in DOMAIN disk : o < p) =>
              /\ disk[o].st01
              /\ Len(disk[o].order.cells) = DonutCapacity + 1
              /\ ~disk[o].order.torn

\* A hash was fed to a donut again.
Repeated ==
    \E i, j \in 1 .. Len(log) :
        i < j /\ log[i] = log[j] /\ log[i] # NoHash
             /\ (i - 1) \div DonutCapacity = (j - 1) \div DonutCapacity

\* What a start refuses has a cause: files out of step with each other or with
\* themselves are what an earlier crash left, indices out of order come from
\* a hash that one donut was fed twice; and the room is never refused, for too
\* many folders or for one that is not filled.
FailureHasCause ==
    /\ failure \in {"misaligned", "truncated"} => crashed
    /\ failure = "out_of_order" => Repeated
    /\ failure \notin {"too_many_folders", "not_filled"}

\* "We should always find some downstream capacity at startup"
\* (ingester_buffer.hpp:30) and "Open two files and be ready to append to them"
\* (ingester_evolver_types.hpp:83): a store whose files hydrate takes what it is
\* then fed, whatever ended the process before.
StartedStoreTakesItems == failure \notin {"no_capacity", "not_open"}

\* A start after a shutdown finds everything, a start after a crash finds
\* at least the donuts that were filled.
RestartKeepsLog ==
    [][ at = "check" /\ at' = "idle" =>
           /\ clean => log' = log
           /\ \A o \in DOMAIN disk : disk[o].st01 => Len(log') >= o + DonutCapacity ]_vars

\* "Suffix records must be in strictly sequential order"
\* (ingester_evolver_types.hpp:266), asserted when they are read.
SuffixIndicesAreSequential == failure # "out_of_order"

=============================================================================

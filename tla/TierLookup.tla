------------------------------ MODULE TierLookup ------------------------------
(***************************************************************************)
(* Lookups and offsets of the ingester, asked while its worker moves items *)
(* from the buffer to the hatchling and from there to the buffer room, and *)
(* while the tier below discards the room: lookupable_buffer_room.hpp and  *)
(* the lookup parts of ingester_buffer.hpp and ingester_tier_folder.hpp.   *)
(*                                                                         *)
(* with_current_contents is one step here: BufferRoom shows that a view    *)
(* does not change while it is looked at.  A question that takes several   *)
(* views, or reads without a lock, takes several steps.  The worker's      *)
(* lambda runs under the buffer's mutex; the offsets are read without it.  *)
(***************************************************************************)
EXTENDS Naturals, Sequences, FiniteSets

CONSTANTS
    Hashes,         \* hash values
    NoHash,         \* an optional without a value
    DonutCapacity,  \* ingester_donut_capacity
    Fanout,         \* tier_fanout
    MaxBlock,       \* bound: items of a block
    MaxFed          \* bound: items fed

ASSUME SizesArePositive == DonutCapacity \in Nat \ {0} /\ Fanout \in Nat \ {0}

ASSUME BoundsAreNumbers == MaxBlock \in Nat /\ MaxFed \in Nat

ASSUME NoHashIsNoHash == NoHash \notin Hashes

VARIABLES
    fed,              \* every item ever fed, in order
    buffer,           \* buffer_
    first_global_pi,  \* first_global_pi_ of the buffer
    hatchling,        \* hatchling_
    room,             \* the donuts of buffer_room_, oldest first
    is_discarding,    \* is_discarding_ of the room
    worker,           \* where the worker is, and what it holds
    call              \* the question that is being asked

vars == <<fed, buffer, first_global_pi, hatchling, room, is_discarding, worker, call>>

-----------------------------------------------------------------------------
Donut(first, items) == [first |-> first, items |-> items]

next_offset(d)     == d.first + Len(d.items)
contains_pi(d, pi) == pi >= d.first /\ pi < next_offset(d)

remaining_capacity == DonutCapacity - Len(hatchling.items)

NoMatch == MaxFed + DonutCapacity * Fanout   \* beyond every offset
Failed  == "an assertion failed"

\* Where the first item h of d is.
reverse_lookup(d, h) ==
    d.first + CHOOSE i \in 0 .. Len(d.items) - 1 :
                  d.items[i + 1] = h /\ \A j \in 1 .. i : d.items[j] # h

Holds(d, h) == h \in {d.items[i] : i \in DOMAIN d.items}

Idle  == [op |-> "none", arg |-> NoHash, at |-> "idle"]

\* A question, what the client could have known when it began, and whether a
\* discard or the worker's lambda was under way at any time since.
Question(op, arg, at, low, high) ==
    [op |-> op, arg |-> arg, at |-> at, low |-> low, high |-> high, read |-> 0,
     value |-> NoHash, discarded |-> is_discarding, consumed |-> worker.at # "wait"]

Answer(value) == call' = [call EXCEPT !.at = "done", !.value = value]

Waiting == [at |-> "wait", sent |-> 0, donut |-> Donut(0, << >>)]

Init ==
    /\ fed = << >> /\ buffer = << >>
    /\ first_global_pi = 0
    /\ hatchling = Donut(0, << >>)
    /\ room = << >>
    /\ is_discarding = FALSE
    /\ worker = Waiting
    /\ call = Idle

-----------------------------------------------------------------------------
\* The clients' feed and the worker, as far as lookups can see them.

feed_block_of_hashes ==
    /\ worker.at = "wait"
    /\ Len(buffer) < remaining_capacity
    /\ \E k \in 1 .. MaxBlock : \E block \in [1 .. k -> Hashes \cup {NoHash}] :
           /\ Len(fed) + k <= MaxFed
           /\ fed' = fed \o block
           /\ buffer' = buffer \o block
    /\ UNCHANGED <<first_global_pi, hatchling, room, is_discarding, worker, call>>

\* A full batch, or a flush.
begin_lambda ==
    /\ worker.at = "wait"
    /\ buffer # << >>
    /\ worker' = [worker EXCEPT !.at = "append", !.sent = Len(buffer)]
    /\ call' = IF call.at = "idle" THEN call ELSE [call EXCEPT !.consumed = TRUE]
    /\ UNCHANGED <<fed, buffer, first_global_pi, hatchling, room, is_discarding>>

append_hashes ==
    /\ worker.at = "append"
    /\ LET taking == IF Len(buffer) < remaining_capacity THEN Len(buffer) ELSE remaining_capacity
       IN  /\ hatchling' = [hatchling EXCEPT !.items = @ \o SubSeq(buffer, 1, taking)]
           /\ worker' = [worker EXCEPT !.at = "erase", !.donut.items = SubSeq(buffer, 1, taking)]
    /\ UNCHANGED <<fed, buffer, first_global_pi, room, is_discarding, call>>

AfterPromotion(rest) == IF rest = << >> THEN "end" ELSE "append"

\* The consumed items leave the buffer.
erase ==
    /\ worker.at = "erase"
    /\ buffer' = SubSeq(buffer, Len(worker.donut.items) + 1, Len(buffer))
    /\ worker' = [worker EXCEPT !.at = IF remaining_capacity = 0 THEN "move"
                                       ELSE AfterPromotion(buffer')]
    /\ UNCHANGED <<fed, first_global_pi, hatchling, room, is_discarding, call>>

\* promote_hatchling_and_spawn_next: what is moved from is an empty donut.
move_hatchling ==
    /\ worker.at = "move"
    /\ worker' = [worker EXCEPT !.at = "feed", !.donut = hatchling]
    /\ hatchling' = [hatchling EXCEPT !.items = << >>]
    /\ UNCHANGED <<fed, buffer, first_global_pi, room, is_discarding, call>>

Feed ==
    /\ worker.at = "feed"
    /\ Len(room) < Fanout /\ ~is_discarding
    /\ room' = Append(room, worker.donut)
    /\ worker' = [worker EXCEPT !.at = "replace"]
    /\ UNCHANGED <<fed, buffer, first_global_pi, hatchling, is_discarding, call>>

\* Fault: asks the donut that was moved from.
OffsetAfterMove == next_offset(hatchling)

new_offset == worker.donut.first + DonutCapacity

replace_hatchling ==
    /\ worker.at = "replace"
    /\ hatchling' = Donut(new_offset, << >>)
    /\ worker' = [worker EXCEPT !.at = AfterPromotion(buffer)]
    /\ UNCHANGED <<fed, buffer, first_global_pi, room, is_discarding, call>>

\* Fault: counts what is left in the buffer, which is nothing.
FirstPlusRest == first_global_pi + Len(buffer)

first_after_lambda == first_global_pi + worker.sent

end_lambda ==
    /\ worker.at = "end"
    /\ first_global_pi' = first_after_lambda
    /\ worker' = Waiting
    /\ UNCHANGED <<fed, buffer, hatchling, room, is_discarding, call>>

\* The tier below has made its own donut of a full room.
begin_Discard ==
    /\ Len(room) = Fanout /\ ~is_discarding
    /\ is_discarding' = TRUE
    /\ call' = IF call.at = "idle" THEN call ELSE [call EXCEPT !.discarded = TRUE]
    /\ UNCHANGED <<fed, buffer, first_global_pi, hatchling, room, worker>>

end_Discard ==
    /\ is_discarding
    /\ is_discarding' = FALSE
    /\ room' = << >>
    /\ UNCHANGED <<fed, buffer, first_global_pi, hatchling, worker, call>>

-----------------------------------------------------------------------------
\* The questions.  One at a time: a question changes nothing for another.

Asked == UNCHANGED <<fed, buffer, first_global_pi, hatchling, room, is_discarding, worker>>

RoomIsThere == ~is_discarding /\ room # << >>
RoomFirst   == room[1].first
RoomNext    == next_offset(room[Len(room)])

\* forward_lookup of the room.  The caller has made sure that it holds pi.
room_forward_begin ==
    /\ call.at = "idle"
    /\ RoomIsThere
    /\ \E pi \in RoomFirst .. RoomNext - 1 :
           call' = Question("room_forward", pi, "first", 0, 0)
    /\ Asked

\* contains_pi asks the room for first_offset, ...
room_first_offset ==
    /\ call.op = "room_forward" /\ call.at = "first"
    /\ IF RoomIsThere /\ call.arg >= RoomFirst
       THEN call' = [call EXCEPT !.at = "next"] ELSE Answer(Failed)
    /\ Asked

\* ... then for next_offset, which of a room that is discarding is "no match"
\* and so beyond every index, ...
room_next_offset ==
    /\ call.op = "room_forward" /\ call.at = "next"
    /\ IF is_discarding \/ (room # << >> /\ call.arg < RoomNext)
       THEN call' = [call EXCEPT !.at = "search"] ELSE Answer(Failed)
    /\ Asked

\* ... and then the donuts are searched, newest first.
room_search ==
    /\ call.op = "room_forward" /\ call.at = "search"
    /\ LET found == {i \in DOMAIN room : contains_pi(room[i], call.arg)}
       IN  IF is_discarding \/ found = {} THEN Answer(Failed)
           ELSE LET d == room[CHOOSE i \in found : \A j \in found : j <= i]
                IN  Answer(d.items[call.arg - d.first + 1])
    /\ Asked

\* Fault: the newest donut first.
NewestWith(h) ==
    CHOOSE i \in DOMAIN room : Holds(room[i], h) /\ \A j \in i + 1 .. Len(room) : ~Holds(room[j], h)

OldestWith(h) ==
    CHOOSE i \in DOMAIN room : Holds(room[i], h) /\ \A j \in 1 .. i - 1 : ~Holds(room[j], h)

\* reverse_lookup of the room is one view; a room that is discarding has
\* no hash.
room_reverse_lookup ==
    /\ call.at = "idle"
    /\ \E h \in Hashes :
           LET found == ~is_discarding /\ \E i \in DOMAIN room : Holds(room[i], h)
           IN  call' = [Question("room_reverse", h, "done",
                                 IF RoomIsThere THEN RoomFirst ELSE 0,
                                 IF RoomIsThere THEN RoomNext ELSE 0)
                        EXCEPT !.value = IF found THEN reverse_lookup(room[OldestWith(h)], h)
                                                  ELSE NoMatch]
    /\ Asked

\* forward_lookup of the buffer, for an index its offsets have just shown to
\* be there.
buffer_forward_begin ==
    /\ call.at = "idle"
    /\ \E pi \in first_global_pi .. (first_global_pi + Len(buffer)) - 1 :
           call' = Question("buffer_forward", pi, "locked", 0, 0)
    /\ Asked

buffer_forward_lookup ==
    /\ call.op = "buffer_forward" /\ call.at = "locked"
    /\ worker.at = "wait"
    /\ LET d == Donut(first_global_pi, buffer)
       IN  IF contains_pi(d, call.arg) THEN Answer(buffer[call.arg - d.first + 1])
                                       ELSE Answer(Failed)
    /\ Asked

\* next_offset of the buffer, which is the ingester's, or of the hatchling,
\* which is the tier's: a sum of two reads, in either order, without a lock.
OffsetParts(of) ==
    IF of = "ingester" THEN [first |-> first_global_pi, size |-> Len(buffer)]
                       ELSE [first |-> hatchling.first, size |-> Len(hatchling.items)]

next_offset_begin ==
    /\ call.at = "idle"
    /\ \E of \in {"ingester", "tier"}, part \in {"first", "size"} :
           call' = [Question("next_offset", of, part,
                             IF of = "ingester" THEN Len(fed) ELSE Len(fed) - Len(buffer), 0)
                    EXCEPT !.read = OffsetParts(of)[part]]
    /\ Asked

next_offset_end ==
    /\ call.op = "next_offset" /\ call.at \in {"first", "size"}
    /\ \E part \in {"first", "size"} \ {call.at} : Answer(call.read + OffsetParts(call.arg)[part])
    /\ Asked

answered ==
    /\ call.at = "done"
    /\ call' = Idle
    /\ Asked

-----------------------------------------------------------------------------
Next ==
    \/ feed_block_of_hashes \/ begin_lambda \/ append_hashes \/ erase
    \/ move_hatchling \/ Feed \/ replace_hatchling \/ end_lambda
    \/ begin_Discard \/ end_Discard
    \/ room_forward_begin \/ room_first_offset \/ room_next_offset \/ room_search
    \/ room_reverse_lookup \/ buffer_forward_begin \/ buffer_forward_lookup
    \/ next_offset_begin \/ next_offset_end \/ answered

Spec == Init /\ [][Next]_vars

-----------------------------------------------------------------------------
\* What is promised.

\* What a lookup returns is what was fed: an item under its index; the first
\* index of a hash in the room; "no match" only for a hash that is not in
\* the room.  A lookup whose index was there when it was called fails an
\* assertion ("Parent should have checked bounds", "Why wasn't global_pi
\* represented by a child?") only if a discard, or for the buffer a run of
\* the worker's lambda, came between; and only a discard hides a hash.
LookupsAnswerFromLog ==
    call.at = "done" =>
        /\ call.op \in {"room_forward", "buffer_forward"} =>
               \/ call.value = fed[call.arg + 1]
               \/ call.value = Failed /\ call.op = "room_forward" /\ call.discarded
               \/ call.value = Failed /\ call.op = "buffer_forward" /\ call.consumed
        /\ call.op = "room_reverse" =>
               IF call.value = NoMatch
               THEN call.discarded \/ \A pi \in call.low .. call.high - 1 : fed[pi + 1] # call.arg
               ELSE /\ fed[call.value + 1] = call.arg
                    /\ \A pi \in call.low .. call.value - 1 : fed[pi + 1] # call.arg

\* next_offset is where the ingester, or the tier, ended at some moment of
\* the call, unless the worker's lambda ran meanwhile: its steps show a
\* buffer without the items that first_global_pi_ does not count yet, and a
\* hatchling that was moved from.
NextOffsetIsRight ==
    call.at = "done" /\ call.op = "next_offset" /\ ~call.consumed =>
        IF call.arg = "ingester" THEN call.value \in call.low .. Len(fed)
                                 ELSE call.value = call.low

=============================================================================

------------------------------- MODULE Ingester -------------------------------
(***************************************************************************)
(* The Ingester of apps/wedding_cake: an IngesterBuffer, the worker thread *)
(* that empties it, and the tier behind it, which is one hatchling that    *)
(* fills up and a buffer room of full donuts.  Nothing takes donuts out of *)
(* the room in this code base: when it is full the worker blocks in it,    *)
(* holding the buffer's mutex.                                             *)
(*                                                                         *)
(* The buffer's actions are those of IngesterBuffer.  This module says     *)
(* what the lambda does between TakeEnter and TakeLeave, step by step, and *)
(* what the destructor does around stop().  BufferRoom!Feed is one step:   *)
(* the worker is the room's only user.                                     *)
(***************************************************************************)
EXTENDS IngesterBuffer

CONSTANT Fanout  \* tier_fanout: what the buffer room holds

ASSUME FanoutAssumption == Fanout \in Nat

VARIABLES
    hatchling,      \* hatchling_: its first index and its entries
    buffer_room,    \* the donuts in buffer_room_, oldest first
    promoted,       \* promoted_hatchling, while it is on its way to the room
    lambda_at,      \* what the worker's lambda does next
    stop_requested  \* the stop token of the worker thread

tier == << hatchling, buffer_room, promoted, lambda_at >>

ingesterVars == << vars, tier, stop_requested >>

\* A donut holds at most DonutCapacity entries.
Donuts == {d \in [first : Nat, entries : Seq(Items)] : Len(d.entries) <= DonutCapacity}

NewDonut(offset) == [first |-> offset, entries |-> << >>]

RemainingCapacity(d) == DonutCapacity - Len(d.entries)

NextOffset(d) == d.first + Len(d.entries)

\* The tier starts empty.  (With folders of an earlier run on disk the
\* hatchling cannot be appended to.)
IngesterInit ==
    /\ Init
    /\ hatchling = NewDonut(FirstPi)
    /\ buffer_room = << >>
    /\ promoted = << >>
    /\ lambda_at = "append"
    /\ stop_requested = FALSE
    /\ downstream_remaining_capacity_ = RemainingCapacity(hatchling)

-----------------------------------------------------------------------------
\* The worker

\* while (!please_stop.stop_requested())
LoopTop ==
    /\ IF stop_requested THEN TakeNoMore ELSE TakeCall
    /\ UNCHANGED << tier, stop_requested >>

EnterLambda ==
    /\ TakeEnter
    /\ UNCHANGED << tier, stop_requested >>

\* Fault: a block is taken as a whole or not at all.
TakeAll == Len(buffer_)

\* append_hashes takes as many as fit.
Taking ==
    IF Len(buffer_) < RemainingCapacity(hatchling)
    THEN Len(buffer_)
    ELSE RemainingCapacity(hatchling)

HatchlingIsFull == RemainingCapacity(hatchling') = 0

\* erase(begin(), begin() + consumed)
Erased == Taking

\* append_hashes and erase.  Taking nothing breaks the loop.
AppendHashes ==
    /\ lambda_at = "append"
    /\ buffer_ # << >>
    /\ hatchling' = [hatchling EXCEPT !.entries = @ \o SubSeq(buffer_, 1, Taking)]
    /\ Consume(Erased)
    /\ lambda_at' = IF Taking = 0 THEN "return"
                    ELSE IF HatchlingIsFull THEN "promote" ELSE "append"
    /\ UNCHANGED << buffer_room, promoted, stop_requested >>

\* promote_hatchling_and_spawn_next: the hatchling is moved into an ST01,
\* which leaves it without entries, ...
Promote ==
    /\ lambda_at = "promote"
    /\ promoted' = << hatchling >>
    /\ hatchling' = [hatchling EXCEPT !.entries = << >>]
    /\ lambda_at' = "feed"
    /\ UNCHANGED << vars, buffer_room, stop_requested >>

\* ... which waits for a place in the room, ...
FeedRoom ==
    /\ lambda_at = "feed"
    /\ Len(buffer_room) < Fanout
    /\ buffer_room' = buffer_room \o promoted
    /\ promoted' = << >>
    /\ lambda_at' = "spawn"
    /\ UNCHANGED << vars, hatchling, stop_requested >>

\* Fault: the offset of the donut before.
SameOffset == hatchling.first

\* new_offset, computed before the move from the hatchling's folder name.
NewOffset == hatchling.first + DonutCapacity

\* ... and a new hatchling takes its place.
Spawn ==
    /\ lambda_at = "spawn"
    /\ hatchling' = NewDonut(NewOffset)
    /\ lambda_at' = "append"
    /\ UNCHANGED << vars, buffer_room, promoted, stop_requested >>

\* The lambda returns the hatchling's remaining capacity.  The assertions
\* on what it returns, and on the buffer, are WorkerAssertions below.
ReturnFromLambda ==
    /\ \/ lambda_at = "append" /\ buffer_ = << >>
       \/ lambda_at = "return"
    /\ TakeLeave(RemainingCapacity(hatchling))
    /\ lambda_at' = "append"
    /\ UNCHANGED << hatchling, buffer_room, promoted, stop_requested >>

Lambda ==
    \/ AppendHashes
    \/ Promote
    \/ FeedRoom
    \/ Spawn
    \/ ReturnFromLambda

-----------------------------------------------------------------------------
\* The destructor: request_stop(), stop(), join.

\* Fault: the stop token is not set.
TokenForgotten == FALSE

TokenSet == TRUE

RequestStop ==
    /\ StopCall
    /\ stop_requested' = TokenSet
    /\ UNCHANGED tier

Stop ==
    /\ StopSet \/ StopNotify
    /\ UNCHANGED << tier, stop_requested >>

Destroyed == pc[Stopper] = "stopped" /\ pc[Worker] = "exited"

-----------------------------------------------------------------------------

Calls(c) == ClientCalls(c) /\ UNCHANGED << tier, stop_requested >>

Serve(c) == ClientStep(c) /\ UNCHANGED << tier, stop_requested >>

Wake(t) == SpuriousWake(t) /\ UNCHANGED << tier, stop_requested >>

Work == LoopTop \/ EnterLambda \/ (pc[Worker] = "lambda" /\ Lambda)

IngesterNext ==
    \/ \E c \in Clients : Calls(c) \/ Serve(c)
    \/ Work
    \/ RequestStop
    \/ Stop
    \/ \E t \in Threads : Wake(t)

IngesterSpec == IngesterInit /\ [][IngesterNext]_ingesterVars

\* Threads that can run do run, and a destructor that has begun goes on.
\* Nobody has to call anything or to destroy the store, nothing wakes a
\* waiter by chance, and mutex_ is not assumed to be fair: MaxCalls bounds
\* how often it can be taken ahead of a thread.
FairIngesterSpec ==
    /\ IngesterSpec
    /\ \A c \in Clients : WF_ingesterVars(Serve(c))
    /\ WF_ingesterVars(Work)
    /\ WF_ingesterVars(Stop)

-----------------------------------------------------------------------------
\* Safety

\* Every variable of the tier keeps its type.
IngesterTypeOK ==
    /\ hatchling \in Donuts
    /\ buffer_room \in Seq(Donuts)
    /\ promoted \in Seq(Donuts)
    /\ lambda_at \in {"append", "promote", "feed", "spawn", "return"}
    /\ stop_requested \in BOOLEAN

\* d holds the items the log has from d's first index on.
Holds(d, log) ==
    /\ FirstPi <= d.first
    /\ NextOffset(d) <= FirstPi + Len(log)
    /\ \A i \in 1 .. Len(d.entries) : d.entries[i] = log[d.first - FirstPi + i]

\* Every donut, wherever it is, holds exactly the items fed under the
\* indices from its first_offset() on: nothing is lost, repeated or
\* reordered between the buffer, the hatchling and the room.
DonutsHoldWhatWasFed ==
    /\ Holds(hatchling, fed)
    /\ \A i \in DOMAIN buffer_room : Holds(buffer_room[i], fed)
    /\ \A i \in DOMAIN promoted : Holds(promoted[i], fed)

\* The first index after the donuts in the room.
RoomEnd ==
    IF buffer_room = << >> THEN FirstPi ELSE NextOffset(buffer_room[Len(buffer_room)])

\* Donuts in the room and on the way to it are full, each begins where the
\* one before it ends, and the hatchling begins where they end.  What the
\* hatchling lacks is in the buffer.
RangesAreContiguous ==
    /\ \A i \in DOMAIN buffer_room :
          /\ Len(buffer_room[i].entries) = DonutCapacity
          /\ buffer_room[i].first =
                IF i = 1 THEN FirstPi ELSE NextOffset(buffer_room[i - 1])
    /\ CASE lambda_at = "feed" ->
              /\ Len(promoted) = 1
              /\ promoted[1].first = RoomEnd
              /\ Len(promoted[1].entries) = DonutCapacity
              /\ hatchling = NewDonut(promoted[1].first)
              /\ NextOffset(promoted[1]) = FirstPi + Taken
         [] lambda_at = "spawn" ->
              /\ promoted = << >>
              /\ hatchling = NewDonut(RoomEnd - DonutCapacity)
              /\ RoomEnd = FirstPi + Taken
         [] OTHER ->
              /\ promoted = << >>
              /\ hatchling.first = RoomEnd
              /\ NextOffset(hatchling) = FirstPi + Taken

\* The asserts of with_at_least_n_hashes and ingestor_worker: the lambda
\* never gives up before the buffer is empty, and between two lambdas the
\* hatchling has room, as much as the buffer was told.
WorkerAssertions ==
    /\ lambda_at # "return"
    /\ lambda_at = "append" => RemainingCapacity(hatchling) > 0
    /\ lambda_at = "promote" => RemainingCapacity(hatchling) = 0
    /\ ~(pc[Worker] = "lambda") =>
          /\ lambda_at = "append"
          /\ downstream_remaining_capacity_ = RemainingCapacity(hatchling)

\* A flush that waited returns only after what was fed before it is in the
\* hatchling or in a donut, unless the store is being destroyed.
FlushReachesTier ==
    [][ \A c \in Clients :
           (pc[c] \in Flushing /\ pc'[c] = "idle" /\ ~stopping_)
               => FirstPi + mark[c] <= NextOffset(hatchling) ]_ingesterVars

\* The worker's lambda keeps its side of the buffer's contract: together
\* they behave as IngesterBuffer says, for any hatchling.
KeepsBufferContract == Spec

\* The tier's part of the inductive invariant: at every step of the worker, and
\* whenever the store is stopped, the donuts hold what was fed under
\* contiguous indices, and the code's assertions hold.
TierInv ==
    /\ IngesterTypeOK
    /\ DonutsHoldWhatWasFed
    /\ RangesAreContiguous
    /\ WorkerAssertions

\* The inductive invariant of the composition.
IngesterInv ==
    /\ IndInv
    /\ IngesterTypeOK
    /\ DonutsHoldWhatWasFed
    /\ RangesAreContiguous
    /\ WorkerAssertions

-----------------------------------------------------------------------------
\* Liveness, under FairIngesterSpec

\* The worker waits for a place in the room, which nobody will make.
WorkerBlockedByRoom == lambda_at = "feed" /\ Len(buffer_room) = Fanout

\* "65535 * 5 hashes, should block unless there is a tier after ingester
\* tier" (test_hashes_3x16384_b.cpp:271): feeding blocks for good only when
\* the room is full, and so does flushing, whoever else feeds and flushes
\* meanwhile.
CallsReturn ==
    \A c \in Clients :
        pc[c] \in {"feed_lock", "flush_lock"} ~> (pc[c] = "idle" \/ WorkerBlockedByRoom)

\* The destructor comes to its end, unless the room is full.
ShutdownCompletes ==
    pc[Stopper] = "stop_lock" ~> (Destroyed \/ WorkerBlockedByRoom)

=============================================================================

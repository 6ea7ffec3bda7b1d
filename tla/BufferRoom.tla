----------------------------- MODULE BufferRoom -----------------------------
(***************************************************************************)
(* The BufferRoom of libs/evolving_disk_state: a bounded room in which a   *)
(* producer leaves sealed items one by one, a tier worker looks at a full  *)
(* batch, search threads look at whatever is there, and Discard purges the *)
(* batch once the worker has promoted it.                                  *)
(*                                                                         *)
(* Every step below is what one thread does between two points at which    *)
(* another thread can see a difference: acquiring a mutex and evaluating   *)
(* the predicate of a condition variable is one step, because the mutex is *)
(* held throughout; a thread that waits has released the mutex, and a      *)
(* thread that was notified acquires it again before it looks at the       *)
(* predicate a second time.  Items are numbered in the order of arrival.   *)
(***************************************************************************)
EXTENDS Naturals, Sequences, FiniteSets

CONSTANTS
    Producers,   \* threads that call Feed
    Workers,     \* threads that call with_contents_when_filled
    Readers,     \* threads that call with_current_contents
    Discarders,  \* threads that call Discard
    Capacity,    \* the template parameter C
    MaxCalls     \* BOUND: the calls each thread makes

Threads == Producers \cup Workers \cup Readers \cup Discarders

ASSUME CapacityAssumption == Capacity \in Nat \ {0}

ASSUME MaxCallsAssumption == MaxCalls \in Nat

ASSUME RolesAreDisjoint ==
    /\ Producers \cap (Workers \cup Readers \cup Discarders) = {}
    /\ Workers \cap (Readers \cup Discarders) = {}
    /\ Readers \cap Discarders = {}

VARIABLES
    items_,          \* the vector: the numbers of the items it holds
    active_readers_, \* how many readers have registered
    is_discarding_,  \* the flag Discard raises
    state_mutex_,    \* the thread that owns state_mutex_, as a set
    data_shared,     \* the threads that hold data_mutex_ shared
    data_exclusive,  \* the thread that holds data_mutex_ exclusively, as a set
    pc,              \* where each thread is
    view,            \* the span each thread's lambda was given
    arrived,         \* history: how many items ever entered the room
    purged,          \* history: the items whose purge_from_disk() ran
    calls            \* how many calls each thread has made

vars == << items_, active_readers_, is_discarding_, state_mutex_, data_shared,
           data_exclusive, pc, view, arrived, purged, calls >>

Registered == {"view_lock", "lambda", "leave"}

PC == {"idle", "feed_lock", "feed_wait", "feed_data", "take_lock", "take_wait",
       "take_woken", "look_lock", "discard_lock", "discard_wait",
       "discard_woken", "purge_lock", "purge", "clear", "reset"} \cup Registered

RangeOf(s) == {s[i] : i \in DOMAIN s}

Discarding(t) == pc[t] \in {"discard_wait", "discard_woken", "purge_lock",
                            "purge", "clear", "reset"}

-----------------------------------------------------------------------------
\* notify_all() on a condition variable: p with every waiter made runnable.
\* cv_producer_, cv_consumer_, cv_discard_ are the threads at the wait label.
\* Fault: the call to notify_all() is missing.
NotifyNobody(p) == p

WakeProducers(p) ==
    [t \in Threads |-> IF p[t] = "feed_wait" THEN "feed_lock" ELSE p[t]]

WakeConsumers(p) ==
    [t \in Threads |-> IF p[t] = "take_wait" THEN "take_woken" ELSE p[t]]

WakeDiscarders(p) ==
    [t \in Threads |-> IF p[t] = "discard_wait" THEN "discard_woken" ELSE p[t]]

Call(t, label) ==
    /\ pc[t] = "idle"
    /\ calls[t] < MaxCalls
    /\ calls' = [calls EXCEPT ![t] = @ + 1]
    /\ pc' = [pc EXCEPT ![t] = label]
    /\ UNCHANGED << items_, active_readers_, is_discarding_, state_mutex_,
                    data_shared, data_exclusive, view, arrived, purged >>

\* InitializeAdd() runs before any other thread knows the room, so it is part
\* of the initial state: any number of items up to the capacity, above which
\* it throws.
Init ==
    /\ \E k \in 0 .. Capacity :
          /\ items_ = [i \in 1 .. k |-> i]
          /\ arrived = k
    /\ active_readers_ = 0
    /\ is_discarding_ = FALSE
    /\ state_mutex_ = {}
    /\ data_shared = {}
    /\ data_exclusive = {}
    /\ pc = [t \in Threads |-> "idle"]
    /\ view = [t \in Threads |-> << >>]
    /\ purged = {}
    /\ calls = [t \in Threads |-> 0]

-----------------------------------------------------------------------------
\* Feed

FeedCall(t) == t \in Producers /\ Call(t, "feed_lock")

\* Fault: the bound is off by one.
FeedMayPushOneMore == Len(items_) <= Capacity /\ ~is_discarding_

\* The predicate of cv_producer_.
FeedMayPush == Len(items_) < Capacity /\ ~is_discarding_

\* Fault: nobody's lock is respected.
DataLockIgnored == TRUE

\* What an exclusive lock on data_mutex_ needs.
DataLockFree == data_shared = {} /\ data_exclusive = {}

\* Fault: the mutex stays locked.
KeepStateLocked == UNCHANGED state_mutex_

UnlockState == state_mutex_' = {}

\* Lock state_mutex_ and evaluate cv_producer_'s predicate.  size() is read
\* under state_mutex_ alone, while Discard clears under data_mutex_ alone.
FeedEnter(t) ==
    /\ pc[t] = "feed_lock"
    /\ state_mutex_ = {}
    /\ IF FeedMayPush
       THEN /\ state_mutex_' = {t}
            /\ pc' = [pc EXCEPT ![t] = "feed_data"]
       ELSE /\ pc' = [pc EXCEPT ![t] = "feed_wait"]
            /\ UNCHANGED state_mutex_
    /\ UNCHANGED << items_, active_readers_, is_discarding_, data_shared,
                    data_exclusive, view, arrived, purged, calls >>

\* Holding state_mutex_: take data_mutex_ exclusively, push, release it,
\* notify cv_consumer_ when the room is now full, release state_mutex_.
FeedPush(t) ==
    /\ pc[t] = "feed_data"
    /\ DataLockFree
    /\ items_' = Append(items_, arrived + 1)
    /\ arrived' = arrived + 1
    /\ UnlockState
    /\ pc' = LET returned == [pc EXCEPT ![t] = "idle"]
             IN  IF Len(items_') = Capacity THEN WakeConsumers(returned)
                                            ELSE returned
    /\ UNCHANGED << active_readers_, is_discarding_, data_shared,
                    data_exclusive, view, purged, calls >>

-----------------------------------------------------------------------------
\* with_contents_when_filled and with_current_contents

FilledCall(t) == t \in Workers /\ Call(t, "take_lock")

CurrentCall(t) == t \in Readers /\ Call(t, "look_lock")

\* ReaderScope's constructor, under state_mutex_, which is released at once.
Register(t) ==
    /\ active_readers_' = active_readers_ + 1
    /\ pc' = [pc EXCEPT ![t] = "view_lock"]

Refuse(t) ==
    /\ pc' = [pc EXCEPT ![t] = "idle"]
    /\ UNCHANGED active_readers_

FilledEnter(t) ==
    /\ pc[t] \in {"take_lock", "take_woken"}
    /\ state_mutex_ = {}
    /\ \/ /\ ~is_discarding_
          /\ Len(items_) # Capacity
          /\ pc' = [pc EXCEPT ![t] = "take_wait"]
          /\ UNCHANGED active_readers_
       \/ is_discarding_ /\ Refuse(t)
       \/ /\ ~is_discarding_
          /\ Len(items_) = Capacity
          /\ Register(t)
    /\ UNCHANGED << items_, is_discarding_, state_mutex_, data_shared,
                    data_exclusive, view, arrived, purged, calls >>

CurrentEnter(t) ==
    /\ pc[t] = "look_lock"
    /\ state_mutex_ = {}
    /\ IF is_discarding_ THEN Refuse(t) ELSE Register(t)
    /\ UNCHANGED << items_, is_discarding_, state_mutex_, data_shared,
                    data_exclusive, view, arrived, purged, calls >>

\* A registered reader takes data_mutex_ shared and its lambda gets the span.
ViewBegin(t) ==
    /\ pc[t] = "view_lock"
    /\ data_exclusive = {}
    /\ data_shared' = data_shared \cup {t}
    /\ view' = [view EXCEPT ![t] = items_]
    /\ pc' = [pc EXCEPT ![t] = "lambda"]
    /\ UNCHANGED << items_, active_readers_, is_discarding_, state_mutex_,
                    data_exclusive, arrived, purged, calls >>

\* The lambda returns and the shared lock is released.
ViewEnd(t) ==
    /\ pc[t] = "lambda"
    /\ data_shared' = data_shared \ {t}
    /\ view' = [view EXCEPT ![t] = << >>]
    /\ pc' = [pc EXCEPT ![t] = "leave"]
    /\ UNCHANGED << items_, active_readers_, is_discarding_, state_mutex_,
                    data_exclusive, arrived, purged, calls >>

\* ~ReaderScope: lock state_mutex_ again, count down, and the last reader
\* notifies cv_discard_ when a Discard is waiting for it.
Unregister(t) ==
    /\ pc[t] = "leave"
    /\ state_mutex_ = {}
    /\ active_readers_' = active_readers_ - 1
    /\ pc' = LET returned == [pc EXCEPT ![t] = "idle"]
             IN  IF active_readers_' = 0 /\ is_discarding_
                 THEN WakeDiscarders(returned)
                 ELSE returned
    /\ UNCHANGED << items_, is_discarding_, state_mutex_, data_shared,
                    data_exclusive, view, arrived, purged, calls >>

-----------------------------------------------------------------------------
\* Discard

DiscardCall(t) == t \in Discarders /\ Call(t, "discard_lock")

\* Fault: Discard does not wait for readers.
WithoutWaiting == "purge_lock"

\* The predicate of cv_discard_, and where Discard goes after it.
AfterReadersLeft ==
    IF active_readers_ = 0 THEN "purge_lock" ELSE "discard_wait"

\* Raise the flag, notify cv_consumer_, and wait until no reader is active.
DiscardEnter(t) ==
    /\ pc[t] = "discard_lock"
    /\ state_mutex_ = {}
    /\ is_discarding_' = TRUE
    /\ pc' = WakeConsumers([pc EXCEPT ![t] = AfterReadersLeft])
    /\ UNCHANGED << items_, active_readers_, state_mutex_, data_shared,
                    data_exclusive, view, arrived, purged, calls >>

\* Woken on cv_discard_: the predicate once more, under state_mutex_.
DiscardRecheck(t) ==
    /\ pc[t] = "discard_woken"
    /\ state_mutex_ = {}
    /\ pc' = [pc EXCEPT ![t] = AfterReadersLeft]
    /\ UNCHANGED << items_, active_readers_, is_discarding_, state_mutex_,
                    data_shared, data_exclusive, view, arrived, purged, calls >>

\* state_mutex_ was released; now data_mutex_ exclusively.
DiscardLockData(t) ==
    /\ pc[t] = "purge_lock"
    /\ DataLockFree
    /\ data_exclusive' = {t}
    /\ pc' = [pc EXCEPT ![t] = "purge"]
    /\ UNCHANGED << items_, active_readers_, is_discarding_, state_mutex_,
                    data_shared, view, arrived, purged, calls >>

\* purge_from_disk() of every item.
PurgeAll == purged \cup RangeOf(items_)

Purge(t) ==
    /\ pc[t] = "purge"
    /\ purged' = PurgeAll
    /\ pc' = [pc EXCEPT ![t] = "clear"]
    /\ UNCHANGED << items_, active_readers_, is_discarding_, state_mutex_,
                    data_shared, data_exclusive, view, arrived, calls >>

ItemsCleared == << >>

\* items_.clear() and release data_mutex_.
Clear(t) ==
    /\ pc[t] = "clear"
    /\ items_' = ItemsCleared
    /\ data_exclusive' = {}
    /\ pc' = [pc EXCEPT ![t] = "reset"]
    /\ UNCHANGED << active_readers_, is_discarding_, state_mutex_, data_shared,
                    view, arrived, purged, calls >>

\* Lock state_mutex_ again, lower the flag, notify cv_producer_, return.
DiscardReset(t) ==
    /\ pc[t] = "reset"
    /\ state_mutex_ = {}
    /\ is_discarding_' = FALSE
    /\ pc' = WakeProducers([pc EXCEPT ![t] = "idle"])
    /\ UNCHANGED << items_, active_readers_, state_mutex_, data_shared,
                    data_exclusive, view, arrived, purged, calls >>

-----------------------------------------------------------------------------
\* A condition variable may wake a waiter although nobody notified it.
SpuriousWake(t) ==
    /\ \/ /\ pc[t] = "feed_wait"
          /\ pc' = [pc EXCEPT ![t] = "feed_lock"]
       \/ /\ pc[t] = "take_wait"
          /\ pc' = [pc EXCEPT ![t] = "take_woken"]
       \/ /\ pc[t] = "discard_wait"
          /\ pc' = [pc EXCEPT ![t] = "discard_woken"]
    /\ UNCHANGED << items_, active_readers_, is_discarding_, state_mutex_,
                    data_shared, data_exclusive, view, arrived, purged, calls >>

NewCall(t) ==
    \/ FeedCall(t)
    \/ FilledCall(t)
    \/ CurrentCall(t)
    \/ DiscardCall(t)

\* The steps of a call that has begun.
Step(t) ==
    \/ FeedEnter(t)
    \/ FeedPush(t)
    \/ FilledEnter(t)
    \/ CurrentEnter(t)
    \/ ViewBegin(t)
    \/ ViewEnd(t)
    \/ Unregister(t)
    \/ DiscardEnter(t)
    \/ DiscardRecheck(t)
    \/ DiscardLockData(t)
    \/ Purge(t)
    \/ Clear(t)
    \/ DiscardReset(t)

Next == \E t \in Threads : NewCall(t) \/ Step(t) \/ SpuriousWake(t)

Spec == Init /\ [][Next]_vars

\* Every thread that can run does run, and lambdas return.  Nothing makes a
\* thread call, nothing wakes a waiter by chance, and no mutex is assumed to
\* be fair: MaxCalls bounds how often it can be taken ahead of a thread.
FairSpec == Spec /\ \A t \in Threads : WF_vars(Step(t))

-----------------------------------------------------------------------------
\* Safety

\* Every variable keeps its type.
TypeOK ==
    /\ items_ \in Seq(Nat)
    /\ active_readers_ \in Nat
    /\ is_discarding_ \in BOOLEAN
    /\ state_mutex_ \in SUBSET Threads
    /\ data_shared \in SUBSET Threads
    /\ data_exclusive \in SUBSET Threads
    /\ pc \in [Threads -> PC]
    /\ view \in [Threads -> Seq(Nat)]
    /\ arrived \in Nat
    /\ purged \in SUBSET Nat
    /\ calls \in [Threads -> 0 .. MaxCalls]

\* The counter equals the number of threads between ReaderScope's
\* constructor and its destructor, so that Discard's wait for zero means
\* that everyone has left.
ReadersCounted ==
    active_readers_ = Cardinality({t \in Threads : pc[t] \in Registered})

\* "Wait for all active readers (both workers and hat readers) to exit"
\* (buffer_room.hpp:127): nobody is registered from the moment Discard goes
\* for the data lock until it has cleared the vector.
PurgeExcludesReaders ==
    (\E d \in Discarders : pc[d] \in {"purge_lock", "purge", "clear", "reset"})
        => \A t \in Threads : pc[t] \notin Registered

\* The span a lambda was given is the room's contents as long as the lambda
\* runs, and a tier worker's span, built with the fixed extent C, covers C
\* items that exist, although state_mutex_ was released before the data
\* lock was taken.
ViewIsStable ==
    \A t \in Threads : pc[t] = "lambda" =>
        /\ view[t] = items_
        /\ t \in Workers => Len(view[t]) = Capacity

\* No lambda ever looks at an item whose files Discard has removed.
NeverLooksAtPurged ==
    \A t \in Threads : pc[t] = "lambda" => RangeOf(view[t]) \cap purged = {}

\* Nobody sleeps on a condition variable whose predicate holds: a producer
\* when there is room, a worker when the batch is full or being discarded,
\* Discard when the last reader has left.
NoSleeperLeftBehind ==
    /\ (\E t \in Threads : pc[t] = "feed_wait") => ~FeedMayPush
    /\ (\E t \in Threads : pc[t] = "take_wait")
           => Len(items_) # Capacity /\ ~is_discarding_
    /\ (\E t \in Threads : pc[t] = "discard_wait") => active_readers_ # 0

\* Discard releases state_mutex_ "to prevent mutex ordering inversions"
\* (buffer_room.hpp:132).  It has in fact the data lock for itself by then:
\* no reader holds it and no producer is about to take it.
DataLockIsUncontended ==
    (\E d \in Discarders : pc[d] = "purge_lock")
        => /\ data_shared = {}
           /\ data_exclusive = {}
           /\ \A t \in Threads : pc[t] \notin {"feed_data", "view_lock"}

\* Items leave the room all at once and only after each was purged from
\* disk; otherwise they enter one at a time at the end.
ItemsLeavePurged ==
    [][ \/ items_' = items_
        \/ items_' = Append(items_, arrived')
        \/ items_' = << >> /\ RangeOf(items_) \subseteq purged ]_vars

-----------------------------------------------------------------------------
\* The inductive invariant

\* The discipline the invariants below need: Discard is not called while
\* another call of it is under way.
OneDiscardAtATime == \A d, e \in Discarders : d = e

RegisteredThreads == {t \in Threads : pc[t] \in Registered}

\* Each label belongs to the operation it is named after.
LabelsMatchRoles ==
    \A t \in Threads :
        /\ pc[t] \in {"feed_lock", "feed_wait", "feed_data"} => t \in Producers
        /\ pc[t] \in {"take_lock", "take_wait", "take_woken"} => t \in Workers
        /\ pc[t] = "look_lock" => t \in Readers
        /\ pc[t] \in Registered => t \in Workers \cup Readers
        /\ pc[t] = "discard_lock" \/ Discarding(t) => t \in Discarders

\* Who holds which lock can be told from where the threads are.
LocksMatchLabels ==
    /\ state_mutex_ = {t \in Threads : pc[t] = "feed_data"}
    /\ \A t, u \in state_mutex_ : t = u
    /\ \A t, u \in data_exclusive : t = u
    /\ data_shared = {t \in Threads : pc[t] = "lambda"}
    /\ data_exclusive = {t \in Threads : pc[t] \in {"purge", "clear"}}

CountIsExact ==
    /\ IsFiniteSet(RegisteredThreads)
    /\ active_readers_ = Cardinality(RegisteredThreads)

\* The flag is up exactly while the one Discard is past raising it; a
\* producer that was admitted keeps it down by holding state_mutex_.
FlagMatchesDiscard ==
    /\ is_discarding_ <=> \E t \in Threads : Discarding(t)
    /\ \A t \in Threads : pc[t] = "feed_data" => FeedMayPush

\* A registered worker's batch is full, and stays what the lambda was given.
BatchHeld ==
    \A t \in Threads :
        /\ pc[t] \in {"view_lock", "lambda"} /\ t \in Workers => Len(items_) = Capacity
        /\ pc[t] = "lambda" => view[t] = items_

\* Items are purged from disk between Purge and Clear only.
PurgeMatchesItems ==
    /\ \A x \in RangeOf(items_) \cup purged : x <= arrived
    /\ \/ RangeOf(items_) \cap purged = {}
       \/ \E t \in Threads : pc[t] = "clear"
    /\ (\E t \in Threads : pc[t] = "clear") => RangeOf(items_) \subseteq purged

\* The first layer: who is where and holds what.
LockInv == TypeOK /\ LabelsMatchRoles /\ LocksMatchLabels /\ CountIsExact

\* The second layer, inductive together with the first.
RoomInv ==
    /\ FlagMatchesDiscard
    /\ PurgeExcludesReaders
    /\ BatchHeld
    /\ PurgeMatchesItems
    /\ NoSleeperLeftBehind

IndInv == LockInv /\ RoomInv

-----------------------------------------------------------------------------
\* Liveness, under FairSpec

\* Discard returns: the readers it waits for leave and it gets both locks.
DiscardReturns ==
    \A t \in Discarders : pc[t] = "discard_lock" ~> pc[t] = "idle"

\* A lookup is "Non-Blocking" (buffer_room.hpp:93): it returns whatever the
\* producers, workers and Discard are doing.
LookupReturns == \A t \in Readers : pc[t] = "look_lock" ~> pc[t] = "idle"

\* Feed blocks for good only on a full room: it survives any Discard that
\* overlaps it.
FeedBlocksOnlyWhenFull ==
    \A t \in Producers :
        pc[t] = "feed_lock" ~> (pc[t] = "idle" \/ Len(items_) = Capacity)

\* A worker that has asked for a batch when the room is full looks at it
\* and returns, unless a Discard empties the room first.
FullBatchWakesWorker ==
    \A t \in Workers :
        (pc[t] \in {"take_lock", "take_wait", "take_woken"} /\ Len(items_) = Capacity)
            ~> (pc[t] = "idle" \/ Len(items_) < Capacity)

\* "Wake up any waiting tier workers so they can unblock cleanly"
\* (buffer_room.hpp:124): the call of a worker that Discard has woken returns.
DiscardReleasesWorkers ==
    \A t \in Workers : (pc[t] = "take_woken" /\ is_discarding_) ~> pc[t] = "idle"

-----------------------------------------------------------------------------
\* Refinement

Promise == INSTANCE SharedBatch
             WITH BatchViewers <- Workers,
                  PointViewers <- Readers,
                  contents     <- items_,
                  arrivals     <- arrived,
                  viewers      <- {t \in Threads : pc[t] = "lambda"}

\* The room with its two mutexes and three condition variables implements
\* the batch of SharedBatch, whose viewers are the running lambdas.
KeepsPromise == Promise!Spec

=============================================================================

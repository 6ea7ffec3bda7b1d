--------------------------- MODULE IngesterBuffer ---------------------------
(***************************************************************************)
(* The IngesterBuffer of apps/wedding_cake: the queue in memory between    *)
(* the client threads, which feed blocks of hashes and ask for flushes,    *)
(* and the one worker thread, which takes everything there is and answers  *)
(* with the room the hatchling behind it has left.                         *)
(*                                                                         *)
(* A critical section is one step, from locking mutex_ to unlocking it or  *)
(* to waiting on a condition variable.  The worker's is the exception: the *)
(* lambda it runs under the lock can block for as long as the room behind  *)
(* it is full, so its steps are separate and the lock is held between      *)
(* them.  stop() notifies after it has unlocked: a step of its own.        *)
(***************************************************************************)
EXTENDS Naturals, Sequences

CONSTANTS
    Clients,      \* threads that call feed_block_of_hashes and flush
    Worker,       \* the thread that runs ingestor_worker
    Stopper,      \* the thread that calls stop
    Hashes,       \* hash values
    NoHash,       \* an optional without a value: a gap
    DonutCapacity,\* what a hatchling holds
    FirstPi,      \* the downstream's next offset at startup
    MaxBlock,     \* BOUND: the length of a block
    MaxCalls      \* BOUND: the calls each client makes

Items == Hashes \cup {NoHash}

Threads == Clients \cup {Worker, Stopper}

ASSUME ThreadsAreDistinct ==
    /\ Worker \notin Clients
    /\ Stopper \notin Clients
    /\ Worker # Stopper

ASSUME NoHashIsNoHash == NoHash \notin Hashes

ASSUME NumbersAssumption ==
    /\ DonutCapacity \in Nat \ {0}
    /\ FirstPi \in Nat
    /\ MaxBlock \in Nat
    /\ MaxCalls \in Nat

VARIABLES
    downstream_remaining_capacity_,
    buffer_,
    reverse_lookup_map_,  \* from the hashes in buffer_ to local indices
    first_global_pi_,
    please_flush_,
    stopping_,
    pc,                   \* where each thread is
    block,                \* the argument of each client's feed
    is_flush_active,      \* the worker's local of that name
    buffer_size_sent,     \* the worker's local of that name
    fed,                  \* history: every item accepted, in order
    mark,                 \* history: how much had been fed when c's flush began
    calls                 \* how many calls each client has made

queue == << downstream_remaining_capacity_, buffer_, reverse_lookup_map_,
            first_global_pi_, fed >>

signals == << please_flush_, stopping_ >>

locals == << block, is_flush_active, buffer_size_sent, mark, calls >>

vars == << queue, signals, pc, locals >>

PC == {"idle", "feed_lock", "feed_wait", "flush_lock", "flush_wait",
       "flush_woken", "between", "take_lock", "take_wait", "lambda", "exited",
       "running", "stop_lock", "stop_notify", "stopped"}

Flushing == {"flush_wait", "flush_woken"}

\* mutex_ is held from one step to another by the worker's lambda only.
MutexFree == pc[Worker] # "lambda"

\* What the worker has taken out of the buffer so far.
Taken == Len(fed) - Len(buffer_)

\* Items that are not gaps.
HashesIn(s) == {s[i] : i \in DOMAIN s} \ {NoHash}

LastIndex(h, s) ==
    CHOOSE i \in DOMAIN s :
        s[i] = h /\ \A j \in DOMAIN s : s[j] = h => j <= i

Blocks == UNION {[1 .. n -> Items] : n \in 1 .. MaxBlock}

-----------------------------------------------------------------------------
\* notify_all() on a condition variable: p with every waiter made runnable.
\* Only the worker waits on has_items_cv_, so notify_one() wakes it too.

\* Fault: the call to notify_all() is missing.
NotifyNobody(p) == p

WakeFeeders(p) ==
    [t \in Threads |-> IF p[t] = "feed_wait" THEN "feed_lock" ELSE p[t]]

WakeWorker(p) ==
    [t \in Threads |-> IF p[t] = "take_wait" THEN "take_lock" ELSE p[t]]

WakeFlushers(p) ==
    [t \in Threads |-> IF p[t] = "flush_wait" THEN "flush_woken" ELSE p[t]]

Init ==
    /\ downstream_remaining_capacity_ \in 1 .. DonutCapacity
    /\ buffer_ = << >>
    /\ reverse_lookup_map_ = [h \in {} |-> 0]
    /\ first_global_pi_ = FirstPi
    /\ please_flush_ = FALSE
    /\ stopping_ = FALSE
    /\ pc = [t \in Threads |-> CASE t = Worker  -> "between"
                                 [] t = Stopper -> "running"
                                 [] OTHER       -> "idle"]
    /\ block = [c \in Clients |-> << >>]
    /\ is_flush_active = FALSE
    /\ buffer_size_sent = 0
    /\ fed = << >>
    /\ mark = [c \in Clients |-> 0]
    /\ calls = [c \in Clients |-> 0]

-----------------------------------------------------------------------------
\* feed_block_of_hashes

\* An empty block returns at once and is left out.
FeedCall(c) ==
    /\ pc[c] = "idle"
    /\ calls[c] < MaxCalls
    /\ calls' = [calls EXCEPT ![c] = @ + 1]
    /\ \E b \in Blocks : block' = [block EXCEPT ![c] = b]
    /\ pc' = [pc EXCEPT ![c] = "feed_lock"]
    /\ UNCHANGED << queue, signals, is_flush_active, buffer_size_sent, mark >>

\* The queue has not reached the capacity behind it.  The block itself may
\* be longer than what is left.
SomeFits == Len(buffer_) < downstream_remaining_capacity_

\* The predicate of can_feed_cv_.
MayFeed == SomeFits \/ stopping_

\* The loop over the block: assignment, so the last occurrence wins.
MapWith(b) ==
    [h \in DOMAIN reverse_lookup_map_ \cup HashesIn(b) |->
        IF h \in HashesIn(b) THEN Len(buffer_) + LastIndex(h, b) - 1
                             ELSE reverse_lookup_map_[h]]

Inserted(b) == buffer_ \o b

\* Insert the block and notify has_items_cv_.
Accept(c) ==
    /\ reverse_lookup_map_' = MapWith(block[c])
    /\ buffer_' = Inserted(block[c])
    /\ fed' = fed \o block[c]
    /\ pc' = WakeWorker([pc EXCEPT ![c] = "idle"])
    /\ block' = [block EXCEPT ![c] = << >>]
    /\ UNCHANGED << downstream_remaining_capacity_, first_global_pi_ >>

\* Lock mutex_, wait, give up when stopping, insert otherwise.  A waiter
\* that was notified comes here again.
FeedEnter(c) ==
    /\ pc[c] = "feed_lock"
    /\ MutexFree
    /\ \/ /\ ~MayFeed
          /\ pc' = [pc EXCEPT ![c] = "feed_wait"]
          /\ UNCHANGED << queue, block >>
       \/ /\ stopping_
          /\ pc' = [pc EXCEPT ![c] = "idle"]
          /\ block' = [block EXCEPT ![c] = << >>]
          /\ UNCHANGED queue
       \/ /\ MayFeed
          /\ ~stopping_
          /\ Accept(c)
    /\ UNCHANGED << signals, is_flush_active, buffer_size_sent, mark, calls >>

-----------------------------------------------------------------------------
\* flush

FlushCall(c) ==
    /\ pc[c] = "idle"
    /\ calls[c] < MaxCalls
    /\ calls' = [calls EXCEPT ![c] = @ + 1]
    /\ pc' = [pc EXCEPT ![c] = "flush_lock"]
    /\ UNCHANGED << queue, signals, block, is_flush_active, buffer_size_sent, mark >>

NothingToFlush == buffer_ = << >>

\* Fault: flush only leaves its request.
FlushWithoutWaiting == TRUE

\* The predicate of flush_done_cv_.
FlushDone == ~please_flush_ \/ stopping_

\* Lock mutex_; leave a request, notify has_items_cv_, and wait.  The
\* request itself makes the predicate false, except when stopping.
FlushEnter(c) ==
    /\ pc[c] = "flush_lock"
    /\ MutexFree
    /\ \/ /\ NothingToFlush
          /\ pc' = [pc EXCEPT ![c] = "idle"]
          /\ UNCHANGED << please_flush_, mark >>
       \/ /\ ~NothingToFlush
          /\ please_flush_' = TRUE
          /\ mark' = [mark EXCEPT ![c] = Len(fed)]
          /\ pc' = WakeWorker([pc EXCEPT ![c] = IF stopping_ THEN "idle"
                                                             ELSE "flush_wait"])
    /\ UNCHANGED << queue, stopping_, block, is_flush_active, buffer_size_sent, calls >>

\* Woken on flush_done_cv_: the predicate once more.
FlushRecheck(c) ==
    /\ pc[c] = "flush_woken"
    /\ MutexFree
    /\ pc' = [pc EXCEPT ![c] = IF FlushDone THEN "idle" ELSE "flush_wait"]
    /\ UNCHANGED << queue, signals, locals >>

-----------------------------------------------------------------------------
\* with_at_least_n_hashes

TakeCall ==
    /\ pc[Worker] = "between"
    /\ pc' = [pc EXCEPT ![Worker] = "take_lock"]
    /\ UNCHANGED << queue, signals, locals >>

\* The worker does not come back.
TakeNoMore ==
    /\ pc[Worker] = "between"
    /\ pc' = [pc EXCEPT ![Worker] = "exited"]
    /\ UNCHANGED << queue, signals, locals >>

\* The predicate of has_items_cv_.
MayTake ==
    \/ Len(buffer_) >= downstream_remaining_capacity_
    \/ please_flush_
    \/ stopping_

\* Lock mutex_, wait, return when there is nothing left to take at a stop,
\* and enter the lambda with mutex_ held otherwise.
TakeEnter ==
    /\ pc[Worker] = "take_lock"
    /\ \/ /\ ~MayTake
          /\ pc' = [pc EXCEPT ![Worker] = "take_wait"]
          /\ UNCHANGED << is_flush_active, buffer_size_sent >>
       \/ /\ stopping_
          /\ buffer_ = << >>
          /\ pc' = [pc EXCEPT ![Worker] = "between"]
          /\ UNCHANGED << is_flush_active, buffer_size_sent >>
       \/ /\ MayTake
          /\ ~(stopping_ /\ buffer_ = << >>)
          /\ is_flush_active' = please_flush_
          /\ buffer_size_sent' = Len(buffer_)
          /\ pc' = [pc EXCEPT ![Worker] = "lambda"]
    /\ UNCHANGED << queue, signals, block, mark, calls >>

\* The lambda takes the first k items out of the buffer.
Consume(k) ==
    /\ pc[Worker] = "lambda"
    /\ buffer_' = SubSeq(buffer_, k + 1, Len(buffer_))
    /\ UNCHANGED << downstream_remaining_capacity_, reverse_lookup_map_,
                    first_global_pi_, fed, signals, pc, locals >>

\* Fault: the map survives the items it indexes.
MapKept == reverse_lookup_map_

MapCleared == [h \in {} |-> 0]

FirstPiAfterTake == first_global_pi_ + buffer_size_sent

\* The lambda has returned new_remaining_capacity: adopt it, move the
\* offset, clear the map, answer a flush, notify, and release mutex_.
TakeLeave(new_remaining_capacity) ==
    /\ pc[Worker] = "lambda"
    /\ downstream_remaining_capacity_' = new_remaining_capacity
    /\ first_global_pi_' = FirstPiAfterTake
    /\ reverse_lookup_map_' = MapCleared
    /\ please_flush_' = (please_flush_ /\ ~is_flush_active)
    /\ pc' = LET left == [pc EXCEPT ![Worker] = "between"]
             IN  WakeFeeders(IF is_flush_active THEN WakeFlushers(left) ELSE left)
    /\ is_flush_active' = FALSE
    /\ buffer_size_sent' = 0
    /\ UNCHANGED << buffer_, fed, stopping_, block, mark, calls >>

\* What the two assertions after the call expect of the lambda.
LambdaReturns ==
    /\ buffer_ = << >>
    /\ \E n \in 1 .. DonutCapacity : TakeLeave(n)

-----------------------------------------------------------------------------
\* stop

StopCall ==
    /\ pc[Stopper] = "running"
    /\ pc' = [pc EXCEPT ![Stopper] = "stop_lock"]
    /\ UNCHANGED << queue, signals, locals >>

StopSet ==
    /\ pc[Stopper] = "stop_lock"
    /\ MutexFree
    /\ stopping_' = TRUE
    /\ please_flush_' = FALSE
    /\ pc' = [pc EXCEPT ![Stopper] = "stop_notify"]
    /\ UNCHANGED << queue, locals >>

\* The three notify_all().  Nobody begins to wait between them, because
\* every predicate has stopping_ in it.
StopNotify ==
    /\ pc[Stopper] = "stop_notify"
    /\ pc' = WakeFeeders(WakeWorker(WakeFlushers([pc EXCEPT ![Stopper] = "stopped"])))
    /\ UNCHANGED << queue, signals, locals >>

-----------------------------------------------------------------------------
\* A condition variable may wake a waiter although nobody notified it.
SpuriousWake(t) ==
    /\ \/ pc[t] = "feed_wait"  /\ pc' = [pc EXCEPT ![t] = "feed_lock"]
       \/ pc[t] = "flush_wait" /\ pc' = [pc EXCEPT ![t] = "flush_woken"]
       \/ pc[t] = "take_wait"  /\ pc' = [pc EXCEPT ![t] = "take_lock"]
    /\ UNCHANGED << queue, signals, locals >>

ClientCalls(c) == FeedCall(c) \/ FlushCall(c)

ClientStep(c) == FeedEnter(c) \/ FlushEnter(c) \/ FlushRecheck(c)

WorkerStep ==
    \/ TakeCall
    \/ TakeNoMore
    \/ TakeEnter
    \/ \E k \in 1 .. Len(buffer_) : Consume(k)
    \/ LambdaReturns

StopperStep == StopCall \/ StopSet \/ StopNotify

Next ==
    \/ \E c \in Clients : ClientCalls(c) \/ ClientStep(c)
    \/ WorkerStep
    \/ StopperStep
    \/ \E t \in Threads : SpuriousWake(t)

\* The buffer with a worker and a hatchling that keep their side: the
\* lambda takes everything and reports at least one free place.
Spec == Init /\ [][Next]_vars

-----------------------------------------------------------------------------
\* Safety

\* Every variable keeps its type.
TypeOK ==
    /\ downstream_remaining_capacity_ \in 1 .. DonutCapacity
    /\ buffer_ \in Seq(Items)
    /\ DOMAIN reverse_lookup_map_ \subseteq Hashes
    /\ first_global_pi_ \in Nat
    /\ please_flush_ \in BOOLEAN
    /\ stopping_ \in BOOLEAN
    /\ pc \in [Threads -> PC]
    /\ block \in [Clients -> Seq(Items)]
    /\ is_flush_active \in BOOLEAN
    /\ buffer_size_sent \in Nat
    /\ fed \in Seq(Items)
    /\ mark \in [Clients -> Nat]
    /\ calls \in [Clients -> 0 .. MaxCalls]

\* The queue is the end of what was fed, so nothing is lost, repeated or
\* reordered before the worker takes it, whichever clients race.
BufferIsEndOfFed ==
    /\ Len(buffer_) <= Len(fed)
    /\ \A i \in 1 .. Len(buffer_) : buffer_[i] = fed[Taken + i]

\* Between two lambdas first_global_pi_ is the index of the first item in
\* the buffer, counting every item ever fed; within a lambda it is the index
\* of the first of the items the lambda was sent.
OffsetsAgree ==
    first_global_pi_ + (IF MutexFree THEN Len(buffer_) ELSE buffer_size_sent)
        = FirstPi + Len(fed)

\* What reverse_lookup adds up, an index of the map and first_global_pi_, is an
\* index under which the hash was fed and which is still in the buffer; and
\* the map knows each hash in the buffer and no other.  Of a hash that is
\* there twice it is one of the two indices.
ReverseFindsFed ==
    MutexFree =>
        /\ DOMAIN reverse_lookup_map_ = HashesIn(buffer_)
        /\ \A h \in DOMAIN reverse_lookup_map_ :
              LET i == (first_global_pi_ + reverse_lookup_map_[h] + 1) - FirstPi
              IN  i \in Taken + 1 .. Len(fed) /\ fed[i] = h

\* "BLOCKS when buffer_.size() >= downstream_remaining_capacity_"
\* (ingester_buffer.hpp:41): however many clients wait for the same place,
\* the queue exceeds the capacity by less than one block.
BacklogIsBounded ==
    Len(buffer_) < downstream_remaining_capacity_ + MaxBlock

\* The worker never enters the lambda for nothing: neither a spurious wake
\* nor a flush gets it there with an empty buffer, so that the branch of
\* ingestor_worker.hpp:23 for "spurious wake or pure flush request" is dead.
LambdaGetsItems == pc[Worker] = "lambda" => buffer_size_sent > 0

\* Unless stop() is between unlocking and notifying, nobody sleeps on a
\* condition variable whose predicate holds: not a client, once the worker
\* has left the lock; not a client that flushes; and not the worker.
NoSleeperLeftBehind ==
    pc[Stopper] # "stop_notify" =>
        /\ (\E c \in Clients : pc[c] = "feed_wait") /\ MutexFree => ~MayFeed
        /\ (\E c \in Clients : pc[c] = "flush_wait") => ~FlushDone
        /\ pc[Worker] = "take_wait" => ~MayTake

\* "BLOCKS until the worker processes the batch" (ingester_buffer.hpp:74):
\* a flush that waited returns only after everything fed before it has left
\* the buffer, even if other clients feed and flush meanwhile, unless the
\* buffer is stopping.
FlushDrains ==
    [][ \A c \in Clients :
           (pc[c] \in Flushing /\ pc'[c] = "idle")
               => stopping_ \/ Taken >= mark[c] ]_vars

-----------------------------------------------------------------------------
\* The inductive invariant

\* Each label belongs to a thread that can be there.
LabelsMatchRoles ==
    /\ \A c \in Clients :
          pc[c] \in {"idle", "feed_lock", "feed_wait", "flush_lock"} \cup Flushing
    /\ pc[Worker] \in {"between", "take_lock", "take_wait", "lambda", "exited"}
    /\ pc[Stopper] \in {"running", "stop_lock", "stop_notify", "stopped"}

\* A client has a block, of at most MaxBlock items, while it feeds.
BlocksAreBounded == \A c \in Clients : Len(block[c]) <= MaxBlock

\* A request is pending only while there is something to flush, and the
\* lambda knows whether one is.
RequestHasItems ==
    /\ MutexFree /\ please_flush_ => buffer_ # << >>
    /\ ~MutexFree => is_flush_active = please_flush_

\* What a client waits for is out of the buffer as soon as its request is
\* no longer pending.
MarksAreReached ==
    \A c \in Clients :
        pc[c] \in Flushing =>
            /\ mark[c] <= Len(fed)
            /\ ~please_flush_ /\ ~stopping_ => mark[c] <= Taken

IndInv ==
    /\ TypeOK
    /\ LabelsMatchRoles
    /\ BlocksAreBounded
    /\ BufferIsEndOfFed
    /\ OffsetsAgree
    /\ BacklogIsBounded
    /\ LambdaGetsItems
    /\ RequestHasItems
    /\ MarksAreReached
    /\ NoSleeperLeftBehind

=============================================================================

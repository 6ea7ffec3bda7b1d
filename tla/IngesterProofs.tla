--------------------------- MODULE IngesterProofs ---------------------------
(***************************************************************************)
(* What holds of IngesterBuffer and of Ingester for any number of clients, *)
(* any hashes, any capacity, blocks of any length and any fanout.  The     *)
(* first part is about the buffer with a worker of which only the contract *)
(* is known; its proof goes through three layers of the inductive          *)
(* invariant: who is where (Shape), what the numbers say (Numbers), and    *)
(* who waits for what (Waiting).  The map needs only the first of them,    *)
(* and what a longer sequence makes of last places.  In the second part    *)
(* the worker's lambda keeps its side of the contract, so that what was    *)
(* shown of the buffer holds of the composition; the rest of the invariant *)
(* is about the tier.                                                      *)
(***************************************************************************)
EXTENDS Ingester, SequenceTheorems, WellFoundedInduction, TLAPS

Shape == TypeOK /\ LabelsMatchRoles /\ BlocksAreBounded

Numbers == BufferIsEndOfFed /\ OffsetsAgree /\ BacklogIsBounded /\ LambdaGetsItems

Waiting == RequestHasItems /\ MarksAreReached /\ NoSleeperLeftBehind

-----------------------------------------------------------------------------
\* Threads and labels

LEMMA LabelsArePC ==
  {"idle", "feed_lock", "feed_wait", "flush_lock", "flush_wait",
   "flush_woken", "between", "take_lock", "take_wait", "lambda", "exited",
   "running", "stop_lock", "stop_notify", "stopped"} = PC
BY DEF PC

LEMMA ThreadFacts ==
  /\ Worker \in Threads /\ Stopper \in Threads /\ Worker # Stopper
  /\ \A c \in Clients : c \in Threads /\ c # Worker /\ c # Stopper
BY ThreadsAreDistinct DEF Threads

\* What a notification does to each thread.
LEMMA WakeFacts ==
  ASSUME NEW p \in [Threads -> PC]
  PROVE  /\ WakeFeeders(p) \in [Threads -> PC]
         /\ WakeWorker(p) \in [Threads -> PC]
         /\ WakeFlushers(p) \in [Threads -> PC]
         /\ \A t \in Threads :
              /\ WakeFeeders(p)[t] = IF p[t] = "feed_wait" THEN "feed_lock" ELSE p[t]
              /\ WakeWorker(p)[t] = IF p[t] = "take_wait" THEN "take_lock" ELSE p[t]
              /\ WakeFlushers(p)[t] = IF p[t] = "flush_wait" THEN "flush_woken" ELSE p[t]
<1>1. "feed_lock" \in PC /\ "take_lock" \in PC /\ "flush_woken" \in PC
  BY DEF PC
<1> QED
  BY <1>1 DEF WakeFeeders, WakeWorker, WakeFlushers

-----------------------------------------------------------------------------
\* Where each action leaves each thread

PcIsTyped == pc \in [Threads -> PC] /\ LabelsMatchRoles

LEMMA PcFeedCall ==
  ASSUME PcIsTyped, NEW c \in Clients, FeedCall(c)
  PROVE  /\ pc' \in [Threads -> PC] /\ pc'[c] = "feed_lock"
         /\ \A u \in Threads \ {c} : pc'[u] = pc[u]
BY ThreadFacts, LabelsArePC DEF PcIsTyped, FeedCall

LEMMA PcFlushCall ==
  ASSUME PcIsTyped, NEW c \in Clients, FlushCall(c)
  PROVE  /\ pc' \in [Threads -> PC] /\ pc'[c] = "flush_lock"
         /\ \A u \in Threads \ {c} : pc'[u] = pc[u]
BY ThreadFacts, LabelsArePC DEF PcIsTyped, FlushCall

LEMMA PcFeedEnter ==
  ASSUME PcIsTyped, NEW c \in Clients, FeedEnter(c)
  PROVE  /\ pc' \in [Threads -> PC]
         /\ \/ /\ ~MayFeed /\ pc'[c] = "feed_wait"
               /\ \A u \in Threads \ {c} : pc'[u] = pc[u]
            \/ /\ stopping_ /\ pc'[c] = "idle"
               /\ \A u \in Threads \ {c} : pc'[u] = pc[u]
            \/ /\ MayFeed /\ ~stopping_ /\ pc'[c] = "idle"
               /\ \A u \in Threads \ {c} :
                     pc'[u] = IF pc[u] = "take_wait" THEN "take_lock" ELSE pc[u]
<1>1. /\ pc \in [Threads -> PC] /\ c \in Threads
      /\ "idle" \in PC \ {"take_wait"} /\ "feed_wait" \in PC
  BY ThreadFacts, LabelsArePC DEF PcIsTyped
<1>2. CASE ~MayFeed /\ pc' = [pc EXCEPT ![c] = "feed_wait"]
  BY <1>1, <1>2
<1>3. CASE stopping_ /\ pc' = [pc EXCEPT ![c] = "idle"]
  BY <1>1, <1>3
<1>4. CASE MayFeed /\ ~stopping_ /\ pc' = WakeWorker([pc EXCEPT ![c] = "idle"])
  <2> DEFINE q == [pc EXCEPT ![c] = "idle"]
  <2>1. /\ q \in [Threads -> PC]
        /\ \A u \in Threads : q[u] = IF u = c THEN "idle" ELSE pc[u]
    BY <1>1
  <2>2. pc' = WakeWorker(q)
    BY <1>4
  <2> HIDE DEF q
  <2>3. /\ WakeWorker(q) \in [Threads -> PC]
        /\ \A u \in Threads :
              WakeWorker(q)[u] = IF q[u] = "take_wait" THEN "take_lock" ELSE q[u]
    BY <2>1, WakeFacts
  <2> QED
    BY <1>1, <1>4, <2>1, <2>2, <2>3
<1> QED
  BY <1>2, <1>3, <1>4 DEF FeedEnter, Accept, Inserted

LEMMA PcFlushEnter ==
  ASSUME PcIsTyped, NEW c \in Clients, FlushEnter(c)
  PROVE  /\ pc' \in [Threads -> PC]
         /\ \/ /\ buffer_ = << >> /\ pc'[c] = "idle"
               /\ \A u \in Threads \ {c} : pc'[u] = pc[u]
            \/ /\ buffer_ # << >>
               /\ pc'[c] = IF stopping_ THEN "idle" ELSE "flush_wait"
               /\ \A u \in Threads \ {c} :
                     pc'[u] = IF pc[u] = "take_wait" THEN "take_lock" ELSE pc[u]
<1>1. /\ pc \in [Threads -> PC] /\ c \in Threads
      /\ "idle" \in PC \ {"take_wait"} /\ "flush_wait" \in PC \ {"take_wait"}
  BY ThreadFacts, LabelsArePC DEF PcIsTyped
<1>2. CASE buffer_ = << >> /\ pc' = [pc EXCEPT ![c] = "idle"]
  BY <1>1, <1>2
<1>3. CASE buffer_ # << >> /\ stopping_ /\ pc' = WakeWorker([pc EXCEPT ![c] = "idle"])
  <2> DEFINE q == [pc EXCEPT ![c] = "idle"]
  <2>1. /\ q \in [Threads -> PC]
        /\ \A u \in Threads : q[u] = IF u = c THEN "idle" ELSE pc[u]
    BY <1>1
  <2>2. pc' = WakeWorker(q)
    BY <1>3
  <2> HIDE DEF q
  <2>3. /\ WakeWorker(q) \in [Threads -> PC]
        /\ \A u \in Threads :
              WakeWorker(q)[u] = IF q[u] = "take_wait" THEN "take_lock" ELSE q[u]
    BY <2>1, WakeFacts
  <2> QED
    BY <1>1, <1>3, <2>1, <2>2, <2>3
<1>4. CASE buffer_ # << >> /\ ~stopping_ /\ pc' = WakeWorker([pc EXCEPT ![c] = "flush_wait"])
  <2> DEFINE q == [pc EXCEPT ![c] = "flush_wait"]
  <2>1. /\ q \in [Threads -> PC]
        /\ \A u \in Threads : q[u] = IF u = c THEN "flush_wait" ELSE pc[u]
    BY <1>1
  <2>2. pc' = WakeWorker(q)
    BY <1>4
  <2> HIDE DEF q
  <2>3. /\ WakeWorker(q) \in [Threads -> PC]
        /\ \A u \in Threads :
              WakeWorker(q)[u] = IF q[u] = "take_wait" THEN "take_lock" ELSE q[u]
    BY <2>1, WakeFacts
  <2> QED
    BY <1>1, <1>4, <2>1, <2>2, <2>3
<1> QED
  BY <1>2, <1>3, <1>4 DEF FlushEnter, NothingToFlush

LEMMA PcFlushRecheck ==
  ASSUME PcIsTyped, NEW c \in Clients, FlushRecheck(c)
  PROVE  /\ pc' \in [Threads -> PC]
         /\ pc'[c] = IF FlushDone THEN "idle" ELSE "flush_wait"
         /\ \A u \in Threads \ {c} : pc'[u] = pc[u]
BY ThreadFacts, LabelsArePC DEF PcIsTyped, FlushRecheck

LEMMA PcTake ==
  ASSUME PcIsTyped, TakeCall \/ TakeNoMore \/ TakeEnter
  PROVE  /\ pc' \in [Threads -> PC]
         /\ pc'[Worker] \in {"between", "take_lock", "take_wait", "lambda", "exited"}
         /\ \A u \in Threads \ {Worker} : pc'[u] = pc[u]
<1>1. pc \in [Threads -> PC] /\ Worker \in Threads
  BY ThreadFacts DEF PcIsTyped
<1>2. \E l \in {"between", "take_lock", "take_wait", "lambda", "exited"} :
         pc' = [pc EXCEPT ![Worker] = l]
  BY DEF TakeCall, TakeNoMore, TakeEnter
<1> QED
  BY <1>1, <1>2, LabelsArePC

LEMMA PcTakeLeave ==
  ASSUME PcIsTyped, NEW n, TakeLeave(n)
  PROVE  /\ pc' \in [Threads -> PC]
         /\ pc'[Worker] = "between"
         /\ \A u \in Threads \ {Worker} :
               \/ pc[u] = "feed_wait" /\ pc'[u] = "feed_lock"
               \/ pc[u] = "flush_wait" /\ is_flush_active /\ pc'[u] = "flush_woken"
               \/ /\ pc[u] # "feed_wait"
                  /\ pc[u] # "flush_wait" \/ ~is_flush_active
                  /\ pc'[u] = pc[u]
<1> DEFINE left == [pc EXCEPT ![Worker] = "between"]
           woken == IF is_flush_active THEN WakeFlushers(left) ELSE left
<1>1. pc \in [Threads -> PC] /\ Worker \in Threads /\ "between" \in PC
  BY ThreadFacts, LabelsArePC DEF PcIsTyped
<1>2. /\ left \in [Threads -> PC]
      /\ \A u \in Threads : left[u] = IF u = Worker THEN "between" ELSE pc[u]
  BY <1>1
<1>3. pc' = WakeFeeders(woken)
  BY DEF TakeLeave
<1> HIDE DEF left
<1>4. /\ woken \in [Threads -> PC]
      /\ \A u \in Threads :
            woken[u] = IF is_flush_active /\ left[u] = "flush_wait" THEN "flush_woken" ELSE left[u]
  <2>1. CASE is_flush_active
    BY <1>2, <2>1, WakeFacts
  <2>2. CASE ~is_flush_active
    BY <1>2, <2>2
  <2> QED
    BY <2>1, <2>2
<1> HIDE DEF woken
<1>5. /\ pc' \in [Threads -> PC]
      /\ \A u \in Threads : pc'[u] = IF woken[u] = "feed_wait" THEN "feed_lock" ELSE woken[u]
  BY <1>3, <1>4, WakeFacts
<1> QED
  BY <1>1, <1>2, <1>4, <1>5

LEMMA PcStop ==
  ASSUME PcIsTyped, StopCall \/ StopSet
  PROVE  /\ pc' \in [Threads -> PC]
         /\ pc'[Stopper] = IF pc[Stopper] = "running" THEN "stop_lock" ELSE "stop_notify"
         /\ \A u \in Threads \ {Stopper} : pc'[u] = pc[u]
<1>1. /\ pc \in [Threads -> PC] /\ Stopper \in Threads
      /\ "stop_lock" \in PC /\ "stop_notify" \in PC
  BY ThreadFacts, LabelsArePC DEF PcIsTyped
<1> QED
  BY <1>1 DEF StopCall, StopSet

LEMMA PcStopNotify ==
  ASSUME PcIsTyped, StopNotify
  PROVE  /\ pc' \in [Threads -> PC]
         /\ pc'[Stopper] = "stopped"
         /\ \A u \in Threads \ {Stopper} :
               pc'[u] = CASE pc[u] = "feed_wait"  -> "feed_lock"
                          [] pc[u] = "take_wait"  -> "take_lock"
                          [] pc[u] = "flush_wait" -> "flush_woken"
                          [] OTHER -> pc[u]
<1> DEFINE p0 == [pc EXCEPT ![Stopper] = "stopped"]
           p1 == WakeFlushers(p0)
           p2 == WakeWorker(p1)
<1>1. pc \in [Threads -> PC] /\ Stopper \in Threads /\ "stopped" \in PC
  BY ThreadFacts, LabelsArePC DEF PcIsTyped
<1>2. /\ p0 \in [Threads -> PC]
      /\ \A u \in Threads : p0[u] = IF u = Stopper THEN "stopped" ELSE pc[u]
  BY <1>1
<1>3. pc' = WakeFeeders(p2)
  BY DEF StopNotify
<1> HIDE DEF p0
<1>4. /\ p1 \in [Threads -> PC]
      /\ \A u \in Threads : p1[u] = IF p0[u] = "flush_wait" THEN "flush_woken" ELSE p0[u]
  BY <1>2, WakeFacts
<1> HIDE DEF p1
<1>5. /\ p2 \in [Threads -> PC]
      /\ \A u \in Threads : p2[u] = IF p1[u] = "take_wait" THEN "take_lock" ELSE p1[u]
  BY <1>4, WakeFacts
<1> HIDE DEF p2
<1>6. /\ pc' \in [Threads -> PC]
      /\ \A u \in Threads : pc'[u] = IF p2[u] = "feed_wait" THEN "feed_lock" ELSE p2[u]
  BY <1>3, <1>5, WakeFacts
<1> QED
  BY <1>1, <1>2, <1>4, <1>5, <1>6

LEMMA PcSpuriousWake ==
  ASSUME PcIsTyped, NEW t \in Threads, SpuriousWake(t)
  PROVE  /\ pc' \in [Threads -> PC]
         /\ \/ pc[t] = "feed_wait" /\ pc'[t] = "feed_lock"
            \/ pc[t] = "take_wait" /\ pc'[t] = "take_lock"
            \/ pc[t] = "flush_wait" /\ pc'[t] = "flush_woken"
         /\ \A u \in Threads \ {t} : pc'[u] = pc[u]
BY LabelsArePC DEF PcIsTyped, SpuriousWake

-----------------------------------------------------------------------------
\* The first layer: who is where

LEMMA ShapeInit == Init => Shape
<1> SUFFICES ASSUME Init PROVE Shape
  OBVIOUS
<1> USE NumbersAssumption
<1>1. TypeOK
  <2>1. /\ pc \in [Threads -> PC]
        /\ mark \in [Clients -> Nat]
        /\ calls \in [Clients -> 0 .. MaxCalls]
    BY DEF Init, PC
  <2>2. block \in [Clients -> Seq(Items)]
    BY DEF Init
  <2>3. /\ buffer_ \in Seq(Items) /\ fed \in Seq(Items)
        /\ first_global_pi_ \in Nat /\ buffer_size_sent \in Nat
        /\ downstream_remaining_capacity_ \in 1 .. DonutCapacity
    BY DEF Init
  <2>4. /\ please_flush_ \in BOOLEAN /\ stopping_ \in BOOLEAN
        /\ is_flush_active \in BOOLEAN
    BY DEF Init
  <2>5. DOMAIN reverse_lookup_map_ \subseteq Hashes
    BY DEF Init
  <2> QED
    BY <2>1, <2>2, <2>3, <2>4, <2>5 DEF TypeOK
<1>2. LabelsMatchRoles
  <2>1. /\ pc[Worker] = "between" /\ pc[Stopper] = "running"
        /\ \A c \in Clients : pc[c] = "idle"
    BY ThreadFacts DEF Init
  <2> QED
    BY <2>1 DEF LabelsMatchRoles
<1>3. BlocksAreBounded
  <2>1. \A c \in Clients : block[c] = << >>
    BY DEF Init
  <2>2. Len(<< >>) <= MaxBlock
    OBVIOUS
  <2> QED
    BY <2>1, <2>2 DEF BlocksAreBounded
<1> QED
  BY <1>1, <1>2, <1>3 DEF Shape

\* A block is a sequence of at most MaxBlock items.
LEMMA BlockFacts ==
  ASSUME NEW b \in Blocks
  PROVE  b \in Seq(Items) /\ Len(b) <= MaxBlock /\ Len(b) \in Nat \ {0}
<1>1. PICK n \in 1 .. MaxBlock : b \in [1 .. n -> Items]
  BY DEF Blocks
<1> QED
  BY <1>1, NumbersAssumption

\* Inserting a block keeps the map's domain among the hashes.
LEMMA MapTypes ==
  ASSUME DOMAIN reverse_lookup_map_ \subseteq Hashes, NEW b \in Seq(Items)
  PROVE  DOMAIN MapWith(b) \subseteq Hashes
<1>1. \A i \in DOMAIN b : b[i] \in Items
  OBVIOUS
<1>2. HashesIn(b) \subseteq Hashes
  BY <1>1 DEF HashesIn, Items
<1> QED
  BY <1>2 DEF MapWith

LEMMA TypeFacts ==
  ASSUME Shape
  PROVE  /\ PcIsTyped
         /\ block \in [Clients -> Seq(Items)]
         /\ mark \in [Clients -> Nat] /\ calls \in [Clients -> 0 .. MaxCalls]
         /\ buffer_ \in Seq(Items) /\ fed \in Seq(Items)
         /\ Len(buffer_) \in Nat /\ Len(fed) \in Nat
         /\ DOMAIN reverse_lookup_map_ \subseteq Hashes
         /\ first_global_pi_ \in Nat /\ buffer_size_sent \in Nat
         /\ downstream_remaining_capacity_ \in 1 .. DonutCapacity
         /\ please_flush_ \in BOOLEAN /\ stopping_ \in BOOLEAN
         /\ is_flush_active \in BOOLEAN
BY DEF Shape, TypeOK, PcIsTyped

LEMMA ShapeFeedCall ==
  ASSUME Shape, NEW c \in Clients, FeedCall(c)
  PROVE  Shape'
<1>1. PcIsTyped
  BY TypeFacts
<1>2. PICK b \in Blocks : block' = [block EXCEPT ![c] = b]
  BY DEF FeedCall
<1>3. b \in Seq(Items) /\ Len(b) <= MaxBlock
  BY BlockFacts
<1>4. calls[c] + 1 \in 0 .. MaxCalls
  BY TypeFacts, NumbersAssumption DEF FeedCall
<1>5. calls' \in [Clients -> 0 .. MaxCalls]
  BY <1>4, TypeFacts DEF FeedCall
<1>6. block' \in [Clients -> Seq(Items)]
  BY <1>2, <1>3, TypeFacts
<1>7. TypeOK'
  BY <1>1, <1>5, <1>6, PcFeedCall, TypeFacts DEF TypeOK, FeedCall, queue, signals
<1>8. LabelsMatchRoles'
  BY <1>1, PcFeedCall, ThreadFacts DEF LabelsMatchRoles, PcIsTyped
<1>9. BlocksAreBounded'
  BY <1>2, <1>3, TypeFacts DEF BlocksAreBounded, Shape
<1> QED
  BY <1>7, <1>8, <1>9 DEF Shape

LEMMA ShapeFlushCall ==
  ASSUME Shape, NEW c \in Clients, FlushCall(c)
  PROVE  Shape'
<1>1. PcIsTyped
  BY TypeFacts
<1>4. calls[c] + 1 \in 0 .. MaxCalls
  BY TypeFacts, NumbersAssumption DEF FlushCall
<1>5. calls' \in [Clients -> 0 .. MaxCalls]
  BY <1>4, TypeFacts DEF FlushCall
<1>7. TypeOK'
  BY <1>1, <1>5, PcFlushCall, TypeFacts DEF TypeOK, FlushCall, queue, signals
<1>8. LabelsMatchRoles'
  BY <1>1, PcFlushCall, ThreadFacts DEF LabelsMatchRoles, PcIsTyped
<1>9. BlocksAreBounded'
  BY DEF BlocksAreBounded, Shape, FlushCall
<1> QED
  BY <1>7, <1>8, <1>9 DEF Shape

LEMMA ShapeFeedEnter ==
  ASSUME Shape, NEW c \in Clients, FeedEnter(c)
  PROVE  Shape'
<1>1. PcIsTyped
  BY TypeFacts
<1>2. block' = block \/ block' = [block EXCEPT ![c] = << >>]
  BY DEF FeedEnter, Accept, Inserted
<1>3. block' \in [Clients -> Seq(Items)]
  <2>1. << >> \in Seq(Items)
    OBVIOUS
  <2> QED
    BY <1>2, <2>1, TypeFacts
<1>4. block[c] \in Seq(Items)
  BY TypeFacts
<1>5. buffer_' \in Seq(Items) /\ fed' \in Seq(Items)
  <2>1. buffer_ \o block[c] \in Seq(Items) /\ fed \o block[c] \in Seq(Items)
    BY <1>4, ConcatProperties, TypeFacts
  <2>2. /\ buffer_' \in {buffer_, buffer_ \o block[c]}
        /\ fed' \in {fed, fed \o block[c]}
    BY DEF FeedEnter, Accept, Inserted, queue
  <2> QED
    BY <2>1, <2>2, TypeFacts
<1>6. DOMAIN reverse_lookup_map_' \subseteq Hashes
  <2>1. reverse_lookup_map_' \in {MapWith(block[c]), reverse_lookup_map_}
    BY DEF FeedEnter, Accept, Inserted, queue
  <2> QED
    BY <1>4, <2>1, MapTypes, TypeFacts
<1>7. UNCHANGED << downstream_remaining_capacity_, first_global_pi_, please_flush_,
                   stopping_, is_flush_active, buffer_size_sent, mark, calls >>
  BY DEF FeedEnter, Accept, Inserted, queue, signals
<1>8. TypeOK'
  BY <1>1, <1>3, <1>5, <1>6, <1>7, PcFeedEnter, TypeFacts DEF TypeOK
<1>9. LabelsMatchRoles'
  BY <1>1, PcFeedEnter, ThreadFacts DEF LabelsMatchRoles, PcIsTyped, Flushing
<1>10. BlocksAreBounded'
  <2>1. Len(<< >>) <= MaxBlock
    BY NumbersAssumption
  <2> QED
    BY <1>2, <2>1, TypeFacts DEF BlocksAreBounded, Shape
<1> QED
  BY <1>8, <1>9, <1>10 DEF Shape

LEMMA ShapeFlushEnter ==
  ASSUME Shape, NEW c \in Clients, FlushEnter(c)
  PROVE  Shape'
<1>1. PcIsTyped
  BY TypeFacts
<1>2. /\ please_flush_' \in {please_flush_, TRUE}
      /\ mark' = mark \/ mark' = [mark EXCEPT ![c] = Len(fed)]
      /\ UNCHANGED << queue, stopping_, block, is_flush_active, buffer_size_sent, calls >>
  BY DEF FlushEnter
<1>3. please_flush_' \in BOOLEAN /\ mark' \in [Clients -> Nat]
  BY <1>2, TypeFacts
<1>4. TypeOK'
  BY <1>1, <1>2, <1>3, PcFlushEnter, TypeFacts DEF TypeOK, queue
<1>5. LabelsMatchRoles'
  BY <1>1, PcFlushEnter, ThreadFacts DEF LabelsMatchRoles, PcIsTyped, Flushing
<1>6. BlocksAreBounded'
  BY <1>2 DEF BlocksAreBounded, Shape
<1> QED
  BY <1>4, <1>5, <1>6 DEF Shape

LEMMA ShapeFlushRecheck ==
  ASSUME Shape, NEW c \in Clients, FlushRecheck(c)
  PROVE  Shape'
<1>1. PcIsTyped
  BY TypeFacts
<1>2. UNCHANGED << queue, signals, locals >>
  BY DEF FlushRecheck
<1>4. TypeOK'
  BY <1>1, <1>2, PcFlushRecheck, TypeFacts DEF TypeOK, queue, signals, locals
<1>5. LabelsMatchRoles'
  BY <1>1, PcFlushRecheck, ThreadFacts DEF LabelsMatchRoles, PcIsTyped, Flushing
<1>6. BlocksAreBounded'
  BY <1>2 DEF BlocksAreBounded, Shape, locals
<1> QED
  BY <1>4, <1>5, <1>6 DEF Shape

LEMMA ShapeTake ==
  ASSUME Shape, TakeCall \/ TakeNoMore \/ TakeEnter
  PROVE  Shape'
<1>1. PcIsTyped
  BY TypeFacts
<1>2. /\ UNCHANGED << queue, signals, block, mark, calls >>
      /\ is_flush_active' \in {is_flush_active, please_flush_}
      /\ buffer_size_sent' \in {buffer_size_sent, Len(buffer_)}
  BY DEF TakeCall, TakeNoMore, TakeEnter, locals
<1>3. is_flush_active' \in BOOLEAN /\ buffer_size_sent' \in Nat
  BY <1>2, TypeFacts
<1>4. TypeOK'
  BY <1>1, <1>2, <1>3, PcTake, TypeFacts DEF TypeOK, queue, signals
<1>5. LabelsMatchRoles'
  BY <1>1, PcTake, ThreadFacts DEF LabelsMatchRoles, PcIsTyped, Flushing
<1>6. BlocksAreBounded'
  BY <1>2 DEF BlocksAreBounded, Shape
<1> QED
  BY <1>4, <1>5, <1>6 DEF Shape

\* What Consume(k) leaves in the buffer.
LEMMA ConsumeFacts ==
  ASSUME Shape, NEW k \in 0 .. Len(buffer_), Consume(k)
  PROVE  /\ buffer_' \in Seq(Items)
         /\ Len(buffer_') = Len(buffer_) - k
         /\ \A i \in 1 .. Len(buffer_') : buffer_'[i] = buffer_[k + i]
<1>1. /\ buffer_ \in Seq(Items) /\ Len(buffer_) \in Nat /\ k \in Nat
      /\ buffer_' = SubSeq(buffer_, k + 1, Len(buffer_))
  BY TypeFacts DEF Consume
<1>2. \A i \in k + 1 .. Len(buffer_) : buffer_[i] \in Items
  BY <1>1
<1>3. /\ buffer_' \in Seq(Items)
      /\ Len(buffer_') = IF k + 1 <= Len(buffer_) THEN Len(buffer_) - (k + 1) + 1 ELSE 0
      /\ \A i \in 1 .. Len(buffer_) - (k + 1) + 1 : buffer_'[i] = buffer_[(k + 1) + i - 1]
  BY <1>1, <1>2, SubSeqProperties
<1> QED
  BY <1>1, <1>3

LEMMA ShapeConsume ==
  ASSUME Shape, NEW k \in 0 .. Len(buffer_), Consume(k)
  PROVE  Shape'
<1>1. UNCHANGED << downstream_remaining_capacity_, reverse_lookup_map_,
                   first_global_pi_, fed, signals, pc, locals >>
  BY DEF Consume
<1>2. TypeOK'
  BY <1>1, ConsumeFacts DEF TypeOK, signals, locals, Shape
<1>3. LabelsMatchRoles' /\ BlocksAreBounded'
  BY <1>1 DEF LabelsMatchRoles, BlocksAreBounded, Shape, locals
<1> QED
  BY <1>2, <1>3 DEF Shape

LEMMA ShapeTakeLeave ==
  ASSUME Shape, NEW n \in 1 .. DonutCapacity, TakeLeave(n)
  PROVE  Shape'
<1>1. PcIsTyped
  BY TypeFacts
<1>2. /\ downstream_remaining_capacity_' = n
      /\ first_global_pi_' = first_global_pi_ + buffer_size_sent
      /\ DOMAIN reverse_lookup_map_' = {}
      /\ please_flush_' = (please_flush_ /\ ~is_flush_active)
      /\ is_flush_active' = FALSE
      /\ buffer_size_sent' = 0
      /\ UNCHANGED << buffer_, fed, stopping_, block, mark, calls >>
  BY DEF TakeLeave, FirstPiAfterTake, MapCleared
<1>3. first_global_pi_' \in Nat /\ please_flush_' \in BOOLEAN
  BY <1>2, TypeFacts
<1>4. TypeOK'
  BY <1>1, <1>2, <1>3, PcTakeLeave, TypeFacts DEF TypeOK
<1>5. LabelsMatchRoles'
  BY <1>1, PcTakeLeave, ThreadFacts DEF LabelsMatchRoles, PcIsTyped, Flushing
<1>6. BlocksAreBounded'
  BY <1>2 DEF BlocksAreBounded, Shape
<1> QED
  BY <1>4, <1>5, <1>6 DEF Shape

LEMMA ShapeStop ==
  ASSUME Shape, StopCall \/ StopSet \/ StopNotify
  PROVE  Shape'
<1>1. PcIsTyped
  BY TypeFacts
<1>2. UNCHANGED << queue, locals >> /\ please_flush_' \in BOOLEAN /\ stopping_' \in BOOLEAN
  BY TypeFacts DEF StopCall, StopSet, StopNotify, signals
<1>3. pc' \in [Threads -> PC]
  BY <1>1, PcStop, PcStopNotify
<1>4. TypeOK'
  BY <1>2, <1>3, TypeFacts DEF TypeOK, queue, locals
<1>5. LabelsMatchRoles'
  <2>1. CASE StopCall \/ StopSet
    BY <1>1, <2>1, PcStop, ThreadFacts DEF LabelsMatchRoles, PcIsTyped, Flushing
  <2>2. CASE StopNotify
    BY <1>1, <2>2, PcStopNotify, ThreadFacts DEF LabelsMatchRoles, PcIsTyped, Flushing
  <2> QED
    BY <2>1, <2>2
<1>6. BlocksAreBounded'
  BY <1>2 DEF BlocksAreBounded, Shape, locals
<1> QED
  BY <1>4, <1>5, <1>6 DEF Shape

LEMMA ShapeSpuriousWake ==
  ASSUME Shape, NEW t \in Threads, SpuriousWake(t)
  PROVE  Shape'
<1>1. PcIsTyped
  BY TypeFacts
<1>2. UNCHANGED << queue, signals, locals >>
  BY DEF SpuriousWake
<1>4. TypeOK'
  BY <1>1, <1>2, PcSpuriousWake, TypeFacts DEF TypeOK, queue, signals, locals
<1>5. LabelsMatchRoles'
  <2>1. t \in Clients \/ t = Worker \/ t = Stopper
    BY DEF Threads
  <2> QED
    BY <1>1, <2>1, PcSpuriousWake, ThreadFacts DEF LabelsMatchRoles, PcIsTyped, Flushing
<1>6. BlocksAreBounded'
  BY <1>2 DEF BlocksAreBounded, Shape, locals
<1> QED
  BY <1>4, <1>5, <1>6 DEF Shape

\* The first layer is inductive on its own.
LEMMA ShapeStep == Shape /\ [Next]_vars => Shape'
<1> SUFFICES ASSUME Shape, [Next]_vars PROVE Shape'
  OBVIOUS
<1>1. CASE \E c \in Clients : ClientCalls(c) \/ ClientStep(c)
  BY <1>1, ShapeFeedCall, ShapeFlushCall, ShapeFeedEnter, ShapeFlushEnter, ShapeFlushRecheck
     DEF ClientCalls, ClientStep
<1>2. CASE WorkerStep
  <2>1. \A k \in 1 .. Len(buffer_) : k \in 0 .. Len(buffer_)
    BY TypeFacts
  <2> QED
    BY <1>2, <2>1, ShapeTake, ShapeConsume, ShapeTakeLeave DEF WorkerStep, LambdaReturns
<1>3. CASE StopperStep
  BY <1>3, ShapeStop DEF StopperStep
<1>4. CASE \E t \in Threads : SpuriousWake(t)
  BY <1>4, ShapeSpuriousWake
<1>5. CASE UNCHANGED vars
  BY <1>5 DEF Shape, TypeOK, LabelsMatchRoles, BlocksAreBounded, vars, queue, signals, locals
<1> QED
  BY <1>1, <1>2, <1>3, <1>4, <1>5 DEF Next

-----------------------------------------------------------------------------
\* The second layer: what the numbers say

LEMMA NumbersInit == Init => Numbers
<1> SUFFICES ASSUME Init PROVE Numbers
  OBVIOUS
<1>1. /\ buffer_ = << >> /\ fed = << >> /\ first_global_pi_ = FirstPi
      /\ pc[Worker] = "between" /\ downstream_remaining_capacity_ \in 1 .. DonutCapacity
  BY ThreadFacts DEF Init
<1>2. Len(<< >>) = 0
  OBVIOUS
<1> QED
  BY <1>1, <1>2, NumbersAssumption
     DEF Numbers, BufferIsEndOfFed, OffsetsAgree, BacklogIsBounded, LambdaGetsItems, MutexFree

\* Actions that leave the queue alone and the worker outside the lambda.
LEMMA NumbersFrame ==
  ASSUME Shape, Numbers, UNCHANGED << queue, buffer_size_sent >>,
         pc'[Worker] = "lambda" <=> pc[Worker] = "lambda"
  PROVE  Numbers'
BY DEF Numbers, BufferIsEndOfFed, OffsetsAgree, BacklogIsBounded, LambdaGetsItems,
       MutexFree, Taken, queue

LEMMA NumbersFeedEnter ==
  ASSUME Shape, Numbers, NEW c \in Clients, FeedEnter(c)
  PROVE  Numbers'
<1>1. PcIsTyped /\ block[c] \in Seq(Items) /\ Len(block[c]) \in Nat /\ Len(block[c]) <= MaxBlock
  BY TypeFacts DEF Shape, BlocksAreBounded
<1>2. MutexFree /\ MutexFree' /\ UNCHANGED buffer_size_sent
  BY <1>1, PcFeedEnter, ThreadFacts DEF FeedEnter, MutexFree
<1>3. CASE UNCHANGED queue
  BY <1>2, <1>3, NumbersFrame DEF MutexFree
<1>4. CASE Accept(c) /\ MayFeed /\ ~stopping_
  <2>1. /\ buffer_' = buffer_ \o block[c] /\ fed' = fed \o block[c]
        /\ UNCHANGED << downstream_remaining_capacity_, first_global_pi_ >>
    BY <1>4 DEF Accept, Inserted
  <2>2. /\ buffer_ \in Seq(Items) /\ fed \in Seq(Items)
        /\ Len(buffer_) \in Nat /\ Len(fed) \in Nat
        /\ downstream_remaining_capacity_ \in Nat /\ first_global_pi_ \in Nat
    BY TypeFacts, NumbersAssumption
  <2>3. /\ Len(buffer_') = Len(buffer_) + Len(block[c])
        /\ Len(fed') = Len(fed) + Len(block[c])
        /\ \A i \in 1 .. Len(buffer_) + Len(block[c]) :
              buffer_'[i] = IF i <= Len(buffer_) THEN buffer_[i] ELSE block[c][i - Len(buffer_)]
        /\ \A i \in 1 .. Len(fed) + Len(block[c]) :
              fed'[i] = IF i <= Len(fed) THEN fed[i] ELSE block[c][i - Len(fed)]
    BY <1>1, <2>1, <2>2, ConcatProperties
  <2>4. BufferIsEndOfFed'
    <3>1. Len(buffer_) <= Len(fed) /\ \A i \in 1 .. Len(buffer_) : buffer_[i] = fed[Taken + i]
      BY DEF Numbers, BufferIsEndOfFed
    <3>2. Taken' = Taken /\ Taken \in Nat /\ Taken = Len(fed) - Len(buffer_)
      BY <1>1, <2>2, <2>3, <3>1 DEF Taken
    <3>3. ASSUME NEW i \in 1 .. Len(buffer_')
          PROVE  buffer_'[i] = fed'[Taken + i]
      <4>1. CASE i <= Len(buffer_)
        <5>1. /\ i \in 1 .. Len(buffer_) /\ i \in 1 .. Len(buffer_) + Len(block[c])
              /\ Taken + i <= Len(fed) /\ Taken + i \in 1 .. Len(fed) + Len(block[c])
          BY <1>1, <2>2, <2>3, <3>2, <4>1
        <5>2. buffer_'[i] = buffer_[i] /\ fed'[Taken + i] = fed[Taken + i]
          BY <2>3, <4>1, <5>1
        <5> QED
          BY <3>1, <5>1, <5>2
      <4>2. CASE i > Len(buffer_)
        <5>1. /\ Taken + i \in 1 .. Len(fed) + Len(block[c])
              /\ Taken + i > Len(fed)
              /\ Taken + i - Len(fed) = i - Len(buffer_)
          BY <1>1, <2>2, <2>3, <3>2, <4>2
        <5> QED
          BY <1>1, <2>2, <2>3, <3>2, <4>2, <5>1
      <4> QED
        BY <2>2, <4>1, <4>2
    <3> QED
      BY <1>1, <2>2, <2>3, <3>1, <3>2, <3>3 DEF BufferIsEndOfFed
  <2>5. OffsetsAgree'
    <3>1. first_global_pi_ + Len(buffer_) = FirstPi + Len(fed)
      BY <1>2 DEF Numbers, OffsetsAgree
    <3>2. first_global_pi_' + Len(buffer_') = FirstPi + Len(fed')
      <4>1. /\ first_global_pi_' = first_global_pi_
            /\ Len(buffer_') = Len(buffer_) + Len(block[c])
            /\ Len(fed') = Len(fed) + Len(block[c])
        BY <2>1, <2>3
      <4>2. /\ first_global_pi_ \in Nat /\ Len(buffer_) \in Nat /\ Len(fed) \in Nat
            /\ Len(block[c]) \in Nat /\ FirstPi \in Nat
        BY <1>1, <2>2, NumbersAssumption
      <4> QED
        BY <3>1, <4>1, <4>2
    <3> QED
      BY <1>2, <3>2 DEF OffsetsAgree
  <2>6. BacklogIsBounded'
    BY <1>1, <1>4, <2>1, <2>2, <2>3, NumbersAssumption DEF BacklogIsBounded, MayFeed, SomeFits
  <2>7. LambdaGetsItems'
    BY <1>2 DEF LambdaGetsItems, MutexFree
  <2> QED
    BY <2>4, <2>5, <2>6, <2>7 DEF Numbers
<1> QED
  BY <1>3, <1>4 DEF FeedEnter

LEMMA NumbersTakeEnter ==
  ASSUME Shape, Numbers, RequestHasItems, TakeEnter
  PROVE  Numbers'
<1>1. PcIsTyped /\ UNCHANGED queue /\ MutexFree
  BY TypeFacts DEF TakeEnter, MutexFree
<1>2. CASE /\ UNCHANGED buffer_size_sent
           /\ pc' \in {[pc EXCEPT ![Worker] = "take_wait"], [pc EXCEPT ![Worker] = "between"]}
  <2>1. pc'[Worker] # "lambda"
    BY <1>1, <1>2, ThreadFacts DEF PcIsTyped
  <2> QED
    BY <1>1, <1>2, <2>1, NumbersFrame DEF MutexFree
<1>3. CASE /\ MayTake /\ ~(stopping_ /\ buffer_ = << >>)
           /\ buffer_size_sent' = Len(buffer_)
           /\ pc' = [pc EXCEPT ![Worker] = "lambda"]
  <2>1. pc'[Worker] = "lambda"
    BY <1>1, <1>3, ThreadFacts DEF PcIsTyped
  <2>2. /\ buffer_ \in Seq(Items) /\ Len(buffer_) \in Nat /\ Len(fed) \in Nat
        /\ downstream_remaining_capacity_ \in 1 .. DonutCapacity
    BY TypeFacts
  <2>3. Len(buffer_) > 0
    <3>1. CASE buffer_ # << >>
      BY <2>2, <3>1
    <3>2. CASE Len(buffer_) >= downstream_remaining_capacity_
      BY <2>2, <3>2, NumbersAssumption
    <3> QED
      BY <1>1, <1>3, <3>1, <3>2 DEF MayTake, RequestHasItems
  <2>4. OffsetsAgree'
    BY <1>1, <1>3, <2>1 DEF Numbers, OffsetsAgree, MutexFree, queue
  <2>5. LambdaGetsItems'
    BY <1>3, <2>3 DEF LambdaGetsItems
  <2>6. BufferIsEndOfFed' /\ BacklogIsBounded'
    BY <1>1 DEF Numbers, BufferIsEndOfFed, BacklogIsBounded, Taken, queue
  <2> QED
    BY <2>4, <2>5, <2>6 DEF Numbers
<1> QED
  BY <1>2, <1>3 DEF TakeEnter

LEMMA NumbersConsume ==
  ASSUME Shape, Numbers, NEW k \in 0 .. Len(buffer_), Consume(k)
  PROVE  Numbers'
<1>1. /\ UNCHANGED << downstream_remaining_capacity_, first_global_pi_, fed,
                      pc, buffer_size_sent >>
      /\ ~MutexFree
  BY DEF Consume, locals, MutexFree
<1>2. /\ Len(buffer_) \in Nat /\ Len(fed) \in Nat /\ k \in Nat
      /\ downstream_remaining_capacity_ \in Nat
  BY TypeFacts, NumbersAssumption
<1>3. /\ Len(buffer_') = Len(buffer_) - k
      /\ \A i \in 1 .. Len(buffer_') : buffer_'[i] = buffer_[k + i]
  BY ConsumeFacts
<1>4. BufferIsEndOfFed'
  <2>1. Len(buffer_) <= Len(fed) /\ \A i \in 1 .. Len(buffer_) : buffer_[i] = fed[Taken + i]
    BY DEF Numbers, BufferIsEndOfFed
  <2>2. Taken' = Taken + k /\ Taken \in Nat
    BY <1>1, <1>2, <1>3, <2>1 DEF Taken
  <2>3. ASSUME NEW i \in 1 .. Len(buffer_')
        PROVE  buffer_'[i] = fed'[Taken' + i]
    <3>1. k + i \in 1 .. Len(buffer_) /\ Taken + (k + i) = Taken' + i
      BY <1>2, <1>3, <2>2
    <3> QED
      BY <1>1, <1>3, <2>1, <3>1
  <2> QED
    <3>1. Len(buffer_') <= Len(fed')
      BY <1>1, <1>2, <1>3, <2>1
    <3> QED
      BY <2>3, <3>1 DEF BufferIsEndOfFed
<1>5. OffsetsAgree' /\ LambdaGetsItems'
  BY <1>1 DEF Numbers, OffsetsAgree, LambdaGetsItems, MutexFree
<1>6. BacklogIsBounded'
  BY <1>1, <1>2, <1>3, NumbersAssumption DEF Numbers, BacklogIsBounded
<1> QED
  BY <1>4, <1>5, <1>6 DEF Numbers

LEMMA NumbersTakeLeave ==
  ASSUME Shape, Numbers, buffer_ = << >>, NEW n \in 1 .. DonutCapacity, TakeLeave(n)
  PROVE  Numbers'
<1>1. PcIsTyped /\ first_global_pi_ \in Nat /\ Len(fed) \in Nat /\ Len(buffer_) = 0
  BY TypeFacts
<1>2. ~MutexFree /\ MutexFree'
  BY <1>1, PcTakeLeave DEF TakeLeave, MutexFree
<1>3. /\ first_global_pi_' = first_global_pi_ + buffer_size_sent
      /\ downstream_remaining_capacity_' = n
      /\ UNCHANGED << buffer_, fed >>
  BY DEF TakeLeave, FirstPiAfterTake
<1>4. OffsetsAgree'
  BY <1>1, <1>2, <1>3, NumbersAssumption DEF Numbers, OffsetsAgree
<1>5. BacklogIsBounded'
  BY <1>1, <1>3, NumbersAssumption DEF BacklogIsBounded
<1>6. BufferIsEndOfFed' /\ LambdaGetsItems'
  BY <1>2, <1>3 DEF Numbers, BufferIsEndOfFed, LambdaGetsItems, Taken, MutexFree
<1> QED
  BY <1>4, <1>5, <1>6 DEF Numbers

LEMMA NumbersStep == Shape /\ Numbers /\ RequestHasItems /\ [Next]_vars => Numbers'
<1> SUFFICES ASSUME Shape, Numbers, RequestHasItems, [Next]_vars PROVE Numbers'
  OBVIOUS
<1>0. PcIsTyped
  BY TypeFacts
<1>1. ASSUME NEW c \in Clients, ClientCalls(c) \/ ClientStep(c) PROVE Numbers'
  <2>1. CASE FeedCall(c)
    <3>1. UNCHANGED << queue, buffer_size_sent >> /\ pc'[Worker] = pc[Worker]
      BY <1>0, <2>1, PcFeedCall, ThreadFacts DEF FeedCall
    <3> QED
      BY <3>1, NumbersFrame
  <2>2. CASE FlushCall(c)
    <3>1. UNCHANGED << queue, buffer_size_sent >> /\ pc'[Worker] = pc[Worker]
      BY <1>0, <2>2, PcFlushCall, ThreadFacts DEF FlushCall
    <3> QED
      BY <3>1, NumbersFrame
  <2>3. CASE FlushEnter(c)
    <3>1. /\ UNCHANGED << queue, buffer_size_sent >>
          /\ pc'[Worker] = "lambda" <=> pc[Worker] = "lambda"
      BY <1>0, <2>3, PcFlushEnter, ThreadFacts DEF FlushEnter
    <3> QED
      BY <3>1, NumbersFrame
  <2>4. CASE FlushRecheck(c)
    <3>1. UNCHANGED << queue, buffer_size_sent >> /\ pc'[Worker] = pc[Worker]
      BY <1>0, <2>4, PcFlushRecheck, ThreadFacts DEF FlushRecheck, locals
    <3> QED
      BY <3>1, NumbersFrame
  <2> QED
    BY <1>1, <2>1, <2>2, <2>3, <2>4, NumbersFeedEnter DEF ClientCalls, ClientStep
<1>2. CASE WorkerStep
  <2>1. CASE TakeCall \/ TakeNoMore
    <3>1. UNCHANGED << queue, buffer_size_sent >> /\ pc[Worker] = "between"
          /\ pc'[Worker] # "lambda"
      BY <1>0, <2>1, ThreadFacts DEF TakeCall, TakeNoMore, locals, PcIsTyped
    <3> QED
      BY <3>1, NumbersFrame
  <2>2. CASE LambdaReturns
    BY <2>2, NumbersTakeLeave DEF LambdaReturns
  <2>3. \A k \in 1 .. Len(buffer_) : k \in 0 .. Len(buffer_)
    BY TypeFacts
  <2> QED
    BY <1>2, <2>1, <2>2, <2>3, NumbersTakeEnter, NumbersConsume DEF WorkerStep
<1>3. CASE StopperStep
  <2>1. UNCHANGED << queue, buffer_size_sent >>
    BY <1>3 DEF StopperStep, StopCall, StopSet, StopNotify, locals
  <2>2. pc'[Worker] = "lambda" <=> pc[Worker] = "lambda"
    BY <1>0, <1>3, PcStop, PcStopNotify, ThreadFacts DEF StopperStep
  <2> QED
    BY <2>1, <2>2, NumbersFrame
<1>4. ASSUME NEW t \in Threads, SpuriousWake(t) PROVE Numbers'
  <2>1. UNCHANGED << queue, buffer_size_sent >>
    BY <1>4 DEF SpuriousWake, locals
  <2>2. pc'[Worker] = "lambda" <=> pc[Worker] = "lambda"
    BY <1>0, <1>4, PcSpuriousWake, ThreadFacts
  <2> QED
    BY <2>1, <2>2, NumbersFrame
<1>5. CASE UNCHANGED vars
  BY <1>5, NumbersFrame DEF vars, locals
<1> QED
  BY <1>1, <1>2, <1>3, <1>4, <1>5 DEF Next

-----------------------------------------------------------------------------
\* The third layer: who waits for what

LEMMA WaitingInit == Init => Waiting
<1> SUFFICES ASSUME Init PROVE Waiting
  OBVIOUS
<1>1. /\ please_flush_ = FALSE /\ pc[Worker] = "between"
      /\ \A c \in Clients : pc[c] = "idle"
  BY ThreadFacts DEF Init
<1> QED
  BY <1>1 DEF Waiting, RequestHasItems, MarksAreReached, NoSleeperLeftBehind,
              MutexFree, Flushing

\* Actions that change neither the queue nor the signals, and after which
\* nobody sleeps who did not sleep before.
LEMMA WaitingFrame ==
  ASSUME Shape, Waiting, UNCHANGED << queue, signals, is_flush_active, mark >>,
         pc'[Worker] = "lambda" <=> pc[Worker] = "lambda",
         pc'[Stopper] = "stop_notify" <=> pc[Stopper] = "stop_notify",
         pc'[Worker] = "take_wait" => pc[Worker] = "take_wait",
         \A c \in Clients : /\ pc'[c] \in Flushing => pc[c] \in Flushing
                            /\ pc'[c] = "feed_wait" => pc[c] = "feed_wait"
                            /\ pc'[c] = "flush_wait" => pc[c] = "flush_wait"
  PROVE  Waiting'
<1>1. RequestHasItems'
  BY DEF Waiting, RequestHasItems, MutexFree, queue, signals
<1>2. MarksAreReached'
  BY DEF Waiting, MarksAreReached, Taken, queue, signals
<1>3. NoSleeperLeftBehind'
  BY DEF Waiting, NoSleeperLeftBehind, MutexFree, MayFeed, SomeFits, FlushDone, MayTake,
         queue, signals
<1> QED
  BY <1>1, <1>2, <1>3 DEF Waiting

LEMMA WaitingFeedEnter ==
  ASSUME Shape, Numbers, Waiting, NEW c \in Clients, FeedEnter(c)
  PROVE  Waiting'
<1>0. /\ PcIsTyped /\ MutexFree /\ UNCHANGED << signals, is_flush_active, mark >>
      /\ buffer_ \in Seq(Items) /\ fed \in Seq(Items) /\ block[c] \in Seq(Items)
      /\ Len(buffer_) \in Nat /\ Len(fed) \in Nat /\ Len(block[c]) \in Nat
      /\ downstream_remaining_capacity_ \in Nat
  BY TypeFacts, NumbersAssumption DEF FeedEnter
<1>1. CASE /\ UNCHANGED queue
           /\ ~MayFeed \/ pc'[c] = "idle"
           /\ pc'[c] \in {"idle", "feed_wait"}
           /\ \A u \in Threads \ {c} : pc'[u] = pc[u]
  <2>1. RequestHasItems'
    BY <1>0, <1>1, ThreadFacts DEF Waiting, RequestHasItems, MutexFree, queue, signals
  <2>2. MarksAreReached'
    BY <1>0, <1>1, ThreadFacts DEF Waiting, MarksAreReached, Taken, queue, signals, Flushing
  <2>3. NoSleeperLeftBehind'
    BY <1>0, <1>1, ThreadFacts
       DEF Waiting, NoSleeperLeftBehind, MutexFree, MayFeed, SomeFits, FlushDone, MayTake,
           queue, signals
  <2> QED
    BY <2>1, <2>2, <2>3 DEF Waiting
<1>2. CASE /\ Accept(c) /\ ~stopping_ /\ pc'[c] = "idle"
           /\ \A u \in Threads \ {c} :
                 pc'[u] = IF pc[u] = "take_wait" THEN "take_lock" ELSE pc[u]
  <2>1. /\ buffer_' = buffer_ \o block[c] /\ fed' = fed \o block[c]
        /\ UNCHANGED downstream_remaining_capacity_
    BY <1>2 DEF Accept, Inserted
  <2>2. /\ Len(buffer_') = Len(buffer_) + Len(block[c])
        /\ Len(fed') = Len(fed) + Len(block[c])
        /\ buffer_' \in Seq(Items)
    BY <1>0, <2>1, ConcatProperties
  <2>3. Taken' = Taken
    BY <1>0, <2>2 DEF Taken
  <2>4. MutexFree' /\ pc'[Worker] # "take_wait" /\ pc'[Stopper] = pc[Stopper]
    BY <1>0, <1>2, ThreadFacts DEF MutexFree, PcIsTyped, LabelsMatchRoles
  <2>5. \A d \in Clients : /\ pc'[d] = "feed_wait" => pc[d] = "feed_wait"
                           /\ pc'[d] = "flush_wait" => pc[d] = "flush_wait"
                           /\ pc'[d] \in Flushing => pc[d] \in Flushing
    BY <1>0, <1>2, ThreadFacts DEF PcIsTyped, LabelsMatchRoles, Flushing
  <2>6. RequestHasItems'
    <3>1. buffer_ # << >> => buffer_' # << >>
      BY <1>0, <2>2
    <3> QED
      BY <1>0, <2>4, <3>1 DEF Waiting, RequestHasItems, signals
  <2>7. MarksAreReached'
    <3>1. \A m \in Nat : m <= Len(fed) => m <= Len(fed')
      BY <1>0, <2>2
    <3>2. \A d \in Clients : mark[d] \in Nat
      BY TypeFacts
    <3> QED
      BY <1>0, <2>3, <2>5, <3>1, <3>2 DEF Waiting, MarksAreReached, signals
  <2>8. NoSleeperLeftBehind'
    <3>1. SomeFits' => SomeFits
      BY <1>0, <2>1, <2>2 DEF SomeFits
    <3> QED
      BY <1>0, <2>4, <2>5, <3>1
         DEF Waiting, NoSleeperLeftBehind, MayFeed, FlushDone, signals
  <2> QED
    BY <2>6, <2>7, <2>8 DEF Waiting
<1>3. \/ UNCHANGED queue /\ ~MayFeed /\ pc' = [pc EXCEPT ![c] = "feed_wait"]
      \/ UNCHANGED queue /\ pc' = [pc EXCEPT ![c] = "idle"]
      \/ Accept(c) /\ ~stopping_ /\ MayFeed
  BY DEF FeedEnter
<1>4. ASSUME ~(Accept(c) /\ ~stopping_ /\ MayFeed) PROVE Waiting'
  <2>1. /\ ~MayFeed \/ pc'[c] = "idle"
        /\ pc'[c] \in {"idle", "feed_wait"}
        /\ \A u \in Threads \ {c} : pc'[u] = pc[u]
    BY <1>0, <1>3, <1>4, ThreadFacts DEF PcIsTyped
  <2> QED
    BY <1>1, <1>3, <1>4, <2>1
<1>5. ASSUME Accept(c), ~stopping_, MayFeed PROVE Waiting'
  BY <1>0, <1>2, <1>5, PcFeedEnter
<1> QED
  BY <1>4, <1>5

LEMMA WaitingFlushEnter ==
  ASSUME Shape, Numbers, Waiting, NEW c \in Clients, FlushEnter(c)
  PROVE  Waiting'
<1>0. /\ PcIsTyped /\ MutexFree /\ UNCHANGED << queue, stopping_, is_flush_active >>
      /\ Len(fed) \in Nat /\ mark \in [Clients -> Nat]
  BY TypeFacts DEF FlushEnter
<1>1. CASE buffer_ = << >>
  <2>1. /\ UNCHANGED << please_flush_, mark >> /\ pc'[c] = "idle"
        /\ \A u \in Threads \ {c} : pc'[u] = pc[u]
    BY <1>0, <1>1, PcFlushEnter DEF FlushEnter, NothingToFlush
  <2> QED
    BY <1>0, <2>1, WaitingFrame, ThreadFacts DEF signals, Flushing
<1>2. CASE buffer_ # << >>
  <2>1. /\ please_flush_' = TRUE /\ mark' = [mark EXCEPT ![c] = Len(fed)]
        /\ pc'[c] = IF stopping_ THEN "idle" ELSE "flush_wait"
        /\ \A u \in Threads \ {c} :
              pc'[u] = IF pc[u] = "take_wait" THEN "take_lock" ELSE pc[u]
    BY <1>0, <1>2, PcFlushEnter DEF FlushEnter, NothingToFlush
  <2>2. MutexFree' /\ pc'[Worker] # "take_wait" /\ pc'[Stopper] = pc[Stopper]
    BY <1>0, <2>1, ThreadFacts DEF MutexFree, PcIsTyped, LabelsMatchRoles
  <2>3. \A d \in Clients : /\ pc'[d] = "feed_wait" => pc[d] = "feed_wait"
                           /\ pc'[d] = "flush_wait" /\ d # c => pc[d] = "flush_wait"
                           /\ pc'[d] \in Flushing /\ d # c => pc[d] \in Flushing
    BY <1>0, <2>1, ThreadFacts DEF PcIsTyped, LabelsMatchRoles, Flushing
  <2>4. RequestHasItems'
    BY <1>0, <1>2, <2>2 DEF RequestHasItems, queue
  <2>5. MarksAreReached'
    <3>1. \A d \in Clients : mark'[d] = IF d = c THEN Len(fed) ELSE mark[d]
      BY <1>0, <2>1
    <3>2. fed' = fed
      BY <1>0 DEF queue
    <3>3. ASSUME NEW d \in Clients, pc'[d] \in Flushing
          PROVE  mark'[d] <= Len(fed')
      <4>1. CASE d = c
        BY <1>0, <3>1, <3>2, <4>1
      <4>2. CASE d # c
        BY <2>3, <3>1, <3>2, <3>3, <4>2 DEF Waiting, MarksAreReached
      <4> QED
        BY <4>1, <4>2
    <3> QED
      BY <2>1, <3>3 DEF MarksAreReached
  <2>6. NoSleeperLeftBehind'
    <3>1. MayFeed' = MayFeed
      BY <1>0 DEF MayFeed, SomeFits, queue
    <3>2. (\E d \in Clients : pc'[d] = "flush_wait") /\ pc[Stopper] # "stop_notify" => ~stopping_
      BY <1>0, <2>1, <2>3 DEF Waiting, NoSleeperLeftBehind, FlushDone
    <3> QED
      BY <1>0, <2>1, <2>2, <2>3, <3>1, <3>2 DEF Waiting, NoSleeperLeftBehind, FlushDone
  <2> QED
    BY <2>4, <2>5, <2>6 DEF Waiting
<1> QED
  BY <1>1, <1>2

LEMMA WaitingFlushRecheck ==
  ASSUME Shape, Waiting, NEW c \in Clients, FlushRecheck(c)
  PROVE  Waiting'
<1>0. /\ PcIsTyped /\ MutexFree /\ UNCHANGED << queue, signals, is_flush_active, mark >>
      /\ pc[c] = "flush_woken"
  BY TypeFacts DEF FlushRecheck, locals
<1>1. /\ pc'[c] = IF FlushDone THEN "idle" ELSE "flush_wait"
      /\ \A u \in Threads \ {c} : pc'[u] = pc[u]
  BY <1>0, PcFlushRecheck
<1>2. RequestHasItems'
  BY <1>0, <1>1, ThreadFacts DEF Waiting, RequestHasItems, MutexFree, queue, signals
<1>3. MarksAreReached'
  <2>1. \A d \in Clients : pc'[d] \in Flushing => pc[d] \in Flushing
    BY <1>0, <1>1, ThreadFacts DEF Flushing
  <2> QED
    BY <1>0, <2>1 DEF Waiting, MarksAreReached, Taken, queue, signals
<1>4. NoSleeperLeftBehind'
  BY <1>0, <1>1, ThreadFacts
     DEF Waiting, NoSleeperLeftBehind, MutexFree, MayFeed, SomeFits, FlushDone, MayTake,
         queue, signals
<1> QED
  BY <1>2, <1>3, <1>4 DEF Waiting

LEMMA WaitingTakeEnter ==
  ASSUME Shape, Waiting, TakeEnter
  PROVE  Waiting'
<1>0. /\ PcIsTyped /\ MutexFree /\ UNCHANGED << queue, signals, mark >>
      /\ \A u \in Threads \ {Worker} : pc'[u] = pc[u]
  BY TypeFacts, PcTake DEF TakeEnter, MutexFree
<1>1. \A c \in Clients : pc'[c] = pc[c]
  BY <1>0, ThreadFacts
<1>2. MarksAreReached'
  BY <1>0, <1>1 DEF Waiting, MarksAreReached, Taken, queue, signals
<1>3. pc'[Stopper] = pc[Stopper]
  BY <1>0, ThreadFacts
<1>4. CASE /\ ~MayTake \/ pc'[Worker] = "between"
           /\ pc'[Worker] \in {"between", "take_wait"}
  <2>1. RequestHasItems'
    BY <1>0, <1>4 DEF Waiting, RequestHasItems, MutexFree, queue, signals
  <2>2. NoSleeperLeftBehind'
    BY <1>0, <1>1, <1>3, <1>4
       DEF Waiting, NoSleeperLeftBehind, MutexFree, MayFeed, SomeFits, FlushDone, MayTake,
           queue, signals
  <2> QED
    BY <1>2, <2>1, <2>2 DEF Waiting
<1>5. CASE pc'[Worker] = "lambda" /\ is_flush_active' = please_flush_
  <2>1. RequestHasItems' /\ NoSleeperLeftBehind'
    BY <1>0, <1>1, <1>3, <1>5
       DEF Waiting, RequestHasItems, NoSleeperLeftBehind, MutexFree, FlushDone, signals
  <2> QED
    BY <1>2, <2>1 DEF Waiting
<1>6. \/ ~MayTake /\ pc'[Worker] = "take_wait"
      \/ pc'[Worker] = "between"
      \/ pc'[Worker] = "lambda" /\ is_flush_active' = please_flush_
  BY <1>0, ThreadFacts DEF TakeEnter, PcIsTyped
<1> QED
  BY <1>4, <1>5, <1>6

LEMMA WaitingConsume ==
  ASSUME Shape, Numbers, Waiting, NEW k \in 0 .. Len(buffer_), Consume(k)
  PROVE  Waiting'
<1>1. /\ UNCHANGED << fed, signals, pc, is_flush_active, mark >> /\ ~MutexFree /\ ~MutexFree'
  BY DEF Consume, locals, MutexFree
<1>2. /\ Len(buffer_) \in Nat /\ Len(fed) \in Nat /\ k \in Nat /\ mark \in [Clients -> Nat]
      /\ Len(buffer_') = Len(buffer_) - k
  BY TypeFacts, ConsumeFacts
<1>3. Len(buffer_) <= Len(fed)
  BY DEF Numbers, BufferIsEndOfFed
<1>4. \A m \in Nat : m <= Taken => m <= Taken'
  BY <1>1, <1>2, <1>3 DEF Taken
<1>5. MarksAreReached'
  BY <1>1, <1>2, <1>4 DEF Waiting, MarksAreReached, signals
<1>6. RequestHasItems' /\ NoSleeperLeftBehind'
  BY <1>1 DEF Waiting, RequestHasItems, NoSleeperLeftBehind, MutexFree, FlushDone, signals
<1> QED
  BY <1>5, <1>6 DEF Waiting

LEMMA WaitingTakeLeave ==
  ASSUME Shape, Waiting, buffer_ = << >>, NEW n \in 1 .. DonutCapacity, TakeLeave(n)
  PROVE  Waiting'
<1>0. /\ PcIsTyped /\ ~MutexFree /\ UNCHANGED << buffer_, fed, stopping_, mark >>
      /\ please_flush_' = (please_flush_ /\ ~is_flush_active)
      /\ is_flush_active = please_flush_
      /\ Len(fed) \in Nat /\ mark \in [Clients -> Nat] /\ Len(buffer_) = 0
      /\ is_flush_active \in BOOLEAN /\ please_flush_ \in BOOLEAN
  BY TypeFacts DEF TakeLeave, MutexFree, Waiting, RequestHasItems
<1>1. /\ pc'[Worker] = "between"
      /\ \A u \in Threads \ {Worker} :
            \/ pc[u] = "feed_wait" /\ pc'[u] = "feed_lock"
            \/ pc[u] = "flush_wait" /\ is_flush_active /\ pc'[u] = "flush_woken"
            \/ /\ pc[u] # "feed_wait"
               /\ pc[u] # "flush_wait" \/ ~is_flush_active
               /\ pc'[u] = pc[u]
  BY <1>0, PcTakeLeave
<1>2. \A c \in Clients : /\ pc'[c] # "feed_wait"
                         /\ pc'[c] = "flush_wait" => pc[c] = "flush_wait" /\ ~is_flush_active
                         /\ pc'[c] \in Flushing => pc[c] \in Flushing
  BY <1>1, ThreadFacts DEF Flushing
<1>3. please_flush_' = FALSE
  BY <1>0
<1>4. RequestHasItems'
  BY <1>1, <1>3 DEF RequestHasItems, MutexFree
<1>5. MarksAreReached'
  <2>1. Taken' = Len(fed)
    BY <1>0 DEF Taken
  <2> QED
    BY <1>0, <1>2, <2>1 DEF Waiting, MarksAreReached
<1>6. NoSleeperLeftBehind'
  <2>1. pc[Stopper] # "stop_notify" => ~\E c \in Clients : pc'[c] = "flush_wait"
    <3> SUFFICES ASSUME NEW c \in Clients, pc'[c] = "flush_wait",
                        pc[Stopper] # "stop_notify"
                 PROVE  FALSE
      OBVIOUS
    <3>1. pc[c] = "flush_wait" /\ ~is_flush_active
      BY <1>2
    <3>2. please_flush_
      BY <3>1 DEF Waiting, NoSleeperLeftBehind, FlushDone
    <3> QED
      BY <1>0, <3>1, <3>2
  <2>2. pc'[Stopper] = "stop_notify" \/ pc[Stopper] # "stop_notify"
    BY <1>1, ThreadFacts
  <2> QED
    BY <1>1, <1>2, <2>1, <2>2 DEF NoSleeperLeftBehind
<1> QED
  BY <1>4, <1>5, <1>6 DEF Waiting

LEMMA WaitingStop ==
  ASSUME Shape, Waiting, StopperStep
  PROVE  Waiting'
<1>0. PcIsTyped
  BY TypeFacts
<1>1. CASE StopCall
  <2>1. UNCHANGED << queue, signals, is_flush_active, mark >> /\ pc[Stopper] = "running"
    BY <1>1 DEF StopCall, locals
  <2>2. pc'[Stopper] = "stop_lock" /\ \A u \in Threads \ {Stopper} : pc'[u] = pc[u]
    BY <1>0, <1>1, <2>1, PcStop
  <2> QED
    BY <2>1, <2>2, ThreadFacts, WaitingFrame
<1>2. CASE StopSet
  <2>1. /\ UNCHANGED << queue, is_flush_active, mark >> /\ pc[Stopper] = "stop_lock"
        /\ stopping_' = TRUE /\ please_flush_' = FALSE /\ MutexFree
    BY <1>2 DEF StopSet, locals
  <2>2. pc'[Stopper] = "stop_notify" /\ \A u \in Threads \ {Stopper} : pc'[u] = pc[u]
    BY <1>0, <1>2, <2>1, PcStop
  <2>3. MutexFree' /\ \A c \in Clients : pc'[c] = pc[c]
    BY <2>1, <2>2, ThreadFacts DEF MutexFree
  <2>4. RequestHasItems' /\ NoSleeperLeftBehind'
    BY <2>1, <2>2, <2>3 DEF RequestHasItems, NoSleeperLeftBehind
  <2>5. MarksAreReached'
    BY <2>1, <2>3 DEF Waiting, MarksAreReached, queue
  <2> QED
    BY <2>4, <2>5 DEF Waiting
<1>3. CASE StopNotify
  <2>1. UNCHANGED << queue, signals, is_flush_active, mark >>
    BY <1>3 DEF StopNotify, locals
  <2>2. /\ pc'[Stopper] = "stopped"
        /\ \A u \in Threads \ {Stopper} :
              pc'[u] = CASE pc[u] = "feed_wait"  -> "feed_lock"
                         [] pc[u] = "take_wait"  -> "take_lock"
                         [] pc[u] = "flush_wait" -> "flush_woken"
                         [] OTHER -> pc[u]
    BY <1>0, <1>3, PcStopNotify
  <2>3. \A u \in Threads \ {Stopper} :
           /\ pc'[u] \notin {"feed_wait", "take_wait", "flush_wait"}
           /\ pc'[u] = "lambda" <=> pc[u] = "lambda"
           /\ pc'[u] \in Flushing => pc[u] \in Flushing
    BY <2>2 DEF Flushing
  <2>4. RequestHasItems'
    BY <2>1, <2>3, ThreadFacts DEF Waiting, RequestHasItems, MutexFree, queue, signals
  <2>5. MarksAreReached'
    BY <2>1, <2>3, ThreadFacts DEF Waiting, MarksAreReached, Taken, queue, signals
  <2>6. NoSleeperLeftBehind'
    BY <2>3, ThreadFacts DEF NoSleeperLeftBehind
  <2> QED
    BY <2>4, <2>5, <2>6 DEF Waiting
<1> QED
  BY <1>1, <1>2, <1>3 DEF StopperStep

LEMMA WaitingStep == Shape /\ Numbers /\ Waiting /\ [Next]_vars => Waiting'
<1> SUFFICES ASSUME Shape, Numbers, Waiting, [Next]_vars PROVE Waiting'
  OBVIOUS
<1>0. PcIsTyped
  BY TypeFacts
<1>1. ASSUME NEW c \in Clients, ClientCalls(c) \/ ClientStep(c) PROVE Waiting'
  <2>1. CASE FeedCall(c)
    <3>1. UNCHANGED << queue, signals, is_flush_active, mark >>
      BY <2>1 DEF FeedCall
    <3>2. pc'[c] = "feed_lock" /\ \A u \in Threads \ {c} : pc'[u] = pc[u]
      BY <1>0, <2>1, PcFeedCall
    <3> QED
      BY <3>1, <3>2, ThreadFacts, WaitingFrame DEF Flushing
  <2>2. CASE FlushCall(c)
    <3>1. UNCHANGED << queue, signals, is_flush_active, mark >>
      BY <2>2 DEF FlushCall
    <3>2. pc'[c] = "flush_lock" /\ \A u \in Threads \ {c} : pc'[u] = pc[u]
      BY <1>0, <2>2, PcFlushCall
    <3> QED
      BY <3>1, <3>2, ThreadFacts, WaitingFrame DEF Flushing
  <2> QED
    BY <1>1, <2>1, <2>2, WaitingFeedEnter, WaitingFlushEnter, WaitingFlushRecheck
       DEF ClientCalls, ClientStep
<1>2. CASE WorkerStep
  <2>1. CASE TakeCall \/ TakeNoMore
    <3>1. /\ UNCHANGED << queue, signals, is_flush_active, mark >> /\ pc[Worker] = "between"
          /\ pc'[Worker] \in {"take_lock", "exited"}
      BY <1>0, <2>1, ThreadFacts DEF TakeCall, TakeNoMore, locals, PcIsTyped
    <3>2. \A u \in Threads \ {Worker} : pc'[u] = pc[u]
      BY <1>0, <2>1, PcTake
    <3> QED
      BY <3>1, <3>2, ThreadFacts, WaitingFrame
  <2>2. CASE LambdaReturns
    BY <2>2, WaitingTakeLeave DEF LambdaReturns
  <2>3. \A k \in 1 .. Len(buffer_) : k \in 0 .. Len(buffer_)
    BY TypeFacts
  <2> QED
    BY <1>2, <2>1, <2>2, <2>3, WaitingTakeEnter, WaitingConsume DEF WorkerStep
<1>3. CASE StopperStep
  BY <1>3, WaitingStop
<1>4. ASSUME NEW t \in Threads, SpuriousWake(t) PROVE Waiting'
  <2>1. UNCHANGED << queue, signals, is_flush_active, mark >>
    BY <1>4 DEF SpuriousWake, locals
  <2>2. /\ \/ pc[t] = "feed_wait" /\ pc'[t] = "feed_lock"
           \/ pc[t] = "take_wait" /\ pc'[t] = "take_lock"
           \/ pc[t] = "flush_wait" /\ pc'[t] = "flush_woken"
        /\ \A u \in Threads \ {t} : pc'[u] = pc[u]
    BY <1>0, <1>4, PcSpuriousWake
  <2> QED
    BY <2>1, <2>2, ThreadFacts, WaitingFrame DEF Flushing
<1>5. CASE UNCHANGED vars
  BY <1>5, WaitingFrame DEF vars, locals
<1> QED
  BY <1>1, <1>2, <1>3, <1>4, <1>5 DEF Next

-----------------------------------------------------------------------------
\* The invariant and what follows from it

LEMMA IndInvLayers == IndInv <=> Shape /\ Numbers /\ Waiting
BY DEF IndInv, Shape, Numbers, Waiting

LEMMA IndInvInit == Init => IndInv
BY ShapeInit, NumbersInit, WaitingInit, IndInvLayers

LEMMA IndInvStep == IndInv /\ [Next]_vars => IndInv'
<1>1. Shape' /\ Numbers' /\ Waiting' => IndInv'
  BY DEF IndInv, Shape, Numbers, Waiting
<1> QED
  BY <1>1, ShapeStep, NumbersStep, WaitingStep, IndInvLayers DEF Waiting

\* The invariant of ingester_buffer.hpp holds in every state, for any number
\* of clients and any capacity.
THEOREM BufferInvariant == Spec => []IndInv
BY IndInvInit, IndInvStep, PTL DEF Spec

\* Every variable keeps its type.
THEOREM TypeCorrect == Spec => []TypeOK
<1>1. IndInv => TypeOK
  BY DEF IndInv
<1> QED
  BY <1>1, BufferInvariant, PTL

\* The buffer is the end of what was fed, in order and without gaps.
THEOREM NothingLostOnTheWay == Spec => []BufferIsEndOfFed
<1>1. IndInv => BufferIsEndOfFed
  BY DEF IndInv
<1> QED
  BY <1>1, BufferInvariant, PTL

\* first_global_pi_ is the index of the first item in the buffer.
THEOREM OffsetsAlwaysAgree == Spec => []OffsetsAgree
<1>1. IndInv => OffsetsAgree
  BY DEF IndInv
<1> QED
  BY <1>1, BufferInvariant, PTL

\* Backpressure: the queue exceeds the capacity by less than one block.
THEOREM BacklogAlwaysBounded == Spec => []BacklogIsBounded
<1>1. IndInv => BacklogIsBounded
  BY DEF IndInv
<1> QED
  BY <1>1, BufferInvariant, PTL

\* The lambda never finds the buffer empty.
THEOREM LambdaAlwaysGetsItems == Spec => []LambdaGetsItems
<1>1. IndInv => LambdaGetsItems
  BY DEF IndInv
<1> QED
  BY <1>1, BufferInvariant, PTL

\* No notification is missing.
THEOREM NoLostWakeUp == Spec => []NoSleeperLeftBehind
<1>1. IndInv => NoSleeperLeftBehind
  BY DEF IndInv
<1> QED
  BY <1>1, BufferInvariant, PTL

\* The only step by which a flush that waited returns is its own, with the
\* lock free and the predicate true.
LEMMA FlushStep ==
  ASSUME IndInv, [Next]_vars, NEW c \in Clients,
         pc[c] \in Flushing, pc'[c] = "idle", ~stopping_
  PROVE  Taken >= mark[c] /\ MutexFree
<1>0. PcIsTyped /\ Shape
  BY IndInvLayers, TypeFacts
<1>1. FlushDone => Taken >= mark[c]
  <2>1. ~please_flush_ => mark[c] <= Taken
    BY DEF IndInv, MarksAreReached
  <2>2. mark[c] \in Nat /\ Taken \in Int
    BY <1>0, TypeFacts DEF Taken
  <2> QED
    BY <2>1, <2>2 DEF FlushDone
<1>2. FlushDone /\ MutexFree
  <2>1. ASSUME NEW d \in Clients, ClientCalls(d) \/ ClientStep(d) PROVE FlushDone /\ MutexFree
    <3>1. d = c
      <4>1. CASE FeedCall(d)
        BY <1>0, <4>1, PcFeedCall, ThreadFacts DEF Flushing
      <4>2. CASE FlushCall(d)
        BY <1>0, <4>2, PcFlushCall, ThreadFacts DEF Flushing
      <4>3. CASE FeedEnter(d)
        BY <1>0, <4>3, PcFeedEnter, ThreadFacts DEF Flushing
      <4>4. CASE FlushEnter(d)
        BY <1>0, <4>4, PcFlushEnter, ThreadFacts DEF Flushing
      <4>5. CASE FlushRecheck(d)
        BY <1>0, <4>5, PcFlushRecheck, ThreadFacts DEF Flushing
      <4> QED
        BY <2>1, <4>1, <4>2, <4>3, <4>4, <4>5 DEF ClientCalls, ClientStep
    <3>2. FlushRecheck(c)
      BY <2>1, <3>1 DEF ClientCalls, ClientStep, FeedCall, FlushCall, FeedEnter, FlushEnter, Flushing
    <3> QED
      BY <1>0, <3>2, PcFlushRecheck DEF FlushRecheck
  <2>2. CASE WorkerStep
    <3>1. CASE TakeCall \/ TakeNoMore \/ TakeEnter
      BY <1>0, <3>1, PcTake, ThreadFacts DEF Flushing
    <3>2. CASE LambdaReturns
      BY <1>0, <3>2, PcTakeLeave, ThreadFacts DEF Flushing, LambdaReturns
    <3>3. CASE \E k \in 1 .. Len(buffer_) : Consume(k)
      BY <3>3 DEF Consume, Flushing
    <3> QED
      BY <2>2, <3>1, <3>2, <3>3 DEF WorkerStep
  <2>3. CASE StopperStep
    BY <1>0, <2>3, PcStop, PcStopNotify, ThreadFacts DEF StopperStep, Flushing
  <2>4. ASSUME NEW t \in Threads, SpuriousWake(t) PROVE FlushDone /\ MutexFree
    BY <1>0, <2>4, PcSpuriousWake, ThreadFacts DEF Flushing
  <2>5. CASE UNCHANGED vars
    BY <2>5 DEF vars, Flushing
  <2> QED
    BY <2>1, <2>2, <2>3, <2>4, <2>5 DEF Next
<1> QED
  BY <1>1, <1>2

\* A flush that waited returns when everything fed before it has left the
\* buffer, or because the buffer is stopping.
THEOREM FlushAlwaysDrains == Spec => FlushDrains
<1> DEFINE A(c) == (pc[c] \in Flushing /\ pc'[c] = "idle")
                      => stopping_ \/ Taken >= mark[c]
<1>1. IndInv /\ [Next]_vars => \A c \in Clients : A(c)
  BY FlushStep
<1>2. IndInv /\ [Next]_vars => [\A c \in Clients : A(c)]_vars
  BY <1>1
<1> HIDE DEF A
<1>3. Spec => [][\A c \in Clients : A(c)]_vars
  BY <1>2, BufferInvariant, PTL DEF Spec
<1> QED
  BY <1>3 DEF FlushDrains, A

-----------------------------------------------------------------------------
\* The map

\* A nonempty set of numbers has a least one.
LEMMA LeastNumber ==
  ASSUME NEW T \in SUBSET Nat, T # {}
  PROVE  \E n \in T : \A m \in T : n <= m
<1>1. PICK n \in T : \A m \in T : ~ (<< m, n >> \in OpToRel(<, Nat))
  BY NatLessThanWellFounded, WFMin
<1>2. \A m \in T : ~ (m < n)
  BY <1>1 DEF OpToRel
<1> QED
  BY <1>2

\* The last place of h in s is the only one that no other follows.
LEMMA LastIndexIs ==
  ASSUME NEW s \in Seq(Items), NEW h, NEW k \in 1 .. Len(s), s[k] = h,
         \A j \in 1 .. Len(s) : s[j] = h => j <= k
  PROVE  LastIndex(h, s) = k
<1>1. DOMAIN s = 1 .. Len(s) /\ Len(s) \in Nat
  OBVIOUS
<1>2. \A m \in 1 .. Len(s) : (s[m] = h /\ \A j \in 1 .. Len(s) : s[j] = h => j <= m) => m = k
  BY <1>1
<1> QED
  BY <1>1, <1>2 DEF LastIndex

\* There is one, as the distances to the end of s have a least.
LEMMA LastIndexExists ==
  ASSUME NEW s \in Seq(Items), NEW h \in HashesIn(s)
  PROVE  /\ LastIndex(h, s) \in 1 .. Len(s) /\ s[LastIndex(h, s)] = h
         /\ \A j \in 1 .. Len(s) : s[j] = h => j <= LastIndex(h, s)
<1> DEFINE T == {n \in 0 .. Len(s) - 1 : s[Len(s) - n] = h}
<1>1. DOMAIN s = 1 .. Len(s) /\ Len(s) \in Nat
  OBVIOUS
<1>2. PICK i \in 1 .. Len(s) : s[i] = h
  BY <1>1 DEF HashesIn
<1>3. T \in SUBSET Nat
  BY <1>1
<1>4. T # {}
  <2>1. Len(s) - i \in 0 .. Len(s) - 1 /\ Len(s) - (Len(s) - i) = i
    BY <1>1
  <2> QED
    BY <1>2, <2>1
<1>5. PICK n \in T : \A m \in T : n <= m
  <2> HIDE DEF T
  <2> QED
    BY <1>3, <1>4, LeastNumber
<1>6. Len(s) - n \in 1 .. Len(s) /\ s[Len(s) - n] = h /\ n \in Nat
  BY <1>1
<1>7. ASSUME NEW j \in 1 .. Len(s), s[j] = h PROVE j <= Len(s) - n
  <2>1. Len(s) - j \in 0 .. Len(s) - 1 /\ Len(s) - (Len(s) - j) = j
    BY <1>1
  <2>2. Len(s) - j \in T
    BY <1>7, <2>1
  <2>3. n <= Len(s) - j
    BY <1>5, <2>2
  <2> QED
    BY <1>1, <1>6, <2>3
<1>8. LastIndex(h, s) = Len(s) - n
  <2> HIDE DEF T
  <2> QED
    BY <1>6, <1>7, LastIndexIs
<1> QED
  BY <1>6, <1>7, <1>8

\* What a block behind s makes of the last places.
LEMMA LastIndexOfConcat ==
  ASSUME NEW s \in Seq(Items), NEW b \in Seq(Items)
  PROVE  /\ HashesIn(s \o b) = HashesIn(s) \cup HashesIn(b)
         /\ \A h \in HashesIn(b) : LastIndex(h, s \o b) = Len(s) + LastIndex(h, b)
         /\ \A h \in HashesIn(s) \ HashesIn(b) : LastIndex(h, s \o b) = LastIndex(h, s)
<1>1. PICK m \in Nat : m = Len(s)
  OBVIOUS
<1>2. PICK n \in Nat : n = Len(b)
  OBVIOUS
<1>3. PICK t : t = s \o b
  OBVIOUS
<1>4. /\ t \in Seq(Items) /\ Len(t) = m + n
      /\ \A i \in 1 .. m + n : t[i] = IF i <= m THEN s[i] ELSE b[i - m]
  BY <1>1, <1>2, <1>3, ConcatProperties
<1>5. \A i \in 1 .. m : i \in 1 .. m + n /\ t[i] = s[i]
  BY <1>4
<1>6. \A i \in 1 .. n : m + i \in 1 .. m + n /\ t[m + i] = b[i]
  BY <1>4
<1>7. \A i \in 1 .. m + n : i \in 1 .. m \/ \E j \in 1 .. n : i = m + j
  <2> SUFFICES ASSUME NEW i \in 1 .. m + n, i \notin 1 .. m PROVE \E j \in 1 .. n : i = m + j
    OBVIOUS
  <2>1. i - m \in 1 .. n /\ i = m + (i - m)
    OBVIOUS
  <2> QED
    BY <2>1
<1>8. DOMAIN s = 1 .. m /\ DOMAIN b = 1 .. n /\ DOMAIN t = 1 .. m + n
  BY <1>1, <1>2, <1>4
<1>9. HashesIn(t) = HashesIn(s) \cup HashesIn(b)
  <2>1. ASSUME NEW h \in HashesIn(t) PROVE h \in HashesIn(s) \cup HashesIn(b)
    <3>1. PICK i \in 1 .. m + n : t[i] = h
      BY <1>8 DEF HashesIn
    <3> QED
      BY <1>5, <1>6, <1>7, <1>8, <3>1 DEF HashesIn
  <2>2. ASSUME NEW h \in HashesIn(s) PROVE h \in HashesIn(t)
    BY <1>5, <1>8 DEF HashesIn
  <2>3. ASSUME NEW h \in HashesIn(b) PROVE h \in HashesIn(t)
    BY <1>6, <1>8 DEF HashesIn
  <2> QED
    BY <2>1, <2>2, <2>3
<1>10. ASSUME NEW h \in HashesIn(b) PROVE LastIndex(h, t) = m + LastIndex(h, b)
  <2>1. PICK k : k = LastIndex(h, b)
    OBVIOUS
  <2>2. k \in 1 .. n /\ b[k] = h /\ \A j \in 1 .. n : b[j] = h => j <= k
    BY <1>2, <2>1, LastIndexExists
  <2>3. m + k \in 1 .. Len(t) /\ t[m + k] = h
    BY <1>4, <1>6, <2>2
  <2>4. ASSUME NEW i \in 1 .. Len(t), t[i] = h PROVE i <= m + k
    <3>1. CASE i \in 1 .. m
      BY <2>2, <3>1
    <3>2. ASSUME NEW j \in 1 .. n, i = m + j PROVE i <= m + k
      <4>1. j <= k
        BY <1>6, <2>2, <2>4, <3>2
      <4> QED
        BY <2>2, <3>2, <4>1
    <3> QED
      BY <1>4, <1>7, <3>1, <3>2
  <2> QED
    BY <1>4, <2>1, <2>3, <2>4, LastIndexIs
<1>11. ASSUME NEW h \in HashesIn(s), h \notin HashesIn(b) PROVE LastIndex(h, t) = LastIndex(h, s)
  <2>1. PICK k : k = LastIndex(h, s)
    OBVIOUS
  <2>2. k \in 1 .. m /\ s[k] = h /\ \A j \in 1 .. m : s[j] = h => j <= k
    BY <1>1, <2>1, LastIndexExists
  <2>3. k \in 1 .. Len(t) /\ t[k] = h
    BY <1>4, <1>5, <2>2
  <2>4. \A j \in 1 .. n : b[j] # h
    BY <1>8, <1>11 DEF HashesIn
  <2>5. ASSUME NEW i \in 1 .. Len(t), t[i] = h PROVE i <= k
    <3>1. CASE i \in 1 .. m
      BY <1>5, <2>2, <2>5, <3>1
    <3>2. ASSUME NEW j \in 1 .. n, i = m + j PROVE FALSE
      BY <1>6, <2>4, <2>5, <3>2
    <3> QED
      BY <1>4, <1>7, <3>1, <3>2
  <2> QED
    BY <1>4, <2>1, <2>3, <2>5, LastIndexIs
<1> QED
  BY <1>1, <1>3, <1>9, <1>10, <1>11

\* The map leads each hash in the buffer, and no other, to its last place.
ReverseFindsLast ==
    MutexFree =>
        /\ DOMAIN reverse_lookup_map_ = HashesIn(buffer_)
        /\ \A h \in DOMAIN reverse_lookup_map_ :
              reverse_lookup_map_[h] = LastIndex(h, buffer_) - 1

\* The map and the queue stay as they are.
LEMMA MapStays ==
  ASSUME ReverseFindsLast, UNCHANGED queue, MutexFree' => MutexFree
  PROVE  ReverseFindsLast'
BY DEF ReverseFindsLast, queue

LEMMA MapAccept ==
  ASSUME Shape, ReverseFindsLast, NEW c \in Clients, MutexFree, Accept(c)
  PROVE  ReverseFindsLast'
<1>1. /\ buffer_ \in Seq(Items) /\ block[c] \in Seq(Items)
      /\ buffer_' = buffer_ \o block[c] /\ reverse_lookup_map_' = MapWith(block[c])
  BY TypeFacts DEF Accept, Inserted
<1>2. PICK b \in Seq(Items) : b = block[c]
  BY <1>1
<1>3. /\ HashesIn(buffer_') = HashesIn(buffer_) \cup HashesIn(b)
      /\ \A h \in HashesIn(b) : LastIndex(h, buffer_') = Len(buffer_) + LastIndex(h, b)
      /\ \A h \in HashesIn(buffer_) \ HashesIn(b) : LastIndex(h, buffer_') = LastIndex(h, buffer_)
  <2>1. buffer_ \in Seq(Items) /\ b \in Seq(Items) /\ buffer_' = buffer_ \o b
    BY <1>1, <1>2
  <2> QED
    BY ONLY <2>1, LastIndexOfConcat
<1>4. /\ DOMAIN reverse_lookup_map_ = HashesIn(buffer_)
      /\ \A h \in HashesIn(buffer_) : reverse_lookup_map_[h] = LastIndex(h, buffer_) - 1
  BY DEF ReverseFindsLast
<1>5. /\ DOMAIN reverse_lookup_map_' = HashesIn(buffer_) \cup HashesIn(b)
      /\ \A h \in HashesIn(buffer_) \cup HashesIn(b) :
            reverse_lookup_map_'[h] = IF h \in HashesIn(b) THEN Len(buffer_) + LastIndex(h, b) - 1
                                                           ELSE reverse_lookup_map_[h]
  BY <1>1, <1>2, <1>4 DEF MapWith
<1>6. \A h \in HashesIn(buffer_') : reverse_lookup_map_'[h] = LastIndex(h, buffer_') - 1
  <2> SUFFICES ASSUME NEW h \in HashesIn(buffer_')
               PROVE  reverse_lookup_map_'[h] = LastIndex(h, buffer_') - 1
    OBVIOUS
  <2>1. CASE h \in HashesIn(b)
    <3>1. LastIndex(h, buffer_') = Len(buffer_) + LastIndex(h, b)
      BY <1>3, <2>1
    <3>2. reverse_lookup_map_'[h] = Len(buffer_) + LastIndex(h, b) - 1
      BY <1>5, <2>1
    <3>3. PICK k \in Nat : k = LastIndex(h, b)
      BY <2>1, LastIndexExists
    <3>4. PICK n \in Nat : n = Len(buffer_)
      BY <1>1
    <3>5. n + k - 1 = (n + k) - 1
      OBVIOUS
    <3> QED
      BY <3>1, <3>2, <3>3, <3>4, <3>5, Zenon
  <2>2. CASE h \notin HashesIn(b)
    <3>1. h \in HashesIn(buffer_) \ HashesIn(b)
      BY <1>3, <2>2
    <3> QED
      BY <1>3, <1>4, <1>5, <2>2, <3>1
  <2> QED
    BY <2>1, <2>2
<1> QED
  BY <1>3, <1>5, <1>6 DEF ReverseFindsLast

LEMMA MapStep ==
  ASSUME Shape, ReverseFindsLast, [Next]_vars
  PROVE  ReverseFindsLast'
<1>0. PcIsTyped
  BY TypeFacts
<1>1. ASSUME NEW c \in Clients, FeedEnter(c) PROVE ReverseFindsLast'
  <2>1. CASE UNCHANGED queue
    BY <1>1, <2>1, MapStays DEF FeedEnter
  <2>2. CASE Accept(c)
    BY <1>1, <2>2, MapAccept DEF FeedEnter
  <2> QED
    BY <1>1, <2>1, <2>2 DEF FeedEnter
<1>2. ASSUME NEW c \in Clients, FeedCall(c) \/ FlushCall(c) \/ FlushEnter(c) \/ FlushRecheck(c)
      PROVE  ReverseFindsLast'
  <2>1. UNCHANGED queue
    BY <1>2 DEF FeedCall, FlushCall, FlushEnter, FlushRecheck
  <2>2. pc'[Worker] = "lambda" <=> pc[Worker] = "lambda"
    BY <1>0, <1>2, PcFeedCall, PcFlushCall, PcFlushEnter, PcFlushRecheck, ThreadFacts
  <2> QED
    BY <2>1, <2>2, MapStays DEF MutexFree
<1>3. CASE TakeCall \/ TakeNoMore \/ TakeEnter
  <2>1. UNCHANGED queue /\ MutexFree
    BY <1>3 DEF TakeCall, TakeNoMore, TakeEnter, MutexFree
  <2> QED
    BY <2>1, MapStays
<1>4. ASSUME NEW k \in 1 .. Len(buffer_), Consume(k) PROVE ReverseFindsLast'
  BY <1>4 DEF Consume, ReverseFindsLast, MutexFree
<1>5. CASE LambdaReturns
  <2>1. buffer_' = << >> /\ reverse_lookup_map_' = [h \in {} |-> 0]
    BY <1>5 DEF LambdaReturns, TakeLeave, MapCleared
  <2>2. HashesIn(buffer_') = {} /\ DOMAIN reverse_lookup_map_' = {}
    BY <2>1 DEF HashesIn
  <2> QED
    BY <2>2 DEF ReverseFindsLast
<1>6. CASE StopperStep
  <2>1. UNCHANGED queue
    BY <1>6 DEF StopperStep, StopCall, StopSet, StopNotify
  <2>2. pc'[Worker] = "lambda" <=> pc[Worker] = "lambda"
    BY <1>0, <1>6, PcStop, PcStopNotify, ThreadFacts DEF StopperStep
  <2> QED
    BY <2>1, <2>2, MapStays DEF MutexFree
<1>7. ASSUME NEW t \in Threads, SpuriousWake(t) PROVE ReverseFindsLast'
  <2>1. UNCHANGED queue
    BY <1>7 DEF SpuriousWake
  <2>2. pc'[Worker] = "lambda" <=> pc[Worker] = "lambda"
    BY <1>0, <1>7, PcSpuriousWake, ThreadFacts
  <2> QED
    BY <2>1, <2>2, MapStays DEF MutexFree
<1>8. CASE UNCHANGED vars
  BY <1>8, MapStays DEF vars, MutexFree
<1> QED
  BY <1>1, <1>2, <1>3, <1>4, <1>5, <1>6, <1>7, <1>8
     DEF Next, ClientCalls, ClientStep, WorkerStep

\* While the lock is free, reverse_lookup_map_ leads each hash in the buffer
\* to its last place there, and has no other hash: the assignment of
\* ingester_buffer.hpp:58 lets the last place win.
THEOREM ReverseAlwaysFindsLast == Spec => []ReverseFindsLast
<1>1. Init => ReverseFindsLast
  <2> SUFFICES ASSUME Init PROVE ReverseFindsLast
    OBVIOUS
  <2>1. HashesIn(buffer_) = {} /\ DOMAIN reverse_lookup_map_ = {}
    BY DEF Init, HashesIn
  <2> QED
    BY <2>1 DEF ReverseFindsLast
<1>2. IndInv => Shape
  BY IndInvLayers
<1> QED
  BY <1>1, <1>2, MapStep, BufferInvariant, PTL DEF Spec

\* That place and first_global_pi_ make an index under which the hash was fed.
LEMMA LastWasFed ==
  ASSUME IndInv, ReverseFindsLast
  PROVE  ReverseFindsFed
<1> SUFFICES ASSUME MutexFree, NEW h \in DOMAIN reverse_lookup_map_
             PROVE  LET i == (first_global_pi_ + reverse_lookup_map_[h] + 1) - FirstPi
                    IN  i \in Taken + 1 .. Len(fed) /\ fed[i] = h
  BY DEF ReverseFindsFed, ReverseFindsLast
<1>1. /\ buffer_ \in Seq(Items) /\ first_global_pi_ \in Nat /\ FirstPi \in Nat
      /\ Len(buffer_) \in Nat /\ Len(fed) \in Nat /\ Len(buffer_) <= Len(fed)
  BY NumbersAssumption DEF IndInv, TypeOK, BufferIsEndOfFed
<1>2. h \in HashesIn(buffer_) /\ reverse_lookup_map_[h] = LastIndex(h, buffer_) - 1
  BY DEF ReverseFindsLast
<1>3. PICK k : k = LastIndex(h, buffer_)
  OBVIOUS
<1>4. k \in 1 .. Len(buffer_) /\ buffer_[k] = h
  BY <1>1, <1>2, <1>3, LastIndexExists
<1>5. first_global_pi_ + Len(buffer_) = FirstPi + Len(fed)
  BY DEF IndInv, OffsetsAgree
<1>6. PICK f, t : f = Len(fed) /\ t = Taken
  OBVIOUS
<1>7. t = f - Len(buffer_) /\ t \in Nat /\ f \in Nat
  BY <1>1, <1>6 DEF Taken
<1>8. (first_global_pi_ + reverse_lookup_map_[h] + 1) - FirstPi = t + k
  <2>1. PICK g, b, l : g = first_global_pi_ /\ b = Len(buffer_) /\ l = reverse_lookup_map_[h]
    OBVIOUS
  <2>2. g \in Nat /\ b \in Nat /\ k \in Nat /\ l = k - 1
    BY <1>1, <1>2, <1>3, <1>4, <2>1
  <2>3. g + b = FirstPi + f /\ t = f - b
    BY <1>5, <1>6, <1>7, <2>1
  <2>4. (g + l + 1) - FirstPi = t + k
    BY <1>1, <1>7, <2>2, <2>3
  <2> QED
    BY <2>1, <2>4
<1>9. t + k \in t + 1 .. f
  BY <1>1, <1>4, <1>7
<1>10. fed[t + k] = h
  BY <1>4, <1>6 DEF IndInv, BufferIsEndOfFed
<1> QED
  BY <1>6, <1>8, <1>9, <1>10

\* What the buffer answers to a reverse lookup (ingester_buffer.hpp) is an index
\* under which that hash was fed.
THEOREM ReverseAlwaysFindsFed == Spec => []ReverseFindsFed
BY LastWasFed, ReverseAlwaysFindsLast, BufferInvariant, PTL

-----------------------------------------------------------------------------
\* The composition

LEMMA IngesterInvParts == IngesterInv <=> IndInv /\ TierInv
BY DEF IngesterInv, TierInv

-----------------------------------------------------------------------------
\* The buffer's contract

\* Between the buffer's numbers and the hatchling's.
LEMMA TierFacts ==
  ASSUME IngesterInv
  PROVE  /\ hatchling \in Donuts /\ hatchling.first \in Nat
         /\ hatchling.entries \in Seq(Items) /\ Len(hatchling.entries) \in Nat
         /\ buffer_room \in Seq(Donuts) /\ promoted \in Seq(Donuts)
         /\ Len(buffer_room) \in Nat
         /\ DonutCapacity \in Nat \ {0} /\ FirstPi \in Nat
         /\ buffer_ \in Seq(Items) /\ fed \in Seq(Items)
         /\ Len(buffer_) \in Nat /\ Len(fed) \in Nat
         /\ Len(buffer_) <= Len(fed)
         /\ Taken \in Nat /\ Taken = Len(fed) - Len(buffer_)
         /\ PcIsTyped /\ Shape
<1>1. IngesterTypeOK /\ IndInv
  BY DEF IngesterInv
<1>2. Shape /\ Numbers
  BY <1>1, IndInvLayers
<1>3. hatchling \in Donuts /\ buffer_room \in Seq(Donuts) /\ promoted \in Seq(Donuts)
  BY <1>1 DEF IngesterTypeOK
<1>4. /\ hatchling.first \in Nat /\ hatchling.entries \in Seq(Items)
      /\ Len(hatchling.entries) \in Nat /\ Len(buffer_room) \in Nat
  BY <1>3 DEF Donuts
<1>5. /\ buffer_ \in Seq(Items) /\ fed \in Seq(Items) /\ PcIsTyped
      /\ Len(buffer_) \in Nat /\ Len(fed) \in Nat
  BY <1>2, TypeFacts
<1>6. Len(buffer_) <= Len(fed)
  BY <1>2 DEF Numbers, BufferIsEndOfFed
<1>7. Taken \in Nat /\ Taken = Len(fed) - Len(buffer_)
  BY <1>5, <1>6 DEF Taken
<1> QED
  BY <1>2, <1>3, <1>4, <1>5, <1>6, <1>7, NumbersAssumption

\* append_hashes always takes something: the hatchling has room.
LEMMA TakingFacts ==
  ASSUME IngesterInv, AppendHashes
  PROVE  /\ Taking \in 1 .. Len(buffer_)
         /\ Taking <= RemainingCapacity(hatchling)
         /\ RemainingCapacity(hatchling) \in 1 .. DonutCapacity
         /\ RemainingCapacity(hatchling) = DonutCapacity - Len(hatchling.entries)
<1>1. buffer_ # << >> /\ RemainingCapacity(hatchling) > 0
  BY DEF AppendHashes, IngesterInv, WorkerAssertions
<1>2. Len(buffer_) > 0
  BY <1>1, TierFacts
<1>3. /\ RemainingCapacity(hatchling) = DonutCapacity - Len(hatchling.entries)
      /\ DonutCapacity \in Nat /\ Len(hatchling.entries) \in Nat /\ Len(buffer_) \in Nat
  BY TierFacts DEF RemainingCapacity
<1>4. ASSUME NEW r \in Int, NEW l \in Nat, l > 0, r > 0
      PROVE  /\ (IF l < r THEN l ELSE r) \in 1 .. l
             /\ (IF l < r THEN l ELSE r) <= r
  BY <1>4
<1>5. RemainingCapacity(hatchling) \in Int /\ RemainingCapacity(hatchling) \in 1 .. DonutCapacity
  BY <1>1, <1>3
<1>6. Taking \in 1 .. Len(buffer_) /\ Taking <= RemainingCapacity(hatchling)
  BY <1>1, <1>2, <1>3, <1>4, <1>5 DEF Taking
<1> QED
  BY <1>3, <1>5, <1>6

\* Every step of the composition is a step of the buffer, or none.
LEMMA BufferStep == IngesterInv /\ [IngesterNext]_ingesterVars => [Next]_vars
<1> SUFFICES ASSUME IngesterInv, [IngesterNext]_ingesterVars PROVE [Next]_vars
  OBVIOUS
<1>1. CASE \E c \in Clients : Calls(c) \/ Serve(c)
  BY <1>1 DEF Calls, Serve, Next
<1>2. CASE LoopTop \/ EnterLambda
  BY <1>2 DEF LoopTop, EnterLambda, Next, WorkerStep
<1>3. CASE AppendHashes
  <2>1. Taking \in 1 .. Len(buffer_) /\ Consume(Taking)
    BY <1>3, TakingFacts DEF AppendHashes, Erased
  <2> QED
    BY <2>1 DEF Next, WorkerStep
<1>4. CASE Promote \/ FeedRoom \/ Spawn
  BY <1>4 DEF Promote, FeedRoom, Spawn
<1>5. CASE ReturnFromLambda
  <2>1. buffer_ = << >> /\ lambda_at = "append" /\ TakeLeave(RemainingCapacity(hatchling))
    BY <1>5 DEF ReturnFromLambda, IngesterInv, WorkerAssertions
  <2>2. RemainingCapacity(hatchling) \in 1 .. DonutCapacity
    <3>1. RemainingCapacity(hatchling) > 0
      BY <2>1 DEF IngesterInv, WorkerAssertions
    <3>2. /\ RemainingCapacity(hatchling) = DonutCapacity - Len(hatchling.entries)
          /\ DonutCapacity \in Nat /\ Len(hatchling.entries) \in Nat
      BY TierFacts DEF RemainingCapacity
    <3> QED
      BY <3>1, <3>2
  <2> QED
    BY <2>1, <2>2 DEF Next, WorkerStep, LambdaReturns
<1>6. CASE RequestStop \/ Stop
  BY <1>6 DEF RequestStop, Stop, Next, StopperStep
<1>7. CASE \E t \in Threads : Wake(t)
  BY <1>7 DEF Wake, Next
<1>8. CASE UNCHANGED ingesterVars
  BY <1>8 DEF ingesterVars
<1> QED
  BY <1>1, <1>2, <1>3, <1>4, <1>5, <1>6, <1>7, <1>8 DEF IngesterNext, Work, Lambda

-----------------------------------------------------------------------------
\* The log only grows

LEMMA HoldsStill ==
  ASSUME NEW d \in Donuts, NEW log \in Seq(Items), NEW more \in Seq(Items), Holds(d, log)
  PROVE  Holds(d, log \o more)
<1>1. /\ d.first \in Nat /\ d.entries \in Seq(Items) /\ Len(d.entries) \in Nat
      /\ FirstPi \in Nat /\ Len(log) \in Nat /\ Len(more) \in Nat
  BY NumbersAssumption DEF Donuts
<1>2. /\ FirstPi <= d.first
      /\ d.first + Len(d.entries) <= FirstPi + Len(log)
      /\ \A i \in 1 .. Len(d.entries) : d.entries[i] = log[d.first - FirstPi + i]
  BY DEF Holds, NextOffset
<1>3. /\ Len(log \o more) = Len(log) + Len(more)
      /\ \A i \in 1 .. Len(log) + Len(more) :
            (log \o more)[i] = IF i <= Len(log) THEN log[i] ELSE more[i - Len(log)]
  BY ConcatProperties
<1>4. ASSUME NEW i \in 1 .. Len(d.entries)
      PROVE  (log \o more)[d.first - FirstPi + i] = log[d.first - FirstPi + i]
  <2>1. d.first - FirstPi + i \in 1 .. Len(log) + Len(more) /\ d.first - FirstPi + i <= Len(log)
    BY <1>1, <1>2
  <2> QED
    BY <1>3, <2>1
<1>5. NextOffset(d) <= FirstPi + Len(log \o more)
  <2>1. Len(log \o more) = Len(log) + Len(more)
    BY <1>3
  <2> QED
    BY <1>1, <1>2, <2>1 DEF NextOffset
<1> QED
  BY <1>2, <1>4, <1>5 DEF Holds

LEMMA FedGrows ==
  ASSUME Shape, [Next]_vars
  PROVE  \/ fed' = fed
         \/ \E more \in Seq(Items) : fed' = fed \o more
<1>1. \A c \in Clients : block[c] \in Seq(Items)
  BY TypeFacts
<1>2. ASSUME NEW c \in Clients, ClientCalls(c) \/ ClientStep(c)
      PROVE  fed' = fed \/ fed' = fed \o block[c]
  BY <1>2 DEF ClientCalls, ClientStep, FeedCall, FlushCall, FeedEnter, Accept, Inserted, FlushEnter,
              FlushRecheck, queue
<1>3. CASE WorkerStep
  BY <1>3 DEF WorkerStep, TakeCall, TakeNoMore, TakeEnter, Consume, LambdaReturns, TakeLeave, queue
<1>4. CASE StopperStep
  BY <1>4 DEF StopperStep, StopCall, StopSet, StopNotify, queue
<1>5. CASE \E t \in Threads : SpuriousWake(t)
  BY <1>5 DEF SpuriousWake, queue
<1>6. CASE UNCHANGED vars
  BY <1>6 DEF vars, queue
<1> QED
  BY <1>1, <1>2, <1>3, <1>4, <1>5, <1>6 DEF Next

\* What a donut held before a step it holds after it.
LEMMA HoldsAfter ==
  ASSUME Shape, [Next]_vars, NEW d \in Donuts, Holds(d, fed)
  PROVE  Holds(d, fed')
<1>1. fed \in Seq(Items)
  BY TypeFacts
<1> QED
  BY <1>1, FedGrows, HoldsStill

-----------------------------------------------------------------------------
\* Steps that leave the tier alone

Outside ==
    \/ \E c \in Clients : ClientCalls(c) \/ ClientStep(c)
    \/ TakeCall \/ TakeNoMore \/ TakeEnter
    \/ StopperStep
    \/ \E t \in Threads : SpuriousWake(t)
    \/ UNCHANGED vars

LEMMA TakenByFeeding ==
  ASSUME Shape, NEW c \in Clients, FeedEnter(c)
  PROVE  Taken' = Taken /\ UNCHANGED downstream_remaining_capacity_
<1>1. CASE UNCHANGED queue
  BY <1>1 DEF queue, Taken
<1>2. CASE Accept(c)
  <2>1. /\ buffer_ \in Seq(Items) /\ fed \in Seq(Items) /\ block[c] \in Seq(Items)
        /\ Len(buffer_) \in Nat /\ Len(fed) \in Nat /\ Len(block[c]) \in Nat
    BY TypeFacts
  <2>2. /\ buffer_' = buffer_ \o block[c] /\ fed' = fed \o block[c]
        /\ UNCHANGED downstream_remaining_capacity_
    BY <1>2 DEF Accept, Inserted
  <2>3. Len(buffer_') = Len(buffer_) + Len(block[c])
    BY <2>1, <2>2, ConcatProperties
  <2>4. Len(fed') = Len(fed) + Len(block[c])
    BY <2>1, <2>2, ConcatProperties
  <2> QED
    BY <2>1, <2>2, <2>3, <2>4 DEF Taken
<1> QED
  BY <1>1, <1>2 DEF FeedEnter

LEMMA OutsideFacts ==
  ASSUME Shape, Outside
  PROVE  /\ Taken' = Taken
         /\ UNCHANGED downstream_remaining_capacity_
         /\ pc[Worker] = "lambda" => pc'[Worker] = "lambda"
<1>1. PcIsTyped
  BY TypeFacts
<1>2. ASSUME NEW c \in Clients, FeedEnter(c)
      PROVE  /\ Taken' = Taken
             /\ UNCHANGED downstream_remaining_capacity_
             /\ pc[Worker] = "lambda" => pc'[Worker] = "lambda"
  BY <1>2, TakenByFeeding DEF FeedEnter, MutexFree
<1>3. ASSUME NEW c \in Clients,
             FeedCall(c) \/ FlushCall(c) \/ FlushEnter(c) \/ FlushRecheck(c)
      PROVE  /\ Taken' = Taken
             /\ UNCHANGED downstream_remaining_capacity_
             /\ pc[Worker] = "lambda" => pc'[Worker] = "lambda"
  <2>1. UNCHANGED queue
    BY <1>3 DEF FeedCall, FlushCall, FlushEnter, FlushRecheck
  <2>2. pc[Worker] = "lambda" => pc'[Worker] = "lambda"
    <3>1. CASE FeedCall(c)
      BY <1>1, <3>1, PcFeedCall, ThreadFacts
    <3>2. CASE FlushCall(c)
      BY <1>1, <3>2, PcFlushCall, ThreadFacts
    <3>3. CASE FlushEnter(c) \/ FlushRecheck(c)
      BY <3>3 DEF FlushEnter, FlushRecheck, MutexFree
    <3> QED
      BY <1>3, <3>1, <3>2, <3>3
  <2> QED
    BY <2>1, <2>2 DEF queue, Taken
<1>4. CASE TakeCall \/ TakeNoMore \/ TakeEnter
  BY <1>4 DEF TakeCall, TakeNoMore, TakeEnter, queue, Taken
<1>5. CASE StopperStep
  <2>1. UNCHANGED queue
    BY <1>5 DEF StopperStep, StopCall, StopSet, StopNotify
  <2>2. pc[Worker] = "lambda" => pc'[Worker] = "lambda"
    BY <1>1, <1>5, PcStop, PcStopNotify, ThreadFacts DEF StopperStep
  <2> QED
    BY <2>1, <2>2 DEF queue, Taken
<1>6. ASSUME NEW t \in Threads, SpuriousWake(t)
      PROVE  /\ Taken' = Taken
             /\ UNCHANGED downstream_remaining_capacity_
             /\ pc[Worker] = "lambda" => pc'[Worker] = "lambda"
  <2>1. UNCHANGED queue
    BY <1>6 DEF SpuriousWake
  <2>2. pc[Worker] = "lambda" => pc'[Worker] = "lambda"
    BY <1>1, <1>6, PcSpuriousWake, ThreadFacts
  <2> QED
    BY <2>1, <2>2 DEF queue, Taken
<1>7. CASE UNCHANGED vars
  BY <1>7 DEF vars, queue, Taken
<1> QED
  BY <1>2, <1>3, <1>4, <1>5, <1>6, <1>7 DEF Outside, ClientCalls, ClientStep

LEMMA TierOutside ==
  ASSUME IngesterInv, [Next]_vars, Outside, UNCHANGED tier, stop_requested' \in BOOLEAN
  PROVE  TierInv'
<1>1. Shape /\ hatchling \in Donuts /\ buffer_room \in Seq(Donuts) /\ promoted \in Seq(Donuts)
  BY TierFacts
<1>2. IngesterTypeOK /\ DonutsHoldWhatWasFed /\ RangesAreContiguous /\ WorkerAssertions
  BY DEF IngesterInv
<1>3. IngesterTypeOK'
  BY <1>2 DEF IngesterTypeOK, tier
<1>4. DonutsHoldWhatWasFed'
  <2>1. Holds(hatchling, fed')
    BY <1>1, <1>2, HoldsAfter DEF DonutsHoldWhatWasFed
  <2>2. \A i \in DOMAIN buffer_room : Holds(buffer_room[i], fed')
    BY <1>1, <1>2, HoldsAfter DEF DonutsHoldWhatWasFed
  <2>3. \A i \in DOMAIN promoted : Holds(promoted[i], fed')
    BY <1>1, <1>2, HoldsAfter DEF DonutsHoldWhatWasFed
  <2> QED
    BY <2>1, <2>2, <2>3 DEF DonutsHoldWhatWasFed, tier
<1>5. RangesAreContiguous'
  BY <1>1, <1>2, OutsideFacts DEF RangesAreContiguous, RoomEnd, NextOffset, tier
<1>6. WorkerAssertions'
  BY <1>1, <1>2, OutsideFacts DEF WorkerAssertions, RemainingCapacity, tier
<1> QED
  BY <1>3, <1>4, <1>5, <1>6 DEF TierInv

-----------------------------------------------------------------------------
\* The worker's lambda

\* What the ranges say while nothing is on its way to the room.
LEMMA RangesAtRest ==
  ASSUME IngesterInv, lambda_at \notin {"feed", "spawn"}
  PROVE  /\ promoted = << >>
         /\ hatchling.first = RoomEnd
         /\ hatchling.first + Len(hatchling.entries) = FirstPi + Taken
<1>1. RangesAreContiguous
  BY DEF IngesterInv
<1> QED
  BY <1>1 DEF RangesAreContiguous, NextOffset

\* What is appended to the hatchling is the log's continuation.
LEMMA AppendFacts ==
  ASSUME IngesterInv, AppendHashes
  PROVE  /\ hatchling' \in Donuts
         /\ hatchling'.first = hatchling.first
         /\ Len(hatchling'.entries) = Len(hatchling.entries) + Taking
         /\ \A i \in 1 .. Len(hatchling'.entries) :
               hatchling'.entries[i] = fed[hatchling.first - FirstPi + i]
<1> DEFINE k == Taking
           old == hatchling.entries
           new == SubSeq(buffer_, 1, k)
<1>1. /\ old \in Seq(Items) /\ Len(old) \in Nat /\ hatchling.first \in Nat
      /\ buffer_ \in Seq(Items) /\ Len(buffer_) \in Nat /\ Len(fed) \in Nat
      /\ FirstPi \in Nat /\ Taken \in Nat /\ hatchling \in Donuts
  BY TierFacts
<1>2. k \in 1 .. Len(buffer_)
  BY TakingFacts
<1>3. /\ new \in Seq(Items) /\ Len(new) = k
      /\ \A i \in 1 .. k : new[i] = buffer_[i]
  <2>1. \A i \in 1 .. k : buffer_[i] \in Items
    BY <1>1, <1>2
  <2>2. k \in Nat /\ 1 <= k
    BY <1>1, <1>2
  <2>3. /\ new \in Seq(Items)
        /\ Len(new) = IF 1 <= k THEN k - 1 + 1 ELSE 0
        /\ \A i \in 1 .. k - 1 + 1 : new[i] = buffer_[1 + i - 1]
    BY <1>1, <2>1, <2>2, SubSeqProperties
  <2> QED
    BY <2>2, <2>3
<1>4. hatchling' = [hatchling EXCEPT !.entries = old \o new]
  BY DEF AppendHashes
<1> HIDE DEF new, k
<1>5. /\ old \o new \in Seq(Items)
      /\ Len(old \o new) = Len(old) + k
      /\ \A i \in 1 .. Len(old) + k :
            (old \o new)[i] = IF i <= Len(old) THEN old[i] ELSE new[i - Len(old)]
  BY <1>1, <1>3, ConcatProperties
<1>6. hatchling' \in Donuts /\ hatchling'.first = hatchling.first /\ hatchling'.entries = old \o new
  <2>1. Len(old) + k <= DonutCapacity
    <3>1. /\ k <= RemainingCapacity(hatchling) /\ k \in Nat
          /\ RemainingCapacity(hatchling) = DonutCapacity - Len(old)
          /\ DonutCapacity \in Nat
      BY <1>1, <1>2, TakingFacts, NumbersAssumption DEF k
    <3> QED
      BY <1>1, <3>1
  <2> QED
    BY <1>1, <1>4, <1>5, <2>1 DEF Donuts
<1>7. hatchling.first + Len(old) = FirstPi + Taken
  BY RangesAtRest DEF AppendHashes
<1>8. \A i \in 1 .. Len(old) : old[i] = fed[hatchling.first - FirstPi + i]
  BY DEF IngesterInv, DonutsHoldWhatWasFed, Holds
<1>9. \A i \in 1 .. Len(buffer_) : buffer_[i] = fed[Taken + i]
  BY DEF IngesterInv, IndInv, BufferIsEndOfFed
<1>10. ASSUME NEW i \in 1 .. Len(old) + k
       PROVE  (old \o new)[i] = fed[hatchling.first - FirstPi + i]
  <2>1. CASE i <= Len(old)
    <3>1. i \in 1 .. Len(old)
      BY <1>1, <1>2, <2>1
    <3> QED
      BY <1>5, <1>8, <2>1, <3>1
  <2>2. CASE ~(i <= Len(old))
    <3>1. i - Len(old) \in 1 .. k /\ i - Len(old) \in 1 .. Len(buffer_)
      BY <1>1, <1>2, <2>2
    <3>2. Taken + (i - Len(old)) = hatchling.first - FirstPi + i
      <4>1. /\ FirstPi \in Nat /\ Taken \in Nat /\ hatchling.first \in Nat
            /\ Len(old) \in Nat /\ i \in Int
        BY <1>1, <1>2
      <4> HIDE DEF old
      <4> QED
        BY <1>7, <4>1
    <3>3. (old \o new)[i] = new[i - Len(old)]
      BY <1>5, <2>2
    <3> QED
      BY <1>3, <1>9, <3>1, <3>2, <3>3
  <2> QED
    BY <2>1, <2>2
<1> QED
  BY <1>5, <1>6, <1>10 DEF k

LEMMA TierAppend ==
  ASSUME IngesterInv, AppendHashes
  PROVE  TierInv'
<1>1. /\ FirstPi \in Nat /\ DonutCapacity \in Nat
      /\ Len(buffer_) \in Nat /\ Len(fed) \in Nat /\ Taken \in Nat
      /\ Taken = Len(fed) - Len(buffer_)
      /\ hatchling.first \in Nat /\ Len(hatchling.entries) \in Nat /\ Shape
  BY TierFacts
<1>2. /\ Taking \in 1 .. Len(buffer_) /\ Taking <= RemainingCapacity(hatchling)
      /\ RemainingCapacity(hatchling) = DonutCapacity - Len(hatchling.entries)
  BY TakingFacts
<1>3. /\ hatchling' \in Donuts
      /\ hatchling'.first = hatchling.first
      /\ Len(hatchling'.entries) = Len(hatchling.entries) + Taking
      /\ \A i \in 1 .. Len(hatchling'.entries) :
            hatchling'.entries[i] = fed[hatchling.first - FirstPi + i]
  BY AppendFacts
<1>4. Consume(Taking) /\ Taking \in 0 .. Len(buffer_) /\ Taking # 0
  BY <1>1, <1>2 DEF AppendHashes, Erased
<1>5. Len(buffer_') = Len(buffer_) - Taking
  BY <1>1, <1>4, ConsumeFacts
<1>6. /\ fed' = fed /\ pc' = pc
      /\ UNCHANGED << buffer_room, promoted, stop_requested >>
      /\ pc[Worker] = "lambda"
      /\ lambda_at = "append"
      /\ lambda_at' = IF HatchlingIsFull THEN "promote" ELSE "append"
  BY <1>4 DEF AppendHashes, Consume
<1>7. Taken' = Taken + Taking /\ Taken' <= Len(fed)
  BY <1>1, <1>2, <1>5, <1>6 DEF Taken
<1>8. /\ promoted = << >> /\ hatchling.first = RoomEnd
      /\ hatchling.first + Len(hatchling.entries) = FirstPi + Taken
  BY <1>6, RangesAtRest
<1>9. NextOffset(hatchling') = FirstPi + Taken'
  <2>1. /\ hatchling'.first = hatchling.first
        /\ Len(hatchling'.entries) = Len(hatchling.entries) + Taking
    BY <1>3
  <2>2. Taking \in Nat
    BY <1>1, <1>2
  <2>3. hatchling.first + (Len(hatchling.entries) + Taking) = FirstPi + (Taken + Taking)
    BY <1>1, <1>8, <2>2
  <2>4. Taken' = Taken + Taking
    BY <1>7
  <2>5. hatchling'.first + Len(hatchling'.entries) = FirstPi + Taken'
    BY <2>1, <2>3, <2>4
  <2> QED
    BY <2>5 DEF NextOffset
<1>10. IngesterTypeOK'
  BY <1>3, <1>6 DEF IngesterInv, IngesterTypeOK
<1>11. DonutsHoldWhatWasFed'
  <2>1. FirstPi <= hatchling.first
    BY DEF IngesterInv, DonutsHoldWhatWasFed, Holds
  <2>2. NextOffset(hatchling') <= FirstPi + Len(fed)
    BY <1>1, <1>2, <1>7, <1>9
  <2>3. Holds(hatchling', fed')
    BY <1>3, <1>6, <2>1, <2>2 DEF Holds
  <2>4. /\ \A i \in DOMAIN buffer_room : Holds(buffer_room[i], fed)
        /\ \A i \in DOMAIN promoted : Holds(promoted[i], fed)
    BY DEF IngesterInv, DonutsHoldWhatWasFed
  <2> QED
    BY <1>6, <2>3, <2>4 DEF DonutsHoldWhatWasFed
<1>12. RangesAreContiguous'
  <2>1. RangesAreContiguous
    BY DEF IngesterInv
  <2>2. RoomEnd' = RoomEnd
    BY <1>6 DEF RoomEnd, NextOffset
  <2>3. NextOffset(hatchling)' = FirstPi + Taken'
    BY <1>9 DEF NextOffset
  <2>4. lambda_at' # "feed" /\ lambda_at' # "spawn"
    BY <1>6
  <2>5. \A i \in DOMAIN buffer_room' :
          /\ Len(buffer_room'[i].entries) = DonutCapacity
          /\ buffer_room'[i].first =
                IF i = 1 THEN FirstPi ELSE NextOffset(buffer_room'[i - 1])
    BY <1>6, <2>1 DEF RangesAreContiguous
  <2>6. promoted' = << >> /\ hatchling'.first = RoomEnd'
    BY <1>3, <1>6, <1>8, <2>2
  <2> QED
    BY <2>3, <2>4, <2>5, <2>6 DEF RangesAreContiguous
<1>13. WorkerAssertions'
  <2>1. RemainingCapacity(hatchling') \in Nat
    BY <1>1, <1>2, <1>3 DEF RemainingCapacity
  <2>2. CASE RemainingCapacity(hatchling') = 0
    BY <1>6, <2>2 DEF WorkerAssertions, HatchlingIsFull
  <2>3. CASE RemainingCapacity(hatchling') # 0
    BY <1>6, <2>1, <2>3 DEF WorkerAssertions, HatchlingIsFull
  <2> QED
    BY <2>2, <2>3
<1> QED
  BY <1>10, <1>11, <1>12, <1>13 DEF TierInv

\* A hatchling or donut without entries holds what it should.
LEMMA EmptyHolds ==
  ASSUME NEW f \in Nat, NEW log \in Seq(Items), FirstPi <= f, f <= FirstPi + Len(log)
  PROVE  NewDonut(f) \in Donuts /\ Holds(NewDonut(f), log) /\ NextOffset(NewDonut(f)) = f
<1>1. NewDonut(f) \in Donuts /\ NewDonut(f).first = f /\ NewDonut(f).entries = << >>
  <2>1. << >> \in Seq(Items) /\ Len(<< >>) <= DonutCapacity
    BY NumbersAssumption
  <2> QED
    BY <2>1 DEF NewDonut, Donuts
<1>2. NextOffset(NewDonut(f)) = f
  BY <1>1 DEF NextOffset
<1>3. Holds(NewDonut(f), log)
  BY <1>1, <1>2 DEF Holds
<1> QED
  BY <1>1, <1>2, <1>3

LEMMA TierPromote ==
  ASSUME IngesterInv, Promote, pc[Worker] = "lambda"
  PROVE  TierInv'
<1>1. /\ FirstPi \in Nat /\ DonutCapacity \in Nat /\ fed \in Seq(Items)
      /\ Len(fed) \in Nat /\ Taken \in Nat
      /\ hatchling \in Donuts /\ hatchling.first \in Nat /\ Len(hatchling.entries) \in Nat
  BY TierFacts
<1>2. /\ promoted' = << hatchling >>
      /\ hatchling' = [hatchling EXCEPT !.entries = << >>]
      /\ lambda_at = "promote" /\ lambda_at' = "feed"
      /\ UNCHANGED << buffer_room, stop_requested, fed, buffer_, pc >>
  BY DEF Promote, vars, queue
<1>3. /\ hatchling.first = RoomEnd
      /\ hatchling.first + Len(hatchling.entries) = FirstPi + Taken
  BY <1>2, RangesAtRest
<1>4. Len(hatchling.entries) = DonutCapacity
  BY <1>1, <1>2 DEF IngesterInv, WorkerAssertions, RemainingCapacity
<1>5. hatchling' = NewDonut(hatchling.first)
  BY <1>1, <1>2 DEF NewDonut, Donuts
<1>6. Holds(hatchling, fed)
  BY DEF IngesterInv, DonutsHoldWhatWasFed
<1>7. FirstPi <= hatchling.first /\ hatchling.first <= FirstPi + Len(fed)
  BY <1>1, <1>6 DEF Holds, NextOffset
<1>8. hatchling' \in Donuts /\ Holds(hatchling', fed)
  BY <1>1, <1>5, <1>7, EmptyHolds
<1>9. promoted' \in Seq(Donuts) /\ Len(promoted') = 1 /\ promoted'[1] = hatchling
  BY <1>1, <1>2
<1>10. IngesterTypeOK'
  BY <1>2, <1>8, <1>9 DEF IngesterInv, IngesterTypeOK
<1>11. DonutsHoldWhatWasFed'
  <2>1. \A i \in DOMAIN buffer_room' : Holds(buffer_room'[i], fed')
    BY <1>2 DEF IngesterInv, DonutsHoldWhatWasFed
  <2>2. \A i \in DOMAIN promoted' : Holds(promoted'[i], fed')
    BY <1>2, <1>6
  <2> QED
    BY <1>2, <1>8, <2>1, <2>2 DEF DonutsHoldWhatWasFed
<1>12. RangesAreContiguous'
  <2>1. \A i \in DOMAIN buffer_room' :
          /\ Len(buffer_room'[i].entries) = DonutCapacity
          /\ buffer_room'[i].first =
                IF i = 1 THEN FirstPi ELSE NextOffset(buffer_room'[i - 1])
    BY <1>2 DEF IngesterInv, RangesAreContiguous
  <2>2. RoomEnd' = RoomEnd /\ Taken' = Taken
    BY <1>2 DEF RoomEnd, NextOffset, Taken
  <2>3. /\ promoted'[1].first = RoomEnd'
        /\ Len(promoted'[1].entries) = DonutCapacity
        /\ hatchling' = NewDonut(promoted'[1].first)
        /\ NextOffset(promoted'[1]) = FirstPi + Taken'
    BY <1>3, <1>4, <1>5, <1>9, <2>2 DEF NextOffset
  <2> QED
    BY <1>2, <1>9, <2>1, <2>3 DEF RangesAreContiguous
<1>13. WorkerAssertions'
  BY <1>2 DEF WorkerAssertions
<1> QED
  BY <1>10, <1>11, <1>12, <1>13 DEF TierInv

LEMMA TierFeedRoom ==
  ASSUME IngesterInv, FeedRoom, pc[Worker] = "lambda"
  PROVE  TierInv'
<1>1. /\ FirstPi \in Nat /\ DonutCapacity \in Nat /\ Taken \in Nat
      /\ buffer_room \in Seq(Donuts) /\ Len(buffer_room) \in Nat
      /\ promoted \in Seq(Donuts)
  BY TierFacts
<1>2. /\ buffer_room' = buffer_room \o promoted
      /\ promoted' = << >>
      /\ lambda_at = "feed" /\ lambda_at' = "spawn"
      /\ UNCHANGED << hatchling, stop_requested, fed, buffer_, pc >>
  BY DEF FeedRoom, vars, queue
<1>3. /\ Len(promoted) = 1
      /\ promoted[1].first = RoomEnd
      /\ Len(promoted[1].entries) = DonutCapacity
      /\ hatchling = NewDonut(promoted[1].first)
      /\ NextOffset(promoted[1]) = FirstPi + Taken
      /\ \A i \in DOMAIN buffer_room :
            /\ Len(buffer_room[i].entries) = DonutCapacity
            /\ buffer_room[i].first =
                  IF i = 1 THEN FirstPi ELSE NextOffset(buffer_room[i - 1])
  BY <1>2 DEF IngesterInv, RangesAreContiguous
<1> DEFINE n == Len(buffer_room)
<1>4. /\ buffer_room' \in Seq(Donuts)
      /\ Len(buffer_room') = n + 1
      /\ \A i \in 1 .. n + 1 :
            buffer_room'[i] = IF i <= n THEN buffer_room[i] ELSE promoted[i - n]
      /\ promoted[1] \in Donuts
  <2>1. promoted \in Seq(Donuts) /\ Len(promoted) = 1
    BY <1>1, <1>3
  <2>2. promoted[1] \in Donuts
    BY <2>1
  <2>3. /\ buffer_room \o promoted \in Seq(Donuts)
        /\ Len(buffer_room \o promoted) = Len(buffer_room) + Len(promoted)
        /\ \A i \in 1 .. Len(buffer_room) + Len(promoted) :
              (buffer_room \o promoted)[i] =
                 IF i <= Len(buffer_room) THEN buffer_room[i]
                                          ELSE promoted[i - Len(buffer_room)]
    BY <1>1, ConcatProperties
  <2>4. buffer_room' = buffer_room \o promoted
    BY <1>2
  <2> QED
    BY <2>1, <2>2, <2>3, <2>4
<1>5. /\ buffer_room'[n + 1] = promoted[1]
      /\ \A i \in 1 .. n : buffer_room'[i] = buffer_room[i]
      /\ DOMAIN buffer_room' = 1 .. n + 1 /\ DOMAIN buffer_room = 1 .. n
      /\ buffer_room' # << >>
  BY <1>1, <1>4
<1>6. IngesterTypeOK'
  BY <1>2, <1>4 DEF IngesterInv, IngesterTypeOK
<1>7. DonutsHoldWhatWasFed'
  <2>1. Holds(promoted[1], fed)
    BY <1>1, <1>3 DEF IngesterInv, DonutsHoldWhatWasFed
  <2>2. \A i \in 1 .. n : Holds(buffer_room[i], fed)
    BY <1>5 DEF IngesterInv, DonutsHoldWhatWasFed
  <2>3. ASSUME NEW i \in 1 .. n + 1 PROVE Holds(buffer_room'[i], fed)
    <3>1. i \in 1 .. n \/ i = n + 1
      BY <1>1
    <3> QED
      BY <1>5, <2>1, <2>2, <3>1
  <2>4. Holds(hatchling, fed)
    BY DEF IngesterInv, DonutsHoldWhatWasFed
  <2>5. \A i \in DOMAIN promoted' : Holds(promoted'[i], fed')
    BY <1>2
  <2> QED
    BY <1>2, <1>5, <2>3, <2>4, <2>5 DEF DonutsHoldWhatWasFed
<1>8. RangesAreContiguous'
  <2>1. RoomEnd' = FirstPi + Taken
    BY <1>3, <1>4, <1>5 DEF RoomEnd, NextOffset
  <2>2. hatchling' = NewDonut(RoomEnd' - DonutCapacity)
    <3>1. RoomEnd = (FirstPi + Taken) - DonutCapacity
      <4>1. promoted[1].first + DonutCapacity = FirstPi + Taken
        BY <1>3 DEF NextOffset
      <4>2. promoted[1].first \in Nat
        BY <1>4 DEF Donuts
      <4>3. promoted[1].first = (FirstPi + Taken) - DonutCapacity
        BY <1>1, <4>1, <4>2
      <4> QED
        BY <1>3, <4>3
    <3>2. RoomEnd = RoomEnd' - DonutCapacity
      <4>1. RoomEnd' - DonutCapacity = (FirstPi + Taken) - DonutCapacity
        BY <2>1
      <4> QED
        BY <3>1, <4>1
    <3>3. hatchling' = NewDonut(RoomEnd)
      BY <1>2, <1>3
    <3> QED
      BY <3>2, <3>3
  <2>3. ASSUME NEW i \in 1 .. n + 1
        PROVE  /\ Len(buffer_room'[i].entries) = DonutCapacity
               /\ buffer_room'[i].first =
                     IF i = 1 THEN FirstPi ELSE NextOffset(buffer_room'[i - 1])
    <3>1. CASE i \in 1 .. n
      <4>1. i # 1 => i - 1 \in 1 .. n
        BY <1>1, <3>1
      <4> QED
        BY <1>3, <1>5, <3>1, <4>1 DEF NextOffset
    <3>2. CASE i = n + 1
      <4>1. CASE n = 0
        <5>1. buffer_room = << >> /\ i = 1
          BY <1>1, <3>2, <4>1
        <5> QED
          BY <1>3, <1>5, <3>2, <5>1 DEF RoomEnd
      <4>2. CASE n # 0
        <5>1. buffer_room # << >> /\ i # 1 /\ i - 1 = n /\ n \in 1 .. n
          BY <1>1, <3>2, <4>2
        <5> QED
          BY <1>3, <1>5, <3>2, <5>1 DEF RoomEnd, NextOffset
      <4> QED
        BY <4>1, <4>2
    <3> QED
      BY <1>1, <3>1, <3>2
  <2>4. Taken' = Taken
    BY <1>2 DEF Taken
  <2> QED
    BY <1>2, <1>5, <2>1, <2>2, <2>3, <2>4 DEF RangesAreContiguous
<1>9. WorkerAssertions'
  BY <1>2 DEF WorkerAssertions
<1> QED
  BY <1>6, <1>7, <1>8, <1>9 DEF TierInv

LEMMA TierSpawn ==
  ASSUME IngesterInv, Spawn, pc[Worker] = "lambda"
  PROVE  TierInv'
<1>1. /\ FirstPi \in Nat /\ DonutCapacity \in Nat \ {0} /\ Taken \in Nat
      /\ fed \in Seq(Items) /\ Len(fed) \in Nat /\ hatchling.first \in Nat
      /\ Len(buffer_) \in Nat /\ Taken = Len(fed) - Len(buffer_)
  BY TierFacts
<1>2. /\ hatchling' = NewDonut(hatchling.first + DonutCapacity)
      /\ lambda_at = "spawn" /\ lambda_at' = "append"
      /\ UNCHANGED << buffer_room, promoted, stop_requested, fed, buffer_, pc >>
  BY DEF Spawn, NewOffset, vars, queue
<1>3. /\ promoted = << >>
      /\ hatchling = NewDonut(RoomEnd - DonutCapacity)
      /\ RoomEnd = FirstPi + Taken
  BY <1>2 DEF IngesterInv, RangesAreContiguous
<1>4. hatchling.first + DonutCapacity = FirstPi + Taken
  <2>1. hatchling.first = RoomEnd - DonutCapacity
    <3>1. NewDonut(RoomEnd - DonutCapacity).first = RoomEnd - DonutCapacity
      BY DEF NewDonut
    <3> QED
      BY <1>3, <3>1
  <2>2. RoomEnd = FirstPi + Taken
    BY <1>3
  <2>3. RoomEnd \in Nat
    BY <1>1, <2>2
  <2> QED
    BY <1>1, <2>1, <2>2, <2>3
<1>5. hatchling' = NewDonut(FirstPi + Taken)
  BY <1>2, <1>4
<1>6. /\ FirstPi + Taken \in Nat /\ FirstPi <= FirstPi + Taken
      /\ FirstPi + Taken <= FirstPi + Len(fed)
  BY <1>1
<1>7. /\ hatchling' \in Donuts /\ Holds(hatchling', fed)
      /\ NextOffset(hatchling') = FirstPi + Taken
  BY <1>1, <1>5, <1>6, EmptyHolds
<1>8. hatchling'.first = FirstPi + Taken /\ RemainingCapacity(hatchling') = DonutCapacity
  BY <1>1, <1>5 DEF NewDonut, RemainingCapacity
<1>9. IngesterTypeOK'
  BY <1>2, <1>7 DEF IngesterInv, IngesterTypeOK
<1>10. DonutsHoldWhatWasFed'
  BY <1>2, <1>7 DEF IngesterInv, DonutsHoldWhatWasFed
<1>11. RangesAreContiguous'
  <2>1. \A i \in DOMAIN buffer_room' :
          /\ Len(buffer_room'[i].entries) = DonutCapacity
          /\ buffer_room'[i].first =
                IF i = 1 THEN FirstPi ELSE NextOffset(buffer_room'[i - 1])
    BY <1>2 DEF IngesterInv, RangesAreContiguous
  <2>2. RoomEnd' = RoomEnd /\ Taken' = Taken
    BY <1>2 DEF RoomEnd, NextOffset, Taken
  <2>3. NextOffset(hatchling)' = FirstPi + Taken'
    BY <1>7, <2>2 DEF NextOffset
  <2> QED
    BY <1>2, <1>3, <1>8, <2>1, <2>2, <2>3 DEF RangesAreContiguous
<1>12. WorkerAssertions'
  BY <1>1, <1>2, <1>8 DEF WorkerAssertions
<1> QED
  BY <1>9, <1>10, <1>11, <1>12 DEF TierInv

LEMMA TierReturn ==
  ASSUME IngesterInv, ReturnFromLambda
  PROVE  TierInv'
<1>1. /\ lambda_at = "append" /\ lambda_at' = "append"
      /\ TakeLeave(RemainingCapacity(hatchling))
      /\ UNCHANGED << hatchling, buffer_room, promoted, stop_requested >>
  BY DEF ReturnFromLambda, IngesterInv, WorkerAssertions
<1>2. /\ downstream_remaining_capacity_' = RemainingCapacity(hatchling)
      /\ UNCHANGED << buffer_, fed >>
  BY <1>1 DEF TakeLeave
<1>3. IngesterTypeOK'
  BY <1>1 DEF IngesterInv, IngesterTypeOK
<1>4. DonutsHoldWhatWasFed'
  BY <1>1, <1>2 DEF IngesterInv, DonutsHoldWhatWasFed
<1>5. RangesAreContiguous'
  <2>1. Taken' = Taken /\ RoomEnd' = RoomEnd
    BY <1>1, <1>2 DEF Taken, RoomEnd, NextOffset
  <2>2. RangesAreContiguous
    BY DEF IngesterInv
  <2> QED
    BY <1>1, <2>1, <2>2 DEF RangesAreContiguous, NextOffset
<1>6. WorkerAssertions'
  <2>1. RemainingCapacity(hatchling)' = RemainingCapacity(hatchling)
    BY <1>1 DEF RemainingCapacity
  <2> QED
    BY <1>1, <1>2, <2>1 DEF IngesterInv, WorkerAssertions
<1> QED
  BY <1>3, <1>4, <1>5, <1>6 DEF TierInv

-----------------------------------------------------------------------------
\* The invariant and what follows from it

LEMMA IngesterInvInit == IngesterInit => IngesterInv
<1> SUFFICES ASSUME IngesterInit PROVE IngesterInv
  OBVIOUS
<1>1. IndInv
  BY IndInvInit DEF IngesterInit
<1>2. /\ FirstPi \in Nat /\ DonutCapacity \in Nat \ {0}
      /\ fed = << >> /\ buffer_ = << >> /\ fed \in Seq(Items)
      /\ hatchling = NewDonut(FirstPi) /\ buffer_room = << >> /\ promoted = << >>
      /\ lambda_at = "append" /\ stop_requested = FALSE
      /\ downstream_remaining_capacity_ = RemainingCapacity(hatchling)
  BY NumbersAssumption DEF IngesterInit, Init
<1>3. Taken = 0
  BY <1>2 DEF Taken
<1>4. /\ hatchling \in Donuts /\ Holds(hatchling, fed) /\ NextOffset(hatchling) = FirstPi
  <2>1. Len(fed) = 0
    BY <1>2
  <2>2. FirstPi <= FirstPi /\ FirstPi <= FirstPi + Len(fed)
    BY <1>2, <2>1
  <2> QED
    BY <1>2, <2>2, EmptyHolds
<1>5. hatchling.first = FirstPi /\ RemainingCapacity(hatchling) = DonutCapacity
  BY <1>2 DEF NewDonut, RemainingCapacity
<1>6. IngesterTypeOK
  <2>1. << >> \in Seq(Donuts)
    OBVIOUS
  <2> QED
    BY <1>2, <1>4, <2>1 DEF IngesterTypeOK
<1>7. DonutsHoldWhatWasFed
  BY <1>2, <1>4 DEF DonutsHoldWhatWasFed
<1>8. RangesAreContiguous
  BY <1>2, <1>3, <1>4, <1>5 DEF RangesAreContiguous, RoomEnd
<1>9. WorkerAssertions
  BY <1>2, <1>5 DEF WorkerAssertions
<1> QED
  BY <1>1, <1>6, <1>7, <1>8, <1>9 DEF IngesterInv

LEMMA TierStep == IngesterInv /\ [IngesterNext]_ingesterVars => TierInv'
<1> SUFFICES ASSUME IngesterInv, [IngesterNext]_ingesterVars PROVE TierInv'
  OBVIOUS
<1>1. [Next]_vars
  BY BufferStep
<1>2. stop_requested \in BOOLEAN
  BY DEF IngesterInv, IngesterTypeOK
<1>3. CASE \E c \in Clients : Calls(c) \/ Serve(c)
  BY <1>1, <1>2, <1>3, TierOutside DEF Calls, Serve, Outside
<1>4. CASE LoopTop \/ EnterLambda
  BY <1>1, <1>2, <1>4, TierOutside DEF LoopTop, EnterLambda, Outside
<1>5. CASE pc[Worker] = "lambda" /\ Lambda
  BY <1>5, TierAppend, TierPromote, TierFeedRoom, TierSpawn, TierReturn DEF Lambda
<1>6. CASE RequestStop \/ Stop
  <2>1. StopperStep /\ UNCHANGED tier /\ stop_requested' \in BOOLEAN
    BY <1>2, <1>6 DEF RequestStop, Stop, StopperStep, TokenSet
  <2> QED
    BY <1>1, <2>1, TierOutside DEF Outside
<1>7. CASE \E t \in Threads : Wake(t)
  BY <1>1, <1>2, <1>7, TierOutside DEF Wake, Outside
<1>8. CASE UNCHANGED ingesterVars
  BY <1>1, <1>2, <1>8, TierOutside DEF ingesterVars, Outside
<1> QED
  BY <1>3, <1>4, <1>5, <1>6, <1>7, <1>8 DEF IngesterNext, Work

LEMMA IngesterInvStep == IngesterInv /\ [IngesterNext]_ingesterVars => IngesterInv'
<1> SUFFICES ASSUME IngesterInv, [IngesterNext]_ingesterVars PROVE IngesterInv'
  OBVIOUS
<1>1. IndInv'
  BY BufferStep, IndInvStep DEF IngesterInv
<1>2. TierInv'
  BY TierStep
<1> QED
  BY <1>1, <1>2 DEF IngesterInv, TierInv

\* The invariant of the Ingester: the buffer's and the tier's together.
THEOREM IngesterInvariant == IngesterSpec => []IngesterInv
BY IngesterInvInit, IngesterInvStep, PTL DEF IngesterSpec

\* The variables of the tier keep their types.
THEOREM IngesterTypeCorrect == IngesterSpec => []IngesterTypeOK
<1>1. IngesterInv => IngesterTypeOK
  BY DEF IngesterInv
<1> QED
  BY <1>1, IngesterInvariant, PTL

\* Donuts, their ranges and the worker's assertions, at every step.
THEOREM TierStaysInOrder == IngesterSpec => []TierInv
<1>1. IngesterInv => TierInv
  BY IngesterInvParts
<1> QED
  BY <1>1, IngesterInvariant, PTL

\* Every donut holds exactly what was fed under its indices.
THEOREM NothingLostInTheTier == IngesterSpec => []DonutsHoldWhatWasFed
<1>1. IngesterInv => DonutsHoldWhatWasFed
  BY DEF IngesterInv
<1> QED
  BY <1>1, IngesterInvariant, PTL

\* The donuts follow one another without gaps or overlaps.
THEOREM RangesAlwaysContiguous == IngesterSpec => []RangesAreContiguous
<1>1. IngesterInv => RangesAreContiguous
  BY DEF IngesterInv
<1> QED
  BY <1>1, IngesterInvariant, PTL

\* The assertions of the worker and of the buffer never fail.
THEOREM AssertionsHold == IngesterSpec => []WorkerAssertions
<1>1. IngesterInv => WorkerAssertions
  BY DEF IngesterInv
<1> QED
  BY <1>1, IngesterInvariant, PTL

\* The composition implements the buffer's own specification: whatever is
\* shown of a buffer with any well-behaved hatchling holds of this one.
THEOREM LambdaKeepsContract == IngesterSpec => KeepsBufferContract
<1>1. IngesterInit => Init
  BY DEF IngesterInit
<1> QED
  BY <1>1, IngesterInvariant, BufferStep, PTL DEF IngesterSpec, KeepsBufferContract, Spec

\* So the Ingester's buffer answers reverse lookups as shown of any buffer.
THEOREM IngesterFindsFed == IngesterSpec => []ReverseFindsFed
<1>1. IngesterSpec => Spec
  BY LambdaKeepsContract DEF KeepsBufferContract
<1> QED
  BY <1>1, ReverseAlwaysFindsFed, PTL

\* A flush that waited returns when what was fed before it is in the tier,
\* or because the store is being destroyed.
THEOREM FlushAlwaysReachesTier == IngesterSpec => FlushReachesTier
<1> DEFINE B(c) == (pc[c] \in Flushing /\ pc'[c] = "idle" /\ ~stopping_)
                      => FirstPi + mark[c] <= NextOffset(hatchling)
<1>1. IngesterInv /\ [IngesterNext]_ingesterVars => \A c \in Clients : B(c)
  <2> SUFFICES ASSUME IngesterInv, [IngesterNext]_ingesterVars, NEW c \in Clients,
                      pc[c] \in Flushing, pc'[c] = "idle", ~stopping_
               PROVE  FirstPi + mark[c] <= NextOffset(hatchling)
    OBVIOUS
  <2>1. Taken >= mark[c] /\ MutexFree
    BY BufferStep, FlushStep DEF IngesterInv
  <2>2. lambda_at = "append"
    BY <2>1 DEF IngesterInv, WorkerAssertions, MutexFree
  <2>3. NextOffset(hatchling) = FirstPi + Taken
    BY <2>2, RangesAtRest DEF NextOffset
  <2>4. mark[c] \in Nat /\ Taken \in Nat /\ FirstPi \in Nat
    BY TierFacts, TypeFacts
  <2> QED
    BY <2>1, <2>3, <2>4
<1>2. IngesterInv /\ [IngesterNext]_ingesterVars
        => [\A c \in Clients : B(c)]_ingesterVars
  BY <1>1
<1> HIDE DEF B
<1>3. IngesterSpec => [][\A c \in Clients : B(c)]_ingesterVars
  BY <1>2, IngesterInvariant, PTL DEF IngesterSpec
<1> QED
  BY <1>3 DEF FlushReachesTier, B

=============================================================================

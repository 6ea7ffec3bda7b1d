-------------------------- MODULE BufferRoomProofs --------------------------
(***************************************************************************)
(* What holds of BufferRoom for any number of threads and any capacity.    *)
(* The inductive invariant has two layers: LockInv says which thread is    *)
(* where and holds what, and holds whoever calls Discard; RoomInv says     *)
(* what the locks achieve, and needs calls of Discard not to overlap.      *)
(***************************************************************************)
EXTENDS BufferRoom, FiniteSetTheorems, TLAPS

LEMMA LockInvInit == Init => LockInv
<1> SUFFICES ASSUME Init PROVE LockInv
  OBVIOUS
<1> USE CapacityAssumption, MaxCallsAssumption
<1>1. TypeOK
  <2>1. PICK k \in 0 .. Capacity : items_ = [i \in 1 .. k |-> i] /\ arrived = k
    BY DEF Init
  <2>2. items_ \in Seq(Nat)
    BY <2>1
  <2>3. /\ calls \in [Threads -> 0 .. MaxCalls]
        /\ view \in [Threads -> Seq(Nat)]
        /\ pc \in [Threads -> PC]
    BY DEF Init, PC
  <2>4. arrived \in Nat /\ active_readers_ \in Nat
    BY <2>1 DEF Init
  <2>6. is_discarding_ \in BOOLEAN
    BY DEF Init
  <2>5. /\ state_mutex_ \in SUBSET Threads
        /\ data_shared \in SUBSET Threads
        /\ data_exclusive \in SUBSET Threads
        /\ purged \in SUBSET Nat
    BY DEF Init
  <2> QED
    BY <2>2, <2>3, <2>4, <2>5, <2>6 DEF TypeOK
<1>2. LabelsMatchRoles
  BY DEF Init, LabelsMatchRoles, Registered, Discarding
<1>3. LocksMatchLabels
  BY DEF Init, LocksMatchLabels
<1>4. CountIsExact
  <2>1. RegisteredThreads = {}
    BY DEF Init, RegisteredThreads, Registered
  <2> QED
    BY <2>1, FS_EmptySet DEF Init, CountIsExact
<1> QED
  BY <1>1, <1>2, <1>3, <1>4 DEF LockInv

\* A thread that registers or leaves changes the count by one.
LEMMA CountChanges ==
  ASSUME NEW S, IsFiniteSet(S), NEW t
  PROVE  /\ IsFiniteSet(S \cup {t}) /\ IsFiniteSet(S \ {t})
         /\ Cardinality(S) \in Nat
         /\ t \notin S => Cardinality(S \cup {t}) = Cardinality(S) + 1
         /\ t \in S => /\ Cardinality(S \ {t}) = Cardinality(S) - 1
                       /\ Cardinality(S) - 1 \in Nat
<1>1. Cardinality(S) \in Nat
  BY FS_CardinalityType
<1>2. IsFiniteSet(S \cup {t}) /\ (t \notin S => Cardinality(S \cup {t}) = Cardinality(S) + 1)
  BY FS_AddElement
<1>3. IsFiniteSet(S \ {t}) /\ (t \in S => Cardinality(S \ {t}) = Cardinality(S) - 1)
  BY FS_RemoveElement
<1>4. Cardinality(S \ {t}) \in Nat
  BY <1>3, FS_CardinalityType
<1> QED
  BY <1>1, <1>2, <1>3, <1>4

\* Moving one thread to a label and waking waiters keep the labels' type.
LEMMA LabelTypes ==
  ASSUME pc \in [Threads -> PC]
  PROVE  /\ \A t \in Threads, l \in PC : [pc EXCEPT ![t] = l] \in [Threads -> PC]
         /\ \A p \in [Threads -> PC] : /\ WakeProducers(p) \in [Threads -> PC]
                                      /\ WakeConsumers(p) \in [Threads -> PC]
                                      /\ WakeDiscarders(p) \in [Threads -> PC]
<1>1. /\ "feed_lock" \in PC /\ "take_woken" \in PC /\ "discard_woken" \in PC
  BY DEF PC
<1> QED
  BY <1>1 DEF WakeProducers, WakeConsumers, WakeDiscarders

LEMMA LabelsArePC ==
  /\ {"idle", "feed_lock", "feed_wait", "feed_data", "take_lock", "take_wait",
      "take_woken", "look_lock", "discard_lock", "discard_wait",
      "discard_woken", "purge_lock", "purge", "clear", "reset", "view_lock",
      "lambda", "leave"} \subseteq PC
BY DEF PC, Registered

\* A thread's call moves it from one label to another, so pc stays a function
\* to labels.
LEMMA PcTypeStep ==
  ASSUME TypeOK, NEW t \in Threads, NewCall(t) \/ Step(t) \/ SpuriousWake(t)
  PROVE  pc' \in [Threads -> PC]
<1> USE LabelTypes, LabelsArePC
<1> pc \in [Threads -> PC]
  BY DEF TypeOK
<1>1. CASE NewCall(t)
  BY <1>1 DEF NewCall, FeedCall, FilledCall, CurrentCall, DiscardCall, Call
<1>2. CASE SpuriousWake(t)
  BY <1>2 DEF SpuriousWake
<1>3. CASE FeedEnter(t)
  BY <1>3 DEF FeedEnter
<1>4. CASE FeedPush(t)
  BY <1>4 DEF FeedPush, UnlockState
<1>5. CASE FilledEnter(t)
  BY <1>5 DEF FilledEnter, Register, Refuse
<1>6. CASE CurrentEnter(t)
  BY <1>6 DEF CurrentEnter, Register, Refuse
<1>7. CASE ViewBegin(t)
  BY <1>7 DEF ViewBegin
<1>8. CASE ViewEnd(t)
  BY <1>8 DEF ViewEnd
<1>9. CASE Unregister(t)
  BY <1>9 DEF Unregister
<1>10. CASE DiscardEnter(t)
  BY <1>10 DEF DiscardEnter, AfterReadersLeft
<1>11. CASE DiscardRecheck(t)
  BY <1>11 DEF DiscardRecheck, AfterReadersLeft
<1>12. CASE DiscardLockData(t)
  BY <1>12 DEF DiscardLockData
<1>13. CASE Purge(t)
  BY <1>13 DEF Purge, PurgeAll, RangeOf
<1>14. CASE Clear(t)
  BY <1>14 DEF Clear, ItemsCleared
<1>15. CASE DiscardReset(t)
  BY <1>15 DEF DiscardReset
<1> QED
  BY <1>1, <1>2, <1>3, <1>4, <1>5, <1>6, <1>7, <1>8,
     <1>9, <1>10, <1>11, <1>12, <1>13, <1>14, <1>15 DEF Step

\* The other variables keep their types; the counter's is a matter of who is
\* registered, so it is left to LockInvStep.
LEMMA DataTypeStep ==
  ASSUME TypeOK, NEW t \in Threads, NewCall(t) \/ Step(t) \/ SpuriousWake(t),
         active_readers_' \in Nat
  PROVE  TypeOK'
<1> USE DEF TypeOK
<1>1. pc' \in [Threads -> PC]
  BY PcTypeStep
<1>2. CASE NewCall(t)
  <2>1. calls' = [calls EXCEPT ![t] = calls[t] + 1] /\ calls[t] < MaxCalls
    BY <1>2 DEF NewCall, FeedCall, FilledCall, CurrentCall, DiscardCall, Call
  <2>2. calls[t] + 1 \in 0 .. MaxCalls
    BY <2>1, MaxCallsAssumption
  <2>3. calls' \in [Threads -> 0 .. MaxCalls]
    BY <2>1, <2>2
  <2> QED
    BY <1>1, <1>2, <2>3
       DEF NewCall, FeedCall, FilledCall, CurrentCall, DiscardCall, Call
<1>3. CASE SpuriousWake(t)
  BY <1>1, <1>3 DEF SpuriousWake
<1>4. CASE FeedEnter(t)
  BY <1>1, <1>4 DEF FeedEnter
<1>5. CASE FeedPush(t)
  <2>1. items_' \in Seq(Nat) /\ arrived' \in Nat
    BY <1>5 DEF FeedPush
  <2> QED
    BY <1>1, <1>5, <2>1 DEF FeedPush, UnlockState
<1>6. CASE FilledEnter(t)
  BY <1>1, <1>6 DEF FilledEnter, Register, Refuse
<1>7. CASE CurrentEnter(t)
  BY <1>1, <1>7 DEF CurrentEnter, Register, Refuse
<1>8. CASE ViewBegin(t)
  BY <1>1, <1>8 DEF ViewBegin
<1>9. CASE ViewEnd(t)
  BY <1>1, <1>9 DEF ViewEnd
<1>10. CASE Unregister(t)
  BY <1>1, <1>10 DEF Unregister
<1>11. CASE DiscardEnter(t)
  BY <1>1, <1>11 DEF DiscardEnter, AfterReadersLeft
<1>12. CASE DiscardRecheck(t)
  BY <1>1, <1>12 DEF DiscardRecheck, AfterReadersLeft
<1>13. CASE DiscardLockData(t)
  BY <1>1, <1>13 DEF DiscardLockData
<1>14. CASE Purge(t)
  <2>1. purged' \in SUBSET Nat
    <3>1. RangeOf(items_) \in SUBSET Nat
      BY DEF RangeOf
    <3> QED
      BY <1>14, <3>1 DEF Purge, PurgeAll
  <2> QED
    BY <1>1, <1>14, <2>1 DEF Purge
<1>15. CASE Clear(t)
  BY <1>1, <1>15 DEF Clear, ItemsCleared
<1>16. CASE DiscardReset(t)
  BY <1>1, <1>16 DEF DiscardReset
<1> QED
  BY <1>2, <1>3, <1>4, <1>5, <1>6, <1>7, <1>8,
     <1>9, <1>10, <1>11, <1>12, <1>13, <1>14, <1>15, <1>16 DEF Step

LEMMA LockInvStep ==
  ASSUME LockInv, [Next]_vars
  PROVE  LockInv'
<1> USE DEF LockInv
<1>1. CASE UNCHANGED vars
  BY <1>1 DEF vars, TypeOK, LabelsMatchRoles, LocksMatchLabels, CountIsExact,
              RegisteredThreads, Discarding
<1> SUFFICES ASSUME NEW t \in Threads, NewCall(t) \/ Step(t) \/ SpuriousWake(t)
             PROVE  LockInv'
  BY <1>1 DEF Next
<1> USE DEF TypeOK, Registered, Discarding
<1>2. CASE NewCall(t)
  <2> USE <1>2 DEF NewCall, FeedCall, FilledCall, CurrentCall, DiscardCall, Call
  <2>1. TypeOK'
    BY DataTypeStep
  <2>2. LabelsMatchRoles'
    BY DEF LabelsMatchRoles
  <2>3. LocksMatchLabels'
    <3>1. \A u \in Threads :
             /\ pc'[u] = "feed_data" <=> pc[u] = "feed_data"
             /\ pc'[u] = "lambda" <=> pc[u] = "lambda"
             /\ pc'[u] \in {"purge", "clear"} <=> pc[u] \in {"purge", "clear"}
      OBVIOUS
    <3>2. UNCHANGED << state_mutex_, data_shared, data_exclusive >>
      OBVIOUS
    <3> QED
      BY <3>1, <3>2 DEF LocksMatchLabels
  <2>4. CountIsExact'
    <3>1. RegisteredThreads' = RegisteredThreads
      BY DEF RegisteredThreads
    <3> QED
      BY <3>1 DEF CountIsExact
  <2> QED
    BY <2>1, <2>2, <2>3, <2>4
<1>3. CASE SpuriousWake(t)
  <2> USE <1>3 DEF SpuriousWake
  <2>1. TypeOK'
    BY DataTypeStep
  <2>2. LabelsMatchRoles'
    BY DEF LabelsMatchRoles
  <2>3. LocksMatchLabels'
    BY DEF LocksMatchLabels
  <2>4. CountIsExact'
    <3>1. RegisteredThreads' = RegisteredThreads
      BY DEF RegisteredThreads
    <3> QED
      BY <3>1 DEF CountIsExact
  <2> QED
    BY <2>1, <2>2, <2>3, <2>4
<1>4. CASE FeedEnter(t)
  <2> USE <1>4 DEF FeedEnter
  <2>1. TypeOK'
    BY DataTypeStep
  <2>2. LabelsMatchRoles'
    BY DEF LabelsMatchRoles
  <2>3. LocksMatchLabels'
    BY DEF LocksMatchLabels
  <2>4. CountIsExact'
    <3>1. RegisteredThreads' = RegisteredThreads
      BY DEF RegisteredThreads
    <3> QED
      BY <3>1 DEF CountIsExact
  <2> QED
    BY <2>1, <2>2, <2>3, <2>4
<1>5. CASE FeedPush(t)
  <2> USE <1>5 DEF FeedPush, DataLockFree, UnlockState, WakeConsumers
  <2>1. TypeOK'
    BY DataTypeStep
  <2>2. LabelsMatchRoles'
    BY DEF LabelsMatchRoles
  <2>3. LocksMatchLabels'
    BY DEF LocksMatchLabels
  <2>4. CountIsExact'
    <3>1. RegisteredThreads' = RegisteredThreads
      BY DEF RegisteredThreads
    <3> QED
      BY <3>1 DEF CountIsExact
  <2> QED
    BY <2>1, <2>2, <2>3, <2>4
<1>6. CASE FilledEnter(t) \/ CurrentEnter(t)
  <2> USE <1>6 DEF FilledEnter, CurrentEnter
  <2>1. CASE Register(t)
    <3> USE <2>1 DEF Register
    <3>1. TypeOK'
      BY DataTypeStep
    <3>2. LabelsMatchRoles'
      BY DEF LabelsMatchRoles
    <3>3. LocksMatchLabels'
      BY DEF LocksMatchLabels
    <3>4. CountIsExact'
      <4>1. RegisteredThreads' = RegisteredThreads \cup {t} /\ t \notin RegisteredThreads
        BY DEF RegisteredThreads
      <4> QED
        BY <4>1, CountChanges DEF CountIsExact
    <3> QED
      BY <3>1, <3>2, <3>3, <3>4
  <2>2. CASE /\ UNCHANGED active_readers_
             /\ \/ pc' = [pc EXCEPT ![t] = "idle"]
                \/ pc' = [pc EXCEPT ![t] = "take_wait"] /\ t \in Workers
    <3> USE <2>2
    <3>1. TypeOK'
      BY DataTypeStep
    <3>2. LabelsMatchRoles'
      BY DEF LabelsMatchRoles
    <3>3. LocksMatchLabels'
      BY DEF LocksMatchLabels
    <3>4. CountIsExact'
      <4>1. RegisteredThreads' = RegisteredThreads
        BY DEF RegisteredThreads
      <4> QED
        BY <4>1 DEF CountIsExact
    <3> QED
      BY <3>1, <3>2, <3>3, <3>4
  <2> QED
    BY <2>1, <2>2 DEF Refuse, LabelsMatchRoles
<1>7. CASE ViewBegin(t) \/ ViewEnd(t)
  <2> USE <1>7 DEF ViewBegin, ViewEnd
  <2>1. TypeOK'
    BY DataTypeStep
  <2>2. LabelsMatchRoles'
    BY DEF LabelsMatchRoles
  <2>3. LocksMatchLabels'
    <3>1. CASE ViewBegin(t)
      BY <3>1 DEF LocksMatchLabels
    <3>2. CASE ViewEnd(t)
      BY <3>2 DEF LocksMatchLabels
    <3> QED
      BY <3>1, <3>2
  <2>4. CountIsExact'
    <3>1. RegisteredThreads' = RegisteredThreads
      BY DEF RegisteredThreads
    <3> QED
      BY <3>1 DEF CountIsExact
  <2> QED
    BY <2>1, <2>2, <2>3, <2>4
<1>8. CASE Unregister(t)
  <2> USE <1>8 DEF Unregister, WakeDiscarders
  <2>1. RegisteredThreads' = RegisteredThreads \ {t} /\ t \in RegisteredThreads
    BY DEF RegisteredThreads
  <2>2. CountIsExact' /\ active_readers_' \in Nat
    BY <2>1, CountChanges DEF CountIsExact
  <2>3. TypeOK'
    BY <2>2, DataTypeStep
  <2>4. LabelsMatchRoles'
    BY DEF LabelsMatchRoles
  <2>5. LocksMatchLabels'
    BY DEF LocksMatchLabels
  <2> QED
    BY <2>2, <2>3, <2>4, <2>5
<1>9. CASE DiscardEnter(t) \/ DiscardRecheck(t)
  <2> USE <1>9 DEF DiscardEnter, DiscardRecheck, WakeConsumers, AfterReadersLeft
  <2>1. TypeOK'
    BY DataTypeStep
  <2>2. LabelsMatchRoles'
    BY DEF LabelsMatchRoles
  <2>3. LocksMatchLabels'
    <3>1. \A u \in Threads :
             /\ pc'[u] = "feed_data" <=> pc[u] = "feed_data"
             /\ pc'[u] = "lambda" <=> pc[u] = "lambda"
             /\ pc'[u] \in {"purge", "clear"} <=> pc[u] \in {"purge", "clear"}
      OBVIOUS
    <3>2. UNCHANGED << state_mutex_, data_shared, data_exclusive >>
      OBVIOUS
    <3> QED
      BY <3>1, <3>2 DEF LocksMatchLabels
  <2>4. CountIsExact'
    <3>1. RegisteredThreads' = RegisteredThreads
      BY DEF RegisteredThreads
    <3> QED
      BY <3>1 DEF CountIsExact
  <2> QED
    BY <2>1, <2>2, <2>3, <2>4
<1>10. CASE DiscardLockData(t) \/ Purge(t) \/ Clear(t) \/ DiscardReset(t)
  <2> USE <1>10 DEF DiscardLockData, Purge, Clear, DiscardReset, DataLockFree,
                    PurgeAll, ItemsCleared, RangeOf, WakeProducers
  <2>1. TypeOK'
    BY DataTypeStep
  <2>2. LabelsMatchRoles'
    BY DEF LabelsMatchRoles
  <2>3. LocksMatchLabels'
    <3>1. \A u \in Threads : /\ pc'[u] = "feed_data" <=> pc[u] = "feed_data"
                             /\ pc'[u] = "lambda" <=> pc[u] = "lambda"
      OBVIOUS
    <3>2. UNCHANGED << state_mutex_, data_shared >>
      OBVIOUS
    <3>3. data_exclusive' = {u \in Threads : pc'[u] \in {"purge", "clear"}}
      <4>1. CASE DiscardLockData(t)
        BY <4>1 DEF LocksMatchLabels
      <4>2. CASE Purge(t)
        BY <4>2 DEF LocksMatchLabels
      <4>3. CASE Clear(t)
        BY <4>3 DEF LocksMatchLabels
      <4>4. CASE DiscardReset(t)
        BY <4>4 DEF LocksMatchLabels
      <4> QED
        BY <4>1, <4>2, <4>3, <4>4
    <3> QED
      BY <3>1, <3>2, <3>3 DEF LocksMatchLabels
  <2>4. CountIsExact'
    <3>1. RegisteredThreads' = RegisteredThreads
      BY DEF RegisteredThreads
    <3> QED
      BY <3>1 DEF CountIsExact
  <2> QED
    BY <2>1, <2>2, <2>3, <2>4
<1> QED
  BY <1>2, <1>3, <1>4, <1>5, <1>6, <1>7, <1>8, <1>9, <1>10 DEF Step

\* The flag follows the one Discard.
LEMMA FlagStep ==
  ASSUME OneDiscardAtATime, IndInv, LockInv', [Next]_vars
  PROVE  FlagMatchesDiscard'
<1> USE DEF IndInv, RoomInv, LockInv, TypeOK, LabelsMatchRoles, LocksMatchLabels,
            FlagMatchesDiscard, FeedMayPush, Discarding
<1>1. CASE UNCHANGED vars
  BY <1>1 DEF vars
<1> SUFFICES ASSUME NEW t \in Threads, NewCall(t) \/ Step(t) \/ SpuriousWake(t)
             PROVE  FlagMatchesDiscard'
  BY <1>1 DEF Next
<1>2. CASE NewCall(t)
  <2>1. CASE FeedCall(t)
    BY <2>1 DEF FeedCall, Call
  <2>2. CASE FilledCall(t)
    BY <2>2 DEF FilledCall, Call
  <2>3. CASE CurrentCall(t)
    BY <2>3 DEF CurrentCall, Call
  <2>4. CASE DiscardCall(t)
    BY <2>4 DEF DiscardCall, Call
  <2> QED
    BY <1>2, <2>1, <2>2, <2>3, <2>4 DEF NewCall
<1>3. CASE SpuriousWake(t)
  BY <1>3 DEF SpuriousWake
<1>4. CASE FeedEnter(t)
  BY <1>4 DEF FeedEnter
<1>5. CASE FeedPush(t)
  BY <1>5 DEF FeedPush, UnlockState, DataLockFree, WakeConsumers
<1>6. CASE FilledEnter(t)
  BY <1>6 DEF FilledEnter, Register, Refuse
<1>7. CASE CurrentEnter(t)
  BY <1>7 DEF CurrentEnter, Register, Refuse
<1>8. CASE ViewBegin(t)
  BY <1>8 DEF ViewBegin
<1>9. CASE ViewEnd(t)
  BY <1>9 DEF ViewEnd
<1>10. CASE Unregister(t)
  BY <1>10 DEF Unregister, WakeDiscarders
<1>11. CASE DiscardEnter(t)
  BY <1>11 DEF DiscardEnter, AfterReadersLeft, WakeConsumers
<1>12. CASE DiscardRecheck(t)
  BY <1>12 DEF DiscardRecheck, AfterReadersLeft
<1>13. CASE DiscardLockData(t)
  BY <1>13 DEF DiscardLockData, DataLockFree
<1>14. CASE Purge(t)
  BY <1>14 DEF Purge, PurgeAll
<1>15. CASE Clear(t)
  BY <1>15 DEF Clear, ItemsCleared
<1>16. CASE DiscardReset(t)
  <2> USE <1>16 DEF DiscardReset, WakeProducers
  <2>1. \A u \in Threads : Discarding(u) => u = t
    BY DEF OneDiscardAtATime
  <2>2. \A u \in Threads : ~Discarding(u)'
    BY <2>1
  <2> QED
    BY <2>2
<1> QED
  BY <1>2, <1>3, <1>4, <1>5, <1>6, <1>7, <1>8,
     <1>9, <1>10, <1>11, <1>12, <1>13, <1>14, <1>15, <1>16 DEF Step

Alone == {"purge_lock", "purge", "clear", "reset"}

\* A step that lets nobody register and no Discard go on changes nothing.
LEMMA NoNewcomer ==
  ASSUME PurgeExcludesReaders,
         \A u \in Threads : /\ pc'[u] \in Alone => pc[u] \in Alone
                            /\ pc'[u] \in Registered => pc[u] \in Registered
  PROVE  PurgeExcludesReaders'
<1> Discarders \subseteq Threads
  BY DEF Threads
<1>1. ASSUME NEW d \in Discarders, pc'[d] \in Alone, NEW u \in Threads
      PROVE  pc'[u] \notin Registered
  <2>1. pc[d] \in Alone
    BY <1>1
  <2>2. pc[u] \notin Registered
    BY <2>1 DEF Alone, PurgeExcludesReaders
  <2> QED
    BY <2>2
<1> QED
  BY <1>1 DEF Alone, PurgeExcludesReaders

\* Nobody registers while the flag is up, and Discard goes on when all left.
LEMMA ExclusionStep ==
  ASSUME OneDiscardAtATime, IndInv, LockInv', [Next]_vars
  PROVE  PurgeExcludesReaders'
<1> USE DEF IndInv, RoomInv, LockInv, TypeOK
<1>1. CASE UNCHANGED vars
  BY <1>1 DEF vars, PurgeExcludesReaders
<1>2. (\A u \in Threads : /\ pc'[u] \in Alone => pc[u] \in Alone
                          /\ pc'[u] \in Registered => pc[u] \in Registered)
      => PurgeExcludesReaders'
  BY NoNewcomer
<1> SUFFICES ASSUME NEW t \in Threads, NewCall(t) \/ Step(t) \/ SpuriousWake(t)
             PROVE  PurgeExcludesReaders'
  BY <1>1 DEF Next
<1>3. CASE \/ NewCall(t) \/ SpuriousWake(t) \/ FeedEnter(t) \/ FeedPush(t)
           \/ ViewBegin(t) \/ ViewEnd(t) \/ Unregister(t) \/ DiscardLockData(t)
           \/ Purge(t) \/ Clear(t) \/ DiscardReset(t)
  <2>1. CASE NewCall(t)
    BY <1>2, <2>1 DEF NewCall, FeedCall, FilledCall, CurrentCall, DiscardCall, Call, Registered, Alone
  <2>2. CASE SpuriousWake(t)
    BY <1>2, <2>2 DEF SpuriousWake, Registered, Alone
  <2>3. CASE FeedEnter(t)
    BY <1>2, <2>3 DEF FeedEnter, Registered, Alone
  <2>4. CASE FeedPush(t)
    BY <1>2, <2>4 DEF FeedPush, WakeConsumers, Registered, Alone
  <2>5. CASE ViewBegin(t)
    BY <1>2, <2>5 DEF ViewBegin, Registered, Alone
  <2>6. CASE ViewEnd(t)
    BY <1>2, <2>6 DEF ViewEnd, Registered, Alone
  <2>7. CASE Unregister(t)
    BY <1>2, <2>7 DEF Unregister, WakeDiscarders, Registered, Alone
  <2>8. CASE DiscardLockData(t)
    BY <1>2, <2>8 DEF DiscardLockData, Registered, Alone
  <2>9. CASE Purge(t)
    BY <1>2, <2>9 DEF Purge, Registered, Alone
  <2>10. CASE Clear(t)
    BY <1>2, <2>10 DEF Clear, Registered, Alone
  <2>11. CASE DiscardReset(t)
    BY <1>2, <2>11 DEF DiscardReset, WakeProducers, Registered, Alone
  <2> QED
    BY <1>3, <2>1, <2>2, <2>3, <2>4, <2>5, <2>6, <2>7, <2>8, <2>9, <2>10, <2>11
<1>4. CASE FilledEnter(t) \/ CurrentEnter(t)
  <2>1. CASE Register(t)
    <3>1. \A u \in Threads : pc[u] \notin Alone
      BY <1>4, <2>1 DEF FilledEnter, CurrentEnter, Register, Refuse,
                        FlagMatchesDiscard, Discarding, Alone
    <3>2. \A u \in Threads : pc'[u] \notin Alone
      BY <2>1, <3>1 DEF Register, Alone
    <3> QED
      BY <3>2 DEF Threads, Alone, PurgeExcludesReaders
  <2>2. CASE pc' \in {[pc EXCEPT ![t] = "idle"], [pc EXCEPT ![t] = "take_wait"]}
    BY <1>2, <2>2 DEF Registered, Alone
  <2> QED
    BY <1>4, <2>1, <2>2 DEF FilledEnter, CurrentEnter, Refuse
<1>5. CASE DiscardEnter(t) \/ DiscardRecheck(t)
  <2>1. CASE active_readers_ = 0
    <3>1. RegisteredThreads = {}
      BY <2>1, FS_EmptySet DEF CountIsExact
    <3>2. \A u \in Threads : pc'[u] \notin Registered
      BY <1>5, <3>1 DEF DiscardEnter, DiscardRecheck, AfterReadersLeft,
                        WakeConsumers, RegisteredThreads, Registered
    <3> QED
      BY <3>2 DEF PurgeExcludesReaders
  <2>2. CASE active_readers_ # 0
    BY <1>2, <1>5, <2>2 DEF DiscardEnter, DiscardRecheck, AfterReadersLeft,
                            WakeConsumers, Registered, Alone
  <2> QED
    BY <2>1, <2>2
<1> QED
  BY <1>3, <1>4, <1>5 DEF Step

\* Neither Feed nor Discard touches the batch of a registered worker.
LEMMA BatchStep ==
  ASSUME OneDiscardAtATime, IndInv, LockInv', [Next]_vars
  PROVE  BatchHeld'
<1> USE DEF IndInv, RoomInv, LockInv, TypeOK, LabelsMatchRoles, LocksMatchLabels,
            BatchHeld, FlagMatchesDiscard, FeedMayPush, PurgeExcludesReaders, Registered
<1>1. CASE UNCHANGED vars
  BY <1>1 DEF vars
<1> SUFFICES ASSUME NEW t \in Threads, NewCall(t) \/ Step(t) \/ SpuriousWake(t)
             PROVE  BatchHeld'
  BY <1>1 DEF Next
<1>2. CASE NewCall(t)
  BY <1>2 DEF NewCall, FeedCall, FilledCall, CurrentCall, DiscardCall, Call
<1>3. CASE SpuriousWake(t)
  BY <1>3 DEF SpuriousWake
<1>4. CASE FeedEnter(t)
  BY <1>4 DEF FeedEnter
<1>5. CASE FeedPush(t)
  BY <1>5 DEF FeedPush, UnlockState, DataLockFree, WakeConsumers
<1>6. CASE FilledEnter(t)
  BY <1>6 DEF FilledEnter, Register, Refuse
<1>7. CASE CurrentEnter(t)
  <2>1. t \notin Workers
    BY <1>7, RolesAreDisjoint DEF CurrentEnter
  <2> QED
    BY <1>7, <2>1 DEF CurrentEnter, Register, Refuse
<1>8. CASE ViewBegin(t)
  BY <1>8 DEF ViewBegin
<1>9. CASE ViewEnd(t)
  BY <1>9 DEF ViewEnd
<1>10. CASE Unregister(t)
  BY <1>10 DEF Unregister, WakeDiscarders
<1>11. CASE DiscardEnter(t)
  BY <1>11 DEF DiscardEnter, AfterReadersLeft, WakeConsumers
<1>12. CASE DiscardRecheck(t)
  BY <1>12 DEF DiscardRecheck, AfterReadersLeft
<1>13. CASE DiscardLockData(t)
  BY <1>13 DEF DiscardLockData, DataLockFree
<1>14. CASE Purge(t)
  BY <1>14 DEF Purge, PurgeAll
<1>15. CASE Clear(t)
  <2>1. \A u \in Threads : pc[u] \notin Registered
    BY <1>15 DEF Clear, Discarding
  <2> QED
    BY <1>15, <2>1 DEF Clear, ItemsCleared
<1>16. CASE DiscardReset(t)
  BY <1>16 DEF DiscardReset, WakeProducers
<1> QED
  BY <1>2, <1>3, <1>4, <1>5, <1>6, <1>7, <1>8,
     <1>9, <1>10, <1>11, <1>12, <1>13, <1>14, <1>15, <1>16 DEF Step

LEMMA RangeOfAppend ==
  ASSUME NEW s \in Seq(Nat), NEW x \in Nat
  PROVE  RangeOf(Append(s, x)) = RangeOf(s) \cup {x}
<1>1. /\ DOMAIN Append(s, x) = 1 .. (Len(s) + 1)
      /\ DOMAIN s = 1 .. Len(s)
      /\ Len(s) \in Nat
  OBVIOUS
<1>2. /\ \A i \in 1 .. Len(s) : Append(s, x)[i] = s[i]
      /\ Append(s, x)[Len(s) + 1] = x
  OBVIOUS
<1> QED
  BY <1>1, <1>2 DEF RangeOf

\* Purge covers exactly what Clear removes.
LEMMA PurgeStep ==
  ASSUME OneDiscardAtATime, IndInv, LockInv', [Next]_vars
  PROVE  PurgeMatchesItems'
<1> USE DEF IndInv, RoomInv, LockInv, TypeOK, LabelsMatchRoles, LocksMatchLabels,
            PurgeMatchesItems, RangeOf
<1>1. CASE UNCHANGED vars
  BY <1>1 DEF vars
<1> SUFFICES ASSUME NEW t \in Threads, NewCall(t) \/ Step(t) \/ SpuriousWake(t)
             PROVE  PurgeMatchesItems'
  BY <1>1 DEF Next
<1>2. CASE NewCall(t)
  BY <1>2 DEF NewCall, FeedCall, FilledCall, CurrentCall, DiscardCall, Call
<1>3. CASE SpuriousWake(t)
  BY <1>3 DEF SpuriousWake
<1>4. CASE FeedEnter(t)
  BY <1>4 DEF FeedEnter
<1>5. CASE FeedPush(t)
  <2> HIDE DEF RangeOf
  <2>1. RangeOf(items_)' = RangeOf(items_) \cup {arrived + 1}
    BY <1>5, RangeOfAppend DEF FeedPush
  <2>2. \A u \in Threads : pc'[u] = "clear" <=> pc[u] = "clear"
    BY <1>5 DEF FeedPush, WakeConsumers
  <2>3. \A u \in Threads : pc[u] # "clear"
    BY <1>5 DEF FeedPush, DataLockFree
  <2>4. arrived + 1 \notin purged /\ arrived' = arrived + 1 /\ purged' = purged
    BY <1>5 DEF FeedPush
  <2>5. \A x \in RangeOf(items_)' \cup purged' : x <= arrived'
    <3>1. RangeOf(items_) \cup purged \in SUBSET Nat
      <4>1. \A i \in DOMAIN items_ : items_[i] \in Nat
        OBVIOUS
      <4> QED
        BY <4>1 DEF RangeOf
    <3> QED
      BY <2>1, <2>4, <3>1
  <2> QED
    BY <2>1, <2>2, <2>3, <2>4, <2>5
<1>6. CASE FilledEnter(t)
  BY <1>6 DEF FilledEnter, Register, Refuse
<1>7. CASE CurrentEnter(t)
  BY <1>7 DEF CurrentEnter, Register, Refuse
<1>8. CASE ViewBegin(t)
  BY <1>8 DEF ViewBegin
<1>9. CASE ViewEnd(t)
  BY <1>9 DEF ViewEnd
<1>10. CASE Unregister(t)
  <2>1. \A u \in Threads : pc'[u] = "clear" <=> pc[u] = "clear"
    BY <1>10 DEF Unregister, WakeDiscarders
  <2>2. UNCHANGED << items_, purged, arrived >>
    BY <1>10 DEF Unregister
  <2> QED
    BY <2>1, <2>2
<1>11. CASE DiscardEnter(t)
  <2>1. \A u \in Threads : pc'[u] = "clear" <=> pc[u] = "clear"
    BY <1>11 DEF DiscardEnter, AfterReadersLeft, WakeConsumers
  <2>2. UNCHANGED << items_, purged, arrived >>
    BY <1>11 DEF DiscardEnter
  <2> QED
    BY <2>1, <2>2
<1>12. CASE DiscardRecheck(t)
  BY <1>12 DEF DiscardRecheck, AfterReadersLeft
<1>13. CASE DiscardLockData(t)
  BY <1>13 DEF DiscardLockData, DataLockFree
<1>14. CASE Purge(t)
  BY <1>14 DEF Purge, PurgeAll
<1>15. CASE Clear(t)
  BY <1>15 DEF Clear, ItemsCleared
<1>16. CASE DiscardReset(t)
  <2>1. \A u \in Threads : pc'[u] = "clear" <=> pc[u] = "clear"
    BY <1>16 DEF DiscardReset, WakeProducers
  <2>2. UNCHANGED << items_, purged, arrived >>
    BY <1>16 DEF DiscardReset
  <2> QED
    BY <2>1, <2>2
<1> QED
  BY <1>2, <1>3, <1>4, <1>5, <1>6, <1>7, <1>8,
     <1>9, <1>10, <1>11, <1>12, <1>13, <1>14, <1>15, <1>16 DEF Step

\* Whoever makes a predicate true notifies those who wait for it.
LEMMA SleeperStep ==
  ASSUME OneDiscardAtATime, IndInv, LockInv', [Next]_vars
  PROVE  NoSleeperLeftBehind'
<1> USE DEF IndInv, RoomInv, LockInv, TypeOK, LabelsMatchRoles, LocksMatchLabels,
            NoSleeperLeftBehind, FlagMatchesDiscard, FeedMayPush, Discarding
<1>1. CASE UNCHANGED vars
  BY <1>1 DEF vars
<1> SUFFICES ASSUME NEW t \in Threads, NewCall(t) \/ Step(t) \/ SpuriousWake(t)
             PROVE  NoSleeperLeftBehind'
  BY <1>1 DEF Next
<1>2. CASE NewCall(t)
  BY <1>2 DEF NewCall, FeedCall, FilledCall, CurrentCall, DiscardCall, Call
<1>3. CASE SpuriousWake(t)
  BY <1>3 DEF SpuriousWake
<1>4. CASE FeedEnter(t)
  BY <1>4 DEF FeedEnter
<1>5. CASE FeedPush(t)
  BY <1>5 DEF FeedPush, UnlockState, DataLockFree, WakeConsumers
<1>6. CASE FilledEnter(t)
  BY <1>6 DEF FilledEnter, Register, Refuse
<1>7. CASE CurrentEnter(t)
  BY <1>7 DEF CurrentEnter, Register, Refuse
<1>8. CASE ViewBegin(t)
  BY <1>8 DEF ViewBegin
<1>9. CASE ViewEnd(t)
  BY <1>9 DEF ViewEnd
<1>10. CASE Unregister(t)
  BY <1>10 DEF Unregister, WakeDiscarders
<1>11. CASE DiscardEnter(t)
  BY <1>11 DEF DiscardEnter, AfterReadersLeft, WakeConsumers
<1>12. CASE DiscardRecheck(t)
  BY <1>12 DEF DiscardRecheck, AfterReadersLeft
<1>13. CASE DiscardLockData(t)
  BY <1>13 DEF DiscardLockData, DataLockFree
<1>14. CASE Purge(t)
  BY <1>14 DEF Purge, PurgeAll
<1>15. CASE Clear(t)
  BY <1>15 DEF Clear, ItemsCleared
<1>16. CASE DiscardReset(t)
  BY <1>16 DEF DiscardReset, WakeProducers
<1> QED
  BY <1>2, <1>3, <1>4, <1>5, <1>6, <1>7, <1>8,
     <1>9, <1>10, <1>11, <1>12, <1>13, <1>14, <1>15, <1>16 DEF Step


-----------------------------------------------------------------------------
\* The two layers of the invariant, and what follows from them.

\* Which thread holds which lock, and that active_readers_ counts exactly the
\* registered ones, whoever calls Discard and however often.
THEOREM LocksAndCount == Spec => []LockInv
<1>1. LockInv /\ [Next]_vars => LockInv'
  BY LockInvStep
<1> QED
  BY LockInvInit, <1>1, PTL DEF Spec

\* The counter that Discard waits on is the number of registered readers.
THEOREM CounterIsExact == Spec => []ReadersCounted
<1>1. LockInv => ReadersCounted
  BY DEF LockInv, CountIsExact, ReadersCounted, RegisteredThreads
<1> QED
  BY <1>1, LocksAndCount, PTL

LEMMA RoomInvInit == Init => RoomInv
<1> SUFFICES ASSUME Init PROVE RoomInv
  OBVIOUS
<1>1. PICK k \in 0 .. Capacity : items_ = [i \in 1 .. k |-> i] /\ arrived = k
  BY DEF Init
<1>2. \A t \in Threads : pc[t] = "idle"
  BY DEF Init
<1>3. /\ FlagMatchesDiscard /\ PurgeExcludesReaders
      /\ BatchHeld /\ NoSleeperLeftBehind
  BY <1>2 DEF Init, FlagMatchesDiscard, Discarding, PurgeExcludesReaders,
              BatchHeld, NoSleeperLeftBehind, Registered, Threads
<1>4. PurgeMatchesItems
  BY <1>1, <1>2, CapacityAssumption DEF Init, PurgeMatchesItems, RangeOf
<1> QED
  BY <1>3, <1>4 DEF RoomInv

LEMMA IndInvStep ==
  ASSUME OneDiscardAtATime, IndInv, [Next]_vars
  PROVE  IndInv'
<1>1. LockInv'
  BY LockInvStep DEF IndInv
<1>2. RoomInv'
  BY <1>1, FlagStep, ExclusionStep, BatchStep, PurgeStep, SleeperStep DEF RoomInv
<1> QED
  BY <1>1, <1>2 DEF IndInv

\* The inductive invariant of a room on which calls of Discard do not overlap.
THEOREM RoomInvariant ==
  ASSUME OneDiscardAtATime
  PROVE  Spec => []IndInv
<1>1. Init => IndInv
  BY LockInvInit, RoomInvInit DEF IndInv
<1>2. IndInv /\ [Next]_vars => IndInv'
  BY IndInvStep
<1> QED
  BY <1>1, <1>2, PTL DEF Spec

THEOREM TypeCorrect ==
  ASSUME OneDiscardAtATime
  PROVE  Spec => []TypeOK
<1>1. IndInv => TypeOK
  BY DEF IndInv, LockInv
<1> QED
  BY <1>1, RoomInvariant, PTL

\* Discard purges and clears only after every reader has left.
THEOREM ReadersLeaveBeforePurge ==
  ASSUME OneDiscardAtATime
  PROVE  Spec => []PurgeExcludesReaders
<1>1. IndInv => PurgeExcludesReaders
  BY DEF IndInv, RoomInv
<1> QED
  BY <1>1, RoomInvariant, PTL

\* A lambda's span is the room's contents, full for a worker, to the end.
THEOREM ViewsAreStable ==
  ASSUME OneDiscardAtATime
  PROVE  Spec => []ViewIsStable
<1>1. IndInv => ViewIsStable
  BY DEF IndInv, RoomInv, BatchHeld, ViewIsStable
<1> QED
  BY <1>1, RoomInvariant, PTL

\* No lambda looks at an item whose files are gone.
THEOREM NoPurgedItemIsSeen ==
  ASSUME OneDiscardAtATime
  PROVE  Spec => []NeverLooksAtPurged
<1>1. ASSUME IndInv, NEW t \in Threads, pc[t] = "lambda"
      PROVE  RangeOf(view[t]) \cap purged = {}
  <2>1. view[t] = items_
    BY <1>1 DEF IndInv, RoomInv, BatchHeld
  <2>2. \A u \in Threads : pc[u] # "clear"
    BY <1>1 DEF IndInv, RoomInv, PurgeExcludesReaders, Registered, LockInv,
                LabelsMatchRoles, Discarding
  <2> QED
    BY <1>1, <2>1, <2>2 DEF IndInv, RoomInv, PurgeMatchesItems
<1>2. IndInv => NeverLooksAtPurged
  BY <1>1 DEF NeverLooksAtPurged
<1> QED
  BY <1>2, RoomInvariant, PTL

\* No thread sleeps on a condition variable whose predicate is true.
THEOREM NoLostWakeUp ==
  ASSUME OneDiscardAtATime
  PROVE  Spec => []NoSleeperLeftBehind
<1>1. IndInv => NoSleeperLeftBehind
  BY DEF IndInv, RoomInv
<1> QED
  BY <1>1, RoomInvariant, PTL

\* Discard never has to wait for the data lock.
THEOREM DataLockIsFree ==
  ASSUME OneDiscardAtATime
  PROVE  Spec => []DataLockIsUncontended
<1>1. ASSUME IndInv, NEW d \in Discarders, pc[d] = "purge_lock"
      PROVE  /\ data_shared = {}
             /\ data_exclusive = {}
             /\ \A t \in Threads : pc[t] \notin {"feed_data", "view_lock"}
  <2> USE <1>1 DEF IndInv, RoomInv, LockInv
  <2>1. d \in Threads
    BY DEF Threads
  <2>2. is_discarding_
    BY <2>1 DEF FlagMatchesDiscard, Discarding
  <2>3. \A t \in Threads : pc[t] \notin Registered
    BY DEF PurgeExcludesReaders
  <2>4. \A t \in Threads : pc[t] # "feed_data"
    BY <2>2 DEF FlagMatchesDiscard, FeedMayPush
  <2>5. \A t \in Threads : pc[t] \notin {"purge", "clear"}
    BY <2>1 DEF OneDiscardAtATime, LabelsMatchRoles, Discarding
  <2> QED
    BY <2>3, <2>4, <2>5 DEF LocksMatchLabels, Registered
<1>2. IndInv => DataLockIsUncontended
  BY <1>1 DEF DataLockIsUncontended
<1> QED
  BY <1>2, RoomInvariant, PTL

-----------------------------------------------------------------------------
\* Refinement of SharedBatch

Viewers == {u \in Threads : pc[u] = "lambda"}

\* A step that touches neither the items nor a lambda is invisible.
LEMMA StutterSteps ==
  ASSUME TypeOK, UNCHANGED << items_, arrived >>,
         \A u \in Threads : pc'[u] = "lambda" <=> pc[u] = "lambda"
  PROVE  UNCHANGED << items_, arrived, Viewers >>
BY DEF Viewers

\* What each step does to the items, their count and the viewers.
LEMMA StepEffect ==
  ASSUME OneDiscardAtATime, IndInv, [Next]_vars
  PROVE  \/ UNCHANGED << items_, arrived, Viewers >>
         \/ /\ Viewers = {} /\ Viewers' = {}
            /\ Len(items_) < Capacity
            /\ arrived' = arrived + 1
            /\ items_' = Append(items_, arrived')
         \/ /\ Viewers = {} /\ Viewers' = {}
            /\ items_' = << >> /\ arrived' = arrived
            /\ RangeOf(items_) \subseteq purged
         \/ /\ \E v \in Workers \cup Readers :
                  \/ /\ v \notin Viewers
                     /\ v \in Workers => Len(items_) = Capacity
                     /\ Viewers' = Viewers \cup {v}
                  \/ v \in Viewers /\ Viewers' = Viewers \ {v}
            /\ UNCHANGED << items_, arrived >>
<1> USE DEF IndInv, LockInv, TypeOK
<1>1. CASE UNCHANGED vars
  BY <1>1 DEF vars, Viewers
<1>2. CASE ~ UNCHANGED vars
  <2>1. PICK t \in Threads : NewCall(t) \/ Step(t) \/ SpuriousWake(t)
    BY <1>2 DEF Next
  <2>2. CASE NewCall(t)
    BY <2>2, StutterSteps DEF NewCall, FeedCall, FilledCall, CurrentCall, DiscardCall, Call
  <2>3. CASE SpuriousWake(t)
    BY <2>3, StutterSteps DEF SpuriousWake
  <2>4. CASE FeedEnter(t)
    BY <2>4, StutterSteps DEF FeedEnter
  <2>5. CASE FilledEnter(t)
    BY <2>5, StutterSteps DEF FilledEnter, Register, Refuse
  <2>6. CASE CurrentEnter(t)
    BY <2>6, StutterSteps DEF CurrentEnter, Register, Refuse
  <2>7. CASE Unregister(t)
    BY <2>7, StutterSteps DEF Unregister, WakeDiscarders
  <2>8. CASE DiscardEnter(t)
    BY <2>8, StutterSteps DEF DiscardEnter, WakeConsumers, AfterReadersLeft
  <2>9. CASE DiscardRecheck(t)
    BY <2>9, StutterSteps DEF DiscardRecheck, AfterReadersLeft
  <2>10. CASE DiscardLockData(t)
    BY <2>10, StutterSteps DEF DiscardLockData
  <2>11. CASE Purge(t)
    BY <2>11, StutterSteps DEF Purge
  <2>12. CASE DiscardReset(t)
    BY <2>12, StutterSteps DEF DiscardReset, WakeProducers
  <2>13. CASE FeedPush(t)
    <3>1. Viewers = {} /\ Viewers' = {}
      BY <2>13 DEF FeedPush, DataLockFree, LocksMatchLabels, Viewers, WakeConsumers
    <3>2. Len(items_) < Capacity
      BY <2>13 DEF FeedPush, RoomInv, FlagMatchesDiscard, FeedMayPush
    <3> QED
      BY <2>13, <3>1, <3>2 DEF FeedPush
  <2>14. CASE Clear(t)
    <3>1. Viewers = {} /\ Viewers' = {}
      BY <2>14 DEF Clear, RoomInv, PurgeExcludesReaders, Registered, Viewers,
                   LabelsMatchRoles, Discarding
    <3>2. RangeOf(items_) \subseteq purged
      BY <2>14 DEF Clear, RoomInv, PurgeMatchesItems
    <3> QED
      BY <2>14, <3>1, <3>2 DEF Clear, ItemsCleared
  <2>15. CASE ViewBegin(t)
    <3>1. t \in Workers \cup Readers
      BY <2>15 DEF ViewBegin, LabelsMatchRoles, Registered
    <3>2. t \notin Viewers /\ Viewers' = Viewers \cup {t}
      BY <2>15 DEF ViewBegin, Viewers
    <3>3. t \in Workers => Len(items_) = Capacity
      BY <2>15 DEF ViewBegin, RoomInv, BatchHeld
    <3> QED
      BY <2>15, <3>1, <3>2, <3>3 DEF ViewBegin
  <2>16. CASE ViewEnd(t)
    <3>1. t \in Workers \cup Readers
      BY <2>16 DEF ViewEnd, LabelsMatchRoles, Registered
    <3>2. t \in Viewers /\ Viewers' = Viewers \ {t}
      BY <2>16 DEF ViewEnd, Viewers
    <3> QED
      BY <2>16, <3>1, <3>2 DEF ViewEnd
  <2> QED
    BY <2>1, <2>2, <2>3, <2>4, <2>5, <2>6, <2>7, <2>8, <2>9,
       <2>10, <2>11, <2>12, <2>13, <2>14, <2>15, <2>16 DEF Step
<1> QED
  BY <1>1, <1>2

\* Items leave the room all at once and purged, whatever the threads do.
THEOREM NothingLeavesUnpurged ==
  ASSUME OneDiscardAtATime
  PROVE  Spec => ItemsLeavePurged
<1>1. IndInv /\ [Next]_vars =>
        [ \/ items_' = items_
          \/ items_' = Append(items_, arrived')
          \/ items_' = << >> /\ RangeOf(items_) \subseteq purged ]_vars
  BY StepEffect
<1> QED
  BY <1>1, RoomInvariant, PTL DEF Spec, ItemsLeavePurged

\* The room implements the batch it promises.
THEOREM RoomKeepsPromise ==
  ASSUME OneDiscardAtATime
  PROVE  Spec => KeepsPromise
<1>1. Init => Promise!Init
  BY DEF Init, Promise!Init
<1>2. IndInv /\ [Next]_vars => [Promise!Next]_(Promise!batch)
  <2> SUFFICES ASSUME IndInv, [Next]_vars
               PROVE  Promise!Next \/ UNCHANGED Promise!batch
    OBVIOUS
  <2> QED
    BY StepEffect DEF Viewers, Promise!Next, Promise!Arrive, Promise!Empty,
                      Promise!BeginView, Promise!EndView, Promise!batch
<1> QED
  BY <1>1, <1>2, RoomInvariant, PTL DEF Spec, KeepsPromise, Promise!Spec

=============================================================================

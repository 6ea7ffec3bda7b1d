---------------------------- MODULE OutputBuffer ----------------------------
(***************************************************************************)
(* The buffer between two stages of the old subsystem, and the settling    *)
(* of its pipeline.  Providers push items; a consumer looks at a full      *)
(* buffer under a shared lock, bakes the batch, and empties the buffer     *)
(* under an exclusive lock that it takes afterwards.  A section under the  *)
(* exclusive lock is one step, because nobody sees the buffer meanwhile.   *)
(*                                                                         *)
(* Only tests call the buffer.  A consumer is taken to count its slice in  *)
(* in_flight_count from the moment it looks at the batch until the call    *)
(* has returned, and then to notify, as tier_orchestrator.hpp says.        *)
(***************************************************************************)
EXTENDS Naturals, FiniteSets

CONSTANTS
    Providers, Consumers, Readers,
    capacity_,
    Feeds,        \* bound: how many items the providers push in all
    MaxRefusals   \* bound: how often a lambda asks to keep the batch

ASSUME OutputBufferAssumption ==
    /\ capacity_ \in Nat \ {0}
    /\ Feeds \subseteq Nat /\ MaxRefusals \in Nat
    /\ Providers \cap Consumers = {} /\ Readers \cap (Providers \cup Consumers) = {}

VARIABLES
    contents_,   \* how many items the buffer holds
    pc,          \* what each provider, consumer and reader does
    shared,      \* who holds mutex_ shared
    in_flight_count,
    settler,     \* what the thread in wait_for_settled does
    batch,       \* ghost: the number of the batch each consumer looked at last
    wiped,       \* ghost: how often the buffer was emptied
    agreed,      \* ghost: the batches for which each consumer's lambda said "wipe"
    unpushed,    \* items still to come
    refusals,
    missed       \* ghost: was the settler notified between its look and its sleep?

vars == << contents_, pc, shared, in_flight_count, settler, batch, wiped, agreed,
           unpushed, refusals, missed >>

Threads == Providers \cup Consumers \cup Readers
Full == contents_ >= capacity_
Goto(t, where) == pc' = [pc EXCEPT ![t] = where]

Init ==
    /\ contents_ = 0
    /\ pc = [t \in Threads |-> "idle"]
    /\ shared = {}
    /\ in_flight_count = 0
    /\ settler = "off"
    /\ batch = [c \in Consumers |-> 0]
    /\ wiped = 0
    /\ agreed = [c \in Consumers |-> {}]
    /\ unpushed \in Feeds /\ refusals = 0 /\ missed = FALSE

-----------------------------------------------------------------------------
(* Providers.                                                              *)

\* Items no sleeping provider has in its hands.
ItemToPush == unpushed > Cardinality({p \in Providers : pc[p] = "asleep"})

\* A provider that finds the buffer full sleeps on cv_provider_.
ProviderSleeps(p) ==
    /\ pc[p] = "idle" /\ ItemToPush
    /\ Full
    /\ Goto(p, "asleep")
    /\ UNCHANGED << contents_, shared, in_flight_count, settler, batch, wiped,
                    agreed, unpushed, refusals, missed >>

push_back_as_provider(p) ==
    /\ pc[p] = "idle" /\ ItemToPush
    /\ shared = {}
    /\ ~Full
    /\ contents_' = contents_ + 1
    /\ unpushed' = unpushed - 1
    /\ UNCHANGED << pc, shared, in_flight_count, settler, batch, wiped, agreed,
                    refusals, missed >>

SpuriousWake(p) ==
    /\ pc[p] = "asleep"
    /\ Goto(p, "idle")
    /\ UNCHANGED << contents_, shared, in_flight_count, settler, batch, wiped,
                    agreed, unpushed, refusals, missed >>

-----------------------------------------------------------------------------
(* Readers: with_contents_as_reader, once each.                            *)

ReadBegin(r) ==
    /\ pc[r] = "idle"
    /\ Goto(r, "reading")
    /\ shared' = shared \cup {r}
    /\ UNCHANGED << contents_, in_flight_count, settler, batch, wiped, agreed,
                    unpushed, refusals, missed >>

ReadEnd(r) ==
    /\ pc[r] = "reading"
    /\ Goto(r, "gone")
    /\ shared' = shared \ {r}
    /\ UNCHANGED << contents_, in_flight_count, settler, batch, wiped, agreed,
                    unpushed, refusals, missed >>

-----------------------------------------------------------------------------
(* Consumers.  A call that does not find the buffer full, at once or after *)
(* ten milliseconds, returns false and changes nothing.                    *)

LookAtFull(c) ==
    /\ pc[c] = "idle"
    /\ Full
    /\ Goto(c, "baking")
    /\ shared' = shared \cup {c}
    /\ batch' = [batch EXCEPT ![c] = wiped + 1]
    /\ in_flight_count' = in_flight_count + 1
    /\ UNCHANGED << contents_, settler, wiped, agreed, unpushed, refusals, missed >>

LambdaAgrees(c) ==
    /\ pc[c] = "baking"
    /\ Goto(c, "wiping")
    /\ shared' = shared \ {c}
    /\ agreed' = [agreed EXCEPT ![c] = @ \cup {batch[c]}]
    /\ UNCHANGED << contents_, in_flight_count, settler, batch, wiped, unpushed,
                    refusals, missed >>

WipeAllTheSame == "wiping"  \* fault: what the lambda said is ignored
AfterRefusal == "leaving"

LambdaRefuses(c) ==
    /\ pc[c] = "baking" /\ refusals < MaxRefusals
    /\ Goto(c, AfterRefusal)
    /\ shared' = shared \ {c}
    /\ refusals' = refusals + 1
    /\ UNCHANGED << contents_, in_flight_count, settler, batch, wiped, agreed,
                    unpushed, missed >>

NotifyNobody(c) == [pc EXCEPT ![c] = "leaving"]  \* fault: cv_provider_ is not notified
NotifyProviders(c) ==
    [t \in Threads |-> IF t = c THEN "leaving"
                       ELSE IF t \in Providers /\ pc[t] = "asleep" THEN "idle" ELSE pc[t]]

\* Under the exclusive lock: empty the buffer if it is full, which may be a
\* later batch than the one that was baked.
Wipe(c) ==
    /\ pc[c] = "wiping"
    /\ shared = {}
    /\ Full
    /\ contents_' = 0
    /\ wiped' = wiped + 1
    /\ pc' = NotifyProviders(c)
    /\ UNCHANGED << shared, in_flight_count, settler, batch, agreed, unpushed,
                    refusals, missed >>

WipeNothing(c) ==
    /\ pc[c] = "wiping"
    /\ shared = {}
    /\ ~Full
    /\ Goto(c, "leaving")
    /\ UNCHANGED << contents_, shared, in_flight_count, settler, batch, wiped,
                    agreed, unpushed, refusals, missed >>

\* The worker counts its slice out, and notifies in a step of its own.
CountOut(c) ==
    /\ pc[c] = "leaving"
    /\ Goto(c, "notifying")
    /\ in_flight_count' = in_flight_count - 1
    /\ UNCHANGED << contents_, shared, settler, batch, wiped, agreed, unpushed,
                    refusals, missed >>

SleepOn == settler  \* fault: notify_work_completed does not reach the settler
Awake == IF settler = "asleep" THEN "looking" ELSE settler

notify_work_completed(c) ==
    /\ pc[c] = "notifying"
    /\ Goto(c, "idle")
    /\ settler' = Awake
    /\ missed' = (missed \/ settler \in {"counting", "falling asleep"})
    /\ UNCHANGED << contents_, shared, in_flight_count, batch, wiped, agreed,
                    unpushed, refusals >>

-----------------------------------------------------------------------------
(* wait_for_settled: the predicate asks the buffer and then the counter;   *)
(* the mutex the settler holds keeps no worker from notifying in between.  *)

Settle(from, to) ==
    /\ settler = from
    /\ settler' = to
    /\ UNCHANGED << contents_, pc, shared, in_flight_count, batch, wiped, agreed,
                    unpushed, refusals, missed >>

SettleCall == Settle("off", "looking")
LookAtBuffer == Settle("looking", IF contents_ = 0 THEN "counting" ELSE "falling asleep")
LookAtCount == Settle("counting", IF in_flight_count = 0 THEN "settled" ELSE "falling asleep")
FallAsleep == Settle("falling asleep", "asleep")
SettlerWakes == Settle("asleep", "looking")

SettlerSteps == SettleCall \/ LookAtBuffer \/ LookAtCount \/ FallAsleep

ConsumerSteps(c) ==
    LookAtFull(c) \/ LambdaAgrees(c) \/ LambdaRefuses(c) \/ Wipe(c) \/ WipeNothing(c)
        \/ CountOut(c) \/ notify_work_completed(c)

Next ==
    \/ \E p \in Providers : ProviderSleeps(p) \/ push_back_as_provider(p) \/ SpuriousWake(p)
    \/ \E r \in Readers : ReadBegin(r) \/ ReadEnd(r)
    \/ \E c \in Consumers : ConsumerSteps(c)
    \/ SettlerSteps \/ SettlerWakes

Spec == Init /\ [][Next]_vars

\* Threads are scheduled, lambdas return, and workers keep calling.
FairSpec ==
    /\ Spec
    /\ \A p \in Providers : WF_vars(push_back_as_provider(p))
    /\ \A r \in Readers : WF_vars(ReadEnd(r))
    /\ \A c \in Consumers : WF_vars(ConsumerSteps(c))
    /\ WF_vars(LookAtBuffer \/ LookAtCount \/ FallAsleep)

-----------------------------------------------------------------------------
(* Properties.                                                             *)

\* Two consumers baked batch b.
BakedTwice(b) == \E c, d \in Consumers : c # d /\ b \in agreed[c] /\ b \in agreed[d]

\* A batch leaves the buffer unbaked only if an earlier batch was baked by two
\* consumers, the slower of which then emptied a buffer it had not looked at.
\* In particular a single consumer loses nothing.
LossHasCause ==
    \A b \in 1 .. wiped :
        (\E c \in Consumers : b \in agreed[c]) \/ \E e \in 1 .. b - 1 : BakedTwice(e)

\* As long as consumers keep calling and their lambdas agree in the end, every
\* push returns, however readers and consumers share the lock.
PushesReturn == <>(unpushed = 0)

LastBatchIsPartial == unpushed = 0 /\ contents_ \in 1 .. capacity_ - 1

\* Waiting for the pipeline to settle ends, unless the last batch never gets
\* full, or a worker notified after the settler had looked and before it slept.
SettleReturnsOrHasCause ==
    settler = "looking" ~> (settler = "settled" \/ LastBatchIsPartial \/ missed)

=============================================================================

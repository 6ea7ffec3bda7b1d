------------------------- MODULE OutputBufferProofs -------------------------
(***************************************************************************)
(* Why a batch is lost behind a batch that was baked twice only: for any   *)
(* providers, consumers, readers, capacity and lambdas.                    *)
(***************************************************************************)
EXTENDS OutputBuffer, TLAPS

Places == {"idle", "asleep", "reading", "gone", "baking", "wiping", "leaving", "notifying"}

TypeInv ==
    /\ wiped \in Nat
    /\ batch \in [Consumers -> Nat]
    /\ agreed \in [Consumers -> SUBSET Nat]
    /\ pc \in [Threads -> Places]

\* Whoever bakes holds the lock shared, so that the batch it bakes is the one
\* in the buffer.
BakesWhatIsThere ==
    \A c \in Consumers : pc[c] = "baking" => c \in shared /\ batch[c] = wiped + 1

\* Whoever is about to wipe has agreed to a batch, and this is the one in the
\* buffer unless some batch was baked twice.
WipesWhatItBaked ==
    \A c \in Consumers :
        pc[c] = "wiping" =>
            /\ batch[c] \in agreed[c]
            /\ batch[c] = wiped + 1 \/ \E e \in 1 .. wiped : BakedTwice(e)

LossInv == TypeInv /\ BakesWhatIsThere /\ WipesWhatItBaked /\ LossHasCause

LEMMA InitLossInv == Init => LossInv
<1> SUFFICES ASSUME Init PROVE LossInv
  OBVIOUS
<1>1. TypeInv
  BY DEF Init, TypeInv, Places, Threads
<1>2. BakesWhatIsThere /\ WipesWhatItBaked
  BY DEF Init, BakesWhatIsThere, WipesWhatItBaked, Threads
<1>3. LossHasCause
  BY DEF Init, LossHasCause
<1> QED
  BY <1>1, <1>2, <1>3 DEF LossInv

\* A step that changes only places outside baking and wiping, and takes the
\* lock away from nobody who bakes.
LEMMA QuietStep ==
  ASSUME LossInv, TypeInv',
         UNCHANGED << batch, wiped, agreed >>,
         \A c \in Consumers : pc'[c] \in {"baking", "wiping"} => pc'[c] = pc[c],
         \A c \in Consumers : pc'[c] = "baking" /\ c \in shared => c \in shared'
  PROVE  LossInv'
<1>1. BakesWhatIsThere'
  BY DEF LossInv, BakesWhatIsThere
<1>2. \A e : BakedTwice(e)' = BakedTwice(e)
  BY DEF BakedTwice
<1>3. WipesWhatItBaked'
  BY <1>2 DEF LossInv, WipesWhatItBaked
<1>4. LossHasCause'
  BY <1>2 DEF LossInv, LossHasCause
<1> QED
  BY <1>1, <1>3, <1>4 DEF LossInv

LEMMA StepLossInv == LossInv /\ [Next]_vars => LossInv'
<1> SUFFICES ASSUME LossInv, [Next]_vars PROVE LossInv'
  OBVIOUS
<1> USE OutputBufferAssumption
<1>0. TypeInv /\ BakesWhatIsThere /\ WipesWhatItBaked /\ LossHasCause
  BY DEF LossInv
<1>1. ASSUME NEW p \in Providers, ProviderSleeps(p) \/ push_back_as_provider(p) \/ SpuriousWake(p)
      PROVE  LossInv'
  <2>1. TypeInv'
    BY <1>0, <1>1 DEF TypeInv, ProviderSleeps, push_back_as_provider, SpuriousWake, Goto,
                      Places, Threads
  <2>2. /\ UNCHANGED << batch, wiped, agreed, shared >>
        /\ \A c \in Consumers : pc'[c] = pc[c]
    BY <1>0, <1>1 DEF TypeInv, ProviderSleeps, push_back_as_provider, SpuriousWake, Goto, Threads
  <2> QED
    BY <2>1, <2>2, QuietStep
<1>2. ASSUME NEW r \in Readers, ReadBegin(r) \/ ReadEnd(r)
      PROVE  LossInv'
  <2>1. TypeInv'
    BY <1>0, <1>2 DEF TypeInv, ReadBegin, ReadEnd, Goto, Places, Threads
  <2>2. /\ UNCHANGED << batch, wiped, agreed >>
        /\ \A c \in Consumers : pc'[c] = pc[c] /\ (c \in shared => c \in shared')
    BY <1>0, <1>2 DEF TypeInv, ReadBegin, ReadEnd, Goto, Threads
  <2> QED
    BY <2>1, <2>2, QuietStep
<1>3. ASSUME NEW c \in Consumers, LookAtFull(c)
      PROVE  LossInv'
  <2>1. TypeInv'
    BY <1>0, <1>3 DEF TypeInv, LookAtFull, Goto, Places, Threads
  <2>2. BakesWhatIsThere'
    BY <1>0, <1>3 DEF TypeInv, BakesWhatIsThere, LookAtFull, Goto, Threads
  <2>3. \A e : BakedTwice(e)' = BakedTwice(e)
    BY <1>3 DEF LookAtFull, BakedTwice
  <2>4. WipesWhatItBaked'
    BY <1>0, <1>3, <2>3 DEF TypeInv, WipesWhatItBaked, LookAtFull, Goto, Threads
  <2>5. LossHasCause'
    BY <1>0, <1>3, <2>3 DEF LossHasCause, LookAtFull
  <2> QED
    BY <2>1, <2>2, <2>4, <2>5 DEF LossInv
<1>4. ASSUME NEW c \in Consumers, LambdaAgrees(c)
      PROVE  LossInv'
  <2>1. TypeInv'
    BY <1>0, <1>4 DEF TypeInv, LambdaAgrees, Goto, Places, Threads
  <2>2. \A d \in Consumers : agreed[d] \subseteq agreed'[d]
    BY <1>0, <1>4 DEF TypeInv, LambdaAgrees
  <2>3. \A e : BakedTwice(e) => BakedTwice(e)'
    BY <2>2 DEF BakedTwice
  <2>4. BakesWhatIsThere'
    BY <1>0, <1>4 DEF TypeInv, BakesWhatIsThere, LambdaAgrees, Goto, Threads
  <2>5. WipesWhatItBaked'
    <3> SUFFICES ASSUME NEW d \in Consumers, pc'[d] = "wiping"
                 PROVE  /\ batch'[d] \in agreed'[d]
                        /\ batch'[d] = wiped' + 1 \/ \E e \in 1 .. wiped' : BakedTwice(e)'
      BY DEF WipesWhatItBaked
    <3>0. wiped' = wiped /\ batch' = batch
      BY <1>4 DEF LambdaAgrees
    <3>1. CASE d = c
      <4>1. batch[c] = wiped + 1
        BY <1>0, <1>4 DEF BakesWhatIsThere, LambdaAgrees
      <4>2. batch[c] \in agreed'[c]
        BY <1>0, <1>4 DEF TypeInv, LambdaAgrees
      <4> QED
        BY <3>0, <3>1, <4>1, <4>2
    <3>2. CASE d # c
      <4>1. pc[d] = "wiping"
        BY <1>0, <1>4, <3>2 DEF TypeInv, LambdaAgrees, Goto, Threads
      <4> QED
        BY <1>0, <4>1, <3>0, <2>2, <2>3 DEF WipesWhatItBaked
    <3> QED
      BY <3>1, <3>2
  <2>6. LossHasCause'
    BY <1>0, <1>4, <2>2, <2>3 DEF LossHasCause, LambdaAgrees
  <2> QED
    BY <2>1, <2>4, <2>5, <2>6 DEF LossInv
<1>5. ASSUME NEW c \in Consumers,
             LambdaRefuses(c) \/ WipeNothing(c) \/ CountOut(c) \/ notify_work_completed(c)
      PROVE  LossInv'
  <2>1. TypeInv'
    BY <1>0, <1>5 DEF TypeInv, LambdaRefuses, WipeNothing, CountOut, notify_work_completed,
                      Goto, AfterRefusal, Places, Threads
  <2>2. /\ UNCHANGED << batch, wiped, agreed >>
        /\ pc'[c] \notin {"baking", "wiping"}
        /\ \A d \in Consumers \ {c} : pc'[d] = pc[d] /\ (d \in shared => d \in shared')
    BY <1>0, <1>5 DEF TypeInv, LambdaRefuses, WipeNothing, CountOut, notify_work_completed,
                      Goto, AfterRefusal, Threads
  <2> QED
    BY <2>1, <2>2, QuietStep
<1>6. ASSUME NEW c \in Consumers, Wipe(c)
      PROVE  LossInv'
  <2>1. TypeInv'
    BY <1>0, <1>6 DEF TypeInv, Wipe, NotifyProviders, Places, Threads
  <2>2. /\ shared = {} /\ wiped' = wiped + 1 /\ pc[c] = "wiping"
        /\ UNCHANGED << shared, batch, agreed >>
        /\ pc'[c] = "leaving"
        /\ \A d \in Consumers \ {c} : pc'[d] = pc[d]
    BY <1>0, <1>6 DEF TypeInv, Wipe, NotifyProviders, Threads
  <2>3. \A e : BakedTwice(e)' = BakedTwice(e)
    BY <2>2 DEF BakedTwice
  <2>4. BakesWhatIsThere'
    BY <1>0, <2>2 DEF BakesWhatIsThere
  <2>5. WipesWhatItBaked'
    <3> SUFFICES ASSUME NEW d \in Consumers, pc'[d] = "wiping"
                 PROVE  /\ batch'[d] \in agreed'[d]
                        /\ batch'[d] = wiped' + 1 \/ \E e \in 1 .. wiped' : BakedTwice(e)'
      BY DEF WipesWhatItBaked
    <3>1. d # c /\ pc[d] = "wiping" /\ batch[d] \in agreed[d] /\ batch[c] \in agreed[c]
      BY <1>0, <2>2 DEF WipesWhatItBaked
    <3>2. CASE \E e \in 1 .. wiped : BakedTwice(e)
      BY <1>0, <2>2, <2>3, <3>1, <3>2 DEF TypeInv
    <3>3. CASE batch[c] = wiped + 1 /\ batch[d] = wiped + 1
      <4>1. BakedTwice(wiped + 1)
        BY <3>1, <3>3 DEF BakedTwice
      <4>2. wiped + 1 \in 1 .. wiped'
        BY <1>0, <2>2 DEF TypeInv
      <4> QED
        BY <2>2, <2>3, <3>1, <4>1, <4>2
    <3> QED
      BY <1>0, <2>2, <3>1, <3>2, <3>3 DEF WipesWhatItBaked
  <2>6. LossHasCause'
    <3> SUFFICES ASSUME NEW b \in 1 .. wiped'
                 PROVE  \/ \E d \in Consumers : b \in agreed'[d]
                        \/ \E e \in 1 .. b - 1 : BakedTwice(e)'
      BY DEF LossHasCause
    <3>1. CASE b \in 1 .. wiped
      BY <1>0, <2>2, <2>3, <3>1 DEF LossHasCause
    <3>2. CASE b = wiped + 1
      <4>1. batch[c] \in agreed[c] /\ (batch[c] = wiped + 1 \/ \E e \in 1 .. wiped : BakedTwice(e))
        BY <1>0, <2>2 DEF WipesWhatItBaked
      <4>2. b - 1 = wiped
        BY <1>0, <3>2 DEF TypeInv
      <4> QED
        BY <2>2, <2>3, <3>2, <4>1, <4>2
    <3> QED
      BY <1>0, <2>2, <3>1, <3>2 DEF TypeInv
  <2> QED
    BY <2>1, <2>4, <2>5, <2>6 DEF LossInv
<1>7. ASSUME SettlerSteps \/ SettlerWakes \/ UNCHANGED vars
      PROVE  LossInv'
  <2>1. UNCHANGED << pc, shared, batch, wiped, agreed >>
    BY <1>7 DEF SettlerSteps, SettlerWakes, SettleCall, LookAtBuffer, LookAtCount, FallAsleep,
                Settle, vars
  <2>2. TypeInv'
    BY <1>0, <2>1 DEF TypeInv
  <2> QED
    BY <2>1, <2>2, QuietStep
<1> QED
  BY <1>1, <1>2, <1>3, <1>4, <1>5, <1>6, <1>7 DEF Next, ConsumerSteps

\* For any number of threads, any capacity and any answers of the lambdas, a
\* batch that is wiped unbaked follows one that two consumers baked.
THEOREM LossAlwaysHasCause == Spec => []LossHasCause
<1>1. Spec => []LossInv
  BY InitLossInv, StepLossInv, PTL DEF Spec
<1>2. LossInv => LossHasCause
  BY DEF LossInv
<1> QED
  BY <1>1, <1>2, PTL

\* With one consumer every batch that leaves the buffer was baked.
THEOREM OneConsumerLosesNothing ==
  ASSUME \A c, d \in Consumers : c = d
  PROVE  Spec => [](\A b \in 1 .. wiped : \E c \in Consumers : b \in agreed[c])
<1>1. Spec => []LossInv
  BY InitLossInv, StepLossInv, PTL DEF Spec
<1>2. LossInv => \A b \in 1 .. wiped : \E c \in Consumers : b \in agreed[c]
  BY DEF LossInv, LossHasCause, BakedTwice
<1> QED
  BY <1>1, <1>2, PTL

=============================================================================

--------------------------- MODULE TierLookupProofs ---------------------------
(***************************************************************************)
(* Why lookups and offsets are right, for any hashes, capacities and       *)
(* bounds.                                                                 *)
(*                                                                         *)
(* Offsets: between lambdas the hatchling ends where the buffer begins and *)
(* the buffer ends where the log ends, so one that is read without a lock  *)
(* is right when the worker's lambda did not run meanwhile.                *)
(*                                                                         *)
(* Lookups: buffer, hatchling and every donut of the room are parts of the *)
(* log, and the donuts of the room follow one another without gaps, so     *)
(* what the steps of a lookup find there the log has, too; and an index    *)
(* that was there stays until a discard, or a lambda, which the question   *)
(* remembers.                                                              *)
(***************************************************************************)
EXTENDS TierLookup, SequenceTheorems, WellFoundedInduction, TLAPS

Labels == {"wait", "append", "erase", "move", "feed", "replace", "end"}

Item == Hashes \cup {NoHash}

Donuts == [first : Nat, items : Seq(Item)]

\* Where the items begin that are neither in a donut nor in the worker's hands.
Untaken == Len(fed) - Len(buffer)

HatchlingEnd == next_offset(hatchling)

ShapeInv ==
    /\ fed \in Seq(Item) /\ buffer \in Seq(Item)
    /\ first_global_pi \in Nat
    /\ hatchling \in Donuts
    /\ Len(hatchling.items) <= DonutCapacity
    /\ worker \in [at : Labels, sent : Nat, donut : Donuts]

\* While the lambda runs, first_global_pi is behind by what it was sent.
OffsetsInv ==
    /\ worker.at = "wait" => first_global_pi = Untaken
    /\ worker.at # "wait" => first_global_pi + worker.sent = Len(fed)
    /\ worker.at \in {"wait", "append", "move", "end"} => HatchlingEnd = Untaken
    /\ worker.at = "erase" =>
           /\ Len(worker.donut.items) <= Len(buffer)
           /\ HatchlingEnd = Untaken + Len(worker.donut.items)
    /\ worker.at = "move" => Len(hatchling.items) = DonutCapacity
    /\ worker.at \in {"feed", "replace"} => worker.donut.first + DonutCapacity = Untaken
    /\ worker.at = "end" => buffer = << >>

LogInv == ShapeInv /\ OffsetsInv

\* Half way, a question that no lambda disturbed has read a part that is
\* still what it was, or was what it takes to get the end at the beginning.
CallInv ==
    call.at # "idle" =>
        /\ {"op", "arg", "at", "low", "read", "value", "consumed"} \subseteq DOMAIN call
        /\ call.consumed \in BOOLEAN
        /\ (call.op = "next_offset" /\ ~call.consumed) =>
               /\ call.arg \in {"ingester", "tier"}
               /\ call.at \in {"first", "size", "done"}
               /\ call.low \in Nat /\ call.low <= Len(fed)
               /\ call.at # "done" => worker.at = "wait"
               /\ (call.arg = "tier" /\ call.at # "done") =>
                      call.low = first_global_pi /\ call.read = OffsetParts("tier")[call.at]
               /\ (call.arg = "ingester" /\ call.at = "first") => call.read = first_global_pi
               /\ (call.arg = "ingester" /\ call.at = "size") =>
                      call.read \in Nat /\ first_global_pi + call.read = call.low
               /\ (call.arg = "tier" /\ call.at = "done") => call.value = call.low
               /\ (call.arg = "ingester" /\ call.at = "done") => call.value \in call.low .. Len(fed)

LookupInv == LogInv /\ CallInv

LEMMA InitLookupInv == Init => LookupInv
<1> SUFFICES ASSUME Init PROVE LookupInv
  OBVIOUS
<1>1. ShapeInv
  BY SizesArePositive DEF Init, ShapeInv, Donuts, Labels, Donut, Waiting
<1>2. OffsetsInv
  BY DEF Init, OffsetsInv, Donut, Waiting, Untaken, HatchlingEnd, next_offset, Donuts
<1>3. CallInv
  BY DEF Init, CallInv, Idle
<1> QED
  BY <1>1, <1>2, <1>3 DEF LookupInv, LogInv

-----------------------------------------------------------------------------
(* The worker.                                                             *)

LEMMA AppendStep ==
  ASSUME LogInv, append_hashes
  PROVE  LogInv'
<1> DEFINE taking == IF Len(buffer) < remaining_capacity THEN Len(buffer) ELSE remaining_capacity
           part == SubSeq(buffer, 1, taking)
<1>1. taking \in 0 .. Len(buffer) /\ taking <= DonutCapacity - Len(hatchling.items)
  BY SizesArePositive DEF LogInv, ShapeInv, remaining_capacity, Donuts
<1>2. part \in Seq(Item) /\ Len(part) = taking
  BY <1>1 DEF LogInv, ShapeInv
<1>3. /\ hatchling' = [hatchling EXCEPT !.items = @ \o part]
      /\ worker' = [worker EXCEPT !.at = "erase", !.donut.items = part]
      /\ worker.at = "append" /\ UNCHANGED << fed, buffer, first_global_pi >>
  BY DEF append_hashes
<1>4. /\ hatchling'.first = hatchling.first /\ hatchling'.items = hatchling.items \o part
      /\ worker'.at = "erase" /\ worker'.donut.items = part /\ worker'.sent = worker.sent
      /\ hatchling.items \in Seq(Item)
  BY <1>3 DEF LogInv, ShapeInv, Donuts
<1> HIDE DEF part, taking
<1> DEFINE old == hatchling.items
<1>5. /\ hatchling'.items \in Seq(Item)
      /\ Len(hatchling'.items) = Len(hatchling.items) + taking
  <2>1. old \o part \in Seq(Item) /\ Len(old \o part) = Len(old) + Len(part)
    BY <1>2, <1>4, ConcatProperties
  <2> QED
    BY <1>2, <1>4, <2>1
<1>6. hatchling' \in Donuts /\ worker' \in [at : Labels, sent : Nat, donut : Donuts]
  BY <1>2, <1>3, <1>4, <1>5 DEF LogInv, ShapeInv, Donuts, Labels
<1>7. ShapeInv'
  <2>1. Len(hatchling.items) \in Nat
    BY <1>4
  <2> QED
    BY <1>1, <1>3, <1>5, <1>6, <2>1, SizesArePositive DEF LogInv, ShapeInv
<1>8. OffsetsInv'
  <2>1. /\ Untaken' = Untaken /\ HatchlingEnd' = HatchlingEnd + taking
        /\ Len(worker'.donut.items) = taking /\ taking <= Len(buffer')
    <3>1. hatchling.first \in Nat /\ Len(hatchling.items) \in Nat
      BY <1>4 DEF LogInv, ShapeInv, Donuts
    <3> QED
      BY <1>1, <1>2, <1>3, <1>4, <1>5, <3>1 DEF Untaken, HatchlingEnd, next_offset
  <2>2. HatchlingEnd = Untaken /\ first_global_pi + worker.sent = Len(fed)
    BY <1>3 DEF LogInv, OffsetsInv
  <2> QED
    BY <1>3, <1>4, <2>1, <2>2 DEF OffsetsInv
<1> QED
  BY <1>7, <1>8 DEF LogInv

LEMMA EraseStep ==
  ASSUME LogInv, erase
  PROVE  LogInv'
<1> DEFINE k == Len(worker.donut.items)
<1>1. /\ worker.at = "erase" /\ k \in 0 .. Len(buffer)
      /\ buffer' = SubSeq(buffer, k + 1, Len(buffer))
      /\ UNCHANGED << fed, first_global_pi, hatchling >>
      /\ worker' = [worker EXCEPT !.at = IF remaining_capacity = 0 THEN "move"
                                         ELSE AfterPromotion(buffer')]
  BY DEF erase, LogInv, ShapeInv, OffsetsInv, Donuts
<1>2. buffer' \in Seq(Item) /\ Len(buffer') = Len(buffer) - k
  <2>1. buffer \in Seq(Item)
    BY DEF LogInv, ShapeInv
  <2>2. k + 1 \in 1 .. Len(buffer) + 1 /\ Len(buffer) \in Nat
    BY <1>1, <2>1
  <2>3. \A i \in k + 1 .. Len(buffer) : buffer[i] \in Item
    BY <2>1, <2>2
  <2>4. k + 1 \in Int /\ Len(buffer) \in Int
    BY <2>2
  <2>5. /\ SubSeq(buffer, k + 1, Len(buffer)) \in Seq(Item)
        /\ Len(SubSeq(buffer, k + 1, Len(buffer))) =
               IF k + 1 <= Len(buffer) THEN Len(buffer) - (k + 1) + 1 ELSE 0
    BY <2>3, <2>4, SubSeqProperties
  <2> DEFINE rest == SubSeq(buffer, k + 1, Len(buffer))
  <2>6. buffer' = rest /\ k \in Nat /\ k <= Len(buffer)
    BY <1>1, <2>2
  <2> HIDE DEF rest
  <2>7. rest \in Seq(Item) /\ Len(rest) = IF k + 1 <= Len(buffer) THEN Len(buffer) - (k + 1) + 1 ELSE 0
    BY <2>5 DEF rest
  <2> HIDE DEF k
  <2>8. Len(rest) = Len(buffer) - k
    BY <2>2, <2>6, <2>7
  <2> QED
    BY <2>6, <2>7, <2>8
<1>3. /\ worker'.at \in {"move", "append", "end"} /\ worker'.sent = worker.sent
      /\ worker'.donut = worker.donut
      /\ worker'.at = "move" => remaining_capacity = 0
      /\ worker'.at = "end" => buffer' = << >>
      /\ worker' \in [at : Labels, sent : Nat, donut : Donuts]
  BY <1>1 DEF LogInv, ShapeInv, AfterPromotion, Labels
<1>4. ShapeInv'
  <2>1. /\ fed' \in Seq(Item) /\ first_global_pi' \in Nat /\ hatchling' \in Donuts
        /\ Len(hatchling'.items) <= DonutCapacity
    BY <1>1 DEF LogInv, ShapeInv
  <2> QED
    BY <1>2, <1>3, <2>1 DEF ShapeInv
<1>5. OffsetsInv'
  <2>1. Len(fed) \in Nat /\ Len(buffer) \in Nat /\ k \in Nat /\ Len(hatchling.items) \in Nat
    BY <1>1 DEF LogInv, ShapeInv, Donuts
  <2>2. Untaken' = Untaken + k /\ HatchlingEnd' = HatchlingEnd
    <3>1. HatchlingEnd' = HatchlingEnd
      BY <1>1 DEF HatchlingEnd, next_offset
    <3>2. fed' = fed /\ Len(buffer') = Len(buffer) - k
      BY <1>1, <1>2
    <3> HIDE DEF k
    <3>3. Untaken' = Untaken + k
      BY <2>1, <3>2 DEF Untaken
    <3> QED
      BY <3>1, <3>3
  <2>3. HatchlingEnd = Untaken + k /\ first_global_pi + worker.sent = Len(fed)
    BY <1>1 DEF LogInv, OffsetsInv
  <2>4. worker'.at = "move" => Len(hatchling'.items) = DonutCapacity
    BY <1>1, <1>3, <2>1, SizesArePositive DEF remaining_capacity
  <2> QED
    BY <1>1, <1>3, <2>2, <2>3, <2>4 DEF OffsetsInv
<1> QED
  BY <1>4, <1>5 DEF LogInv

LEMMA PromotionStep ==
  ASSUME LogInv, move_hatchling \/ Feed \/ replace_hatchling
  PROVE  LogInv'
<1>1. CASE move_hatchling
  <2>1. /\ worker.at = "move" /\ UNCHANGED << fed, buffer, first_global_pi >>
        /\ worker'.at = "feed" /\ worker'.sent = worker.sent /\ worker'.donut = hatchling
        /\ hatchling'.first = hatchling.first /\ hatchling'.items = << >>
        /\ hatchling' \in Donuts /\ worker' \in [at : Labels, sent : Nat, donut : Donuts]
    <3>1. hatchling \in Donuts /\ worker \in [at : Labels, sent : Nat, donut : Donuts]
      BY DEF LogInv, ShapeInv
    <3>2. /\ worker.at = "move" /\ UNCHANGED << fed, buffer, first_global_pi >>
          /\ worker' = [worker EXCEPT !.at = "feed", !.donut = hatchling]
          /\ hatchling' = [hatchling EXCEPT !.items = << >>]
      BY <1>1 DEF move_hatchling
    <3>3. << >> \in Seq(Item)
      OBVIOUS
    <3>4. worker' \in [at : Labels, sent : Nat, donut : Donuts]
      BY <3>1, <3>2 DEF Labels
    <3>5. hatchling' \in Donuts /\ hatchling'.first = hatchling.first /\ hatchling'.items = << >>
      BY <3>1, <3>2, <3>3 DEF Donuts
    <3> QED
      BY <3>1, <3>2, <3>4, <3>5
  <2>2. ShapeInv'
    BY <2>1, SizesArePositive DEF LogInv, ShapeInv, Donuts, Labels
  <2>3. OffsetsInv'
    BY <2>1 DEF LogInv, ShapeInv, OffsetsInv, Untaken, HatchlingEnd, next_offset, Donuts
  <2> QED
    BY <2>2, <2>3 DEF LogInv
<1>2. CASE Feed
  <2>1. /\ worker.at = "feed" /\ UNCHANGED << fed, buffer, first_global_pi, hatchling >>
        /\ worker'.at = "replace" /\ worker'.sent = worker.sent /\ worker'.donut = worker.donut
        /\ worker' \in [at : Labels, sent : Nat, donut : Donuts]
    BY <1>2 DEF Feed, LogInv, ShapeInv, Labels
  <2>2. ShapeInv'
    BY <2>1 DEF LogInv, ShapeInv, Donuts, Labels
  <2>3. OffsetsInv'
    BY <2>1 DEF LogInv, ShapeInv, OffsetsInv, Untaken, HatchlingEnd, next_offset, Donuts
  <2> QED
    BY <2>2, <2>3 DEF LogInv
<1>3. CASE replace_hatchling
  <2>1. /\ worker.at = "replace" /\ UNCHANGED << fed, buffer, first_global_pi >>
        /\ worker'.at \in {"append", "end"} /\ worker'.sent = worker.sent
        /\ worker'.at = "end" => buffer = << >>
        /\ worker'.donut = worker.donut
        /\ hatchling' = Donut(worker.donut.first + DonutCapacity, << >>)
        /\ worker' \in [at : Labels, sent : Nat, donut : Donuts]
    BY <1>3 DEF replace_hatchling, LogInv, ShapeInv, AfterPromotion, new_offset, Labels
  <2>2. /\ hatchling'.first = worker.donut.first + DonutCapacity /\ hatchling'.items = << >>
        /\ hatchling' \in Donuts
    BY <2>1, SizesArePositive DEF Donut, LogInv, ShapeInv, Donuts
  <2>3. ShapeInv'
    BY <2>1, <2>2, SizesArePositive DEF LogInv, ShapeInv, Donuts, Labels
  <2>4. OffsetsInv'
    <3>1. /\ worker.donut.first + DonutCapacity = Untaken
          /\ first_global_pi + worker.sent = Len(fed)
      BY <2>1 DEF LogInv, OffsetsInv
    <3>2. Untaken' = Untaken
      BY <2>1 DEF Untaken
    <3>3. HatchlingEnd' = worker.donut.first + DonutCapacity
      <4>1. worker.donut.first + DonutCapacity \in Nat /\ Len(hatchling'.items) = 0
        BY <2>1, <2>2, SizesArePositive DEF LogInv, ShapeInv, Donuts
      <4> QED
        BY <2>2, <4>1 DEF HatchlingEnd, next_offset
    <3> QED
      BY <2>1, <3>1, <3>2, <3>3 DEF OffsetsInv
  <2> QED
    BY <2>3, <2>4 DEF LogInv
<1> QED
  BY <1>1, <1>2, <1>3

LEMMA LambdaStep ==
  ASSUME LogInv, begin_lambda \/ end_lambda
  PROVE  LogInv'
<1>1. CASE begin_lambda
  <2>1. /\ worker.at = "wait" /\ UNCHANGED << fed, buffer, first_global_pi, hatchling >>
        /\ worker'.at = "append" /\ worker'.sent = Len(buffer) /\ worker'.donut = worker.donut
        /\ worker' \in [at : Labels, sent : Nat, donut : Donuts]
    <3>1. Len(buffer) \in Nat /\ worker \in [at : Labels, sent : Nat, donut : Donuts]
      BY DEF LogInv, ShapeInv
    <3>2. /\ worker.at = "wait" /\ UNCHANGED << fed, buffer, first_global_pi, hatchling >>
          /\ worker' = [worker EXCEPT !.at = "append", !.sent = Len(buffer)]
      BY <1>1 DEF begin_lambda
    <3> QED
      BY <3>1, <3>2 DEF Labels
  <2>2. ShapeInv'
    BY <2>1 DEF LogInv, ShapeInv, Donuts, Labels
  <2>3. OffsetsInv'
    BY <2>1 DEF LogInv, ShapeInv, OffsetsInv, Untaken, HatchlingEnd, next_offset, Donuts
  <2> QED
    BY <2>2, <2>3 DEF LogInv
<1>2. CASE end_lambda
  <2>1. /\ worker.at = "end" /\ UNCHANGED << fed, buffer, hatchling >>
        /\ first_global_pi' = first_global_pi + worker.sent
        /\ worker'.at = "wait" /\ worker'.sent = 0
        /\ worker'.donut.first = 0 /\ worker'.donut.items = << >>
        /\ worker' \in [at : Labels, sent : Nat, donut : Donuts]
    BY <1>2 DEF end_lambda, first_after_lambda, Waiting, Donut, Labels, Donuts
  <2>2. ShapeInv'
    BY <2>1 DEF LogInv, ShapeInv, Donuts, Labels
  <2>3. OffsetsInv'
    BY <2>1 DEF LogInv, ShapeInv, OffsetsInv, Untaken, HatchlingEnd, next_offset, Donuts
  <2> QED
    BY <2>2, <2>3 DEF LogInv
<1> QED
  BY <1>1, <1>2

LEMMA FeedStep ==
  ASSUME LogInv, feed_block_of_hashes
  PROVE  LogInv' /\ Len(fed') >= Len(fed)
<1>1. PICK k \in 1 .. MaxBlock : \E block \in [1 .. k -> Item] :
         fed' = fed \o block /\ buffer' = buffer \o block
  BY DEF feed_block_of_hashes, Item
<1>2. PICK block \in [1 .. k -> Item] :
         fed' = fed \o block /\ buffer' = buffer \o block
  BY <1>1
<1>3. k \in Nat /\ block \in Seq(Item) /\ Len(block) = k
  BY <1>1, <1>2
<1>4. /\ fed' \in Seq(Item) /\ buffer' \in Seq(Item)
      /\ Len(fed') = Len(fed) + k /\ Len(buffer') = Len(buffer) + k
  <2>1. fed \in Seq(Item) /\ buffer \in Seq(Item)
    BY DEF LogInv, ShapeInv
  <2> QED
    BY <1>2, <1>3, <2>1, ConcatProperties
<1>5. worker.at = "wait" /\ UNCHANGED << first_global_pi, hatchling, worker >>
  BY DEF feed_block_of_hashes
<1>6. ShapeInv'
  BY <1>4, <1>5 DEF LogInv, ShapeInv
<1>7. OffsetsInv'
  <2>1. Len(fed) \in Nat /\ Len(buffer) \in Nat
    BY DEF LogInv, ShapeInv
  <2>2. Untaken' = Untaken /\ HatchlingEnd' = HatchlingEnd
    BY <1>3, <1>4, <1>5, <2>1 DEF Untaken, HatchlingEnd, next_offset
  <2> QED
    BY <1>5, <2>2 DEF LogInv, OffsetsInv
<1> QED
  BY <1>3, <1>4, <1>6, <1>7 DEF LogInv, ShapeInv

LEMMA SameLog ==
  ASSUME LogInv, UNCHANGED << fed, buffer, first_global_pi, hatchling, worker >>
  PROVE  LogInv'
  BY DEF LogInv, ShapeInv, OffsetsInv, Untaken, HatchlingEnd, next_offset, Donuts
LEMMA StepLogInv ==
  ASSUME LogInv, [Next]_vars
  PROVE  LogInv' /\ Len(fed') >= Len(fed)
<1>1. CASE feed_block_of_hashes
  BY <1>1, FeedStep
<1>2. ASSUME fed' = fed PROVE Len(fed') >= Len(fed)
  BY <1>2 DEF LogInv, ShapeInv
<1>3. CASE begin_lambda \/ end_lambda
  BY <1>2, <1>3, LambdaStep DEF begin_lambda, end_lambda
<1>4. CASE append_hashes
  BY <1>2, <1>4, AppendStep DEF append_hashes
<1>5. CASE erase
  BY <1>2, <1>5, EraseStep DEF erase
<1>6. CASE move_hatchling \/ Feed \/ replace_hatchling
  BY <1>2, <1>6, PromotionStep DEF move_hatchling, Feed, replace_hatchling
<1>7. CASE begin_Discard \/ end_Discard
  BY <1>2, <1>7, SameLog DEF begin_Discard, end_Discard
<1>8. CASE Asked
  BY <1>2, <1>8, SameLog DEF Asked
<1>9. CASE UNCHANGED vars
  BY <1>2, <1>9, SameLog DEF vars
<1> QED
  BY <1>1, <1>3, <1>4, <1>5, <1>6, <1>7, <1>8, <1>9
     DEF Next, room_forward_begin, room_first_offset, room_next_offset, room_search,
         room_reverse_lookup, buffer_forward_begin, buffer_forward_lookup,
         next_offset_begin, next_offset_end, answered

-----------------------------------------------------------------------------
(* The question.                                                           *)

\* A lambda that begins disturbs the question, and steps of one that runs
\* find it disturbed.
LEMMA CallInLambda ==
  ASSUME LookupInv, begin_lambda \/ (worker.at # "wait" /\ UNCHANGED call), Len(fed') >= Len(fed),
         Len(fed') \in Nat, Len(fed) \in Nat
  PROVE  CallInv'
<1>1. CASE begin_lambda
  BY <1>1 DEF LookupInv, CallInv, begin_lambda, Idle
<1>2. CASE worker.at # "wait" /\ UNCHANGED call
  <2>1. (call.at # "idle" /\ call.op = "next_offset" /\ ~call.consumed) => call.at = "done"
    BY <1>2 DEF LookupInv, CallInv
  <2> QED
    BY <1>2, <2>1 DEF LookupInv, CallInv
<1> QED
  BY <1>1, <1>2

\* So do steps that change no offset, and a feed, which moves the end only.
LEMMA CallUndisturbed ==
  ASSUME LookupInv, Len(fed') >= Len(fed), Len(fed') \in Nat, Len(fed) \in Nat,
         UNCHANGED << first_global_pi, hatchling, worker, call >>
  PROVE  CallInv'
  BY DEF LookupInv, CallInv, OffsetParts

\* The other questions have no part in this.
LEMMA OtherQuestions ==
  ASSUME LookupInv,
         \/ room_forward_begin \/ room_first_offset \/ room_next_offset \/ room_search
         \/ room_reverse_lookup \/ buffer_forward_begin \/ buffer_forward_lookup \/ answered
  PROVE  CallInv'
<1> DEFINE Begun(op) ==
             /\ {"op", "arg", "at", "low", "read", "value", "consumed"} \subseteq DOMAIN call'
             /\ call'.op = op /\ call'.consumed = (worker.at # "wait")
<1>0. ASSUME Begun("room_forward") \/ Begun("room_reverse") \/ Begun("buffer_forward")
      PROVE  CallInv'
  BY <1>0 DEF CallInv
<1>1. CASE room_forward_begin \/ room_reverse_lookup \/ buffer_forward_begin
  <2>1. CASE room_forward_begin
    BY <1>0, <2>1 DEF room_forward_begin, Question
  <2>2. CASE room_reverse_lookup
    <3>1. Begun("room_reverse")
      BY <2>2 DEF room_reverse_lookup, Question
    <3> QED
      BY <1>0, <3>1
  <2>3. CASE buffer_forward_begin
    BY <1>0, <2>3 DEF buffer_forward_begin, Question
  <2> QED
    BY <1>1, <2>1, <2>2, <2>3
<1>2. CASE room_first_offset \/ room_next_offset \/ room_search
  BY <1>2 DEF room_first_offset, room_next_offset, room_search, Answer, LookupInv, CallInv
<1>3. CASE buffer_forward_lookup
  BY <1>3 DEF buffer_forward_lookup, Answer, LookupInv, CallInv
<1>4. CASE answered
  BY <1>4 DEF answered, Idle, CallInv
<1> QED
  BY <1>1, <1>2, <1>3, <1>4

\* The first of the two reads.
LEMMA FirstRead ==
  ASSUME LookupInv, next_offset_begin
  PROVE  CallInv'
<1>1. PICK of \in {"ingester", "tier"}, part \in {"first", "size"} :
        call' = [Question("next_offset", of, part,
                          IF of = "ingester" THEN Len(fed) ELSE Len(fed) - Len(buffer), 0)
                 EXCEPT !.read = OffsetParts(of)[part]]
  BY DEF next_offset_begin
<1> DEFINE low == IF of = "ingester" THEN Len(fed) ELSE Len(fed) - Len(buffer)
<1>2. /\ {"op", "arg", "at", "low", "read", "value", "consumed"} \subseteq DOMAIN call'
      /\ call'.op = "next_offset" /\ call'.arg = of /\ call'.at = part
      /\ call'.low = low /\ call'.read = OffsetParts(of)[part]
      /\ call'.consumed = (worker.at # "wait")
  BY <1>1 DEF Question
<1>3. UNCHANGED << fed, buffer, first_global_pi, hatchling, worker >>
  BY DEF next_offset_begin, Asked
<1>4. ASSUME worker.at = "wait"
      PROVE  /\ first_global_pi + Len(buffer) = Len(fed)
             /\ Len(fed) \in Nat /\ Len(buffer) \in Nat /\ first_global_pi \in Nat
  BY <1>4 DEF LookupInv, LogInv, ShapeInv, OffsetsInv, Untaken
<1>5. CASE worker.at # "wait"
  BY <1>2, <1>5 DEF CallInv
<1>6. CASE worker.at = "wait" /\ of = "ingester"
  <2>1. low = Len(fed)
    BY <1>6
  <2>2. /\ part = "first" => call'.read = first_global_pi
        /\ part = "size" => call'.read = Len(buffer)
    BY <1>2, <1>6 DEF OffsetParts
  <2> QED
    BY <1>2, <1>3, <1>4, <1>6, <2>1, <2>2 DEF CallInv
<1>7. CASE worker.at = "wait" /\ of = "tier"
  <2>1. low = first_global_pi /\ low <= Len(fed)
    BY <1>4, <1>7
  <2>2. OffsetParts("tier")' = OffsetParts("tier")
    BY <1>3 DEF OffsetParts
  <2> QED
    BY <1>2, <1>3, <1>4, <1>7, <2>1, <2>2 DEF CallInv
<1> QED
  BY <1>5, <1>6, <1>7

\* The second of the two reads.
LEMMA SecondRead ==
  ASSUME LookupInv, next_offset_end
  PROVE  CallInv'
<1>1. PICK part \in {"first", "size"} \ {call.at} :
        call' = [call EXCEPT !.at = "done", !.value = call.read + OffsetParts(call.arg)[part]]
  BY DEF next_offset_end, Answer
<1>2. /\ call.op = "next_offset" /\ call.at \in {"first", "size"}
      /\ UNCHANGED << fed, buffer, first_global_pi, hatchling, worker >>
  BY DEF next_offset_end, Asked
<1>3. /\ {"op", "arg", "at", "low", "read", "value", "consumed"} \subseteq DOMAIN call'
      /\ call'.op = "next_offset" /\ call'.arg = call.arg /\ call'.at = "done"
      /\ call'.low = call.low /\ call'.consumed = call.consumed
      /\ call'.value = call.read + OffsetParts(call.arg)[part]
      /\ call.consumed \in BOOLEAN
  BY <1>1, <1>2 DEF LookupInv, CallInv
<1>4. CASE call.consumed
  BY <1>3, <1>4 DEF CallInv
<1>5. CASE ~call.consumed
  <2>1. /\ worker.at = "wait" /\ call.arg \in {"ingester", "tier"}
        /\ call.low \in Nat /\ call.low <= Len(fed)
        /\ call.arg = "tier" => call.low = first_global_pi /\ call.read = OffsetParts("tier")[call.at]
        /\ (call.arg = "ingester" /\ call.at = "first") => call.read = first_global_pi
        /\ (call.arg = "ingester" /\ call.at = "size") =>
               call.read \in Nat /\ first_global_pi + call.read = call.low
    BY <1>2, <1>5 DEF LookupInv, CallInv
  <2>2. /\ first_global_pi + Len(buffer) = Len(fed) /\ hatchling.first + Len(hatchling.items) = first_global_pi
        /\ Len(fed) \in Nat /\ Len(buffer) \in Nat /\ first_global_pi \in Nat
        /\ hatchling.first \in Nat /\ Len(hatchling.items) \in Nat
    <3>1. /\ Len(fed) \in Nat /\ Len(buffer) \in Nat /\ first_global_pi \in Nat
          /\ hatchling.first \in Nat /\ Len(hatchling.items) \in Nat
      BY DEF LookupInv, LogInv, ShapeInv, Donuts
    <3>2. first_global_pi = Untaken /\ HatchlingEnd = Untaken
      BY <2>1 DEF LookupInv, LogInv, OffsetsInv
    <3> QED
      BY <3>1, <3>2 DEF Untaken, HatchlingEnd, next_offset
  <2>3. \/ call.at = "first" /\ part = "size"
        \/ call.at = "size" /\ part = "first"
    BY <1>2
  <2>4. CASE call.arg = "tier"
    <3>1. call'.value = call.low
      BY <1>3, <2>1, <2>2, <2>3, <2>4 DEF OffsetParts
    <3> QED
      BY <1>2, <1>3, <2>1, <2>4, <3>1 DEF CallInv
  <2>5. CASE call.arg = "ingester"
    <3>1. call'.value \in call.low .. Len(fed)
      BY <1>3, <2>1, <2>2, <2>3, <2>5 DEF OffsetParts
    <3> QED
      BY <1>2, <1>3, <2>1, <2>5, <3>1 DEF CallInv
  <2> QED
    BY <2>1, <2>4, <2>5
<1> QED
  BY <1>3, <1>4, <1>5

LEMMA StepLookupInv == LookupInv /\ [Next]_vars => LookupInv'
<1> SUFFICES ASSUME LookupInv, [Next]_vars PROVE LookupInv'
  OBVIOUS
<1>1. LogInv' /\ Len(fed') >= Len(fed) /\ Len(fed) \in Nat /\ Len(fed') \in Nat
  BY StepLogInv DEF LookupInv, LogInv, ShapeInv
<1>2. CASE begin_lambda
  BY <1>1, <1>2, CallInLambda DEF LookupInv
<1>3. CASE append_hashes \/ erase \/ move_hatchling \/ Feed \/ replace_hatchling \/ end_lambda
  <2>1. worker.at # "wait" /\ UNCHANGED call
    BY <1>3 DEF append_hashes, erase, move_hatchling, Feed, replace_hatchling, end_lambda
  <2> QED
    BY <1>1, <2>1, CallInLambda DEF LookupInv
<1>4. CASE feed_block_of_hashes \/ end_Discard \/ UNCHANGED vars
  <2>1. UNCHANGED << first_global_pi, hatchling, worker, call >>
    BY <1>4 DEF feed_block_of_hashes, end_Discard, vars
  <2> QED
    BY <1>1, <2>1, CallUndisturbed DEF LookupInv
<1>5. CASE begin_Discard
  <2>1. CallInv'
    BY <1>1, <1>5 DEF begin_Discard, LookupInv, CallInv, OffsetParts
  <2> QED
    BY <1>1, <2>1 DEF LookupInv
<1>6. CASE \/ room_forward_begin \/ room_first_offset \/ room_next_offset \/ room_search
           \/ room_reverse_lookup \/ buffer_forward_begin \/ buffer_forward_lookup \/ answered
  BY <1>1, <1>6, OtherQuestions DEF LookupInv
<1>7. CASE next_offset_begin
  BY <1>1, <1>7, FirstRead DEF LookupInv
<1>8. CASE next_offset_end
  BY <1>1, <1>8, SecondRead DEF LookupInv
<1> QED
  BY <1>2, <1>3, <1>4, <1>5, <1>6, <1>7, <1>8 DEF Next

-----------------------------------------------------------------------------

\* Between lambdas buffer and hatchling meet where first_global_pi says, and
\* the donut on its way ends where the next one will begin.
THEOREM OffsetsMeet == Spec => []LookupInv
  BY InitLookupInv, StepLookupInv, PTL DEF Spec

\* An offset put together from two reads without a lock is one that was true
\* during the call, if no lambda ran meanwhile; for any capacity and log.
THEOREM NextOffsetAlwaysRight == Spec => []NextOffsetIsRight
<1>1. LookupInv => NextOffsetIsRight
  BY DEF LookupInv, CallInv, NextOffsetIsRight
<1> QED
  BY <1>1, OffsetsMeet, PTL

-----------------------------------------------------------------------------
(* What buffer, donuts and room hold.                                      *)

\* d holds the items l has from d's first index on.
HoldsOf(d, l) ==
    /\ next_offset(d) <= Len(l)
    /\ \A i \in 1 .. Len(d.items) : d.items[i] = l[d.first + i]

\* Buffer, hatchling and the donut on its way are parts of the log.
PartsInv ==
    /\ Len(fed) <= MaxFed
    /\ Len(buffer) <= Len(fed)
    /\ \A i \in 1 .. Len(buffer) : buffer[i] = fed[Untaken + i]
    /\ HoldsOf(hatchling, fed)
    /\ worker.at \in {"feed", "replace"} =>
           HoldsOf(worker.donut, fed) /\ Len(worker.donut.items) = DonutCapacity
    /\ worker.at = "feed" => worker.donut.first = hatchling.first

InOrder(r) == \A i, j \in 1 .. Len(r) : i < j => next_offset(r[i]) <= r[j].first

\* Every index between the ends of r is in a donut.
HasNoGap(r) ==
    r # << >> =>
        \A pi \in r[1].first .. next_offset(r[Len(r)]) - 1 :
            \E i \in 1 .. Len(r) : contains_pi(r[i], pi)

\* So are the donuts of the room, which follow one another without gaps up to
\* the hatchling, or to the one that is about to replace it.
RoomInv ==
    /\ room \in Seq(Donuts)
    /\ \A i \in 1 .. Len(room) : HoldsOf(room[i], fed)
    /\ InOrder(room) /\ HasNoGap(room)
    /\ room # << >> =>
           RoomNext = IF worker.at = "replace" THEN new_offset ELSE hatchling.first

\* The log is only extended.
Grows ==
    /\ fed' \in Seq(Item) /\ Len(fed) <= Len(fed')
    /\ \A i \in 1 .. Len(fed) : fed'[i] = fed[i]

LEMMA LogGrows ==
  ASSUME LogInv, [Next]_vars
  PROVE  Grows
<1>0. fed \in Seq(Item) /\ Len(fed) \in Nat
  BY DEF LogInv, ShapeInv
<1>1. CASE feed_block_of_hashes
  <2>1. PICK k \in 1 .. MaxBlock : \E block \in [1 .. k -> Item] : fed' = fed \o block
    BY <1>1 DEF feed_block_of_hashes, Item
  <2>2. PICK block \in [1 .. k -> Item] : fed' = fed \o block
    BY <2>1
  <2>3. block \in Seq(Item)
    BY <2>1
  <2> QED
    BY <1>0, <2>2, <2>3, ConcatProperties DEF Grows
<1>2. CASE UNCHANGED fed
  BY <1>0, <1>2 DEF Grows
<1> QED
  BY <1>1, <1>2
     DEF Next, vars, Asked, begin_lambda, append_hashes, erase, move_hatchling, Feed,
         replace_hatchling, end_lambda, begin_Discard, end_Discard,
         room_forward_begin, room_first_offset, room_next_offset, room_search,
         room_reverse_lookup, buffer_forward_begin, buffer_forward_lookup,
         next_offset_begin, next_offset_end, answered

LEMMA HoldsLonger ==
  ASSUME NEW d \in Donuts, NEW l \in Seq(Item), NEW m \in Seq(Item), HoldsOf(d, l),
         Len(l) <= Len(m), \A i \in 1 .. Len(l) : m[i] = l[i]
  PROVE  HoldsOf(d, m)
<1>1. /\ d.first \in Nat /\ Len(d.items) \in Nat /\ Len(l) \in Nat /\ Len(m) \in Nat
      /\ d.first + Len(d.items) <= Len(l)
  BY DEF HoldsOf, next_offset, Donuts
<1>2. \A i \in 1 .. Len(d.items) : d.first + i \in 1 .. Len(l)
  BY <1>1
<1>3. \A i \in 1 .. Len(d.items) : d.items[i] = m[d.first + i]
  BY <1>2 DEF HoldsOf
<1> QED
  BY <1>1, <1>3 DEF HoldsOf, next_offset

LEMMA NothingHoldsAnything ==
  ASSUME NEW d, d.first \in Nat, d.items = << >>, NEW l, d.first <= Len(l)
  PROVE  HoldsOf(d, l)
BY DEF HoldsOf, next_offset

\* Parts stay parts of a longer log.
LEMMA PartsOfLongerLog ==
  ASSUME LogInv, RoomInv, PartsInv, Grows
  PROVE  /\ HoldsOf(hatchling, fed')
         /\ HoldsOf(worker.donut, fed) => HoldsOf(worker.donut, fed')
         /\ \A i \in 1 .. Len(room) : HoldsOf(room[i], fed')
<1>1. fed \in Seq(Item) /\ hatchling \in Donuts /\ worker.donut \in Donuts
  BY DEF LogInv, ShapeInv
<1>2. \A i \in 1 .. Len(room) : room[i] \in Donuts
  BY DEF RoomInv
<1> QED
  BY <1>1, <1>2, HoldsLonger DEF PartsInv, RoomInv, Grows

LEMMA InitItems == Init => PartsInv /\ RoomInv
<1> SUFFICES ASSUME Init PROVE PartsInv /\ RoomInv
  OBVIOUS
<1>1. HoldsOf(hatchling, fed)
  BY DEF Init, Donut, HoldsOf, next_offset
<1>2. PartsInv
  BY <1>1, BoundsAreNumbers DEF Init, PartsInv, Waiting
<1>3. RoomInv
  BY DEF Init, RoomInv, InOrder, HasNoGap
<1> QED
  BY <1>2, <1>3

LEMMA FeedKeepsItems ==
  ASSUME LogInv, PartsInv, RoomInv, feed_block_of_hashes
  PROVE  PartsInv' /\ RoomInv'
<1>0. Grows
  BY LogGrows DEF Next
<1>1. PICK k \in 1 .. MaxBlock : \E block \in [1 .. k -> Item] :
         Len(fed) + k <= MaxFed /\ fed' = fed \o block /\ buffer' = buffer \o block
  BY DEF feed_block_of_hashes, Item
<1>2. PICK block \in [1 .. k -> Item] :
         Len(fed) + k <= MaxFed /\ fed' = fed \o block /\ buffer' = buffer \o block
  BY <1>1
<1>3. k \in Nat /\ block \in Seq(Item) /\ Len(block) = k
  BY <1>1, <1>2
<1>4. /\ fed \in Seq(Item) /\ buffer \in Seq(Item) /\ worker.at = "wait"
      /\ UNCHANGED << first_global_pi, hatchling, room, worker >>
      /\ Len(buffer) <= Len(fed) /\ \A i \in 1 .. Len(buffer) : buffer[i] = fed[Untaken + i]
  BY DEF LogInv, ShapeInv, PartsInv, feed_block_of_hashes
<1>5. /\ Len(fed') = Len(fed) + k /\ Len(buffer') = Len(buffer) + k
      /\ Len(fed) \in Nat /\ Len(buffer) \in Nat
      /\ \A i \in 1 .. Len(buffer) : buffer'[i] = buffer[i]
      /\ \A i \in 1 .. k : buffer'[Len(buffer) + i] = block[i]
      /\ \A i \in 1 .. Len(fed) : fed'[i] = fed[i]
      /\ \A i \in 1 .. k : fed'[Len(fed) + i] = block[i]
  BY <1>2, <1>3, <1>4, ConcatProperties
<1>6. ASSUME NEW i \in 1 .. Len(buffer')
      PROVE  buffer'[i] = fed'[Untaken' + i]
  <2>1. Untaken' = Len(fed) - Len(buffer) /\ Untaken = Len(fed) - Len(buffer)
    BY <1>3, <1>5 DEF Untaken
  <2>2. CASE i \in 1 .. Len(buffer)
    <3>1. Untaken + i \in 1 .. Len(fed)
      BY <1>4, <1>5, <2>1, <2>2
    <3> QED
      BY <1>4, <1>5, <2>1, <2>2, <3>1
  <2>3. CASE i \notin 1 .. Len(buffer)
    <3>1. PICK j \in 1 .. k : i = Len(buffer) + j
      <4>1. i - Len(buffer) \in 1 .. k /\ i = Len(buffer) + (i - Len(buffer))
        BY <1>3, <1>5, <2>3
      <4> QED
        BY <4>1
    <3>2. Untaken' + i = Len(fed) + j
      BY <1>3, <1>5, <2>1, <3>1
    <3> QED
      BY <1>5, <3>1, <3>2
  <2> QED
    BY <2>2, <2>3
<1>7. PartsInv'
  <2>1. HoldsOf(hatchling', fed')
    BY <1>0, <1>4, PartsOfLongerLog
  <2>2. Len(fed') <= MaxFed /\ Len(buffer') <= Len(fed')
    BY <1>2, <1>3, <1>4, <1>5
  <2> QED
    BY <1>4, <1>6, <2>1, <2>2 DEF PartsInv
<1>8. RoomInv'
  BY <1>0, <1>4, PartsOfLongerLog DEF RoomInv, RoomNext, new_offset
<1> QED
  BY <1>7, <1>8

LEMMA ConcatIs ==
  ASSUME NEW s \in Seq(Item), NEW t \in Seq(Item), NEW n \in Nat, Len(t) = n
  PROVE  /\ Len(s \o t) = Len(s) + n
         /\ \A i \in 1 .. Len(s) : (s \o t)[i] = s[i]
         /\ \A i \in 1 .. n : (s \o t)[Len(s) + i] = t[i]
<1>1. /\ Len(s) \in Nat /\ Len(s \o t) = Len(s) + n
      /\ \A i \in 1 .. Len(s) + n : (s \o t)[i] = IF i <= Len(s) THEN s[i] ELSE t[i - Len(s)]
  BY ConcatProperties, LenProperties
<1>2. ASSUME NEW i \in 1 .. n PROVE (s \o t)[Len(s) + i] = t[i]
  <2>1. /\ Len(s) + i \in 1 .. Len(s) + n /\ ~(Len(s) + i <= Len(s))
        /\ Len(s) + i - Len(s) = i
    BY <1>1
  <2> QED
    BY <1>1, <2>1
<1>3. ASSUME NEW i \in 1 .. Len(s) PROVE (s \o t)[i] = s[i]
  BY <1>1
<1> QED
  BY <1>1, <1>2, <1>3

LEMMA AppendKeepsItems ==
  ASSUME LogInv, PartsInv, RoomInv, append_hashes
  PROVE  PartsInv' /\ RoomInv'
<1> DEFINE taking == IF Len(buffer) < remaining_capacity THEN Len(buffer) ELSE remaining_capacity
           part == SubSeq(buffer, 1, taking)
           old  == hatchling.items
<1>1. /\ fed \in Seq(Item) /\ buffer \in Seq(Item) /\ old \in Seq(Item) /\ hatchling.first \in Nat
      /\ Len(buffer) \in Nat /\ Len(old) \in Nat /\ Len(fed) \in Nat /\ Len(buffer) <= Len(fed)
      /\ Len(old) <= DonutCapacity /\ HatchlingEnd = Untaken
      /\ worker.at = "append" /\ UNCHANGED << fed, buffer, room >>
  BY DEF LogInv, ShapeInv, OffsetsInv, PartsInv, append_hashes, Donuts
<1>2. taking \in 0 .. Len(buffer)
  BY <1>1, SizesArePositive DEF remaining_capacity
<1>3. part \in Seq(Item) /\ Len(part) = taking /\ \A i \in 1 .. taking : part[i] = buffer[i]
  BY <1>1, <1>2
<1>4. /\ hatchling'.first = hatchling.first /\ hatchling'.items = old \o part
      /\ worker'.at = "erase"
  <2>1. /\ hatchling' = [hatchling EXCEPT !.items = @ \o part]
        /\ worker' = [worker EXCEPT !.at = "erase", !.donut.items = part]
    BY DEF append_hashes
  <2>2. hatchling \in Donuts /\ worker \in [at : Labels, sent : Nat, donut : Donuts]
    BY DEF LogInv, ShapeInv
  <2> QED
    BY <2>1, <2>2 DEF Donuts
<1>9. \A i \in 1 .. Len(old) : old[i] = fed[hatchling.first + i]
  BY DEF PartsInv, HoldsOf
<1> HIDE DEF taking, part, old
<1>5. /\ Len(old \o part) = Len(old) + taking
      /\ \A i \in 1 .. Len(old) : (old \o part)[i] = old[i]
      /\ \A i \in 1 .. taking : (old \o part)[Len(old) + i] = part[i]
  <2>1. /\ old \in Seq(Item) /\ part \in Seq(Item)
        /\ taking = Len(part)
    BY <1>1, <1>2, <1>3
  <2> QED
    BY ONLY <2>1, ConcatIs
<1>6. HoldsOf(hatchling', fed)
  <2>1. hatchling.first + Len(old) = Len(fed) - Len(buffer)
    BY <1>1 DEF HatchlingEnd, Untaken, next_offset, old
  <2>2. next_offset(hatchling') <= Len(fed)
    <3>1. next_offset(hatchling') = hatchling.first + (Len(old) + taking)
      BY <1>4, <1>5 DEF next_offset
    <3> QED
      BY <1>1, <1>2, <2>1, <3>1
  <2>3. ASSUME NEW i \in 1 .. Len(old) + taking
        PROVE  (old \o part)[i] = fed[hatchling.first + i]
    <3>1. CASE i \in 1 .. Len(old)
      <4>1. old[i] = fed[hatchling.first + i]
        BY <1>9, <3>1
      <4> QED
        BY <1>5, <3>1, <4>1
    <3>2. CASE i \notin 1 .. Len(old)
      <4>1. PICK j \in 1 .. taking : i = Len(old) + j
        <5>1. i - Len(old) \in 1 .. taking /\ i = Len(old) + (i - Len(old))
          BY <1>1, <1>2, <3>2
        <5> QED
          BY <5>1
      <4>2. j \in 1 .. Len(buffer) /\ hatchling.first + i = Untaken + j
        <5>1. \A f, o, b, l, e \in Nat : f + o = l - b /\ e \in 1 .. b =>
                f + (o + e) = l - b + e
          OBVIOUS
        <5>2. j \in 1 .. Len(buffer) /\ j \in Nat
          BY <1>1, <1>2
        <5>3. /\ hatchling.first \in Nat /\ Len(old) \in Nat
              /\ Len(fed) \in Nat /\ Len(buffer) \in Nat
          BY <1>1
        <5>4. hatchling.first + (Len(old) + j) = Len(fed) - Len(buffer) + j
          BY ONLY <2>1, <5>1, <5>2, <5>3
        <5> QED
          BY <4>1, <5>2, <5>4 DEF Untaken
      <4>3. buffer[j] = fed[Untaken + j]
        BY <4>2 DEF PartsInv
      <4> QED
        BY <1>3, <1>5, <4>1, <4>2, <4>3
    <3> QED
      BY <3>1, <3>2
  <2> QED
    BY <1>4, <1>5, <2>2, <2>3 DEF HoldsOf
<1>7. PartsInv'
  BY <1>1, <1>4, <1>6 DEF PartsInv, Untaken
<1>8. RoomInv'
  BY <1>1, <1>4 DEF RoomInv, RoomNext
<1> QED
  BY <1>7, <1>8

LEMMA EraseKeepsItems ==
  ASSUME LogInv, PartsInv, RoomInv, erase
  PROVE  PartsInv' /\ RoomInv'
<1> DEFINE k == Len(worker.donut.items)
           rest == SubSeq(buffer, k + 1, Len(buffer))
<1>1. /\ fed \in Seq(Item) /\ buffer \in Seq(Item) /\ Len(buffer) \in Nat /\ Len(fed) \in Nat
      /\ Len(buffer) <= Len(fed) /\ k \in 0 .. Len(buffer)
      /\ \A i \in 1 .. Len(buffer) : buffer[i] = fed[Untaken + i]
      /\ UNCHANGED << fed, hatchling, room >> /\ worker.at = "erase" /\ buffer' = rest
  BY DEF LogInv, ShapeInv, OffsetsInv, PartsInv, erase, Donuts
<1>2. worker'.at \in {"move", "append", "end"}
  BY DEF erase, LogInv, ShapeInv, AfterPromotion
<1>3. Len(rest) = Len(buffer) - k /\ \A i \in 1 .. Len(buffer) - k : rest[i] = buffer[k + i]
  <2> HIDE DEF k
  <2>1. \A i \in k + 1 .. Len(buffer) : buffer[i] \in Item
    BY <1>1
  <2>2. /\ Len(rest) = IF k + 1 <= Len(buffer) THEN Len(buffer) - (k + 1) + 1 ELSE 0
        /\ \A i \in 1 .. Len(buffer) - (k + 1) + 1 : rest[i] = buffer[k + 1 + i - 1]
    BY <1>1, <2>1, SubSeqProperties
  <2> HIDE DEF rest
  <2>3. Len(rest) = Len(buffer) - k
    BY <1>1, <2>2
  <2>4. ASSUME NEW i \in 1 .. Len(buffer) - k PROVE rest[i] = buffer[k + i]
    <3>1. i \in 1 .. Len(buffer) - (k + 1) + 1 /\ k + 1 + i - 1 = k + i
      BY <1>1
    <3> QED
      BY <2>2, <3>1
  <2> QED
    BY <2>3, <2>4
<1> HIDE DEF k, rest
<1>4. ASSUME NEW i \in 1 .. Len(buffer')
      PROVE  buffer'[i] = fed'[Untaken' + i]
  <2>1. Len(buffer') = Len(buffer) - k /\ Untaken' = Len(fed) - (Len(buffer) - k)
    BY <1>1, <1>3 DEF Untaken
  <2>2. i \in 1 .. Len(buffer) - k /\ k + i \in 1 .. Len(buffer) /\ Untaken' + i = Untaken + (k + i)
    BY <1>1, <2>1 DEF Untaken
  <2> QED
    BY <1>1, <1>3, <2>2
<1>5. Len(buffer') <= Len(fed')
  BY <1>1, <1>3
<1>6. PartsInv'
  BY <1>1, <1>2, <1>4, <1>5 DEF PartsInv
<1>7. RoomInv'
  BY <1>1, <1>2 DEF RoomInv, RoomNext
<1> QED
  BY <1>6, <1>7

LEMMA MoveKeepsItems ==
  ASSUME LogInv, PartsInv, RoomInv, move_hatchling
  PROVE  PartsInv' /\ RoomInv'
<1>1. /\ worker.at = "move" /\ UNCHANGED << fed, buffer, room >>
      /\ worker'.at = "feed" /\ worker'.donut = hatchling
      /\ hatchling'.first = hatchling.first /\ hatchling'.items = << >>
  <2>1. hatchling \in Donuts /\ worker \in [at : Labels, sent : Nat, donut : Donuts]
    BY DEF LogInv, ShapeInv
  <2>2. /\ worker.at = "move" /\ UNCHANGED << fed, buffer, room >>
        /\ worker' = [worker EXCEPT !.at = "feed", !.donut = hatchling]
        /\ hatchling' = [hatchling EXCEPT !.items = << >>]
    BY DEF move_hatchling
  <2> QED
    BY <2>1, <2>2 DEF Donuts
<1>2. /\ HoldsOf(hatchling, fed) /\ Len(hatchling.items) = DonutCapacity
      /\ hatchling.first \in Nat /\ hatchling.first <= Len(fed)
  BY <1>1, SizesArePositive DEF LogInv, ShapeInv, OffsetsInv, PartsInv, HoldsOf, next_offset, Donuts
<1>3. HoldsOf(hatchling', fed)
  BY <1>1, <1>2, NothingHoldsAnything
<1>4. PartsInv'
  BY <1>1, <1>2, <1>3 DEF PartsInv, Untaken
<1>5. RoomInv'
  BY <1>1 DEF RoomInv, RoomNext
<1> QED
  BY <1>4, <1>5

LEMMA ReplaceKeepsItems ==
  ASSUME LogInv, PartsInv, RoomInv, replace_hatchling
  PROVE  PartsInv' /\ RoomInv'
<1>1. /\ worker.at = "replace" /\ UNCHANGED << fed, buffer, room >>
      /\ worker'.at \in {"append", "end"}
      /\ hatchling' = Donut(new_offset, << >>)
  BY DEF replace_hatchling, LogInv, ShapeInv, AfterPromotion
<1>2. /\ hatchling'.first = new_offset /\ hatchling'.items = << >>
      /\ new_offset \in Nat /\ new_offset <= Len(fed)
  BY <1>1, SizesArePositive
     DEF Donut, new_offset, LogInv, ShapeInv, PartsInv, HoldsOf, next_offset, Donuts
<1>3. HoldsOf(hatchling', fed)
  BY <1>2, NothingHoldsAnything
<1>4. PartsInv'
  BY <1>1, <1>3 DEF PartsInv, Untaken
<1>5. RoomInv'
  BY <1>1, <1>2 DEF RoomInv, RoomNext
<1> QED
  BY <1>4, <1>5

\* A donut that begins where the others end.
LEMMA OneMoreDonut ==
  ASSUME NEW r \in Seq(Donuts), NEW d \in Donuts, InOrder(r), HasNoGap(r),
         r # << >> => next_offset(r[Len(r)]) = d.first,
         NEW s, s = Append(r, d)
  PROVE  s \in Seq(Donuts) /\ InOrder(s) /\ HasNoGap(s) /\ s # << >> /\ s[Len(s)] = d
<1>1. /\ s \in Seq(Donuts) /\ Len(s) = Len(r) + 1 /\ s[Len(s)] = d /\ s # << >>
      /\ \A i \in 1 .. Len(r) : s[i] = r[i] /\ r[i] \in Donuts
      /\ Len(r) \in Nat
  BY AppendProperties, LenProperties
<1>2. \A e \in Donuts : next_offset(e) \in Nat /\ e.first \in Nat /\ e.first <= next_offset(e)
  BY DEF next_offset, Donuts
<1>3. InOrder(s)
  <2> SUFFICES ASSUME NEW i \in 1 .. Len(s), NEW j \in 1 .. Len(s), i < j
               PROVE  next_offset(s[i]) <= s[j].first
    BY DEF InOrder
  <2>1. i \in 1 .. Len(r)
    BY <1>1
  <2>2. CASE j \in 1 .. Len(r)
    BY <1>1, <2>1, <2>2 DEF InOrder
  <2>3. CASE j \notin 1 .. Len(r)
    <3>1. j = Len(s) /\ s[j] = d /\ Len(r) \in 1 .. Len(r) /\ r # << >>
      BY <1>1, <2>1, <2>3
    <3>2. next_offset(r[i]) <= next_offset(r[Len(r)])
      <4>1. CASE i = Len(r)
        BY <1>1, <1>2, <2>1, <4>1
      <4>2. CASE i < Len(r)
        <5>1. next_offset(r[i]) <= r[Len(r)].first
          BY <2>1, <3>1, <4>2 DEF InOrder
        <5>2. r[i] \in Donuts /\ r[Len(r)] \in Donuts
          BY <1>1, <2>1, <3>1
        <5> QED
          BY <1>2, <5>1, <5>2
      <4> QED
        BY <1>1, <2>1, <4>1, <4>2
    <3> QED
      BY <1>1, <2>1, <3>1, <3>2
  <2> QED
    BY <2>2, <2>3
<1>4. HasNoGap(s)
  <2> SUFFICES ASSUME NEW pi \in s[1].first .. next_offset(s[Len(s)]) - 1
               PROVE  \E i \in 1 .. Len(s) : contains_pi(s[i], pi)
    BY DEF HasNoGap
  <2>0. Len(s) \in 1 .. Len(s) /\ \A i \in 1 .. Len(r) : i \in 1 .. Len(s)
    BY <1>1
  <2>1. CASE d.first <= pi
    <3>1. contains_pi(s[Len(s)], pi)
      BY <1>1, <1>2, <2>1 DEF contains_pi
    <3> QED
      BY <2>0, <3>1
  <2>2. CASE ~(d.first <= pi)
    <3>1. r # << >>
      <4>1. CASE r = << >>
        <5>1. s[1] = d
          BY <1>1, <4>1
        <5>2. pi \in d.first .. next_offset(d) - 1
          BY <1>1, <5>1
        <5> QED
          BY <1>2, <2>2, <5>2
      <4> QED
        BY <4>1
    <3>2. 1 \in 1 .. Len(r) /\ s[1] = r[1]
      BY <1>1, <3>1
    <3>3. pi \in r[1].first .. next_offset(r[Len(r)]) - 1
      <4>1. r[1].first \in Nat /\ next_offset(d) \in Nat /\ d.first \in Nat
        BY <1>1, <1>2, <3>2
      <4>2. pi \in r[1].first .. next_offset(d) - 1
        BY <1>1, <3>2
      <4> QED
        BY <2>2, <3>1, <4>1, <4>2
    <3>4. PICK i \in 1 .. Len(r) : contains_pi(r[i], pi)
      BY <3>1, <3>3 DEF HasNoGap
    <3> QED
      BY <1>1, <2>0, <3>4
  <2> QED
    BY <2>1, <2>2
<1> QED
  BY <1>1, <1>3, <1>4

LEMMA FeedRoomKeepsItems ==
  ASSUME LogInv, PartsInv, RoomInv, Feed
  PROVE  PartsInv' /\ RoomInv'
<1>1. /\ worker.at = "feed" /\ UNCHANGED << fed, buffer, hatchling >>
      /\ worker'.at = "replace" /\ worker'.donut = worker.donut
      /\ room' = Append(room, worker.donut)
      /\ worker.donut \in Donuts
  BY DEF Feed, LogInv, ShapeInv
<1>2. PartsInv'
  BY <1>1 DEF PartsInv, Untaken
<1>3. /\ HoldsOf(worker.donut, fed) /\ Len(worker.donut.items) = DonutCapacity
      /\ worker.donut.first = hatchling.first
  BY <1>1 DEF PartsInv
<1>4. /\ room \in Seq(Donuts) /\ InOrder(room) /\ HasNoGap(room)
      /\ room # << >> => next_offset(room[Len(room)]) = worker.donut.first
      /\ \A i \in 1 .. Len(room) : HoldsOf(room[i], fed)
  BY <1>1, <1>3 DEF RoomInv, RoomNext
<1>5. /\ room' \in Seq(Donuts) /\ InOrder(room') /\ HasNoGap(room')
      /\ room' # << >> /\ room'[Len(room')] = worker.donut
  BY <1>1, <1>4, OneMoreDonut
<1>6. next_offset(worker.donut) = new_offset'
  BY <1>1, <1>3 DEF next_offset, new_offset
<1>7. \A i \in 1 .. Len(room') : HoldsOf(room'[i], fed)
  <2>1. /\ Len(room') = Len(room) + 1 /\ Len(room) \in Nat
        /\ \A i \in 1 .. Len(room) : room'[i] = room[i]
        /\ room'[Len(room) + 1] = worker.donut
    BY <1>1, <1>4, AppendProperties, LenProperties
  <2>2. ASSUME NEW i \in 1 .. Len(room') PROVE i \in 1 .. Len(room) \/ i = Len(room) + 1
    BY <2>1
  <2> QED
    BY <1>3, <1>4, <2>1, <2>2
<1>8. RoomInv'
  BY <1>1, <1>5, <1>6, <1>7 DEF RoomInv, RoomNext
<1> QED
  BY <1>2, <1>8

LEMMA SameItems ==
  ASSUME PartsInv, RoomInv, UNCHANGED << fed, buffer, hatchling, worker >>,
         room' = room \/ room' = << >>
  PROVE  PartsInv' /\ RoomInv'
<1>1. PartsInv'
  BY DEF PartsInv, Untaken
<1>2. CASE room' = room
  BY <1>1, <1>2 DEF RoomInv, RoomNext, new_offset
<1>3. CASE room' = << >>
  BY <1>1, <1>3 DEF RoomInv, InOrder, HasNoGap
<1> QED
  BY <1>1, <1>2, <1>3

LEMMA SameItemsAtEnds ==
  ASSUME PartsInv, RoomInv, UNCHANGED << fed, buffer, hatchling, room >>,
         worker.at \notin {"feed", "replace"}, worker'.at \notin {"feed", "replace"}
  PROVE  PartsInv' /\ RoomInv'
<1>1. PartsInv'
  BY DEF PartsInv, Untaken
<1>2. RoomInv'
  BY DEF RoomInv, RoomNext
<1> QED
  BY <1>1, <1>2

LEMMA StepItems ==
  ASSUME LogInv, PartsInv, RoomInv, [Next]_vars
  PROVE  PartsInv' /\ RoomInv'
<1>1. CASE feed_block_of_hashes
  BY <1>1, FeedKeepsItems
<1>2. CASE append_hashes
  BY <1>2, AppendKeepsItems
<1>3. CASE erase
  BY <1>3, EraseKeepsItems
<1>4. CASE move_hatchling
  BY <1>4, MoveKeepsItems
<1>5. CASE Feed
  BY <1>5, FeedRoomKeepsItems
<1>6. CASE replace_hatchling
  BY <1>6, ReplaceKeepsItems
<1>7. CASE begin_lambda \/ end_lambda
  <2>1. UNCHANGED << fed, buffer, hatchling, room >>
    BY <1>7 DEF begin_lambda, end_lambda
  <2>2. worker.at \notin {"feed", "replace"} /\ worker'.at \notin {"feed", "replace"}
    <3>1. worker.at \in Labels /\ worker = [at |-> worker.at, sent |-> worker.sent, donut |-> worker.donut]
      BY DEF LogInv, ShapeInv
    <3>2. CASE begin_lambda
      BY <3>1, <3>2 DEF begin_lambda
    <3>3. CASE end_lambda
      BY <3>1, <3>3 DEF end_lambda, Waiting
    <3> QED
      BY <1>7, <3>2, <3>3
  <2> QED
    BY <2>1, <2>2, SameItemsAtEnds
<1>8. CASE begin_Discard \/ end_Discard
  BY <1>8, SameItems DEF begin_Discard, end_Discard
<1>9. CASE Asked
  BY <1>9, SameItems DEF Asked
<1>10. CASE UNCHANGED vars
  BY <1>10, SameItems DEF vars
<1> QED
  BY <1>1, <1>2, <1>3, <1>4, <1>5, <1>6, <1>7, <1>8, <1>9, <1>10
     DEF Next, room_forward_begin, room_first_offset, room_next_offset, room_search,
         room_reverse_lookup, buffer_forward_begin, buffer_forward_lookup,
         next_offset_begin, next_offset_end, answered

\* Buffer, hatchling and every donut of the room hold what was fed under their
\* indices, and the donuts of the room follow one another without gaps up to
\* the hatchling (promote_hatchling_and_spawn_next of ingester_tier_folder.hpp),
\* for any capacity, fanout and log.
THEOREM PartsOfTheLog == Spec => [](PartsInv /\ RoomInv)
<1>1. LogInv /\ PartsInv /\ RoomInv /\ [Next]_vars => (PartsInv /\ RoomInv)'
  BY StepItems
<1>2. LookupInv => LogInv
  BY DEF LookupInv
<1> QED
  BY <1>1, <1>2, InitItems, OffsetsMeet, PTL DEF Spec

-----------------------------------------------------------------------------
(* What a lookup returns.                                                  *)

QuestionInv ==
    call.at # "idle" =>
        /\ {"op", "arg", "at", "low", "high", "value", "discarded", "consumed"} \subseteq DOMAIN call
        /\ is_discarding => call.discarded
        /\ worker.at # "wait" => call.consumed

\* What a question knows of its index until something comes between.
IndexInv ==
    call.at \notin {"idle", "done"} =>
        /\ call.op = "room_forward" =>
               /\ call.arg \in Nat
               /\ call.discarded \/ (room # << >> /\ RoomFirst <= call.arg /\ call.arg < RoomNext)
        /\ call.op = "buffer_forward" =>
               /\ call.arg \in Nat
               /\ \/ call.consumed
                  \/ first_global_pi <= call.arg /\ call.arg < first_global_pi + Len(buffer)
        /\ call.op # "room_reverse"

\* What it was told, and that the log has what it speaks of.
AnswerInv ==
    call.at = "done" =>
        /\ call.op \in {"room_forward", "buffer_forward"} =>
               \/ call.arg \in Nat /\ call.arg < Len(fed) /\ call.value = fed[call.arg + 1]
               \/ call.value = Failed /\ call.op = "room_forward" /\ call.discarded
               \/ call.value = Failed /\ call.op = "buffer_forward" /\ call.consumed
        /\ call.op = "room_reverse" =>
               /\ call.low \in Nat /\ call.high \in Nat /\ call.high <= Len(fed)
               /\ call.value = NoMatch =>
                      call.discarded \/ \A pi \in call.low .. call.high - 1 : fed[pi + 1] # call.arg
               /\ call.value # NoMatch =>
                      /\ call.value \in Nat /\ call.value < Len(fed) /\ fed[call.value + 1] = call.arg
                      /\ \A pi \in call.low .. call.value - 1 : fed[pi + 1] # call.arg

QAInv == QuestionInv /\ IndexInv /\ AnswerInv

\* A nonempty set of numbers has a least one.
LEMMA LeastNumber ==
  ASSUME NEW T \in SUBSET Nat, T # {}
  PROVE  \E n \in T : \A m \in T : n <= m
<1>1. PICK n \in T : \A m \in T : ~ (<< m, n >> \in OpToRel(<, Nat))
  BY NatLessThanWellFounded, WFMin
<1>2. \A m \in T : ~ (m < n)
  BY <1>1 DEF OpToRel
<1> QED
  BY <1>2

\* A donut returns what the log has under an index it contains.
LEMMA ItemOfDonut ==
  ASSUME NEW d \in Donuts, NEW l \in Seq(Item), HoldsOf(d, l), NEW pi \in Nat, contains_pi(d, pi)
  PROVE  /\ pi < Len(l) /\ d.items[pi - d.first + 1] = l[pi + 1]
         /\ pi - d.first + 1 \in 1 .. Len(d.items)
<1>1. /\ d.first \in Nat /\ Len(d.items) \in Nat /\ Len(l) \in Nat
      /\ d.first + Len(d.items) <= Len(l) /\ d.first <= pi /\ pi < d.first + Len(d.items)
  BY DEF HoldsOf, contains_pi, next_offset, Donuts
<1>2. /\ pi - d.first + 1 \in 1 .. Len(d.items) /\ d.first + (pi - d.first + 1) = pi + 1
      /\ pi < Len(l)
  BY <1>1
<1> QED
  BY <1>2 DEF HoldsOf

\* The first place of an item that a donut holds.
LEMMA FirstPlaceInDonut ==
  ASSUME NEW d \in Donuts, NEW h, Holds(d, h)
  PROVE  \E i \in 0 .. Len(d.items) - 1 :
            /\ reverse_lookup(d, h) = d.first + i
            /\ d.items[i + 1] = h /\ \A j \in 1 .. i : d.items[j] # h
<1> DEFINE T == {i \in 0 .. Len(d.items) - 1 : d.items[i + 1] = h}
<1>1. DOMAIN d.items = 1 .. Len(d.items) /\ Len(d.items) \in Nat
  BY DEF Donuts
<1>2. T \in SUBSET Nat
  BY <1>1
<1>3. T # {}
  <2>1. PICK i \in 1 .. Len(d.items) : d.items[i] = h
    BY <1>1 DEF Holds
  <2>2. i - 1 \in 0 .. Len(d.items) - 1 /\ (i - 1) + 1 = i
    BY <1>1
  <2> QED
    BY <2>1, <2>2
<1>4. PICK i \in T : \A j \in T : i <= j
  <2> HIDE DEF T
  <2> QED
    BY <1>2, <1>3, LeastNumber
<1>5. i \in 0 .. Len(d.items) - 1 /\ d.items[i + 1] = h
  OBVIOUS
<1>6. ASSUME NEW j \in 1 .. i PROVE d.items[j] # h
  <2>1. j - 1 \in 0 .. Len(d.items) - 1 /\ (j - 1) + 1 = j /\ ~(i <= j - 1)
    BY <1>1, <1>5
  <2> QED
    BY <1>4, <2>1
<1> DEFINE P(n) == d.items[n + 1] = h /\ \A j \in 1 .. n : d.items[j] # h
<1>7. PICK n \in 0 .. Len(d.items) - 1 : n = CHOOSE m \in 0 .. Len(d.items) - 1 : P(m)
  BY <1>5, <1>6
<1>8. P(n) /\ reverse_lookup(d, h) = d.first + n
  BY <1>5, <1>6, <1>7 DEF reverse_lookup
<1> QED
  BY <1>8

\* The oldest donut with an item.
LEMMA OldestIs ==
  ASSUME room \in Seq(Donuts), NEW h, \E i \in DOMAIN room : Holds(room[i], h)
  PROVE  /\ OldestWith(h) \in 1 .. Len(room) /\ Holds(room[OldestWith(h)], h)
         /\ \A j \in 1 .. OldestWith(h) - 1 : ~Holds(room[j], h)
<1> DEFINE T == {i \in 1 .. Len(room) : Holds(room[i], h)}
<1>1. DOMAIN room = 1 .. Len(room) /\ Len(room) \in Nat
  OBVIOUS
<1>2. T \in SUBSET Nat /\ T # {}
  BY <1>1
<1>3. PICK i \in T : \A j \in T : i <= j
  <2> HIDE DEF T
  <2> QED
    BY <1>2, LeastNumber
<1>4. ASSUME NEW j \in 1 .. i - 1 PROVE ~Holds(room[j], h)
  <2>1. j \in 1 .. Len(room) /\ ~(i <= j)
    BY <1>1, <1>2
  <2> QED
    BY <1>3, <2>1
<1> QED
  BY <1>1, <1>3, <1>4 DEF OldestWith

LEMMA InitAnswers == Init => QAInv
BY DEF Init, Idle, QAInv, QuestionInv, IndexInv, AnswerInv

-----------------------------------------------------------------------------
(* Steps of the others.                                                    *)

\* The same question, later.
SameQuestion ==
    /\ call.at = "idle" => call'.at = "idle"
    /\ call.at # "idle" =>
           /\ DOMAIN call' = DOMAIN call
           /\ call'.op = call.op /\ call'.arg = call.arg /\ call'.at = call.at
           /\ call'.low = call.low /\ call'.high = call.high /\ call'.value = call.value
           /\ call.discarded => call'.discarded
           /\ call.consumed => call'.consumed
           /\ is_discarding' => call'.discarded
           /\ worker'.at # "wait" => call'.consumed

LEMMA AnswerStays ==
  ASSUME LogInv, QAInv, Grows, SameQuestion
  PROVE  AnswerInv'
<1> SUFFICES ASSUME call'.at = "done" PROVE AnswerInv'
  BY DEF AnswerInv
<1>0. Len(fed) \in Nat /\ Len(fed') \in Nat /\ Len(fed) <= Len(fed')
  BY DEF LogInv, ShapeInv, Grows
<1>1. /\ call.at = "done" /\ call'.op = call.op /\ call'.arg = call.arg
      /\ call'.low = call.low /\ call'.high = call.high /\ call'.value = call.value
      /\ call.discarded => call'.discarded
      /\ call.consumed => call'.consumed
  BY DEF SameQuestion
<1>2. \A pi \in Nat : pi < Len(fed) => fed'[pi + 1] = fed[pi + 1] /\ pi < Len(fed')
  <2> SUFFICES ASSUME NEW pi \in Nat, pi < Len(fed)
               PROVE  fed'[pi + 1] = fed[pi + 1] /\ pi < Len(fed')
    OBVIOUS
  <2>1. pi + 1 \in 1 .. Len(fed) /\ pi < Len(fed')
    BY <1>0
  <2> QED
    BY <2>1 DEF Grows
<1>3. CASE call.op \in {"room_forward", "buffer_forward"}
  <2>1. \/ call.arg \in Nat /\ call.arg < Len(fed) /\ call.value = fed[call.arg + 1]
        \/ call.value = Failed /\ call.op = "room_forward" /\ call.discarded
        \/ call.value = Failed /\ call.op = "buffer_forward" /\ call.consumed
    BY <1>1, <1>3 DEF QAInv, AnswerInv
  <2> QED
    BY <1>1, <1>2, <1>3, <2>1 DEF AnswerInv
<1>4. CASE call.op = "room_reverse"
  <2>1. /\ call.low \in Nat /\ call.high \in Nat /\ call.high <= Len(fed)
        /\ call.value = NoMatch =>
               call.discarded \/ \A pi \in call.low .. call.high - 1 : fed[pi + 1] # call.arg
        /\ call.value # NoMatch =>
               /\ call.value \in Nat /\ call.value < Len(fed) /\ fed[call.value + 1] = call.arg
               /\ \A pi \in call.low .. call.value - 1 : fed[pi + 1] # call.arg
    BY <1>1, <1>4 DEF QAInv, AnswerInv
  <2>2. ASSUME NEW n \in Nat, n <= Len(fed), \A pi \in call.low .. n - 1 : fed[pi + 1] # call.arg
        PROVE  \A pi \in call.low .. n - 1 : fed'[pi + 1] # call.arg
    <3>1. \A pi \in call.low .. n - 1 : pi \in Nat /\ pi < Len(fed)
      BY <1>0, <2>1, <2>2
    <3> QED
      BY <1>2, <2>2, <3>1
  <2>3. call'.value = NoMatch =>
            call'.discarded \/ \A pi \in call'.low .. call'.high - 1 : fed'[pi + 1] # call'.arg
    BY <1>1, <2>1, <2>2
  <2>4. call'.value # NoMatch =>
            /\ call'.value \in Nat /\ call'.value < Len(fed') /\ fed'[call'.value + 1] = call'.arg
            /\ \A pi \in call'.low .. call'.value - 1 : fed'[pi + 1] # call'.arg
    <3>1. ASSUME call.value # NoMatch PROVE call.value <= Len(fed)
      BY <1>0, <2>1, <3>1
    <3> QED
      BY <1>1, <1>2, <2>1, <2>2, <3>1
  <2>5. NoMatch' = NoMatch /\ call'.low \in Nat /\ call'.high \in Nat /\ call'.high <= Len(fed')
    BY <1>0, <1>1, <2>1 DEF NoMatch
  <2> QED
    BY <1>1, <1>4, <2>3, <2>4, <2>5 DEF AnswerInv
<1> QED
  BY <1>1, <1>3, <1>4 DEF AnswerInv

\* What a question knows of its index stays true until a discard, or a run of
\* the lambda.
LEMMA IndexStays ==
  ASSUME QAInv, SameQuestion, LogInv, RoomInv,
         \/ is_discarding /\ is_discarding'
         \/ call.discarded /\ call.at # "idle"
         \/ room # << >> => /\ room' # << >> /\ RoomFirst' = RoomFirst
                            /\ RoomNext \in Nat /\ RoomNext' \in Nat /\ RoomNext <= RoomNext',
         \/ worker.at # "wait"
         \/ first_global_pi' = first_global_pi /\ Len(buffer) <= Len(buffer') /\ Len(buffer') \in Nat
  PROVE  IndexInv'
<1> SUFFICES ASSUME call'.at \notin {"idle", "done"} PROVE IndexInv'
  BY DEF IndexInv
<1>1. /\ call.at \notin {"idle", "done"} /\ call'.op = call.op /\ call'.arg = call.arg
      /\ call.discarded => call'.discarded
      /\ call.consumed => call'.consumed
      /\ is_discarding => call.discarded
      /\ worker.at # "wait" => call.consumed
  BY DEF SameQuestion, QAInv, QuestionInv
<1>2. ASSUME call.op = "room_forward"
      PROVE  /\ call'.arg \in Nat
             /\ call'.discarded \/ (room' # << >> /\ RoomFirst' <= call'.arg /\ call'.arg < RoomNext')
  <2>1. /\ call.arg \in Nat
        /\ call.discarded \/ (room # << >> /\ RoomFirst <= call.arg /\ call.arg < RoomNext)
    BY <1>1, <1>2 DEF QAInv, IndexInv
  <2> QED
    BY <1>1, <2>1
<1>3. ASSUME call.op = "buffer_forward"
      PROVE  /\ call'.arg \in Nat
             /\ \/ call'.consumed
                \/ first_global_pi' <= call'.arg /\ call'.arg < first_global_pi' + Len(buffer')
  <2>1. /\ call.arg \in Nat
        /\ \/ call.consumed
           \/ first_global_pi <= call.arg /\ call.arg < first_global_pi + Len(buffer)
    BY <1>1, <1>3 DEF QAInv, IndexInv
  <2>2. first_global_pi \in Nat /\ Len(buffer) \in Nat
    BY DEF LogInv, ShapeInv
  <2> QED
    BY <1>1, <2>1, <2>2
<1>4. call.op # "room_reverse"
  BY <1>1 DEF QAInv, IndexInv
<1> QED
  BY <1>1, <1>2, <1>3, <1>4 DEF IndexInv

LEMMA EndsOfRoom ==
  ASSUME RoomInv, room # << >>
  PROVE  /\ 1 \in 1 .. Len(room) /\ Len(room) \in 1 .. Len(room)
         /\ RoomFirst \in Nat /\ RoomNext \in Nat
<1>1. room \in Seq(Donuts)
  BY DEF RoomInv
<1>2. 1 \in 1 .. Len(room) /\ Len(room) \in 1 .. Len(room)
  BY <1>1
<1>3. room[1] \in Donuts /\ room[Len(room)] \in Donuts
  BY <1>1, <1>2
<1> QED
  BY <1>2, <1>3 DEF RoomFirst, RoomNext, next_offset, Donuts

\* The steps of the clients, the worker and the tier below.
LEMMA OthersKeepAnswers ==
  ASSUME LogInv, PartsInv, RoomInv, QAInv, Grows,
         \/ feed_block_of_hashes \/ begin_lambda \/ append_hashes \/ erase
         \/ move_hatchling \/ Feed \/ replace_hatchling \/ end_lambda
         \/ begin_Discard \/ end_Discard \/ UNCHANGED vars
  PROVE  QAInv'
<1>0. /\ worker \in [at : Labels, sent : Nat, donut : Donuts]
      /\ Len(buffer) \in Nat /\ Len(fed) \in Nat
  BY DEF LogInv, ShapeInv
<1>1. SameQuestion
  <2>1. CASE begin_lambda \/ begin_Discard
    <3> DEFINE later == IF begin_lambda THEN [call EXCEPT !.consumed = TRUE]
                                        ELSE [call EXCEPT !.discarded = TRUE]
    <3>1. CASE begin_lambda
      BY <3>1 DEF begin_lambda, SameQuestion, QAInv, QuestionInv
    <3>2. CASE begin_Discard
      BY <3>2 DEF begin_Discard, SameQuestion, QAInv, QuestionInv
    <3> QED
      BY <2>1, <3>1, <3>2
  <2>2. CASE feed_block_of_hashes \/ end_Discard \/ UNCHANGED vars
    BY <2>2 DEF feed_block_of_hashes, end_Discard, vars, SameQuestion, QAInv, QuestionInv
  <2>3. CASE append_hashes \/ erase \/ move_hatchling \/ Feed \/ replace_hatchling \/ end_lambda
    <3>1. worker.at # "wait" /\ UNCHANGED << call, is_discarding >>
      BY <2>3 DEF append_hashes, erase, move_hatchling, Feed, replace_hatchling, end_lambda
    <3> QED
      BY <3>1 DEF SameQuestion, QAInv, QuestionInv
  <2> QED
    BY <2>1, <2>2, <2>3
<1>2. QuestionInv'
  BY <1>1 DEF QAInv, QuestionInv, SameQuestion
<1>3. \/ worker.at # "wait"
      \/ first_global_pi' = first_global_pi /\ Len(buffer) <= Len(buffer') /\ Len(buffer') \in Nat
  <2>1. CASE feed_block_of_hashes
    <3>1. PICK k \in 1 .. MaxBlock : \E block \in [1 .. k -> Item] : buffer' = buffer \o block
      BY <2>1 DEF feed_block_of_hashes, Item
    <3>2. PICK block \in [1 .. k -> Item] : buffer' = buffer \o block
      BY <3>1
    <3>3. block \in Seq(Item) /\ buffer \in Seq(Item) /\ Len(block) \in Nat
      BY <3>1 DEF LogInv, ShapeInv
    <3>4. Len(buffer') = Len(buffer) + Len(block)
      BY <3>2, <3>3, ConcatProperties
    <3> QED
      BY <1>0, <2>1, <3>3, <3>4 DEF feed_block_of_hashes
  <2>2. CASE begin_lambda \/ begin_Discard \/ end_Discard \/ UNCHANGED vars
    BY <1>0, <2>2 DEF begin_lambda, begin_Discard, end_Discard, vars
  <2>3. CASE append_hashes \/ erase \/ move_hatchling \/ Feed \/ replace_hatchling \/ end_lambda
    BY <2>3 DEF append_hashes, erase, move_hatchling, Feed, replace_hatchling, end_lambda
  <2> QED
    BY <2>1, <2>2, <2>3
<1>4. \/ is_discarding /\ is_discarding'
      \/ call.discarded /\ call.at # "idle"
      \/ call.at = "idle"
      \/ room # << >> => /\ room' # << >> /\ RoomFirst' = RoomFirst
                         /\ RoomNext \in Nat /\ RoomNext' \in Nat /\ RoomNext <= RoomNext'
  <2>1. CASE UNCHANGED room
    <3>1. RoomNext' = RoomNext /\ RoomFirst' = RoomFirst
      BY <2>1 DEF RoomNext, RoomFirst
    <3>2. room # << >> => RoomNext \in Nat
      BY EndsOfRoom
    <3> QED
      BY <2>1, <3>1, <3>2
  <2>2. CASE end_Discard
    BY <2>2 DEF end_Discard, QAInv, QuestionInv
  <2>3. CASE Feed
    <3> SUFFICES ASSUME room # << >>
                 PROVE  /\ room' # << >> /\ RoomFirst' = RoomFirst
                        /\ RoomNext \in Nat /\ RoomNext' \in Nat /\ RoomNext <= RoomNext'
      OBVIOUS
    <3>1. /\ room' = Append(room, worker.donut) /\ worker.at = "feed"
          /\ room \in Seq(Donuts) /\ worker.donut \in Donuts
      BY <1>0, <2>3 DEF Feed, RoomInv
    <3>2. /\ Len(room') = Len(room) + 1 /\ room'[Len(room')] = worker.donut
          /\ room' # << >> /\ \A i \in 1 .. Len(room) : room'[i] = room[i]
      BY <3>1, AppendProperties, LenProperties
    <3>3. RoomFirst' = RoomFirst /\ RoomNext' = next_offset(worker.donut)
      BY <3>2, EndsOfRoom DEF RoomFirst, RoomNext
    <3>4. RoomNext = worker.donut.first
      BY <3>1 DEF RoomInv, PartsInv
    <3>5. /\ next_offset(worker.donut) \in Nat /\ worker.donut.first \in Nat
          /\ worker.donut.first <= next_offset(worker.donut)
      BY <3>1 DEF next_offset, Donuts
    <3> QED
      BY <3>2, <3>3, <3>4, <3>5
  <2> QED
    BY <2>1, <2>2, <2>3
       DEF feed_block_of_hashes, begin_lambda, append_hashes, erase, move_hatchling,
           replace_hatchling, end_lambda, begin_Discard, vars
<1>5. IndexInv'
  <2>1. CASE call.at = "idle"
    BY <1>1, <2>1 DEF SameQuestion, IndexInv
  <2>2. CASE call.at # "idle"
    BY <1>1, <1>3, <1>4, <2>2, IndexStays
  <2> QED
    BY <2>1, <2>2
<1> QED
  BY <1>1, <1>2, <1>5, AnswerStays DEF QAInv

-----------------------------------------------------------------------------
(* Steps of the question.                                                  *)

\* A question begins.
LEMMA Begins ==
  ASSUME NEW op, NEW arg, NEW at, NEW low, NEW high, QuestionInv,
         NEW q, q = Question(op, arg, at, low, high)
  PROVE  /\ {"op", "arg", "at", "low", "high", "value", "read", "discarded", "consumed"} = DOMAIN q
         /\ q.op = op /\ q.arg = arg /\ q.at = at /\ q.low = low /\ q.high = high
         /\ q.discarded = is_discarding /\ q.consumed = (worker.at # "wait")
BY DEF Question

LEMMA BeginsForward ==
  ASSUME LogInv, RoomInv, QAInv, room_forward_begin \/ buffer_forward_begin
  PROVE  QAInv'
<1>0. UNCHANGED << fed, buffer, first_global_pi, hatchling, room, is_discarding, worker >>
  BY DEF room_forward_begin, buffer_forward_begin, Asked
<1>1. CASE room_forward_begin
  <2>1. PICK pi \in RoomFirst .. RoomNext - 1 : call' = Question("room_forward", pi, "first", 0, 0)
    BY <1>1 DEF room_forward_begin
  <2>2. room # << >> /\ RoomFirst \in Nat /\ RoomNext \in Nat
    BY <1>1, EndsOfRoom DEF room_forward_begin, RoomIsThere
  <2>3. /\ {"op", "arg", "at", "low", "high", "value", "discarded", "consumed"} \subseteq DOMAIN call'
        /\ call'.op = "room_forward" /\ call'.arg = pi /\ call'.at = "first"
        /\ call'.discarded = is_discarding /\ call'.consumed = (worker.at # "wait")
    BY <2>1 DEF Question
  <2>4. pi \in Nat /\ RoomFirst <= pi /\ pi < RoomNext
    BY <2>2
  <2>5. RoomFirst' = RoomFirst /\ RoomNext' = RoomNext
    BY <1>0 DEF RoomFirst, RoomNext
  <2> QED
    BY <1>0, <2>2, <2>3, <2>4, <2>5 DEF QAInv, QuestionInv, IndexInv, AnswerInv
<1>2. CASE buffer_forward_begin
  <2>1. PICK pi \in first_global_pi .. (first_global_pi + Len(buffer)) - 1 :
           call' = Question("buffer_forward", pi, "locked", 0, 0)
    BY <1>2 DEF buffer_forward_begin
  <2>2. first_global_pi \in Nat /\ Len(buffer) \in Nat
    BY DEF LogInv, ShapeInv
  <2>3. /\ {"op", "arg", "at", "low", "high", "value", "discarded", "consumed"} \subseteq DOMAIN call'
        /\ call'.op = "buffer_forward" /\ call'.arg = pi /\ call'.at = "locked"
        /\ call'.discarded = is_discarding /\ call'.consumed = (worker.at # "wait")
    BY <2>1 DEF Question
  <2>4. pi \in Nat /\ first_global_pi <= pi /\ pi < first_global_pi + Len(buffer)
    BY <2>2
  <2> QED
    BY <1>0, <2>3, <2>4 DEF QAInv, QuestionInv, IndexInv, AnswerInv
<1> QED
  BY <1>1, <1>2

\* A step of a question that is under way changes where it is and what it
\* will answer.
Steps(at) ==
    /\ DOMAIN call' = DOMAIN call
    /\ call'.op = call.op /\ call'.arg = call.arg /\ call'.at = at
    /\ call'.discarded = call.discarded /\ call'.consumed = call.consumed

LEMMA AnswerIs ==
  ASSUME QAInv, call.at # "idle", NEW value, Answer(value)
  PROVE  Steps("done") /\ call'.value = value
BY DEF Answer, Steps, QAInv, QuestionInv

\* The index is still there, or the assertion fails after a discard.
LEMMA RoomStepsForward ==
  ASSUME LogInv, RoomInv, QAInv, room_first_offset \/ room_next_offset
  PROVE  QAInv'
<1>0. /\ UNCHANGED << fed, buffer, first_global_pi, hatchling, room, is_discarding, worker >>
      /\ call.op = "room_forward" /\ call.at \in {"first", "next"}
  BY DEF room_first_offset, room_next_offset, Asked
<1>1. /\ {"op", "arg", "at", "low", "high", "value", "discarded", "consumed"} \subseteq DOMAIN call
      /\ is_discarding => call.discarded
      /\ worker.at # "wait" => call.consumed
      /\ call.arg \in Nat
      /\ call.discarded \/ (room # << >> /\ RoomFirst <= call.arg /\ call.arg < RoomNext)
  BY <1>0 DEF QAInv, QuestionInv, IndexInv
<1>2. \/ \E at \in {"next", "search"} : call' = [call EXCEPT !.at = at]
      \/ Answer(Failed) /\ call.discarded
  BY <1>0, <1>1 DEF room_first_offset, room_next_offset, RoomIsThere
<1>3. CASE \E at \in {"next", "search"} : call' = [call EXCEPT !.at = at]
  <2>1. PICK at \in {"next", "search"} : Steps(at)
    BY <1>1, <1>3 DEF Steps
  <2>2. RoomFirst' = RoomFirst /\ RoomNext' = RoomNext
    BY <1>0 DEF RoomFirst, RoomNext
  <2> QED
    BY <1>0, <1>1, <2>1, <2>2 DEF Steps, QAInv, QuestionInv, IndexInv, AnswerInv
<1>4. CASE Answer(Failed) /\ call.discarded
  <2>1. Steps("done") /\ call'.value = Failed
    BY <1>0, <1>4, AnswerIs
  <2> QED
    BY <1>0, <1>1, <1>4, <2>1 DEF Steps, QAInv, QuestionInv, IndexInv, AnswerInv
<1> QED
  BY <1>2, <1>3, <1>4

\* An answer to a question for an index, given under the conditions promised.
LEMMA ForwardAnswer ==
  ASSUME QAInv, Asked, call.op \in {"room_forward", "buffer_forward"}, call.at # "idle",
         NEW value, Answer(value),
         \/ call.arg \in Nat /\ call.arg < Len(fed) /\ value = fed[call.arg + 1]
         \/ value = Failed /\ call.op = "room_forward" /\ call.discarded
         \/ value = Failed /\ call.op = "buffer_forward" /\ call.consumed
  PROVE  QAInv'
<1>1. Steps("done") /\ call'.value = value
  BY AnswerIs
<1>2. UNCHANGED << fed, is_discarding, worker >>
  BY DEF Asked
<1> QED
  BY <1>1, <1>2 DEF Steps, QAInv, QuestionInv, IndexInv, AnswerInv

LEMMA RoomAnswersForward ==
  ASSUME LogInv, RoomInv, QAInv, room_search
  PROVE  QAInv'
<1> DEFINE found == {i \in DOMAIN room : contains_pi(room[i], call.arg)}
<1>0. /\ call.op = "room_forward" /\ call.at = "search" /\ Asked
      /\ IF is_discarding \/ found = {} THEN Answer(Failed)
         ELSE LET d == room[CHOOSE i \in found : \A j \in found : j <= i]
              IN  Answer(d.items[call.arg - d.first + 1])
  BY DEF room_search
<1>1. /\ is_discarding => call.discarded
      /\ call.arg \in Nat
      /\ call.discarded \/ (room # << >> /\ RoomFirst <= call.arg /\ call.arg < RoomNext)
  BY <1>0 DEF QAInv, QuestionInv, IndexInv
<1>2. room \in Seq(Donuts) /\ DOMAIN room = 1 .. Len(room) /\ fed \in Seq(Item) /\ Len(room) \in Nat
  BY DEF RoomInv, LogInv, ShapeInv
<1>3. CASE is_discarding \/ found = {}
  <2>1. call.discarded
    <3>1. CASE found = {} /\ ~call.discarded
      <4>1. call.arg \in RoomFirst .. RoomNext - 1 /\ room # << >>
        BY <1>1, <3>1, EndsOfRoom
      <4>2. PICK i \in 1 .. Len(room) : contains_pi(room[i], call.arg)
        BY <4>1 DEF RoomInv, HasNoGap, RoomFirst, RoomNext
      <4> QED
        BY <1>2, <3>1, <4>2
    <3> QED
      BY <1>1, <1>3, <3>1
  <2>2. Answer(Failed)
    BY <1>0, <1>3
  <2> QED
    BY <1>0, <2>1, <2>2, ForwardAnswer
<1>4. CASE ~(is_discarding \/ found = {})
  <2>1. PICK i \in found : TRUE
    BY <1>4
  <2>2. ASSUME NEW j \in found PROVE j = i
    <3>1. /\ i \in 1 .. Len(room) /\ j \in 1 .. Len(room)
          /\ contains_pi(room[i], call.arg) /\ contains_pi(room[j], call.arg)
          /\ room[i] \in Donuts /\ room[j] \in Donuts
      BY <1>2, <2>1
    <3>2. ~(i < j) /\ ~(j < i)
      BY <1>1, <3>1 DEF RoomInv, InOrder, contains_pi, next_offset, Donuts
    <3> QED
      BY <3>1, <3>2
  <2>3. i \in 1 .. Len(room) /\ contains_pi(room[i], call.arg)
    BY <1>2, <2>1
  <2> HIDE DEF found
  <2>4. i = CHOOSE k \in found : \A j \in found : j <= k
    <3>1. i \in found /\ i <= i /\ \A j \in found : j = i
      BY <1>2, <2>1, <2>2, <2>3
    <3>2. \A j \in found : j <= i
      BY <3>1
    <3> QED
      BY <3>1, <3>2
  <2>5. Answer(room[i].items[call.arg - room[i].first + 1])
    BY <1>0, <1>4, <2>4
  <2>6. room[i] \in Donuts /\ HoldsOf(room[i], fed)
    BY <1>2, <2>3 DEF RoomInv
  <2>7. /\ call.arg < Len(fed)
        /\ room[i].items[call.arg - room[i].first + 1] = fed[call.arg + 1]
    BY <1>1, <1>2, <2>3, <2>6, ItemOfDonut
  <2> QED
    BY <1>0, <1>1, <2>5, <2>7, ForwardAnswer
<1> QED
  BY <1>3, <1>4

LEMMA BufferAnswersForward ==
  ASSUME LogInv, PartsInv, QAInv, buffer_forward_lookup
  PROVE  QAInv'
<1>0. /\ call.op = "buffer_forward" /\ call.at = "locked" /\ worker.at = "wait" /\ Asked
      /\ LET d == Donut(first_global_pi, buffer)
         IN  IF contains_pi(d, call.arg) THEN Answer(buffer[call.arg - d.first + 1])
                                         ELSE Answer(Failed)
  BY DEF buffer_forward_lookup
<1>1. /\ call.arg \in Nat
      /\ \/ call.consumed
         \/ first_global_pi <= call.arg /\ call.arg < first_global_pi + Len(buffer)
  BY <1>0 DEF QAInv, IndexInv
<1> DEFINE d == Donut(first_global_pi, buffer)
<1>2. d.first = first_global_pi /\ d.items = buffer /\ d \in Donuts /\ fed \in Seq(Item)
  BY DEF Donut, Donuts, LogInv, ShapeInv
<1>3. HoldsOf(d, fed)
  <2>1. first_global_pi = Untaken /\ Len(fed) \in Nat /\ Len(buffer) \in Nat
    BY <1>0 DEF LogInv, OffsetsInv, ShapeInv
  <2>2. first_global_pi + Len(buffer) <= Len(fed)
    BY <2>1 DEF Untaken
  <2>3. \A i \in 1 .. Len(buffer) : buffer[i] = fed[first_global_pi + i]
    BY <2>1 DEF PartsInv
  <2> HIDE DEF d
  <2> QED
    BY <1>2, <2>2, <2>3 DEF HoldsOf, next_offset
<1>4. IF contains_pi(d, call.arg) THEN Answer(d.items[call.arg - d.first + 1]) ELSE Answer(Failed)
  BY <1>0, <1>2
<1> HIDE DEF d
<1>5. CASE contains_pi(d, call.arg)
  <2>1. call.arg < Len(fed) /\ d.items[call.arg - d.first + 1] = fed[call.arg + 1]
    BY <1>1, <1>2, <1>3, <1>5, ItemOfDonut
  <2>2. Answer(d.items[call.arg - d.first + 1])
    BY <1>4, <1>5
  <2> QED
    BY <1>0, <1>1, <2>1, <2>2, ForwardAnswer
<1>6. CASE ~contains_pi(d, call.arg)
  <2>1. call.consumed
    BY <1>1, <1>2, <1>6 DEF contains_pi, next_offset
  <2> QED
    BY <1>0, <1>4, <1>6, <2>1, ForwardAnswer
<1> QED
  BY <1>5, <1>6

\* The first place of a hash in the room: older donuts do not have it, nor
\* has its donut before.
LEMMA RoomAnswersReverse ==
  ASSUME LogInv, PartsInv, RoomInv, QAInv, room_reverse_lookup
  PROVE  QAInv'
<1> DEFINE low == IF RoomIsThere THEN RoomFirst ELSE 0
           high == IF RoomIsThere THEN RoomNext ELSE 0
<1>1. PICK h \in Hashes :
        LET found == ~is_discarding /\ \E i \in DOMAIN room : Holds(room[i], h)
        IN  call' = [Question("room_reverse", h, "done", low, high)
                     EXCEPT !.value = IF found THEN reverse_lookup(room[OldestWith(h)], h)
                                               ELSE NoMatch]
  BY DEF room_reverse_lookup
<1> DEFINE found == ~is_discarding /\ \E i \in DOMAIN room : Holds(room[i], h)
           value == IF found THEN reverse_lookup(room[OldestWith(h)], h) ELSE NoMatch
<1>2. /\ {"op", "arg", "at", "low", "high", "value", "discarded", "consumed"} \subseteq DOMAIN call'
      /\ call'.op = "room_reverse" /\ call'.arg = h /\ call'.at = "done"
      /\ call'.low = low /\ call'.high = high /\ call'.value = value
      /\ call'.discarded = is_discarding /\ call'.consumed = (worker.at # "wait")
  BY <1>1 DEF Question
<1>3. UNCHANGED << fed, is_discarding, worker >> /\ NoMatch' = NoMatch
  BY DEF room_reverse_lookup, Asked, NoMatch
<1>4. /\ room \in Seq(Donuts) /\ DOMAIN room = 1 .. Len(room) /\ Len(room) \in Nat
      /\ fed \in Seq(Item) /\ Len(fed) \in Nat
      /\ \A i \in 1 .. Len(room) : room[i] \in Donuts /\ HoldsOf(room[i], fed)
  BY DEF RoomInv, LogInv, ShapeInv
<1>5. ASSUME RoomIsThere
      PROVE  /\ low = RoomFirst /\ high = RoomNext /\ low \in Nat /\ high \in Nat
             /\ high <= Len(fed)
             /\ \A pi \in low .. high - 1 : \E i \in 1 .. Len(room) : contains_pi(room[i], pi)
  <2>1. room # << >> /\ low = RoomFirst /\ high = RoomNext
    BY <1>5 DEF RoomIsThere
  <2>2. RoomNext <= Len(fed)
    BY <1>4, <2>1, EndsOfRoom DEF HoldsOf, RoomNext
  <2> QED
    BY <2>1, <2>2, EndsOfRoom DEF RoomInv, HasNoGap, RoomFirst, RoomNext
<1>6. low \in Nat /\ high \in Nat /\ high <= Len(fed)
  BY <1>4, <1>5
<1>7. CASE ~found
  <2>1. value = NoMatch
    BY <1>7
  <2>2. CASE is_discarding
    BY <1>2, <1>3, <1>6, <2>1, <2>2 DEF QAInv, QuestionInv, IndexInv, AnswerInv
  <2>3. CASE ~is_discarding
    <3>1. ASSUME NEW pi \in low .. high - 1 PROVE fed[pi + 1] # h
      <4>1. RoomIsThere
        BY <1>4, <3>1 DEF RoomIsThere
      <4>2. pi \in Nat
        BY <1>6
      <4>3. PICK i \in 1 .. Len(room) : contains_pi(room[i], pi)
        BY <1>5, <4>1
      <4>4. /\ room[i].items[pi - room[i].first + 1] = fed[pi + 1]
            /\ pi - room[i].first + 1 \in 1 .. Len(room[i].items)
        BY <1>4, <4>2, <4>3, ItemOfDonut
      <4>5. ~Holds(room[i], h) /\ DOMAIN room[i].items = 1 .. Len(room[i].items)
        <5>1. \A k \in DOMAIN room : ~Holds(room[k], h)
          BY <1>7, <2>3
        <5>2. room[i] \in Donuts
          BY <1>4
        <5>3. DOMAIN room[i].items = 1 .. Len(room[i].items)
          BY <5>2 DEF Donuts
        <5>4. i \in DOMAIN room
          BY <1>4
        <5> QED
          BY <5>1, <5>3, <5>4, Zenon
      <4> QED
        BY <4>4, <4>5 DEF Holds
    <3> HIDE DEF low, high, found, value
    <3> QED
      BY <1>2, <1>3, <1>6, <2>1, <2>3, <3>1 DEF QAInv, QuestionInv, IndexInv, AnswerInv
  <2> QED
    BY <2>2, <2>3
<1>8. CASE found
  <2> DEFINE o == OldestWith(h)
  <2>1. o \in 1 .. Len(room) /\ Holds(room[o], h) /\ \A j \in 1 .. o - 1 : ~Holds(room[j], h)
    BY <1>4, <1>8, OldestIs
  <2>2. RoomIsThere
    BY <1>4, <1>8 DEF RoomIsThere
  <2> DEFINE d == room[o]
  <2>3. value = reverse_lookup(d, h) /\ d \in Donuts /\ HoldsOf(d, fed)
    BY <1>4, <1>8, <2>1
  <2> HIDE DEF o
  <2>4. PICK i \in 0 .. Len(d.items) - 1 :
           /\ value = d.first + i /\ d.items[i + 1] = h /\ \A j \in 1 .. i : d.items[j] # h
    <3> HIDE DEF d, value, found
    <3> QED
      BY <2>1, <2>3, FirstPlaceInDonut DEF d
  <2> HIDE DEF value, found, low, high
  <2>5. /\ d.first \in Nat /\ Len(d.items) \in Nat /\ i \in Nat /\ i < Len(d.items)
        /\ value \in Nat /\ contains_pi(d, value)
    BY <2>3, <2>4 DEF Donuts, contains_pi, next_offset
  <2>6. value < Len(fed) /\ fed[value + 1] = h
    <3>1. /\ value < Len(fed) /\ d.items[value - d.first + 1] = fed[value + 1]
      BY <1>4, <2>3, <2>5, ItemOfDonut
    <3>2. value - d.first + 1 = i + 1
      BY <2>4, <2>5
    <3> QED
      BY <2>4, <3>1, <3>2
  <2>7. ASSUME NEW pi \in low .. value - 1 PROVE fed[pi + 1] # h
    <3>0. pi \in Nat /\ pi < value /\ low <= pi
      BY <1>6, <2>5
    <3>1. PICK j \in 1 .. Len(room) : contains_pi(room[j], pi)
      <4>1. o \in 1 .. Len(room) /\ next_offset(d) <= high
        <5>1. o \in 1 .. Len(room) /\ Len(room) \in 1 .. Len(room)
          BY <1>4, <2>1
        <5>2. CASE o = Len(room)
          BY <1>5, <2>2, <2>3, <5>1, <5>2 DEF RoomNext, next_offset, Donuts
        <5>3. CASE o < Len(room)
          <6>1. next_offset(d) <= room[Len(room)].first /\ room[Len(room)] \in Donuts
            BY <1>4, <5>1, <5>3 DEF RoomInv, InOrder
          <6>2. next_offset(d) \in Nat
            BY <2>3 DEF next_offset, Donuts
          <6> QED
            BY <1>5, <2>2, <5>1, <6>1, <6>2 DEF RoomNext, next_offset, Donuts
        <5>4. o = Len(room) \/ o < Len(room)
          <6>1. \A n \in Nat : \A p \in 1 .. n : p = n \/ p < n
            OBVIOUS
          <6>2. Len(room) \in Nat /\ o \in 1 .. Len(room)
            BY <1>4, <5>1
          <6> QED
            BY ONLY <6>1, <6>2
        <5> QED
          BY <5>2, <5>3, <5>4
      <4>2. pi < next_offset(d) /\ next_offset(d) \in Nat
        BY <2>3, <2>5, <3>0 DEF contains_pi, next_offset, Donuts
      <4>3. pi \in low .. high - 1
        BY <1>6, <3>0, <4>1, <4>2
      <4> QED
        BY <1>5, <2>2, <4>3
    <3>2. room[j] \in Donuts /\ HoldsOf(room[j], fed)
      BY <1>4
    <3> DEFINE k == pi - room[j].first + 1
    <3>3. room[j].items[k] = fed[pi + 1] /\ k \in 1 .. Len(room[j].items)
      BY <1>4, <3>0, <3>1, <3>2, ItemOfDonut
    <3>4. ~(o < j)
      <4>1. CASE o < j
        <5>1. next_offset(d) <= room[j].first
          BY <2>1, <4>1 DEF RoomInv, InOrder
        <5> QED
          BY <2>3, <2>5, <3>0, <3>1, <3>2, <5>1 DEF contains_pi, next_offset, Donuts
      <4> QED
        BY <4>1
    <3>5. CASE j < o
      <4>1. ~Holds(room[j], h) /\ DOMAIN room[j].items = 1 .. Len(room[j].items)
        BY <2>1, <3>2, <3>5 DEF Donuts
      <4> QED
        BY <3>3, <4>1 DEF Holds
    <3>6. CASE j = o
      <4>1. k \in 1 .. i
        BY <2>3, <2>4, <2>5, <3>0, <3>1, <3>2, <3>6 DEF contains_pi, Donuts
      <4> QED
        BY <2>4, <3>3, <3>6, <4>1
    <3> QED
      BY <1>4, <2>1, <3>4, <3>5, <3>6
  <2>8. value # NoMatch
    <3>1. Len(fed) <= MaxFed /\ MaxFed \in Nat
      BY BoundsAreNumbers DEF PartsInv
    <3>2. DonutCapacity * Fanout \in Nat
      BY SizesArePositive
    <3> DEFINE n == DonutCapacity * Fanout
    <3>3. NoMatch = MaxFed + n
      BY DEF NoMatch
    <3> HIDE DEF n
    <3> QED
      BY <1>4, <2>5, <2>6, <3>1, <3>2, <3>3 DEF n
  <2> QED
    BY <1>2, <1>3, <1>6, <2>5, <2>6, <2>7, <2>8 DEF QAInv, QuestionInv, IndexInv, AnswerInv
<1> QED
  BY <1>7, <1>8

\* Questions for an offset are the matter of CallInv.
LEMMA OffsetsKeepAnswers ==
  ASSUME QAInv, next_offset_begin \/ next_offset_end \/ answered
  PROVE  QAInv'
<1>1. CASE next_offset_begin
  <2>1. PICK of, part, n :
          call' = [Question("next_offset", of, part, n, 0) EXCEPT !.read = OffsetParts(of)[part]]
    BY <1>1 DEF next_offset_begin
  <2>2. /\ {"op", "arg", "at", "low", "high", "value", "discarded", "consumed"} \subseteq DOMAIN call'
        /\ call'.op = "next_offset"
        /\ call'.discarded = is_discarding /\ call'.consumed = (worker.at # "wait")
    BY <2>1 DEF Question
  <2> QED
    BY <1>1, <2>2 DEF next_offset_begin, Asked, QAInv, QuestionInv, IndexInv, AnswerInv
<1>2. CASE next_offset_end
  <2>1. PICK value : Answer(value)
    BY <1>2 DEF next_offset_end
  <2>2. call.op = "next_offset" /\ call.at # "idle" /\ Asked
    BY <1>2 DEF next_offset_end
  <2>3. Steps("done")
    BY <2>1, <2>2, AnswerIs
  <2> QED
    BY <2>2, <2>3 DEF Asked, Steps, QAInv, QuestionInv, IndexInv, AnswerInv
<1>3. CASE answered
  BY <1>3 DEF answered, Idle, QAInv, QuestionInv, IndexInv, AnswerInv
<1> QED
  BY <1>1, <1>2, <1>3

LEMMA StepAnswers ==
  ASSUME LogInv, PartsInv, RoomInv, QAInv, [Next]_vars
  PROVE  QAInv'
<1>1. Grows
  BY LogGrows
<1>2. CASE \/ feed_block_of_hashes \/ begin_lambda \/ append_hashes \/ erase
           \/ move_hatchling \/ Feed \/ replace_hatchling \/ end_lambda
           \/ begin_Discard \/ end_Discard \/ UNCHANGED vars
  BY <1>1, <1>2, OthersKeepAnswers
<1>3. CASE room_forward_begin \/ buffer_forward_begin
  BY <1>3, BeginsForward
<1>4. CASE room_first_offset \/ room_next_offset
  BY <1>4, RoomStepsForward
<1>5. CASE room_search
  BY <1>5, RoomAnswersForward
<1>6. CASE buffer_forward_lookup
  BY <1>6, BufferAnswersForward
<1>7. CASE room_reverse_lookup
  BY <1>7, RoomAnswersReverse
<1>8. CASE next_offset_begin \/ next_offset_end \/ answered
  BY <1>8, OffsetsKeepAnswers
<1> QED
  BY <1>2, <1>3, <1>4, <1>5, <1>6, <1>7, <1>8 DEF Next

\* What a lookup of buffer or room returns is what was fed, whatever the
\* worker and the tier below do between its steps (lookupable_buffer_room.hpp,
\* ingester_buffer.hpp); an assertion of theirs fails only after a discard or
\* a lambda.
THEOREM LookupsAlwaysAnswerFromLog == Spec => []LookupsAnswerFromLog
<1>1. LogInv /\ PartsInv /\ RoomInv /\ QAInv /\ [Next]_vars => QAInv'
  BY StepAnswers
<1>2. QAInv => LookupsAnswerFromLog
  BY DEF QAInv, AnswerInv, LookupsAnswerFromLog
<1>3. LookupInv => LogInv
  BY DEF LookupInv
<1> QED
  BY <1>1, <1>2, <1>3, InitAnswers, OffsetsMeet, PartsOfTheLog, PTL DEF Spec

=============================================================================

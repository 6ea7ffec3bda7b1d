----------------------------- MODULE SharedBatch -----------------------------
(***************************************************************************)
(* What a BufferRoom promises to those who use it, without its locks: a    *)
(* batch that fills one item at a time up to a capacity, that any number   *)
(* of viewers may look at, that a batch viewer sees only when it is full,  *)
(* that never changes under the eyes of a viewer, and that is emptied as a *)
(* whole.                                                                  *)
(***************************************************************************)
EXTENDS Naturals, Sequences

CONSTANTS
    BatchViewers,  \* those who wait for a full batch
    PointViewers,  \* those who look at whatever is there
    Capacity

VARIABLES
    contents,   \* the items of the batch, numbered in the order of arrival
    arrivals,   \* how many items ever arrived
    viewers     \* who is looking

batch == << contents, arrivals, viewers >>

Init ==
    /\ \E k \in 0 .. Capacity : contents = [i \in 1 .. k |-> i] /\ arrivals = k
    /\ viewers = {}

Arrive ==
    /\ viewers = {}
    /\ Len(contents) < Capacity
    /\ arrivals' = arrivals + 1
    /\ contents' = Append(contents, arrivals')
    /\ UNCHANGED viewers

BeginView(v) ==
    /\ v \notin viewers
    /\ v \in BatchViewers => Len(contents) = Capacity
    /\ viewers' = viewers \cup {v}
    /\ UNCHANGED << contents, arrivals >>

EndView(v) ==
    /\ v \in viewers
    /\ viewers' = viewers \ {v}
    /\ UNCHANGED << contents, arrivals >>

Empty ==
    /\ viewers = {}
    /\ contents' = << >>
    /\ UNCHANGED << arrivals, viewers >>

Next ==
    \/ Arrive
    \/ Empty
    \/ \E v \in BatchViewers \cup PointViewers : BeginView(v) \/ EndView(v)

Spec == Init /\ [][Next]_batch

=============================================================================

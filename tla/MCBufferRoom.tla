---------------------------- MODULE MCBufferRoom ----------------------------
(***************************************************************************)
(* Instances of BufferRoom for TLC.  The threads are model values; every   *)
(* bound is a number in the configuration.                                 *)
(***************************************************************************)
EXTENDS BufferRoom, TLC

CONSTANTS p1, p2, w1, r1, d1

TwoProducers == {p1, p2}
OneProducer  == {p1}
OneWorker    == {w1}
OneReader    == {r1}
OneDiscarder == {d1}
NoThreads    == {}

=============================================================================

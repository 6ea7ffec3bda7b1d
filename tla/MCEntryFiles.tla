---------------------------- MODULE MCEntryFiles ----------------------------
(***************************************************************************)
(* Instances of EntryFiles for TLC.  A byte has two bits and a hash two    *)
(* bytes, so that a prefix of one bit shares a byte with the suffix, one   *)
(* of two bits is a whole byte and one of three bits is both.              *)
(***************************************************************************)
EXTENDS EntryFiles

\* All bits, and one that is not symmetric.
TwoHashes == {<< {0, 1}, {0, 1} >>, << {1}, {0} >>}

=============================================================================

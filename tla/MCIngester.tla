----------------------------- MODULE MCIngester -----------------------------
(***************************************************************************)
(* Instances of Ingester for TLC.  The threads and the hashes are model    *)
(* values; every bound is a number in the configuration.                   *)
(***************************************************************************)
EXTENDS Ingester

CONSTANTS c1, c2, h1

TwoClients == {c1, c2}
OneHash    == {h1}

=============================================================================

---------------------------- MODULE MCShallowTree ----------------------------
(***************************************************************************)
(* Instances of ShallowTree for TLC: every bound is in the configuration.  *)
(***************************************************************************)
EXTENDS ShallowTree

=============================================================================

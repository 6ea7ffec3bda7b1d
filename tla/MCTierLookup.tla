---------------------------- MODULE MCTierLookup ----------------------------
(***************************************************************************)
(* Instances of TierLookup for TLC.                                        *)
(***************************************************************************)
EXTENDS TierLookup

=============================================================================

------------------------------ MODULE MCTierDisk ------------------------------
(* TierDisk on small instances. *)
EXTENDS TierDisk, TLC

CONSTANTS h1, h2

TwoHashes == {h1, h2}

OneHash == {h1}

HashSymmetry == Permutations({h1, h2})

=============================================================================

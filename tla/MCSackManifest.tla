--------------------------- MODULE MCSackManifest ---------------------------
(* Instances of SackManifest for TLC. *)
EXTENDS SackManifest
=============================================================================

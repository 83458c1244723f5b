----------------------------- MODULE MCSharing ------------------------------
(* Small instances of Sharing for TLC. *)
EXTENDS Sharing, TLC
=============================================================================

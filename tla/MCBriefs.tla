------------------------------ MODULE MCBriefs ------------------------------
(* Small instances of Briefs for TLC. *)
EXTENDS Briefs, TLC

CONSTANTS busy, calm, r1, r2, r3, s1, s2

\* Reports of two outlets; r3 may join busy, any of whose reports may leave.
MCOf == (r1 :> busy) @@ (r2 :> busy) @@ (r3 :> busy) @@ (s1 :> calm) @@ (s2 :> calm)
MCOutlet == (r1 :> "wire") @@ (r2 :> "paper") @@ (r3 :> "paper") @@ (s1 :> "wire") @@ (s2 :> "paper")
=============================================================================

----------------------------- MODULE MCDiscussion -----------------------------
(* Small instances of Discussion for TLC. *)
EXTENDS Discussion

CONSTANTS claude, codex, pi

MCCast == [a \in Owners |-> CASE a = claude -> {"block", "consent"}
                               [] a = codex  -> {"consent"}
                               [] OTHER      -> {"agree"}]
=============================================================================

----------------------------- MODULE MCMkdirLock -----------------------------
(* Small instances of MkdirLock for TLC. *)
EXTENDS MkdirLock, TLC

Slots == Permutations(Procs)
=============================================================================

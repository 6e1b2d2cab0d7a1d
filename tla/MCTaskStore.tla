----------------------------- MODULE MCTaskStore -----------------------------
(* Small instances of TaskStore for TLC. *)
EXTENDS TaskStore, TLC

Processes == Permutations(Writers)
=============================================================================

-------------------------- MODULE MCOperatorCommands --------------------------
(* Small instances of OperatorCommands and WatcherSingleton for TLC. *)
EXTENDS OperatorCommands

CONSTANTS w1, w2, m1, m2, c1

MCKind == [c \in Cmds |-> CASE c = m1 -> "approve"
                            [] c = m2 -> "close"
                            [] OTHER  -> "reject"]
=============================================================================

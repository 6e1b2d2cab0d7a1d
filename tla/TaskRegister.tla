---------------------------- MODULE TaskRegister ----------------------------
(***************************************************************************)
(* What writers of a task's status promise one another: the status is one   *)
(* register, and each write is a move that is allowed from the status it    *)
(* overwrites, never from one that was read earlier.                        *)
(***************************************************************************)
EXTENDS Lifecycle

CONSTANT Allowed   \* [TaskStatuses -> SUBSET TaskStatuses], the allowed moves

VARIABLE status

Init == status \in TaskStatuses

Move == status' \in Allowed[status]

Spec == Init /\ [][Move]_status
=============================================================================

------------------------------ MODULE MCTaskFlow ------------------------------
(* A small instance of TaskFlow for TLC. *)
EXTENDS TaskFlow

CONSTANTS claude, codex

\* New, and planned once: put back to todo with its contract locked.
MCBegin == {Plain("todo"), [Plain("todo") EXCEPT !.locked = TRUE],
            [Plain("in_progress") EXCEPT !.locked = TRUE]}

MCDashMoves == {<<"plan_proposed", "plan_approved">>, <<"todo", "plan_proposed">>}
=============================================================================

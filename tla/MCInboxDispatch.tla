--------------------------- MODULE MCInboxDispatch ---------------------------
(* Small instances of InboxDispatch for TLC. *)
EXTENDS InboxDispatch, TLC

CONSTANTS t1, claude, codex, pi, d1, d2

\* One task of claude: approved, in progress, or reviewed.
MCApproved == t1 :> [status |-> "plan_approved", owner |-> claude]
MCInProgress == t1 :> [status |-> "in_progress", owner |-> claude]
MCReviewed == t1 :> [status |-> "review_passed", owner |-> claude]

Dispatchers == Permutations(Slots)
=============================================================================

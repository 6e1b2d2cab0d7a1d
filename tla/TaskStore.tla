------------------------------ MODULE TaskStore ------------------------------
(***************************************************************************)
(* Writers of one row of the table tasks, each a process with a connection  *)
(* of its own: the status and the version column that engine/tasks_dao.py   *)
(* update compares and increments. A writer reads the row, decides, and     *)
(* writes in a later statement; others may write in between.                *)
(***************************************************************************)
EXTENDS Lifecycle, Naturals

CONSTANTS
    Writers,      \* processes
    Kinds,        \* the kinds of writer that are about
    MaxVersion    \* BOUND: writes

\* caller: set_task_status or status_update. command: an operator's approve or
\* reject. gc: the cleaner of stuck waiting_input tasks. escalate: the watcher
\* giving a task to the user.
AllKinds == {"caller", "command", "gc", "escalate"}

ASSUME KindsAssumption == Kinds \subseteq AllKinds
ASSUME VersionAssumption == MaxVersion \in Nat

VARIABLES
    status,    \* tasks.status
    version,   \* tasks.version
    w          \* what each writer is about to write

vars == <<status, version, w>>

\* seen: the status the decision was taken on. ver: the version read with it,
\* or re-read later. tries: attempts of _with_task_lock that met a conflict.
Writer == [pc : {"idle", "read", "write"}, kind : AllKinds, seen : TaskStatuses,
           to : TaskStatuses, ver : Nat, tries : {0, 1}]

Rest == [pc |-> "idle", kind |-> "caller", seen |-> "todo", to |-> "todo",
         ver |-> 0, tries |-> 0]

\* The status moves each kind decides on, from the status it reads.
\* set_task_status and status_update: validate_status_transition.
CallerMoves == Legal

\* Mutant: the command's name is written as the status.
CommandMoves_Rejected ==
    [s \in TaskStatuses |-> IF s = "plan_proposed" THEN {"plan_approved", "rejected"} ELSE {}]

\* _poll_operator_commands: _COMMAND_MAP and _VALID_FROM.
CommandMoves ==
    [s \in TaskStatuses |->
        CASE s = "plan_proposed" -> {"plan_approved", "stopped"}
          [] s = "plan_approved" -> {"stopped"}
          [] OTHER               -> {}]

\* The cleanup of tasks stuck in waiting_input.
GcMoves == [s \in TaskStatuses |-> IF s = "waiting_input" THEN {"archived"} ELSE {}]

\* _escalate_runaway_inbox, the permanent blocks: a task that is under way.
EscalateMoves ==
    [s \in TaskStatuses |-> IF s \in {"in_progress", "todo"} THEN {"waiting_input"} ELSE {}]

Moves(k) == CASE k = "caller"  -> CallerMoves
              [] k = "command" -> CommandMoves
              [] k = "gc"      -> GcMoves
              [] OTHER         -> EscalateMoves

Allowed == [s \in TaskStatuses |-> UNION {Moves(k)[s] : k \in AllKinds}]

\* The kinds that write through _with_task_lock, which reads the row again.
Locking == {"gc", "escalate"}

------------------------------------------------------------------------------

\* A writer reads the row and decides. Callers and commands keep the version
\* of that read.
Decide(p, k) ==
    /\ w[p].pc = "idle"
    /\ \E to \in Moves(k)[status] :
         w' = [w EXCEPT ![p] = [pc |-> IF k \in Locking THEN "read" ELSE "write", kind |-> k,
                                seen |-> status, to |-> to, ver |-> version, tries |-> 0]]
    /\ UNCHANGED <<status, version>>

\* _with_task_lock: get, and the guard. The cleaner's guard looks at the status
\* again; escalations pass none.
LockRead(p) ==
    /\ w[p].pc = "read"
    /\ w' = [w EXCEPT ![p] = IF w[p].kind = "gc" /\ status # "waiting_input"
                             THEN Rest
                             ELSE [w[p] EXCEPT !.pc = "write", !.ver = version]]
    /\ UNCHANGED <<status, version>>

\* Mutant: the UPDATE has no version in its WHERE clause.
Write_Unversioned(p) ==
    /\ w[p].pc = "write" /\ version < MaxVersion
    /\ status' = w[p].to /\ version' = version + 1
    /\ w' = [w EXCEPT ![p] = Rest]

\* Mutant: the UPDATE does not count the version up.
Write_Uncounted(p) ==
    /\ w[p].pc = "write" /\ w[p].ver = version /\ version < MaxVersion
    /\ status' = w[p].to /\ UNCHANGED version
    /\ w' = [w EXCEPT ![p] = Rest]

\* update: UPDATE ... WHERE id = ? AND version = ?, which counts the version up.
Write(p) ==
    /\ w[p].pc = "write" /\ w[p].ver = version /\ version < MaxVersion
    /\ status' = w[p].to /\ version' = version + 1
    /\ w' = [w EXCEPT ![p] = Rest]

\* ConcurrencyError: _with_task_lock tries once more, the others give up.
Conflict(p) ==
    /\ w[p].pc = "write" /\ w[p].ver # version
    /\ w' = [w EXCEPT ![p] = IF w[p].kind \in Locking /\ w[p].tries = 0
                             THEN [w[p] EXCEPT !.pc = "read", !.tries = 1]
                             ELSE Rest]
    /\ UNCHANGED <<status, version>>

Init ==
    /\ status \in TaskStatuses
    /\ version = 1
    /\ w = [p \in Writers |-> Rest]

Next == \E p \in Writers :
    \/ \E k \in Kinds : Decide(p, k)
    \/ LockRead(p) \/ Write(p) \/ Conflict(p)

Spec == Init /\ [][Next]_vars

------------------------------------------------------------------------------

TypeOK ==
    /\ status \in TaskStatuses
    /\ version \in Nat
    /\ w \in [Writers -> Writer]

\* A version identifies the status: who still holds the current version decided
\* on the current status, so the write that succeeds overwrites what it saw.
VersionIdentifies ==
    \A p \in Writers : w[p].pc = "write" /\ w[p].ver = version => w[p].seen = status

\* No write "silently overwriting a concurrent writer's change"
\* (inbox_watch._with_task_lock): each move is allowed from the status it
\* overwrites. The register every caller relies on.
Register == INSTANCE TaskRegister
ImplementsRegister == Register!Spec

\* With escalations about, every other writer still makes only such moves, and
\* from the status it decided on.
ByEscalation(p) == w[p].kind = "escalate" /\ Write(p) /\ status' = "waiting_input"
OthersKeepRegister ==
    [][\/ \E p \in Writers : ByEscalation(p)
       \/ /\ Register!Move
          /\ \E p \in Writers : Write(p) /\ w[p].seen = status
       \/ UNCHANGED <<status, version>>]_vars
=============================================================================

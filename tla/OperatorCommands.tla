--------------------------- MODULE OperatorCommands ---------------------------
(***************************************************************************)
(* The commands an operator gives for a task from a chat or a terminal: the *)
(* table operator_commands, the Telegram gateway                            *)
(* (modules/gateway/telegram_gateway.py), "shux approve" and "shux reject"  *)
(* (commands/approve.py) and the watchers that drain what is left pending   *)
(* (_poll_operator_commands). Watchers run as WatcherSingleton lets them:   *)
(* two of them may poll at once.                                            *)
(*                                                                          *)
(* A version is only ever compared with the current one, so in place of the *)
(* number each reader keeps whether the row is still as it was read.        *)
(***************************************************************************)
EXTENDS WatcherSingleton, Lifecycle

CONSTANTS
    Messages,    \* the messages of the chat; their ids are idempotency keys
    Typed,       \* the commands of the terminal, one key each for ever
    Kind,        \* what each asks for
    Start,       \* the status of the task at first
    MaxMessages  \* BOUND: how many of the messages are sent

Kinds == {"approve", "reject", "close", "reset"}
Cmds == Messages \cup Typed

ASSUME CommandsAssumption ==
    /\ Messages \cap Typed = {} /\ None \notin Cmds
    /\ Kind \in [Cmds -> Kinds]
    /\ \A c \in Typed : Kind[c] \in {"approve", "reject"}
    /\ \A c, d \in Typed : Kind[c] = Kind[d] => c = d
ASSUME StartAssumption == Start \in TaskStatuses
ASSUME MaxAssumption == MaxMessages \in Nat

VARIABLES
    status,  \* the status of the task
    cmds,    \* operator_commands: the status of each row
    done,    \* history: the commands that have been applied to the task
    poll,    \* each watcher's poll: the rows it has still to do, the one it is at
    gw       \* the gateway

cmdVars == <<status, cmds, done, poll, gw>>
vars == <<dir, lease, proc, stolen, crashes, status, cmds, done, poll, gw>>

\* Mutant: the command's name is written for the status it stands for.
Target_Verb == [approve |-> "approved", reject |-> "stopped", close |-> "done",
                reset |-> "todo"]

\* Where a command takes the task, and from where the watcher lets it.
Target == [approve |-> "plan_approved", reject |-> "stopped", close |-> "done",
           reset |-> "todo"]
ValidFrom(k) == CASE k = "approve" -> {"plan_proposed"}
                  [] k = "reject"  -> {"plan_proposed", "plan_approved"}
                  [] OTHER         -> {}

Outcomes == {"executed", "failed", "skipped"}

\* A poll: rows to do, the row at hand, what to do with it, and whether the
\* task is still as it was read.
NoPoll == [todo |-> {}, cmd |-> None, what |-> "read", same |-> FALSE]
PollRec == [todo : SUBSET Cmds, cmd : Cmds \cup {None},
            what : {"read", "apply"} \cup Outcomes, same : BOOLEAN]

NoMessage == [pc |-> "idle", cmd |-> None, same |-> FALSE, out |-> "failed"]
GatewayRec == [pc : {"idle", "read", "write", "persist"}, cmd : Messages \cup {None},
               same : BOOLEAN, out : Outcomes]

\* The polls once the task has been written.
Stale == [p \in Procs |-> [poll[p] EXCEPT !.same = FALSE]]

------------------------------------------------------------------------------
(* The gateway: a message is recorded, applied and settled one after the    *)
(* other, in three transactions. A message delivered again is a duplicate.  *)

Receive(m) ==
    /\ gw.pc = "idle" /\ cmds[m] = "none"
    /\ Cardinality({n \in Messages : cmds[n] # "none"}) < MaxMessages
    /\ cmds' = [cmds EXCEPT ![m] = "pending"]
    /\ gw' = [NoMessage EXCEPT !.pc = "read", !.cmd = m]
    /\ UNCHANGED <<lockVars, status, done, poll>>

\* _execute_command, whatever the status ...
GatewayRead ==
    /\ gw.pc = "read"
    /\ gw' = [gw EXCEPT !.pc = "write", !.same = TRUE]
    /\ UNCHANGED <<lockVars, status, cmds, done, poll>>

\* Mutant: a lost race counts as executed.
Outcome_Optimist == "executed"

\* ... unless it has changed since: the version check fails the command.
Outcome == IF gw.same THEN "executed" ELSE "failed"

GatewayWrite ==
    /\ gw.pc = "write"
    /\ gw' = [gw EXCEPT !.pc = "persist", !.out = Outcome, !.same = FALSE]
    /\ IF gw.same
       THEN /\ status' = Target[Kind[gw.cmd]] /\ done' = done \cup {gw.cmd}
            /\ poll' = Stale
       ELSE UNCHANGED <<status, done, poll>>
    /\ UNCHANGED <<lockVars, cmds>>

GatewayPersist ==
    /\ gw.pc = "persist"
    /\ cmds' = [cmds EXCEPT ![gw.cmd] = gw.out]
    /\ gw' = NoMessage
    /\ UNCHANGED <<lockVars, status, done, poll>>

GatewayCrash ==
    /\ gw.pc # "idle" /\ crashes < MaxCrashes /\ crashes' = crashes + 1
    /\ gw' = NoMessage
    /\ UNCHANGED <<dir, lease, proc, stolen, status, cmds, done, poll>>

------------------------------------------------------------------------------
(* The terminal and everybody else.                                         *)

\* run_approve, in one transaction; nothing at all if the key has been used.
RunApprove(c) ==
    /\ cmds[c] = "none"
    /\ cmds' = [cmds EXCEPT ![c] = "executed"]
    /\ status' = Target[Kind[c]] /\ done' = done \cup {c}
    /\ poll' = Stale /\ gw' = [gw EXCEPT !.same = FALSE]
    /\ UNCHANGED lockVars

------------------------------------------------------------------------------
(* _poll_operator_commands, at the start of a watcher's cycle.              *)

PollRead(p) ==
    /\ proc[p].pc = "start"
    /\ poll' = [poll EXCEPT ![p] = [NoPoll EXCEPT !.todo = {c \in Cmds : cmds[c] = "pending"}]]
    /\ Goto(p, At("poll"))
    /\ UNCHANGED <<dir, lease, stolen, crashes, status, cmds, done, gw>>

\* Mutant: a command the watcher does not know is left as it is.
Decision_Lenient(k) == IF status \in ValidFrom(k) THEN "apply" ELSE
                       IF k \in {"approve", "reject"} THEN "skipped" ELSE "read"

\* close and reset are unknown to the watcher; the others depend on the status.
Decision(k) == CASE k \notin {"approve", "reject"} -> "failed"
                 [] status \in ValidFrom(k)        -> "apply"
                 [] OTHER                          -> "skipped"

PollTask(p) ==
    /\ proc[p].pc = "poll" /\ poll[p].cmd = None
    /\ \E c \in poll[p].todo :
         poll' = [poll EXCEPT ![p] = [todo |-> @.todo \ {c}, cmd |-> c,
                                      what |-> Decision(Kind[c]), same |-> Decision(Kind[c]) = "apply"]]
    /\ UNCHANGED <<lockVars, status, cmds, done, gw>>

\* Mutant: the update does not compare the version.
Applies_Unversioned(p) == poll[p].what = "apply"

Applies(p) == poll[p].what = "apply" /\ poll[p].same

\* One transaction for the task and the row, or for the row alone. A conflict
\* raises and ends the poll. The row is not looked at again.
PollWrite(p) ==
    /\ proc[p].pc = "poll" /\ poll[p].cmd # None
    /\ LET c == poll[p].cmd
           w == poll[p].what IN
       IF Applies(p)
       THEN /\ status' = Target[Kind[c]] /\ done' = done \cup {c}
            /\ cmds' = [cmds EXCEPT ![c] = "executed"]
            /\ poll' = [Stale EXCEPT ![p] = [NoPoll EXCEPT !.todo = poll[p].todo]]
            /\ gw' = [gw EXCEPT !.same = FALSE]
       ELSE /\ cmds' = IF w \in Outcomes THEN [cmds EXCEPT ![c] = w] ELSE cmds
            /\ poll' = [poll EXCEPT ![p] = IF w = "apply" THEN NoPoll
                                           ELSE [NoPoll EXCEPT !.todo = poll[p].todo]]
            /\ UNCHANGED <<status, done, gw>>
    /\ UNCHANGED lockVars

------------------------------------------------------------------------------

Init ==
    /\ LockInit
    /\ status = Start
    /\ cmds = [c \in Cmds |-> "none"]
    /\ done = {}
    /\ poll = [p \in Procs |-> NoPoll]
    /\ gw = NoMessage

Gateway == GatewayRead \/ GatewayWrite \/ GatewayPersist
Poll(p) == PollRead(p) \/ PollTask(p) \/ PollWrite(p)

\* A cycle ends when its poll has.
Step(p) ==
    /\ proc[p].pc = "poll" => poll[p] = NoPoll
    /\ ProcStep(p) /\ UNCHANGED cmdVars

\* A process that ends leaves its poll; an open transaction is rolled back.
Lock ==
    \/ \E p \in Procs : Step(p)
    \/ LeaseAges /\ UNCHANGED cmdVars
    \/ /\ \E p \in Procs : (Crash(p) \/ Terminated(p)) /\ poll' = [poll EXCEPT ![p] = NoPoll]
       /\ UNCHANGED <<status, cmds, done, gw>>

Next ==
    \/ Lock
    \/ \E p \in Procs : Poll(p)
    \/ \E m \in Messages : Receive(m)
    \/ Gateway \/ GatewayCrash
    \/ \E c \in Typed : RunApprove(c)

(***************************************************************************)
(* Fairness. Watchers are started again and again (launchd, the operator)   *)
(* and go on; an orphaned directory is old enough in the end (SF); the      *)
(* gateway finishes a message unless it crashes. Nobody is killed or told   *)
(* to stop for ever: MaxCrashes bounds both.                                *)
(***************************************************************************)
Fairness ==
    /\ WF_vars(Gateway)
    /\ \A p \in Procs : /\ WF_vars(Poll(p) \/ Step(p))
                        /\ SF_vars(Break(p) /\ UNCHANGED cmdVars)

Spec == Init /\ [][Next]_vars /\ Fairness

------------------------------------------------------------------------------
(* Properties.                                                              *)

TypeOK ==
    /\ LockTypeOK
    /\ status \in TaskStatuses
    /\ cmds \in [Cmds -> {"none", "pending"} \cup Outcomes]
    /\ done \subseteq Cmds
    /\ poll \in [Procs -> PollRec]
    /\ gw \in GatewayRec

\* What the table says was executed was applied to the task, whichever of the
\* gateway, the terminal and two watchers wrote the row last.
ExecutedIsTrue == \A c \in Cmds : cmds[c] = "executed" => c \in done

\* A watcher moves a task only from a status its command is meant for, however
\* much has happened since it read the row and the task.
WatcherRespects ==
    [][\A p \in Procs : poll[p].cmd # None /\ poll'[p].cmd = None /\ status' # status
          => status \in ValidFrom(Kind[poll[p].cmd])]_vars

\* No command stays pending for ever: whatever crashes, the table is drained
\* again and again.
PendingResolved == []<>(\A c \in Messages : cmds[c] # "pending")
=============================================================================

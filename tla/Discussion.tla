------------------------------ MODULE Discussion ------------------------------
(***************************************************************************)
(* One discussion between agents: the tables discussions, discussion_rounds *)
(* and inbox (engine/discussion.py, engine/discussions_dao.py), the files   *)
(* round-N-<agent>.yaml the agents leave, the sessions of the agents, the   *)
(* discussion dispatcher (commands/discussion_dispatch.py), the watcher     *)
(* jobs that close discussions (commands/inbox_watch.py), the command line  *)
(* and the dashboard.                                                       *)
(*                                                                          *)
(* Discussions share nothing but the watcher, so one is enough. Every       *)
(* command reads in autocommit and takes the write lock with its first      *)
(* write: reading is one action, writing another, and anyone may come       *)
(* between the two. From the first write to the commit a command is alone.  *)
(***************************************************************************)
EXTENDS Naturals, FiniteSets

CONSTANTS
    Owners,      \* the participants, registered agents (discuss start takes no others)
    MaxRounds,   \* max_rounds of the discussion
    MaxRetries,  \* max_retries of an inbox row
    None,        \* a NULL column
    Cast,        \* BOUND: the verdicts each agent may cast, "corrupt" a file without one
    Launched,    \* BOUND: the agents whose rows the inbox dispatcher gets to
    Writers,     \* BOUND: the agents whose sessions leave a file
    Submitters,  \* BOUND: the agents for whom "discuss submit" is called
    Operators,   \* BOUND: what the operator may do
    MaxCommands  \* BOUND: commands the operator gives

ASSUME OwnersAssumption == IsFiniteSet(Owners)
ASSUME BoundsAssumption == {MaxRounds, MaxRetries, MaxCommands} \subseteq Nat /\ MaxRounds # 0
ASSUME CastAssumption == Cast \in [Owners -> SUBSET {"agree", "consent", "block", "corrupt"}]
ASSUME NoneAssumption == None \notin {"agree", "consent", "block", "corrupt"} \cup Owners
ASSUME ActorsAssumption == Launched \cup Writers \cup Submitters \subseteq Owners
ASSUME OperatorAssumption == Operators \subseteq {"consensus", "cancelled", "agree", "fix", "reopen"}

VARIABLES
    status,   \* discussions.status
    said,     \* discussions.consensus: what kind of text it holds
    stamped,  \* discussions.closed_at is set
    verdict,  \* discussion_rounds: the verdict of each participant in each round
    markers,  \* the rounds with an _advance row
    file,     \* the YAML file of each participant and round
    inbox,    \* the newest inbox row of each participant and round
    tasks,    \* the rounds whose task is in_progress
    impl,     \* the follow-up task impl-<id> was written
    submit,   \* "discuss submit" of each agent between its checks and its INSERT
    session,  \* the round the agent's session works on, or None
    disp,     \* the watcher: its discussion dispatcher or the job it runs
    closing,  \* what an operator's close has still to do
    age,      \* 0, past the deadline (1), past the grace of a consensus (2)
    commands  \* commands the operator has given

vars == <<status, said, stamped, verdict, markers, file, inbox, tasks, impl,
          submit, session, disp, closing, age, commands>>

discussion == <<status, said, stamped>>

Rounds == 1..MaxRounds
Verdicts == {"agree", "consent", "block"}
Statuses == {"active", "consensus", "no_consensus", "failed_participant", "closed", "cancelled"}

\* discussions.consensus is NULL, or names an agreement, or is the operator's
\* word, or asks for a review (review0: "(0/N verdicts)").
Texts == {"none", "agreed", "operator", "review", "review0"}

\* An inbox row; over: some row of this agent and round is done.
RowRec == [st : {"none", "pending", "launched", "failed", "done"},
           retry : 0..MaxRetries, over : BOOLEAN]

NoRow == [st |-> "none", retry |-> 0, over |-> FALSE]
Done(row) == [row EXCEPT !.st = "done", !.over = TRUE]
Failed(row, n) == [row EXCEPT !.st = "failed", !.retry = n]

\* The watcher is a single process: what it does, for which round, for which
\* agents still, and what it has decided to write.
Watcher == [pc : {"idle", "scan", "check", "advance", "advancing", "enqueue", "pending",
                  "deadline", "closing", "orphan", "autoclose", "unengaged"},
            round : Rounds, todo : SUBSET Owners, what : Statuses, text : Texts]

Idle == [pc |-> "idle", round |-> 1, todo |-> {}, what |-> "active", text |-> "none"]

------------------------------------------------------------------------------
(* What the rows say.                                                       *)

HighestOf(S) == CHOOSE r \in S : \A q \in S : q <= r

\* cmd_status, cmd_advance: the last marker, else the last submission, else 1.
CurrentRound(ms, vs) ==
    LET submitted == {r \in Rounds : \E a \in Owners : vs[r][a] # None} IN
    IF ms # {} THEN HighestOf(ms) ELSE IF submitted # {} THEN HighestOf(submitted) ELSE 1

Voters(vs, r) == {a \in Owners : vs[r][a] # None}

\* Mutant: one participant of two is enough.
Consensus_OneShort(vs, r) ==
    /\ Owners # {}
    /\ Cardinality(Voters(vs, r)) >= Cardinality(Owners) - 1
    /\ \A a \in Voters(vs, r) : vs[r][a] # "block"

\* compute_consensus
Consensus(vs, r) ==
    /\ Owners # {}
    /\ Cardinality(Voters(vs, r)) >=
         IF Cardinality(Owners) <= 2 THEN Cardinality(Owners) ELSE Cardinality(Owners) - 1
    /\ \A a \in Voters(vs, r) : vs[r][a] # "block"

\* register_yaml_submission, for the agents A and the rounds R: a file that
\* names one verdict becomes a row unless there is one.
Register(R, A) ==
    [r \in Rounds |-> [a \in Owners |->
        IF r \in R /\ a \in A /\ verdict[r][a] = None /\ file[r][a] \in Verdicts
        THEN file[r][a] ELSE verdict[r][a]]]

Ended == status # "active"
ActiveRow(r, a) == inbox[r][a].st \in {"pending", "launched"}

------------------------------------------------------------------------------
(* "discuss submit" (cmd_submit_round).                                     *)

\* The checks: active, a participant, a single verdict, not submitted yet.
SubmitCheck(a, r, v) ==
    /\ submit[a] = None
    /\ status = "active" /\ r <= CurrentRound(markers, verdict) /\ verdict[r][a] = None
    /\ submit' = [submit EXCEPT ![a] = [round |-> r, verdict |-> v]]
    /\ UNCHANGED <<discussion, verdict, markers, file, inbox, tasks, impl, session, disp,
                   closing, age, commands>>

\* Mutant: the status is not looked at again under the write lock.
Accepts_Unchecked(a) == verdict[submit[a].round][a] = None

\* The unique index refuses a second verdict; the re-check of the status a
\* discussion that has ended meanwhile.
Accepts(a) == verdict[submit[a].round][a] = None /\ status = "active"

\* The INSERT, the inbox row it settles and, with everybody in agreement, the
\* transition to consensus; the follow-up task unless all just agree.
SubmitWrite(a) ==
    /\ submit[a] # None
    /\ submit' = [submit EXCEPT ![a] = None]
    /\ IF Accepts(a)
       THEN LET r == submit[a].round
                vs == [verdict EXCEPT ![r][a] = submit[a].verdict] IN
            /\ verdict' = vs
            /\ inbox' = [inbox EXCEPT ![r][a] = IF ActiveRow(r, a) THEN Done(@) ELSE @]
            /\ IF status = "active" /\ Consensus(vs, r)
               THEN /\ status' = "consensus" /\ said' = "agreed"
                    /\ impl' = (impl \/ \E x \in Voters(vs, r) : vs[r][x] # "agree")
               ELSE UNCHANGED <<status, said, impl>>
       ELSE UNCHANGED <<status, said, verdict, inbox, impl>>
    /\ UNCHANGED <<stamped, markers, file, tasks, session, disp, closing, age, commands>>

------------------------------------------------------------------------------
(* The sessions the inbox dispatcher launches (module InboxDispatch).       *)

\* A pending row is claimed; it is skipped when the file is there or the
\* discussion has ended (_skip_already_done_discussion_round), else launched.
Launch(r, a) ==
    /\ inbox[r][a].st = "pending" /\ session[a] = None
    /\ IF file[r][a] # None \/ Ended
       THEN /\ inbox' = [inbox EXCEPT ![r][a] = Done(@)]
            /\ UNCHANGED session
       ELSE /\ inbox' = [inbox EXCEPT ![r][a].st = "launched"]
            /\ session' = [session EXCEPT ![a] = r]
    /\ UNCHANGED <<discussion, verdict, markers, file, tasks, impl, submit, disp, closing,
                   age, commands>>

\* The agent writes its file, with one verdict or with none that can be used.
WriteFile(a, v) ==
    /\ session[a] # None /\ file[session[a]][a] = None
    /\ file' = [file EXCEPT ![session[a]][a] = v]
    /\ UNCHANGED <<discussion, verdict, markers, inbox, tasks, impl, submit, session, disp,
                   closing, age, commands>>

\* The session ends, well or badly: with its file there the row is done, else
\* failed; a failure that is not worth a retry uses the retries up.
SessionEnds(a) ==
    /\ session[a] # None
    /\ LET r == session[a] IN
       inbox' = [inbox EXCEPT ![r][a] =
                    IF @.st # "launched" THEN @
                    ELSE IF file[r][a] # None THEN Done(@) ELSE Failed(@, @.retry)]
    /\ session' = [session EXCEPT ![a] = None]
    /\ UNCHANGED <<discussion, verdict, markers, file, tasks, impl, submit, disp, closing,
                   age, commands>>

SessionBlocked(a) ==
    /\ session[a] # None
    /\ LET r == session[a] IN
       inbox' = [inbox EXCEPT ![r][a] =
                    IF @.st = "launched" THEN Failed(@, MaxRetries) ELSE @]
    /\ session' = [session EXCEPT ![a] = None]
    /\ UNCHANGED <<discussion, verdict, markers, file, tasks, impl, submit, disp, closing,
                   age, commands>>

------------------------------------------------------------------------------
(* "discuss close" (cmd_close), by the operator or the dispatcher.          *)

\* First transaction: the outcome, whatever the status is by now, and all the
\* rows that are not done.
CloseAs(o) ==
    /\ status' = IF o # "consensus" THEN o
                 ELSE IF status \in {"active", "consensus"} THEN "closed" ELSE status
    /\ said' = IF status \in {"active", "consensus"}
               THEN IF o = "consensus" THEN "operator" ELSE "none"
               ELSE said
    /\ stamped' = (o # "consensus" \/ stamped \/ status \in {"active", "consensus"})
    /\ inbox' = [r \in Rounds |-> [a \in Owners |->
                    IF inbox[r][a].st = "none" THEN NoRow ELSE Done(inbox[r][a])]]

\* Then the sessions whose pid is recorded are killed, and what they managed to
\* write is registered.
CloseCleanup ==
    /\ \E survivors \in SUBSET {a \in Owners : session[a] # None} :
         session' = [a \in Owners |-> IF a \in survivors THEN session[a] ELSE None]
    /\ verdict' = Register(Rounds, Owners)

Command == commands < MaxCommands /\ commands' = commands + 1

OpClose(how) ==
    /\ how \in Operators \cap {"consensus", "cancelled", "agree"} /\ closing = "no"
    /\ Command
    /\ CloseAs(IF how = "cancelled" THEN "cancelled" ELSE "consensus")
    /\ closing' = IF how = "agree" THEN "dashboard" ELSE "command"
    /\ UNCHANGED <<verdict, markers, file, tasks, impl, submit, session, disp, age>>

OpCleanup ==
    /\ closing \in {"command", "dashboard"}
    /\ closing' = IF closing = "command" THEN "no" ELSE "agree"
    /\ CloseCleanup
    /\ UNCHANGED <<discussion, markers, file, inbox, tasks, impl, submit, disp, age, commands>>

\* The dashboard, which closes with consensus, then sets the status as well.
DashAgree ==
    /\ closing = "agree" /\ closing' = "no"
    /\ status' = "consensus"
    /\ UNCHANGED <<said, stamped, verdict, markers, file, inbox, tasks, impl, submit, session,
                   disp, age, commands>>

\* The dashboard reopens a discussion.
Reopen ==
    /\ "reopen" \in Operators /\ Command
    /\ status' = "active" /\ stamped' = FALSE
    /\ UNCHANGED <<said, verdict, markers, file, inbox, tasks, impl, submit, session, disp,
                   closing, age>>

\* "shux status --fix" gives up a stuck discussion.
FixStuck ==
    /\ "fix" \in Operators /\ status = "active" /\ Command
    /\ status' = "failed_participant" /\ stamped' = TRUE
    /\ inbox' = [r \in Rounds |-> [a \in Owners |->
                    IF inbox[r][a].st = "none" THEN NoRow ELSE Done(inbox[r][a])]]
    /\ UNCHANGED <<said, verdict, markers, file, tasks, impl, submit, session, disp, closing,
                   age>>

------------------------------------------------------------------------------
(* The discussion dispatcher.                                               *)

Goto(pc) == disp' = [disp EXCEPT !.pc = pc]
Rest == disp' = Idle

\* _recover_orphaned_dispatches: launched rows without a heartbeat have failed.
RecoverOrphans ==
    /\ disp.pc = "idle"
    /\ \E silent \in SUBSET {x \in Rounds \X Owners : inbox[x[1]][x[2]].st = "launched"} :
         inbox' = [r \in Rounds |-> [a \in Owners |->
                     IF <<r, a>> \in silent THEN Failed(inbox[r][a], inbox[r][a].retry)
                     ELSE inbox[r][a]]]
    /\ Goto("scan")
    /\ UNCHANGED <<discussion, verdict, markers, file, tasks, impl, submit, session, closing,
                   age, commands>>

\* Mutant: the deadline is not looked at.
Scan_NoDeadline ==
    /\ disp.pc = "scan"
    /\ verdict' = IF Ended THEN verdict ELSE Register(Rounds, Owners)
    /\ disp' = IF Ended THEN Idle
               ELSE [disp EXCEPT !.pc = "check", !.round = CurrentRound(markers, verdict')]
    /\ UNCHANGED <<discussion, markers, file, inbox, tasks, impl, submit, session, closing,
                   age, commands>>

\* cmd_status: files become rows; the round under way; is the deadline past?
Scan ==
    /\ disp.pc = "scan"
    /\ IF Ended
       THEN Rest /\ UNCHANGED verdict
       ELSE /\ verdict' = Register(Rounds, Owners)
            /\ disp' = [disp EXCEPT !.pc = IF age > 0 THEN "deadline" ELSE "check",
                                    !.round = CurrentRound(markers, verdict')]
    /\ UNCHANGED <<discussion, markers, file, inbox, tasks, impl, submit, session, closing,
                   age, commands>>

\* The deadline: cmd_close as cancelled, whatever happened since the scan.
Deadline ==
    /\ disp.pc = "deadline"
    /\ CloseAs("cancelled")
    /\ Goto("closing")
    /\ UNCHANGED <<verdict, markers, file, tasks, impl, submit, session, closing, age, commands>>

DeadlineCleanup ==
    /\ disp.pc = "closing"
    /\ CloseCleanup
    /\ Rest
    /\ UNCHANGED <<discussion, markers, file, inbox, tasks, impl, submit, closing, age, commands>>

\* cmd_check_round: a row or any file counts as submitted.
CheckRound ==
    /\ disp.pc = "check"
    /\ LET missing == {a \in Owners : verdict[disp.round][a] = None /\ file[disp.round][a] = None} IN
       disp' = [disp EXCEPT !.pc = IF missing = {} THEN "advance" ELSE "pending",
                            !.todo = missing]
    /\ UNCHANGED <<discussion, verdict, markers, file, inbox, tasks, impl, submit, session,
                   closing, age, commands>>

\* cmd_advance, the reading: the status, and the round the rows point at.
AdvanceRead ==
    /\ disp.pc = "advance"
    /\ IF Ended
       THEN Rest
       ELSE disp' = [disp EXCEPT !.pc = "advancing", !.round = CurrentRound(markers, verdict)]
    /\ UNCHANGED <<discussion, verdict, markers, file, inbox, tasks, impl, submit, session,
                   closing, age, commands>>

\* cmd_advance, the writing: files of the round become rows; a complete round
\* closes the discussion or opens the next round, whatever the status is by
\* now. A round not complete is an error, or waits for votes if it was opened.
AdvanceWrite ==
    /\ disp.pc = "advancing"
    /\ LET r == disp.round
           vs == Register({r}, Owners) IN
       IF Voters(vs, r) # Owners
       THEN /\ verdict' = IF r \in markers THEN vs ELSE verdict
            /\ disp' = IF r \in markers
                       THEN [disp EXCEPT !.pc = "enqueue", !.todo = Owners] ELSE Idle
            /\ UNCHANGED <<discussion, markers>>
       ELSE /\ verdict' = vs
            /\ IF Consensus(vs, r)
               THEN status' = "consensus" /\ said' = "agreed" /\ stamped' = TRUE
                    /\ Rest /\ UNCHANGED markers
               ELSE IF r >= MaxRounds
               THEN status' = "no_consensus" /\ stamped' = TRUE
                    /\ Rest /\ UNCHANGED <<said, markers>>
               ELSE markers' = markers \cup {r + 1}
                    /\ disp' = [disp EXCEPT !.pc = "enqueue", !.round = r + 1, !.todo = Owners]
                    /\ UNCHANGED discussion
    /\ UNCHANGED <<file, inbox, tasks, impl, submit, session, closing, age, commands>>

\* A new row, and the round's task if there is none.
Enqueued(r, a) ==
    /\ inbox' = [inbox EXCEPT ![r][a].st = "pending", ![r][a].retry = 0]
    /\ tasks' = IF \E x \in Owners : inbox[r][x].st # "none" THEN tasks ELSE tasks \cup {r}

\* _retry_exhausted, _retry_agent: a failed row is used again, not replaced.
RetryLeft(row) == row.st = "none" \/ row.retry < MaxRetries
Requeued(r, a) == inbox' = [inbox EXCEPT ![r][a].st = "pending", ![r][a].retry = @ + 1]

Dealt(a) == disp' = IF disp.todo = {a} THEN Idle ELSE [disp EXCEPT !.todo = @ \ {a}]

\* After an advance every participant gets a row, unless one is active.
EnqueueNext(a) ==
    /\ disp.pc = "enqueue" /\ a \in disp.todo
    /\ IF ActiveRow(disp.round, a) THEN UNCHANGED <<inbox, tasks>> ELSE Enqueued(disp.round, a)
    /\ Dealt(a)
    /\ UNCHANGED <<discussion, verdict, markers, file, impl, submit, session, closing, age,
                   commands>>

\* Mutant: a retry whether or not there is one left.
Remind_Uncapped(a) ==
    /\ disp.pc = "pending" /\ a \in disp.todo
    /\ IF inbox[disp.round][a].st = "failed"
       THEN Requeued(disp.round, a)
       ELSE UNCHANGED inbox
    /\ Dealt(a)
    /\ UNCHANGED <<discussion, verdict, markers, file, tasks, impl, submit, session, closing,
                   age, commands>>

\* The participants still missing: left alone if they have answered by now or
\* are being dispatched or (first disjunct) are not available; a failed row is
\* retried while it has retries, and without one there is a new row.
Remind(a) ==
    /\ disp.pc = "pending" /\ a \in disp.todo
    /\ LET r == disp.round
           row == inbox[r][a] IN
       \/ UNCHANGED <<inbox, tasks>>
       \/ /\ file[r][a] = None /\ verdict[r][a] = None /\ ~ActiveRow(r, a)
          /\ RetryLeft(row)
          /\ IF row.st = "failed"
             THEN Requeued(r, a) /\ UNCHANGED tasks
             ELSE Enqueued(r, a)
    /\ Dealt(a)
    /\ UNCHANGED <<discussion, verdict, markers, file, impl, submit, session, closing, age,
                   commands>>

------------------------------------------------------------------------------
(* The watcher jobs.                                                        *)

\* auto_retry, if the profile asks for it, knows nothing of discussions.
WatcherRetry ==
    /\ disp.pc = "idle"
    /\ inbox' = [r \in Rounds |-> [a \in Owners |->
                    IF inbox[r][a].st = "failed" /\ inbox[r][a].retry < MaxRetries
                    THEN [inbox[r][a] EXCEPT !.st = "pending", !.retry = @ + 1]
                    ELSE inbox[r][a]]]
    /\ UNCHANGED <<discussion, verdict, markers, file, tasks, impl, submit, session, disp,
                   closing, age, commands>>

Dispatched(r) == {a \in Owners : inbox[r][a].st # "none"}

\* _auto_advance_orphaned_rounds, the reading: every agent dispatched for the
\* last round has a row that is done; their files become rows. If one has still
\* no verdict: too few rows of the round, the marker among them, or a review.
OrphanRead ==
    /\ disp.pc = "idle" /\ status = "active"
    /\ \E r \in Rounds :
         LET vs == Register({r}, Dispatched(r))
             n == Cardinality(Dispatched(r))
             rowsOf == Cardinality(Voters(vs, r)) + IF r \in markers THEN 1 ELSE 0
             required == IF n > 2 THEN n - 1 ELSE n IN
         /\ Dispatched(r) # {} /\ \A q \in Rounds : q > r => Dispatched(q) = {}
         /\ \A a \in Dispatched(r) : inbox[r][a].over
         /\ verdict' = vs
         /\ disp' = IF Dispatched(r) \subseteq Voters(vs, r)
                    THEN Idle
                    ELSE IF rowsOf = 0 \/ rowsOf < required
                    THEN [Idle EXCEPT !.pc = "orphan", !.what = "failed_participant"]
                    ELSE [Idle EXCEPT !.pc = "orphan", !.what = "consensus",
                                      !.text = IF Voters(vs, r) \cap Dispatched(r) = {}
                                               THEN "review0" ELSE "review"]
    /\ UNCHANGED <<discussion, markers, file, inbox, tasks, impl, submit, session, closing,
                   age, commands>>

OrphanWrite ==
    /\ disp.pc = "orphan"
    /\ IF status = "active"
       THEN status' = disp.what /\ said' = IF disp.what = "consensus" THEN disp.text ELSE said
       ELSE UNCHANGED <<status, said>>
    /\ Rest
    /\ UNCHANGED <<stamped, verdict, markers, file, inbox, tasks, impl, submit, session,
                   closing, age, commands>>

\* _auto_close_consensus_discussions: after the grace, or when closed_at is set;
\* one that waits for a review stays, or fails if nobody had voted.
AutoCloseRead ==
    /\ disp.pc = "idle" /\ status = "consensus"
    /\ said # "review" /\ (said = "review0" \/ stamped \/ age = 2)
    /\ disp' = [Idle EXCEPT !.pc = "autoclose", !.text = said,
                            !.what = IF said = "review0" THEN "failed_participant" ELSE "closed"]
    /\ UNCHANGED <<discussion, verdict, markers, file, inbox, tasks, impl, submit, session,
                   closing, age, commands>>

AutoCloseWrite ==
    /\ disp.pc = "autoclose"
    /\ IF disp.what = "failed_participant"
       THEN status' = "failed_participant" /\ UNCHANGED <<said, stamped>>
       ELSE IF status \in {"active", "consensus"}
       THEN /\ status' = "closed" /\ stamped' = TRUE
            /\ said' = IF disp.text = "none" THEN "operator" ELSE disp.text
       ELSE UNCHANGED discussion
    /\ Rest
    /\ UNCHANGED <<verdict, markers, file, inbox, tasks, impl, submit, session, closing, age,
                   commands>>

\* _gc_discussion_deadlock closes a discussion nobody has engaged in; its other
\* branches ask both for fewer and for as many submissions as are required.
UnengagedRead ==
    /\ disp.pc = "idle" /\ status = "active" /\ age > 0
    /\ markers = {} /\ \A r \in Rounds : Voters(verdict, r) = {}
    /\ disp' = [Idle EXCEPT !.pc = "unengaged"]
    /\ UNCHANGED <<discussion, verdict, markers, file, inbox, tasks, impl, submit, session,
                   closing, age, commands>>

UnengagedWrite ==
    /\ disp.pc = "unengaged"
    /\ status' = "failed_participant" /\ stamped' = TRUE
    /\ Rest
    /\ UNCHANGED <<said, verdict, markers, file, inbox, tasks, impl, submit, session, closing,
                   age, commands>>

\* Mutant: the rows of a discussion that ran out of rounds are forgotten.
Dead_Partly == status \in {"closed", "cancelled", "failed_participant"}

\* The discussions whose rows _gc_orphaned_discussion_inbox closes.
Dead == status \notin {"active", "consensus"}

GcInbox ==
    /\ disp.pc = "idle" /\ Dead
    /\ inbox' = [r \in Rounds |-> [a \in Owners |->
                    IF inbox[r][a].st \in {"pending", "launched", "failed"}
                    THEN Done(inbox[r][a]) ELSE inbox[r][a]]]
    /\ UNCHANGED <<discussion, verdict, markers, file, tasks, impl, submit, session, disp,
                   closing, age, commands>>

\* _reconcile_discussion_contract: the round tasks are archived, active rows done.
ReconcileContract ==
    /\ disp.pc = "idle"
    /\ status \in {"cancelled", "closed", "consensus", "failed_participant"}
    /\ tasks' = {}
    /\ inbox' = [r \in Rounds |-> [a \in Owners |->
                    IF ActiveRow(r, a) THEN Done(inbox[r][a]) ELSE inbox[r][a]]]
    /\ UNCHANGED <<discussion, verdict, markers, file, impl, submit, session, disp, closing,
                   age, commands>>

\* Time passes.
Tick ==
    /\ age < 2 /\ age' = age + 1
    /\ UNCHANGED <<discussion, verdict, markers, file, inbox, tasks, impl, submit, session,
                   disp, closing, commands>>

------------------------------------------------------------------------------

\* "discuss start": the discussion, the task of round 1 and a row for everyone.
Init ==
    /\ status = "active" /\ said = "none" /\ stamped = FALSE
    /\ verdict = [r \in Rounds |-> [a \in Owners |-> None]]
    /\ markers = {}
    /\ file = [r \in Rounds |-> [a \in Owners |-> None]]
    /\ inbox = [r \in Rounds |-> [a \in Owners |->
                   IF r = 1 THEN [NoRow EXCEPT !.st = "pending"] ELSE NoRow]]
    /\ tasks = {1} /\ impl = FALSE
    /\ submit = [a \in Owners |-> None]
    /\ session = [a \in Owners |-> None]
    /\ disp = Idle /\ closing = "no" /\ age = 0 /\ commands = 0

\* What the watcher does once it has begun something.
WatcherStep ==
    \/ Scan \/ Deadline \/ DeadlineCleanup \/ CheckRound \/ AdvanceRead \/ AdvanceWrite
    \/ \E a \in Owners : EnqueueNext(a) \/ Remind(a)
    \/ OrphanWrite \/ AutoCloseWrite \/ UnengagedWrite

SessionStep(a) ==
    \/ a \in Launched /\ \E r \in Rounds : Launch(r, a)
    \/ SessionEnds(a) \/ SessionBlocked(a)

Next ==
    \/ \E a \in Submitters : \/ \E r \in Rounds, v \in Cast[a] \cap Verdicts : SubmitCheck(a, r, v)
                            \/ SubmitWrite(a)
    \/ \E a \in Owners : SessionStep(a)
    \/ \E a \in Writers : \E v \in Cast[a] : WriteFile(a, v)
    \/ \E how \in Operators : OpClose(how)
    \/ OpCleanup \/ DashAgree \/ Reopen \/ FixStuck
    \/ RecoverOrphans \/ WatcherStep
    \/ WatcherRetry \/ OrphanRead \/ AutoCloseRead \/ UnengagedRead
    \/ GcInbox \/ ReconcileContract
    \/ Tick

(***************************************************************************)
(* Fairness. The watcher goes on with what it has begun, comes round to its *)
(* discussion dispatcher and to its jobs again and again (SF: another job   *)
(* may be running), sessions are claimed and end, commands finish, and time *)
(* passes. Nobody has to vote, nobody has to act at the dashboard.          *)
(***************************************************************************)
Fairness ==
    /\ WF_vars(WatcherStep) /\ WF_vars(Tick)
    /\ WF_vars(OpCleanup) /\ WF_vars(DashAgree)
    /\ SF_vars(RecoverOrphans) /\ SF_vars(GcInbox) /\ SF_vars(ReconcileContract)
    /\ \A a \in Owners : WF_vars(SessionStep(a)) /\ WF_vars(SubmitWrite(a))

Spec == Init /\ [][Next]_vars /\ Fairness

------------------------------------------------------------------------------
(* Properties.                                                              *)

TypeOK ==
    /\ status \in Statuses /\ said \in Texts /\ stamped \in BOOLEAN
    /\ verdict \in [Rounds -> [Owners -> Verdicts \cup {None}]]
    /\ markers \subseteq Rounds
    /\ file \in [Rounds -> [Owners -> Verdicts \cup {"corrupt", None}]]
    /\ inbox \in [Rounds -> [Owners -> RowRec]]
    /\ tasks \subseteq Rounds /\ impl \in BOOLEAN
    /\ submit \in [Owners -> {None} \cup [round : Rounds, verdict : Verdicts]]
    /\ session \in [Owners -> Rounds \cup {None}]
    /\ disp \in Watcher
    /\ closing \in {"no", "command", "dashboard", "agree"}
    /\ age \in 0..2 /\ commands \in Nat

Outcome == CASE status = "active" -> "open"
             [] status \in {"consensus", "closed"} /\ said = "agreed" -> "agreed"
             [] status = "no_consensus" -> "undecided"
             [] OTHER -> "shelved"

B == INSTANCE Ballot WITH votes <- verdict, round <- CurrentRound(markers, verdict),
                          outcome <- Outcome

\* The discussion keeps the promises of Ballot, whichever of its writers comes
\* first: verdicts stand, rounds open in order and only when complete, and an
\* agreement or the end of the last round is recorded on the votes it needs.
KeepsBallot == B!BallotSpec

\* However often it is reopened while the watcher is closing it, verdicts and
\* rounds keep these promises, and an agreement rests on the votes of a quorum.
KeepsReopened == B!ReopenedSpec

\* A verdict that has no file behind it was submitted by command, and no
\* command lands its verdict in a discussion that is over.
NoLateVerdict ==
    [][\A r \in Rounds, a \in Owners :
          verdict'[r][a] # verdict[r][a] /\ file[r][a] = None => status = "active"]_vars

\* No discussion stays open for ever, even when its participants say nothing.
Ends == status = "active" ~> status # "active"

\* Rows of a discussion that is over for good are not dispatched for ever.
Drained == \A r \in Rounds, a \in Owners : ~ActiveRow(r, a)
Drains == <>[](status # "active") => <>[]Drained
=============================================================================

-------------------------- MODULE InboxClaims_proofs --------------------------
(***************************************************************************)
(* The claim of a row is exclusive: where no job of the watcher puts rows    *)
(* back to pending, no item ever has two launchers, however many dispatchers *)
(* start and crash. The jobs that do are retry, reassignment and recovery,   *)
(* and the zombie job, which gives rows the status it read them with.        *)
(***************************************************************************)
EXTENDS InboxDispatch_proofs, FiniteSetTheorems

USE DEF TypeInv, TypeOK, WatchOK

\* The statuses a row has before it is claimed.
Open == {"absent", "pending"}

\* A dispatcher that runs, or whose launcher has outlived it, has a claimed row.
Engaged(s) == disp[s].pc # "idle"

\* A launcher lives under a dispatcher at one of these places, or has lost it.
Waiting == {"record", "wait", "crashed"}

ClaimInv ==
    /\ txn = None /\ watch.job \in {"none", "enqueue", "paused"}
    /\ \A s \in Slots : Engaged(s) => disp[s].row \in Rows /\ rows[disp[s].row].status \notin Open
    /\ \A s, q \in Slots : s # q /\ Engaged(s) /\ Engaged(q) => disp[s].row # disp[q].row
    /\ \A s \in Slots : kid[s] \in Live => disp[s].pc \in Waiting

\* From the table as it is to the table rs: no claimed row is open again.
Claims(rs) == \A r \in Rows : rows[r].status \notin Open => rs[r].status \notin Open

\* Slot s goes on with the row it has, or is left; no launcher is forgotten.
Keeps(s) ==
    /\ Engaged(s)' => Engaged(s) /\ disp'[s].row = disp[s].row
    /\ kid'[s] \in Live => disp'[s].pc \in Waiting

\* What every step but the claim does.
Steady ==
    /\ Claims(rows') /\ \A s \in Slots : Keeps(s)
    /\ txn' = None /\ watch'.job \in {"none", "enqueue", "paused"}

LEMMA SteadyClaims == ASSUME ClaimInv, Steady PROVE ClaimInv'
BY DEF ClaimInv, Steady, Claims, Keeps

-----------------------------------------------------------------------------
(* Writes to the table.                                                     *)

LEMMA ClaimsRows == Claims(rows)
BY DEF Claims

LEMMA ClaimsBuried ==
    ASSUME NEW rs \in [Rows -> Row], NEW P, Claims(rs)
    PROVE  Claims(Buried(rs, P))
BY BuriedRows DEF Claims

LEMMA ClaimsMove ==
    ASSUME TypeInv, NEW r, NEW from, NEW to, to \notin Open, NEW why
    PROVE  Claims([rows EXCEPT ![r] = Moved(rows[r], from, to, why)])
BY CalmMoved DEF Claims

LEMMA ClaimsColumns ==
    ASSUME TypeInv, NEW r, NEW v
    PROVE  /\ Claims([rows EXCEPT ![r].pid = v])
           /\ Claims([rows EXCEPT ![r].retry = v])
           /\ Claims([rows EXCEPT ![r].reason = v])
BY DEF Claims, Row

LEMMA ClaimsInsert ==
    ASSUME TypeInv, NEW t, NEW a, Insert(t, a)
    PROVE  Claims(rows')
BY DEF Insert, NextRow, Claims, Open

LEMMA KeepsSame ==
    ASSUME ClaimInv, UNCHANGED <<disp, kid>>, NEW s \in Slots
    PROVE  Keeps(s)
BY DEF ClaimInv, Keeps, Engaged

\* A slot that is not the one a step is about.
LEMMA KeepsOthers ==
    ASSUME ClaimInv, NEW s \in Slots, NEW x \in Slots, x # s,
           disp'[x] = disp[x], kid'[x] = kid[x]
    PROVE  Keeps(x)
BY DEF ClaimInv, Keeps, Engaged

-----------------------------------------------------------------------------
(* The steps.                                                               *)

LEMMA SteadyLeave ==
    ASSUME TypeInv, ClaimInv, NEW s \in Slots, NEW rs \in [Rows -> Row], Leave(s, rs), Claims(rs),
           kid[s] \notin Live, UNCHANGED <<kid, watch, txn>>
    PROVE  Steady
<1>1. disp'[s].pc = "idle" /\ kid'[s] \notin Live
  BY DEF Leave, Idle
<1>2. Keeps(s)
  BY <1>1 DEF Keeps, Engaged
<1>3. \A x \in Slots : Keeps(x)
  BY <1>2, KeepsOthers DEF Leave
<1> QED BY <1>3, ClaimsBuried DEF Leave, Steady, ClaimInv

\* A step of slot s that goes on with its row.
LEMMA SteadyOn ==
    ASSUME TypeInv, ClaimInv, NEW s \in Slots, Engaged(s), Claims(rows'),
           \A x \in Slots : x # s => disp'[x] = disp[x] /\ kid'[x] = kid[x],
           disp'[s].row = disp[s].row, kid'[s] \in Live => disp'[s].pc \in Waiting, UNCHANGED <<watch, txn>>
    PROVE  Steady
<1>1. Keeps(s)
  BY DEF Keeps, Engaged
<1>2. \A x \in Slots : Keeps(x)
  BY <1>1, KeepsOthers
<1> QED BY <1>2 DEF Steady, ClaimInv

LEMMA SteadySame ==
    ASSUME TypeInv, ClaimInv, Claims(rows'), UNCHANGED <<disp, kid, txn>>,
           watch'.job \in {"none", "enqueue", "paused"}
    PROVE  Steady
BY KeepsSame DEF Steady, ClaimInv


LEMMA KillKeeps ==
    ASSUME TypeInv, ClaimInv, NEW P, AfterKill(P), NEW x \in Slots
    PROVE  Keeps(x)
<1>0. "idle" \notin Waiting /\ "crashed" \in Waiting /\ "retryable" \notin Live /\ "none" \notin Live
  BY DEF Waiting, Live
<1>1. \/ disp'[x] = disp[x]
      \/ disp'[x].pc = "idle"
      \/ disp'[x].pc = "crashed" /\ disp'[x].row = disp[x].row /\ disp[x].pc # "idle"
  BY DEF AfterKill, RunningDispatchers, Orphaned, Idle, Disp
<1>2. kid'[x] \in Live => kid'[x] = kid[x] /\ disp'[x].pc # "idle"
  BY <1>0 DEF AfterKill, RunningDispatchers, Orphaned, Disp, ClaimInv
<1>3. kid'[x] \in Live => disp'[x].pc \in Waiting
  BY <1>0, <1>1, <1>2 DEF ClaimInv
<1> QED BY <1>1, <1>3 DEF Keeps, Engaged

LEMMA MirroredTyped ==
    ASSUME TypeInv, NEW s \in Slots
    PROVE  Mirrored(s) \in [Rows -> Row]
<1>1. disp[s].final \in RowStatuses /\ ReasonOf(disp[s].rc) \in Reasons
  BY DEF Disp, RowStatuses, ReasonOf, Reasons
<1>2. RowOf(s) \in Rows =>
        Moved(rows[RowOf(s)], rows[RowOf(s)].status, disp[s].final, ReasonOf(disp[s].rc)) \in Row
  <2> SUFFICES ASSUME RowOf(s) \in Rows
               PROVE  Moved(rows[RowOf(s)], rows[RowOf(s)].status, disp[s].final,
                            ReasonOf(disp[s].rc)) \in Row
    OBVIOUS
  <2>1. rows[RowOf(s)] \in Row /\ rows[RowOf(s)].status \in RowStatuses
    BY DEF Row
  <2> QED BY <1>1, <2>1, RowWrites
<1> QED BY <1>2 DEF Mirrored

LEMMA SteadyDispatcher ==
    ASSUME TypeInv, ClaimInv, NEW s \in Slots, DispatcherStep(s)
    PROVE  Steady
<1>0. /\ disp[s] \in Disp /\ disp[s].final \notin Open
      /\ {"paused", "failed", "done"} \cap Open = {}
      /\ disp[s].pc \notin Waiting => kid[s] \notin Live
  BY DEF Disp, Open, ClaimInv
<1>a. ASSUME NEW from, NEW to, to \notin Open, NEW why
      PROVE  Claims([rows EXCEPT ![RowOf(s)] = Moved(rows[RowOf(s)], from, to, why)])
  BY <1>a, ClaimsMove
<1>b. "failed" \notin Open /\ "paused" \notin Open
  BY DEF Open
<1>c. Claims(Mirrored(s))
  BY <1>0, <1>a, ClaimsRows DEF Mirrored
<1>1. ASSUME \/ ResolveOk(s) \/ ResolveIsolation(s) \/ Spawn(s) \/ Reconcile(s)
      PROVE  Steady
  <2>1. Engaged(s) /\ UNCHANGED <<rows, watch, txn>>
    BY <1>1 DEF ResolveOk, ResolveIsolation, Spawn, Reconcile, Engaged
  <2>2. /\ \A x \in Slots : x # s => disp'[x] = disp[x] /\ kid'[x] = kid[x]
        /\ disp'[s].row = disp[s].row
        /\ kid'[s] \in Live => disp'[s].pc \in Waiting
    BY <1>0, <1>1 DEF ResolveOk, ResolveIsolation, Spawn, Reconcile, Disp, Waiting
  <2> QED BY <2>1, <2>2, ClaimsRows, SteadyOn
<1>2. ASSUME RecordPid(s) \/ ClearPid(s) \/ SetReason(s)
      PROVE  Steady
  <2>1. Engaged(s) /\ UNCHANGED <<watch, txn>>
    BY <1>2 DEF RecordPid, ClearPid, SetReason, Engaged
  <2>2. Claims(rows')
    <3>1. CASE RecordPid(s)
      BY <3>1, ClaimsColumns DEF RecordPid
    <3>2. CASE ClearPid(s)
      BY <3>2, ClaimsColumns DEF ClearPid
    <3>3. CASE SetReason(s)
      BY <3>3, ClaimsColumns DEF SetReason
    <3> QED BY <1>2, <3>1, <3>2, <3>3
  <2>3. /\ \A x \in Slots : x # s => disp'[x] = disp[x] /\ kid'[x] = kid[x]
        /\ disp'[s].row = disp[s].row
        /\ kid'[s] \in Live => disp'[s].pc \in Waiting
    BY <1>0, <1>2 DEF RecordPid, ClearPid, SetReason, Disp, Waiting, Live
  <2> QED BY <2>1, <2>2, <2>3, SteadyOn
<1>3. ASSUME MarkFailed(s) \/ Settle(s)
      PROVE  Steady
  <2>1. Engaged(s) /\ UNCHANGED <<watch, txn, kid>> /\ kid[s] \notin Live
    BY <1>0, <1>3 DEF MarkFailed, Settle, Engaged, Waiting
  <2>2. Claims(rows')
    <3>1. CASE MarkFailed(s)
      BY <1>a, <1>b, <3>1 DEF MarkFailed
    <3>2. CASE Settle(s)
      BY <1>0, <1>a, <3>2 DEF Settle
    <3> QED BY <1>3, <3>1, <3>2
  <2>3. /\ \A x \in Slots : x # s => disp'[x] = disp[x]
        /\ disp'[s].row = disp[s].row
    BY <1>0, <1>3 DEF MarkFailed, Settle, Disp
  <2> QED BY <2>1, <2>2, <2>3, SteadyOn
<1>4. ASSUME NEW rs \in [Rows -> Row], Leave(s, rs), Claims(rs), disp[s].pc \notin Waiting,
             UNCHANGED <<kid, watch, txn>>
      PROVE  Steady
  BY <1>0, <1>4, SteadyLeave
<1>5. ASSUME NEW pc \in PCs, disp' = [disp EXCEPT ![s].pc = pc], Claims(rows'), Engaged(s),
             disp[s].pc \notin Waiting, UNCHANGED <<kid, watch, txn>>
      PROVE  Steady
  <2>1. /\ \A x \in Slots : x # s => disp'[x] = disp[x]
        /\ disp'[s].row = disp[s].row
    BY <1>0, <1>5 DEF Disp
  <2> QED BY <1>0, <1>5, <2>1, SteadyOn
<1>6. ASSUME ResolveDirty(s) PROVE Steady
  <2> DEFINE rs == [rows EXCEPT ![RowOf(s)] = Moved(rows[RowOf(s)], "pending", "paused", "none")]
  <2>1. rs \in [Rows -> Row] /\ Claims(rs)
    BY <1>a, <1>b, RowWrites DEF RowStatuses, Reasons
  <2>2. Leave(s, rs) /\ disp[s].pc \notin Waiting /\ UNCHANGED <<kid, watch, txn>>
    BY <1>6 DEF ResolveDirty, Waiting
  <2> HIDE DEF rs
  <2> QED BY <1>4, <2>1, <2>2
<1>7. ASSUME LockTimeout(s) PROVE Steady
  <2>1. disp[s].pc \notin Waiting /\ Engaged(s) /\ UNCHANGED <<kid, watch, txn>>
    BY <1>7 DEF LockTimeout, Waiting, Engaged
  <2>2. CASE disp' = [disp EXCEPT ![s].pc = "mirror"] /\ UNCHANGED rows
    BY <1>5, <2>1, <2>2, ClaimsRows DEF PCs
  <2>3. CASE Leave(s, rows)
    BY <1>4, <2>1, <2>3, ClaimsRows
  <2> QED BY <1>7, <2>2, <2>3 DEF LockTimeout
<1>8. ASSUME Mirror(s) PROVE Steady
  <2>1. disp[s].pc \notin Waiting /\ Engaged(s) /\ UNCHANGED <<kid, watch, txn>>
    BY <1>8 DEF Mirror, Waiting, Engaged
  <2>2. CASE disp[s].rc \in NotRetryable
    BY <1>5, <1>8, <1>c, <2>1, <2>2 DEF Mirror, PCs
  <2>3. CASE disp[s].rc \notin NotRetryable
    <3>1. Mirrored(s) \in [Rows -> Row]
      BY MirroredTyped
    <3> QED BY <1>4, <1>8, <1>c, <2>1, <2>3, <3>1 DEF Mirror
  <2> QED BY <2>2, <2>3
<1>9. ASSUME BumpRetry(s) PROVE Steady
  <2> DEFINE bumped == [rows EXCEPT ![RowOf(s)].retry = disp[s].max]
  <2>1. disp[s].pc \notin Waiting /\ Engaged(s) /\ UNCHANGED <<kid, watch, txn>>
    BY <1>9 DEF BumpRetry, Waiting, Engaged
  <2>2. bumped \in [Rows -> Row] /\ Claims(bumped)
    BY <1>0, ColumnWrites, ClaimsColumns DEF Disp
  <2>3. \/ rows' = bumped /\ disp' = [disp EXCEPT ![s].pc = "unclaim"]
        \/ Leave(s, bumped)
    BY <1>9 DEF BumpRetry
  <2> HIDE DEF bumped
  <2> QED BY <1>4, <1>5, <2>1, <2>2, <2>3 DEF PCs
<1>10. ASSUME Unclaim(s) PROVE Steady
  <2> DEFINE rs == [rows EXCEPT ![RowOf(s)].pid = None]
  <2>1. disp[s].pc \notin Waiting /\ UNCHANGED <<kid, watch, txn>> /\ Leave(s, rs)
    BY <1>10 DEF Unclaim, Waiting
  <2>2. rs \in [Rows -> Row] /\ Claims(rs)
    BY ColumnWrites, ClaimsColumns DEF Pids
  <2> HIDE DEF rs
  <2> QED BY <1>4, <2>1, <2>2
<1> QED BY <1>1, <1>2, <1>3, <1>6, <1>7, <1>8, <1>9, <1>10 DEF DispatcherStep

\* A crash or a kill leaves a slot free, or orphans its launcher.
LEMMA SteadyProcesses ==
    ASSUME TypeInv, ClaimInv, NEW s \in Slots, Crash(s) \/ KidStep(s)
    PROVE  Steady
<1>1. ASSUME NEW P, Bury(P), watch' = watch, \A x \in Slots : Keeps(x) PROVE Steady
  BY <1>1, ClaimsRows, ClaimsBuried DEF Bury, Steady, ClaimInv
<1>2. ASSUME Crash(s) PROVE Steady
  <2>1. ASSUME NEW x \in Slots PROVE Keeps(x)
    BY <1>2, KillKeeps DEF Crash
  <2> QED BY <1>1, <1>2, <2>1 DEF Crash
<1>3. ASSUME AgentStarts(s) PROVE Steady
  <2>1. disp[s].pc \in Waiting /\ Engaged(s)
    BY <1>3 DEF AgentStarts, ClaimInv, Live, Waiting, Engaged
  <2> QED BY <1>3, <2>1, ClaimsRows, SteadyOn DEF AgentStarts
<1>4. ASSUME NEW rc, rc \notin Live, kid[s] \in Live, KidEnds(s, rc) PROVE Steady
  <2>1. ASSUME NEW x \in Slots PROVE Keeps(x)
    <3>1. CASE x = s
      BY <1>4, <3>1 DEF KidEnds, Keeps, Engaged, Idle, Live, ClaimInv
    <3>2. CASE x # s
      BY <1>4, <3>2, KeepsOthers DEF KidEnds
    <3> QED BY <3>1, <3>2
  <2>2. CASE disp[s].pc = "crashed"
    BY <1>1, <1>4, <2>1, <2>2 DEF KidEnds
  <2>3. CASE disp[s].pc # "crashed"
    BY <1>4, <2>1, <2>3, ClaimsRows DEF KidEnds, Steady, ClaimInv
  <2> QED BY <2>2, <2>3
<1>5. Failures \cap Live = {} /\ "ok" \notin Live /\ "blocked" \notin Live
      /\ "starting" \in Live /\ "working" \in Live
  BY FailuresAssumption DEF Live
<1> QED BY <1>2, <1>3, <1>4, <1>5 DEF KidStep, GateBlocks, AgentFails, AgentFinishes

LEMMA SteadyCommands ==
    ASSUME TypeInv, ClaimInv, NEW t \in TaskIds,
           \/ \E a \in Agents : Enqueue(t, a)
           \/ \E st \in ReportedStatuses : ReportStatus(t, st)
           \/ \E st \in OperatorStatuses : SetTaskStatus(t, st)
           \/ CommandStep(t) \/ HookRead(t)
    PROVE  Steady
<1>0. ASSUME Claims(rows'), UNCHANGED <<disp, kid, watch, txn>> PROVE Steady
  BY <1>0, SteadySame DEF ClaimInv
<1>1. ASSUME NEW a \in Agents, Enqueue(t, a) PROVE Steady
  BY <1>0, <1>1, ClaimsInsert DEF Enqueue
<1>2. ASSUME NEW st, ReportStatus(t, st) \/ SetTaskStatus(t, st) PROVE Steady
  BY <1>0, <1>2, ClaimsRows DEF ReportStatus, SetTaskStatus
<1>3. ASSUME NEW to \in {"done", "failed"}, SyncInbox(t, to) PROVE Steady
  <2>1. Claims(rows')
    BY <1>3 DEF SyncInbox, Claims, Open, Row
  <2> QED BY <1>0, <1>3, <2>1 DEF SyncInbox
<1>4. ASSUME EnsureActiveInbox(t) PROVE Steady
  BY <1>0, <1>4, ClaimsRows, ClaimsInsert DEF EnsureActiveInbox
<1>5. ASSUME HookRead(t) \/ HookStop(t) PROVE Steady
  BY <1>0, <1>5, ClaimsRows DEF HookRead, HookStop
<1>6. ASSUME HookSync(t) PROVE Steady
  <2>1. \A r \in Rows : Synced(rows[r], t, "stopped").status \in {rows[r].status, "stopped"}
    BY DEF Synced, Row
  <2>2. Claims(rows')
    BY <1>6, <2>1 DEF HookSync, Claims, Open
  <2> QED BY <1>0, <1>6, <2>2 DEF HookSync
<1>7. ASSUME HookPause(t) PROVE Steady
  <2>1. \A from : \A r \in Rows : Claims([rows EXCEPT ![r] = Moved(rows[r], from, "paused", "none")])
    BY ClaimsMove DEF Open
  <2>2. Claims(rows')
    BY <1>7, <2>1, ClaimsRows DEF HookPause
  <2> QED BY <1>0, <1>7, <2>2 DEF HookPause
<1> QED BY <1>1, <1>2, <1>3, <1>4, <1>5, <1>6, <1>7 DEF CommandStep

LEMMA SteadyWatcher ==
    ASSUME TypeInv, ClaimInv, Jobs \subseteq {"enqueue", "paused"},
           \/ \E j \in Jobs : Begin(j)
           \/ \E t \in TaskIds : EnqueueBegin(t)
           \/ WatcherStep
    PROVE  Steady
<1>1. ASSUME NEW j \in Jobs, Begin(j) PROVE Steady
  BY <1>1, ClaimsRows, SteadySame DEF Begin, NoJob
<1>2. ASSUME NEW t \in TaskIds, EnqueueBegin(t) PROVE Steady
  BY <1>2, ClaimsRows, SteadySame DEF EnqueueBegin, NoJob
<1>3. NoJob.job = "none"
  BY DEF NoJob
<1>4. ASSUME PausedWrite PROVE Steady
  <2>1. \A r \in Rows : Moved(rows[r], "paused", "failed", "none").status \in {rows[r].status, "failed"}
    BY CalmMoved
  <2>2. Claims(rows')
    BY <1>4, <2>1 DEF PausedWrite, Claims, Open
  <2> QED BY <1>3, <1>4, <2>2, SteadySame DEF PausedWrite, EndJob
<1>5. ASSUME EnqueueWrite PROVE Steady
  BY <1>3, <1>5, ClaimsRows, ClaimsInsert, SteadySame DEF EnqueueWrite, EndJob
<1>6. WatcherStep => PausedWrite \/ EnqueueWrite
  BY DEF WatcherStep, ClaimInv, Look, AtRow, RetryRow, ReassignRow, RecoverBlocked, RecoverFinished,
         RecoverReroute, Recoverable, RecoverEscalate, Commit, ZombieJudge, ZombieWrite
<1> QED BY <1>1, <1>2, <1>4, <1>5, <1>6

\* The claim takes a row that no dispatcher has.
LEMMA ClaimTakes ==
    ASSUME TypeInv, ClaimInv, NEW s \in Slots, NEW a \in Agents, Claim(s, a)
    PROVE  ClaimInv'
<1>1. PICK r \in Rows : /\ rows[r].status = "pending"
                        /\ rows' = [rows EXCEPT ![r] = Claimed(rows[r], DispatcherPid(s))]
                        /\ disp' = [disp EXCEPT ![s] = [Idle EXCEPT !.pc = "resolve", !.row = r,
                                                                    !.max = rows[r].max]]
  BY DEF Claim, NextPending
<1>2. /\ disp'[s].pc = "resolve" /\ disp'[s].row = r
      /\ \A x \in Slots : x # s => disp'[x] = disp[x]
      /\ disp[s].pc = "idle"
      /\ UNCHANGED <<kid, watch, txn>>
  BY <1>1 DEF Claim, Idle
<1>3. /\ rows'[r].status = "launched"
      /\ \A q \in Rows : q # r => rows'[q] = rows[q]
  BY <1>1 DEF Claimed, Row
<1>4. \A x \in Slots : x # s /\ Engaged(x) => disp[x].row # r
  BY <1>1 DEF ClaimInv, Open
<1>5. kid[s] \notin Live
  BY <1>2 DEF ClaimInv, Waiting
<1>6. \A x \in Slots : Engaged(x)' => /\ disp'[x].row \in Rows
                                      /\ rows'[disp'[x].row].status \notin Open
  BY <1>2, <1>3 DEF ClaimInv, Engaged, Open
<1>7. \A x, q \in Slots : x # q /\ Engaged(x)' /\ Engaged(q)' => disp'[x].row # disp'[q].row
  BY <1>2, <1>4 DEF ClaimInv, Engaged
<1>8. \A x \in Slots : kid'[x] \in Live => disp'[x].pc \in Waiting
  BY <1>2, <1>5 DEF ClaimInv
<1> QED BY <1>2, <1>6, <1>7, <1>8 DEF ClaimInv

LEMMA ClaimNext ==
    ASSUME TypeInv, ClaimInv, [Next]_vars, Jobs \subseteq {"enqueue", "paused"}
    PROVE  ClaimInv'
<1>1. CASE UNCHANGED vars
  BY <1>1, ClaimsRows, SteadySame, SteadyClaims DEF vars, ClaimInv
<1> QED BY <1>1, ClaimTakes, SteadyDispatcher, SteadyProcesses, SteadyCommands, SteadyWatcher,
           SteadyClaims DEF Next

LEMMA ClaimsExclude == ClaimInv => OneAgentPerRow
<1> SUFFICES ASSUME ClaimInv, NEW r \in Rows PROVE Cardinality(WorkingOn(r)) <= 1
  BY DEF OneAgentPerRow
<1>1. ASSUME NEW s \in WorkingOn(r) PROVE s \in Slots /\ Engaged(s) /\ disp[s].row = r
  BY DEF WorkingOn, RowOf, ClaimInv, Waiting, Engaged
<1>2. CASE WorkingOn(r) = {}
  BY <1>2, FS_EmptySet
<1>3. CASE WorkingOn(r) # {}
  <2>1. PICK s : s \in WorkingOn(r)
    BY <1>3
  <2>2. WorkingOn(r) = {s}
    BY <1>1, <2>1 DEF ClaimInv
  <2> QED BY <2>2, FS_Singleton
<1> QED BY <1>2, <1>3

\* Claims of rows are exclusive, for any number of dispatchers, whatever crashes and
\* whatever the commands and the session hook write: an item has two launchers only
\* where a job of the watcher has put its row back to pending (which retry,
\* reassignment and recovery mean to do, and the zombie job does with a row it read
\* as pending).
THEOREM ClaimsExclusive ==
    ASSUME Jobs \subseteq {"enqueue", "paused"}
    PROVE  Spec => []OneAgentPerRow
<1>1. Init => ClaimInv
  BY DEF Init, ClaimInv, Engaged, Idle, NoJob, Live
<1>2. TypeInv /\ ClaimInv /\ [Next]_vars => ClaimInv'
  BY ClaimNext
<1> QED BY <1>1, <1>2, TypeInit, TypeNext, ClaimsExclude, PTL DEF Spec
=============================================================================

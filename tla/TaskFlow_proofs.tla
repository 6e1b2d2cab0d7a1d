---------------------------- MODULE TaskFlow_proofs ----------------------------
(***************************************************************************)
(* For any owner, reviewers, profile, commands and number of moves: what    *)
(* the writers of a task keep of its contract lock and of its course.       *)
(***************************************************************************)
EXTENDS TaskFlow, TLAPS

\* What the bodies of LockHolds and CourseKept ask of a step.
LockKept ==
    task.locked /\ ~task'.locked =>
        \/ task'.status \in {"done", "archived"}
        \/ task.status = "review_failed" /\ task'.status = "plan_proposed"

OnCourse ==
    task.locked /\ task'.status # task.status =>
        \/ task'.status \in Legal[task.status] \cup {"archived", "failed", "done"}
        \/ task.status = "review_requested" /\ task'.status = "report_ready" /\ task.asked
        \/ task'.status = "plan_approved" /\ moves' # moves
        \/ mcp' # mcp
        \/ task'.status = "plan_proposed" /\ watch.job = "bootstrap"

\* The watcher's decision is one of its job: an agent to dispatch, or the way
\* out of a status that has lasted too long. review_requested_at, once set, is
\* only cleared by the watcher itself, so what the timeout job read still holds.
WatchInv ==
    /\ watch.job = "dispatch" => watch.what \in Agents
    /\ watch.job = "timeout" =>
          \/ watch.what \in {"archived", "failed"}
          \/ /\ watch.what = "report_ready" /\ watch.snap.status = "review_requested"
             /\ task.asked

DashInv == dash[1] # "idle" => dash[2] \in Reviewers

IInv == TypeOK /\ WatchInv /\ DashInv

\* What a step must show: types, and the two action properties.
Kept == IInv' /\ LockKept /\ OnCourse

WatchRec == [job : Jobs \cup {"idle", "mirror"}, snap : TaskRec, left : SUBSET Reviewers,
             got : BOOLEAN, what : TaskStatuses \cup Agents \cup {None}]

------------------------------------------------------------------------------
(* The row.                                                                 *)

LEMMA LegalTyped == \A s \in TaskStatuses : Legal[s] \subseteq TaskStatuses
BY DEF Legal, TaskStatuses

LEMMA PlainTyped ==
    ASSUME NEW s \in TaskStatuses
    PROVE  Plain(s) \in TaskRec /\ Plain(s).status = s
BY DEF Plain, TaskRec

\* Only the way from a failed review to a new plan releases the lock.
LEMMA MovedKeeps ==
    ASSUME NEW t \in TaskRec, NEW to \in TaskStatuses
    PROVE  /\ Moved(t, to) \in TaskRec
           /\ Moved(t, to).status = to /\ Moved(t, to).asked = t.asked
           /\ t.locked /\ ~Moved(t, to).locked
                 => t.status = "review_failed" /\ to = "plan_proposed"
BY DEF Moved, TaskRec

\* A write of the status alone.
LEMMA StatusKeeps ==
    ASSUME NEW t \in TaskRec, NEW to \in TaskStatuses
    PROVE  /\ [t EXCEPT !.status = to] \in TaskRec
           /\ [t EXCEPT !.status = to].status = to
           /\ [t EXCEPT !.status = to].asked = t.asked
           /\ [t EXCEPT !.status = to].locked = t.locked
BY DEF TaskRec

LEMMA SetKeeps ==
    ASSUME task \in TaskRec, NEW to, Set(to)
    PROVE  /\ task' \in TaskRec /\ LockKept /\ OnCourse
           /\ task.asked => task'.asked
<1>1. CASE to \in Legal[task.status]
  <2>1. to \in TaskStatuses
    BY <1>1, LegalTyped DEF TaskRec
  <2> QED BY <1>1, <2>1, MovedKeeps DEF Set, LockKept, OnCourse
<1>2. CASE to \notin Legal[task.status]
  BY <1>2 DEF Set, LockKept, OnCourse
<1> QED BY <1>1, <1>2

\* The stale row of a job never gets past a lock.
LEMMA MirrorKeeps ==
    ASSUME task \in TaskRec, NEW t \in TaskRec, Mirror(t)
    PROVE  task' \in TaskRec /\ LockKept /\ OnCourse
BY DEF Mirror, TaskRec, LockKept, OnCourse

LEMMA TimeoutTyped ==
    ASSUME NEW t \in TaskRec, NEW to \in Timeout(t)
    PROVE  \/ to \in {"archived", "failed"}
           \/ to = "report_ready" /\ t.status = "review_requested" /\ t.asked
BY DEF Timeout, TaskRec

LEMMA IdleTyped == Idle \in WatchRec /\ Idle.job = "idle"
<1>1. "todo" \in TaskStatuses
  BY DEF TaskStatuses
<1> QED BY <1>1, PlainTyped DEF Idle, WatchRec

LEMMA BegunTyped ==
    ASSUME NEW j \in Jobs, task \in TaskRec
    PROVE  Begun(j) \in WatchRec /\ Begun(j).job = j /\ Begun(j).snap = task
BY IdleTyped DEF Begun, Idle, WatchRec

LEMMA EndsTyped == Ends => watch' \in WatchRec /\ WatchInv'
BY IdleTyped DEF Ends, WatchInv

\* What a step that leaves the row alone has to show.
LEMMA RowKept ==
    ASSUME task' = task
    PROVE  LockKept /\ OnCourse
BY DEF LockKept, OnCourse

------------------------------------------------------------------------------
(* Agents, people and the commands that have begun.                         *)

LEMMA InitTyped == Init => IInv
<1> SUFFICES ASSUME Init PROVE IInv
  OBVIOUS
<1>1. moves \in 0..MaxMoves /\ task \in TaskRec
  BY MovesAssumption, BeginAssumption DEF Init
<1>2. TypeOK
  BY <1>1, IdleTyped DEF Init, TypeOK, WatchRec
<1> QED BY <1>2, IdleTyped DEF Init, IInv, WatchInv, DashInv

\* One more move.
LEMMA MoveCounts ==
    ASSUME TypeOK, Move
    PROVE  moves' \in 0..MaxMoves /\ moves' # moves
BY MovesAssumption DEF TypeOK, Move

\* Whoever is not the watcher leaves its job alone, and review_requested_at.
LEMMA WatchKept ==
    ASSUME IInv, UNCHANGED watch, task.asked => task'.asked
    PROVE  WatchInv'
BY DEF IInv, WatchInv

LEMMA PeopleKeep == IInv /\ People => Kept
<1> SUFFICES ASSUME IInv, People PROVE Kept
  OBVIOUS
<1> USE DEF IInv, TypeOK, Kept
<1>1. ASSUME NEW to \in AgentTargets, AgentStatus(to) PROVE Kept
  <2>1. to \in TaskStatuses /\ to \in Legal[task.status]
    BY <1>1, MovesAssumption DEF AgentStatus
  <2>2. /\ task' \in TaskRec /\ task'.status = to /\ task'.locked = task.locked
        /\ task.asked => task'.asked
    BY <1>1, <2>1 DEF AgentStatus, TaskRec
  <2>3. LockKept /\ OnCourse
    BY <2>1, <2>2 DEF LockKept, OnCourse
  <2>4. after' \in {"none", "settle_done", "settle_failed", "approve", "enqueue"}
    BY <1>1 DEF AgentStatus
  <2> QED BY <1>1, <2>2, <2>3, <2>4, MoveCounts, WatchKept DEF AgentStatus, DashInv
<1>2. ASSUME NEW kind \in {"untested", "tested"}, HandIn(kind) PROVE Kept
  BY <1>2, MoveCounts, WatchKept, RowKept DEF HandIn, DashInv
<1>3. ASSUME NEW r \in Reviewers, NEW v \in {"lgtm", "rejected"}, Verdict(r, v) PROVE Kept
  BY <1>3, WatchKept, RowKept DEF Verdict, DashInv
<1>4. CASE ApproveCommand
  <2>1. "plan_approved" \in TaskStatuses
    BY DEF TaskStatuses
  <2>2. /\ task' \in TaskRec /\ task'.locked = task.locked /\ task'.asked = task.asked
        /\ task'.status = "plan_approved"
    BY <1>4, <2>1, StatusKeeps DEF ApproveCommand
  <2>3. LockKept /\ OnCourse
    BY <1>4, <2>2, MoveCounts DEF ApproveCommand, LockKept, OnCourse
  <2> QED BY <1>4, <2>2, <2>3, MoveCounts, WatchKept DEF ApproveCommand, DashInv
<1>5. CASE Verify
  <2>1. /\ task' \in TaskRec /\ task'.locked = task.locked /\ task'.asked = task.asked
        /\ task'.status = task.status
    BY <1>5 DEF Verify, TaskRec
  <2>2. LockKept /\ OnCourse
    BY <2>1 DEF LockKept, OnCourse
  <2> QED BY <1>5, <2>1, <2>2, MoveCounts, WatchKept DEF Verify, DashInv
<1>6. ASSUME NEW how, Close(how) PROVE Kept
  <2>1. "done" \in TaskStatuses
    BY DEF TaskStatuses
  <2>2. /\ task' \in TaskRec /\ task'.locked = task.locked /\ task'.asked = task.asked
        /\ task'.status = "done"
    BY <1>6, <2>1, StatusKeeps DEF Close
  <2>3. LockKept /\ OnCourse
    BY <2>2 DEF LockKept, OnCourse
  <2> QED BY <1>6, <2>2, <2>3, MoveCounts, WatchKept DEF Close, DashInv
<1>7. CASE ArchiveDone
  <2>1. "archived" \in TaskStatuses
    BY DEF TaskStatuses
  <2>2. /\ task' \in TaskRec /\ task'.locked = task.locked /\ task'.asked = task.asked
        /\ task'.status = "archived"
    BY <1>7, <2>1, StatusKeeps DEF ArchiveDone
  <2>3. LockKept /\ OnCourse
    BY <2>2 DEF LockKept, OnCourse
  <2> QED BY <1>7, <2>2, <2>3, MoveCounts, WatchKept DEF ArchiveDone, DashInv
<1>8. ASSUME NEW to \in McpTargets, McpRead(to) PROVE Kept
  BY <1>8, MovesAssumption, MoveCounts, WatchKept, RowKept DEF McpRead, DashInv
<1>9. ASSUME NEW m \in DashMoves, DashMove(m[1], m[2]) PROVE Kept
  <2>1. m[2] \in Legal[task.status] /\ m[2] \in TaskStatuses
    BY <1>9, LegalTyped DEF DashMove, TaskRec
  <2>2. /\ task' \in TaskRec /\ task'.asked = task.asked /\ task'.status = m[2]
        /\ LockKept
    BY <1>9, <2>1, MovedKeeps DEF DashMove, LockKept
  <2>3. OnCourse
    BY <2>1, <2>2 DEF OnCourse
  <2> QED BY <1>9, <2>2, <2>3, MoveCounts, WatchKept DEF DashMove, DashInv
<1>10. ASSUME NEW r \in Reviewers, ReviewCheck(r) PROVE Kept
  BY <1>10, MoveCounts, WatchKept, RowKept DEF ReviewCheck, DashInv
<1>11. CASE ApproveUnreviewed
  BY <1>11, MoveCounts, WatchKept, RowKept DEF ApproveUnreviewed, DashInv
<1> QED BY <1>1, <1>2, <1>3, <1>4, <1>5, <1>6, <1>7, <1>8, <1>9, <1>10, <1>11 DEF People

LEMMA CommitKeeps == IInv /\ Commit => Kept
<1> SUFFICES ASSUME IInv, Commit PROVE Kept
  OBVIOUS
<1> USE DEF IInv, TypeOK, Kept
<1>1. CASE Settle
  BY <1>1, WatchKept, RowKept DEF Settle, DashInv
<1>2. CASE Approve
  <2>1. CASE "plan_approved" \in Legal[task.status]
    <3>1. "plan_approved" \in TaskStatuses
      BY DEF TaskStatuses
    <3>2. /\ task' \in TaskRec /\ task'.locked = task.locked /\ task'.asked = task.asked
          /\ task'.status = "plan_approved"
      <4>1. task' = [task EXCEPT !.status = "plan_approved"]
        BY <1>2, <2>1 DEF Approve
      <4> QED BY <3>1, <4>1, StatusKeeps
    <3>3. LockKept /\ OnCourse
      BY <2>1, <3>2 DEF LockKept, OnCourse
    <3> QED BY <1>2, <2>1, <3>2, <3>3, WatchKept DEF Approve, DashInv
  <2>2. CASE "plan_approved" \notin Legal[task.status]
    BY <1>2, <2>2, WatchKept, RowKept DEF Approve, DashInv
  <2> QED BY <2>1, <2>2
<1>3. CASE EnqueueOwner
  BY <1>3, WatchKept, RowKept DEF EnqueueOwner, DashInv, Agents
<1>4. CASE McpWrite
  <2>1. mcp \in TaskStatuses /\ mcp' # mcp
    BY <1>4 DEF McpWrite
  <2>2. /\ task' \in TaskRec /\ task'.locked = task.locked /\ task'.asked = task.asked
    BY <1>4, <2>1, StatusKeeps DEF McpWrite
  <2>3. LockKept /\ OnCourse
    BY <2>1, <2>2 DEF LockKept, OnCourse
  <2> QED BY <1>4, <2>2, <2>3, WatchKept DEF McpWrite, DashInv
<1>5. CASE ReviewEnqueue
  <2>1. dash[2] \in Reviewers
    BY <1>5 DEF ReviewEnqueue, DashInv
  <2>2. active' \subseteq Agents
    BY <1>5, <2>1 DEF ReviewEnqueue, Agents
  <2>3. /\ dash' \in {"idle", "enqueue", "mark"} \X (Reviewers \cup {None})
        /\ DashInv'
    BY <1>5, <2>1 DEF ReviewEnqueue, DashInv
  <2> QED BY <1>5, <2>2, <2>3, WatchKept, RowKept DEF ReviewEnqueue
<1>6. CASE ReviewMark
  <2>1. task' \in TaskRec /\ LockKept /\ OnCourse /\ (task.asked => task'.asked)
    BY <1>6, SetKeeps, RowKept DEF ReviewMark
  <2> QED BY <1>6, <2>1, WatchKept DEF ReviewMark, DashInv
<1> QED BY <1>1, <1>2, <1>3, <1>4, <1>5, <1>6 DEF Commit

------------------------------------------------------------------------------
(* The watcher.                                                             *)

LEMMA StartsKeep ==
    ASSUME IInv, NEW w \in WatchRec, Starts(w),
           w.job = "dispatch" => w.what \in Agents,
           w.job = "timeout" =>
              \/ w.what \in {"archived", "failed"}
              \/ w.what = "report_ready" /\ w.snap.status = "review_requested" /\ task.asked
    PROVE  Kept
<1>1. WatchInv'
  BY DEF Starts, WatchInv
<1>2. TypeOK'
  BY DEF Starts, IInv, TypeOK, WatchRec
<1> QED BY <1>1, <1>2, RowKept DEF Starts, IInv, DashInv, Kept

LEMMA ReadsKeep == IInv /\ WatcherRead => Kept
<1> SUFFICES ASSUME IInv, WatcherRead PROVE Kept
  OBVIOUS
<1>0. task \in TaskRec
  BY DEF IInv, TypeOK
<1>1. ASSUME NEW j \in Jobs \ {"dispatch", "timeout"}, Starts(Begun(j)) PROVE Kept
  BY <1>0, <1>1, BegunTyped, StartsKeep
<1>2. CASE ReadArchive
  BY <1>1, <1>2 DEF ReadArchive, Jobs
<1>3. CASE ReadEscalate
  BY <1>1, <1>3 DEF ReadEscalate, Jobs
<1>4. CASE ReadBootstrap
  BY <1>1, <1>4 DEF ReadBootstrap, Jobs
<1>5. CASE ReadVerdict
  <2> DEFINE w(r) == [Begun("verdict") EXCEPT
                        !.what = IF heard[r] = "lgtm" THEN "review_passed" ELSE "review_failed"]
  <2>1. PICK r \in Reviewers : Starts(w(r))
    BY <1>5 DEF ReadVerdict
  <2>2. w(r) \in WatchRec /\ w(r).job = "verdict"
    BY <1>0, BegunTyped DEF WatchRec, TaskStatuses, Jobs
  <2> HIDE DEF w
  <2> QED BY <2>1, <2>2, StartsKeep
<1>6. CASE ReadReport
  <2> DEFINE w == [Begun("report") EXCEPT !.left = Reviewers]
  <2>1. w \in WatchRec /\ w.job = "report"
    BY <1>0, BegunTyped DEF WatchRec, Jobs
  <2>2. Starts(w)
    BY <1>6 DEF ReadReport
  <2> HIDE DEF w
  <2> QED BY <2>1, <2>2, StartsKeep
<1>7. ASSUME NEW to \in TaskStatuses, Starts([Begun("timeout") EXCEPT !.what = to]),
             \/ to \in {"archived", "failed"}
             \/ to = "report_ready" /\ task.status = "review_requested" /\ task.asked
      PROVE  Kept
  <2> DEFINE w == [Begun("timeout") EXCEPT !.what = to]
  <2>1. w \in WatchRec /\ w.job = "timeout" /\ w.what = to /\ w.snap = task
    BY <1>0, BegunTyped DEF WatchRec, Jobs
  <2>2. Starts(w)
    BY <1>7
  <2> HIDE DEF w
  <2> QED BY <1>7, <2>1, <2>2, StartsKeep
<1>8. CASE ReadTimeout
  <2>1. PICK to \in Timeout(task) : Starts([Begun("timeout") EXCEPT !.what = to])
    BY <1>8 DEF ReadTimeout
  <2>2. to \in TaskStatuses
    BY <1>0, TimeoutTyped DEF TaskStatuses
  <2> QED BY <1>0, <1>7, <2>1, <2>2, TimeoutTyped
<1>9. CASE ReadDeadline
  BY <1>7, <1>9 DEF ReadDeadline, TaskStatuses
<1>10. CASE ReadDispatch
  <2>1. PICK a \in Agents : Starts([Begun("dispatch") EXCEPT !.what = a])
    BY <1>10 DEF ReadDispatch, Agents
  <2> DEFINE w == [Begun("dispatch") EXCEPT !.what = a]
  <2>2. w \in WatchRec /\ w.job = "dispatch" /\ w.what = a
    BY <1>0, BegunTyped DEF WatchRec, Jobs
  <2>3. Starts(w)
    BY <2>1
  <2> HIDE DEF w
  <2> QED BY <2>2, <2>3, StartsKeep
<1> QED BY <1>2, <1>3, <1>4, <1>5, <1>6, <1>8, <1>9, <1>10 DEF WatcherRead

LEMMA WritesKeep == IInv /\ WatcherWrite => Kept
<1> SUFFICES ASSUME IInv, WatcherWrite PROVE Kept
  OBVIOUS
<1> USE DEF IInv, TypeOK, Kept
<1>0. /\ task \in TaskRec /\ watch \in WatchRec /\ watch.snap \in TaskRec
      /\ {"archived", "done", "plan_proposed", "failed", "report_ready"} \subseteq TaskStatuses
  BY DEF WatchRec, TaskStatuses
<1>1. CASE WriteArchive
  <2>1. task' \in TaskRec /\ LockKept /\ OnCourse
    BY <1>0, <1>1, PlainTyped DEF WriteArchive, LockKept, OnCourse
  <2> QED BY <1>1, <2>1, EndsTyped DEF WriteArchive, WatchRec, DashInv
<1>2. CASE WriteVerdict
  BY <1>2, SetKeeps, EndsTyped DEF WriteVerdict, WatchRec, DashInv
<1>3. CASE Unverified
  <2>1. task' \in TaskRec /\ LockKept /\ OnCourse
    BY <1>0, <1>3, MirrorKeeps DEF Unverified
  <2> QED BY <1>3, <2>1, EndsTyped DEF Unverified, WatchRec, DashInv
<1>4. ASSUME NEW r \in Reviewers, AskReviewer(r) PROVE Kept
  <2>1. watch' \in WatchRec /\ watch'.job = "report"
    BY <1>0, <1>4 DEF AskReviewer, WatchRec, Enqueueable
  <2>2. active' \subseteq Agents
    BY <1>4 DEF AskReviewer, Agents
  <2> QED BY <1>4, <2>1, <2>2, RowKept DEF AskReviewer, WatchRec, WatchInv, DashInv
<1>5. CASE MarkReview
  <2>1. watch' \in WatchRec /\ watch'.job = "mirror"
    BY <1>0, <1>5 DEF MarkReview, WatchRec
  <2>2. task' \in TaskRec /\ LockKept /\ OnCourse
    BY <1>5, SetKeeps DEF MarkReview
  <2> QED BY <1>5, <2>1, <2>2 DEF MarkReview, WatchRec, WatchInv, DashInv
<1>6. CASE MirrorReport
  <2>1. task' \in TaskRec /\ LockKept /\ OnCourse
    BY <1>0, <1>6, MirrorKeeps DEF MirrorReport
  <2> QED BY <1>6, <2>1, EndsTyped DEF MirrorReport, WatchRec, DashInv
<1>7. CASE CloseReport
  <2>1. task' \in TaskRec /\ LockKept /\ OnCourse
    BY <1>0, <1>7, PlainTyped DEF CloseReport, LockKept, OnCourse
  <2> QED BY <1>7, <2>1, EndsTyped DEF CloseReport, WatchRec, DashInv
<1>8. CASE WriteEscalate
  <2>1. PICK t \in {watch.snap, [watch.snap EXCEPT !.escalated = TRUE],
                     [watch.snap EXCEPT !.asked = TRUE]} : Mirror(t)
    BY <1>8 DEF WriteEscalate
  <2>2. t \in TaskRec
    BY <1>0 DEF TaskRec
  <2>3. task' \in TaskRec /\ LockKept /\ OnCourse
    BY <1>0, <2>1, <2>2, MirrorKeeps
  <2> QED BY <1>8, <2>3, EndsTyped DEF WriteEscalate, WatchRec, DashInv
<1>9. CASE WriteTimeout
  <2>1. watch.what \in TaskStatuses
    BY <1>0, <1>9 DEF WriteTimeout, WatchInv
  <2>2. task' \in TaskRec /\ LockKept
    <3>1. CASE task.status = watch.snap.status
      <4>1. task' = Moved(task, watch.what)
        BY <1>9, <3>1 DEF WriteTimeout
      <4> QED BY <2>1, <4>1, MovedKeeps DEF LockKept
    <3>2. CASE task.status # watch.snap.status
      BY <1>9, <3>2, RowKept DEF WriteTimeout
    <3> QED BY <3>1, <3>2
  <2>3. OnCourse
    <3>1. CASE task.status = watch.snap.status
      <4>1. task' = Moved(task, watch.what)
        BY <1>9, <3>1 DEF WriteTimeout
      <4> QED BY <1>9, <2>1, <3>1, <4>1, MovedKeeps DEF WriteTimeout, WatchInv, OnCourse
    <3>2. CASE task.status # watch.snap.status
      BY <1>9, <3>2, RowKept DEF WriteTimeout
    <3> QED BY <3>1, <3>2
  <2> QED BY <1>9, <2>2, <2>3, EndsTyped DEF WriteTimeout, WatchRec, DashInv
<1>10. CASE WriteBootstrap
  <2>1. task' \in TaskRec /\ LockKept /\ OnCourse
    <3>1. CASE Owner \in active
      BY <1>10, <3>1, RowKept DEF WriteBootstrap
    <3>2. CASE Owner \notin active
      <4>1. task' = [task EXCEPT !.status = "plan_proposed"]
        BY <1>10, <3>2 DEF WriteBootstrap
      <4> QED BY <1>0, <1>10, <4>1, StatusKeeps DEF WriteBootstrap, LockKept, OnCourse
    <3> QED BY <3>1, <3>2
  <2> QED BY <1>10, <2>1, EndsTyped DEF WriteBootstrap, WatchRec, DashInv, Agents
<1>11. CASE WriteDispatch
  <2>1. active' \subseteq Agents
    BY <1>11 DEF WriteDispatch, WatchInv
  <2> QED BY <1>11, <2>1, EndsTyped, RowKept DEF WriteDispatch, WatchRec, DashInv
<1> QED BY <1>1, <1>2, <1>3, <1>4, <1>5, <1>6, <1>7, <1>8, <1>9, <1>10, <1>11 DEF WatcherWrite

LEMMA FlowNext == IInv /\ Next => Kept
<1>1. ASSUME IInv, NEW a \in Agents, RowEnds(a) PROVE Kept
  BY <1>1, WatchKept, RowKept DEF IInv, TypeOK, Kept, RowEnds, DashInv
<1> QED BY <1>1, PeopleKeep, CommitKeeps, ReadsKeep, WritesKeep DEF Next

LEMMA FlowStutters == IInv /\ UNCHANGED vars => IInv'
BY DEF IInv, TypeOK, WatchInv, DashInv, vars

\* Every write of the status is a status, every decision of a watcher job one
\* its write can carry out: for any profile, commands and number of moves.
THEOREM FlowTypeCorrect == Spec => []TypeOK
<1>1. IInv /\ [Next]_vars => IInv'
  BY FlowNext, FlowStutters DEF Kept
<1>2. IInv => TypeOK
  BY DEF IInv
<1> QED BY InitTyped, <1>1, <1>2, PTL DEF Spec

\* A locked contract is released only by the watcher that puts the task away or
\* by the new plan after a failed review, whoever else writes the row.
THEOREM LocksHold == Spec => LockHolds
<1>1. IInv /\ [Next]_vars => IInv'
  BY FlowNext, FlowStutters DEF Kept
<1>2. IInv /\ [Next]_vars =>
        [task.locked /\ ~task'.locked =>
          \/ task'.status \in {"done", "archived"}
          \/ task.status = "review_failed" /\ task'.status = "plan_proposed"]_vars
  BY FlowNext DEF Kept, LockKept
<1> QED BY InitTyped, <1>1, <1>2, PTL DEF Spec, LockHolds

\* Under a lock no stale write of the watcher takes the status off its course.
THEOREM CoursesKept == Spec => CourseKept
<1>1. IInv /\ [Next]_vars => IInv'
  BY FlowNext, FlowStutters DEF Kept
<1>2. IInv /\ [Next]_vars =>
        [task.locked /\ task'.status # task.status =>
          \/ task'.status \in Legal[task.status] \cup {"archived", "failed", "done"}
          \/ task.status = "review_requested" /\ task'.status = "report_ready" /\ task.asked
          \/ task'.status = "plan_approved" /\ moves' # moves
          \/ mcp' # mcp
          \/ task'.status = "plan_proposed" /\ watch.job = "bootstrap"]_vars
  BY FlowNext DEF Kept, OnCourse
<1> QED BY InitTyped, <1>1, <1>2, PTL DEF Spec, CourseKept
=============================================================================

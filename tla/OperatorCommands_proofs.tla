------------------------ MODULE OperatorCommands_proofs ------------------------
(***************************************************************************)
(* For any watchers and any commands: what the lock directory and the lease *)
(* of the watchers keep, whatever they poll, and what the version check of  *)
(* the operator's commands is enough for, however many watchers there are.  *)
(***************************************************************************)
EXTENDS OperatorCommands, TLAPS

\* The steps of a watcher process as its lock sees them: a poll begins a cycle.
PollBegins(p) ==
    /\ proc[p].pc = "start" /\ Goto(p, At("poll"))
    /\ UNCHANGED <<dir, lease, stolen, crashes>>

LockStep(p) == ProcStep(p) \/ PollBegins(p) \/ Crash(p) \/ Terminated(p)

\* A gateway dies.
OtherCrash ==
    /\ crashes < MaxCrashes /\ crashes' = crashes + 1
    /\ UNCHANGED <<dir, lease, proc, stolen>>

LockNext == LeaseAges \/ OtherCrash \/ \E p \in Procs : LockStep(p)

LEMMA NextIsLockNext == [Next]_vars => [LockNext]_lockVars
<1> SUFFICES ASSUME [Next]_vars PROVE [LockNext]_lockVars
  OBVIOUS
<1>1. CASE Lock
  BY <1>1 DEF Lock, Step, LockNext, LockStep
<1>2. ASSUME NEW p \in Procs, Poll(p) PROVE [LockNext]_lockVars
  <2>1. CASE PollRead(p)
    BY <2>1 DEF PollRead, LockNext, LockStep, PollBegins
  <2>2. CASE PollTask(p)
    BY <2>2 DEF PollTask
  <2>3. CASE PollWrite(p)
    BY <2>3 DEF PollWrite
  <2> QED BY <1>2, <2>1, <2>2, <2>3 DEF Poll
<1>3. ASSUME NEW m \in Messages, Receive(m) PROVE [LockNext]_lockVars
  BY <1>3 DEF Receive
<1>4. CASE Gateway
  BY <1>4 DEF Gateway, GatewayRead, GatewayWrite, GatewayPersist
<1>5. CASE GatewayCrash
  BY <1>5 DEF GatewayCrash, LockNext, OtherCrash
<1>6. ASSUME NEW c \in Typed, RunApprove(c) PROVE [LockNext]_lockVars
  BY <1>6 DEF RunApprove
<1>7. CASE UNCHANGED vars
  BY <1>7 DEF vars, lockVars
<1> QED BY <1>1, <1>2, <1>3, <1>4, <1>5, <1>6, <1>7 DEF Next

------------------------------------------------------------------------------
(* The lock directory and the lease.                                        *)

\* Until the first theft a process that got the directory, and has not begun to
\* leave, is the one that made it.
Owns == \A p \in Procs :
    proc[p].pc \in {"pid", "lease", "start", "poll"} => dir # None /\ dir.by = p

LEMMA LockStart == LockInit => LockTypeOK /\ Owns
<1> SUFFICES ASSUME LockInit PROVE LockTypeOK /\ Owns
  OBVIOUS
<1>1. crashes \in 0..MaxCrashes
  BY CrashAssumption DEF LockInit
<1>2. Off \in [pc : PCs, next : Nexts] /\ Off.pc = "off"
  BY DEF Off, PCs, Nexts
<1>3. proc \in [Procs -> [pc : PCs, next : Nexts]] /\ \A p \in Procs : proc[p] = Off
  BY <1>2 DEF LockInit
<1> QED BY <1>1, <1>2, <1>3 DEF LockInit, LockTypeOK, Owns

LEMMA LockTypes == LockTypeOK /\ [LockNext]_lockVars => LockTypeOK'
<1> SUFFICES ASSUME LockTypeOK, [LockNext]_lockVars PROVE LockTypeOK'
  OBVIOUS
<1> USE DEF LockTypeOK, DirRec, LeaseRec, PCs, Nexts, Goto, At, Off
<1>1. CASE LeaseAges
  BY <1>1 DEF LeaseAges
<1>2. CASE OtherCrash
  BY <1>2, CrashAssumption DEF OtherCrash
<1>3. ASSUME NEW p \in Procs, Break(p) \/ Finish(p) \/ PollBegins(p) PROVE LockTypeOK'
  BY <1>3 DEF Break, Finish, PollBegins
<1>4. ASSUME NEW p \in Procs, Mkdir(p) PROVE LockTypeOK'
  BY <1>4 DEF Mkdir
<1>5. ASSUME NEW p \in Procs, WritePid(p) PROVE LockTypeOK'
  BY <1>5 DEF WritePid
<1>6. ASSUME NEW p \in Procs, Acquire(p) PROVE LockTypeOK'
  BY <1>6 DEF Acquire, Acquired
<1>7. ASSUME NEW p \in Procs, Tick(p) PROVE LockTypeOK'
  BY <1>7 DEF Tick
<1>8. ASSUME NEW p \in Procs, Drop(p) PROVE LockTypeOK'
  BY <1>8 DEF Drop
<1>9. ASSUME NEW p \in Procs, Unlink(p) PROVE LockTypeOK'
  BY <1>9 DEF Unlink, Theft
<1>10. ASSUME NEW p \in Procs, Rmdir(p) PROVE LockTypeOK'
  BY <1>10 DEF Rmdir, Theft
<1>11. ASSUME NEW p \in Procs, Crash(p) PROVE LockTypeOK'
  BY <1>11, CrashAssumption DEF Crash
<1>12. ASSUME NEW p \in Procs, Terminated(p) PROVE LockTypeOK'
  BY <1>12, CrashAssumption DEF Terminated
<1>13. CASE UNCHANGED lockVars
  BY <1>13 DEF lockVars
<1> QED BY <1>1, <1>2, <1>3, <1>4, <1>5, <1>6, <1>7, <1>8, <1>9, <1>10, <1>11, <1>12, <1>13
        DEF LockNext, LockStep, ProcStep

LEMMA OwnsNext ==
    ASSUME LockTypeOK, ~stolen => Owns, [LockNext]_lockVars, ~stolen'
    PROVE  Owns'
<1> USE ProcsAssumption, NoneAssumption DEF LockTypeOK, DirRec, Owns, Goto, At, Off
<1>0. ~stolen /\ Owns
  BY DEF LockNext, LeaseAges, OtherCrash, LockStep, ProcStep, Break, Mkdir, WritePid, Acquire,
         Tick, Finish, Drop, Unlink, Rmdir, PollBegins, Crash, Terminated, lockVars
<1>1. CASE LeaseAges \/ OtherCrash
  BY <1>0, <1>1 DEF LeaseAges, OtherCrash
<1>2. ASSUME NEW p \in Procs, Break(p) \/ Finish(p) \/ PollBegins(p) \/ Terminated(p) PROVE Owns'
  BY <1>0, <1>2 DEF Break, Finish, PollBegins, Terminated, Runs
<1>3. ASSUME NEW p \in Procs, Mkdir(p) PROVE Owns'
  BY <1>0, <1>3 DEF Mkdir
<1>4. ASSUME NEW p \in Procs, WritePid(p) PROVE Owns'
  BY <1>0, <1>4 DEF WritePid
<1>5. ASSUME NEW p \in Procs, Acquire(p) \/ Tick(p) \/ Drop(p) PROVE Owns'
  BY <1>0, <1>5 DEF Acquire, Tick, Drop
<1>6. ASSUME NEW p \in Procs, Unlink(p) PROVE Owns'
  BY <1>0, <1>6 DEF Unlink, Theft
<1>7. ASSUME NEW p \in Procs, Rmdir(p) PROVE Owns'
  BY <1>0, <1>7 DEF Rmdir, Theft
<1>8. ASSUME NEW p \in Procs, Crash(p) PROVE Owns'
  BY <1>0, <1>8 DEF Crash
<1>9. CASE UNCHANGED lockVars
  BY <1>0, <1>9 DEF lockVars
<1> QED BY <1>1, <1>2, <1>3, <1>4, <1>5, <1>6, <1>7, <1>8, <1>9 DEF LockNext, LockStep, ProcStep

\* What the step of a process does to a lease that beats.
LEMMA LeaseNext ==
    ASSUME LockTypeOK, [LockNext]_lockVars,
           NEW p \in Procs, lease # None, lease.pid = p, lease.fresh
    PROVE  \/ lease' # None /\ lease'.pid = p
           \/ proc[p].pc = "drop" /\ proc'[p].pc = "unlink"
           \/ crashes' # crashes
<1> USE ProcsAssumption, NoneAssumption DEF LockTypeOK, LeaseRec
<1>1. CASE LeaseAges \/ OtherCrash
  BY <1>1 DEF LeaseAges, OtherCrash
<1>2. ASSUME NEW q \in Procs, LockStep(q), ~Drop(q), ~Crash(q), ~Terminated(q)
      PROVE  lease' # None /\ lease'.pid = p
  BY <1>2 DEF LockStep, ProcStep, Break, Mkdir, WritePid, Acquire, Acquired, Tick, Finish,
              Unlink, Rmdir, PollBegins
<1>3. ASSUME NEW q \in Procs, Drop(q)
      PROVE  (lease' # None /\ lease'.pid = p) \/ (proc[p].pc = "drop" /\ proc'[p].pc = "unlink")
  BY <1>3 DEF Drop, Goto
<1>4. ASSUME NEW q \in Procs, Crash(q) \/ Terminated(q) PROVE crashes' # crashes
  BY <1>4, CrashAssumption DEF Crash, Terminated
<1>5. CASE UNCHANGED lockVars
  BY <1>5 DEF lockVars
<1> QED BY <1>1, <1>2, <1>3, <1>4, <1>5 DEF LockNext

\* Two watchers run side by side only after someone has removed a lock directory
\* that was another's: for any number of watchers, whenever they die.
THEOREM WatchersExcluded == Spec => []LockExcludes
<1> DEFINE Inv == LockTypeOK /\ (~stolen => Owns)
<1>1. Init => Inv
  BY LockStart DEF Init
<1>2. Inv /\ [Next]_vars => Inv'
  BY NextIsLockNext, LockTypes, OwnsNext
<1>3. Inv => LockExcludes
  BY DEF Owns, LockExcludes, Runs
<1> QED BY <1>1, <1>2, <1>3, PTL DEF Spec

\* The lease is never taken from a holder that beats, however many processes
\* come to acquire it and whichever of them die.
THEOREM LeasesKept == Spec => LeaseKept
<1>1. Init => LockTypeOK
  BY LockStart DEF Init
<1>2. LockTypeOK /\ [Next]_vars => LockTypeOK'
  BY NextIsLockNext, LockTypes
<1>3. LockTypeOK /\ [Next]_vars =>
        [\A p \in Procs : lease # None /\ lease.pid = p /\ lease.fresh =>
            \/ lease' # None /\ lease'.pid = p
            \/ proc[p].pc = "drop" /\ proc'[p].pc = "unlink"
            \/ crashes' # crashes]_lockVars
  BY NextIsLockNext, LeaseNext
<1> QED BY <1>1, <1>2, <1>3, PTL DEF Spec, LeaseKept

------------------------------------------------------------------------------
(* The commands.                                                            *)

\* What a watcher's poll knows: while the task is as it was read, its status is
\* one the command may be applied at.
PollInv == \A p \in Procs :
    /\ poll[p].what # "executed"
    /\ poll[p].cmd # None /\ poll[p].what = "apply" /\ poll[p].same
          => status \in ValidFrom(Kind[poll[p].cmd])

\* What the gateway knows: its command is one of the chat, and an outcome it has
\* still to write down is what happened.
GatewayInv ==
    /\ gw.pc # "idle" => gw.cmd \in Messages
    /\ gw.pc = "persist" /\ gw.out = "executed" => gw.cmd \in done

IInv == TypeOK /\ ExecutedIsTrue /\ PollInv /\ GatewayInv

LEMMA CommandsTyped ==
    /\ Target \in [Kinds -> TaskStatuses]
    /\ \A c \in Cmds : Kind[c] \in Kinds
    /\ \A k \in Kinds : Decision(k) \in {"apply", "failed", "skipped"}
    /\ \A k \in Kinds : Decision(k) = "apply" => status \in ValidFrom(k)
    /\ Messages \subseteq Cmds /\ Typed \subseteq Cmds /\ None \notin Cmds
    /\ NoPoll \in PollRec /\ NoPoll.cmd = None /\ NoPoll.what = "read"
    /\ NoMessage \in GatewayRec /\ NoMessage.pc = "idle"
<1>1. Target \in [Kinds -> TaskStatuses]
  BY DEF Target, Kinds, TaskStatuses
<1>2. \A k \in Kinds : Decision(k) \in {"apply", "failed", "skipped"}
  BY DEF Decision, Kinds
<1>3. \A k \in Kinds : Decision(k) = "apply" => status \in ValidFrom(k)
  BY DEF Decision, Kinds
<1>4. NoPoll \in PollRec /\ NoMessage \in GatewayRec
  BY DEF NoPoll, PollRec, NoMessage, GatewayRec, Outcomes
<1> QED BY <1>1, <1>2, <1>3, <1>4, CommandsAssumption DEF Cmds, NoPoll, NoMessage

\* After a write of the task no poll applies what it had read.
LEMMA StalePolls ==
    ASSUME TypeOK
    PROVE  /\ Stale \in [Procs -> PollRec]
           /\ \A p \in Procs : /\ ~Stale[p].same
                               /\ Stale[p].cmd = poll[p].cmd /\ Stale[p].what = poll[p].what
BY DEF TypeOK, Stale, PollRec

LEMMA CommandsInit == Init => IInv
<1> SUFFICES ASSUME Init PROVE IInv
  OBVIOUS
<1>1. LockTypeOK
  BY LockStart DEF Init
<1>2. TypeOK
  BY <1>1, CommandsTyped, StartAssumption DEF Init, TypeOK
<1>3. ExecutedIsTrue /\ PollInv /\ GatewayInv
  BY CommandsTyped DEF Init, ExecutedIsTrue, PollInv, GatewayInv
<1> QED BY <1>2, <1>3 DEF IInv

LEMMA CommandsNext == IInv /\ [Next]_vars => IInv'
<1> SUFFICES ASSUME IInv, [Next]_vars PROVE IInv'
  OBVIOUS
<1> USE CommandsTyped DEF IInv, TypeOK
<1>0. LockTypeOK'
  BY NextIsLockNext, LockTypes
<1>1. CASE Lock
  <2>1. UNCHANGED <<status, cmds, done, gw>>
    BY <1>1 DEF Lock, Step, cmdVars
  <2>2. \A p \in Procs : poll'[p] \in {poll[p], NoPoll}
    BY <1>1 DEF Lock, Step, cmdVars
  <2>3. poll' \in [Procs -> PollRec]
    <3>1. CASE poll' = poll
      BY <3>1
    <3>2. ASSUME NEW p \in Procs, poll' = [poll EXCEPT ![p] = NoPoll] PROVE poll' \in [Procs -> PollRec]
      BY <3>2
    <3> QED BY <1>1, <3>1, <3>2 DEF Lock, Step, cmdVars
  <2>4. PollInv'
    BY <2>1, <2>2 DEF PollInv
  <2> QED BY <1>0, <2>1, <2>3, <2>4 DEF ExecutedIsTrue, GatewayInv
<1>2. ASSUME NEW p \in Procs, PollRead(p) PROVE IInv'
  <2> DEFINE pending == {c \in Cmds : cmds[c] = "pending"}
  <2>1. [NoPoll EXCEPT !.todo = pending] \in PollRec
    BY DEF NoPoll, PollRec, Outcomes
  <2>2. [NoPoll EXCEPT !.todo = pending].cmd = None /\ [NoPoll EXCEPT !.todo = pending].what = "read"
    BY DEF NoPoll
  <2>3. poll' \in [Procs -> PollRec] /\ PollInv'
    BY <1>2, <2>1, <2>2 DEF PollRead, PollInv
  <2> QED BY <1>0, <1>2, <2>3 DEF PollRead, ExecutedIsTrue, GatewayInv
<1>3. ASSUME NEW p \in Procs, PollTask(p) PROVE IInv'
  <2>1. PICK c \in poll[p].todo :
          poll' = [poll EXCEPT ![p] = [todo |-> poll[p].todo \ {c}, cmd |-> c,
                                       what |-> Decision(Kind[c]), same |-> Decision(Kind[c]) = "apply"]]
    BY <1>3 DEF PollTask
  <2>2. c \in Cmds /\ poll[p].todo \subseteq Cmds
    BY DEF PollRec
  <2>3. poll' \in [Procs -> PollRec]
    BY <2>1, <2>2 DEF PollRec, Outcomes
  <2>4. PollInv'
    BY <1>3, <2>1, <2>2 DEF PollTask, PollInv
  <2> QED BY <1>0, <1>3, <2>3, <2>4 DEF PollTask, ExecutedIsTrue, GatewayInv
<1>4. ASSUME NEW p \in Procs, PollWrite(p) PROVE IInv'
  <2> DEFINE c == poll[p].cmd
             Rest == [NoPoll EXCEPT !.todo = poll[p].todo]
  <2>1. c \in Cmds
    BY <1>4 DEF PollWrite, PollRec
  <2>2. Rest \in PollRec /\ Rest.cmd = None /\ Rest.what = "read"
    BY DEF NoPoll, PollRec, Outcomes
  <2>3. CASE Applies(p)
    <3>1. /\ status' = Target[Kind[c]] /\ done' = done \cup {c}
          /\ cmds' = [cmds EXCEPT ![c] = "executed"]
          /\ poll' = [Stale EXCEPT ![p] = Rest]
          /\ gw' = [gw EXCEPT !.same = FALSE]
      BY <1>4, <2>3 DEF PollWrite
    <3>2. gw' \in GatewayRec /\ GatewayInv'
      BY <3>1 DEF GatewayRec, GatewayInv
    <3>3. poll' \in [Procs -> PollRec] /\ PollInv'
      BY <2>2, <3>1, StalePolls DEF PollInv
    <3>4. cmds' \in [Cmds -> {"none", "pending"} \cup Outcomes]
      BY <2>1, <3>1 DEF Outcomes
    <3> QED BY <1>0, <2>1, <3>1, <3>2, <3>3, <3>4 DEF ExecutedIsTrue
  <2>4. CASE ~Applies(p)
    <3> DEFINE w == poll[p].what
    <3>1. /\ cmds' = IF w \in Outcomes THEN [cmds EXCEPT ![c] = w] ELSE cmds
          /\ poll' = [poll EXCEPT ![p] = IF w = "apply" THEN NoPoll ELSE Rest]
          /\ UNCHANGED <<status, done, gw>>
      BY <1>4, <2>4 DEF PollWrite
    <3>2. poll' \in [Procs -> PollRec] /\ PollInv'
      BY <2>2, <3>1 DEF PollInv
    <3>3. cmds' \in [Cmds -> {"none", "pending"} \cup Outcomes]
      BY <2>1, <3>1
    <3>4. ExecutedIsTrue'
      <4>1. w # "executed"
        BY DEF PollInv
      <4> QED BY <2>1, <3>1, <4>1 DEF ExecutedIsTrue
    <3> QED BY <1>0, <3>1, <3>2, <3>3, <3>4 DEF GatewayInv
  <2> QED BY <2>3, <2>4
<1>5. ASSUME NEW m \in Messages, Receive(m) PROVE IInv'
  <2>1. gw' \in GatewayRec /\ gw'.pc = "read" /\ gw'.cmd = m
    BY <1>5 DEF Receive, NoMessage, GatewayRec, Outcomes
  <2>2. cmds' \in [Cmds -> {"none", "pending"} \cup Outcomes] /\ ExecutedIsTrue'
    BY <1>5 DEF Receive, ExecutedIsTrue
  <2> QED BY <1>0, <1>5, <2>1, <2>2 DEF Receive, PollInv, GatewayInv
<1>6. CASE GatewayRead
  <2>1. gw' \in GatewayRec /\ GatewayInv'
    BY <1>6 DEF GatewayRead, GatewayRec, GatewayInv
  <2> QED BY <1>0, <1>6, <2>1 DEF GatewayRead, ExecutedIsTrue, PollInv
<1>7. CASE GatewayWrite
  <2>1. gw.cmd \in Cmds
    BY <1>7 DEF GatewayWrite, GatewayInv
  <2>2. gw' \in GatewayRec /\ gw'.cmd = gw.cmd /\ (gw'.out = "executed" => gw.same)
    BY <1>7 DEF GatewayWrite, GatewayRec, Outcome, Outcomes
  <2>3. status' \in TaskStatuses /\ done' \subseteq Cmds /\ done \subseteq done'
    BY <1>7, <2>1 DEF GatewayWrite
  <2>4. poll' \in [Procs -> PollRec] /\ PollInv'
    BY <1>7, StalePolls DEF GatewayWrite, PollInv
  <2>5. GatewayInv'
    BY <1>7, <2>2 DEF GatewayWrite, GatewayInv
  <2>6. ExecutedIsTrue'
    BY <1>7, <2>3 DEF GatewayWrite, ExecutedIsTrue
  <2> QED BY <1>0, <1>7, <2>2, <2>3, <2>4, <2>5, <2>6 DEF GatewayWrite
<1>8. CASE GatewayPersist
  <2>1. gw.cmd \in Cmds
    BY <1>8 DEF GatewayPersist, GatewayInv
  <2>2. cmds' \in [Cmds -> {"none", "pending"} \cup Outcomes]
    BY <1>8 DEF GatewayPersist, GatewayRec
  <2>3. ExecutedIsTrue'
    BY <1>8, <2>1 DEF GatewayPersist, GatewayInv, ExecutedIsTrue
  <2> QED BY <1>0, <1>8, <2>2, <2>3 DEF GatewayPersist, PollInv, GatewayInv
<1>9. CASE GatewayCrash
  BY <1>0, <1>9 DEF GatewayCrash, ExecutedIsTrue, PollInv, GatewayInv
<1>10. ASSUME NEW c \in Typed, RunApprove(c) PROVE IInv'
  <2>1. gw' \in GatewayRec /\ GatewayInv'
    BY <1>10 DEF RunApprove, GatewayRec, GatewayInv
  <2>2. poll' \in [Procs -> PollRec] /\ PollInv'
    BY <1>10, StalePolls DEF RunApprove, PollInv
  <2>3. cmds' \in [Cmds -> {"none", "pending"} \cup Outcomes] /\ ExecutedIsTrue'
    BY <1>10 DEF RunApprove, ExecutedIsTrue, Outcomes
  <2> QED BY <1>0, <1>10, <2>1, <2>2, <2>3 DEF RunApprove
<1>11. CASE UNCHANGED vars
  BY <1>0, <1>11 DEF vars, ExecutedIsTrue, PollInv, GatewayInv
<1> QED BY <1>1, <1>2, <1>3, <1>4, <1>5, <1>6, <1>7, <1>8, <1>9, <1>10, <1>11
        DEF Next, Poll, Gateway

\* Every status, command, poll and lock state is one the code can name, for any
\* watchers and commands: no handler of a poll or a message lacks a branch.
THEOREM CommandsTypeCorrect == Spec => []TypeOK
<1>1. IInv => TypeOK
  BY DEF IInv
<1> QED BY CommandsInit, CommandsNext, <1>1, PTL DEF Spec

\* A row of operator_commands that says executed has been applied to the task,
\* whichever of the gateway, the terminal and any number of watchers wrote it.
THEOREM ExecutedHappened == Spec => []ExecutedIsTrue
<1>1. IInv => ExecutedIsTrue
  BY DEF IInv
<1> QED BY CommandsInit, CommandsNext, <1>1, PTL DEF Spec

\* The version check of the poll is enough: no watcher moves a task from a
\* status its command is not meant for, whatever happens between its reads and
\* its write.
THEOREM PollsRespect == Spec => WatcherRespects
<1> DEFINE A == \A p \in Procs : poll[p].cmd # None /\ poll'[p].cmd = None /\ status' # status
                    => status \in ValidFrom(Kind[poll[p].cmd])
<1>1. IInv /\ [Next]_vars => [A]_vars
  <2> SUFFICES ASSUME IInv, [Next]_vars, NEW p \in Procs,
                      poll[p].cmd # None, poll'[p].cmd = None, status' # status
               PROVE  status \in ValidFrom(Kind[poll[p].cmd])
    OBVIOUS
  <2> USE DEF IInv, TypeOK
  <2>1. ASSUME NEW q \in Procs, PollWrite(q) PROVE status \in ValidFrom(Kind[poll[p].cmd])
    <3>1. Applies(q) /\ \E r \in PollRec : poll' = [Stale EXCEPT ![q] = r]
      <4>1. Applies(q)
        BY <2>1 DEF PollWrite
      <4>2. [NoPoll EXCEPT !.todo = poll[q].todo] \in PollRec
        BY DEF NoPoll, PollRec, Outcomes
      <4> QED BY <2>1, <4>1, <4>2 DEF PollWrite
    <3>2. q = p
      BY <3>1, StalePolls
    <3> QED BY <3>1, <3>2 DEF Applies, PollInv
  <2>2. ASSUME poll' = Stale PROVE FALSE
    BY <2>2, StalePolls
  <2>3. CASE Gateway \/ \E c \in Typed : RunApprove(c)
    BY <2>2, <2>3 DEF Gateway, GatewayRead, GatewayWrite, GatewayPersist, RunApprove
  <2>4. ~Lock /\ ~GatewayCrash /\ \A m \in Messages : ~Receive(m)
    BY DEF Lock, Step, cmdVars, GatewayCrash, Receive
  <2>5. ASSUME NEW q \in Procs PROVE ~PollRead(q) /\ ~PollTask(q)
    BY DEF PollRead, PollTask
  <2>6. ~UNCHANGED vars
    BY DEF vars
  <2> QED BY <2>1, <2>3, <2>4, <2>5, <2>6 DEF Next, Poll
<1> QED BY CommandsInit, CommandsNext, <1>1, PTL DEF Spec, WatcherRespects
=============================================================================

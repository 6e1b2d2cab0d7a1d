--------------------------- MODULE WatcherSingleton ---------------------------
(***************************************************************************)
(* What keeps a project at one watcher: the lock directory with its         *)
(* owner.pid (commands/inbox_watch.py) and the lease in the table           *)
(* watcher_instance (engine/watcher_singleton.py), whose conflicts watch()  *)
(* ignores. A system call or transaction is one action. A process removes   *)
(* the directory on its way out more than once: in the finally clause of    *)
(* watch(), again in the atexit handler, and first of all on a signal.      *)
(***************************************************************************)
EXTENDS Naturals, FiniteSets

CONSTANTS
    Procs,      \* the watcher processes that may be started, one pid at a time each
    None,       \* no directory, no pid, no lease
    Dead,       \* the pid of a process that is gone
    Mortal,     \* BOUND: the processes that may be killed or told to stop
    MaxCrashes  \* BOUND: how often that happens

ASSUME ProcsAssumption == IsFiniteSet(Procs) /\ {None, Dead} \cap Procs = {} /\ None # Dead
ASSUME CrashAssumption == Mortal \subseteq Procs /\ MaxCrashes \in Nat

VARIABLES
    dir,     \* the lock directory: who made it (if alive) and what owner.pid says
    lease,   \* the row of watcher_instance: its pid, its heartbeat not stale
    proc,    \* each process: where it is, and what follows the removal it is at
    stolen,  \* history: someone has removed the directory of a live other
    crashes  \* processes killed or told to stop so far

lockVars == <<dir, lease, proc, stolen, crashes>>

DirRec == [by : Procs \cup {None}, pid : Procs \cup {None, Dead}]
LeaseRec == [pid : Procs \cup {Dead}, fresh : BOOLEAN]

ASSUME NoneAssumption == None \notin DirRec \cup LeaseRec

\* The cycle of a running watcher is start, poll (module OperatorCommands says
\* what it does there). next: what removing the directory is followed by.
PCs == {"off", "unlink", "rmdir", "mkdir", "pid", "lease", "start", "poll", "drop"}
Nexts == {"none", "mkdir", "handler", "finally", "atexit"}

Off == [pc |-> "off", next |-> "none"]
At(pc) == [pc |-> pc, next |-> "none"]

Goto(p, state) == proc' = [proc EXCEPT ![p] = state]

Runs(p) == proc[p].pc \in {"start", "poll"}

------------------------------------------------------------------------------
(* Starting.                                                                *)

\* Mutant: a pid is taken for alive whatever became of the process.
Orphan_Trusting == dir # None /\ dir.pid = None /\ (dir.by # None => proc[dir.by].pc # "pid")

\* _auto_break_stale_lock: a pid that does not run, or no pid for so long that
\* nobody can be on the way from mkdir to writing it.
Orphan ==
    /\ dir # None
    /\ \/ dir.pid = Dead
       \/ dir.pid = None /\ (dir.by # None => proc[dir.by].pc # "pid")

Break(p) ==
    /\ proc[p].pc = "off" /\ Orphan
    /\ Goto(p, [pc |-> "unlink", next |-> "mkdir"])
    /\ UNCHANGED <<dir, lease, stolen, crashes>>

\* Mutant: a directory that exists will do.
Mkdir_ExistOk(p) ==
    /\ proc[p].pc \in {"off", "mkdir"}
    /\ dir' = IF dir = None THEN [by |-> p, pid |-> None] ELSE dir
    /\ Goto(p, At("pid"))
    /\ UNCHANGED <<lease, stolen, crashes>>

\* _acquire_watcher_lock; "Watcher already running" if the directory exists. At
\* once if there was nothing to break: mkdir tests again what that test saw.
Mkdir(p) ==
    /\ proc[p].pc \in {"off", "mkdir"}
    /\ IF dir = None
       THEN dir' = [by |-> p, pid |-> None] /\ Goto(p, At("pid"))
       ELSE Goto(p, Off) /\ UNCHANGED dir
    /\ UNCHANGED <<lease, stolen, crashes>>

\* _write_lock_pid, into the directory that is there by now; without one the
\* error is ignored.
WritePid(p) ==
    /\ proc[p].pc = "pid"
    /\ dir' = IF dir = None THEN None ELSE [dir EXCEPT !.pid = p]
    /\ Goto(p, At("lease"))
    /\ UNCHANGED <<lease, stolen, crashes>>

\* Mutant: the heartbeat of the holder is not looked at.
Acquired_Fresh(p) == [pid |-> p, fresh |-> TRUE]

\* acquire: no row, or a stale one.
Acquired(p) == IF lease = None \/ ~lease.fresh THEN [pid |-> p, fresh |-> TRUE] ELSE lease

\* _sqlite_singleton_acquire: a conflict is logged, and the watcher runs.
Acquire(p) ==
    /\ proc[p].pc = "lease"
    /\ lease' = Acquired(p)
    /\ Goto(p, At("start"))
    /\ UNCHANGED <<dir, stolen, crashes>>

------------------------------------------------------------------------------
(* Running and ending.                                                      *)

\* The end of a cycle; heartbeat() renews the lease of this pid.
Tick(p) ==
    /\ proc[p].pc = "poll"
    /\ lease' = IF lease # None /\ lease.pid = p THEN [lease EXCEPT !.fresh = TRUE] ELSE lease
    /\ Goto(p, At("start"))
    /\ UNCHANGED <<dir, stolen, crashes>>

\* A single cycle is all (launchd, --once): the finally clause.
Finish(p) ==
    /\ proc[p].pc = "poll"
    /\ Goto(p, [pc |-> "unlink", next |-> "finally"])
    /\ UNCHANGED <<dir, lease, stolen, crashes>>

\* SIGTERM or SIGHUP: the handler releases both and exits, which brings the
\* finally clause and the atexit handler after it.
Terminated(p) ==
    /\ p \in Mortal /\ Runs(p) /\ crashes < MaxCrashes /\ crashes' = crashes + 1
    /\ Goto(p, [pc |-> "drop", next |-> "handler"])
    /\ UNCHANGED <<dir, lease, stolen>>

\* release(): the row of this pid.
Drop(p) ==
    /\ proc[p].pc = "drop"
    /\ lease' = IF lease # None /\ lease.pid = p THEN None ELSE lease
    /\ Goto(p, [proc[p] EXCEPT !.pc = "unlink"])
    /\ UNCHANGED <<dir, stolen, crashes>>

Theft(p) == dir # None /\ dir.by \notin {p, None}

\* _remove_lock_dir: the pid file, whoever's it is ...
Unlink(p) ==
    /\ proc[p].pc = "unlink"
    /\ dir' = IF dir = None THEN None ELSE [dir EXCEPT !.pid = None]
    /\ stolen' = (stolen \/ Theft(p))
    /\ Goto(p, [proc[p] EXCEPT !.pc = "rmdir"])
    /\ UNCHANGED <<lease, crashes>>

\* ... and the directory, if it is empty.
Rmdir(p) ==
    /\ proc[p].pc = "rmdir"
    /\ LET gone == dir # None /\ dir.pid = None
           after == CASE proc[p].next = "mkdir"   -> At("mkdir")
                      [] proc[p].next = "handler" -> [pc |-> "unlink", next |-> "finally"]
                      [] proc[p].next = "finally" -> [pc |-> "drop", next |-> "atexit"]
                      [] OTHER                    -> Off IN
       /\ dir' = IF gone THEN None
                 ELSE IF dir # None /\ after = Off /\ dir.by = p THEN [dir EXCEPT !.by = None]
                 ELSE dir
       /\ stolen' = (stolen \/ (gone /\ Theft(p)))
       /\ Goto(p, after)
    /\ UNCHANGED <<lease, crashes>>

\* SIGKILL, a power cut.
Crash(p) ==
    /\ p \in Mortal /\ proc[p].pc # "off" /\ crashes < MaxCrashes /\ crashes' = crashes + 1
    /\ Goto(p, Off)
    /\ dir' = IF dir = None THEN None
              ELSE [by  |-> IF dir.by = p THEN None ELSE dir.by,
                    pid |-> IF dir.pid = p THEN Dead ELSE dir.pid]
    /\ lease' = IF lease # None /\ lease.pid = p THEN [lease EXCEPT !.pid = Dead] ELSE lease
    /\ UNCHANGED stolen

\* Two minutes without a heartbeat.
LeaseAges ==
    /\ lease # None /\ lease.fresh
    /\ lease' = [lease EXCEPT !.fresh = FALSE]
    /\ UNCHANGED <<dir, proc, stolen, crashes>>

------------------------------------------------------------------------------

LockInit ==
    /\ dir = None /\ lease = None
    /\ proc = [p \in Procs |-> Off]
    /\ stolen = FALSE /\ crashes = 0

\* What a process does of itself.
ProcStep(p) ==
    \/ Break(p) \/ Mkdir(p) \/ WritePid(p) \/ Acquire(p)
    \/ Tick(p) \/ Finish(p) \/ Drop(p) \/ Unlink(p) \/ Rmdir(p)

LockTypeOK ==
    /\ dir \in DirRec \cup {None} /\ lease \in LeaseRec \cup {None}
    /\ proc \in [Procs -> [pc : PCs, next : Nexts]]
    /\ stolen \in BOOLEAN /\ crashes \in 0..MaxCrashes

------------------------------------------------------------------------------
(* Properties.                                                              *)

\* Two watchers run side by side only if someone has removed a directory that
\* was another's: mkdir, the orphan test and the two releases leave no other way.
LockExcludes == \A p, q \in Procs : Runs(p) /\ Runs(q) /\ p # q => stolen

\* A lease whose holder beats is not taken from it; a crash or its own release
\* ends it.
LeaseKept ==
    [][\A p \in Procs : lease # None /\ lease.pid = p /\ lease.fresh =>
          \/ lease' # None /\ lease'.pid = p
          \/ proc[p].pc = "drop" /\ proc'[p].pc = "unlink"
          \/ crashes' # crashes]_lockVars

\* However often processes die, a watcher runs again and again.
WatcherReturns == []<>(\E p \in Procs : Runs(p))
=============================================================================

------------------------------ MODULE MkdirLock ------------------------------
(***************************************************************************)
(* The dispatch lock, commands/inbox_dispatch.py class _MkdirLock: a lock is *)
(* a directory that holds a file with the pid of its owner, and who finds   *)
(* the directory with a dead pid in it, or with none for a long time, breaks *)
(* it. One action is one system call. Module InboxDispatch takes the lock as *)
(* a variable; this module shows what that rests on.                        *)
(***************************************************************************)
EXTENDS Naturals, FiniteSets

CONSTANTS
    Procs,       \* dispatcher slots: a crashed process is followed by another
    None,        \* no owner.pid file, or an empty one
    Dead,        \* the pid of a process that is gone
    MaxCrashes   \* BOUND: crashes

ASSUME ProcsAssumption == {None, Dead} \cap Procs = {} /\ None # Dead
ASSUME CrashesAssumption == MaxCrashes \in Nat

VARIABLES
    dir,      \* does inbox.yaml.lock.d exist?
    owner,    \* the pid in its owner.pid
    stale,    \* has the directory been unchanged for stale_seconds?
    pc,       \* where each process is
    crashes   \* crashes so far

vars == <<dir, owner, stale, pc, crashes>>

\* From mkdir to the rmdir of release a process believes it has the lock.
HoldingPCs == {"write", "held", "unlink own", "rmdir own"}
PCs == HoldingPCs \cup {"idle", "mkdir", "read", "stat", "unlink", "rmdir"}

Holders == {p \in Procs : pc[p] \in HoldingPCs}

Goto(p, l) == pc' = [pc EXCEPT ![p] = l]

\* dispatch, _mark_item_failed or _reconcile_state wants the lock. Whether it
\* tries again after a failure (acquire_with_retry) is its choice.
Want(p) ==
    /\ pc[p] = "idle" /\ Goto(p, "mkdir")
    /\ UNCHANGED <<dir, owner, stale, crashes>>

\* acquire: os.mkdir, or FileExistsError.
Mkdir(p) ==
    /\ pc[p] = "mkdir"
    /\ IF dir
       THEN Goto(p, "read") /\ UNCHANGED <<dir, owner, stale>>
       ELSE Goto(p, "write") /\ dir' = TRUE /\ owner' = None /\ stale' = FALSE
    /\ UNCHANGED crashes

\* _write_pid: without the directory the error is ignored.
WritePid(p) ==
    /\ pc[p] = "write" /\ Goto(p, "held")
    /\ IF dir THEN owner' = p /\ stale' = FALSE ELSE UNCHANGED <<owner, stale>>
    /\ UNCHANGED <<dir, crashes>>

\* Mutant: a verdict the caller has no branch for.
ReadPid_Unknown(p) ==
    /\ pc[p] = "read"
    /\ Goto(p, IF owner = Dead THEN "unlink" ELSE IF owner = None THEN "unknown" ELSE "idle")
    /\ UNCHANGED <<dir, owner, stale, crashes>>

\* _break_orphan: the pid read, and whether it is alive. (A directory that is
\* gone has no pid, and no age either.)
ReadPid(p) ==
    /\ pc[p] = "read"
    /\ Goto(p, IF owner = Dead THEN "unlink" ELSE IF owner = None THEN "stat" ELSE "idle")
    /\ UNCHANGED <<dir, owner, stale, crashes>>

\* Mutant: the age of the directory is not looked at.
Stat_NoAge(p) ==
    /\ pc[p] = "stat"
    /\ Goto(p, IF dir THEN "unlink" ELSE "idle")
    /\ UNCHANGED <<dir, owner, stale, crashes>>

\* Mutant: a lock without a pid is never broken.
Stat_Never(p) ==
    /\ pc[p] = "stat" /\ Goto(p, "idle")
    /\ UNCHANGED <<dir, owner, stale, crashes>>

\* _break_orphan: without a pid, the age of the directory decides.
Stat(p) ==
    /\ pc[p] = "stat"
    /\ Goto(p, IF dir /\ stale THEN "unlink" ELSE "idle")
    /\ UNCHANGED <<dir, owner, stale, crashes>>

\* _remove: unlink of owner.pid, whoever's it is by now ...
Unlink(p, next) ==
    /\ owner' = None
    /\ stale' = (stale /\ owner = None)
    /\ Goto(p, next)
    /\ UNCHANGED <<dir, crashes>>

\* ... and rmdir, which fails on a directory that is not empty.
Rmdir(p, next) ==
    /\ IF owner = None
       THEN dir' = FALSE /\ stale' = FALSE
       ELSE UNCHANGED <<dir, stale>>
    /\ Goto(p, next)
    /\ UNCHANGED <<owner, crashes>>

\* A broken lock is acquired from the start.
BreakUnlink(p) == pc[p] = "unlink" /\ Unlink(p, "rmdir")
BreakRmdir(p) == pc[p] = "rmdir" /\ Rmdir(p, "mkdir")

Release(p) ==
    /\ pc[p] = "held" /\ Goto(p, "unlink own")
    /\ UNCHANGED <<dir, owner, stale, crashes>>
ReleaseUnlink(p) == pc[p] = "unlink own" /\ Unlink(p, "rmdir own")
ReleaseRmdir(p) == pc[p] = "rmdir own" /\ Rmdir(p, "idle")

\* Time passes. No process holds the lock, or takes to acquire it, for as long
\* as stale_seconds (300): the code under the lock makes a few short calls.
GrowStale ==
    /\ dir /\ ~stale /\ Holders = {}
    /\ stale' = TRUE
    /\ UNCHANGED <<dir, owner, pc, crashes>>

\* A process dies; the slot is free for the dispatcher the watcher spawns next.
Crash(p) ==
    /\ pc[p] # "idle" /\ crashes < MaxCrashes
    /\ crashes' = crashes + 1
    /\ Goto(p, "idle")
    /\ owner' = IF owner = p THEN Dead ELSE owner
    /\ UNCHANGED <<dir, stale>>

Init ==
    /\ dir = FALSE /\ owner = None /\ stale = FALSE
    /\ pc = [p \in Procs |-> "idle"] /\ crashes = 0

Step(p) ==
    \/ Mkdir(p) \/ WritePid(p) \/ ReadPid(p) \/ Stat(p)
    \/ BreakUnlink(p) \/ BreakRmdir(p)
    \/ Release(p) \/ ReleaseUnlink(p) \/ ReleaseRmdir(p)

Next == GrowStale \/ \E p \in Procs : Want(p) \/ Step(p) \/ Crash(p)

\* A process goes on, time passes, and the watcher keeps spawning dispatchers.
Spec ==
    /\ Init /\ [][Next]_vars
    /\ WF_vars(GrowStale)
    /\ \A p \in Procs : WF_vars(Step(p)) /\ WF_vars(Want(p))

------------------------------------------------------------------------------

TypeOK ==
    /\ dir \in BOOLEAN /\ stale \in BOOLEAN
    /\ owner \in Procs \cup {None, Dead}
    /\ pc \in [Procs -> PCs]
    /\ crashes \in Nat

\* At most one process has the lock ("Non-blocking mutex", class _MkdirLock).
MutualExclusion == \A p, q \in Holders : p = q

\* As long as no process has died no lock is ever broken by mistake: the age a
\* directory must have keeps the moment between mkdir and the pid safe.
SafeWithoutOrphans == crashes = 0 => MutualExclusion

\* A directory nobody owns never blocks dispatch for good, at whatever step its
\* owner died: it is broken in the end.
Blocked == dir /\ Holders = {}
OrphanBroken == Blocked ~> ~Blocked
=============================================================================

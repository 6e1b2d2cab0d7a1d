-------------------------- MODULE MkdirLock_proofs --------------------------
(***************************************************************************)
(* For any number of processes: as long as none has died the dispatch lock  *)
(* is a mutex.                                                              *)
(***************************************************************************)
EXTENDS MkdirLock, TLAPS

\* What keeps it one: the directory is there exactly while a process holds the
\* lock, owner.pid holds the pid of the holder exactly while it is past the
\* write and before the unlink, so nobody ever finds a dead or an aged lock.
LockInv ==
    /\ MutualExclusion
    /\ \A p \in Holders : dir
    /\ dir => Holders # {}
    /\ owner # Dead
    /\ \A p \in Procs : owner = p <=> pc[p] \in {"held", "unlink own"}
    /\ dir => ~stale
    /\ \A p \in Procs : pc[p] \notin {"unlink", "rmdir"}

IInv == TypeOK /\ (crashes = 0 => LockInv)

\* A crash is counted and never undone.
LEMMA CrashCounts ==
    ASSUME NEW p \in Procs, crashes \in Nat, Crash(p)
    PROVE  crashes' \in Nat /\ crashes' # 0
BY DEF Crash

LEMMA CrashesGrow ==
    ASSUME crashes \in Nat, [Next]_vars, crashes' = 0
    PROVE  crashes = 0
<1>1. ASSUME NEW p \in Procs PROVE ~Crash(p)
  BY CrashCounts
<1>2. ASSUME NEW p \in Procs, Want(p) \/ Step(p) PROVE crashes' = crashes
  BY <1>2 DEF Want, Step, Mkdir, WritePid, ReadPid, Stat, BreakUnlink, BreakRmdir, Release,
              ReleaseUnlink, ReleaseRmdir, Unlink, Rmdir
<1>3. CASE GrowStale
  BY <1>3 DEF GrowStale
<1>4. CASE UNCHANGED vars
  BY <1>4 DEF vars
<1> QED BY <1>1, <1>2, <1>3, <1>4 DEF Next

USE DEF TypeOK, PCs, HoldingPCs

LEMMA LockInit == Init => IInv
<1> SUFFICES ASSUME Init PROVE IInv
  OBVIOUS
<1>1. TypeOK
  BY DEF Init
<1>2. \A p \in Procs : pc[p] = "idle"
  BY DEF Init
<1>3. Holders = {}
  BY <1>2 DEF Holders
<1>4. LockInv
  BY <1>2, <1>3, ProcsAssumption DEF Init, LockInv, MutualExclusion
<1> QED BY <1>1, <1>4 DEF IInv

LEMMA LockTypes == TypeOK /\ [Next]_vars => TypeOK'
<1> SUFFICES ASSUME TypeOK, [Next]_vars PROVE TypeOK'
  OBVIOUS
<1> USE DEF Goto
<1>1. CASE GrowStale
  BY <1>1 DEF GrowStale
<1>2. ASSUME NEW p \in Procs, Want(p) PROVE TypeOK'
  BY <1>2 DEF Want
<1>3. ASSUME NEW p \in Procs, Mkdir(p) PROVE TypeOK'
  BY <1>3 DEF Mkdir
<1>4. ASSUME NEW p \in Procs, WritePid(p) PROVE TypeOK'
  BY <1>4 DEF WritePid
<1>5. ASSUME NEW p \in Procs, ReadPid(p) PROVE TypeOK'
  BY <1>5 DEF ReadPid
<1>6. ASSUME NEW p \in Procs, Stat(p) PROVE TypeOK'
  BY <1>6 DEF Stat
<1>7. ASSUME NEW p \in Procs, BreakUnlink(p) \/ ReleaseUnlink(p) PROVE TypeOK'
  BY <1>7 DEF BreakUnlink, ReleaseUnlink, Unlink
<1>8. ASSUME NEW p \in Procs, BreakRmdir(p) \/ ReleaseRmdir(p) PROVE TypeOK'
  BY <1>8 DEF BreakRmdir, ReleaseRmdir, Rmdir
<1>9. ASSUME NEW p \in Procs, Release(p) PROVE TypeOK'
  BY <1>9 DEF Release
<1>10. ASSUME NEW p \in Procs, Crash(p) PROVE TypeOK'
  <2>1. crashes' \in Nat
    BY <1>10, CrashCounts
  <2>2. pc' \in [Procs -> PCs] /\ owner' \in Procs \cup {None, Dead}
    BY <1>10 DEF Crash
  <2> QED BY <1>10, <2>1, <2>2 DEF Crash
<1>11. CASE UNCHANGED vars
  BY <1>11 DEF vars
<1> QED BY <1>1, <1>2, <1>3, <1>4, <1>5, <1>6, <1>7, <1>8, <1>9, <1>10, <1>11 DEF Next, Step

LEMMA LockNext ==
    ASSUME TypeOK, LockInv, crashes = 0, [Next]_vars, crashes' = 0
    PROVE  LockInv'
<1> USE ProcsAssumption DEF LockInv, MutualExclusion, Holders, Goto
<1>1. CASE GrowStale
  BY <1>1 DEF GrowStale
<1>2. ASSUME NEW p \in Procs, Want(p) PROVE LockInv'
  BY <1>2 DEF Want
<1>3. ASSUME NEW p \in Procs, Mkdir(p) PROVE LockInv'
  <2>1. CASE dir
    <3>1. pc' = [pc EXCEPT ![p] = "read"] /\ pc[p] = "mkdir" /\ UNCHANGED <<dir, owner, stale>>
      BY <1>3, <2>1 DEF Mkdir
    <3>2. Holders' = Holders
      BY <3>1
    <3> QED BY <2>1, <3>1, <3>2
  <2>2. CASE ~dir
    <3>1. Holders = {}
      BY <2>2
    <3>2. Holders' = {p}
      BY <1>3, <2>2, <3>1 DEF Mkdir
    <3> QED BY <1>3, <2>2, <3>1, <3>2 DEF Mkdir
  <2> QED BY <2>1, <2>2
<1>4. ASSUME NEW p \in Procs, WritePid(p) PROVE LockInv'
  BY <1>4 DEF WritePid
<1>5. ASSUME NEW p \in Procs, ReadPid(p) PROVE LockInv'
  BY <1>5 DEF ReadPid
<1>6. ASSUME NEW p \in Procs, Stat(p) PROVE LockInv'
  BY <1>6 DEF Stat
<1>7. ASSUME NEW p \in Procs, BreakUnlink(p) \/ BreakRmdir(p) PROVE LockInv'
  BY <1>7 DEF BreakUnlink, BreakRmdir
<1>8. ASSUME NEW p \in Procs, Release(p) PROVE LockInv'
  BY <1>8 DEF Release
<1>9. ASSUME NEW p \in Procs, ReleaseUnlink(p) PROVE LockInv'
  BY <1>9 DEF ReleaseUnlink, Unlink
<1>10. ASSUME NEW p \in Procs, ReleaseRmdir(p) PROVE LockInv'
  BY <1>10 DEF ReleaseRmdir, Rmdir
<1>11. ASSUME NEW p \in Procs PROVE ~Crash(p)
  BY CrashCounts
<1>12. CASE UNCHANGED vars
  BY <1>12 DEF vars
<1> QED BY <1>1, <1>2, <1>3, <1>4, <1>5, <1>6, <1>7, <1>8, <1>9, <1>10, <1>11, <1>12
        DEF Next, Step

\* Every process is at a step of the code and the pid file holds a pid it may
\* hold: every verdict of _break_orphan on an owner.pid has a branch.
THEOREM LockTypeCorrect == Spec => []TypeOK
<1>1. Init => TypeOK
  BY LockInit DEF IInv
<1> QED BY <1>1, LockTypes, PTL DEF Spec

\* No lock is taken from a living process while none has died: class _MkdirLock
\* is a mutex up to the first crash.
THEOREM MutexUntilCrash == Spec => []SafeWithoutOrphans
<1>1. IInv /\ [Next]_vars => IInv'
  <2> SUFFICES ASSUME IInv, [Next]_vars PROVE IInv'
    OBVIOUS
  <2>1. TypeOK'
    BY LockTypes DEF IInv
  <2>2. ASSUME crashes' = 0 PROVE LockInv'
    <3>1. crashes = 0
      BY <2>2, CrashesGrow DEF IInv
    <3> QED BY <2>2, <3>1, LockNext DEF IInv
  <2> QED BY <2>1, <2>2 DEF IInv
<1>2. IInv => SafeWithoutOrphans
  BY DEF IInv, LockInv, SafeWithoutOrphans
<1> QED BY LockInit, <1>1, <1>2, PTL DEF Spec
=============================================================================

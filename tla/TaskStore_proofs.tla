-------------------------- MODULE TaskStore_proofs --------------------------
(***************************************************************************)
(* For any writers and any number of writes: without the escalations of the *)
(* watcher, the versioned row of tasks implements TaskRegister; with them,  *)
(* everybody else still writes as the register has it.                      *)
(***************************************************************************)
EXTENDS TaskStore, TLAPS

\* What a writer that has read the row knows.
Decided(p) ==
    /\ w[p].kind \in Kinds
    /\ w[p].to \in Moves(w[p].kind)[w[p].seen]
    /\ w[p].ver <= version
    /\ w[p].kind = "gc" => w[p].seen = "waiting_input"
    /\ w[p].kind \notin Locking => w[p].pc # "read"
    /\ w[p].pc = "write" /\ w[p].ver = version /\ w[p].kind # "escalate"
         => w[p].seen = status

IInv == TypeOK /\ \A p \in Writers : w[p].pc # "idle" => Decided(p)

\* Every move of every kind ends in a status of the graph.
LEMMA MovesTyped ==
    \A k \in AllKinds, s \in TaskStatuses :
        /\ Moves(k)[s] \subseteq TaskStatuses
        /\ Moves(k)[s] \subseteq Allowed[s]
<1>1. ASSUME NEW s \in TaskStatuses PROVE Legal[s] \subseteq TaskStatuses
  BY DEF Legal, TaskStatuses
<1>2. ASSUME NEW s \in TaskStatuses
      PROVE  CommandMoves[s] \cup GcMoves[s] \cup EscalateMoves[s] \subseteq TaskStatuses
  <2>1. CommandMoves[s] \subseteq {"plan_approved", "stopped"}
    BY DEF CommandMoves
  <2>2. GcMoves[s] \subseteq {"archived"} /\ EscalateMoves[s] \subseteq {"waiting_input"}
    BY DEF GcMoves, EscalateMoves
  <2> QED BY <2>1, <2>2 DEF TaskStatuses
<1>3. ASSUME NEW k \in AllKinds, NEW s \in TaskStatuses
      PROVE  Moves(k)[s] \subseteq TaskStatuses /\ Moves(k)[s] \subseteq Allowed[s]
  <2>1. Moves(k)[s] \subseteq TaskStatuses
    BY <1>1, <1>2 DEF Moves, CallerMoves, AllKinds
  <2>2. Moves(k)[s] \subseteq Allowed[s]
    BY DEF Allowed
  <2> QED BY <2>1, <2>2
<1> QED BY <1>3

LEMMA StoreInit == Init => IInv
BY DEF Init, IInv, TypeOK, Rest, Writer, AllKinds, TaskStatuses

LEMMA StoreNext ==
    ASSUME IInv, [Next]_vars
    PROVE  IInv'
<1> USE DEF IInv
<1>0. Rest \in Writer /\ Rest.pc = "idle"
  BY DEF Rest, Writer, AllKinds, TaskStatuses
<1>1. ASSUME NEW p \in Writers, NEW k \in Kinds, Decide(p, k) PROVE IInv'
  <2>1. PICK to \in Moves(k)[status] :
          w' = [w EXCEPT ![p] = [pc |-> IF k \in Locking THEN "read" ELSE "write", kind |-> k,
                                 seen |-> status, to |-> to, ver |-> version, tries |-> 0]]
    BY <1>1 DEF Decide
  <2>2. k \in AllKinds /\ to \in TaskStatuses
    BY KindsAssumption, MovesTyped DEF TypeOK
  <2>3. TypeOK'
    BY <1>1, <2>1, <2>2 DEF Decide, TypeOK, Writer
  <2>4. k = "gc" => status = "waiting_input"
    BY <2>1 DEF Moves, GcMoves, TypeOK
  <2>5. Decided(p)'
    BY <1>1, <2>1, <2>4 DEF Decide, Decided, TypeOK
  <2>6. ASSUME NEW q \in Writers \ {p}, w'[q].pc # "idle" PROVE Decided(q)'
    BY <1>1, <2>1, <2>6 DEF Decide, Decided, TypeOK
  <2> QED BY <2>3, <2>5, <2>6
<1>2. ASSUME NEW p \in Writers, LockRead(p) PROVE IInv'
  <2>1. w[p].kind \in Kinds /\ w[p].kind \in Locking
    BY <1>2 DEF LockRead, Decided
  <2>2. \/ w[p].kind = "escalate"
        \/ w[p].kind = "gc" /\ w[p].seen = "waiting_input"
    BY <1>2, <2>1 DEF LockRead, Decided, Locking
  <2>3. CASE w[p].kind = "escalate" \/ status = "waiting_input"
    <3>1. w' = [w EXCEPT ![p] = [w[p] EXCEPT !.pc = "write", !.ver = version]]
      BY <1>2, <2>3 DEF LockRead
    <3>2. TypeOK'
      <4>1. [w[p] EXCEPT !.pc = "write", !.ver = version] \in Writer
        BY DEF TypeOK, Writer
      <4> QED BY <1>2, <3>1, <4>1 DEF LockRead, TypeOK
    <3>3. ASSUME NEW q \in Writers, w'[q].pc # "idle" PROVE Decided(q)'
      BY <1>2, <2>1, <2>2, <2>3, <3>1, <3>3 DEF LockRead, Decided, TypeOK, Writer
    <3> QED BY <3>2, <3>3
  <2>4. CASE w[p].kind # "escalate" /\ status # "waiting_input"
    <3>1. w' = [w EXCEPT ![p] = Rest]
      BY <1>2, <2>2, <2>4 DEF LockRead
    <3>2. TypeOK'
      BY <1>0, <1>2, <3>1 DEF LockRead, TypeOK
    <3>3. ASSUME NEW q \in Writers, w'[q].pc # "idle" PROVE Decided(q)'
      BY <1>0, <1>2, <3>1, <3>3 DEF LockRead, Decided, TypeOK
    <3> QED BY <3>2, <3>3
  <2> QED BY <2>3, <2>4
<1>3. ASSUME NEW p \in Writers, Write(p) PROVE IInv'
  <2>1. w' = [w EXCEPT ![p] = Rest] /\ version' = version + 1 /\ status' = w[p].to
    BY <1>3 DEF Write
  <2>2. TypeOK'
    BY <1>0, <2>1 DEF TypeOK, Writer
  <2>3. ASSUME NEW q \in Writers, w'[q].pc # "idle" PROVE Decided(q)'
    <3>1. w'[q] = w[q] /\ Decided(q)
      BY <1>0, <2>1, <2>3 DEF TypeOK
    <3>2. w[q].ver \in Nat /\ version \in Nat /\ w[q].ver <= version
      BY <3>1 DEF Decided, TypeOK, Writer
    <3>3. w[q].ver <= version + 1 /\ w[q].ver # version + 1
      BY <3>2
    <3> QED BY <2>1, <3>1, <3>3 DEF Decided
  <2> QED BY <2>2, <2>3
<1>4. ASSUME NEW p \in Writers, Conflict(p) PROVE IInv'
  <2>1. CASE w[p].kind \in Locking /\ w[p].tries = 0
    <3>1. w' = [w EXCEPT ![p] = [w[p] EXCEPT !.pc = "read", !.tries = 1]]
      BY <1>4, <2>1 DEF Conflict
    <3>2. TypeOK'
      <4>1. [w[p] EXCEPT !.pc = "read", !.tries = 1] \in Writer
        BY DEF TypeOK, Writer
      <4> QED BY <1>4, <3>1, <4>1 DEF Conflict, TypeOK
    <3>3. ASSUME NEW q \in Writers, w'[q].pc # "idle" PROVE Decided(q)'
      BY <1>4, <2>1, <3>1, <3>3 DEF Conflict, Decided, TypeOK, Writer
    <3> QED BY <3>2, <3>3
  <2>2. CASE ~(w[p].kind \in Locking /\ w[p].tries = 0)
    <3>1. w' = [w EXCEPT ![p] = Rest]
      BY <1>4, <2>2 DEF Conflict
    <3>2. TypeOK'
      BY <1>0, <1>4, <3>1 DEF Conflict, TypeOK
    <3>3. ASSUME NEW q \in Writers, w'[q].pc # "idle" PROVE Decided(q)'
      BY <1>0, <1>4, <3>1, <3>3 DEF Conflict, Decided, TypeOK
    <3> QED BY <3>2, <3>3
  <2> QED BY <2>1, <2>2
<1>5. CASE UNCHANGED vars
  BY <1>5 DEF vars, TypeOK, Decided
<1> QED BY <1>1, <1>2, <1>3, <1>4, <1>5 DEF Next

LEMMA StoreIdentifies ==
    ASSUME "escalate" \notin Kinds
    PROVE  IInv => VersionIdentifies
BY DEF IInv, Decided, VersionIdentifies

\* Who decided on the status the row has makes a move of the register.
LEMMA SeenMoves ==
    ASSUME IInv, NEW p \in Writers, Write(p), w[p].kind # "escalate"
    PROVE  w[p].seen = status /\ Register!Move
<1>1. w[p].seen = status /\ w[p].to \in Moves(w[p].kind)[status] /\ w[p].kind \in AllKinds
  BY KindsAssumption DEF Write, IInv, Decided
<1> QED BY <1>1, MovesTyped DEF Write, Register!Move, IInv, TypeOK

LEMMA StoreTypes == TypeOK /\ [Next]_vars => TypeOK'
<1> SUFFICES ASSUME TypeOK, [Next]_vars PROVE TypeOK'
  OBVIOUS
<1> USE DEF TypeOK
<1>0. Rest \in Writer
  BY DEF Rest, Writer, AllKinds, TaskStatuses
<1>1. ASSUME NEW p \in Writers, NEW k \in Kinds, Decide(p, k) PROVE TypeOK'
  <2>1. PICK to \in Moves(k)[status] :
          w' = [w EXCEPT ![p] = [pc |-> IF k \in Locking THEN "read" ELSE "write", kind |-> k,
                                 seen |-> status, to |-> to, ver |-> version, tries |-> 0]]
    BY <1>1 DEF Decide
  <2>2. k \in AllKinds /\ to \in TaskStatuses
    BY KindsAssumption, MovesTyped
  <2> QED BY <1>1, <2>1, <2>2 DEF Decide, Writer
<1>2. ASSUME NEW p \in Writers, LockRead(p) PROVE TypeOK'
  <2>1. [w[p] EXCEPT !.pc = "write", !.ver = version] \in Writer
    BY DEF Writer
  <2> QED BY <1>0, <1>2, <2>1 DEF LockRead
<1>3. ASSUME NEW p \in Writers, Write(p) PROVE TypeOK'
  BY <1>0, <1>3 DEF Write, Writer
<1>4. ASSUME NEW p \in Writers, Conflict(p) PROVE TypeOK'
  <2>1. [w[p] EXCEPT !.pc = "read", !.tries = 1] \in Writer
    BY DEF Writer
  <2> QED BY <1>0, <1>4, <2>1 DEF Conflict
<1>5. CASE UNCHANGED vars
  BY <1>5 DEF vars
<1> QED BY <1>1, <1>2, <1>3, <1>4, <1>5 DEF Next

\* The status is one of the graph, and every writer's plan is one of its kind,
\* for any kinds of writers and any number of writes.
THEOREM StoreTypeCorrect == Spec => []TypeOK
<1>1. Init => TypeOK
  BY StoreInit DEF IInv
<1> QED BY <1>1, StoreTypes, PTL DEF Spec

\* A writer that still holds the current version decided on the current status:
\* the version column of tasks is enough to tell that nothing was written.
THEOREM VersionsIdentify ==
    ASSUME "escalate" \notin Kinds
    PROVE  Spec => []VersionIdentifies
<1>1. IInv /\ [Next]_vars => IInv'
  BY StoreNext
<1> QED BY StoreInit, StoreIdentifies, <1>1, PTL DEF Spec

\* set_task_status, status_update, the operator's commands and the cleanup job
\* only make moves that are allowed from the status they overwrite, however
\* their reads and writes interleave: TaskStore implements TaskRegister.
THEOREM StoreImplementsRegister ==
    ASSUME "escalate" \notin Kinds
    PROVE  Spec => ImplementsRegister
<1>1. Init => Register!Init
  BY DEF Init, Register!Init, TaskStatuses, Register!TaskStatuses
<1>2. IInv /\ [Next]_vars => IInv'
  BY StoreNext
<1>3. IInv /\ [Next]_vars => [Register!Move]_status
  <2> SUFFICES ASSUME IInv, [Next]_vars PROVE [Register!Move]_status
    OBVIOUS
  <2>1. ASSUME NEW p \in Writers, Write(p) PROVE Register!Move
    <3>1. w[p].kind # "escalate"
      BY <2>1 DEF Write, IInv, Decided
    <3> QED BY <2>1, <3>1, SeenMoves
  <2>2. ASSUME NEW p \in Writers, LockRead(p) \/ Conflict(p) \/ \E k \in Kinds : Decide(p, k)
        PROVE  UNCHANGED status
    BY <2>2 DEF LockRead, Conflict, Decide
  <2>3. CASE UNCHANGED vars
    BY <2>3 DEF vars
  <2> QED BY <2>1, <2>2, <2>3 DEF Next
<1> QED BY StoreInit, <1>1, <1>2, <1>3, PTL DEF Spec, ImplementsRegister, Register!Spec

\* Escalations beside them mislead nobody else: every other write is a move the
\* register allows from the status its writer decided on, whatever kinds of writers
\* are about.
THEOREM OthersUnaffected == Spec => OthersKeepRegister
<1> DEFINE Good ==
        \/ \E p \in Writers : ByEscalation(p)
        \/ /\ Register!Move
           /\ \E p \in Writers : Write(p) /\ w[p].seen = status
        \/ UNCHANGED <<status, version>>
<1>1. IInv /\ [Next]_vars => IInv'
  BY StoreNext
<1>2. IInv /\ [Next]_vars => Good
  <2> SUFFICES ASSUME IInv, [Next]_vars PROVE Good
    OBVIOUS
  <2>1. ASSUME NEW p \in Writers, Write(p), w[p].kind = "escalate" PROVE ByEscalation(p)
    <3>1. w[p].to \in EscalateMoves[w[p].seen] /\ w[p].seen \in TaskStatuses
      BY <2>1 DEF Write, IInv, Decided, Moves, TypeOK, Writer
    <3>2. w[p].to = "waiting_input"
      BY <3>1 DEF EscalateMoves
    <3> QED BY <2>1, <3>2 DEF ByEscalation, Write
  <2>2. ASSUME NEW p \in Writers, Write(p), w[p].kind # "escalate"
        PROVE  Register!Move /\ w[p].seen = status
    BY <2>2, SeenMoves
  <2>3. ASSUME NEW p \in Writers, LockRead(p) \/ Conflict(p) \/ \E k \in Kinds : Decide(p, k)
        PROVE  UNCHANGED <<status, version>>
    BY <2>3 DEF LockRead, Conflict, Decide
  <2>4. CASE UNCHANGED vars
    BY <2>4 DEF vars
  <2> QED BY <2>1, <2>2, <2>3, <2>4 DEF Next
<1> QED BY StoreInit, <1>1, <1>2, PTL DEF Spec, OthersKeepRegister
=============================================================================

--------------------------- MODULE Discussion_proofs ---------------------------
(***************************************************************************)
(* For any participants, numbers of rounds and retries and any commands of  *)
(* the operator but reopening: a discussion keeps the promises of Ballot.   *)
(***************************************************************************)
EXTENDS Discussion, FiniteSetTheorems, TLAPS

VerdictTable == [Rounds -> [Owners -> Verdicts \cup {None}]]
Inboxes == [Rounds -> [Owners -> RowRec]]

------------------------------------------------------------------------------
(* Types.                                                                   *)

LEMMA RowsTyped ==
    /\ NoRow \in RowRec /\ NoRow.st = "none"
    /\ \A row \in RowRec :
          /\ Done(row) \in RowRec /\ Done(row).st = "done"
          /\ Failed(row, row.retry) \in RowRec /\ Failed(row, MaxRetries) \in RowRec
          /\ Failed(row, row.retry).st = "failed" /\ Failed(row, MaxRetries).st = "failed"
          /\ \A s \in {"pending", "launched"} : [row EXCEPT !.st = s] \in RowRec
<1>1. NoRow \in RowRec /\ NoRow.st = "none"
  <2>1. 0 \in 0..MaxRetries
    BY BoundsAssumption
  <2> QED BY <2>1 DEF NoRow, RowRec
<1>2. MaxRetries \in 0..MaxRetries
  BY BoundsAssumption
<1>3. ASSUME NEW row \in RowRec
      PROVE  /\ Done(row) \in RowRec /\ Done(row).st = "done"
             /\ Failed(row, row.retry) \in RowRec /\ Failed(row, MaxRetries) \in RowRec
             /\ Failed(row, row.retry).st = "failed" /\ Failed(row, MaxRetries).st = "failed"
             /\ \A s \in {"pending", "launched"} : [row EXCEPT !.st = s] \in RowRec
  BY <1>2 DEF RowRec, Done, Failed
<1> QED BY <1>1, <1>3

LEMMA RegisterTyped ==
    ASSUME verdict \in VerdictTable, NEW R, NEW A
    PROVE  /\ Register(R, A) \in VerdictTable
           /\ \A r \in Rounds, a \in Owners :
                 \/ Register(R, A)[r][a] = verdict[r][a]
                 \/ /\ verdict[r][a] = None /\ file[r][a] \in Verdicts
                    /\ Register(R, A)[r][a] = file[r][a]
BY DEF Register, VerdictTable

LEMMA IdleTyped == Idle \in Watcher /\ Idle.pc = "idle" /\ Idle.round = 1
BY BoundsAssumption DEF Idle, Watcher, Rounds, Statuses, Texts

\* CurrentRound of a discussion whose markers are those of the rounds 2 to k.
LEMMA CurrentIs ==
    ASSUME NEW k \in Rounds, NEW vs \in VerdictTable,
           \A r \in Rounds, a \in Owners : vs[r][a] # None => r <= k
    PROVE  CurrentRound(2..k, vs) = k
<1> DEFINE submitted == {r \in Rounds : \E a \in Owners : vs[r][a] # None}
<1>0. k \in Nat /\ k >= 1 /\ \A r \in Rounds : r \in Nat /\ r >= 1
  BY BoundsAssumption DEF Rounds
<1>1. CASE k = 1
  <2>1. 2..k = {}
    BY <1>1
  <2>2. submitted \subseteq {1}
    <3>1. ASSUME NEW r \in Rounds, NEW a \in Owners, vs[r][a] # None PROVE r = 1
      <4>1. r <= k /\ r \in Nat /\ r >= 1
        BY <1>0, <3>1
      <4> QED BY <1>1, <4>1
    <3> QED BY <3>1
  <2>3. submitted # {} => HighestOf(submitted) = 1
    <3>1. SUFFICES ASSUME submitted # {} PROVE HighestOf(submitted) = 1
      OBVIOUS
    <3>2. submitted = {1}
      BY <2>2, <3>1
    <3>3. HighestOf({1}) = 1
      BY DEF HighestOf
    <3> QED BY <3>2, <3>3
  <2> QED BY <1>1, <2>1, <2>3 DEF CurrentRound
<1>2. CASE k > 1
  <2>1. 2..k # {} /\ k \in 2..k /\ \A q \in 2..k : q <= k
    BY <1>0, <1>2
  <2>2. \A r \in 2..k : (\A q \in 2..k : q <= r) => r = k
    BY <1>0, <1>2
  <2>3. HighestOf(2..k) = k
    BY <2>1, <2>2 DEF HighestOf
  <2> QED BY <2>1, <2>3 DEF CurrentRound
<1> QED BY <1>0, <1>1, <1>2

------------------------------------------------------------------------------
(* The rounds.                                                              *)

\* k rounds have been reached: the markers are theirs, nothing is ahead of them,
\* and the round the dispatcher is about to complete is the last.
Reached(k) ==
    /\ markers = 2..k
    /\ \A r \in Rounds, a \in Owners :
          verdict[r][a] # None \/ file[r][a] # None \/ inbox[r][a].st # "none" => r <= k
    /\ \A a \in Owners :
          /\ session[a] # None => session[a] <= k
          /\ submit[a] # None => submit[a].round <= k
    /\ disp.round <= k
    /\ disp.pc = "advancing" => disp.round = k

\* What a step may do to the verdicts.
Votes ==
    \A r \in Rounds, a \in Owners :
        \/ verdict'[r][a] = verdict[r][a]
        \/ /\ verdict[r][a] = None /\ verdict'[r][a] \in Verdicts
           /\ \/ file[r][a] # None
              \/ status = "active" /\ submit[a] # None /\ submit[a].round = r

\* What a step may do to the rows: none for a round not reached.
Opens(k) ==
    \A r \in Rounds, a \in Owners :
        inbox'[r][a].st # "none" => inbox[r][a].st # "none" \/ r <= k

RoundIs(k) == TypeOK /\ Reached(k)

LEMMA RoundFacts ==
    ASSUME NEW k \in Rounds, RoundIs(k)
    PROVE  /\ CurrentRound(markers, verdict) = k
           /\ k \in Nat /\ k >= 1
           /\ verdict \in VerdictTable /\ inbox \in Inboxes
BY CurrentIs, BoundsAssumption DEF RoundIs, Reached, TypeOK, VerdictTable, Inboxes, Rounds

\* Files of rounds reached are registered, so no round is reached by it.
LEMMA RegisterVotes ==
    ASSUME TypeOK, NEW R, NEW A, verdict' = Register(R, A)
    PROVE  verdict' \in VerdictTable /\ Votes
<1>1. None \notin Verdicts
  BY NoneAssumption DEF Verdicts
<1> QED BY <1>1, RegisterTyped DEF TypeOK, VerdictTable, Votes

LEMMA NoVotes == UNCHANGED verdict => Votes
BY DEF Votes

LEMMA NoOpens == ASSUME NEW k, UNCHANGED inbox PROVE Opens(k)
BY DEF Opens

\* Votes alone reach no round.
LEMMA VotesReach ==
    ASSUME NEW k \in Rounds, RoundIs(k), Votes, Opens(k), UNCHANGED markers,
           \A r \in Rounds, a \in Owners : file'[r][a] # None => file[r][a] # None \/ r <= k,
           \A a \in Owners : session'[a] # None => session'[a] = session[a] \/ session'[a] <= k,
           \A a \in Owners : submit'[a] # None => submit'[a] = submit[a] \/ submit'[a].round <= k,
           disp'.round <= k, disp'.pc = "advancing" => disp'.round = k
    PROVE  /\ Reached(k)'
           /\ \A r \in Rounds, a \in Owners : verdict'[r][a] # None => r <= k
<1>1. ASSUME NEW r \in Rounds, NEW a \in Owners, verdict'[r][a] # None PROVE r <= k
  BY <1>1 DEF Votes, RoundIs, Reached
<1>2. ASSUME NEW r \in Rounds, NEW a \in Owners, file'[r][a] # None PROVE r <= k
  BY <1>2 DEF RoundIs, Reached
<1>3. ASSUME NEW r \in Rounds, NEW a \in Owners, inbox'[r][a].st # "none" PROVE r <= k
  BY <1>3 DEF Opens, RoundIs, Reached
<1>4. ASSUME NEW a \in Owners
      PROVE  /\ session'[a] # None => session'[a] <= k
             /\ submit'[a] # None => submit'[a].round <= k
  BY <1>4 DEF RoundIs, Reached
<1>5. markers' = 2..k
  BY DEF RoundIs, Reached
<1> QED BY <1>1, <1>2, <1>3, <1>4, <1>5 DEF Reached

------------------------------------------------------------------------------
(* Submissions, sessions and the operator.                                  *)

\* What a step within the rounds reached has to show.
Stepped(k) == TypeOK' /\ Votes /\ Reached(k)'

\* The rows after a change of one row.
LEMMA OneRow ==
    ASSUME NEW k \in Rounds, inbox \in Inboxes, NEW r \in Rounds, NEW a \in Owners,
           NEW row \in RowRec, inbox' = [inbox EXCEPT ![r][a] = row],
           row.st # "none" => inbox[r][a].st # "none" \/ r <= k
    PROVE  inbox' \in Inboxes /\ Opens(k)
BY DEF Inboxes, Opens

\* The rows after a change of all of them: a row that is none stays none.
LEMMA AllRows ==
    ASSUME NEW k, inbox' = [r \in Rounds |-> [a \in Owners |-> inbox'[r][a]]],
           \A r \in Rounds, a \in Owners :
              inbox'[r][a] \in RowRec /\ (inbox'[r][a].st # "none" => inbox[r][a].st # "none")
    PROVE  inbox' \in Inboxes /\ Opens(k)
BY DEF Inboxes, Opens

\* Every row that is there is done.
LEMMA AllDone ==
    ASSUME NEW k, inbox \in Inboxes,
           inbox' = [r \in Rounds |-> [a \in Owners |->
                        IF inbox[r][a].st = "none" THEN NoRow ELSE Done(inbox[r][a])]]
    PROVE  inbox' \in Inboxes /\ Opens(k)
<1>1. ASSUME NEW r \in Rounds, NEW a \in Owners
      PROVE  inbox'[r][a] \in RowRec /\ (inbox'[r][a].st # "none" => inbox[r][a].st # "none")
  <2>1. inbox[r][a] \in RowRec
    BY DEF Inboxes
  <2>2. inbox'[r][a] = IF inbox[r][a].st = "none" THEN NoRow ELSE Done(inbox[r][a])
    OBVIOUS
  <2> QED BY <2>1, <2>2, RowsTyped
<1>2. inbox' = [r \in Rounds |-> [a \in Owners |-> inbox'[r][a]]]
  OBVIOUS
<1> QED BY <1>1, <1>2, AllRows

LEMMA SubmitStep ==
    ASSUME NEW k \in Rounds, RoundIs(k), NEW a \in Submitters, a \in Owners,
           (\E r \in Rounds, v \in Cast[a] \cap Verdicts : SubmitCheck(a, r, v)) \/ SubmitWrite(a)
    PROVE  Stepped(k)
<1> USE RoundFacts DEF Stepped
<1>1. ASSUME NEW r \in Rounds, NEW v \in Cast[a] \cap Verdicts, SubmitCheck(a, r, v)
      PROVE  Stepped(k)
  <2>1. /\ submit' = [submit EXCEPT ![a] = [round |-> r, verdict |-> v]] /\ r <= k
        /\ UNCHANGED <<status, said, stamped, verdict, markers, file, inbox, tasks, impl,
                       session, disp, closing, age, commands>>
    BY <1>1 DEF SubmitCheck, discussion
  <2>2. TypeOK'
    BY <2>1 DEF RoundIs, TypeOK
  <2>3. \A x \in Owners : submit'[x] # None => submit'[x] = submit[x] \/ submit'[x].round <= k
    BY <2>1 DEF RoundIs, TypeOK
  <2>4. Votes /\ Opens(k)
    BY <2>1, NoVotes, NoOpens
  <2> QED BY <2>1, <2>2, <2>3, <2>4, VotesReach DEF RoundIs, Reached
<1>2. CASE SubmitWrite(a)
  <2> DEFINE r == submit[a].round
             v == submit[a].verdict
  <2>1. /\ submit[a] # None /\ r \in Rounds /\ v \in Verdicts
        /\ submit' = [submit EXCEPT ![a] = None]
        /\ UNCHANGED <<stamped, markers, file, tasks, session, disp, closing, age, commands>>
    BY <1>2 DEF SubmitWrite, RoundIs, TypeOK
  <2>2. submit' \in [Owners -> {None} \cup [round : Rounds, verdict : Verdicts]]
    BY <2>1 DEF RoundIs, TypeOK
  <2>3. CASE ~Accepts(a)
    <3>1. UNCHANGED <<status, said, verdict, inbox, impl>>
      BY <1>2, <2>3 DEF SubmitWrite
    <3>2. TypeOK'
      BY <2>1, <2>2, <3>1 DEF RoundIs, TypeOK
    <3>3. Votes /\ Opens(k)
      BY <3>1, NoVotes, NoOpens
    <3> QED BY <2>1, <3>2, <3>3, VotesReach DEF RoundIs, Reached, TypeOK
  <2>4. CASE Accepts(a)
    <3>1. /\ verdict' = [verdict EXCEPT ![r][a] = v] /\ verdict[r][a] = None /\ status = "active"
          /\ inbox' = [inbox EXCEPT ![r][a] = IF ActiveRow(r, a) THEN Done(@) ELSE @]
          /\ status' \in {status, "consensus"} /\ said' \in {said, "agreed"} /\ impl' \in BOOLEAN
      <4>1. impl' \in BOOLEAN
        BY <1>2, <2>4 DEF SubmitWrite, RoundIs, TypeOK
      <4> QED BY <1>2, <2>4, <4>1 DEF SubmitWrite, Accepts
    <3>2. verdict' \in VerdictTable
      BY <2>1, <3>1 DEF VerdictTable
    <3>3. Votes
      BY <2>1, <3>1 DEF Votes, VerdictTable
    <3>4. inbox' \in Inboxes /\ Opens(k)
      <4> DEFINE row == IF ActiveRow(r, a) THEN Done(inbox[r][a]) ELSE inbox[r][a]
      <4>1. row \in RowRec /\ (row.st # "none" => inbox[r][a].st # "none")
        BY <2>1, RowsTyped DEF ActiveRow, Inboxes
      <4>2. inbox' = [inbox EXCEPT ![r][a] = row]
        BY <3>1
      <4> HIDE DEF row
      <4> QED BY <2>1, <4>1, <4>2, OneRow
    <3>5. TypeOK'
      BY <2>1, <2>2, <3>1, <3>2, <3>4 DEF RoundIs, TypeOK, VerdictTable, Inboxes, Statuses, Texts
    <3> QED BY <2>1, <3>3, <3>4, <3>5, VotesReach DEF RoundIs, Reached, TypeOK
  <2> QED BY <2>3, <2>4
<1> QED BY <1>1, <1>2

LEMMA SessionsStep ==
    ASSUME NEW k \in Rounds, RoundIs(k), NEW a \in Owners,
           SessionStep(a) \/ \E v \in Cast[a] : WriteFile(a, v)
    PROVE  Stepped(k)
<1> USE RoundFacts DEF Stepped
<1>1. ASSUME NEW r \in Rounds, Launch(r, a) PROVE Stepped(k)
  <2>1. /\ inbox[r][a].st = "pending" /\ inbox[r][a] \in RowRec
        /\ UNCHANGED <<status, said, stamped, verdict, markers, file, tasks, impl, submit, disp,
                       closing, age, commands>>
    BY <1>1 DEF Launch, discussion, Inboxes
  <2>2. r <= k
    BY <2>1 DEF RoundIs, Reached
  <2>3. inbox' \in Inboxes /\ Opens(k)
    <3>1. inbox' = [inbox EXCEPT ![r][a] = Done(inbox[r][a])]
            \/ inbox' = [inbox EXCEPT ![r][a] = [inbox[r][a] EXCEPT !.st = "launched"]]
      BY <1>1 DEF Launch
    <3>2. Done(inbox[r][a]) \in RowRec /\ [inbox[r][a] EXCEPT !.st = "launched"] \in RowRec
      BY <2>1, RowsTyped
    <3> QED BY <2>2, <3>1, <3>2, OneRow
  <2>4. /\ session' \in [Owners -> Rounds \cup {None}]
        /\ \A x \in Owners : session'[x] # None => session'[x] = session[x] \/ session'[x] <= k
    BY <1>1, <2>2 DEF Launch, RoundIs, TypeOK
  <2>5. TypeOK'
    BY <2>1, <2>3, <2>4 DEF RoundIs, TypeOK, Inboxes
  <2> QED BY <2>1, <2>3, <2>4, <2>5, NoVotes, VotesReach DEF RoundIs, Reached
<1>2. ASSUME NEW v \in Cast[a], WriteFile(a, v) PROVE Stepped(k)
  <2> DEFINE r == session[a]
  <2>1. /\ r \in Rounds /\ r <= k /\ v \in Verdicts \cup {"corrupt", None}
        /\ file' = [file EXCEPT ![r][a] = v]
        /\ UNCHANGED <<status, said, stamped, verdict, markers, inbox, tasks, impl, submit,
                       session, disp, closing, age, commands>>
    BY <1>2, CastAssumption DEF WriteFile, discussion, RoundIs, TypeOK, Reached, Verdicts
  <2>2. file' \in [Rounds -> [Owners -> Verdicts \cup {"corrupt", None}]]
    BY <2>1 DEF RoundIs, TypeOK
  <2>3. \A q \in Rounds, x \in Owners : file'[q][x] # None => file[q][x] # None \/ q <= k
    BY <2>1 DEF RoundIs, TypeOK
  <2>4. TypeOK'
    BY <2>1, <2>2 DEF RoundIs, TypeOK
  <2> HIDE DEF r
  <2> QED BY <2>1, <2>3, <2>4, NoVotes, NoOpens, VotesReach DEF RoundIs, Reached
<1>3. CASE SessionEnds(a) \/ SessionBlocked(a)
  <2> DEFINE r == session[a]
  <2>1. /\ r \in Rounds /\ inbox[r][a] \in RowRec
        /\ session' = [session EXCEPT ![a] = None]
        /\ UNCHANGED <<status, said, stamped, verdict, markers, file, tasks, impl, submit, disp,
                       closing, age, commands>>
    BY <1>3 DEF SessionEnds, SessionBlocked, discussion, RoundIs, TypeOK
  <2>2. \E row \in RowRec : /\ inbox' = [inbox EXCEPT ![r][a] = row]
                            /\ row.st # "none" => inbox[r][a].st # "none"
    <3>1. CASE SessionEnds(a)
      <4> DEFINE row == IF inbox[r][a].st # "launched" THEN inbox[r][a]
                        ELSE IF file[r][a] # None THEN Done(inbox[r][a])
                        ELSE Failed(inbox[r][a], inbox[r][a].retry)
      <4>1. row \in RowRec /\ (row.st # "none" => inbox[r][a].st # "none")
        BY <2>1, RowsTyped
      <4>2. inbox' = [inbox EXCEPT ![r][a] = row]
        BY <3>1 DEF SessionEnds
      <4> HIDE DEF row
      <4> QED BY <4>1, <4>2
    <3>2. CASE SessionBlocked(a)
      <4> DEFINE row == IF inbox[r][a].st = "launched" THEN Failed(inbox[r][a], MaxRetries)
                        ELSE inbox[r][a]
      <4>1. row \in RowRec /\ (row.st # "none" => inbox[r][a].st # "none")
        BY <2>1, RowsTyped
      <4>2. inbox' = [inbox EXCEPT ![r][a] = row]
        BY <3>2 DEF SessionBlocked
      <4> HIDE DEF row
      <4> QED BY <4>1, <4>2
    <3> QED BY <1>3, <3>1, <3>2
  <2>3. inbox' \in Inboxes /\ Opens(k)
    BY <2>1, <2>2, OneRow
  <2>4. /\ session' \in [Owners -> Rounds \cup {None}]
        /\ \A x \in Owners : session'[x] # None => session'[x] = session[x]
    BY <2>1 DEF RoundIs, TypeOK
  <2>5. TypeOK'
    BY <2>1, <2>3, <2>4 DEF RoundIs, TypeOK, Inboxes
  <2> HIDE DEF r
  <2> QED BY <2>1, <2>3, <2>4, <2>5, NoVotes, VotesReach DEF RoundIs, Reached
<1> QED BY <1>1, <1>2, <1>3 DEF SessionStep

\* The first transaction of a close.
LEMMA CloseTyped ==
    ASSUME TypeOK, NEW k, NEW o \in {"consensus", "cancelled"}, CloseAs(o)
    PROVE  /\ status' \in Statuses \ {"active"} /\ said' \in Texts /\ stamped' \in BOOLEAN
           /\ inbox' \in Inboxes /\ Opens(k)
<1>1. status' \in Statuses \ {"active"}
  BY DEF CloseAs, TypeOK, Statuses
<1>2. said' \in Texts /\ stamped' \in BOOLEAN
  BY DEF CloseAs, TypeOK, Texts
<1>3. inbox \in Inboxes
  BY DEF TypeOK, Inboxes
<1>4. inbox' = [r \in Rounds |-> [a \in Owners |->
                   IF inbox[r][a].st = "none" THEN NoRow ELSE Done(inbox[r][a])]]
  BY DEF CloseAs
<1>5. inbox' \in Inboxes /\ Opens(k)
  BY <1>3, <1>4, AllDone
<1> QED BY <1>1, <1>2, <1>5

\* Its second half.
LEMMA CleanupTyped ==
    ASSUME TypeOK, CloseCleanup
    PROVE  /\ session' \in [Owners -> Rounds \cup {None}]
           /\ \A a \in Owners : session'[a] # None => session'[a] = session[a]
           /\ verdict' \in VerdictTable /\ Votes
<1>1. verdict' \in VerdictTable /\ Votes
  BY RegisterVotes DEF CloseCleanup
<1>2. PICK survivors \in SUBSET {a \in Owners : session[a] # None} :
          session' = [a \in Owners |-> IF a \in survivors THEN session[a] ELSE None]
  BY DEF CloseCleanup
<1> QED BY <1>1, <1>2 DEF TypeOK

LEMMA OperatorStep ==
    ASSUME NEW k \in Rounds, RoundIs(k),
           (\E how \in Operators : OpClose(how)) \/ OpCleanup \/ DashAgree \/ Reopen \/ FixStuck
    PROVE  Stepped(k)
<1> USE RoundFacts DEF Stepped
<1>1. ASSUME NEW how \in Operators, OpClose(how) PROVE Stepped(k)
  <2>1. CloseAs("cancelled") \/ CloseAs("consensus")
    BY <1>1 DEF OpClose
  <2>2. /\ status' \in Statuses /\ said' \in Texts /\ stamped' \in BOOLEAN
        /\ inbox' \in Inboxes /\ Opens(k)
    BY <2>1, CloseTyped DEF RoundIs
  <2>3. /\ commands' \in Nat /\ closing' \in {"dashboard", "command"}
        /\ UNCHANGED <<verdict, markers, file, tasks, impl, submit, session, disp, age>>
    BY <1>1 DEF OpClose, Command, RoundIs, TypeOK
  <2>4. TypeOK'
    BY <2>2, <2>3 DEF RoundIs, TypeOK, Inboxes
  <2> QED BY <2>2, <2>3, <2>4, NoVotes, VotesReach DEF RoundIs, Reached
<1>2. CASE OpCleanup
  <2>1. /\ session' \in [Owners -> Rounds \cup {None}]
        /\ \A a \in Owners : session'[a] # None => session'[a] = session[a]
        /\ verdict' \in VerdictTable /\ Votes
    BY <1>2, CleanupTyped DEF OpCleanup, RoundIs
  <2>2. /\ closing' \in {"no", "agree"}
        /\ UNCHANGED <<status, said, stamped, markers, file, inbox, tasks, impl, submit, disp,
                       age, commands>>
    BY <1>2 DEF OpCleanup, discussion
  <2>3. TypeOK'
    BY <2>1, <2>2 DEF RoundIs, TypeOK, VerdictTable
  <2> QED BY <2>1, <2>2, <2>3, NoOpens, VotesReach DEF RoundIs, Reached
<1>3. CASE DashAgree
  <2>1. /\ status' = "consensus" /\ closing' = "no"
        /\ UNCHANGED <<said, stamped, verdict, markers, file, inbox, tasks, impl, submit,
                       session, disp, age, commands>>
    BY <1>3 DEF DashAgree
  <2>2. TypeOK'
    BY <2>1 DEF RoundIs, TypeOK, Statuses
  <2> QED BY <2>1, <2>2, NoVotes, NoOpens, VotesReach DEF RoundIs, Reached
<1>4. CASE Reopen
  <2>1. /\ status' = "active" /\ stamped' = FALSE /\ commands' \in Nat
        /\ UNCHANGED <<said, verdict, markers, file, inbox, tasks, impl, submit, session, disp,
                       closing, age>>
    BY <1>4 DEF Reopen, Command, RoundIs, TypeOK
  <2>2. TypeOK'
    BY <2>1 DEF RoundIs, TypeOK, Statuses
  <2> QED BY <2>1, <2>2, NoVotes, NoOpens, VotesReach DEF RoundIs, Reached
<1>5. CASE FixStuck
  <2>1. /\ status' = "failed_participant" /\ stamped' = TRUE /\ commands' \in Nat
        /\ UNCHANGED <<said, verdict, markers, file, tasks, impl, submit, session, disp,
                       closing, age>>
    BY <1>5 DEF FixStuck, Command, RoundIs, TypeOK
  <2>2. inbox' \in Inboxes /\ Opens(k)
    <3>1. inbox' = [r \in Rounds |-> [a \in Owners |->
                       IF inbox[r][a].st = "none" THEN NoRow ELSE Done(inbox[r][a])]]
      BY <1>5 DEF FixStuck
    <3> QED BY <3>1, AllDone
  <2>3. TypeOK'
    BY <2>1, <2>2 DEF RoundIs, TypeOK, Statuses, Inboxes
  <2> QED BY <2>1, <2>2, <2>3, NoVotes, VotesReach DEF RoundIs, Reached
<1> QED BY <1>1, <1>2, <1>3, <1>4, <1>5

------------------------------------------------------------------------------
(* The dispatcher and the jobs.                                             *)

LEMMA CloserStep ==
    ASSUME NEW k \in Rounds, RoundIs(k),
           RecoverOrphans \/ Scan \/ Deadline \/ DeadlineCleanup \/ CheckRound \/ AdvanceRead
    PROVE  Stepped(k)
<1> USE RoundFacts, IdleTyped DEF Stepped
<1>0. disp \in Watcher /\ disp.round <= k /\ k \in Nat
  BY DEF RoundIs, TypeOK, Reached
<1>1. CASE RecoverOrphans
  <2>1. /\ disp' = [disp EXCEPT !.pc = "scan"]
        /\ UNCHANGED <<status, said, stamped, verdict, markers, file, tasks, impl, submit,
                       session, closing, age, commands>>
    BY <1>1 DEF RecoverOrphans, Goto, discussion
  <2>2. PICK silent \in SUBSET {x \in Rounds \X Owners : inbox[x[1]][x[2]].st = "launched"} :
          inbox' = [r \in Rounds |-> [a \in Owners |->
                       IF <<r, a>> \in silent THEN Failed(inbox[r][a], inbox[r][a].retry)
                       ELSE inbox[r][a]]]
    BY <1>1 DEF RecoverOrphans
  <2>3. ASSUME NEW r \in Rounds, NEW a \in Owners
        PROVE  inbox'[r][a] \in RowRec /\ (inbox'[r][a].st # "none" => inbox[r][a].st # "none")
    <3>1. inbox[r][a] \in RowRec
      BY DEF Inboxes
    <3>2. <<r, a>> \in silent => inbox[r][a].st = "launched"
      BY <2>2
    <3>3. inbox'[r][a] = IF <<r, a>> \in silent THEN Failed(inbox[r][a], inbox[r][a].retry)
                         ELSE inbox[r][a]
      BY <2>2
    <3> QED BY <3>1, <3>2, <3>3, RowsTyped
  <2>4. inbox' \in Inboxes /\ Opens(k)
    <3>1. inbox' = [r \in Rounds |-> [a \in Owners |-> inbox'[r][a]]]
      BY <2>2
    <3> QED BY <2>3, <3>1, AllRows
  <2>5. disp' \in Watcher /\ disp'.round <= k /\ disp'.pc # "advancing"
    BY <1>0, <2>1 DEF Watcher
  <2>6. TypeOK'
    BY <2>1, <2>4, <2>5 DEF RoundIs, TypeOK, Inboxes
  <2> QED BY <2>1, <2>4, <2>5, <2>6, NoVotes, VotesReach
<1>2. CASE Scan
  <2>1. UNCHANGED <<status, said, stamped, markers, file, inbox, tasks, impl, submit, session,
                    closing, age, commands>>
    BY <1>2 DEF Scan, discussion
  <2>2. verdict' \in VerdictTable /\ Votes
    BY <1>2, RegisterVotes, NoVotes DEF Scan, RoundIs
  <2>3. \A r \in Rounds, a \in Owners : verdict'[r][a] # None => r <= k
    BY <2>1, <2>2 DEF Votes, RoundIs, Reached
  <2>4. CurrentRound(markers, verdict') = k
    BY <2>2, <2>3, CurrentIs DEF RoundIs, Reached
  <2>5. disp' \in Watcher /\ disp'.round <= k /\ disp'.pc # "advancing"
    <3>1. CASE Ended
      BY <1>2, <3>1 DEF Scan, Rest
    <3>2. CASE ~Ended
      <4>1. disp' = [disp EXCEPT !.pc = IF age > 0 THEN "deadline" ELSE "check", !.round = k]
        BY <1>2, <2>4, <3>2 DEF Scan
      <4>2. disp' \in Watcher
        BY <1>0, <4>1 DEF Watcher
      <4>3. disp'.round = k /\ disp'.pc \in {"deadline", "check"}
        BY <1>0, <4>1 DEF Watcher
      <4> QED BY <1>0, <4>2, <4>3
    <3> QED BY <3>1, <3>2
  <2>6. TypeOK'
    BY <2>1, <2>2, <2>5 DEF RoundIs, TypeOK, VerdictTable
  <2> QED BY <2>1, <2>2, <2>5, <2>6, NoOpens, VotesReach
<1>3. CASE Deadline
  <2>1. /\ disp' = [disp EXCEPT !.pc = "closing"]
        /\ UNCHANGED <<verdict, markers, file, tasks, impl, submit, session, closing, age,
                       commands>>
    BY <1>3 DEF Deadline, Goto
  <2>2. /\ status' \in Statuses /\ said' \in Texts /\ stamped' \in BOOLEAN
        /\ inbox' \in Inboxes /\ Opens(k)
    BY <1>3, CloseTyped DEF Deadline, RoundIs
  <2>3. disp' \in Watcher /\ disp'.round <= k /\ disp'.pc # "advancing"
    BY <1>0, <2>1 DEF Watcher
  <2>4. TypeOK'
    BY <2>1, <2>2, <2>3 DEF RoundIs, TypeOK, Inboxes
  <2> QED BY <2>1, <2>2, <2>3, <2>4, NoVotes, VotesReach
<1>4. CASE DeadlineCleanup
  <2>1. /\ session' \in [Owners -> Rounds \cup {None}]
        /\ \A a \in Owners : session'[a] # None => session'[a] = session[a]
        /\ verdict' \in VerdictTable /\ Votes
    BY <1>4, CleanupTyped DEF DeadlineCleanup, RoundIs
  <2>2. /\ disp' = Idle
        /\ UNCHANGED <<status, said, stamped, markers, file, inbox, tasks, impl, submit,
                       closing, age, commands>>
    BY <1>4 DEF DeadlineCleanup, Rest, discussion
  <2>3. TypeOK'
    BY <2>1, <2>2 DEF RoundIs, TypeOK, VerdictTable
  <2> QED BY <2>1, <2>2, <2>3, NoOpens, VotesReach
<1>5. CASE CheckRound
  <2> DEFINE missing == {a \in Owners : verdict[disp.round][a] = None /\ file[disp.round][a] = None}
  <2>1. /\ disp' = [disp EXCEPT !.pc = IF missing = {} THEN "advance" ELSE "pending",
                                !.todo = missing]
        /\ UNCHANGED <<status, said, stamped, verdict, markers, file, inbox, tasks, impl, submit,
                       session, closing, age, commands>>
    BY <1>5 DEF CheckRound, discussion
  <2>2. missing \subseteq Owners
    OBVIOUS
  <2> HIDE DEF missing
  <2>3. disp' \in Watcher /\ disp'.round <= k /\ disp'.pc # "advancing"
    BY <1>0, <2>1, <2>2 DEF Watcher
  <2>4. TypeOK'
    BY <2>1, <2>3 DEF RoundIs, TypeOK
  <2> QED BY <2>1, <2>3, <2>4, NoVotes, NoOpens, VotesReach
<1>6. CASE AdvanceRead
  <2>1. /\ disp' = Idle \/ disp' = [disp EXCEPT !.pc = "advancing", !.round = k]
        /\ UNCHANGED <<status, said, stamped, verdict, markers, file, inbox, tasks, impl, submit,
                       session, closing, age, commands>>
    BY <1>6 DEF AdvanceRead, Rest, discussion
  <2>2. disp' \in Watcher /\ disp'.round <= k /\ (disp'.pc = "advancing" => disp'.round = k)
    <3>1. CASE disp' = Idle
      BY <1>0, <3>1
    <3>2. CASE disp' = [disp EXCEPT !.pc = "advancing", !.round = k]
      <4>1. disp' \in Watcher
        BY <1>0, <3>2 DEF Watcher
      <4>2. disp'.round = k
        BY <1>0, <3>2 DEF Watcher
      <4> QED BY <1>0, <4>1, <4>2
    <3> QED BY <2>1, <3>1, <3>2
  <2>3. TypeOK'
    BY <2>1, <2>2 DEF RoundIs, TypeOK
  <2> QED BY <2>1, <2>2, <2>3, NoVotes, NoOpens, VotesReach
<1> QED BY <1>1, <1>2, <1>3, <1>4, <1>5, <1>6

\* The rows after a new row or a retry for a round reached.
LEMMA RowsEnqueued ==
    ASSUME NEW k \in Rounds, RoundIs(k), NEW r \in Rounds, NEW a \in Owners, r <= k,
           \/ UNCHANGED <<inbox, tasks>>
           \/ Enqueued(r, a)
           \/ /\ inbox[r][a].st = "failed" /\ inbox[r][a].retry < MaxRetries
              /\ Requeued(r, a) /\ UNCHANGED tasks
    PROVE  inbox' \in Inboxes /\ Opens(k) /\ tasks' \subseteq Rounds
<1> USE RoundFacts
<1>0. inbox[r][a] \in RowRec /\ tasks \subseteq Rounds
  BY DEF RoundIs, TypeOK
<1>1. CASE UNCHANGED <<inbox, tasks>>
  BY <1>0, <1>1, NoOpens
<1>2. CASE Enqueued(r, a)
  <2> DEFINE row == [inbox[r][a] EXCEPT !.st = "pending", !.retry = 0]
  <2>1. row \in RowRec
    <3>1. 0 \in 0..MaxRetries
      BY BoundsAssumption
    <3> QED BY <1>0, <3>1 DEF RowRec
  <2>2. inbox' = [inbox EXCEPT ![r][a] = row]
    BY <1>0, <1>2 DEF Enqueued, Inboxes
  <2> HIDE DEF row
  <2> QED BY <1>0, <1>2, <2>1, <2>2, OneRow DEF Enqueued
<1>3. CASE /\ inbox[r][a].st = "failed" /\ inbox[r][a].retry < MaxRetries
           /\ Requeued(r, a) /\ UNCHANGED tasks
  <2> DEFINE row == [inbox[r][a] EXCEPT !.st = "pending", !.retry = @ + 1]
  <2>1. row \in RowRec
    <3>1. inbox[r][a].retry + 1 \in 0..MaxRetries
      BY <1>0, <1>3, BoundsAssumption DEF RowRec
    <3> QED BY <1>0, <3>1 DEF RowRec
  <2>2. inbox' = [inbox EXCEPT ![r][a] = row]
    BY <1>0, <1>3 DEF Requeued, Inboxes
  <2> HIDE DEF row
  <2> QED BY <1>0, <1>3, <2>1, <2>2, OneRow
<1> QED BY <1>1, <1>2, <1>3

LEMMA EnqueueStep ==
    ASSUME NEW k \in Rounds, RoundIs(k), NEW a \in Owners, EnqueueNext(a) \/ Remind(a)
    PROVE  Stepped(k)
<1> USE RoundFacts, IdleTyped DEF Stepped
<1>0. disp \in Watcher /\ disp.round <= k /\ disp.round \in Rounds
  BY DEF RoundIs, TypeOK, Reached, Watcher
<1>1. UNCHANGED <<status, said, stamped, verdict, markers, file, impl, submit, session, closing,
                  age, commands>>
  BY DEF EnqueueNext, Remind, discussion
<1>2. disp' \in Watcher /\ disp'.round <= k /\ disp'.pc # "advancing"
  <2>1. disp' = Idle \/ disp' = [disp EXCEPT !.todo = disp.todo \ {a}]
    BY DEF EnqueueNext, Remind, Dealt
  <2>2. disp.pc \in {"enqueue", "pending"}
    BY DEF EnqueueNext, Remind
  <2> QED BY <1>0, <2>1, <2>2 DEF Watcher
<1>3. inbox' \in Inboxes /\ Opens(k) /\ tasks' \subseteq Rounds
  <2>1. CASE EnqueueNext(a)
    BY <1>0, <2>1, RowsEnqueued DEF EnqueueNext
  <2>2. CASE Remind(a)
    BY <1>0, <2>2, RowsEnqueued DEF Remind, RetryLeft
  <2> QED BY <2>1, <2>2
<1>4. TypeOK'
  BY <1>1, <1>2, <1>3 DEF RoundIs, TypeOK, Inboxes
<1> QED BY <1>1, <1>2, <1>3, <1>4, NoVotes, VotesReach

LEMMA JobStep ==
    ASSUME NEW k \in Rounds, RoundIs(k),
           \/ OrphanRead \/ OrphanWrite \/ AutoCloseRead \/ AutoCloseWrite
           \/ UnengagedRead \/ UnengagedWrite \/ Tick
    PROVE  Stepped(k)
<1> USE RoundFacts, IdleTyped DEF Stepped
<1>0. disp \in Watcher /\ disp.round <= k /\ disp.what \in Statuses /\ disp.text \in Texts
  BY DEF RoundIs, TypeOK, Reached, Watcher
<1>1. CASE OrphanRead
  <2>1. UNCHANGED <<status, said, stamped, markers, file, inbox, tasks, impl, submit, session,
                    closing, age, commands>>
    BY <1>1 DEF OrphanRead, discussion
  <2>2. PICK r \in Rounds :
          /\ verdict' = Register({r}, Dispatched(r))
          /\ \/ disp' = Idle
             \/ disp' = [Idle EXCEPT !.pc = "orphan", !.what = "failed_participant"]
             \/ \E text \in {"review", "review0"} :
                  disp' = [Idle EXCEPT !.pc = "orphan", !.what = "consensus", !.text = text]
    BY <1>1 DEF OrphanRead
  <2>3. verdict' \in VerdictTable /\ Votes
    BY <2>2, RegisterVotes DEF RoundIs
  <2>4. disp' \in Watcher /\ disp'.round <= k /\ disp'.pc # "advancing"
    <3>1. CASE disp' = Idle
      BY <3>1
    <3>2. CASE disp' = [Idle EXCEPT !.pc = "orphan", !.what = "failed_participant"]
      BY <3>2 DEF Watcher, Statuses
    <3>3. ASSUME NEW text \in {"review", "review0"},
                 disp' = [Idle EXCEPT !.pc = "orphan", !.what = "consensus", !.text = text]
          PROVE  disp' \in Watcher /\ disp'.round <= k /\ disp'.pc # "advancing"
      <4>1. text \in Texts
        BY DEF Texts
      <4> QED BY <3>3, <4>1 DEF Watcher, Statuses
    <3> QED BY <2>2, <3>1, <3>2, <3>3
  <2>5. TypeOK'
    BY <2>1, <2>3, <2>4 DEF RoundIs, TypeOK, VerdictTable
  <2> QED BY <2>1, <2>3, <2>4, <2>5, NoOpens, VotesReach
<1>2. CASE OrphanWrite
  <2>1. /\ disp' = Idle /\ status' \in Statuses /\ said' \in Texts
        /\ UNCHANGED <<stamped, verdict, markers, file, inbox, tasks, impl, submit, session,
                       closing, age, commands>>
    BY <1>0, <1>2 DEF OrphanWrite, Rest, RoundIs, TypeOK
  <2>2. TypeOK'
    BY <2>1 DEF RoundIs, TypeOK
  <2> QED BY <2>1, <2>2, NoVotes, NoOpens, VotesReach DEF RoundIs, Reached
<1>3. CASE AutoCloseRead
  <2>1. UNCHANGED <<status, said, stamped, verdict, markers, file, inbox, tasks, impl, submit,
                    session, closing, age, commands>>
    BY <1>3 DEF AutoCloseRead, discussion
  <2>2. disp' \in Watcher /\ disp'.round <= k /\ disp'.pc # "advancing"
    <3>1. said \in Texts
      BY DEF RoundIs, TypeOK
    <3> QED BY <1>3, <3>1 DEF AutoCloseRead, Watcher, Statuses
  <2>3. TypeOK'
    BY <2>1, <2>2 DEF RoundIs, TypeOK
  <2> QED BY <2>1, <2>2, <2>3, NoVotes, NoOpens, VotesReach DEF RoundIs, Reached
<1>4. CASE AutoCloseWrite
  <2>1. /\ disp' = Idle /\ status' \in Statuses /\ said' \in Texts /\ stamped' \in BOOLEAN
        /\ UNCHANGED <<verdict, markers, file, inbox, tasks, impl, submit, session, closing,
                       age, commands>>
    BY <1>0, <1>4 DEF AutoCloseWrite, Rest, discussion, RoundIs, TypeOK, Statuses, Texts
  <2>2. TypeOK'
    BY <2>1 DEF RoundIs, TypeOK
  <2> QED BY <2>1, <2>2, NoVotes, NoOpens, VotesReach DEF RoundIs, Reached
<1>5. CASE UnengagedRead
  <2>1. /\ disp' = [Idle EXCEPT !.pc = "unengaged"]
        /\ UNCHANGED <<status, said, stamped, verdict, markers, file, inbox, tasks, impl, submit,
                       session, closing, age, commands>>
    BY <1>5 DEF UnengagedRead, discussion
  <2>2. disp' \in Watcher /\ disp'.round <= k /\ disp'.pc # "advancing"
    BY <2>1 DEF Watcher
  <2>3. TypeOK'
    BY <2>1, <2>2 DEF RoundIs, TypeOK
  <2> QED BY <2>1, <2>2, <2>3, NoVotes, NoOpens, VotesReach DEF RoundIs, Reached
<1>6. CASE UnengagedWrite
  <2>1. /\ disp' = Idle /\ status' = "failed_participant" /\ stamped' = TRUE
        /\ UNCHANGED <<said, verdict, markers, file, inbox, tasks, impl, submit, session,
                       closing, age, commands>>
    BY <1>6 DEF UnengagedWrite, Rest
  <2>2. TypeOK'
    BY <2>1 DEF RoundIs, TypeOK, Statuses
  <2> QED BY <2>1, <2>2, NoVotes, NoOpens, VotesReach DEF RoundIs, Reached
<1>7. CASE Tick
  <2>1. /\ age' \in 0..2
        /\ UNCHANGED <<status, said, stamped, verdict, markers, file, inbox, tasks, impl, submit,
                       session, disp, closing, commands>>
    BY <1>7 DEF Tick, discussion, RoundIs, TypeOK
  <2>2. TypeOK'
    BY <2>1 DEF RoundIs, TypeOK
  <2> QED BY <2>1, <2>2, NoVotes, NoOpens, VotesReach DEF RoundIs, Reached
<1> QED BY <1>1, <1>2, <1>3, <1>4, <1>5, <1>6, <1>7

LEMMA CleanersStep ==
    ASSUME NEW k \in Rounds, RoundIs(k), WatcherRetry \/ GcInbox \/ ReconcileContract
    PROVE  Stepped(k)
<1> USE RoundFacts DEF Stepped
<1>1. /\ UNCHANGED <<status, said, stamped, verdict, markers, file, impl, submit, session, disp,
                     closing, age, commands>>
      /\ tasks' \in {tasks, {}}
  BY DEF WatcherRetry, GcInbox, ReconcileContract, discussion
<1>2. ASSUME NEW r \in Rounds, NEW a \in Owners
      PROVE  inbox'[r][a] \in RowRec /\ (inbox'[r][a].st # "none" => inbox[r][a].st # "none")
  <2>0. inbox[r][a] \in RowRec
    BY DEF Inboxes
  <2>1. CASE WatcherRetry
    <3> DEFINE row == [inbox[r][a] EXCEPT !.st = "pending", !.retry = @ + 1]
    <3>1. \/ inbox'[r][a] = inbox[r][a]
          \/ inbox[r][a].st = "failed" /\ inbox[r][a].retry < MaxRetries /\ inbox'[r][a] = row
      BY <2>1 DEF WatcherRetry
    <3>2. inbox[r][a].retry < MaxRetries => inbox[r][a].retry + 1 \in 0..MaxRetries
      BY <2>0, BoundsAssumption DEF RowRec
    <3>3. inbox[r][a].retry < MaxRetries => row \in RowRec
      BY <2>0, <3>2 DEF RowRec
    <3> HIDE DEF row
    <3> QED BY <2>0, <3>1, <3>3
  <2>2. CASE GcInbox
    <3>1. \/ inbox'[r][a] = inbox[r][a]
          \/ inbox[r][a].st # "none" /\ inbox'[r][a] = Done(inbox[r][a])
      BY <2>2 DEF GcInbox
    <3> QED BY <2>0, <3>1, RowsTyped
  <2>3. CASE ReconcileContract
    <3>1. \/ inbox'[r][a] = inbox[r][a]
          \/ inbox[r][a].st # "none" /\ inbox'[r][a] = Done(inbox[r][a])
      BY <2>3 DEF ReconcileContract, ActiveRow
    <3> QED BY <2>0, <3>1, RowsTyped
  <2> QED BY <2>1, <2>2, <2>3
<1>3. inbox' = [r \in Rounds |-> [a \in Owners |-> inbox'[r][a]]]
  BY DEF WatcherRetry, GcInbox, ReconcileContract
<1>4. inbox' \in Inboxes /\ Opens(k)
  BY <1>2, <1>3, AllRows
<1>5. TypeOK'
  BY <1>1, <1>4 DEF RoundIs, TypeOK, Inboxes
<1> QED BY <1>1, <1>4, <1>5, NoVotes, VotesReach DEF RoundIs, Reached

\* A complete round without an outcome opens the next.
Opened(k) ==
    /\ TypeOK' /\ Votes
    /\ k + 1 \in Rounds /\ Voters(verdict', k) = Owners
    /\ Reached(k + 1)'

LEMMA AdvanceStep ==
    ASSUME NEW k \in Rounds, RoundIs(k), AdvanceWrite
    PROVE  Stepped(k) \/ Opened(k)
<1> USE RoundFacts, IdleTyped
<1> DEFINE vs == Register({k}, Owners)
<1>0. disp \in Watcher /\ disp.round = k /\ k \in Nat /\ k \in 1..MaxRounds /\ MaxRounds \in Nat
  BY BoundsAssumption DEF RoundIs, TypeOK, Reached, AdvanceWrite, Rounds
<1>1. UNCHANGED <<file, inbox, tasks, impl, submit, session, closing, age, commands>>
  BY DEF AdvanceWrite
<1>2. verdict' = vs \/ verdict' = verdict
  BY <1>0 DEF AdvanceWrite, discussion
<1>3. verdict' \in VerdictTable /\ Votes
  BY <1>2, RegisterVotes, NoVotes DEF RoundIs
<1>4. status' \in Statuses /\ said' \in Texts /\ stamped' \in BOOLEAN
  BY DEF AdvanceWrite, discussion, RoundIs, TypeOK, Statuses, Texts
<1>5. CASE markers' = markers /\ (disp' = Idle \/ disp' = [disp EXCEPT !.pc = "enqueue", !.todo = Owners])
  <2>1. disp' \in Watcher /\ disp'.round <= k /\ disp'.pc # "advancing"
    <3>1. CASE disp' = Idle
      BY <1>0, <3>1
    <3>2. CASE disp' = [disp EXCEPT !.pc = "enqueue", !.todo = Owners]
      <4>1. disp' \in Watcher
        BY <1>0, <3>2 DEF Watcher
      <4>2. disp'.round = k /\ disp'.pc = "enqueue"
        BY <1>0, <3>2 DEF Watcher
      <4> QED BY <1>0, <4>1, <4>2
    <3> QED BY <1>5, <3>1, <3>2
  <2>2. TypeOK'
    BY <1>1, <1>3, <1>4, <1>5, <2>1 DEF RoundIs, TypeOK, VerdictTable
  <2> QED BY <1>1, <1>3, <1>5, <2>1, <2>2, NoOpens, VotesReach DEF Stepped
<1>6. CASE /\ verdict' = vs /\ Voters(vs, k) = Owners /\ k < MaxRounds
           /\ markers' = markers \cup {k + 1}
           /\ disp' = [disp EXCEPT !.pc = "enqueue", !.round = k + 1, !.todo = Owners]
  <2>1. k + 1 \in Rounds
    BY <1>0, <1>6 DEF Rounds
  <2>2. disp' \in Watcher /\ disp'.round = k + 1 /\ disp'.pc = "enqueue"
    BY <1>0, <1>6, <2>1 DEF Watcher
  <2>3. markers \subseteq Rounds /\ markers = 2..k
    BY DEF RoundIs, Reached, TypeOK
  <2>4. markers' \subseteq Rounds /\ markers' = 2..(k + 1)
    BY <1>0, <1>6, <2>1, <2>3
  <2>5. TypeOK'
    BY <1>1, <1>3, <1>4, <2>2, <2>4 DEF RoundIs, TypeOK, VerdictTable
  <2>6. Reached(k + 1)'
    <3>1. ASSUME NEW r \in Rounds, r <= k PROVE r <= k + 1
      BY <1>0, <3>1, BoundsAssumption DEF Rounds
    <3>2. ASSUME NEW r \in Rounds, NEW a \in Owners,
                 verdict'[r][a] # None \/ file'[r][a] # None \/ inbox'[r][a].st # "none"
          PROVE  r <= k + 1
      BY <1>1, <1>3, <3>1, <3>2 DEF Votes, RoundIs, Reached
    <3>3. ASSUME NEW a \in Owners
          PROVE  /\ session'[a] # None => session'[a] <= k + 1
                 /\ submit'[a] # None => submit'[a].round <= k + 1
      BY <1>1, <3>1, <3>3 DEF RoundIs, Reached, TypeOK
    <3>4. disp'.round <= k + 1 /\ (disp'.pc = "advancing" => disp'.round = k + 1)
      BY <1>0, <2>2
    <3> QED BY <2>4, <3>2, <3>3, <3>4 DEF Reached
  <2> QED BY <1>3, <1>6, <2>1, <2>5, <2>6 DEF Opened
<1> HIDE DEF vs
<1>7. \/ markers' = markers /\ (disp' = Idle \/ disp' = [disp EXCEPT !.pc = "enqueue", !.todo = Owners])
      \/ /\ verdict' = vs /\ Voters(vs, k) = Owners /\ ~(k >= MaxRounds)
         /\ markers' = markers \cup {k + 1}
         /\ disp' = [disp EXCEPT !.pc = "enqueue", !.round = k + 1, !.todo = Owners]
  BY <1>0 DEF AdvanceWrite, Rest, vs
<1> QED BY <1>0, <1>5, <1>6, <1>7

LEMMA StepIs ==
    ASSUME NEW k \in Rounds, RoundIs(k), [Next]_vars
    PROVE  Stepped(k) \/ Opened(k)
<1>1. CASE \E a \in Submitters : \/ \E r \in Rounds, v \in Cast[a] \cap Verdicts : SubmitCheck(a, r, v)
                                \/ SubmitWrite(a)
  BY <1>1, SubmitStep, ActorsAssumption
<1>2. CASE (\E a \in Owners : SessionStep(a)) \/ (\E a \in Writers : \E v \in Cast[a] : WriteFile(a, v))
  BY <1>2, SessionsStep, ActorsAssumption
<1>3. CASE (\E how \in Operators : OpClose(how)) \/ OpCleanup \/ DashAgree \/ Reopen \/ FixStuck
  BY <1>3, OperatorStep
<1>4. CASE RecoverOrphans \/ Scan \/ Deadline \/ DeadlineCleanup \/ CheckRound \/ AdvanceRead
  BY <1>4, CloserStep
<1>5. CASE AdvanceWrite
  BY <1>5, AdvanceStep
<1>6. CASE \E a \in Owners : EnqueueNext(a) \/ Remind(a)
  BY <1>6, EnqueueStep
<1>7. CASE \/ OrphanRead \/ OrphanWrite \/ AutoCloseRead \/ AutoCloseWrite
           \/ UnengagedRead \/ UnengagedWrite \/ Tick
  BY <1>7, JobStep
<1>8. CASE WatcherRetry \/ GcInbox \/ ReconcileContract
  BY <1>8, CleanersStep
<1>9. CASE UNCHANGED vars
  <2>1. TypeOK'
    BY <1>9 DEF vars, RoundIs, TypeOK
  <2>2. Reached(k)'
    BY <1>9 DEF vars, RoundIs, Reached
  <2> QED BY <1>9, <2>1, <2>2, NoVotes DEF vars, Stepped
<1> QED BY <1>1, <1>2, <1>3, <1>4, <1>5, <1>6, <1>7, <1>8, <1>9 DEF Next, WatcherStep

LEMMA InitReached == Init => 1 \in Rounds /\ RoundIs(1)
<1> SUFFICES ASSUME Init PROVE 1 \in Rounds /\ RoundIs(1)
  OBVIOUS
<1>1. 1 \in Rounds /\ 2..1 = {} /\ tasks \subseteq Rounds /\ 0 \in 0..2
  BY BoundsAssumption DEF Init, Rounds
<1>2. ASSUME NEW r \in Rounds, NEW a \in Owners
      PROVE  inbox[r][a] \in RowRec /\ (inbox[r][a].st # "none" => r = 1)
  <2>1. [NoRow EXCEPT !.st = "pending"] \in RowRec
    BY RowsTyped
  <2> QED BY <2>1, RowsTyped DEF Init
<1>3. inbox \in [Rounds -> [Owners -> RowRec]]
  <2>1. inbox = [r \in Rounds |-> [a \in Owners |-> inbox[r][a]]]
    BY DEF Init
  <2> QED BY <1>2, <2>1
<1>4. /\ verdict \in [Rounds -> [Owners -> Verdicts \cup {None}]]
      /\ file \in [Rounds -> [Owners -> Verdicts \cup {"corrupt", None}]]
      /\ submit \in [Owners -> {None} \cup [round : Rounds, verdict : Verdicts]]
      /\ session \in [Owners -> Rounds \cup {None}]
  BY DEF Init
<1>5. TypeOK
  BY <1>1, <1>3, <1>4, IdleTyped DEF Init, TypeOK, Statuses, Texts
<1>6. \A r \in Rounds, a \in Owners : verdict[r][a] = None /\ file[r][a] = None
  BY DEF Init
<1>7. Reached(1)
  BY <1>1, <1>2, <1>6, IdleTyped DEF Init, Reached
<1> QED BY <1>1, <1>5, <1>7 DEF RoundIs

------------------------------------------------------------------------------
(* Types, and no verdict that is late.                                      *)

\* Some number of rounds has been reached.
IInv == \E k \in Rounds : RoundIs(k)

LEMMA IInvStep == IInv /\ [Next]_vars => IInv' /\ Votes
<1> SUFFICES ASSUME NEW k \in Rounds, RoundIs(k), [Next]_vars PROVE IInv' /\ Votes
  BY DEF IInv
<1>1. CASE Stepped(k)
  <2>1. RoundIs(k)'
    BY <1>1 DEF Stepped, RoundIs
  <2> QED BY <1>1, <2>1 DEF Stepped, IInv, Rounds
<1>2. CASE Opened(k)
  <2>1. k + 1 \in Rounds /\ RoundIs(k + 1)'
    BY <1>2 DEF Opened, RoundIs
  <2> QED BY <1>2, <2>1 DEF Opened, IInv, Rounds
<1> QED BY <1>1, <1>2, StepIs

\* Every record of a discussion keeps its form, whoever writes it.
THEOREM DiscussionTypeCorrect == Spec => []TypeOK
<1>1. Init => IInv
  BY InitReached DEF IInv
<1>2. IInv => TypeOK
  BY DEF IInv, RoundIs
<1> QED BY <1>1, <1>2, IInvStep, PTL DEF Spec

\* A verdict without a file came by command while the discussion was active:
\* a close that comes between the checks and the INSERT keeps it out.
THEOREM VerdictsInTime == Spec => NoLateVerdict
<1>1. Init => IInv
  BY InitReached DEF IInv
<1>2. IInv /\ [Next]_vars =>
        [\A r \in Rounds, a \in Owners :
            verdict'[r][a] # verdict[r][a] /\ file[r][a] = None => status = "active"]_vars
  BY IInvStep DEF Votes
<1> QED BY <1>1, <1>2, IInvStep, PTL DEF Spec, NoLateVerdict

------------------------------------------------------------------------------
(* Outcomes: what is recorded rests on votes.                               *)

Agreement(vs) == \E r \in Rounds : B!Settled(vs, r)

\* Somebody may open a discussion again.
Reopening == "reopen" \in Operators

\* What the rows and the watcher's memory say of an agreement has been settled;
\* if nobody reopens it, a decision taken on a closed discussion is not applied to
\* an open one.
AgreeInv ==
    /\ said = "agreed" => Agreement(verdict) /\ (status # "active" \/ Reopening)
    /\ disp.pc = "autoclose" =>
         /\ status # "active" \/ Reopening
         /\ disp.what \in {"failed_participant", "closed"}
         /\ disp.text = "agreed" => Agreement(verdict)
    /\ disp.pc = "orphan" =>
         \/ disp.what = "failed_participant"
         \/ disp.what = "consensus" /\ disp.text \in {"review", "review0"}

LEMMA SameCardinality == ASSUME NEW S PROVE B!Cardinality(S) = Cardinality(S)
BY DEF Cardinality, B!Cardinality

\* A quorum with nobody against is an agreement, and has votes.
LEMMA ConsensusSettles ==
    ASSUME NEW vs, NEW r \in Rounds
    PROVE  /\ Consensus(vs, r) <=> B!Agreed(vs, r)
           /\ Consensus(vs, r) => B!Settled(vs, r)
<1>0. /\ B!Voters(vs, r) = Voters(vs, r)
      /\ B!Quorum = IF Cardinality(Owners) <= 2 THEN Cardinality(Owners) ELSE Cardinality(Owners) - 1
      /\ \A S : B!Cardinality(S) = Cardinality(S)
  BY SameCardinality DEF Voters, B!Voters, B!Quorum
<1>1. Consensus(vs, r) <=> B!Agreed(vs, r)
  BY <1>0 DEF Consensus, B!Agreed
<1>2. ASSUME Consensus(vs, r) PROVE B!Settled(vs, r)
  <2> DEFINE S == Voters(vs, r)
  <2>1. Owners # {} /\ Cardinality(S) >= B!Quorum /\ \A a \in S : vs[r][a] # "block"
    BY <1>0, <1>2 DEF Consensus
  <2>2. Cardinality(Owners) \in Nat /\ Cardinality(Owners) # 0
    BY <2>1, OwnersAssumption, FS_CardinalityType, FS_EmptySet
  <2>3. B!Quorum >= 1
    BY <1>0, <2>2
  <2>4. Cardinality({}) = 0
    BY FS_EmptySet
  <2>5. S # {}
    BY <1>0, <2>1, <2>2, <2>3, <2>4
  <2>6. S \in SUBSET B!Voters(vs, r) /\ B!Cardinality(S) >= B!Quorum
    BY <1>0, <2>1
  <2> HIDE DEF S
  <2> QED BY <2>1, <2>5, <2>6 DEF B!Settled
<1> QED BY <1>1, <1>2

\* Verdicts stand, so an agreement stays settled.
LEMMA SettledStays ==
    ASSUME NEW r \in Rounds, Votes, B!Settled(verdict, r)
    PROVE  B!Settled(verdict', r)
<1>1. PICK S \in SUBSET B!Voters(verdict, r) :
         S # {} /\ B!Cardinality(S) >= B!Quorum /\ \A a \in S : verdict[r][a] # "block"
  BY DEF B!Settled
<1>2. ASSUME NEW a \in S PROVE a \in B!Voters(verdict', r) /\ verdict'[r][a] # "block"
  <2>1. a \in Owners /\ verdict[r][a] # None
    BY <1>1 DEF B!Voters
  <2>2. verdict'[r][a] = verdict[r][a]
    BY <2>1 DEF Votes
  <2> QED BY <1>1, <2>1, <2>2 DEF B!Voters
<1>3. S \in SUBSET B!Voters(verdict', r)
  BY <1>2
<1> QED BY <1>1, <1>2, <1>3 DEF B!Settled

LEMMA AgreementStays == ASSUME Votes, Agreement(verdict) PROVE Agreement(verdict')
BY SettledStays DEF Agreement

\* How a step may change the status and the text, and what the watcher may
\* have decided by it.
Decides(k) ==
    /\ status' = "active" => status = "active" \/ Reopening
    /\ status' = "no_consensus" =>
         \/ status = "no_consensus"
         \/ Voters(verdict', MaxRounds) = Owners /\ ~Consensus(verdict', MaxRounds)
    /\ said' = "agreed" =>
         \/ said = "agreed"
         \/ disp.pc = "autoclose" /\ disp.text = "agreed" /\ status' # "active"
         \/ status' # "active" /\ \E r \in Rounds : r <= k /\ Consensus(verdict', r)
    /\ disp'.pc = "autoclose" =>
         \/ UNCHANGED disp
         \/ /\ status # "active" /\ disp'.what \in {"failed_participant", "closed"}
            /\ disp'.text = said
    /\ disp'.pc = "orphan" =>
         \/ UNCHANGED disp
         \/ disp'.what = "failed_participant"
         \/ disp'.what = "consensus" /\ disp'.text \in {"review", "review0"}

LEMMA QuietDecides ==
    ASSUME NEW k, AgreeInv,
           status' = status \/ status' \notin {"active", "no_consensus"},
           said' = said \/ said' # "agreed",
           disp' = disp \/ disp'.pc \notin {"autoclose", "orphan"}
    PROVE  Decides(k)
BY DEF Decides

LEMMA NextDecides ==
    ASSUME NEW k \in Rounds, RoundIs(k), AgreeInv, [Next]_vars
    PROVE  Decides(k)
<1> USE RoundFacts
<1>0. /\ disp \in Watcher /\ status \in Statuses /\ submit \in [Owners -> {None} \cup [round : Rounds, verdict : Verdicts]]
      /\ Idle.pc = "idle"
  BY IdleTyped DEF RoundIs, TypeOK
<1>1. ASSUME NEW a \in Owners, NEW r \in Rounds, NEW v, SubmitCheck(a, r, v) PROVE Decides(k)
  BY <1>1, QuietDecides DEF SubmitCheck, discussion
<1>2. ASSUME NEW a \in Owners, SubmitWrite(a) PROVE Decides(k)
  <2>1. UNCHANGED disp /\ submit[a].round \in Rounds /\ submit[a].round <= k
    BY <1>0, <1>2 DEF SubmitWrite, RoundIs, Reached
  <2>2. \/ UNCHANGED <<status, said>>
        \/ status' = "consensus" /\ said' = "agreed" /\ Consensus(verdict', submit[a].round)
    BY <1>2 DEF SubmitWrite
  <2> QED BY <2>1, <2>2 DEF Decides
<1>3. ASSUME NEW a \in Owners, SessionStep(a) \/ \E v \in Cast[a] : WriteFile(a, v) PROVE Decides(k)
  BY <1>3, QuietDecides DEF SessionStep, Launch, SessionEnds, SessionBlocked, WriteFile, discussion
<1>4. ASSUME NEW how \in Operators, OpClose(how) PROVE Decides(k)
  BY <1>4, QuietDecides DEF OpClose, CloseAs
<1>5. CASE OpCleanup \/ DashAgree \/ FixStuck
  BY <1>5, QuietDecides DEF OpCleanup, DashAgree, FixStuck, discussion
<1>6. CASE Reopen
  BY <1>6 DEF Reopen, Reopening, Decides
<1>7. CASE RecoverOrphans \/ CheckRound \/ AdvanceRead \/ DeadlineCleanup
  <2>1. UNCHANGED <<status, said>>
    BY <1>7 DEF RecoverOrphans, CheckRound, AdvanceRead, DeadlineCleanup, discussion
  <2>2. disp'.pc \in {"idle", "scan", "advance", "pending", "advancing"}
    BY <1>0, <1>7 DEF RecoverOrphans, CheckRound, AdvanceRead, DeadlineCleanup, Goto, Rest, Watcher
  <2> QED BY <2>1, <2>2, QuietDecides
<1>8. CASE Scan
  <2>1. UNCHANGED <<status, said>>
    BY <1>8 DEF Scan, discussion
  <2>2. disp'.pc \in {"idle", "deadline", "check"}
    BY <1>0, <1>8 DEF Scan, Rest, Watcher
  <2> QED BY <2>1, <2>2, QuietDecides
<1>9. CASE Deadline
  <2>1. disp'.pc = "closing"
    BY <1>0, <1>9 DEF Deadline, Goto, Watcher
  <2> QED BY <1>9, <2>1, QuietDecides DEF Deadline, CloseAs
<1>10. CASE AdvanceWrite
  <2> DEFINE vs == Register({disp.round}, Owners)
  <2>1. disp.round = k /\ k \in 1..MaxRounds /\ MaxRounds \in Nat
    BY <1>10, BoundsAssumption DEF AdvanceWrite, RoundIs, Reached, Rounds
  <2>2. disp'.pc \in {"idle", "enqueue"}
    BY <1>0, <1>10 DEF AdvanceWrite, Rest, Watcher
  <2> HIDE DEF vs
  <2>3. \/ UNCHANGED <<status, said>>
        \/ status' = "consensus" /\ said' = "agreed" /\ Consensus(verdict', k)
        \/ /\ status' = "no_consensus" /\ UNCHANGED said /\ k >= MaxRounds
           /\ Voters(verdict', k) = Owners /\ ~Consensus(verdict', k)
    BY <1>10, <2>1 DEF AdvanceWrite, discussion, vs
  <2> QED BY <2>1, <2>2, <2>3 DEF Decides
<1>11. ASSUME NEW a \in Owners, EnqueueNext(a) \/ Remind(a) PROVE Decides(k)
  <2>1. UNCHANGED <<status, said>>
    BY <1>11 DEF EnqueueNext, Remind, discussion
  <2>2. disp'.pc \in {"idle", "enqueue", "pending"}
    BY <1>0, <1>11 DEF EnqueueNext, Remind, Dealt, Watcher
  <2> QED BY <2>1, <2>2, QuietDecides
<1>12. CASE OrphanRead
  <2>1. UNCHANGED <<status, said>>
    BY <1>12 DEF OrphanRead, discussion
  <2>2. \/ disp' = Idle
        \/ disp' = [Idle EXCEPT !.pc = "orphan", !.what = "failed_participant"]
        \/ \E text \in {"review", "review0"} :
             disp' = [Idle EXCEPT !.pc = "orphan", !.what = "consensus", !.text = text]
    BY <1>12 DEF OrphanRead
  <2>3. /\ disp'.pc # "autoclose"
        /\ disp'.pc = "orphan" =>
             \/ disp'.what = "failed_participant"
             \/ disp'.what = "consensus" /\ disp'.text \in {"review", "review0"}
    <3>1. CASE disp' = Idle
      BY <3>1 DEF Idle
    <3>2. CASE disp' = [Idle EXCEPT !.pc = "orphan", !.what = "failed_participant"]
      BY <3>2 DEF Idle
    <3>3. ASSUME NEW text \in {"review", "review0"},
                 disp' = [Idle EXCEPT !.pc = "orphan", !.what = "consensus", !.text = text]
          PROVE  disp'.pc # "autoclose" /\ disp'.what = "consensus" /\ disp'.text = text
      BY <3>3 DEF Idle
    <3> QED BY <2>2, <3>1, <3>2, <3>3
  <2> QED BY <2>1, <2>3 DEF Decides
<1>13. CASE OrphanWrite
  <2>1. \/ UNCHANGED <<status, said>>
        \/ status' \in {"failed_participant", "consensus"} /\ (said' = said \/ said' # "agreed")
    BY <1>13 DEF OrphanWrite, AgreeInv
  <2> QED BY <1>0, <1>13, <2>1, QuietDecides DEF OrphanWrite, Rest
<1>14. CASE AutoCloseRead
  <2>1. /\ UNCHANGED <<status, said>> /\ status = "consensus"
        /\ disp' = [Idle EXCEPT !.pc = "autoclose", !.text = said,
                      !.what = IF said = "review0" THEN "failed_participant" ELSE "closed"]
    BY <1>14 DEF AutoCloseRead, discussion
  <2>2. /\ disp'.pc = "autoclose" /\ disp'.text = said
        /\ disp'.what \in {"failed_participant", "closed"}
    BY <2>1 DEF Idle
  <2> QED BY <2>1, <2>2 DEF Decides
<1>15. CASE AutoCloseWrite
  <2>1. disp.pc = "autoclose" /\ disp'.pc = "idle"
    BY <1>0, <1>15 DEF AutoCloseWrite, Rest
  <2>2. \/ status' = status \/ status' \in {"failed_participant", "closed"}
    BY <1>15 DEF AutoCloseWrite, discussion
  <2>3. \/ said' = said \/ said' = "operator"
        \/ said' = disp.text /\ status' = "closed"
    BY <1>15 DEF AutoCloseWrite, discussion
  <2> QED BY <2>1, <2>2, <2>3 DEF Decides
<1>16. CASE UnengagedRead \/ UnengagedWrite
  <2>1. disp'.pc \in {"idle", "unengaged"}
    BY <1>0, <1>16 DEF UnengagedRead, UnengagedWrite, Rest, Idle
  <2> QED BY <1>16, <2>1, QuietDecides DEF UnengagedRead, UnengagedWrite, discussion
<1>17. CASE WatcherRetry \/ GcInbox \/ ReconcileContract \/ Tick
  BY <1>17, QuietDecides DEF WatcherRetry, GcInbox, ReconcileContract, Tick, discussion
<1>18. CASE UNCHANGED vars
  BY <1>18, QuietDecides DEF vars
<1> QED BY <1>1, <1>2, <1>3, <1>4, <1>5, <1>6, <1>7, <1>8, <1>9, <1>10, <1>11, <1>12, <1>13,
           <1>14, <1>15, <1>16, <1>17, <1>18, ActorsAssumption DEF Next, WatcherStep

LEMMA AgreeStep ==
    ASSUME NEW k \in Rounds, AgreeInv, Votes, Decides(k)
    PROVE  AgreeInv'
<1>1. ASSUME said' = "agreed" PROVE Agreement(verdict') /\ (status' # "active" \/ Reopening)
  <2>1. CASE said = "agreed"
    BY <2>1, AgreementStays DEF AgreeInv, Decides
  <2>2. CASE disp.pc = "autoclose" /\ disp.text = "agreed" /\ status' # "active"
    BY <2>2, AgreementStays DEF AgreeInv
  <2>3. CASE status' # "active" /\ \E r \in Rounds : r <= k /\ Consensus(verdict', r)
    BY <2>3, ConsensusSettles DEF Agreement
  <2> QED BY <1>1, <2>1, <2>2, <2>3 DEF Decides
<1>2. ASSUME disp'.pc = "autoclose"
      PROVE  /\ status' # "active" \/ Reopening
             /\ disp'.what \in {"failed_participant", "closed"}
             /\ disp'.text = "agreed" => Agreement(verdict')
  BY <1>2, AgreementStays DEF AgreeInv, Decides
<1>3. ASSUME disp'.pc = "orphan"
      PROVE  \/ disp'.what = "failed_participant"
             \/ disp'.what = "consensus" /\ disp'.text \in {"review", "review0"}
  BY <1>3 DEF AgreeInv, Decides
<1> QED BY <1>1, <1>2, <1>3 DEF AgreeInv, Agreement

\* A step within the rounds reached, or into the next, is a step of the ballot.
LEMMA BallotStep ==
    ASSUME NEW k \in Rounds, RoundIs(k), AgreeInv, Decides(k), Stepped(k) \/ Opened(k)
    PROVE  /\ B!Vote /\ B!NextRound /\ B!Redecide
           /\ ~Reopening => B!Decide
<1>0. /\ k \in Nat /\ k >= 1 /\ CurrentRound(markers, verdict) = k
      /\ Votes /\ verdict' \in VerdictTable
  BY RoundFacts DEF Stepped, Opened, TypeOK, VerdictTable
<1>1. ASSUME NEW r \in Rounds, NEW a \in Owners, verdict'[r][a] # None PROVE r <= k
  BY <1>0, <1>1 DEF Votes, RoundIs, Reached
<1>2. B!Vote
  BY <1>0 DEF B!Vote, B!Rounds, Rounds, Votes, B!Verdicts, Verdicts
<1>3. B!NextRound
  <2>1. CASE Stepped(k)
    <3>1. CurrentRound(markers', verdict') = k
      BY <1>0, <1>1, <2>1, CurrentIs DEF Stepped, Reached
    <3> QED BY <1>0, <3>1 DEF B!NextRound, CurrentRound, HighestOf
  <2>2. CASE Opened(k)
    <3>1. k + 1 \in Rounds /\ Voters(verdict', k) = Owners /\ markers' = 2..(k + 1)
      BY <2>2 DEF Opened, Reached
    <3>2. \A r \in Rounds, a \in Owners : verdict'[r][a] # None => r <= k + 1
      BY <2>2 DEF Opened, Reached
    <3>3. CurrentRound(markers', verdict') = k + 1
      BY <1>0, <3>1, <3>2, CurrentIs
    <3>4. k < MaxRounds
      BY <1>0, <3>1, BoundsAssumption DEF Rounds
    <3>5. B!Complete(verdict', k)
      BY <3>1 DEF B!Complete, B!Voters, Voters
    <3> QED BY <1>0, <3>3, <3>4, <3>5 DEF B!NextRound
  <2> QED BY <2>1, <2>2
<1>4. B!Redecide /\ (~Reopening => B!Decide)
  <2>1. ASSUME status' \in {"consensus", "closed"}, said' = "agreed"
        PROVE  /\ \E r \in 1..k : B!Settled(verdict', r)
               /\ ~Reopening => \E r \in 1..k : \/ B!Agreed(verdict', r)
                                                \/ Outcome # "open" /\ B!Settled(verdict', r)
    <3>1. CASE \E r \in Rounds : r <= k /\ Consensus(verdict', r)
      BY <1>0, <3>1, ConsensusSettles, BoundsAssumption DEF Rounds
    <3>2. CASE Agreement(verdict) /\ (status # "active" \/ Reopening)
      <4>1. PICK r \in Rounds : B!Settled(verdict', r)
        BY <1>0, <3>2, AgreementStays DEF Agreement
      <4>2. PICK a \in Owners : verdict'[r][a] # None
        BY <4>1 DEF B!Settled, B!Voters
      <4>3. r \in 1..k
        BY <1>0, <1>1, <4>2, BoundsAssumption DEF Rounds
      <4>4. Outcome # "open" \/ Reopening
        BY <3>2 DEF Outcome
      <4> QED BY <4>1, <4>3, <4>4
    <3> QED BY <2>1, <3>1, <3>2 DEF AgreeInv, Decides
  <2>2. ASSUME status' = "no_consensus", status # "no_consensus"
        PROVE  B!Complete(verdict', MaxRounds) /\ ~B!Agreed(verdict', MaxRounds)
    <3>1. Voters(verdict', MaxRounds) = Owners /\ ~Consensus(verdict', MaxRounds)
      BY <2>2 DEF Decides
    <3>2. MaxRounds \in Rounds
      BY BoundsAssumption DEF Rounds
    <3> QED BY <3>1, <3>2, ConsensusSettles DEF B!Complete, B!Voters, Voters
  <2>3. Outcome' \in {"open", "shelved", "agreed", "undecided"}
    BY DEF Outcome
  <2>4. Outcome' = "agreed" => status' \in {"consensus", "closed"} /\ said' = "agreed"
    BY DEF Outcome
  <2>5. Outcome' = "undecided" => status' = "no_consensus"
    BY DEF Outcome
  <2>6. status' = "no_consensus" /\ status = "no_consensus" => Outcome' = Outcome
    BY DEF Outcome
  <2> HIDE DEF Outcome
  <2> QED BY <1>0, <2>1, <2>2, <2>3, <2>4, <2>5, <2>6
             DEF B!Decide, B!Redecide, B!Shelve, B!Undecide
<1> QED BY <1>2, <1>3, <1>4

BallotInv == \E k \in Rounds : RoundIs(k) /\ AgreeInv

LEMMA BallotStart == Init => BallotInv /\ B!BallotInit
<1> SUFFICES ASSUME Init PROVE BallotInv /\ B!BallotInit
  OBVIOUS
<1>1. 1 \in Rounds /\ RoundIs(1)
  BY InitReached
<1>2. AgreeInv
  BY IdleTyped DEF Init, AgreeInv
<1>3. CurrentRound(markers, verdict) = 1
  BY <1>1, RoundFacts
<1>4. Outcome = "open"
  BY DEF Init, Outcome
<1> HIDE DEF Outcome
<1> QED BY <1>1, <1>2, <1>3, <1>4 DEF Init, BallotInv, B!BallotInit, B!Rounds, Rounds

LEMMA BallotGoesOn ==
    ASSUME BallotInv, [Next]_vars
    PROVE  /\ BallotInv' /\ B!Vote /\ B!NextRound /\ B!Redecide
           /\ ~Reopening => B!Decide
<1>0. PICK k \in Rounds : RoundIs(k) /\ AgreeInv
  BY DEF BallotInv
<1>1. (Stepped(k) \/ Opened(k)) /\ Decides(k)
  BY <1>0, StepIs, NextDecides
<1>2. B!Vote /\ B!NextRound /\ B!Redecide /\ (~Reopening => B!Decide)
  BY <1>0, <1>1, BallotStep
<1>3. AgreeInv'
  BY <1>0, <1>1, AgreeStep DEF Stepped, Opened
<1>4. BallotInv'
  <2>1. CASE Stepped(k)
    <3>1. RoundIs(k)'
      BY <2>1 DEF Stepped, RoundIs
    <3> QED BY <1>3, <3>1 DEF BallotInv, Rounds
  <2>2. CASE Opened(k)
    <3>1. k + 1 \in Rounds /\ RoundIs(k + 1)'
      BY <2>2 DEF Opened, RoundIs
    <3> QED BY <1>3, <3>1 DEF BallotInv, Rounds
  <2> QED BY <1>1, <2>1, <2>2
<1> QED BY <1>2, <1>4

\* Nobody reopening it, a discussion is an implementation of Ballot: verdicts
\* stand, rounds open in order and only when complete, and an agreement or the
\* end of the last round is recorded on the votes it needs.
THEOREM BallotKept ==
    ASSUME "reopen" \notin Operators
    PROVE  Spec => KeepsBallot
<1>1. BallotInv /\ [Next]_vars => BallotInv' /\ [B!BallotNext]_(B!ballotVars)
  BY BallotGoesOn DEF Reopening, B!BallotNext
<1> QED BY <1>1, BallotStart, PTL DEF Spec, KeepsBallot, B!BallotSpec

\* Whatever the operator does, reopening at any moment included: verdicts stand,
\* rounds open in order and only when complete, no discussion ends undecided but
\* on a complete last round, and an agreement rests on the votes of a quorum of
\* which nobody was against.
THEOREM BallotKeptReopened == Spec => KeepsReopened
<1>1. BallotInv /\ [Next]_vars
        => BallotInv' /\ [B!Vote /\ B!NextRound /\ B!Redecide]_(B!ballotVars)
  BY BallotGoesOn
<1> QED BY <1>1, BallotStart, PTL DEF Spec, KeepsReopened, B!ReopenedSpec
=============================================================================

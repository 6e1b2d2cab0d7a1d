-------------------------------- MODULE Ballot --------------------------------
(***************************************************************************)
(* What a discussion promises, whatever processes move it along: a vote is  *)
(* cast once and never changed, the next round opens when everyone has voted*)
(* in this one, "agreed" is recorded on the votes of a quorum with nobody   *)
(* against, "undecided" when the last round is complete. Anyone may shelve  *)
(* a discussion, and the dashboard may open it again or restore the         *)
(* agreement it once had.                                                   *)
(***************************************************************************)
EXTENDS Naturals, FiniteSets

CONSTANTS
    Owners,     \* the participants
    MaxRounds,  \* rounds a discussion may have (max_rounds, 3 by default)
    None        \* no vote yet

VARIABLES
    votes,    \* the vote of each participant in each round
    round,    \* the round under way
    outcome   \* open, agreed, undecided or shelved

ballotVars == <<votes, round, outcome>>

Rounds == 1..MaxRounds

\* A verdict, as far as a decision depends on it: "agree"; "consensus" or
\* "abstain", which let others decide; "disagree" or "partial", which block.
Verdicts == {"agree", "consent", "block"}

Voters(vs, r) == {a \in Owners : vs[r][a] # None}
Complete(vs, r) == Voters(vs, r) = Owners

\* All of two participants, all but one of more.
Quorum == IF Cardinality(Owners) <= 2 THEN Cardinality(Owners) ELSE Cardinality(Owners) - 1

Agreed(vs, r) ==
    /\ Owners # {}
    /\ Cardinality(Voters(vs, r)) >= Quorum
    /\ \A a \in Voters(vs, r) : vs[r][a] # "block"

\* It has been agreed: votes that make a quorum stand, whoever objects later.
Settled(vs, r) ==
    \E S \in SUBSET Voters(vs, r) :
        S # {} /\ Cardinality(S) >= Quorum /\ \A a \in S : vs[r][a] # "block"

------------------------------------------------------------------------------

BallotInit ==
    /\ votes = [r \in Rounds |-> [a \in Owners |-> None]]
    /\ round = 1
    /\ outcome = "open"

\* Votes arrive, also late ones; none is ever changed.
Vote ==
    \A r \in Rounds, a \in Owners :
        votes'[r][a] # votes[r][a] => votes[r][a] = None /\ votes'[r][a] \in Verdicts

NextRound ==
    round' = round \/ /\ round' = round + 1 /\ round < MaxRounds
                      /\ Complete(votes', round)

Shelve == outcome' \in {outcome, "open", "shelved"}
Undecide ==
    outcome' = "undecided" /\ Complete(votes', MaxRounds) /\ ~Agreed(votes', MaxRounds)

\* The decision is taken on the votes as this step leaves them.
Decide ==
    \/ Shelve
    \/ /\ outcome' = "agreed"
       /\ \E r \in 1..round : Agreed(votes', r) \/ (outcome # "open" /\ Settled(votes', r))
    \/ Undecide

BallotNext == Vote /\ NextRound /\ Decide

BallotSpec == BallotInit /\ [][BallotNext]_ballotVars

\* A discussion that is opened again may get back the agreement it had while
\* votes against it arrive: only what was settled once is certain.
Redecide ==
    \/ Shelve
    \/ outcome' = "agreed" /\ \E r \in 1..round : Settled(votes', r)
    \/ Undecide

ReopenedSpec == BallotInit /\ [][Vote /\ NextRound /\ Redecide]_ballotVars
=============================================================================

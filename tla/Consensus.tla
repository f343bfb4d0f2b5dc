----------------------------- MODULE Consensus -----------------------------
(***************************************************************************)
(* What voting_impl makes of the votes of a table: the votes arrive one by *)
(* one, in any order, and the voting may be decided after any of them.     *)
(***************************************************************************)
EXTENDS TableVoting

CONSTANTS Participant, Content

VARIABLE ballots

VotingInit == ballots = [v \in {} |-> 0]

collect_votes(voter, vote) ==
    /\ voter \notin DOMAIN ballots
    /\ ballots' = AddVote(ballots, voter, vote)

VotingNext == \E v \in Participant, c \in Content : collect_votes(v, c)

VotingSpec == VotingInit /\ [][VotingNext]_ballots

Dissent(winner) == Cardinality(InvalidVoters(ballots, winner))

Turnout == Cardinality(DOMAIN ballots)

-----------------------------------------------------------------------------
\* Whenever voting_impl finds a consensus, a content that more than half of the
\* voters agree on is the only one it can pick as valid_vote.
MajorityWins ==
    Consensus(ballots) => \A c \in Contents(ballots) :
        2 * Cardinality(Supporters(ballots, c)) > Turnout => Winners(ballots) = {c}

\* One voter who disagrees with all the others can neither prevent a consensus
\* of three or more nor decide it.
OneCheaterIsHarmless ==
    \A v \in DOMAIN ballots, c \in Contents(ballots) :
        Turnout >= 3 /\ DOMAIN ballots \ {v} = Supporters(ballots, c) =>
            Consensus(ballots) /\ Winners(ballots) = {c}

\* A consensus leaves out at most one voter of three.
OneCheaterOfThree ==
    Consensus(ballots) => \A c \in Winners(ballots) : 3 * Dissent(c) <= Turnout
=============================================================================

---------------------------- MODULE TableVoting ----------------------------
(***************************************************************************)
(* The votes about a table, from PLAYCHAIN hardfork 11 on: who has to      *)
(* vote, which votes count, and which content wins.  A voting object is    *)
(* the record NewVoting; a vote is either the players and stakes of a new  *)
(* game or the result of the game that is being played.                    *)
(***************************************************************************)
EXTENDS TableObject

CONSTANTS
    GameWitness,        \* accounts registered as game witnesses: room owners
    RequiredPercent,    \* voting_for_*_requied_percent, of 10000
    SubstitutionForPlaying,
    SubstitutionForResults

GRAPHENE_100_PERCENT == 10000

ASSUME PercentAssumption ==
    /\ RequiredPercent \in 0..GRAPHENE_100_PERCENT
    /\ SubstitutionForPlaying \in 0..GRAPHENE_100_PERCENT
    /\ SubstitutionForResults \in 0..GRAPHENE_100_PERCENT

Playing(stakes) == [about |-> "playing", cash |-> stakes]

Results(who, left, rake) ==
    [about |-> "results", who |-> who, cash |-> left, rake |-> rake]

\* The vote to cancel a game.
is_cancel(vote) == vote.who = {}

-----------------------------------------------------------------------------
\* Every stake is covered by cash the player has at the table.
validate_initial_data(tb, vote) ==
    /\ Players(vote.cash) # {}
    /\ \A p \in Players(vote.cash) : vote.cash[p] <= tb.cash[p]

\* What the players of the result put in comes out as cash and rake.
validate_result(tb, vote) ==
    \/ is_cancel(vote)
    \/ /\ vote.who \subseteq Players(tb.playing_cash)
       /\ Total(tb.playing_cash, vote.who) = Total(vote.cash, vote.who) + Total(vote.rake, vote.who)

validate_ivariants(tb, vote) ==
    IF vote.about = "playing" THEN validate_initial_data(tb, vote)
    ELSE validate_result(tb, vote)

is_valid_voter(tb, voter, vote) ==
    /\ voter \in Player
    /\ IF vote.about = "playing" THEN is_waiting_at_table(tb, voter)
       ELSE is_playing(tb, voter)

-----------------------------------------------------------------------------
\* Votes are grouped by the digest of their content.  The share that misses
\* counts the groups, less one, not the votes in them.
Contents(votes) == {votes[v] : v \in DOMAIN votes}

Supporters(votes, c) == {v \in DOMAIN votes : votes[v] = c}

AllGroupsMiss(votes) ==
    (Cardinality(Contents(votes)) * GRAPHENE_100_PERCENT)
        \div Cardinality(DOMAIN votes)

MissPercent(votes) ==
    ((Cardinality(Contents(votes)) - 1) * GRAPHENE_100_PERCENT)
        \div Cardinality(DOMAIN votes)

Consensus(votes) ==
    /\ DOMAIN votes # {}
    /\ MissPercent(votes) <= GRAPHENE_100_PERCENT - RequiredPercent

SmallestGroup(votes) ==
    {c \in Contents(votes) : \A o \in Contents(votes) :
        Cardinality(Supporters(votes, o)) >= Cardinality(Supporters(votes, c))}

\* The largest groups; among those the code takes the one whose digest is
\* largest, here any of them.
Winners(votes) ==
    {c \in Contents(votes) : \A o \in Contents(votes) :
        Cardinality(Supporters(votes, o)) <= Cardinality(Supporters(votes, c))}

InvalidVoters(votes, winner) == DOMAIN votes \ Supporters(votes, winner)

-----------------------------------------------------------------------------
Substitutable(required, percent) ==
    (Cardinality(required) * percent) \div GRAPHENE_100_PERCENT

\* The voters a new voting waits for: the players of the proposed game and the
\* owner of the table, or the players of the game that is being played.
set_required_voters(tb, owner, vote) ==
    IF vote.about = "playing" THEN Players(vote.cash) \cup {owner}
    ELSE Players(tb.playing_cash)

is_game_witness(owner, voter) == voter \in GameWitness /\ voter # owner

AddVote(votes, voter, vote) ==
    [v \in DOMAIN votes \cup {voter} |-> IF v = voter THEN vote ELSE votes[v]]

set_voter(vt, owner, voter, vote) ==
    LET asWitness == voter \notin vt.required_players /\ is_game_witness(owner, voter)
        me == IF asWitness THEN {voter} ELSE {}
    IN  [vt EXCEPT !.votes = AddVote(@, voter, vote),
                   !.required_players = @ \ {voter},
                   !.voted_witnesses = @ \cup me,
                   !.required_witnesses = IF vote.about = "playing" THEN @ \cup me
                                          ELSE @ \ me]

\* collect_votes when the table has no voting yet.  It is neither scheduled
\* nor checked for completeness.
NewVoting(tb, owner, voter, vote, lifetime) ==
    LET required == set_required_voters(tb, owner, vote)
        percent == IF vote.about = "playing" THEN SubstitutionForPlaying
                   ELSE SubstitutionForResults
    IN  set_voter([votes |-> [v \in {} |-> vote],
                   expiration |-> lifetime,
                   scheduled |-> None,
                   allowed |-> Substitutable(required, percent),
                   required_players |-> required,
                   required_witnesses |-> IF vote.about = "playing" THEN {}
                                          ELSE tb.voted_witnesses,
                   voted_witnesses |-> {}],
                  owner, voter, vote)

WitnessesSubstitute(vt) ==
    /\ vt.voted_witnesses # {}
    /\ Cardinality(vt.voted_witnesses) >= vt.allowed
    /\ Cardinality(vt.required_players) <= vt.allowed

is_the_required_number_of_voters(tb, vt, about) ==
    /\ IF about = "playing"
       THEN Cardinality(vt.voted_witnesses) >= tb.settings.required_witnesses
       ELSE vt.required_witnesses = {}
    /\ vt.required_players = {} \/ WitnessesSubstitute(vt)

\* The pending votes that count in a voting: of its kind, of players it waits
\* for, and still covered by the money at the table.
check_pending_votes(tb, vt, pending, about) ==
    {p \in DOMAIN pending : /\ pending[p].about = about
                            /\ p \in vt.required_players
                            /\ validate_ivariants(tb, pending[p])}

CollectPending(vt, pending, S) ==
    [vt EXCEPT !.votes = [v \in DOMAIN vt.votes \cup S |->
                              IF v \in S THEN pending[v] ELSE vt.votes[v]],
               !.required_players = @ \ S]

\* A complete voting is decided at the next block, and does not expire before.
Schedule(vt) ==
    [vt EXCEPT !.scheduled = 1,
               !.expiration = IF @ \in 0..1 THEN 2 ELSE @]

-----------------------------------------------------------------------------
\* The kind of a voting is that of its first vote; an empty one has none.
is_voting_for(vt, about) ==
    DOMAIN vt.votes # {} /\ \E v \in DOMAIN vt.votes : vt.votes[v].about = about

ValidVotes(tb, votes) ==
    [v \in {u \in DOMAIN votes : validate_ivariants(tb, votes[u])} |-> votes[v]]

\* The witnesses of the game that voting() hands on: those whose vote differed
\* from the winner are struck off.
AgreeingWitnesses(vt, owner, winner) ==
    vt.voted_witnesses \ {v \in InvalidVoters(vt.votes, winner) : is_game_witness(owner, v)}
=============================================================================

---------------------------- MODULE TablesProofs ----------------------------
(***************************************************************************)
(* All tables: every operation and every task of a block leads from tables *)
(* that satisfy the invariant of TableProofs to others that do.  Then the  *)
(* places that reservations hold: what it takes to keep the reservations,  *)
(* the proposals of the tables and the measurements the same, whichever of *)
(* them a step changes first.  Then the coins of all tables, and what      *)
(* moves coins between the players and one of the tables.                  *)
(***************************************************************************)
EXTENDS TableProofs

\* Zenon proves the steps that name no other prover.
USE ZenonT(60)

\* scheduled_voting and expired_voting
LEMMA VotingDecided ==
    ASSUME NEW w, DOMAIN w = WorldFields, TInv(w.tb), NEW owner, NEW r,
           r \in scheduled_voting(w, owner) \/ r \in expired_voting(w)
    PROVE  Decided(w, r)
<1>0. Decided(w, w)
  BY DEF Decided, Frozen
<1>1. CASE is_voting_for(w.tb.voting, "playing")
  <2>1. CASE r \in scheduled_voting_for_playing(w, owner)
    BY <1>1, <2>1, StartDecided, SMTT(30)
  <2>2. CASE r = cleanup_pending_votes(Closed(w))
    BY <2>2, VotingDropped
  <2> QED BY <1>1, <2>1, <2>2 DEF scheduled_voting, expired_voting
<1>2. CASE ~is_voting_for(w.tb.voting, "playing") /\ is_voting_for(w.tb.voting, "results")
  <2>1. CASE r \in scheduled_voting_for_results(w)
    BY <1>2, <2>1, ResultDecided
  <2>2. CASE r = rollback(Closed(w), FALSE)
    BY <2>2, GameCalledOff
  <2> QED BY <1>2, <2>1, <2>2
        DEF scheduled_voting, expired_voting, expire_voting_for_results
<1>3. CASE ~is_voting_for(w.tb.voting, "playing") /\ ~is_voting_for(w.tb.voting, "results")
  BY <1>0, <1>3 DEF scheduled_voting, expired_voting
<1> QED BY <1>1, <1>2, <1>3

-----------------------------------------------------------------------------
(* What operations do to a table.                                            *)

\* A change of a table from one the invariant allows to another.
Good(tb, r) == TInv(r) /\ Frozen(tb, r)

\* A change of fields that the invariant does not mention.
LEMMA Unaffected ==
    ASSUME NEW tb, TInv(tb), NEW r, DOMAIN r = TableFields, OnlyVotes(r, tb),
           r.voting = tb.voting, r.pending_votes = tb.pending_votes
    PROVE  Good(tb, r)
<1>1. Sound(tb) /\ DOMAIN r.voting = VotingFields
  BY DEF TInv, Sound, Shape
<1>2. Sound(r)
  BY <1>1, SoundVotes
<1> QED BY <1>2, VotesAndStakesKept DEF Sound, OnlyVotes, Good

\* alive_for_table, the expiration of a table, table_update
LEMMA AliveOrUpdated ==
    ASSUME NEW tb, TInv(tb), NEW x
    PROVE  /\ Good(tb, alive_for_table(tb))
           /\ alive_for_table(tb).playing_cash = tb.playing_cash
           /\ Good(tb, [tb EXCEPT !.alive = x])
           /\ Good(tb, [tb EXCEPT !.settings = x])
<1>0. DOMAIN tb = TableFields
  BY DEF TInv, Shape
<1>1. Good(tb, [tb EXCEPT !.alive = x])
  <2> DEFINE r == [tb EXCEPT !.alive = x]
  <2>1. /\ DOMAIN r = TableFields /\ OnlyVotes(r, tb)
        /\ r.voting = tb.voting /\ r.pending_votes = tb.pending_votes
    BY <1>0 DEF TableFields, OnlyVotes
  <2> HIDE DEF r
  <2>2. Good(tb, r)
    BY <2>1, Unaffected
  <2> QED BY <2>2 DEF r
<1>2. Good(tb, [tb EXCEPT !.settings = x])
  <2> DEFINE r == [tb EXCEPT !.settings = x]
  <2>1. /\ DOMAIN r = TableFields /\ OnlyVotes(r, tb)
        /\ r.voting = tb.voting /\ r.pending_votes = tb.pending_votes
    BY <1>0 DEF TableFields, OnlyVotes
  <2> HIDE DEF r
  <2>2. Good(tb, r)
    BY <2>1, Unaffected
  <2> QED BY <2>2 DEF r
<1>3. Good(tb, alive_for_table(tb)) /\ alive_for_table(tb).playing_cash = tb.playing_cash
  <2> DEFINE r == alive_for_table(tb)
  <2>1. /\ DOMAIN r = TableFields /\ OnlyVotes(r, tb)
        /\ r.voting = tb.voting /\ r.pending_votes = tb.pending_votes
    BY <1>0 DEF TableFields, OnlyVotes, alive_for_table
  <2> HIDE DEF r
  <2>2. Good(tb, r) /\ r.playing_cash = tb.playing_cash
    BY <2>1, Unaffected DEF OnlyVotes
  <2> QED BY <2>2 DEF r
<1> QED BY <1>1, <1>2, <1>3

\* One change after another, the first of which leaves the stakes alone.
LEMMA GoodTwice ==
    ASSUME NEW tb, NEW mid, mid.playing_cash = tb.playing_cash, NEW r, Good(mid, r)
    PROVE  Good(tb, r)
BY StakesDecide DEF Good, Frozen

\* A player gets cash and a buy-in object: buy_in_table
LEMMA Seated ==
    ASSUME NEW tb, TInv(tb), NEW p \in Player, NEW amount \in Nat
    PROVE  Good(tb, alive_for_table(register_buy_in(adjust_cash(tb, Only(p, amount)), {p})))
<1> DEFINE tb1 == adjust_cash(tb, Only(p, amount))
           tb2 == register_buy_in(tb1, {p})
<1>0. Only(p, amount) \in [Player -> Int]
  BY SMTT(30) DEF Only
<1>1. /\ Shape(tb1) /\ Counted(tb1) /\ SameElsewhere(tb1, tb)
      /\ tb1.cash = Adjusted(tb.cash, Only(p, amount))
      /\ tb1.playing_cash = tb.playing_cash
  BY <1>0, AdjustCash DEF TInv
<1> HIDE DEF tb1
<1>2. /\ Shape(tb2) /\ Counted(tb2)
      /\ tb2.cash = tb1.cash /\ tb2.playing_cash = tb1.playing_cash
      /\ tb2.buy_outs = tb1.buy_outs
      /\ tb2.voting = tb1.voting /\ tb2.pending_votes = tb1.pending_votes
      /\ \A q \in Player : tb2.buy_ins[q] = IF q \in {p} THEN BuyInLifetime ELSE tb1.buy_ins[q]
  BY <1>1, RegisterBuyIn
<1> HIDE DEF tb2
<1>3. Registered(tb2)
  <2> SUFFICES ASSUME NEW q \in Player, tb2.cash[q] + tb2.playing_cash[q] > 0
               PROVE  tb2.buy_ins[q] # None
    BY DEF Registered
  <2>1. CASE q = p
    BY <1>2, <2>1, TablesAssumption
  <2>2. CASE q # p
    <3>1. tb2.buy_ins[q] = tb.buy_ins[q]
      BY <1>1, <1>2, <2>2 DEF SameElsewhere
    <3>2. tb.cash[q] \in Nat
      BY DEF TInv, Shape, Money
    <3>3. tb2.cash[q] = tb.cash[q]
      BY <1>1, <1>2, <2>2, <3>2, SMTT(30) DEF Adjusted, Only
    <3> QED BY <1>1, <1>2, <3>1, <3>3 DEF TInv, Registered
  <2> QED BY <2>1, <2>2, SMTT(30)
<1>4. BuyOutsOfPlayers(tb2)
  BY <1>1, <1>2 DEF TInv, BuyOutsOfPlayers, is_playing, SameElsewhere
<1>5. Good(tb, tb2) /\ tb2.playing_cash = tb.playing_cash
  BY <1>1, <1>2, <1>3, <1>4, VotesAndStakesKept, SMTT(30) DEF SameElsewhere, Good
<1>6. Good(tb2, alive_for_table(tb2))
  BY <1>5, AliveOrUpdated DEF Good
<1>7. Good(tb, alive_for_table(tb2))
  BY <1>5, <1>6, GoodTwice
<1> QED BY <1>7 DEF tb2, tb1

\* A reservation comes or goes.
LEMMA ProposalsChange ==
    ASSUME NEW tb, TInv(tb), NEW p
    PROVE  /\ Good(tb, remove_pending_proposal(tb, p))
           /\ remove_pending_proposal(tb, p).playing_cash = tb.playing_cash
           /\ p \in Player => \A uid \in Uid : Good(tb, add_pending_proposal(tb, p, uid))
<1>1. Good(tb, remove_pending_proposal(tb, p))
      /\ remove_pending_proposal(tb, p).playing_cash = tb.playing_cash
  <2> DEFINE r == remove_pending_proposal(tb, p)
  <2>1. /\ Shape(r) /\ Counted(r) /\ SameElsewhere(r, tb)
        /\ r.cash = tb.cash /\ r.playing_cash = tb.playing_cash
    BY RemoveProposal DEF TInv
  <2> HIDE DEF r
  <2>2. Registered(r)
    BY <2>1 DEF TInv, Registered, SameElsewhere
  <2>3. Good(tb, r)
    BY <2>1, <2>2, CashChanged DEF Good
  <2> QED BY <2>1, <2>3 DEF r
<1>2. ASSUME p \in Player, NEW uid \in Uid
      PROVE  Good(tb, add_pending_proposal(tb, p, uid))
  <2> DEFINE r == add_pending_proposal(tb, p, uid)
  <2>1. /\ Shape(r) /\ Counted(r) /\ SameElsewhere(r, tb)
        /\ r.cash = tb.cash /\ r.playing_cash = tb.playing_cash
    BY <1>2, AddProposal DEF TInv
  <2> HIDE DEF r
  <2>2. Registered(r)
    BY <2>1 DEF TInv, Registered, SameElsewhere
  <2>3. Good(tb, r)
    BY <2>1, <2>2, CashChanged, SMTT(30) DEF Good
  <2> QED BY <2>3 DEF r
<1> QED BY <1>1, <1>2

\* Cash leaves the table and with it a pending buy-out; the player keeps the buy-in object
\* (x is its expiration) or has neither cash nor stake.
LEMMA CashTaken ==
    ASSUME NEW tb, TInv(tb), NEW p \in Player, NEW amount \in Nat, NEW x \in Int,
           x = tb.buy_ins[p] \/ (amount = tb.cash[p] /\ ~is_playing(tb, p)),
           NEW y, y = 0 \/ y = tb.buy_outs[p]
    PROVE  Good(tb, [adjust_cash(tb, Only(p, -amount)) EXCEPT !.buy_ins[p] = x,
                                                              !.buy_outs[p] = y])
<1> DEFINE tb1 == adjust_cash(tb, Only(p, -amount))
           r == [tb1 EXCEPT !.buy_ins[p] = x, !.buy_outs[p] = y]
<1>0. Only(p, -amount) \in [Player -> Int]
  BY SMTT(30) DEF Only
<1>1. /\ Shape(tb1) /\ Counted(tb1) /\ SameElsewhere(tb1, tb)
      /\ tb1.cash = Adjusted(tb.cash, Only(p, -amount))
      /\ tb1.playing_cash = tb.playing_cash
  BY <1>0, AdjustCash DEF TInv
<1>t. /\ tb.cash \in Money /\ tb.playing_cash \in Money /\ tb.buy_outs \in Money
      /\ tb.buy_ins \in [Player -> Int]
  BY DEF TInv, Shape
<1> HIDE DEF tb1
<1>2. /\ DOMAIN r = TableFields
      /\ r.cash = tb1.cash /\ r.playing_cash = tb1.playing_cash
      /\ r.pending_proposals = tb1.pending_proposals
      /\ r.occupied_places = tb1.occupied_places
      /\ r.voting = tb1.voting /\ r.pending_votes = tb1.pending_votes
      /\ r.buy_ins = [tb.buy_ins EXCEPT ![p] = x]
      /\ r.buy_outs = [tb.buy_outs EXCEPT ![p] = y]
  BY <1>1, SMTT(30) DEF Shape, TableFields, SameElsewhere
<1> HIDE DEF r
<1>3. y \in Nat
  BY <1>t, SMTT(30) DEF Money
<1>4. Shape(r) /\ Counted(r)
  <2>1. r.buy_outs \in Money /\ r.buy_ins \in [Player -> Int]
    BY <1>2, <1>3, <1>t DEF Money
  <2>2. Counted(r)
    BY <1>1, <1>2 DEF Counted, Reserved
  <2> QED BY <1>1, <1>2, <2>1, <2>2 DEF Shape
<1>s. r.playing_cash = tb.playing_cash /\ r.cash = Adjusted(tb.cash, Only(p, -amount))
  BY <1>1, <1>2
<1>5. ASSUME NEW q \in Player
      PROVE  r.cash[q] \in Nat /\ r.cash[q] <= tb.cash[q]
  <2>1. Only(p, -amount)[q] <= 0
    BY SMTT(30) DEF Only
  <2>2. r.cash[q] <= tb.cash[q]
    BY <1>0, <1>s, <1>t, <2>1, AdjustedAt
  <2> QED BY <1>4, <2>2, SMTT(30) DEF Shape, Money
<1>6. Registered(r)
  <2> SUFFICES ASSUME NEW q \in Player, r.cash[q] + r.playing_cash[q] > 0
               PROVE  r.buy_ins[q] # None
    BY DEF Registered
  <2>0. tb.cash[q] \in Nat /\ tb.playing_cash[q] \in Nat
    BY <1>t DEF Money
  <2>1. tb.cash[q] + tb.playing_cash[q] > 0 /\ tb.buy_ins[q] # None
    <3>1. r.cash[q] \in Nat /\ r.cash[q] <= tb.cash[q] /\ r.playing_cash[q] = tb.playing_cash[q]
      BY <1>5, <1>s
    <3>2. tb.cash[q] + tb.playing_cash[q] > 0
      BY <2>0, <3>1, SMTT(30)
    <3> QED BY <3>2 DEF TInv, Registered
  <2>2. CASE q # p \/ x = tb.buy_ins[p]
    BY <1>2, <1>t, <2>1, <2>2
  <2>3. CASE q = p /\ amount = tb.cash[p] /\ ~is_playing(tb, p)
    <3>1. r.cash[q] = 0
      <4>1. Only(p, -amount)[q] = -amount
        BY <2>3 DEF Only
      <4>2. tb.cash[q] + Only(p, -amount)[q] >= 0 /\ tb.cash[q] + Only(p, -amount)[q] = 0
        BY <2>0, <2>3, <4>1, SMTT(30)
      <4> QED BY <1>0, <1>s, <1>t, <4>2, AdjustedAt, SMTT(30)
    <3>2. r.playing_cash[q] = tb.playing_cash[q] /\ ~(tb.playing_cash[q] > 0)
      BY <1>s, <2>3 DEF is_playing
    <3> QED BY <2>0, <3>1, <3>2, SMTT(30)
  <2> QED BY <2>2, <2>3, SMTT(30)
<1>7. BuyOutsOfPlayers(r)
  <2> SUFFICES ASSUME NEW q \in Player, r.buy_outs[q] > 0 PROVE tb.playing_cash[q] > 0
    BY <1>s DEF BuyOutsOfPlayers, is_playing
  <2>1. r.buy_outs[q] = 0 \/ r.buy_outs[q] = tb.buy_outs[q]
    BY <1>2, <1>t DEF Money
  <2>2. tb.buy_outs[q] > 0
    BY <2>1, SMTT(30)
  <2> QED BY <2>2 DEF TInv, BuyOutsOfPlayers, is_playing
<1>8. Good(tb, r)
  BY <1>1, <1>2, <1>4, <1>6, <1>7, VotesAndStakesKept DEF SameElsewhere, Good
<1> QED BY <1>8, SMTT(30) DEF r, tb1

\* buy_out_table pays at once.
LEMMA BoughtOut ==
    ASSUME NEW tb, TInv(tb), NEW p \in Player, NEW amount \in Nat
    PROVE  Good(tb, [adjust_cash(tb, Only(p, -amount)) EXCEPT !.buy_outs[p] = 0])
<1> DEFINE tb1 == adjust_cash(tb, Only(p, -amount))
           r == [tb1 EXCEPT !.buy_outs[p] = 0]
           r2 == [tb1 EXCEPT !.buy_ins[p] = tb.buy_ins[p], !.buy_outs[p] = 0]
<1>0. tb.buy_ins \in [Player -> Int]
  BY DEF TInv, Shape
<1>1. Good(tb, r2)
  BY <1>0, CashTaken
<1>2. Shape(tb1) /\ tb1.buy_ins = tb.buy_ins
  <2>1. Only(p, -amount) \in [Player -> Int]
    BY SMTT(30) DEF Only
  <2> QED BY <2>1, AdjustCash DEF TInv, SameElsewhere
<1> HIDE DEF tb1
<1>3. r2 = r
  <2>1. [tb1.buy_ins EXCEPT ![p] = tb.buy_ins[p]] = tb1.buy_ins
    BY <1>0, <1>2
  <2> QED BY <1>2, <2>1 DEF Shape, TableFields
<1> QED BY <1>1, <1>3 DEF tb1

\* buy_out_table leaves a pending buy-out to the game.
LEMMA BuyOutWaits ==
    ASSUME NEW tb, TInv(tb), NEW p \in Player, NEW amount \in Nat, is_playing(tb, p)
    PROVE  Good(tb, [tb EXCEPT !.buy_outs[p] = amount])
<1> DEFINE r == [tb EXCEPT !.buy_outs[p] = amount]
<1>1. /\ DOMAIN r = TableFields
      /\ r.cash = tb.cash /\ r.playing_cash = tb.playing_cash
      /\ r.pending_proposals = tb.pending_proposals
      /\ r.occupied_places = tb.occupied_places /\ r.buy_ins = tb.buy_ins
      /\ r.voting = tb.voting /\ r.pending_votes = tb.pending_votes
      /\ r.buy_outs = [tb.buy_outs EXCEPT ![p] = amount]
  BY DEF TInv, Shape, TableFields
<1> HIDE DEF r
<1>2. tb.buy_outs \in Money
  BY DEF TInv, Shape
<1>3. r.buy_outs \in Money
  BY <1>1, <1>2, SMTT(30) DEF Money
<1>4. Shape(r) /\ Counted(r) /\ Registered(r)
  BY <1>1, <1>3 DEF TInv, Shape, Counted, Registered, Reserved
<1>5. BuyOutsOfPlayers(r)
  BY <1>1, <1>2 DEF TInv, BuyOutsOfPlayers, is_playing, Money
<1>6. Good(tb, r)
  BY <1>1, <1>4, <1>5, VotesAndStakesKept, SMTT(30) DEF Good
<1> QED BY <1>6, SMTT(30) DEF r

\* update_expired_buy_in gives a player in the game a new buy-in object.
LEMMA BuyInExtended ==
    ASSUME NEW tb, TInv(tb), NEW p
    PROVE  Good(tb, register_buy_in(tb, {p}))
<1> DEFINE r == register_buy_in(tb, {p})
<1>1. /\ Shape(r) /\ Counted(r)
      /\ r.cash = tb.cash /\ r.playing_cash = tb.playing_cash
      /\ r.buy_outs = tb.buy_outs
      /\ r.voting = tb.voting /\ r.pending_votes = tb.pending_votes
      /\ \A q \in Player : r.buy_ins[q] = IF q \in {p} THEN BuyInLifetime ELSE tb.buy_ins[q]
  BY RegisterBuyIn DEF TInv
<1> HIDE DEF r
<1>2. Registered(r) /\ BuyOutsOfPlayers(r)
  BY <1>1, TablesAssumption DEF TInv, Registered, BuyOutsOfPlayers, is_playing
<1>3. Good(tb, r)
  BY <1>1, <1>2, VotesAndStakesKept, SMTT(30) DEF Good
<1> QED BY <1>3, SMTT(30) DEF r

\* Time never makes an object appear or disappear.
LEMMA TickKeeps ==
    ASSUME NEW time \in Int, NEW gap \in Nat
    PROVE  Tick(time, gap) \in Int /\ (Tick(time, gap) = None <=> time = None)
BY SMTT(30) DEF Tick, None

\* TickTable
LEMMA Ticked ==
    ASSUME NEW tb, TInv(tb), NEW gap \in Nat
    PROVE  Good(tb, TickTable(tb, gap))
<1> DEFINE r == TickTable(tb, gap)
           new == [p \in Player |-> Tick(tb.buy_ins[p], gap)]
           vt == [tb.voting EXCEPT !.expiration = Tick(@, gap), !.scheduled = Tick(@, gap)]
<1>0. Shape(tb)
  BY DEF TInv
<1>1. /\ DOMAIN r = TableFields
      /\ r.cash = tb.cash /\ r.playing_cash = tb.playing_cash
      /\ r.pending_proposals = tb.pending_proposals
      /\ r.occupied_places = tb.occupied_places /\ r.buy_outs = tb.buy_outs
      /\ r.pending_votes = tb.pending_votes
      /\ r.buy_ins = new /\ r.voting = vt
  BY <1>0, SMTT(30) DEF TickTable, Shape, TableFields, VotingFields
<1>2. DOMAIN vt = VotingFields /\ vt.votes = tb.voting.votes
  BY <1>0 DEF Shape, VotingFields
<1>3. \A p \in Player : new[p] \in Int /\ (new[p] = None <=> tb.buy_ins[p] = None)
  BY <1>0, TickKeeps DEF Shape
<1>4. new \in [Player -> Int]
  BY <1>3
<1>5. tb.voting = NoVoting => vt = NoVoting
  <2>1. Tick(None, gap) = None
    BY SMTT(30) DEF Tick, None
  <2>2. /\ NoVoting = [f \in VotingFields |-> NoVoting[f]]
        /\ NoVoting.expiration = None /\ NoVoting.scheduled = None
    BY DEF NoVoting, VotingFields
  <2> HIDE DEF NoVoting
  <2>3. [NoVoting EXCEPT !.expiration = None, !.scheduled = None] = NoVoting
    BY <2>2
  <2> QED BY <2>1, <2>2, <2>3
<1> HIDE DEF r, new, vt
<1>6. Shape(r) /\ Counted(r)
  BY <1>0, <1>1, <1>2, <1>4 DEF TInv, Shape, Counted, Reserved
<1>7. Registered(r) /\ BuyOutsOfPlayers(r)
  BY <1>1, <1>3 DEF TInv, Registered, BuyOutsOfPlayers, is_playing
<1>8. VotesAreApplicable(r)
  BY <1>1, <1>2, <1>5, StakesDecide DEF TInv, VotesAreApplicable, is_table_voting
<1>9. Good(tb, r)
  BY <1>1, <1>6, <1>7, <1>8 DEF Good, TInv, Frozen
<1> QED BY <1>9 DEF r

\* The votes of an opened or joined voting are applicable when those that are added are.
LEMMA VoteAdded ==
    ASSUME NEW tb, NEW votes, \A v \in DOMAIN votes : Applicable(tb, votes[v]),
           NEW voter, NEW vote, Applicable(tb, vote)
    PROVE  \A v \in DOMAIN AddVote(votes, voter, vote) :
              Applicable(tb, AddVote(votes, voter, vote)[v])
<1> DEFINE new == AddVote(votes, voter, vote)
<1>1. /\ DOMAIN new = DOMAIN votes \cup {voter}
      /\ \A v \in DOMAIN new : new[v] = IF v = voter THEN vote ELSE votes[v]
  BY DEF AddVote
<1> HIDE DEF new
<1>2. ASSUME NEW v \in DOMAIN new PROVE Applicable(tb, new[v])
  <2>1. CASE v = voter
    BY <1>1, <2>1
  <2>2. CASE v # voter
    BY <1>1, <2>2
  <2> QED BY <2>1, <2>2
<1> QED BY <1>2 DEF new

\* A voting all votes of which are applicable.
Ballot(tb, vt) ==
    DOMAIN vt = VotingFields /\ \A v \in DOMAIN vt.votes : Applicable(tb, vt.votes[v])

\* set_voter
LEMMA VoterSet ==
    ASSUME NEW tb, NEW vt, Ballot(tb, vt), NEW owner, NEW voter, NEW vote, Applicable(tb, vote)
    PROVE  Ballot(tb, set_voter(vt, owner, voter, vote))
<1> DEFINE r == set_voter(vt, owner, voter, vote)
           new == AddVote(vt.votes, voter, vote)
<1>1. DOMAIN r = VotingFields /\ r.votes = new
  <2> HIDE DEF new
  <2> QED BY DEF set_voter, Ballot, VotingFields, new
<1>2. \A v \in DOMAIN new : Applicable(tb, new[v])
  BY VoteAdded DEF Ballot
<1> HIDE DEF r, new
<1>3. Ballot(tb, r)
  BY <1>1, <1>2 DEF Ballot
<1> QED BY <1>3 DEF r

\* NewVoting
LEMMA VotingOpened ==
    ASSUME NEW tb, NEW owner, NEW voter, NEW vote, Applicable(tb, vote), NEW lifetime
    PROVE  Ballot(tb, NewVoting(tb, owner, voter, vote, lifetime))
<1> DEFINE required == set_required_voters(tb, owner, vote)
           percent == IF vote.about = "playing" THEN SubstitutionForPlaying
                      ELSE SubstitutionForResults
           vt == [votes |-> [v \in {} |-> vote],
                  expiration |-> lifetime,
                  scheduled |-> None,
                  allowed |-> Substitutable(required, percent),
                  required_players |-> required,
                  required_witnesses |-> IF vote.about = "playing" THEN {}
                                         ELSE tb.voted_witnesses,
                  voted_witnesses |-> {}]
<1>1. NewVoting(tb, owner, voter, vote, lifetime) = set_voter(vt, owner, voter, vote)
  BY DEF NewVoting
<1>2. DOMAIN vt = VotingFields /\ DOMAIN vt.votes = {}
  <2> HIDE DEF required, percent
  <2> QED BY DEF VotingFields
<1> HIDE DEF vt
<1>3. Ballot(tb, vt)
  BY <1>2 DEF Ballot
<1> QED BY <1>1, <1>3, VoterSet, SMTT(30)

\* CollectPending
LEMMA PendingCollected ==
    ASSUME NEW tb, NEW vt, Ballot(tb, vt), NEW pending,
           \A v \in DOMAIN pending : Applicable(tb, pending[v]), NEW S, S \subseteq DOMAIN pending
    PROVE  Ballot(tb, CollectPending(vt, pending, S))
<1> DEFINE r == CollectPending(vt, pending, S)
           new == [v \in DOMAIN vt.votes \cup S |-> IF v \in S THEN pending[v] ELSE vt.votes[v]]
<1>1. DOMAIN r = VotingFields /\ r.votes = new
  <2> HIDE DEF new
  <2> QED BY DEF CollectPending, Ballot, VotingFields, new
<1>2. ASSUME NEW v \in DOMAIN new PROVE Applicable(tb, new[v])
  <2>1. CASE v \in S
    BY <2>1
  <2>2. CASE v \notin S
    BY <2>2 DEF Ballot
  <2> QED BY <2>1, <2>2
<1> HIDE DEF r, new
<1>3. Ballot(tb, r)
  BY <1>1, <1>2 DEF Ballot
<1> QED BY <1>3 DEF r

\* Schedule
LEMMA Scheduled ==
    ASSUME NEW tb, NEW vt, Ballot(tb, vt)
    PROVE  Ballot(tb, Schedule(vt))
BY DEF Schedule, Ballot, VotingFields

\* try_voting
LEMMA Voted ==
    ASSUME NEW tb, TInv(tb), NEW owner, NEW voter, NEW vote, Applicable(tb, vote)
    PROVE  Good(tb, try_voting(tb, owner, voter, vote))
<1> DEFINE waits == ~is_table_voting(tb) /\ voter # owner /\ ~is_game_witness(owner, voter)
           joined == IF is_table_voting(tb) THEN set_voter(tb.voting, owner, voter, vote)
                     ELSE NewVoting(tb, owner, voter, vote, VotingLifetime)
           counted == check_pending_votes(tb, joined, tb.pending_votes, vote.about)
           vt == CollectPending(joined, tb.pending_votes, counted)
           collected == /\ is_table_voting(tb) \/ counted # {}
                        /\ is_the_required_number_of_voters(tb, vt, vote.about)
           final == IF collected /\ vt.scheduled = None THEN Schedule(vt) ELSE vt
           held == AddVote(tb.pending_votes, voter, vote)
           r1 == [tb EXCEPT !.pending_votes = held]
           r2 == [tb EXCEPT !.pending_votes = NoVotes, !.voting = final]
<1>0. Sound(tb) /\ DOMAIN tb = TableFields /\ Ballot(tb, tb.voting)
      /\ \A v \in DOMAIN tb.pending_votes : Applicable(tb, tb.pending_votes[v])
  BY DEF TInv, Sound, Shape, Ballot, VotesAreApplicable
<1>1. try_voting(tb, owner, voter, vote) = IF waits THEN r1 ELSE alive_for_table(r2)
  BY DEF try_voting
<1>2. CASE waits
  <2>1. \A v \in DOMAIN held : Applicable(tb, held[v])
    BY <1>0, VoteAdded
  <2> HIDE DEF held
  <2>2. /\ DOMAIN r1 = TableFields /\ OnlyVotes(r1, tb)
        /\ r1.voting = tb.voting /\ r1.pending_votes = held
    BY <1>0 DEF TableFields, OnlyVotes
  <2> HIDE DEF r1
  <2>3. Sound(r1)
    BY <1>0, <2>2, SoundVotes DEF Ballot
  <2>4. VotesAreApplicable(r1)
    BY <1>0, <1>2, <2>1, <2>2, StakesDecide, SMTT(30)
       DEF VotesAreApplicable, is_table_voting, OnlyVotes, Ballot
  <2>5. Good(tb, r1)
    BY <2>2, <2>3, <2>4, SMTT(30) DEF Good, TInv, Sound, Frozen, OnlyVotes
  <2> QED BY <1>1, <1>2, <2>5
<1>3. CASE ~waits
  <2>1. Ballot(tb, joined)
    <3>1. Ballot(tb, set_voter(tb.voting, owner, voter, vote))
      BY <1>0, VoterSet
    <3>2. Ballot(tb, NewVoting(tb, owner, voter, vote, VotingLifetime))
      BY VotingOpened
    <3> QED BY <3>1, <3>2
  <2> HIDE DEF joined
  <2>2. counted \subseteq DOMAIN tb.pending_votes
    BY DEF check_pending_votes
  <2> HIDE DEF counted
  <2>3. Ballot(tb, vt)
    BY <1>0, <2>1, <2>2, PendingCollected
  <2> HIDE DEF vt, collected
  <2>4. Ballot(tb, final)
    <3>1. Ballot(tb, Schedule(vt))
      BY <2>3, Scheduled
    <3> QED BY <2>3, <3>1
  <2> HIDE DEF final
  <2>5. /\ DOMAIN r2 = TableFields /\ OnlyVotes(r2, tb)
        /\ r2.voting = final /\ r2.pending_votes = NoVotes
    BY <1>0 DEF TableFields, OnlyVotes
  <2> HIDE DEF r2
  <2>6. Sound(r2)
    BY <1>0, <2>4, <2>5, SoundVotes DEF Ballot
  <2>7. VotesAreApplicable(r2)
    <3>1. DOMAIN r2.pending_votes = {}
      BY <2>5 DEF NoVotes
    <3> QED BY <2>4, <2>5, <3>1, StakesDecide DEF VotesAreApplicable, OnlyVotes, Ballot
  <2>8. TInv(r2) /\ r2.playing_cash = tb.playing_cash
    BY <2>5, <2>6, <2>7 DEF TInv, Sound, OnlyVotes
  <2>9. Good(r2, alive_for_table(r2))
    BY <2>8, AliveOrUpdated
  <2>10. Good(tb, alive_for_table(r2))
    BY <2>8, <2>9, GoodTwice, SMTT(30)
  <2> QED BY <1>1, <1>3, <2>10, SMTT(30)
<1> QED BY <1>2, <1>3

-----------------------------------------------------------------------------
(* Steps.                                                                    *)

\* Every table goes from one the invariant allows to another.
TablesStay ==
    DOMAIN table' = Table /\ \A t \in Table : Good(table[t], table'[t])

Stays ==
    /\ TablesStay
    /\ \A b \in pending_buy_ins' : IsReservation(b)
    /\ phase' = "allocation" => \A b \in todo' : IsReservation(b)
    /\ phase' = "expired buy-ins" => todo' \subseteq Table \X Player

\* A step that leaves the tables alone.
LEMMA SameTables ==
    ASSUME IInv, table' = table
    PROVE  TablesStay
BY DEF IInv, TablesStay, Good, Frozen

\* A step that changes one table.
LEMMA OneTable ==
    ASSUME IInv, NEW t, NEW tb, t \in Table => Good(table[t], tb),
           table' = [table EXCEPT ![t] = tb]
    PROVE  TablesStay
<1>1. DOMAIN table' = Table
  BY DEF IInv
<1>2. ASSUME NEW u \in Table PROVE Good(table[u], table'[u])
  <2>1. CASE u = t
    BY <2>1 DEF IInv
  <2>2. CASE u # t
    <3>1. table'[u] = table[u]
      BY <2>2 DEF IInv
    <3> QED BY <3>1 DEF IInv, Good, Frozen
  <2> QED BY <2>1, <2>2
<1> QED BY <1>1, <1>2 DEF TablesStay

\* A step of an operation or of a task, as far as the task's list is concerned.
LEMMA ListShrinks ==
    ASSUME IInv, phase' = phase, todo' \subseteq todo
    PROVE  /\ phase' = "allocation" => \A b \in todo' : IsReservation(b)
           /\ phase' = "expired buy-ins" => todo' \subseteq Table \X Player
BY DEF IInv

\* Reservations end.
LEMMA Cancelled ==
    ASSUME IInv, NEW p, NEW S, cancel_pending_buyin(p, S)
    PROVE  TablesStay /\ \A b \in pending_buy_ins' : IsReservation(b)
<1>1. table' = Vacated(p, S) /\ pending_buy_ins' = pending_buy_ins \ S
  BY DEF cancel_pending_buyin
<1>2. DOMAIN table' = Table
  BY <1>1 DEF Vacated
<1>3. ASSUME NEW t \in Table PROVE Good(table[t], table'[t])
  <2>1. TInv(table[t])
    BY DEF IInv
  <2>2. Good(table[t], table[t]) /\ Good(table[t], remove_pending_proposal(table[t], p))
    BY <2>1, ProposalsChange DEF Good, Frozen
  <2>3. table'[t] = table[t] \/ table'[t] = remove_pending_proposal(table[t], p)
    BY <1>1 DEF Vacated
  <2> QED BY <2>2, <2>3
<1> QED BY <1>1, <1>2, <1>3 DEF TablesStay, IInv

\* The world of a table.
LEMMA WorldOfTable ==
    ASSUME IInv, NEW t \in Table
    PROVE  /\ DOMAIN World(t) = WorldFields /\ World(t).tb = table[t] /\ TInv(World(t).tb)
<1>1. DOMAIN World(t) = WorldFields /\ World(t).tb = table[t]
  BY DEF World, WorldFields
<1> QED BY <1>1 DEF IInv

\* A step to another world.
LEMMA WorldChanges ==
    ASSUME IInv, NEW t, NEW w, t \in Table => Good(table[t], w.tb), Becomes(t, w)
    PROVE  TablesStay /\ \A b \in pending_buy_ins' : IsReservation(b)
<1>1. table' = [table EXCEPT ![t] = w.tb] /\ pending_buy_ins' = pending_buy_ins
  BY DEF Becomes
<1>2. TablesStay
  BY <1>1, OneTable
<1> QED BY <1>1, <1>2 DEF IInv

\* Buy-ins, buy-outs and reservations.
LEMMA BuyInStays ==
    ASSUME IInv, BuyInOperation
    PROVE  Stays
<1>1. ASSUME NEW p \in Player, NEW t \in Table, NEW a \in Amount, buy_in_table(p, t, a)
      PROVE  Stays
  <2> DEFINE tb == alive_for_table(register_buy_in(adjust_cash(table[t], Only(p, a)), {p}))
  <2>1. TInv(table[t]) /\ a \in Nat
    BY TablesAssumption DEF IInv
  <2>2. Good(table[t], tb)
    BY <2>1, Seated
  <2> HIDE DEF tb
  <2>3. table' = [table EXCEPT ![t] = tb]
    BY <1>1 DEF buy_in_table, tb
  <2>4. TablesStay
    BY <2>2, <2>3, OneTable
  <2> QED BY <1>1, <2>4, ListShrinks DEF buy_in_table, Stays, IInv
<1>2. ASSUME NEW p \in Player, NEW t \in Table, NEW a \in Amount, buy_out_table(p, t, a)
      PROVE  Stays
  <2> DEFINE paid == [adjust_cash(table[t], Only(p, -a)) EXCEPT !.buy_outs[p] = 0]
             waits == [table[t] EXCEPT !.buy_outs[p] = a]
  <2>1. TInv(table[t]) /\ a \in Nat
    BY TablesAssumption DEF IInv
  <2>2. CASE table[t].cash[p] >= a
    <3>1. Good(table[t], paid)
      BY <2>1, BoughtOut, SMTT(30)
    <3>2. table' = [table EXCEPT ![t] = paid]
      BY <1>2, <2>2 DEF buy_out_table
    <3> HIDE DEF paid
    <3>3. TablesStay
      BY <3>1, <3>2, OneTable
    <3> QED BY <1>2, <3>3, ListShrinks DEF buy_out_table, Stays, IInv
  <2>3. CASE ~(table[t].cash[p] >= a)
    <3>1. is_playing(table[t], p)
      BY <1>2, <2>3 DEF buy_out_table
    <3>2. Good(table[t], waits)
      BY <2>1, <3>1, BuyOutWaits, SMTT(30)
    <3>3. table' = [table EXCEPT ![t] = waits]
      BY <1>2, <2>3 DEF buy_out_table
    <3> HIDE DEF waits
    <3>4. TablesStay
      BY <3>2, <3>3, OneTable
    <3> QED BY <1>2, <3>4, ListShrinks DEF buy_out_table, Stays, IInv
  <2> QED BY <2>2, <2>3
<1>3. ASSUME NEW p \in Player, NEW u \in Uid, NEW a \in Amount, NEW m \in Metadata,
             buy_in_reserve(p, u, a, m)
      PROVE  Stays
  <2> DEFINE new == [player |-> p, uid |-> u, amount |-> a, metadata |-> m,
                     table |-> NoTable, expiration |-> PendingLifetime]
  <2>1. IsReservation(new)
    BY DEF IsReservation
  <2> HIDE DEF new
  <2>2. pending_buy_ins' = pending_buy_ins \cup {new}
    BY <1>3 DEF buy_in_reserve, new
  <2>3. TablesStay
    BY <1>3, SameTables DEF buy_in_reserve
  <2> QED BY <1>3, <2>1, <2>2, <2>3, ListShrinks DEF buy_in_reserve, Stays, IInv
<1>4. ASSUME NEW p \in Player, NEW u \in Uid, buy_in_reserving_cancel(p, u)
      PROVE  Stays
  <2>1. TablesStay /\ \A b \in pending_buy_ins' : IsReservation(b)
    BY <1>4, Cancelled DEF buy_in_reserving_cancel
  <2> QED BY <1>4, <2>1, ListShrinks DEF buy_in_reserving_cancel, Stays
<1>5. ASSUME NEW p \in Player, buy_in_reserving_cancel_all(p)
      PROVE  Stays
  <2> DEFINE S == {b \in pending_buy_ins : b.player = p}
  <2>1. cancel_pending_buyin(p, S)
    BY <1>5 DEF buy_in_reserving_cancel_all
  <2> HIDE DEF S
  <2>2. TablesStay /\ \A b \in pending_buy_ins' : IsReservation(b)
    BY <2>1, Cancelled
  <2> QED BY <1>5, <2>2, ListShrinks DEF buy_in_reserving_cancel_all, Stays
<1>6. ASSUME NEW b \in pending_buy_ins, NEW t \in Table, buy_in_reserving_resolve(b, t)
      PROVE  Stays
  <2> DEFINE mid == remove_pending_proposal(table[t], b.player)
             tb == alive_for_table(register_buy_in(
                       adjust_cash(mid, Only(b.player, b.amount)), {b.player}))
  <2>1. TInv(table[t]) /\ b.player \in Player /\ b.amount \in Nat
    BY TablesAssumption DEF IInv, IsReservation
  <2>2. TInv(mid) /\ mid.playing_cash = table[t].playing_cash
    BY <2>1, ProposalsChange, SMTT(30) DEF Good
  <2> HIDE DEF mid
  <2>3. Good(mid, tb)
    BY <2>1, <2>2, Seated, SMTT(30)
  <2> HIDE DEF tb
  <2>4. Good(table[t], tb)
    BY <2>2, <2>3, GoodTwice, SMTT(30)
  <2>5. table' = [table EXCEPT ![t] = tb]
    BY <1>6 DEF buy_in_reserving_resolve, tb, mid
  <2>6. TablesStay
    BY <2>4, <2>5, OneTable
  <2> QED BY <1>6, <2>6, ListShrinks DEF buy_in_reserving_resolve, Stays, IInv
<1> QED BY <1>1, <1>2, <1>3, <1>4, <1>5, <1>6 DEF BuyInOperation

\* A vote that passes check_incoming_vote.
LEMMA VoteStays ==
    ASSUME IInv, NEW voter, NEW t \in Table, NEW vote, Vote(voter, t, vote),
           Applicable(table[t], vote), phase' = phase, todo' = todo
    PROVE  Stays
<1> DEFINE tb == try_voting(table[t], OwnerOf[t], voter, vote)
<1>1. TInv(table[t])
  BY DEF IInv
<1>2. Good(table[t], tb)
  BY <1>1, Voted
<1> HIDE DEF tb
<1>3. table' = [table EXCEPT ![t] = tb] /\ pending_buy_ins' = pending_buy_ins
  BY DEF Vote, tb
<1>4. TablesStay
  BY <1>2, <1>3, OneTable
<1> QED BY <1>3, <1>4, ListShrinks DEF Stays, IInv

\* Votes and what the owner of a table does.
LEMMA TableOperationStays ==
    ASSUME IInv, TableOperation
    PROVE  Stays
<1>1. ASSUME NEW v \in Voter, NEW t \in Table, NEW c \in StartVotes,
             game_start_playing_check(v, t, c)
      PROVE  Stays
  <2>1. Applicable(table[t], c) /\ Vote(v, t, c) /\ phase' = phase /\ todo' = todo
    BY <1>1 DEF game_start_playing_check, Applicable, Vote
  <2> QED BY <2>1, VoteStays
<1>2. ASSUME NEW v \in Voter, NEW t \in Table, NEW c \in ResultVotes, game_result_check(v, t, c)
      PROVE  Stays
  <2>1. ~is_free(table[t]) /\ Vote(v, t, c) /\ phase' = phase /\ todo' = todo
    BY <1>2 DEF game_result_check, Vote
  <2>2. validate_result(table[t], c)
    BY <2>1, TablesAssumption DEF Vote, check_incoming_vote, validate_ivariants
  <2>3. Applicable(table[t], c)
    BY <2>1, <2>2 DEF Applicable
  <2> QED BY <2>1, <2>3, VoteStays
<1>3. ASSUME NEW t \in Table, NEW full \in BOOLEAN, game_reset(t, full)
      PROVE  Stays
  <2> DEFINE w == rollback(World(t), full)
             r == [w EXCEPT !.tb = alive_for_table(@)]
  <2>1. DOMAIN World(t) = WorldFields /\ TInv(World(t).tb)
    BY WorldOfTable
  <2>2. DOMAIN w = WorldFields /\ TInv(w.tb) /\ is_free(w.tb)
    BY <2>1, RollbackEnds DEF TInv
  <2>3. Becomes(t, r) /\ phase' = phase /\ todo' = todo
    BY <1>3 DEF game_reset
  <2> HIDE DEF w
  <2>4. r.tb = alive_for_table(w.tb)
    BY <2>2 DEF WorldFields
  <2> HIDE DEF r
  <2>5. TInv(r.tb) /\ is_free(r.tb)
    BY <2>2, <2>4, AliveOrUpdated, StakesDecide DEF Good
  <2>6. Good(table[t], r.tb)
    BY <2>5 DEF Good, Frozen
  <2>7. TablesStay /\ \A b \in pending_buy_ins' : IsReservation(b)
    BY <2>3, <2>6, WorldChanges, SMTT(30)
  <2> QED BY <2>3, <2>7, ListShrinks DEF Stays
<1>4. ASSUME NEW t \in Table, tables_alive(t)
      PROVE  Stays
  <2>1. TInv(table[t])
    BY DEF IInv
  <2>2. Good(table[t], alive_for_table(table[t]))
    BY <2>1, AliveOrUpdated
  <2>3. TablesStay
    BY <1>4, <2>2, OneTable DEF tables_alive
  <2> QED BY <1>4, <2>3, ListShrinks DEF tables_alive, Stays, IInv
<1>5. ASSUME NEW t \in Table, NEW s \in Settings, table_update(t, s)
      PROVE  Stays
  <2> DEFINE tb == [table[t] EXCEPT !.settings = s]
  <2>1. TInv(table[t])
    BY DEF IInv
  <2>2. Good(table[t], tb)
    BY <2>1, AliveOrUpdated
  <2>3. table' = [table EXCEPT ![t] = tb]
    BY <1>5, SMTT(30) DEF table_update
  <2> HIDE DEF tb
  <2>4. TablesStay
    BY <2>2, <2>3, OneTable
  <2> QED BY <1>5, <2>4, ListShrinks DEF table_update, Stays, IInv
<1> QED BY <1>1, <1>2, <1>3, <1>4, <1>5, SMTT(30) DEF TableOperation

\* process_block_tasks moves on to a task with objects that are there for it.
LEMMA WhatIsCollected ==
    ASSUME process_block_tasks
    PROVE  todo' \subseteq Collected(phase')
<1>1. PICK maintenance \in IF LongGames THEN BOOLEAN ELSE {TRUE} :
         LET work(i) == IF Tasks[i] = "expired games" /\ ~maintenance THEN {}
                        ELSE Collected(Tasks[i])
             busy == {i \in Position(phase) + 1..Len(Tasks) : work(i) # {}}
             next == CHOOSE i \in busy : \A j \in busy : i <= j
         IN  IF busy = {} THEN phase' = "operations" /\ todo' = {}
             ELSE phase' = Tasks[next] /\ todo' \in Batches(Tasks[next])
  BY DEF process_block_tasks
<1> DEFINE work(i) == IF Tasks[i] = "expired games" /\ ~maintenance THEN {}
                      ELSE Collected(Tasks[i])
           busy == {i \in Position(phase) + 1..Len(Tasks) : work(i) # {}}
           next == CHOOSE i \in busy : \A j \in busy : i <= j
<1>2. todo' = {} \/ (phase' = Tasks[next] /\ todo' \in Batches(Tasks[next]))
  BY <1>1
<1> HIDE DEF busy, next
<1>3. ASSUME NEW task, NEW S \in Batches(task)
      PROVE  S \subseteq Collected(task)
  BY <1>3 DEF Batches
<1> QED BY <1>2, <1>3

\* A block arrives, or the next task collects its objects.
LEMMA BlockStays ==
    ASSUME IInv, (\E gap \in Gaps : NewBlock(gap)) \/ process_block_tasks
    PROVE  Stays
<1>1. ASSUME NEW gap \in Gaps, NewBlock(gap)
      PROVE  Stays
  <2>0. gap \in Nat /\ phase' = "block"
    BY <1>1, TablesAssumption DEF NewBlock
  <2>1. DOMAIN table' = Table /\ \A t \in Table : table'[t] = TickTable(table[t], gap)
    BY <1>1 DEF NewBlock
  <2>2. ASSUME NEW t \in Table PROVE Good(table[t], table'[t])
    <3>1. TInv(table[t])
      BY DEF IInv
    <3> QED BY <2>0, <2>1, <3>1, Ticked, SMTT(30)
  <2>3. ASSUME NEW b \in pending_buy_ins'
        PROVE  IsReservation(b)
    <3>1. PICK o \in pending_buy_ins : b = [o EXCEPT !.expiration = Tick(@, gap)]
      BY <1>1 DEF NewBlock
    <3>2. IsReservation(o)
      BY DEF IInv
    <3> QED BY <3>1, <3>2 DEF IsReservation
  <2> QED BY <2>0, <2>1, <2>2, <2>3, SMTT(30) DEF Stays, TablesStay
<1>2. ASSUME process_block_tasks
      PROVE  Stays
  <2>1. table' = table /\ pending_buy_ins' = pending_buy_ins
    BY <1>2 DEF process_block_tasks
  <2>2. todo' \subseteq Collected(phase')
    BY <1>2, WhatIsCollected
  <2>3. TablesStay
    BY <2>1, SameTables
  <2>4. phase' = "allocation" => \A b \in todo' : b \in pending_buy_ins
    BY <2>2 DEF Collected
  <2>5. phase' = "expired buy-ins" => todo' \subseteq Table \X Player
    BY <2>2 DEF Collected
  <2> QED BY <2>1, <2>3, <2>4, <2>5 DEF Stays, IInv
<1> QED BY <1>1, <1>2

\* The tasks that decide votings and games.
LEMMA DecisionStays ==
    ASSUME IInv, NEW t \in todo,
           update_scheduled_voting(t) \/ update_expired_table_voting(t)
               \/ update_expired_table_game(t)
    PROVE  Stays
<1>1. phase' = phase /\ todo' \subseteq todo
  BY DEF update_scheduled_voting, update_expired_table_voting, update_expired_table_game,
               Handles
<1>2. PICK w : /\ Becomes(t, w)
               /\ \/ w \in scheduled_voting(World(t), OwnerOf[t])
                  \/ w \in expired_voting(World(t))
                  \/ w = rollback(World(t), TRUE)
  BY DEF update_scheduled_voting, update_expired_table_voting, update_expired_table_game
<1>3. ASSUME t \in Table PROVE Good(table[t], w.tb)
  <2>1. DOMAIN World(t) = WorldFields /\ World(t).tb = table[t] /\ TInv(World(t).tb)
    BY <1>3, WorldOfTable
  <2>2. CASE w \in scheduled_voting(World(t), OwnerOf[t]) \/ w \in expired_voting(World(t))
    <3>1. Decided(World(t), w)
      BY <2>1, <2>2, VotingDecided
    <3> QED BY <2>1, <3>1 DEF Decided, Good
  <2>3. CASE w = rollback(World(t), TRUE)
    <3>1. TInv(w.tb) /\ is_free(w.tb)
      BY <2>1, <2>3, RollbackEnds DEF TInv
    <3> QED BY <3>1 DEF Good, Frozen
  <2> QED BY <1>2, <2>2, <2>3
<1>4. TablesStay /\ \A b \in pending_buy_ins' : IsReservation(b)
  BY <1>2, <1>3, WorldChanges
<1> QED BY <1>1, <1>4, ListShrinks DEF Stays

\* update_expired_buy_in
LEMMA ExpiredBuyInStays ==
    ASSUME IInv, NEW tp \in todo, update_expired_buy_in(tp[1], tp[2])
    PROVE  Stays
<1> DEFINE t == tp[1]
           p == tp[2]
           tb == table[t]
           gone == [adjust_cash(tb, Only(p, -tb.cash[p]))
                       EXCEPT !.buy_ins[p] = None,
                              !.buy_outs[p] = IF tb.cash[p] > 0 THEN 0 ELSE @]
           y == IF tb.cash[p] > 0 THEN 0 ELSE tb.buy_outs[p]
           taken == [adjust_cash(tb, Only(p, -tb.cash[p]))
                        EXCEPT !.buy_ins[p] = None, !.buy_outs[p] = y]
<1>1. phase' = phase /\ todo' \subseteq todo /\ pending_buy_ins' = pending_buy_ins
  BY DEF update_expired_buy_in, Handles
<1>2. t \in Table /\ p \in Player
  BY DEF update_expired_buy_in, Handles, IInv
<1>3. TInv(tb)
  BY <1>2 DEF IInv
<1>4. tb.cash[p] \in Nat
  BY <1>2, <1>3 DEF TInv, Shape, Money
<1>5. CASE is_playing(tb, p)
  <2>1. Good(tb, register_buy_in(tb, {p}))
    BY <1>3, BuyInExtended
  <2>2. table' = [table EXCEPT ![t] = register_buy_in(tb, {p})]
    BY <1>5 DEF update_expired_buy_in
  <2>3. TablesStay
    BY <2>1, <2>2, OneTable
  <2> QED BY <1>1, <2>3, ListShrinks DEF Stays, IInv
<1>6. CASE ~is_playing(tb, p)
  <2>1. table' = [table EXCEPT ![t] = gone]
    BY <1>6 DEF update_expired_buy_in
  <2>2. gone = taken
    <3> DEFINE tb1 == adjust_cash(tb, Only(p, -tb.cash[p]))
    <3>0. Only(p, -tb.cash[p]) \in [Player -> Int]
      BY <1>4, SMTT(30) DEF Only
    <3>1. Shape(tb1) /\ tb1.buy_outs = tb.buy_outs
      BY <1>3, <3>0, AdjustCash DEF TInv, SameElsewhere
    <3> HIDE DEF tb1
    <3>2. [tb1 EXCEPT !.buy_ins[p] = None,
                      !.buy_outs[p] = IF tb.cash[p] > 0 THEN 0 ELSE @]
             = [tb1 EXCEPT !.buy_ins[p] = None, !.buy_outs[p] = y]
      BY <3>1, <1>2 DEF Shape, TableFields, Money
    <3> QED BY <3>2 DEF tb1
  <2>3. Good(tb, taken)
    <3>1. y = 0 \/ y = tb.buy_outs[p]
      OBVIOUS
    <3> HIDE DEF y
    <3>2. None \in Int
      BY SMTT(30) DEF None
    <3> QED BY <1>2, <1>3, <1>4, <1>6, <3>1, <3>2, CashTaken
  <2> HIDE DEF gone, taken
  <2>4. TablesStay
    BY <2>1, <2>2, <2>3, OneTable
  <2> QED BY <1>1, <2>4, ListShrinks DEF Stays, IInv
<1> QED BY <1>5, <1>6

\* allocation_of_vacancies
LEMMA AllocationStays ==
    ASSUME IInv, NEW b \in todo, allocation_of_vacancies(b)
    PROVE  Stays
<1>1. phase' = phase /\ todo' \subseteq todo
  BY DEF allocation_of_vacancies, Handles
<1>2. IsReservation(b)
  BY DEF allocation_of_vacancies, Handles, IInv
<1>3. \/ UNCHANGED <<table, pending_buy_ins>>
      \/ \E t \in Table : allocate_table(b, t)
  BY DEF allocation_of_vacancies, FewestPlaces, Vacancies
<1>4. CASE UNCHANGED <<table, pending_buy_ins>>
  <2>1. TablesStay
    BY <1>4, SameTables
  <2> QED BY <1>1, <1>4, <2>1, ListShrinks DEF Stays, IInv
<1>5. ASSUME NEW t \in Table, allocate_table(b, t)
      PROVE  Stays
  <2> DEFINE new == [b EXCEPT !.table = t]
             tb == add_pending_proposal(table[t], b.player, b.uid)
  <2>1. TInv(table[t]) /\ b.player \in Player /\ b.uid \in Uid
    BY <1>2 DEF IInv, IsReservation
  <2>2. Good(table[t], tb)
    BY <2>1, ProposalsChange
  <2>3. IsReservation(new)
    BY <1>2 DEF IsReservation
  <2> HIDE DEF new, tb
  <2>4. table' = [table EXCEPT ![t] = tb] /\ pending_buy_ins' \subseteq pending_buy_ins \cup {new}
    BY <1>5 DEF allocate_table, tb, new
  <2>5. TablesStay
    BY <2>2, <2>4, OneTable
  <2> QED BY <1>1, <2>3, <2>4, <2>5, ListShrinks DEF Stays, IInv
<1> QED BY <1>3, <1>4, <1>5

\* Every step.
LEMMA NextStays ==
    ASSUME IInv, Next
    PROVE  Stays
<1>1. CASE BuyInOperation
  BY <1>1, BuyInStays
<1>2. CASE TableOperation
  BY <1>2, TableOperationStays
<1>3. CASE (\E gap \in Gaps : NewBlock(gap)) \/ process_block_tasks
  BY <1>3, BlockStays
<1>4. ASSUME NEW t \in todo, update_scheduled_voting(t) \/ update_expired_table_voting(t)
                                \/ update_expired_table_game(t)
      PROVE  Stays
  BY <1>4, DecisionStays, SMTT(30)
<1>5. ASSUME NEW b \in todo, update_expired_pending_buy_in(b)
      PROVE  Stays
  <2>1. TablesStay /\ \A o \in pending_buy_ins' : IsReservation(o)
    BY <1>5, Cancelled DEF update_expired_pending_buy_in
  <2>2. phase' = phase /\ todo' \subseteq todo
    BY <1>5 DEF update_expired_pending_buy_in, Handles
  <2> QED BY <2>1, <2>2, ListShrinks DEF Stays
<1>6. ASSUME NEW tp \in todo, update_expired_buy_in(tp[1], tp[2])
      PROVE  Stays
  BY <1>6, ExpiredBuyInStays
<1>7. ASSUME NEW t \in todo, update_expired_table_alive(t)
      PROVE  Stays
  <2> DEFINE tb == [table[t] EXCEPT !.alive = None]
  <2>1. t \in Table => Good(table[t], tb)
    BY AliveOrUpdated DEF IInv
  <2>2. table' = [table EXCEPT ![t] = tb]
    BY <1>7 DEF update_expired_table_alive
  <2> HIDE DEF tb
  <2>3. TablesStay
    BY <2>1, <2>2, OneTable
  <2>4. phase' = phase /\ todo' \subseteq todo /\ pending_buy_ins' = pending_buy_ins
    BY <1>7 DEF update_expired_table_alive, Handles
  <2> QED BY <2>3, <2>4, ListShrinks DEF Stays, IInv
<1>8. ASSUME NEW b \in todo, allocation_of_vacancies(b)
      PROVE  Stays
  BY <1>8, AllocationStays
<1> QED BY <1>1, <1>2, <1>3, <1>4, <1>5, <1>6, <1>7, <1>8, SMTT(30) DEF Next, BlockStep

\* A new table.
LEMMA InitTables == Init => IInv
<1> SUFFICES ASSUME Init PROVE IInv
  OBVIOUS
<1>1. DOMAIN table = Table /\ \A t \in Table : \E s \in Settings : table[t] = NewTable(s)
  BY DEF Init
<1>2. ASSUME NEW s PROVE TInv(NewTable(s))
  <2> DEFINE tb == NewTable(s)
  <2>1. /\ DOMAIN tb = TableFields
        /\ tb.cash = NoCash /\ tb.playing_cash = NoCash /\ tb.buy_outs = NoCash
        /\ tb.pending_proposals = [p \in Player |-> None]
        /\ tb.buy_ins = [p \in Player |-> None]
        /\ tb.occupied_places = 0
        /\ tb.voting = NoVoting /\ tb.pending_votes = NoVotes
    <3> HIDE DEF NoVoting, NoVotes, NoCash
    <3> QED BY DEF NewTable, TableFields
  <2> HIDE DEF tb
  <2>2. DOMAIN NoVoting = VotingFields
    BY DEF NoVoting, VotingFields
  <2>3. NoCash \in Money /\ [p \in Player |-> None] \in [Player -> Int]
    BY SMTT(30) DEF NoCash, Money, None
  <2>4. Shape(tb)
    BY <2>1, <2>2, <2>3, SMTT(30) DEF Shape
  <2>5. Players(NoCash) = {} /\ Reserved(tb) = {}
    BY <2>1, SMTT(30) DEF Players, NoCash, Reserved
  <2>6. Cardinality({}) = 0
    BY FS_EmptySet
  <2>7. Counted(tb)
    BY <2>1, <2>5, <2>6, SMTT(30) DEF Counted
  <2>8. Registered(tb) /\ BuyOutsOfPlayers(tb)
    BY <2>1, SMTT(30) DEF Registered, BuyOutsOfPlayers, NoCash
  <2>9. TInv(tb)
    BY <2>1, <2>4, <2>7, <2>8, NoVotesLeft
  <2> QED BY <2>9 DEF tb
<1> QED BY <1>1, <1>2 DEF Init, IInv

\* The invariant, for every step and every stuttering step.
LEMMA StepKeepsTables == IInv /\ [Next]_vars => IInv' /\ StakesKept
<1> SUFFICES ASSUME IInv, [Next]_vars PROVE IInv' /\ StakesKept
  OBVIOUS
<1>1. Stays
  <2>1. CASE Next
    BY <2>1, NextStays
  <2>2. CASE UNCHANGED vars
    <3>1. TablesStay
      BY <2>2, SameTables DEF vars
    <3> QED BY <2>2, <3>1, ListShrinks DEF vars, Stays, IInv
  <2> QED BY <2>1, <2>2
<1>2. IInv'
  BY <1>1 DEF Stays, TablesStay, Good, IInv
<1>3. StakesKept
  BY <1>1 DEF Stays, TablesStay, Good, Frozen, StakesKept
<1> QED BY <1>2, <1>3

\* The invariant of every table holds in every state.
LEMMA TablesInvariant == Spec => []IInv
BY InitTables, StepKeepsTables, PTL DEF Spec

\* occupied_places, which adjust_cash and the proposal functions keep up to date by
\* increments, never drifts from the number of players at the table.
THEOREM PlacesNeverDrift == Spec => []PlacesAreCounted
<1>1. IInv => PlacesAreCounted
  BY DEF IInv, TInv, Counted, PlacesAreCounted
<1> QED BY <1>1, TablesInvariant, PTL

\* Cash or a stake at a table always comes with the buy-in object whose expiration returns
\* it, whatever settlements, rollbacks and buy-outs have done before.
THEOREM CashIsRegistered == Spec => []NoStrandedCash
<1>1. IInv => NoStrandedCash
  BY DEF IInv, TInv, Registered, NoStrandedCash
<1> QED BY <1>1, TablesInvariant, PTL

\* No pending buy-out is left when a game has ended.
THEOREM NoBuyOutWithoutGame == Spec => []BuyOutsEndWithTheGame
<1>1. IInv => BuyOutsEndWithTheGame
  BY DEF IInv, TInv, BuyOutsOfPlayers, BuyOutsEndWithTheGame
<1> QED BY <1>1, TablesInvariant, PTL

\* Votes about a start are held at free tables only and votes about a result in games only,
\* and an open voting leaves no vote pending.
THEOREM VotesFit == Spec => []VotesFitTheTable
<1>1. IInv => VotesFitTheTable
  <2> SUFFICES ASSUME IInv, NEW t \in Table
               PROVE  LET tb == table[t]
                          about == IF is_free(tb) THEN "playing" ELSE "results"
                      IN  /\ \A v \in DOMAIN tb.voting.votes : tb.voting.votes[v].about = about
                          /\ \A v \in DOMAIN tb.pending_votes : tb.pending_votes[v].about = about
                          /\ is_table_voting(tb) => DOMAIN tb.pending_votes = {}
    BY DEF VotesFitTheTable
  <2>1. VotesAreApplicable(table[t])
    BY DEF IInv, TInv
  <2> QED BY <2>1, TablesAssumption DEF VotesAreApplicable, Applicable
<1> QED BY <1>1, TablesInvariant, PTL

\* A vote about a result, checked against the stakes when it was cast, is still valid at
\* any later time it is held, although it is not checked again.
THEOREM HeldResultsAreValid == Spec => []ResultVotesStayValid
<1>1. IInv => ResultVotesStayValid
  <2>1. ASSUME IInv, NEW t \in Table, NEW c, Applicable(table[t], c), c.about = "results"
        PROVE  validate_result(table[t], c)
    BY <2>1, TablesAssumption DEF Applicable
  <2>2. ASSUME IInv, NEW t \in Table
        PROVE  VotesAreApplicable(table[t])
    BY <2>2 DEF IInv, TInv
  <2> QED BY <2>1, <2>2 DEF ResultVotesStayValid, VotesAreApplicable
<1> QED BY <1>1, TablesInvariant, PTL

\* The stakes of a game change only when the game ends for everyone.
THEOREM StakesNeverChange == Spec => StakesAreFrozen
<1>1. IInv /\ [Next]_vars => [StakesKept]_vars
  BY StepKeepsTables
<1> QED BY <1>1, TablesInvariant, PTL DEF Spec, StakesAreFrozen

-----------------------------------------------------------------------------
(* Reservations.                                                             *)

\* A reservation in S of the player, with the name u, is at table t.
At(S, t, p, u) == \E b \in S : b.player = p /\ b.uid = u /\ b.table = t

\* The proposals of the tables are the reservations in S that name a table.
Holds(proposals, S) ==
    \A t \in Table, p \in Player, u \in Uid :
        proposals[t][p] = u <=> At(S, t, p, u)

\* A player's reservations have different names.
Distinct(S) == \A b, c \in S : b.player = c.player /\ b.uid = c.uid => b = c

Named(S) == \A b \in S : b.player \in Player /\ b.uid \in Uid

Owned(S, p) == \A b \in S : b.player = p

\* The proposals after the reservations R of player p have left their places.
Freed(props, p, R, news) ==
    \A t \in Table, q \in Player :
        news[t][q] = IF q = p /\ (\E b \in R : b.table = t) THEN None ELSE props[t][q]

\* ... and after reservation new has taken its place.
Given(props, new, news) ==
    \A t \in Table, q \in Player :
        news[t][q] = IF t = new.table /\ q = new.player THEN new.uid ELSE props[t][q]

NamesOf(R, p) == {<<p, b.uid>> : b \in R}

Placed(S) == {<<b.player, b.uid>> : b \in {c \in S : c.table # NoTable}}

Waiting(S) == {b \in S : b.table = NoTable}

Proposals == [t \in Table |-> table[t].pending_proposals]

\* What a task has collected is still there when it is handled.
ListIsCurrent ==
    /\ phase = "expired reservations" => todo \subseteq pending_buy_ins
    /\ phase = "allocation" => todo \subseteq Waiting(pending_buy_ins)
    /\ phase \in {"scheduled votings", "expired votings", "expired games", "expired tables"}
          => todo \subseteq Table

RInv ==
    /\ Holds(Proposals, pending_buy_ins)
    /\ Distinct(pending_buy_ins)
    /\ measured = Placed(pending_buy_ins)
    /\ ListIsCurrent

\* The proposal of one player at one table.
LEMMA HoldsAt ==
    ASSUME NEW props, NEW S, Holds(props, S), NEW t \in Table, NEW p \in Player, NEW u \in Uid
    PROVE  props[t][p] = u <=> At(S, t, p, u)
BY DEF Holds

\* The proposal of a reservation that is at a table, and no other one.
LEMMA PlaceOf ==
    ASSUME NEW props, NEW S, Holds(props, S), Named(S), NEW c \in S, c.table \in Table
    PROVE  props[c.table][c.player] = c.uid
<1> DEFINE t == c.table
           p == c.player
           u == c.uid
<1>1. p \in Player /\ u \in Uid /\ At(S, t, p, u)
  BY DEF Named, At
<1>2. t \in Table
  OBVIOUS
<1> HIDE DEF t, p, u
<1>3. props[t][p] = u
  BY <1>1, <1>2, HoldsAt
<1> QED BY <1>3 DEF t, p, u

\* Two reservations with one name.
LEMMA DistinctAt ==
    ASSUME NEW S, Distinct(S), NEW b \in S, NEW c \in S, b.player = c.player, b.uid = c.uid
    PROVE  b = c
BY DEF Distinct

\* A reservation that is not at a table.
LEMMA NoTableIsNone == NoTable \notin Table
BY MoneyAssumption

\* No reservation has the name of a free place.
LEMMA NoneIsNoUid == None \notin Uid
BY TablesAssumption

\* Reservations R of player p end, and their places are free.
Leaving(props, S, p, R, news) ==
    /\ Holds(props, S) /\ Distinct(S) /\ Named(S)
    /\ R \subseteq S /\ Owned(R, p) /\ Freed(props, p, R, news)

Left(S, p, R, news) ==
    /\ Holds(news, S \ R) /\ Distinct(S \ R)
    /\ Placed(S \ R) = Placed(S) \ NamesOf(R, p)

\* The other reservations hold their places.
LEMMA ReservationsLeave ==
    ASSUME NEW props, NEW S, NEW p, NEW R, NEW news, Leaving(props, S, p, R, news)
    PROVE  Left(S, p, R, news)
<1>0. /\ Holds(props, S) /\ Distinct(S) /\ Named(S)
      /\ R \subseteq S /\ Owned(R, p) /\ Freed(props, p, R, news)
  BY DEF Leaving
<1>1. Distinct(S \ R)
  BY <1>0 DEF Distinct
<1>2. ASSUME NEW t \in Table, NEW q \in Player, NEW u \in Uid
      PROVE  news[t][q] = u <=> At(S \ R, t, q, u)
  <2>1. props[t][q] = u <=> At(S, t, q, u)
    BY <1>0, HoldsAt
  <2>2. CASE q = p /\ \E b \in R : b.table = t
    <3>1. news[t][q] # u
      BY <1>0, <2>2, NoneIsNoUid DEF Freed
    <3>2. PICK c \in R : c.table = t
      BY <2>2
    <3>3. c \in S /\ c.player = q /\ c.uid \in Uid
      BY <1>0, <2>2, <3>2 DEF Named, Owned
    <3>5. props[t][q] = c.uid
      <4>1. props[c.table][c.player] = c.uid
        BY <1>0, <3>2, <3>3, PlaceOf
      <4> QED BY <3>2, <3>3, <4>1
    <3>4. ASSUME NEW b \in S \ R, b.player = q, b.uid = u, b.table = t
          PROVE  FALSE
      <4>1. props[t][q] = u
        BY <2>1, <3>4 DEF At
      <4>2. b.uid = c.uid /\ b.player = c.player /\ b \in S
        BY <3>3, <3>4, <3>5, <4>1
      <4>3. b = c
        BY <1>0, <3>3, <4>2, DistinctAt
      <4> QED BY <3>2, <4>3
    <3> QED BY <3>1, <3>4 DEF At
  <2>3. CASE ~(q = p /\ \E b \in R : b.table = t)
    <3>1. news[t][q] = props[t][q]
      BY <1>0, <2>3 DEF Freed
    <3>2. ASSUME NEW b \in S, b.player = q, b.uid = u, b.table = t
          PROVE  b \notin R
      BY <1>0, <2>3, <3>2 DEF Owned
    <3> QED BY <2>1, <3>1, <3>2 DEF At
  <2> QED BY <2>2, <2>3, SMTT(30)
<1>3. Holds(news, S \ R)
  BY <1>2 DEF Holds
<1>4. Placed(S \ R) = Placed(S) \ {<<p, b.uid>> : b \in R}
  <2>1. ASSUME NEW x \in Placed(S \ R)
        PROVE  x \in Placed(S) /\ x \notin {<<p, b.uid>> : b \in R}
    <3>1. PICK c \in S \ R : c.table # NoTable /\ x = <<c.player, c.uid>>
      BY DEF Placed
    <3>2. x \in Placed(S)
      BY <3>1 DEF Placed
    <3>3. ASSUME NEW b \in R, x = <<p, b.uid>> PROVE FALSE
      <4>1. c.player = b.player /\ c.uid = b.uid
        BY <1>0, <3>1, <3>3, SMTT(30) DEF Owned
      <4> QED BY <1>0, <3>1, <4>1, DistinctAt
    <3> QED BY <3>2, <3>3
  <2>2. ASSUME NEW x \in Placed(S), x \notin {<<p, b.uid>> : b \in R}
        PROVE  x \in Placed(S \ R)
    <3>1. PICK c \in S : c.table # NoTable /\ x = <<c.player, c.uid>>
      BY DEF Placed
    <3>2. c \notin R
      BY <1>0, <2>2, <3>1 DEF Owned
    <3> QED BY <3>1, <3>2 DEF Placed
  <2> QED BY <2>1, <2>2
<1> QED BY <1>1, <1>3, <1>4 DEF Left, NamesOf

\* No reservation has the same name as the new one.
Fresh(S, new) == \A c \in S : ~(c.player = new.player /\ c.uid = new.uid)

\* Reservation new takes a free place.
Arriving(props, S, new, news) ==
    /\ Holds(props, S) /\ Distinct(S) /\ Fresh(S, new)
    /\ new.table \in Table /\ new.player \in Player /\ new.uid \in Uid
    /\ props[new.table][new.player] \notin Uid
    /\ Given(props, new, news)

Arrived(S, new, news) ==
    /\ Holds(news, S \cup {new}) /\ Distinct(S \cup {new})
    /\ Placed(S \cup {new}) = Placed(S) \cup {<<new.player, new.uid>>}

\* ... and all reservations hold their places.
LEMMA ReservationArrives ==
    ASSUME NEW props, NEW S, NEW new, NEW news, Arriving(props, S, new, news)
    PROVE  Arrived(S, new, news)
<1>0. /\ Holds(props, S) /\ Distinct(S) /\ Fresh(S, new)
      /\ new.table \in Table /\ new.player \in Player /\ new.uid \in Uid
      /\ props[new.table][new.player] \notin Uid
      /\ Given(props, new, news)
  BY DEF Arriving
<1>1. Distinct(S \cup {new})
  BY <1>0 DEF Distinct, Fresh
<1>2. ASSUME NEW t \in Table, NEW q \in Player, NEW u \in Uid
      PROVE  news[t][q] = u <=> At(S \cup {new}, t, q, u)
  <2>1. props[t][q] = u <=> At(S, t, q, u)
    BY <1>0, HoldsAt
  <2>2. CASE t = new.table /\ q = new.player
    <3>1. news[t][q] = new.uid
      BY <1>0, <2>2 DEF Given
    <3>2. ~At(S, t, q, u)
      BY <1>0, <2>1, <2>2
    <3> QED BY <2>2, <3>1, <3>2 DEF At
  <2>3. CASE ~(t = new.table /\ q = new.player)
    <3>1. news[t][q] = props[t][q]
      BY <1>0, <2>3 DEF Given
    <3> QED BY <2>1, <2>3, <3>1 DEF At
  <2> QED BY <2>2, <2>3
<1>3. Holds(news, S \cup {new})
  BY <1>2 DEF Holds
<1>4. Placed(S \cup {new}) = Placed(S) \cup {<<new.player, new.uid>>}
  BY <1>0, NoTableIsNone, SMTT(30) DEF Placed
<1> QED BY <1>1, <1>3, <1>4 DEF Arrived

\* Amounts of reservations are numbers.
LEMMA ReservationsArePriced ==
    ASSUME IInv
    PROVE  Priced(pending_buy_ins) /\ Named(pending_buy_ins)
<1>1. Amount \subseteq Nat
  BY TablesAssumption
<1> QED BY <1>1 DEF IInv, IsReservation, Priced, Named

\* No reservation moves, and no place.
LEMMA PlacesUntouched ==
    ASSUME RInv, pending_buy_ins' = pending_buy_ins, measured' = measured,
           phase' = phase, todo' \subseteq todo,
           \A t \in Table : table'[t].pending_proposals = table[t].pending_proposals
    PROVE  RInv'
<1>1. Proposals' = Proposals
  BY DEF Proposals
<1>2. ListIsCurrent'
  BY DEF RInv, ListIsCurrent
<1> QED BY <1>1, <1>2 DEF RInv

\* A reservation that waits for a table.
LEMMA ReservationWaits ==
    ASSUME NEW props, NEW S, Holds(props, S), Distinct(S),
           NEW new, new.table = NoTable, Fresh(S, new)
    PROVE  /\ Holds(props, S \cup {new}) /\ Distinct(S \cup {new})
           /\ Placed(S \cup {new}) = Placed(S)
<1>1. Distinct(S \cup {new})
  BY DEF Distinct, Fresh
<1>2. ASSUME NEW t \in Table, NEW q \in Player, NEW u \in Uid
      PROVE  props[t][q] = u <=> At(S \cup {new}, t, q, u)
  <2>1. props[t][q] = u <=> At(S, t, q, u)
    BY HoldsAt
  <2>2. new.table # t
    BY NoTableIsNone
  <2> QED BY <2>1, <2>2 DEF At
<1>3. Placed(S \cup {new}) = Placed(S)
  BY DEF Placed
<1> QED BY <1>1, <1>2, <1>3 DEF Holds

\* remove_pending_proposal and add_pending_proposal
LEMMA ProposalsAfter ==
    ASSUME NEW tb, Shape(tb), NEW p \in Player, NEW uid \in Uid
    PROVE  /\ \A q \in Player : remove_pending_proposal(tb, p).pending_proposals[q]
                  = IF q = p THEN None ELSE tb.pending_proposals[q]
           /\ remove_pending_proposal(tb, p).cash = tb.cash
           /\ remove_pending_proposal(tb, p).playing_cash = tb.playing_cash
           /\ \A q \in Player : add_pending_proposal(tb, p, uid).pending_proposals[q]
                  = IF q = p THEN uid ELSE tb.pending_proposals[q]
           /\ add_pending_proposal(tb, p, uid).cash = tb.cash
           /\ add_pending_proposal(tb, p, uid).playing_cash = tb.playing_cash
<1>1. DOMAIN tb = TableFields /\ DOMAIN tb.pending_proposals = Player
  BY DEF Shape
<1>2. CASE p \notin Reserved(tb)
  <2>1. tb.pending_proposals[p] = None
    BY <1>2 DEF Reserved
  <2> QED
    BY <1>1, <1>2, <2>1, SMTT(30) DEF remove_pending_proposal, add_pending_proposal, TableFields
<1>3. CASE p \in Reserved(tb)
  BY <1>1, <1>3, SMTT(30) DEF remove_pending_proposal, add_pending_proposal, TableFields
<1> QED BY <1>2, <1>3, SMTT(30)

Reserving(tb, p, uid, new) ==
    /\ \A q \in Player : new.pending_proposals[q]
           = IF q = p THEN uid ELSE tb.pending_proposals[q]
    /\ new.cash = tb.cash /\ new.playing_cash = tb.playing_cash

\* add_pending_proposal, in short
LEMMA ProposalAdded ==
    ASSUME NEW tb, Shape(tb), NEW p \in Player, NEW uid \in Uid
    PROVE  Reserving(tb, p, uid, add_pending_proposal(tb, p, uid))
<1> DEFINE new == add_pending_proposal(tb, p, uid)
<1>1. new.cash = tb.cash /\ new.playing_cash = tb.playing_cash
  BY ProposalsAfter, SMTT(30)
<1>2. ASSUME NEW q \in Player
      PROVE  new.pending_proposals[q] = IF q = p THEN uid ELSE tb.pending_proposals[q]
  BY ProposalsAfter, SMTT(30)
<1> HIDE DEF new
<1>3. Reserving(tb, p, uid, new)
  BY <1>1, <1>2 DEF Reserving
<1> QED BY <1>3 DEF new

Replaced(b, t) ==
    {o \in pending_buy_ins : o.player = b.player /\ o.uid # b.uid
        /\ table[t].pending_proposals[b.player] = o.uid}

\* The reservation that the player already had at the table is at that table, and only it.
LEMMA ReplacedIsThere ==
    ASSUME RInv, IInv, NEW b, b.player \in Player, NEW t \in Table, NEW o \in Replaced(b, t)
    PROVE  o \in pending_buy_ins /\ o.player = b.player /\ o.uid # b.uid /\ o.table = t
<1>1. /\ o \in pending_buy_ins /\ o.player = b.player /\ o.uid # b.uid
      /\ Proposals[t][b.player] = o.uid
  BY DEF Replaced, Proposals
<1>2. o.uid \in Uid
  BY <1>1 DEF IInv, IsReservation
<1>3. Holds(Proposals, pending_buy_ins) /\ Distinct(pending_buy_ins)
  BY DEF RInv
<1>4. At(pending_buy_ins, t, b.player, o.uid)
  BY <1>1, <1>2, <1>3, HoldsAt
<1>5. PICK c \in pending_buy_ins : c.player = b.player /\ c.uid = o.uid /\ c.table = t
  BY <1>4 DEF At
<1>6. c = o
  BY <1>1, <1>3, <1>5, DistinctAt
<1> QED BY <1>1, <1>5, <1>6

\* The other reservations.
Others(b, t) == pending_buy_ins \ (Replaced(b, t) \cup {b})

Moving(b, t, new, news) ==
    /\ new.table = t /\ new.player = b.player /\ new.uid = b.uid
    /\ Given(Proposals, new, news)

Moved(b, t, A, new, news) ==
    /\ Holds(news, A \cup {new}) /\ Distinct(A \cup {new}) /\ Fresh(A, new)
    /\ Placed(A \cup {new}) = (measured \ NamesOf(Replaced(b, t), b.player))
                                  \cup {<<b.player, b.uid>>}

\* The places: allocate_table frees that of the replaced reservation and takes it again.
LEMMA AllocationPlaces ==
    ASSUME IInv, RInv, NEW b \in pending_buy_ins, b.table = NoTable, NEW t \in Table,
           NEW new, NEW news, Moving(b, t, new, news)
    PROVE  Moved(b, t, Others(b, t), new, news)
<1> SUFFICES ASSUME NEW R, R = Replaced(b, t) \cup {b}, NEW A, A = pending_buy_ins \ R
             PROVE  Moved(b, t, A, new, news)
  BY DEF Others
<1>0. /\ new.table = t /\ new.player = b.player /\ new.uid = b.uid
      /\ Given(Proposals, new, news)
  BY DEF Moving
<1> DEFINE S == pending_buy_ins
           p == b.player
           props == Proposals
           mid == [u \in Table |-> [q \in Player |->
                      IF q = p /\ (\E c \in R : c.table = u) THEN None ELSE props[u][q]]]
<1>1. /\ p \in Player /\ b.uid \in Uid
      /\ Holds(props, S) /\ Distinct(S) /\ Named(S) /\ measured = Placed(S)
  BY ReservationsArePriced DEF IInv, IsReservation, RInv
<1>2. \A o \in Replaced(b, t) : /\ o \in S /\ o.player = p /\ o.uid # b.uid /\ o.table = t
  BY <1>1, ReplacedIsThere
<1>3. R \subseteq S /\ Owned(R, p)
  BY <1>2 DEF Owned
<1>4. \A u \in Table : u # t => ~\E c \in R : c.table = u
  BY <1>2, NoTableIsNone
<1>5. mid[t][p] \notin Uid
  <2>1. CASE \E c \in R : c.table = t
    BY <1>1, <2>1, NoneIsNoUid
  <2>2. CASE ~\E c \in R : c.table = t
    <3>1. mid[t][p] = props[t][p]
      BY <1>1, <2>2
    <3>2. ASSUME props[t][p] \in Uid PROVE FALSE
      <4> DEFINE u == props[t][p]
      <4>1. u \in Uid /\ props[t][p] = u
        BY <3>2
      <4> HIDE DEF u, props, S, p
      <4>2. At(S, t, p, u)
        BY <1>1, <4>1, HoldsAt, SMTT(30)
      <4>3. PICK o \in S : o.player = p /\ o.uid = u /\ o.table = t
        BY <4>2 DEF At
      <4>4. o # b
        BY <4>3, NoTableIsNone
      <4>5. o.uid # b.uid
        BY <1>1, <4>3, <4>4, DistinctAt DEF p, S
      <4>6. o \in Replaced(b, t)
        BY <4>1, <4>3, <4>5 DEF Replaced, props, Proposals, p, S
      <4> QED BY <2>2, <4>3, <4>6
    <3> QED BY <3>1, <3>2
  <2> QED BY <2>1, <2>2
<1>6. Freed(props, p, R, mid)
  <2> HIDE DEF props, p
  <2> QED BY DEF Freed
<1>7. Given(mid, new, news)
  <2> SUFFICES ASSUME NEW u \in Table, NEW q \in Player
               PROVE  news[u][q] = IF u = new.table /\ q = new.player THEN new.uid ELSE mid[u][q]
    BY DEF Given
  <2>1. news[u][q] = IF u = new.table /\ q = new.player THEN new.uid ELSE props[u][q]
    BY <1>0 DEF Given
  <2>2. CASE u = t /\ q = p
    BY <1>0, <2>1, <2>2
  <2>3. CASE ~(u = t /\ q = p)
    <3>1. mid[u][q] = props[u][q]
      BY <1>4, <2>3
    <3> QED BY <1>0, <2>1, <2>3, <3>1
  <2> QED BY <2>2, <2>3, SMTT(30)
<1> HIDE DEF mid
<1>8. Left(S, p, R, mid)
  <2>1. Leaving(props, S, p, R, mid)
    BY <1>1, <1>3, <1>6 DEF Leaving
  <2> HIDE DEF S, p, props
  <2> QED BY <2>1, ReservationsLeave
<1>9. Holds(mid, A) /\ Distinct(A) /\ Placed(A) = Placed(S) \ NamesOf(R, p)
  BY <1>8 DEF Left
<1>10. Fresh(A, new)
  <2> SUFFICES ASSUME NEW c \in A, c.player = new.player, c.uid = new.uid PROVE FALSE
    BY DEF Fresh
  <2>1. c \in S /\ c # b
    OBVIOUS
  <2> QED BY <1>0, <1>1, <2>1, DistinctAt
<1>11. Arrived(A, new, news)
  <2>1. Arriving(mid, A, new, news)
    BY <1>0, <1>1, <1>5, <1>7, <1>9, <1>10 DEF Arriving
  <2> QED BY <2>1, ReservationArrives
<1>12. NamesOf(R, p) = NamesOf(Replaced(b, t), p) \cup {<<p, b.uid>>}
  BY DEF NamesOf
<1>13. Placed(A \cup {new}) = (measured \ NamesOf(Replaced(b, t), p)) \cup {<<p, b.uid>>}
  <2>1. Placed(A \cup {new}) = Placed(A) \cup {<<p, b.uid>>}
    BY <1>0, <1>11, NoTableIsNone DEF Arrived
  <2> QED BY <1>1, <1>9, <1>12, <2>1
<1> QED BY <1>10, <1>11, <1>13 DEF Arrived, Moved

\* The places.
LEMMA PlacesAreHeld == IInv /\ RInv => ReservationsHoldPlaces
<1> SUFFICES ASSUME IInv, RInv PROVE ReservationsHoldPlaces
  OBVIOUS
<1>1. /\ Holds(Proposals, pending_buy_ins) /\ Distinct(pending_buy_ins)
      /\ measured = Placed(pending_buy_ins)
  BY DEF RInv
<1>2. ASSUME NEW t \in Table, NEW p \in Player, NEW u \in Uid
      PROVE  table[t].pending_proposals[p] = u <=> \E b \in Reservation(p, u) : b.table = t
  <2>1. Proposals[t][p] = table[t].pending_proposals[p]
    BY DEF Proposals
  <2>2. Proposals[t][p] = u <=> At(pending_buy_ins, t, p, u)
    BY <1>1, HoldsAt
  <2>3. At(pending_buy_ins, t, p, u) <=> \E b \in Reservation(p, u) : b.table = t
    BY DEF At, Reservation
  <2> QED BY <2>1, <2>2, <2>3
<1>3. ASSUME NEW p \in Player, NEW u \in Uid
      PROVE  Cardinality(Reservation(p, u)) <= 1
  <2>1. CASE Reservation(p, u) = {}
    BY <2>1, FS_EmptySet, SMTT(30)
  <2>2. CASE Reservation(p, u) # {}
    <3>1. PICK b : b \in Reservation(p, u)
      BY <2>2
    <3>2. ASSUME NEW c \in Reservation(p, u) PROVE c = b
      BY <1>1, <3>1, DistinctAt DEF Reservation
    <3>3. Reservation(p, u) = {b}
      BY <3>1, <3>2
    <3>4. Cardinality({b}) = 1
      BY FS_Singleton
    <3> QED BY <3>3, <3>4, SMTT(30)
  <2> QED BY <2>1, <2>2, SMTT(30)
<1>4. measured = {<<b.player, b.uid>> : b \in {c \in pending_buy_ins : c.table # NoTable}}
  BY <1>1 DEF Placed
<1> QED BY <1>2, <1>3, <1>4 DEF ReservationsHoldPlaces

-----------------------------------------------------------------------------
(* The coins of all tables.                                                  *)

Cash(tb) == Total(tb.cash, Player) + Total(tb.playing_cash, Player)

Purses(tables) == [t \in Table |-> Cash(tables[t])]

Issued == Wealth * Cardinality(Player)

MInv ==
    /\ balance \in Money /\ pending_fees \in Money /\ pending_rake \in [Table -> Nat]
    /\ IsFiniteSet(pending_buy_ins)
    /\ Total(balance, Player) + Held(pending_buy_ins) + SumOf(Purses(table), Table)
          + SumOf(pending_rake, Table) = Issued
    /\ SumOf(pending_rake, Table) = Total(pending_fees, Player)

\* There are finitely many tables.
LEMMA FiniteTable == IsFiniteSet(Table)
BY MoneyAssumption

\* The coins at a table are a number of coins.
LEMMA CashIsNumber ==
    ASSUME NEW tb, Shape(tb)
    PROVE  Cash(tb) \in Nat
<1>1. Total(tb.cash, Player) \in Nat /\ Total(tb.playing_cash, Player) \in Nat
  BY TotalOfMoney DEF Shape
<1> QED BY <1>1, SMTT(30) DEF Cash

\* ... and so are those at all tables.
LEMMA PursesAreNumbers ==
    ASSUME IInv
    PROVE  /\ \A t \in Table : Shape(table[t]) /\ Cash(table[t]) \in Nat
           /\ IntegerOn(Purses(table), Table) /\ SumOf(Purses(table), Table) \in Nat
<1>1. \A t \in Table : Shape(table[t])
  BY DEF IInv, TInv
<1>2. \A t \in Table : Cash(table[t]) \in Nat
  BY <1>1, CashIsNumber
<1>3. \A t \in Table : Purses(table)[t] \in Nat
  BY <1>2 DEF Purses
<1>4. SumOf(Purses(table), Table) \in Nat
  BY <1>3, FiniteTable, SumNatural
<1>5. IntegerOn(Purses(table), Table)
  BY <1>3, SMTT(30) DEF IntegerOn
<1> QED BY <1>1, <1>2, <1>4, <1>5

\* The sums of the invariant are numbers.
LEMMA SumsAreNumbers ==
    ASSUME IInv, MInv
    PROVE  /\ Total(balance, Player) \in Nat /\ Held(pending_buy_ins) \in Nat
           /\ SumOf(Purses(table), Table) \in Nat /\ SumOf(pending_rake, Table) \in Nat
           /\ IntegerOn(pending_rake, Table)
<1>1. Total(balance, Player) \in Nat /\ SumOf(Purses(table), Table) \in Nat
  BY TotalOfMoney, PursesAreNumbers DEF MInv
<1>2. \A t \in Table : pending_rake[t] \in Nat
  BY DEF MInv
<1>3. IntegerOn(pending_rake, Table)
  BY <1>2, SMTT(30) DEF IntegerOn
<1>4. SumOf(pending_rake, Table) \in Nat
  BY <1>2, FiniteTable, SumNatural
<1>5. Held(pending_buy_ins) \in Nat
  <2>1. pending_buy_ins \subseteq pending_buy_ins
    BY SMTT(30)
  <2> QED BY <2>1, ReservationsArePriced, HeldAs DEF MInv
<1> QED BY <1>1, <1>3, <1>4, <1>5

\* The money of one table changes.
LEMMA PurseChanges ==
    ASSUME IInv, IInv', NEW t \in Table, NEW tb, table' = [table EXCEPT ![t] = tb]
    PROVE  SumOf(Purses(table'), Table) = SumOf(Purses(table), Table) + (Cash(tb) - Cash(table[t]))
<1> DEFINE f == Purses(table)
           g == Purses(table')
           d == Cash(tb) - Cash(table[t])
<1>1. table'[t] = tb /\ \A u \in Table : u # t => table'[u] = table[u]
  BY DEF IInv
<1>2. Shape(tb) /\ Cash(table[t]) \in Nat
  BY <1>1, PursesAreNumbers DEF IInv, TInv
<1>3. Cash(tb) \in Nat
  BY <1>2, CashIsNumber
<1>4. g[t] = f[t] + d /\ d \in Int
  BY <1>1, <1>2, <1>3, SMTT(30) DEF Purses
<1>5. \A u \in Table : u # t => g[u] = f[u]
  BY <1>1, SMTT(30) DEF Purses
<1>6. IntegerOn(f, Table)
  BY PursesAreNumbers
<1> HIDE DEF f, g, d
<1>7. SumOf(g, Table) = SumOf(f, Table) + d
  BY <1>4, <1>5, <1>6, FiniteTable, SumChange, SMTT(30)
<1> QED BY <1>7 DEF f, g, d

\* No coin comes to a table or leaves it.
LEMMA PursesStay ==
    ASSUME \A t \in Table : /\ table'[t].cash = table[t].cash
                            /\ table'[t].playing_cash = table[t].playing_cash
    PROVE  SumOf(Purses(table'), Table) = SumOf(Purses(table), Table)
<1>1. \A t \in Table : Purses(table')[t] = Purses(table)[t]
  BY DEF Purses, Cash
<1> QED BY <1>1, FiniteTable, SumCongruent

\* Coins move between balances, reservations and tables.
LEMMA MoneyMoves ==
    ASSUME IInv, IInv', MInv, pending_rake' = pending_rake, pending_fees' = pending_fees,
           balance' \in Money, IsFiniteSet(pending_buy_ins'), NEW b \in Int, NEW h \in Int,
           Total(balance', Player) = Total(balance, Player) + b,
           Held(pending_buy_ins') = Held(pending_buy_ins) + h,
           SumOf(Purses(table'), Table) = SumOf(Purses(table), Table) - (b + h)
    PROVE  MInv'
<1>1. /\ Total(balance, Player) \in Nat /\ Held(pending_buy_ins) \in Nat
      /\ SumOf(Purses(table), Table) \in Nat /\ SumOf(pending_rake, Table) \in Nat
  BY SumsAreNumbers
<1> DEFINE x == Total(balance, Player)
           y == Held(pending_buy_ins)
           z == SumOf(Purses(table), Table)
           k == SumOf(pending_rake, Table)
<1>2. /\ x \in Nat /\ y \in Nat /\ z \in Nat /\ k \in Nat
      /\ Total(balance', Player) = x + b /\ Held(pending_buy_ins') = y + h
      /\ SumOf(Purses(table'), Table) = z - (b + h) /\ SumOf(pending_rake', Table) = k
  BY <1>1
<1> HIDE DEF x, y, z, k
<1>3. (x + b) + (y + h) + (z - (b + h)) + k = x + y + z + k
  BY <1>2, SMTT(30)
<1>4. x + y + z + k = Issued
  BY DEF MInv, x, y, z, k
<1>5. Total(balance', Player) + Held(pending_buy_ins') + SumOf(Purses(table'), Table)
          + SumOf(pending_rake', Table) = Issued
  BY <1>2, <1>3, <1>4
<1> QED BY <1>5 DEF MInv

\* One table changes, with the money that it reaches.
LEMMA WorldPays ==
    ASSUME IInv, IInv', RInv, MInv, NEW t \in Table, NEW w, Becomes(t, w), Kept(World(t), w),
           phase' = phase, todo' \subseteq todo
    PROVE  RInv' /\ MInv'
<1>1. /\ table' = [table EXCEPT ![t] = w.tb] /\ balance' = w.balance
      /\ pending_rake' = [pending_rake EXCEPT ![t] = w.rake] /\ pending_fees' = w.fees
      /\ pending_buy_ins' = pending_buy_ins /\ measured' = measured
  BY DEF Becomes
<1>2. /\ World(t).tb = table[t] /\ World(t).balance = balance
      /\ World(t).rake = pending_rake[t] /\ World(t).fees = pending_fees
  BY DEF World
<1>3. /\ w.balance \in Money /\ w.fees \in Money /\ w.rake \in Nat
      /\ w.tb.pending_proposals = table[t].pending_proposals
      /\ Wealthy(w) = Wealthy(World(t))
      /\ Total(w.fees, Player) - w.rake = Total(pending_fees, Player) - pending_rake[t]
  BY <1>2 DEF Kept, Solvent
<1>4. table'[t] = w.tb /\ \A u \in Table : u # t => table'[u] = table[u]
  BY <1>1 DEF IInv
<1>5. RInv'
  <2>1. \A u \in Table : table'[u].pending_proposals = table[u].pending_proposals
    BY <1>3, <1>4
  <2> QED BY <1>1, <2>1, PlacesUntouched
<1>6. /\ Shape(table[t]) /\ Cash(table[t]) \in Nat
      /\ Shape(w.tb) /\ Cash(w.tb) \in Nat
  <2>1. Shape(table[t]) /\ Cash(table[t]) \in Nat
    BY PursesAreNumbers
  <2>2. Shape(w.tb)
    BY <1>4 DEF IInv, TInv
  <2> QED BY <2>1, <2>2, CashIsNumber
<1>7. Total(w.balance, Player) + Cash(w.tb) + w.rake
          = Total(balance, Player) + Cash(table[t]) + pending_rake[t]
  <2>1. /\ Total(w.tb.cash, Player) \in Nat /\ Total(w.tb.playing_cash, Player) \in Nat
        /\ Total(table[t].cash, Player) \in Nat /\ Total(table[t].playing_cash, Player) \in Nat
        /\ Total(w.balance, Player) \in Nat /\ Total(balance, Player) \in Nat
    BY <1>3, <1>6, TotalOfMoney DEF Shape, MInv
  <2>2. pending_rake[t] \in Nat
    BY DEF MInv
  <2> QED BY <1>2, <1>3, <2>1, <2>2, SMTT(30) DEF Wealthy, Holding, Cash
<1>8. SumOf(Purses(table'), Table) = SumOf(Purses(table), Table) + (Cash(w.tb) - Cash(table[t]))
  BY <1>1, PurseChanges
<1>9. SumOf(pending_rake', Table) = SumOf(pending_rake, Table) + (w.rake - pending_rake[t])
  <2> DEFINE g == pending_rake'
             d == w.rake - pending_rake[t]
  <2>1. g[t] = pending_rake[t] + d /\ d \in Int
    BY <1>1, <1>3, SMTT(30) DEF MInv
  <2>2. \A u \in Table : u # t => g[u] = pending_rake[u]
    BY <1>1 DEF MInv
  <2>3. IntegerOn(pending_rake, Table)
    BY SumsAreNumbers
  <2> HIDE DEF g, d
  <2>4. SumOf(g, Table) = SumOf(pending_rake, Table) + d
    BY <2>1, <2>2, <2>3, FiniteTable, SumChange, SMTT(30)
  <2> QED BY <2>4 DEF g, d
<1>10. pending_rake' \in [Table -> Nat] /\ pending_rake[t] \in Nat
  BY <1>1, <1>3, SMTT(30) DEF MInv
<1>11. /\ Total(balance, Player) \in Nat /\ Held(pending_buy_ins) \in Nat
       /\ SumOf(Purses(table), Table) \in Nat /\ SumOf(pending_rake, Table) \in Nat
       /\ Total(w.balance, Player) \in Nat /\ Total(w.fees, Player) \in Nat
       /\ Total(pending_fees, Player) \in Nat
  BY <1>3, SumsAreNumbers, TotalOfMoney DEF MInv
<1>12. /\ Total(balance, Player) + Held(pending_buy_ins) + SumOf(Purses(table), Table)
             + SumOf(pending_rake, Table) = Issued
       /\ SumOf(pending_rake, Table) = Total(pending_fees, Player)
  BY DEF MInv
<1>13. Total(w.balance, Player) + Held(pending_buy_ins) + SumOf(Purses(table'), Table)
          + SumOf(pending_rake', Table) = Issued
  <2> DEFINE a == Total(balance, Player)
             aa == Total(w.balance, Player)
             h == Held(pending_buy_ins)
             s == SumOf(Purses(table), Table)
             r == SumOf(pending_rake, Table)
             c == Cash(table[t])
             cc == Cash(w.tb)
             k == pending_rake[t]
             kk == w.rake
  <2>1. /\ a \in Nat /\ aa \in Nat /\ h \in Nat /\ s \in Nat /\ r \in Nat
        /\ c \in Nat /\ cc \in Nat /\ k \in Nat /\ kk \in Nat
        /\ aa + cc + kk = a + c + k /\ a + h + s + r = Issued
    BY <1>3, <1>6, <1>7, <1>10, <1>11, <1>12
  <2> HIDE DEF a, aa, h, s, r, c, cc, k, kk
  <2>2. aa + h + (s + (cc - c)) + (r + (kk - k)) = a + h + s + r
    BY <2>1, SMTT(30)
  <2> QED BY <1>8, <1>9, <2>1, <2>2 DEF a, aa, h, s, r, c, cc, k, kk
<1>14. SumOf(pending_rake', Table) = Total(w.fees, Player)
  <2> DEFINE f == Total(pending_fees, Player)
             ff == Total(w.fees, Player)
             k == pending_rake[t]
             kk == w.rake
  <2>1. f \in Nat /\ ff \in Nat /\ k \in Nat /\ kk \in Nat /\ ff - kk = f - k
    BY <1>3, <1>10, <1>11
  <2> HIDE DEF f, ff, k, kk
  <2>2. f + (kk - k) = ff
    BY <2>1, SMTT(30)
  <2> QED BY <1>9, <1>12, <2>2 DEF f, ff, k, kk
<1>15. MInv'
  BY <1>1, <1>3, <1>10, <1>13, <1>14 DEF MInv
<1> QED BY <1>5, <1>15, SMTT(30)

\* One table and the balances change.
LEMMA TablePays ==
    ASSUME IInv, IInv', RInv, MInv, NEW t \in Table, NEW tb, table' = [table EXCEPT ![t] = tb],
           balance' \in Money, UNCHANGED <<pending_buy_ins, measured, pending_rake, pending_fees>>,
           phase' = phase, todo' \subseteq todo,
           tb.pending_proposals = table[t].pending_proposals,
           Total(balance', Player) + Cash(tb) = Total(balance, Player) + Cash(table[t])
    PROVE  RInv' /\ MInv'
<1> DEFINE w == [tb |-> tb, balance |-> balance', rake |-> pending_rake[t], fees |-> pending_fees]
<1>1. /\ w.tb = tb /\ w.balance = balance' /\ w.rake = pending_rake[t] /\ w.fees = pending_fees
      /\ World(t).tb = table[t] /\ World(t).balance = balance
      /\ World(t).rake = pending_rake[t] /\ World(t).fees = pending_fees
  BY DEF World
<1> HIDE DEF w
<1>2. pending_fees \in Money /\ pending_rake[t] \in Nat /\ balance \in Money
      /\ pending_rake = [pending_rake EXCEPT ![t] = pending_rake[t]]
  BY DEF MInv
<1>3. Becomes(t, w)
  BY <1>1, <1>2 DEF Becomes
<1>4. Shape(table[t]) /\ Shape(tb)
  BY DEF IInv, TInv
<1>5. Wealthy(w) = Wealthy(World(t))
  <2>1. /\ Total(tb.cash, Player) \in Nat /\ Total(tb.playing_cash, Player) \in Nat
        /\ Total(table[t].cash, Player) \in Nat /\ Total(table[t].playing_cash, Player) \in Nat
        /\ Total(balance', Player) \in Nat /\ Total(balance, Player) \in Nat
    BY <1>2, <1>4, TotalOfMoney DEF Shape
  <2> QED BY <1>1, <1>2, <2>1, SMTT(30) DEF Wealthy, Holding, Cash
<1>6. Kept(World(t), w)
  BY <1>1, <1>2, <1>5 DEF Kept, Solvent
<1> QED BY <1>3, <1>6, WorldPays

\* The money and the reservations of a table are the same.
SamePurse(r, tb) ==
    /\ r.cash = tb.cash /\ r.playing_cash = tb.playing_cash
    /\ r.pending_proposals = tb.pending_proposals

\* Only other fields of one table change.
LEMMA NobodyPays ==
    ASSUME IInv, IInv', RInv, MInv, NEW t \in Table, NEW tb, table' = [table EXCEPT ![t] = tb],
           UNCHANGED <<balance, pending_buy_ins, measured, pending_rake, pending_fees>>,
           phase' = phase, todo' \subseteq todo, SamePurse(tb, table[t])
    PROVE  RInv' /\ MInv'
<1>1. /\ balance' \in Money
      /\ Total(balance', Player) + Cash(tb) = Total(balance, Player) + Cash(table[t])
  BY DEF MInv, SamePurse, Cash
<1> QED BY <1>1, TablePays DEF SamePurse

\* alive_for_table, register_buy_in and the fields of a table that hold no money
LEMMA OtherFields ==
    ASSUME NEW tb, DOMAIN tb = TableFields, NEW x, NEW S
    PROVE  /\ SamePurse(alive_for_table(tb), tb) /\ SamePurse(register_buy_in(tb, S), tb)
           /\ SamePurse([tb EXCEPT !.alive = x], tb) /\ SamePurse([tb EXCEPT !.settings = x], tb)
           /\ \A y, p : SamePurse([tb EXCEPT !.buy_outs[p] = y], tb)
           /\ \A y, p : SamePurse([tb EXCEPT !.buy_ins[p] = x, !.buy_outs[p] = y], tb)
           /\ DOMAIN alive_for_table(tb) = TableFields
           /\ DOMAIN register_buy_in(tb, S) = TableFields
BY DEF TableFields, SamePurse, alive_for_table, register_buy_in

\* Cash comes to a table or leaves it.
LEMMA CashMoves ==
    ASSUME NEW tb, TInv(tb), NEW p \in Player, NEW d \in Int, tb.cash[p] + d >= 0
    PROVE  /\ Cash(adjust_cash(tb, Only(p, d))) = Cash(tb) + d
           /\ adjust_cash(tb, Only(p, d)).pending_proposals = tb.pending_proposals
           /\ DOMAIN adjust_cash(tb, Only(p, d)) = TableFields
<1> DEFINE r == adjust_cash(tb, Only(p, d))
           new == [tb.cash EXCEPT ![p] = @ + d]
<1>1. Only(p, d) \in [Player -> Int]
  BY SMTT(30) DEF Only
<1>2. Shape(tb) /\ Counted(tb) /\ tb.cash \in Money /\ tb.playing_cash \in Money
  BY DEF TInv, Shape
<1>3. /\ Shape(r) /\ r.cash = Adjusted(tb.cash, Only(p, d))
      /\ r.playing_cash = tb.playing_cash /\ r.pending_proposals = tb.pending_proposals
  BY <1>1, <1>2, AdjustCash
<1>4. Adjusted(tb.cash, Only(p, d)) = new
  BY <1>2, SMTT(30) DEF Adjusted, Only, Money
<1>5. Total(new, Player) = Total(tb.cash, Player) + d
  BY <1>2, TotalChange
<1>6. Total(tb.cash, Player) \in Nat /\ Total(tb.playing_cash, Player) \in Nat
  BY <1>2, TotalOfMoney
<1> HIDE DEF r, new
<1>7. Total(r.cash, Player) = Total(tb.cash, Player) + d
  BY <1>3, <1>4, <1>5
<1>8. Cash(r) = Cash(tb) + d
  BY <1>3, <1>6, <1>7, SMTT(30) DEF Cash
<1> QED BY <1>3, <1>8 DEF r, Shape

\* A balance changes.
LEMMA BalanceMoves ==
    ASSUME NEW f \in Money, NEW p \in Player, NEW d \in Int, f[p] + d >= 0
    PROVE  /\ [f EXCEPT ![p] = @ + d] \in Money
           /\ Total([f EXCEPT ![p] = @ + d], Player) = Total(f, Player) + d
<1>1. [f EXCEPT ![p] = @ + d] \in Money
  BY SMTT(30) DEF Money
<1> QED BY <1>1, TotalChange

\* A player moves d coins from their balance to a table, or takes coins from it.
LEMMA PlayerPays ==
    ASSUME IInv, IInv', RInv, MInv, NEW t \in Table, NEW p \in Player, NEW d \in Int,
           balance[p] - d >= 0, table[t].cash[p] + d >= 0,
           balance' = [balance EXCEPT ![p] = @ + (-d)],
           NEW tb, SamePurse(tb, adjust_cash(table[t], Only(p, d))),
           table' = [table EXCEPT ![t] = tb],
           UNCHANGED <<pending_buy_ins, measured, pending_rake, pending_fees>>,
           phase' = phase, todo' \subseteq todo
    PROVE  RInv' /\ MInv'
<1>1. TInv(table[t]) /\ balance \in Money
  BY DEF IInv, MInv
<1>2. /\ Cash(adjust_cash(table[t], Only(p, d))) = Cash(table[t]) + d
      /\ adjust_cash(table[t], Only(p, d)).pending_proposals = table[t].pending_proposals
  BY <1>1, CashMoves
<1>3. Cash(tb) = Cash(table[t]) + d /\ tb.pending_proposals = table[t].pending_proposals
  BY <1>2 DEF SamePurse, Cash
<1>4. -d \in Int /\ balance[p] + (-d) >= 0
  BY <1>1, SMTT(30) DEF Money
<1>5. balance' \in Money /\ Total(balance', Player) = Total(balance, Player) + (-d)
  BY <1>1, <1>4, BalanceMoves
<1>6. Total(balance, Player) \in Nat /\ Cash(table[t]) \in Nat
  BY SumsAreNumbers, PursesAreNumbers
<1>7. Total(balance', Player) + Cash(tb) = Total(balance, Player) + Cash(table[t])
  BY <1>3, <1>5, <1>6, SMTT(30)
<1> QED BY <1>3, <1>5, <1>7, TablePays
=============================================================================

------------------------------- MODULE Tables -------------------------------
(***************************************************************************)
(* Poker tables on the chain: place reservations, buy-ins and buy-outs,    *)
(* the votes that start a game and settle it, and the tasks every block    *)
(* runs on them, as of PLAYCHAIN hardfork 11.                              *)
(*                                                                         *)
(* Operations are applied one at a time while phase = "operations".  A     *)
(* block then walks through the tasks of process_block_tasks in order;     *)
(* todo holds the objects the current task has collected and not handled.  *)
(*                                                                         *)
(* Times are kept as the number of blocks that are left: 0 is due, a       *)
(* negative number never falls due.                                        *)
(***************************************************************************)
EXTENDS TableVoting, Sequences

CONSTANTS
    Table,
    OwnerOf,            \* [Table -> account]: owner of the table's room
    Metadata,           \* kinds of game, with the protocol version
    Settings,           \* values of a table's settings
    Wealth,             \* coins a player starts with
    Amount,             \* amounts that operations name
    StartVotes,         \* contents voters may propose for a new game
    ResultVotes,        \* contents voters may propose as a result
    Gaps,               \* slots between a block and its predecessor
    VotingLifetime,
    GameLifetime,
    LongGames,          \* games expire at maintenance blocks only
    PendingLifetime,
    BuyInLifetime,
    AliveLifetime,
    MaxPlaces,          \* amount_reserving_places_per_user
    AllocatePerBlock,   \* pending_buy_in_allocate_per_block
    MinVotesForPlaying,
    MinVotesForResults,
    MinPlayers,         \* desired number of players of a table
    MaxPlayers

ASSUME TablesAssumption ==
    /\ IsFiniteSet(Player)
    /\ None \notin Uid
    /\ Amount \subseteq Nat
    /\ Gaps \subseteq Nat
    /\ BuyInLifetime \in Int \ {None}
    /\ \A c \in StartVotes : c.about = "playing" /\ c.cash \in [Player -> Nat]
    /\ \A c \in ResultVotes : c.about = "results" /\ c.cash \in [Player -> Nat]

NoTable == "no table"

\* validate_ivariants refuses a result with a negative rake.
ASSUME MoneyAssumption ==
    /\ IsFiniteSet(Table)
    /\ NoTable \notin Table
    /\ Wealth \in Nat
    /\ \A c \in ResultVotes : c.rake \in [Player -> Nat]

VARIABLES
    balance,            \* [Player -> coins]
    table,              \* [Table -> record], see NewTable
    pending_buy_ins,    \* set of reservations
    measured,           \* reservations whose rating measurement waits
    pending_rake,       \* [Table -> coins], of the table's room
    pending_fees,       \* [Player -> coins]
    phase,
    todo

vars == <<balance, table, pending_buy_ins, measured, pending_rake, pending_fees,
          phase, todo>>

Forever == -2

NoVotes == [v \in {} |-> 0]

NoVoting ==
    [votes |-> NoVotes, expiration |-> None, scheduled |-> None, allowed |-> 0,
     required_players |-> {}, required_witnesses |-> {}, voted_witnesses |-> {}]

NewTable(settings) ==
    [pending_proposals |-> [p \in Player |-> None],
     cash              |-> NoCash,
     playing_cash      |-> NoCash,
     occupied_places   |-> 0,
     game_expiration   |-> None,
     voted_witnesses   |-> {},
     settings          |-> settings,
     buy_ins           |-> [p \in Player |-> None],  \* buy_in_object expirations
     buy_outs          |-> NoCash,                   \* pending_buy_out_object
     voting            |-> NoVoting,
     pending_votes     |-> NoVotes,
     alive             |-> None]

Init ==
    /\ balance = [p \in Player |-> Wealth]
    /\ table \in [Table -> {NewTable(s) : s \in Settings}]
    /\ pending_buy_ins = {}
    /\ measured = {}
    /\ pending_rake = [t \in Table |-> 0]
    /\ pending_fees = NoCash
    /\ phase = "operations"
    /\ todo = {}

is_table_voting(tb) == tb.voting # NoVoting

alive_for_table(tb) == [tb EXCEPT !.alive = AliveLifetime]

register_buy_in(tb, S) ==
    [tb EXCEPT !.buy_ins = [p \in Player |-> IF p \in S THEN BuyInLifetime ELSE @[p]]]

Reservation(p, uid) == {b \in pending_buy_ins : b.player = p /\ b.uid = uid}

Operating == phase = "operations"

-----------------------------------------------------------------------------
(***************************************************************************)
(* Buy-ins and buy-outs.                                                   *)
(***************************************************************************)
buy_in_on_credit(p, t, amount) ==
    /\ Operating
    /\ p # OwnerOf[t]
    /\ balance' = [balance EXCEPT ![p] = @ - amount]
    /\ table' = [table EXCEPT ![t] =
          alive_for_table(register_buy_in(adjust_cash(@, Only(p, amount)), {p}))]
    /\ UNCHANGED <<pending_buy_ins, measured, pending_rake, pending_fees, phase, todo>>

buy_in_table(p, t, amount) ==
    /\ Operating
    /\ p # OwnerOf[t]
    /\ balance[p] >= amount
    /\ balance' = [balance EXCEPT ![p] = @ - amount]
    /\ table' = [table EXCEPT ![t] =
          alive_for_table(register_buy_in(adjust_cash(@, Only(p, amount)), {p}))]
    /\ UNCHANGED <<pending_buy_ins, measured, pending_rake, pending_fees, phase, todo>>

buy_out_of_the_stake(p, t, amount) ==
    /\ Operating
    /\ p # OwnerOf[t]
    /\ is_playing(table[t], p)
    /\ table[t].playing_cash[p] >= amount
    /\ balance' = [balance EXCEPT ![p] = @ + amount]
    /\ table' = [table EXCEPT ![t] = adjust_playing_cash(@, Only(p, -amount))]
    /\ UNCHANGED <<pending_buy_ins, measured, pending_rake, pending_fees, phase, todo>>

\* Cash is paid out at once; more than that, of a player in the game, becomes
\* the one pending buy-out of the player.
buy_out_table(p, t, amount) ==
    /\ Operating
    /\ p # OwnerOf[t]
    /\ is_waiting_at_table(table[t], p) \/ is_playing(table[t], p)
    /\ ~is_playing(table[t], p) => table[t].cash[p] >= amount
    /\ IF table[t].cash[p] >= amount
       THEN /\ balance' = [balance EXCEPT ![p] = @ + amount]
            /\ table' = [table EXCEPT ![t] =
                  [adjust_cash(@, Only(p, -amount)) EXCEPT !.buy_outs[p] = 0]]
       ELSE /\ table' = [table EXCEPT ![t].buy_outs[p] = amount]
            /\ UNCHANGED balance
    /\ UNCHANGED <<pending_buy_ins, measured, pending_rake, pending_fees, phase, todo>>

reserve_on_credit(p, uid, amount, metadata) ==
    /\ Operating
    /\ Reservation(p, uid) = {}
    /\ Cardinality({b \in pending_buy_ins : b.player = p}) < MaxPlaces
    /\ balance' = [balance EXCEPT ![p] = @ - amount]
    /\ pending_buy_ins' = pending_buy_ins \cup
          {[player |-> p, uid |-> uid, amount |-> amount, metadata |-> metadata,
            table |-> NoTable, expiration |-> PendingLifetime]}
    /\ UNCHANGED <<table, measured, pending_rake, pending_fees, phase, todo>>

buy_in_reserve(p, uid, amount, metadata) ==
    /\ Operating
    /\ Reservation(p, uid) = {}
    /\ Cardinality({b \in pending_buy_ins : b.player = p}) < MaxPlaces
    /\ balance[p] >= amount
    /\ balance' = [balance EXCEPT ![p] = @ - amount]
    /\ pending_buy_ins' = pending_buy_ins \cup
          {[player |-> p, uid |-> uid, amount |-> amount, metadata |-> metadata,
            table |-> NoTable, expiration |-> PendingLifetime]}
    /\ UNCHANGED <<table, measured, pending_rake, pending_fees, phase, todo>>

\* Tables after the reservations S of player p have left their places.
Vacated(p, S) ==
    [t \in Table |-> IF \E b \in S : b.table = t THEN remove_pending_proposal(table[t], p)
                     ELSE table[t]]

Refunded(p, S) == [balance EXCEPT ![p] = @ + MapThenSumSet(LAMBDA b : b.amount, S)]

cancel_keeps_place(p, S) ==
    /\ pending_buy_ins' = pending_buy_ins \ S
    /\ balance' = Refunded(p, S)
    /\ measured' = measured \ {<<p, b.uid>> : b \in S}
    /\ UNCHANGED <<table, pending_rake, pending_fees>>

\* Reservations S of player p end: refund, place and rating measurement.
cancel_pending_buyin(p, S) ==
    /\ pending_buy_ins' = pending_buy_ins \ S
    /\ balance' = Refunded(p, S)
    /\ table' = Vacated(p, S)
    /\ measured' = measured \ {<<p, b.uid>> : b \in S}
    /\ UNCHANGED <<pending_rake, pending_fees>>

buy_in_reserving_cancel(p, uid) ==
    /\ Operating
    /\ Reservation(p, uid) # {}
    /\ cancel_pending_buyin(p, Reservation(p, uid))
    /\ UNCHANGED <<phase, todo>>

buy_in_reserving_cancel_all(p) ==
    /\ Operating
    /\ \E b \in pending_buy_ins : b.player = p
    /\ cancel_pending_buyin(p, {b \in pending_buy_ins : b.player = p})
    /\ UNCHANGED <<phase, todo>>

resolve_without_buy_in_object(b, t) ==
    /\ Operating
    /\ table[t].pending_proposals[b.player] = b.uid
    /\ pending_buy_ins' = pending_buy_ins \ {b}
    /\ table' = [table EXCEPT ![t] = alive_for_table(
          adjust_cash(remove_pending_proposal(@, b.player), Only(b.player, b.amount)))]
    /\ measured' = measured \ {<<b.player, b.uid>>}
    /\ UNCHANGED <<balance, pending_rake, pending_fees, phase, todo>>

\* The owner of the table seats the player.
buy_in_reserving_resolve(b, t) ==
    /\ Operating
    /\ table[t].pending_proposals[b.player] = b.uid
    /\ pending_buy_ins' = pending_buy_ins \ {b}
    /\ table' = [table EXCEPT ![t] =
          alive_for_table(register_buy_in(
              adjust_cash(remove_pending_proposal(@, b.player), Only(b.player, b.amount)),
              {b.player}))]
    /\ measured' = measured \ {<<b.player, b.uid>>}
    /\ UNCHANGED <<balance, pending_rake, pending_fees, phase, todo>>

-----------------------------------------------------------------------------
(***************************************************************************)
(* Games.  The operators below map a world to a world: a table, and the    *)
(* money that operations on that table can reach.                          *)
(***************************************************************************)
World(t) ==
    [tb |-> table[t], balance |-> balance, rake |-> pending_rake[t],
     fees |-> pending_fees]

Becomes(t, w) ==
    /\ table' = [table EXCEPT ![t] = w.tb]
    /\ balance' = w.balance
    /\ pending_rake' = [pending_rake EXCEPT ![t] = w.rake]
    /\ pending_fees' = w.fees
    /\ UNCHANGED <<pending_buy_ins, measured>>

\* Each pending buy-out takes what it can from the player's part of the
\* result, then from the cash and, if the result leaves the player out,
\* from the stake.  left is what the players of the result, who, end up with.
BuyOutTakes(tb, who, left) ==
    LET fromResult == [p \in Player |-> IF p \in who THEN Smaller(left[p], tb.buy_outs[p]) ELSE 0]
        fromCash   == [p \in Player |-> Smaller(tb.cash[p], tb.buy_outs[p] - fromResult[p])]
        fromStake  == [p \in Player |->
                          IF p \in who THEN 0
                          ELSE Smaller(tb.playing_cash[p], tb.buy_outs[p] - fromCash[p])]
    IN  [result |-> fromResult, cash |-> fromCash, stake |-> fromStake]

buyouts_forget_the_result(w, who, left) ==
    LET take == BuyOutTakes(w.tb, who, left)
        tb == adjust_playing_cash(adjust_cash(w.tb, Minus(take.cash)), Minus(take.stake))
    IN  [w EXCEPT !.tb = [tb EXCEPT !.buy_outs = NoCash],
                  !.balance = Plus(@, Plus(take.cash, take.stake))]

buyouts_are_kept(w, who, left) ==
    LET take == BuyOutTakes(w.tb, who, left)
    IN  [w EXCEPT !.tb = adjust_playing_cash(adjust_cash(@, Minus(take.cash)), Minus(take.stake)),
                  !.balance = Plus(@, Plus(take.result, Plus(take.cash, take.stake)))]

pending_buyouts_resolve(w, who, left) ==
    LET take == BuyOutTakes(w.tb, who, left)
        tb == adjust_playing_cash(adjust_cash(w.tb, Minus(take.cash)), Minus(take.stake))
    IN  [w EXCEPT !.tb = [tb EXCEPT !.buy_outs = NoCash],
                  !.balance = Plus(@, Plus(take.result, Plus(take.cash, take.stake)))]

rollback_loses_registration(w, full) ==
    LET w1 == pending_buyouts_resolve(w, {}, NoCash)
        tb == IF full THEN clear_cash(clear_playing_cash(w1.tb))
              ELSE clear_playing_cash(adjust_cash(w1.tb, w1.tb.playing_cash))
    IN  [w1 EXCEPT !.balance = IF full THEN Plus(@, Plus(w1.tb.playing_cash, w1.tb.cash)) ELSE @,
                   !.tb = [tb EXCEPT !.game_expiration = None,
                                     !.pending_votes = NoVotes,
                                     !.voting = NoVoting,
                                     !.buy_ins = [p \in Player |-> None]]]

rollback_keeps_votes(w, full) ==
    LET w1 == pending_buyouts_resolve(w, {}, NoCash)
        tb == IF full THEN clear_cash(clear_playing_cash(w1.tb))
              ELSE clear_playing_cash(adjust_cash(w1.tb, w1.tb.playing_cash))
        registered == IF full THEN [tb EXCEPT !.buy_ins = [p \in Player |-> None]]
                      ELSE register_buy_in(tb, Players(w.tb.playing_cash) \cap Players(tb.cash))
    IN  [w1 EXCEPT !.balance = IF full THEN Plus(@, Plus(w1.tb.playing_cash, w1.tb.cash)) ELSE @,
                   !.tb = [registered EXCEPT !.game_expiration = None]]

\* The game is called off: the stakes return to the cash, or everything at
\* the table is paid out.
rollback(w, full) ==
    LET w1 == pending_buyouts_resolve(w, {}, NoCash)
        tb == IF full THEN clear_cash(clear_playing_cash(w1.tb))
              ELSE clear_playing_cash(adjust_cash(w1.tb, w1.tb.playing_cash))
        registered == IF full THEN [tb EXCEPT !.buy_ins = [p \in Player |-> None]]
                      ELSE register_buy_in(tb, Players(w.tb.playing_cash) \cap Players(tb.cash))
    IN  [w1 EXCEPT !.balance = IF full THEN Plus(@, Plus(w1.tb.playing_cash, w1.tb.cash)) ELSE @,
                   !.tb = [registered EXCEPT !.game_expiration = None,
                                             !.pending_votes = NoVotes,
                                             !.voting = NoVoting]]

start_without_lifetime(w, vote, witnesses) ==
    [w EXCEPT !.tb = [adjust_cash(adjust_playing_cash(@, vote.cash), Minus(vote.cash))
                          EXCEPT !.voted_witnesses = witnesses]]

apply_start_playing_with_consensus(w, vote, witnesses) ==
    [w EXCEPT !.tb = [adjust_cash(adjust_playing_cash(@, vote.cash), Minus(vote.cash))
                          EXCEPT !.game_expiration = GameLifetime,
                                 !.voted_witnesses = witnesses]]

\* The settlement of a game that is not cancelled: buy-outs, rake, the players
\* of the result, and the stakes of those the result leaves out.
Settle(w, vote) ==
    LET left == Part(vote.cash, vote.who)
        w1   == pending_buyouts_resolve(w, vote.who, left)
        out  == Plus(left, Minus(BuyOutTakes(w.tb, vote.who, left).result))
        tb1  == adjust_playing_cash(adjust_cash(w1.tb, out), Minus(Part(w1.tb.playing_cash, vote.who)))
        tb2  == adjust_cash(adjust_playing_cash(tb1, Minus(tb1.playing_cash)), tb1.playing_cash)
        rake == Part(vote.rake, vote.who)
    IN  [w1 EXCEPT !.rake = @ + Total(rake, Player),
                   !.fees = Plus(@, rake),
                   !.tb = register_buy_in([tb2 EXCEPT !.game_expiration = None,
                                                      !.voted_witnesses = {}],
                                          Players(w.tb.playing_cash) \cap Players(tb2.cash))]

apply_game_result_with_consensus(w, vote) ==
    IF is_cancel(vote) THEN rollback(w, FALSE) ELSE Settle(w, vote)

-----------------------------------------------------------------------------
(***************************************************************************)
(* Votes.                                                                  *)
(***************************************************************************)
incoming_vote_is_not_validated(tb, owner, voter, vote) ==
    /\ voter \notin DOMAIN (IF is_table_voting(tb) THEN tb.voting.votes ELSE tb.pending_votes)
    /\ \/ is_game_witness(owner, voter)
       \/ voter = owner
       \/ is_valid_voter(tb, voter, vote)

check_incoming_vote(tb, owner, voter, vote) ==
    /\ voter \notin DOMAIN (IF is_table_voting(tb) THEN tb.voting.votes ELSE tb.pending_votes)
    /\ \/ is_game_witness(owner, voter)
       \/ voter = owner
       \/ is_valid_voter(tb, voter, vote)
    /\ validate_ivariants(tb, vote)

\* A player's vote waits until the owner or a witness opens the voting.  Any
\* other vote opens or joins it and takes the pending votes along.
try_voting(tb, owner, voter, vote) ==
    IF ~is_table_voting(tb) /\ voter # owner /\ ~is_game_witness(owner, voter)
    THEN [tb EXCEPT !.pending_votes = AddVote(@, voter, vote)]
    ELSE LET joined  == IF is_table_voting(tb) THEN set_voter(tb.voting, owner, voter, vote)
                        ELSE NewVoting(tb, owner, voter, vote, VotingLifetime)
             counted == check_pending_votes(tb, joined, tb.pending_votes, vote.about)
             vt      == CollectPending(joined, tb.pending_votes, counted)
             collected == /\ is_table_voting(tb) \/ counted # {}
                          /\ is_the_required_number_of_voters(tb, vt, vote.about)
         IN  alive_for_table(
                 [tb EXCEPT !.pending_votes = NoVotes,
                            !.voting = IF collected /\ vt.scheduled = None
                                       THEN Schedule(vt) ELSE vt])

Vote(voter, t, vote) ==
    /\ check_incoming_vote(table[t], OwnerOf[t], voter, vote)
    /\ table' = [table EXCEPT ![t] = try_voting(@, OwnerOf[t], voter, vote)]
    /\ UNCHANGED <<balance, pending_buy_ins, measured, pending_rake, pending_fees, phase, todo>>

game_start_playing_check(voter, t, vote) ==
    /\ Operating
    /\ Cardinality(Players(vote.cash)) >= 2
    /\ is_free(table[t])
    /\ Vote(voter, t, vote)

game_result_check(voter, t, vote) ==
    /\ Operating
    /\ ~is_free(table[t])
    /\ Vote(voter, t, vote)

game_reset(t, full) ==
    /\ Operating
    /\ LET w == rollback(World(t), full)
       IN  Becomes(t, [w EXCEPT !.tb = alive_for_table(@)])
    /\ UNCHANGED <<phase, todo>>

tables_alive(t) ==
    /\ Operating
    /\ table' = [table EXCEPT ![t] = alive_for_table(@)]
    /\ UNCHANGED <<balance, pending_buy_ins, measured, pending_rake, pending_fees, phase, todo>>

table_update(t, settings) ==
    /\ Operating
    /\ is_free(table[t]) /\ ~is_table_voting(table[t])
    /\ settings.metadata # table[t].settings.metadata => table[t].alive = None
    /\ table' = [table EXCEPT ![t].settings = settings]
    /\ UNCHANGED <<balance, pending_buy_ins, measured, pending_rake, pending_fees, phase, todo>>

-----------------------------------------------------------------------------
(***************************************************************************)
(* The tasks of a block.                                                   *)
(***************************************************************************)
Closed(w) == [w EXCEPT !.tb.voting = NoVoting]

cleanup_pending_votes(w) == [w EXCEPT !.tb.pending_votes = NoVotes]

no_second_validation(w, owner) ==
    LET vt == w.tb.voting
    IN  IF Cardinality(DOMAIN vt.votes) < MinVotesForPlaying
        THEN {cleanup_pending_votes([w EXCEPT !.tb.voting = vt])}
        ELSE IF ~Consensus(vt.votes) THEN {cleanup_pending_votes(Closed(w))}
        ELSE {cleanup_pending_votes(apply_start_playing_with_consensus(
                  Closed(w), c, AgreeingWitnesses(vt, owner, c))) : c \in Winners(vt.votes)}

\* Votes that the money at the table no longer covers are dropped first.  When
\* fewer than the minimum are left the voting stays as it is.
scheduled_voting_for_playing(w, owner) ==
    LET vt == [w.tb.voting EXCEPT !.votes = ValidVotes(w.tb, @)]
    IN  IF Cardinality(DOMAIN vt.votes) < MinVotesForPlaying
        THEN {cleanup_pending_votes([w EXCEPT !.tb.voting = vt])}
        ELSE IF ~Consensus(vt.votes) THEN {cleanup_pending_votes(Closed(w))}
        ELSE {cleanup_pending_votes(apply_start_playing_with_consensus(
                  Closed(w), c, AgreeingWitnesses(vt, owner, c))) : c \in Winners(vt.votes)}

scheduled_voting_for_results(w) ==
    LET votes == w.tb.voting.votes
    IN  IF Consensus(votes)
        THEN {cleanup_pending_votes(apply_game_result_with_consensus(Closed(w), c)) :
                 c \in Winners(votes)}
        ELSE {rollback(Closed(w), FALSE)}

\* A voting about a result that has run out of time is decided by the votes it
\* has when enough of the players have voted.
expire_voting_for_results(w) ==
    LET voted == Cardinality(Players(w.tb.playing_cash)) - Cardinality(w.tb.voting.required_players)
    IN  IF voted >= MinVotesForResults THEN scheduled_voting_for_results(w)
        ELSE {rollback(Closed(w), FALSE)}

scheduled_voting(w, owner) ==
    IF is_voting_for(w.tb.voting, "playing") THEN scheduled_voting_for_playing(w, owner)
    ELSE IF is_voting_for(w.tb.voting, "results") THEN scheduled_voting_for_results(w)
    ELSE {w}

expired_voting(w) ==
    IF is_voting_for(w.tb.voting, "playing") THEN {cleanup_pending_votes(Closed(w))}
    ELSE IF is_voting_for(w.tb.voting, "results") THEN expire_voting_for_results(w)
    ELSE {w}

\* Tasks in the order of process_block_tasks.
Tasks == <<"scheduled votings", "expired votings", "expired games", "expired reservations",
           "expired buy-ins", "expired tables", "allocation">>

\* The objects a task collects before it handles the first of them.
Collected(task) ==
    CASE task = "scheduled votings"    -> {t \in Table : table[t].voting.scheduled = 0}
      [] task = "expired votings"      -> {t \in Table : table[t].voting.expiration = 0}
      [] task = "expired games"        -> {t \in Table : table[t].game_expiration = 0}
      [] task = "expired reservations" -> {b \in pending_buy_ins : b.expiration = 0}
      [] task = "expired buy-ins"      -> {tp \in Table \X Player : table[tp[1]].buy_ins[tp[2]] = 0}
      [] task = "expired tables"       -> {t \in Table : table[t].alive = 0}
      [] task = "allocation"           -> {b \in pending_buy_ins : b.table = NoTable}

\* What a task handles of it: a block looks for tables for a limited number of
\* reservations, the ones that expire first, whether it finds one or not.  Which
\* of two that expire together is first depends on their ids.
Batches(task) ==
    LET found == Collected(task)
    IN  IF task # "allocation" THEN {found}
        ELSE {S \in SUBSET found :
                 /\ Cardinality(S) <= AllocatePerBlock
                 /\ S = found \/ Cardinality(S) = AllocatePerBlock
                 /\ \A b \in S, c \in found \ S : b.expiration <= c.expiration}

Tick(time, gap) == IF time <= 0 THEN time ELSE IF time > gap THEN time - gap ELSE 0

TickTable(tb, gap) ==
    [tb EXCEPT !.game_expiration = Tick(@, gap),
               !.alive = Tick(@, gap),
               !.buy_ins = [p \in Player |-> Tick(@[p], gap)],
               !.voting.expiration = Tick(@, gap),
               !.voting.scheduled = Tick(@, gap)]

\* A block arrives; its time is gap slots after that of its predecessor.
NewBlock(gap) ==
    /\ Operating
    /\ phase' = "block"
    /\ table' = [t \in Table |-> TickTable(table[t], gap)]
    /\ pending_buy_ins' = {[b EXCEPT !.expiration = Tick(@, gap)] : b \in pending_buy_ins}
    /\ UNCHANGED <<balance, measured, pending_rake, pending_fees, todo>>

Position(task) == IF task = "block" THEN 0 ELSE CHOOSE i \in 1..Len(Tasks) : Tasks[i] = task

\* On to the next task that finds something to do.  Games of a long lifetime
\* are looked at in maintenance blocks only.
process_block_tasks ==
    /\ ~Operating /\ todo = {}
    /\ \E maintenance \in IF LongGames THEN BOOLEAN ELSE {TRUE} :
          LET work(i) == IF Tasks[i] = "expired games" /\ ~maintenance THEN {}
                         ELSE Collected(Tasks[i])
              busy == {i \in Position(phase) + 1..Len(Tasks) : work(i) # {}}
              next == CHOOSE i \in busy : \A j \in busy : i <= j
          IN  IF busy = {} THEN phase' = "operations" /\ todo' = {}
              ELSE phase' = Tasks[next] /\ todo' \in Batches(Tasks[next])
    /\ UNCHANGED <<balance, table, pending_buy_ins, measured, pending_rake, pending_fees>>

Handles(task, x) == phase = task /\ todo' = todo \ {x} /\ UNCHANGED phase

update_scheduled_voting(t) ==
    /\ Handles("scheduled votings", t)
    /\ \E w \in scheduled_voting(World(t), OwnerOf[t]) : Becomes(t, w)

update_expired_table_voting(t) ==
    /\ Handles("expired votings", t)
    /\ \E w \in expired_voting(World(t)) : Becomes(t, w)

update_expired_table_game(t) ==
    /\ Handles("expired games", t)
    /\ Becomes(t, rollback(World(t), TRUE))

only_unallocated_expire(b) ==
    /\ Handles("expired reservations", b)
    /\ cancel_pending_buyin(b.player, IF b.table = NoTable THEN {b} ELSE {})

update_expired_pending_buy_in(b) ==
    /\ Handles("expired reservations", b)
    /\ cancel_pending_buyin(b.player, {b})

\* A player in a game keeps the buy-in; anyone else gets the cash back.
update_expired_buy_in(t, p) ==
    /\ Handles("expired buy-ins", <<t, p>>)
    /\ LET tb == table[t]
       IN  IF is_playing(tb, p)
           THEN /\ table' = [table EXCEPT ![t] = register_buy_in(tb, {p})]
                /\ UNCHANGED balance
           ELSE /\ balance' = [balance EXCEPT ![p] = @ + tb.cash[p]]
                /\ table' = [table EXCEPT ![t] =
                      [adjust_cash(tb, Only(p, -tb.cash[p]))
                          EXCEPT !.buy_ins[p] = None,
                                 !.buy_outs[p] = IF tb.cash[p] > 0 THEN 0 ELSE @]]
    /\ UNCHANGED <<pending_buy_ins, measured, pending_rake, pending_fees>>

update_expired_table_alive(t) ==
    /\ Handles("expired tables", t)
    /\ table' = [table EXCEPT ![t].alive = None]
    /\ UNCHANGED <<balance, pending_buy_ins, measured, pending_rake, pending_fees>>

\* Tables that accept the reservation, among those whose number of occupied
\* places is at least least.  A table whose room owner no longer keeps it
\* alive has a negative weight and is passed over.
Vacancies(b, least) ==
    {t \in Table :
        /\ table[t].settings.metadata = b.metadata
        /\ table[t].occupied_places \in least..MaxPlayers - 1
        /\ table[t].alive # None
        /\ OwnerOf[t] # b.player
        /\ table[t].settings.min_accepted <= b.amount
        /\ ~is_waiting_at_table(table[t], b.player) /\ ~is_playing(table[t], b.player)}

FewestPlaces(S) ==
    {t \in S : \A u \in S : table[t].occupied_places <= table[u].occupied_places}

replace_without_refund(b, t) ==
    LET replaced == {o \in pending_buy_ins : o.player = b.player /\ o.uid # b.uid
                        /\ table[t].pending_proposals[b.player] = o.uid}
    IN  /\ table' = [table EXCEPT ![t] = add_pending_proposal(@, b.player, b.uid)]
        /\ pending_buy_ins' = (pending_buy_ins \ (replaced \cup {b}))
                                  \cup {[b EXCEPT !.table = t]}
        /\ measured' = (measured \ {<<o.player, o.uid>> : o \in replaced})
                           \cup {<<b.player, b.uid>>}
        /\ UNCHANGED balance

\* The reservation takes a place; one that the player already had at that table
\* is replaced and refunded.
allocate_table(b, t) ==
    LET replaced == {o \in pending_buy_ins : o.player = b.player /\ o.uid # b.uid
                        /\ table[t].pending_proposals[b.player] = o.uid}
    IN  /\ table' = [table EXCEPT ![t] = add_pending_proposal(@, b.player, b.uid)]
        /\ pending_buy_ins' = (pending_buy_ins \ (replaced \cup {b}))
                                  \cup {[b EXCEPT !.table = t]}
        /\ measured' = (measured \ {<<o.player, o.uid>> : o \in replaced})
                           \cup {<<b.player, b.uid>>}
        /\ balance' = Refunded(b.player, replaced)

allocation_of_vacancies(b) ==
    /\ Handles("allocation", b)
    /\ LET desired == Vacancies(b, MinPlayers)
           found == IF desired # {} THEN desired ELSE Vacancies(b, 0)
       IN  IF found = {} THEN UNCHANGED <<balance, table, pending_buy_ins, measured>>
           ELSE \E t \in FewestPlaces(found) : allocate_table(b, t)
    /\ UNCHANGED <<pending_rake, pending_fees>>

-----------------------------------------------------------------------------
\* Room owners are game witnesses, so every voter is one of these.
Voter == Player \cup GameWitness

BuyInOperation ==
    \/ \E p \in Player, t \in Table, a \in Amount : buy_in_table(p, t, a)
    \/ \E p \in Player, t \in Table, a \in Amount : buy_out_table(p, t, a)
    \/ \E p \in Player, u \in Uid, a \in Amount, m \in Metadata : buy_in_reserve(p, u, a, m)
    \/ \E p \in Player, u \in Uid : buy_in_reserving_cancel(p, u)
    \/ \E p \in Player : buy_in_reserving_cancel_all(p)
    \/ \E b \in pending_buy_ins, t \in Table : buy_in_reserving_resolve(b, t)

TableOperation ==
    \/ \E v \in Voter, t \in Table, c \in StartVotes : game_start_playing_check(v, t, c)
    \/ \E v \in Voter, t \in Table, c \in ResultVotes : game_result_check(v, t, c)
    \/ \E t \in Table, full \in BOOLEAN : game_reset(t, full)
    \/ \E t \in Table : tables_alive(t)
    \/ \E t \in Table, s \in Settings : table_update(t, s)

BlockStep ==
    \/ \E gap \in Gaps : NewBlock(gap)
    \/ process_block_tasks
    \/ \E t \in todo : update_scheduled_voting(t)
    \/ \E t \in todo : update_expired_table_voting(t)
    \/ \E t \in todo : update_expired_table_game(t)
    \/ \E b \in todo : update_expired_pending_buy_in(b)
    \/ \E tp \in todo : update_expired_buy_in(tp[1], tp[2])
    \/ \E t \in todo : update_expired_table_alive(t)
    \/ \E b \in todo : allocation_of_vacancies(b)

Next == BuyInOperation \/ TableOperation \/ BlockStep

Spec == Init /\ [][Next]_vars

\* What a step of any of the tasks does to the task's list of objects.
Handled == \E x \in todo : todo' = todo \ {x} /\ UNCHANGED phase

\* Blocks keep coming, and a block completes its tasks.
FairSpec ==
    /\ Spec
    /\ WF_<<phase, todo>>(\E gap \in Gaps : NewBlock(gap))
    /\ WF_<<phase, todo>>(process_block_tasks)
    /\ WF_<<phase, todo>>(Handled)

-----------------------------------------------------------------------------
Coins == 0..Wealth * Cardinality(Player)

Time == Nat \cup {None, Forever}

TableRecord(tb) ==
    /\ tb.pending_proposals \in [Player -> Uid \cup {None}]
    /\ tb.cash \in [Player -> Coins]
    /\ tb.playing_cash \in [Player -> Coins]
    /\ tb.occupied_places \in Nat
    /\ tb.game_expiration \in Time
    /\ tb.voted_witnesses \subseteq GameWitness
    /\ tb.settings \in Settings
    /\ tb.buy_ins \in [Player -> Time]
    /\ tb.buy_outs \in [Player -> Amount \cup {0}]
    /\ tb.alive \in Time
    /\ DOMAIN tb.pending_votes \subseteq Player
    /\ tb.voting.expiration \in Time /\ tb.voting.scheduled \in Time
    /\ DOMAIN tb.voting.votes \cup tb.voting.required_players \subseteq Voter
    /\ tb.voting.required_witnesses \cup tb.voting.voted_witnesses \subseteq GameWitness

\* Types: no balance, cash, stake or number of places goes below zero.
TypeOK ==
    /\ balance \in [Player -> Coins]
    /\ \A t \in Table : TableRecord(table[t])
    /\ pending_buy_ins \subseteq
          [player : Player, uid : Uid, amount : Amount, metadata : Metadata,
           table : Table \cup {NoTable}, expiration : Time]
    /\ measured \subseteq Player \X Uid
    /\ pending_rake \in [Table -> Coins] /\ pending_fees \in [Player -> Coins]

\* Coins are neither made nor lost by reservations, buy-ins, buy-outs, games,
\* settlements, rollbacks and expirations: they are in a balance, a reservation,
\* the cash or stakes of a table, or the rake; and the rake the rooms are owed
\* is what the players' pending fees record.
MoneyIsConserved ==
    /\ Total(balance, Player)
         + MapThenSumSet(LAMBDA b : b.amount, pending_buy_ins)
         + MapThenSumSet(LAMBDA t : Total(table[t].cash, Player)
                             + Total(table[t].playing_cash, Player) + pending_rake[t], Table)
       = Wealth * Cardinality(Player)
    /\ MapThenSumSet(LAMBDA t : pending_rake[t], Table) = Total(pending_fees, Player)

\* The counter occupied_places, which adjust_cash, adjust_playing_cash and the
\* proposal functions maintain by increments, is the number of players who have
\* cash, a stake or a reservation at the table.
PlacesAreCounted ==
    \A t \in Table : table[t].occupied_places =
        Cardinality(Players(table[t].cash) \cup Players(table[t].playing_cash)
                        \cup Reserved(table[t]))

\* A table's pending_proposals and the reservations that name the table are the
\* same, one per player, and exactly these have a rating measurement that waits
\* for the room: no step leaves a place taken by a reservation that is gone.
ReservationsHoldPlaces ==
    /\ \A t \in Table, p \in Player, u \in Uid :
          table[t].pending_proposals[p] = u <=> \E b \in Reservation(p, u) : b.table = t
    /\ \A p \in Player, u \in Uid : Cardinality(Reservation(p, u)) <= 1
    /\ measured = {<<b.player, b.uid>> : b \in {c \in pending_buy_ins : c.table # NoTable}}

\* Whoever has cash or a stake at a table has a buy-in object there, whose
\* expiration (update_expired_buy_in) is what returns forgotten cash.
NoStrandedCash ==
    \A t \in Table, p \in Player :
        table[t].cash[p] + table[t].playing_cash[p] > 0 => table[t].buy_ins[p] # None

\* A pending buy-out belongs to a player in the game: it cannot outlive the game
\* and take money from a later one.
BuyOutsEndWithTheGame ==
    \A t \in Table, p \in Player :
        table[t].buy_outs[p] > 0 => is_playing(table[t], p)

\* Votes about a start exist only at a free table and votes about a result only
\* in a game, in the voting and among the pending votes; once a voting is open
\* no vote is left pending.
VotesFitTheTable ==
    \A t \in Table :
        LET tb == table[t]
            about == IF is_free(tb) THEN "playing" ELSE "results"
        IN  /\ \A v \in DOMAIN tb.voting.votes : tb.voting.votes[v].about = about
            /\ \A v \in DOMAIN tb.pending_votes : tb.pending_votes[v].about = about
            /\ is_table_voting(tb) => DOMAIN tb.pending_votes = {}

\* A vote about a result is checked against the stakes when it is cast and not
\* again when it is applied; it still balances then.
ResultVotesStayValid ==
    \A t \in Table :
        LET tb == table[t]
            held == {tb.voting.votes[v] : v \in DOMAIN tb.voting.votes}
                      \cup {tb.pending_votes[v] : v \in DOMAIN tb.pending_votes}
        IN  \A c \in held : c.about = "results" => validate_result(tb, c)

\* During a game no stake changes: buy-ins, buy-outs, expirations and votes leave
\* all stakes alone until the game ends for everyone at once.
StakesKept ==
    \A t \in Table : ~is_free(table[t]) =>
        table'[t].playing_cash = table[t].playing_cash \/ is_free(table'[t])

\* StakesKept, of every step.
StakesAreFrozen == [][StakesKept]_vars

\* Every reservation ends: allocated and resolved, cancelled, replaced or refunded.
ReservationsEnd ==
    \A p \in Player, u \in Uid : Reservation(p, u) # {} ~> Reservation(p, u) = {}

\* Every game ends, at the latest when its lifetime is over.
GamesEnd ==
    \A t \in Table : ~is_free(table[t]) ~> is_free(table[t])

\* Every voting ends, decided or expired.
VotingsEnd ==
    \A t \in Table : is_table_voting(table[t]) ~> ~is_table_voting(table[t])

\* A game starts only when the vote of the table's owner is one of the votes
\* that were counted.
OwnerTakesPart ==
    [][\A t \in Table : is_free(table[t]) /\ ~is_free(table'[t]) =>
          OwnerOf[t] \in DOMAIN ValidVotes(table[t], table[t].voting.votes)]_vars
=============================================================================

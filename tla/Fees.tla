-------------------------------- MODULE Fees --------------------------------
(***************************************************************************)
(* What becomes of the rake of settled games: it is recorded as a pending  *)
(* fee of the player and as pending rake of the room, and the maintenance  *)
(* block shares it among the player's inviters, the witnesses of the game  *)
(* and the owner of the room (deposit_pending_fees).                       *)
(*                                                                         *)
(* Accounts are abstracted to what get_total_balance makes of them: the    *)
(* liquid balance, since it returns early up to the upper threshold and    *)
(* above it the cut is the full one whatever is added. The balances may    *)
(* differ from one handled player to the next. The metadata of a fee is    *)
(* that of the table, and a room stands for its tables of one metadata, so *)
(* that room and getter identify a deposit_statistic. A player is invited  *)
(* by an older one: Players lists inviters before the players they invite. *)
(* deposit_pending_fees runs inside one block; its loop over the players   *)
(* is one step per player, and no game ends between two of them.           *)
(***************************************************************************)
EXTENDS Integers, Sequences, SequencesExt, FiniteSets, FiniteSetsExt

CONSTANTS
    Players,            \* a sequence: the players in the order of their ids
    Inviter,            \* [player -> player or NullPlayer]
    Room,
    WitnessLists,       \* the witness sequences that games may have
    Rakes,              \* [player -> amount] functions: the rakes a game may have
    Balances,           \* [player -> amount] functions: the balances inviters may have
    MaxDepth,           \* PLAYCHAIN_MAXIMUM_INVITERS_DEPTH
    ReferrerPercent,
    ParentPercent,
    WitnessPercent,
    MinThreshold,
    MaxThreshold,
    MaxGames            \* bound on the number of games

VARIABLES
    pending_fees,       \* [player -> Seq of fees]
    parent_fees,        \* [player -> [<<room, getter>> -> amount]], pending_parent_invitation_fees
    pending_rake,       \* [room -> amount]
    rewards,            \* [account -> amount], the vesting balances
    todo,               \* players the maintenance block in progress has still to handle
    games,
    twice               \* history: [room -> amount], what was paid of shares put off and
                        \* paid to the room again

vars == <<pending_fees, parent_fees, pending_rake, rewards, todo, games, twice>>

NullPlayer == "null player"

Player == ToSet(Players)

Account == Player \cup Room \cup UNION {ToSet(w) : w \in WitnessLists}

Nothing == [k \in Room \X Player |-> 0]

cut_fee(a, p) == IF a < 1 \/ p < 1 THEN 0 ELSE IF p >= 10000 THEN a ELSE (a * p) \div 10000

-----------------------------------------------------------------------------
(* A payment in progress: p.rewards, p.rake, p.parent_fees and p.twice are    *)
(* the state, p.amount is what is still to be shared and p.at the next        *)
(* inviter.                                                                   *)

deposit_cashback(p, room, owner, amount) ==
    IF amount < 1 THEN p
    ELSE [p EXCEPT !.rewards[owner] = @ + amount, !.rake[room] = @ - amount]

\* What an inviter with a balance keeps of an amount, by the two thresholds.
InviterCut(amount, balance) ==
    LET most == amount - cut_fee(amount, ParentPercent) IN
    IF balance < MinThreshold THEN 0
    ELSE IF balance < MaxThreshold THEN (most * balance) \div MaxThreshold
    ELSE most

NextInviter(p, room, balance) ==
    IF p.at = NullPlayer \/ p.amount < 1 THEN p
    ELSE LET cut == InviterCut(p.amount, balance[p.at]) IN
         [deposit_cashback(p, room, p.at, cut) EXCEPT !.amount = @ - cut, !.at = Inviter[p.at]]

\* Beyond the depth the rest waits with the next inviter for another maintenance.
Defer(p, room, getter) ==
    IF p.at = NullPlayer \/ p.amount < 1 THEN p
    ELSE [p EXCEPT !.parent_fees[p.at][<<room, getter>>] = @ + p.amount, !.amount = 0]

disseminate_for_inviters(p, room, getter, balance) ==
    Defer(FoldLeft(LAMBDA q, i : NextInviter(q, room, balance),
                   p, [i \in 1..MaxDepth |-> i]),
          room, getter)

\* An inviters' share that was put off.  The room gets all of it, not the rest that
\* the inviters leave.
DepositParentFee(p, player, room, getter, balance) ==
    LET amount == parent_fees[player][<<room, getter>>]
        q == disseminate_for_inviters([p EXCEPT !.amount = amount, !.at = player],
                                      room, getter, balance) IN
    deposit_cashback([q EXCEPT !.twice[room] = @ + (amount - q.amount)], room, room, amount)

first_witness_gets_no_rest(p, fee, amount) ==
    LET n == Len(fee.witnesses) IN
    FoldLeft(LAMBDA q, w : deposit_cashback(q, fee.room, w, amount \div n), p, fee.witnesses)

\* Equal parts, and what the division leaves for the first witness.
DepositWitnesses(p, fee, amount) ==
    LET n == Len(fee.witnesses)
        equal == FoldLeft(LAMBDA q, w : deposit_cashback(q, fee.room, w, amount \div n),
                          p, fee.witnesses) IN
    deposit_cashback(equal, fee.room, fee.witnesses[1], amount % n)

DepositFee(p, player, fee, balance) ==
    LET inviters == cut_fee(fee.amount, ReferrerPercent)
        witness == cut_fee(fee.amount, WitnessPercent)
        q == disseminate_for_inviters([p EXCEPT !.amount = inviters, !.at = Inviter[player]],
                                      fee.room, player, balance)
        owner == fee.amount - inviters - witness + q.amount IN
    IF fee.witnesses = <<>> THEN deposit_cashback(q, fee.room, fee.room, owner + witness)
    ELSE deposit_cashback(DepositWitnesses(q, fee, witness), fee.room, fee.room, owner)

-----------------------------------------------------------------------------
Owed(fees, parents, room) ==
    MapThenSumSet(LAMBDA p :
        FoldLeft(LAMBDA sum, fee : IF fee.room = room THEN sum + fee.amount ELSE sum, 0, fees[p])
          + MapThenSumSet(LAMBDA g : parents[p][<<room, g>>], Player), Player)

inheritance_is_overlooked(p) == pending_fees[p] = <<>>

is_not_pending(p) == pending_fees[p] = <<>> /\ parent_fees[p] = Nothing

zero_rake_is_recorded(room, rake, witnesses, p) ==
    <<[room |-> room, amount |-> rake[p], witnesses |-> witnesses]>>

\* The fee a settled game adds to those of a player: none without rake.
NewFees(room, rake, witnesses, p) ==
    IF rake[p] > 0 THEN <<[room |-> room, amount |-> rake[p], witnesses |-> witnesses]>>
    ELSE <<>>

apply_game_result_with_consensus(room, rake, witnesses) ==
    /\ todo = <<>>
    /\ games < MaxGames
    /\ games' = games + 1
    /\ pending_fees' = [p \in Player |-> pending_fees[p] \o NewFees(room, rake, witnesses, p)]
    /\ pending_rake' = [pending_rake EXCEPT ![room] =
          @ + MapThenSumSet(LAMBDA p : rake[p], Player)]
    /\ UNCHANGED <<parent_fees, rewards, todo, twice>>

\* The maintenance block lists the players with pending fees.
start_maintenance ==
    /\ todo = <<>>
    /\ todo' = SelectSeq(Players, LAMBDA p : ~is_not_pending(p))
    /\ todo' # <<>>
    /\ UNCHANGED <<pending_fees, parent_fees, pending_rake, rewards, games, twice>>

deposit_pending_fees(balance) ==
    LET player == Head(todo)
        due == SetToSeq({k \in Room \X Player : parent_fees[player][k] > 0})
        start == [rewards |-> rewards, rake |-> pending_rake, parent_fees |-> parent_fees,
                  twice |-> twice, amount |-> 0, at |-> NullPlayer]
        parents == FoldLeft(LAMBDA p, k : DepositParentFee(p, player, k[1], k[2], balance),
                            start, due)
        cleared == [parents EXCEPT !.parent_fees[player] = Nothing]
        end == FoldLeft(LAMBDA p, fee : DepositFee(p, player, fee, balance),
                        cleared, pending_fees[player]) IN
    /\ todo # <<>>
    /\ todo' = Tail(todo)
    /\ rewards' = end.rewards
    /\ pending_rake' = end.rake
    /\ parent_fees' = end.parent_fees
    /\ twice' = end.twice
    /\ pending_fees' = [pending_fees EXCEPT ![player] = <<>>]
    /\ UNCHANGED games

Init ==
    /\ pending_fees = [p \in Player |-> <<>>]
    /\ parent_fees = [p \in Player |-> Nothing]
    /\ pending_rake = [r \in Room |-> 0]
    /\ rewards = [a \in Account |-> 0]
    /\ todo = <<>>
    /\ games = 0
    /\ twice = [r \in Room |-> 0]

Next ==
    \/ \E r \in Room, rake \in Rakes, w \in WitnessLists :
          apply_game_result_with_consensus(r, rake, w)
    \/ start_maintenance
    \/ \E balance \in Balances : deposit_pending_fees(balance)

Spec == Init /\ [][Next]_vars

\* What deposit_pending_fees does to the list of players, which no other step shortens.
Handled == todo # <<>> /\ todo' = Tail(todo)

\* Maintenance blocks keep coming and handle every player they have listed.
FairSpec ==
    /\ Spec
    /\ WF_todo(start_maintenance)
    /\ WF_todo(Handled)

-----------------------------------------------------------------------------
\* The types of the state; a recorded fee is never empty.
TypeOK ==
    /\ DOMAIN pending_fees = Player
    /\ \A p \in Player : ToSet(pending_fees[p]) \subseteq
          [room : Room, amount : {rake[q] : rake \in Rakes, q \in Player} \ {0}, witnesses : WitnessLists]
    /\ parent_fees \in [Player -> [Room \X Player -> Nat]]
    /\ pending_rake \in [Room -> Int]
    /\ rewards \in [Account -> Nat]
    /\ ToSet(todo) \subseteq Player
    /\ twice \in [Room -> Nat]

\* A room's pending rake is what is still owed of its games, less what inviters beyond
\* the depth limit have had of shares put off, for the room gets that as well: whatever
\* the balances of the inviters, the rounding of the shares and the number of witnesses,
\* every other coin of a rake is paid once.
RakeIsOwed ==
    \A r \in Room : pending_rake[r] = Owed(pending_fees, parent_fees, r) - twice[r]

\* Each coin of a rake is paid once, also those of a share that was put off.
NothingIsPaidTwice ==
    \A r \in Room : pending_rake[r] = Owed(pending_fees, parent_fees, r)

\* Every pending fee is disseminated in the end, also what is put off to inviters
\* of inviters again and again.
FeesAreDisseminated ==
    \A p \in Player : (pending_fees[p] # <<>> \/ parent_fees[p] # Nothing)
                        ~> (pending_fees[p] = <<>> /\ parent_fees[p] = Nothing)
=============================================================================

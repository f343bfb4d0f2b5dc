------------------------- MODULE TablesMoneyProofs --------------------------
(***************************************************************************)
(* Reservations hold places, and no step makes or loses coins.  Both are   *)
(* about all tables at once: a reservation that moves to a table leaves    *)
(* another place, and a coin that leaves a table is in a balance.          *)
(***************************************************************************)
EXTENDS TablesProofs

\* Zenon proves the steps that name no other prover.
USE ZenonT(60)

-----------------------------------------------------------------------------
(* Steps of one table.                                                       *)

\* buy_in_table
LEMMA BuyInPays ==
    ASSUME IInv, IInv', RInv, MInv, NEW p \in Player, NEW t \in Table, NEW a \in Amount,
           buy_in_table(p, t, a)
    PROVE  RInv' /\ MInv'
<1> DEFINE mid == adjust_cash(table[t], Only(p, a))
           tb == alive_for_table(register_buy_in(mid, {p}))
<1>1. TInv(table[t]) /\ a \in Nat /\ balance \in Money
  BY TablesAssumption DEF IInv, MInv
<1>2. a \in Int /\ balance[p] - a >= 0 /\ table[t].cash[p] + a >= 0
  BY <1>1, SMTT(30) DEF buy_in_table, TInv, Shape, Money
<1>3. SamePurse(tb, mid)
  <2>1. DOMAIN mid = TableFields
    BY <1>1, <1>2, CashMoves
  <2> HIDE DEF mid
  <2>2. /\ DOMAIN register_buy_in(mid, {p}) = TableFields
        /\ SamePurse(register_buy_in(mid, {p}), mid)
    BY <2>1, OtherFields
  <2>3. SamePurse(tb, register_buy_in(mid, {p}))
    BY <2>2, OtherFields
  <2> QED BY <2>2, <2>3 DEF SamePurse
<1>4. table' = [table EXCEPT ![t] = tb] /\ phase' = phase /\ todo' \subseteq todo
      /\ UNCHANGED <<pending_buy_ins, measured, pending_rake, pending_fees>>
  BY DEF buy_in_table
<1>5. balance' = [balance EXCEPT ![p] = @ + (-a)]
  <2>1. balance' = [balance EXCEPT ![p] = @ - a]
    BY DEF buy_in_table
  <2>2. balance[p] - a = balance[p] + (-a)
    BY <1>1 DEF Money
  <2> QED BY <2>1, <2>2
<1> HIDE DEF tb
<1> QED BY <1>2, <1>3, <1>4, <1>5, PlayerPays

\* buy_out_table
LEMMA BuyOutPays ==
    ASSUME IInv, IInv', RInv, MInv, NEW p \in Player, NEW t \in Table, NEW a \in Amount,
           buy_out_table(p, t, a)
    PROVE  RInv' /\ MInv'
<1> DEFINE d == -a
           mid == adjust_cash(table[t], Only(p, d))
           paid == [mid EXCEPT !.buy_outs[p] = 0]
           waits == [table[t] EXCEPT !.buy_outs[p] = a]
<1>1. TInv(table[t]) /\ a \in Nat /\ balance \in Money /\ table[t].cash \in Money
      /\ DOMAIN table[t] = TableFields
  BY TablesAssumption DEF IInv, MInv, TInv, Shape
<1>2. phase' = phase /\ todo' \subseteq todo
      /\ UNCHANGED <<pending_buy_ins, measured, pending_rake, pending_fees>>
  BY DEF buy_out_table
<1>3. CASE table[t].cash[p] >= a
  <2>1. d \in Int /\ balance[p] - d >= 0 /\ table[t].cash[p] + d >= 0 /\ -d = a
    BY <1>1, <1>3, SMTT(30) DEF Money
  <2>2. table' = [table EXCEPT ![t] = paid] /\ balance' = [balance EXCEPT ![p] = @ + a]
    BY <1>3 DEF buy_out_table
  <2> HIDE DEF d
  <2>3. DOMAIN mid = TableFields
    BY <1>1, <2>1, CashMoves
  <2>4. SamePurse(paid, mid)
    <3> HIDE DEF mid
    <3> QED BY <2>3, OtherFields
  <2>5. balance' = [balance EXCEPT ![p] = @ + (-d)]
    BY <2>1, <2>2
  <2> HIDE DEF paid
  <2> QED BY <1>2, <2>1, <2>2, <2>4, <2>5, PlayerPays
<1>4. CASE ~(table[t].cash[p] >= a)
  <2>1. table' = [table EXCEPT ![t] = waits] /\ balance' = balance
    BY <1>4 DEF buy_out_table
  <2>2. SamePurse(waits, table[t])
    BY <1>1, OtherFields
  <2> HIDE DEF waits
  <2> QED BY <1>2, <2>1, <2>2, NobodyPays
<1> QED BY <1>3, <1>4, SMTT(30)

\* A vote is not paid for.
LEMMA VotePays ==
    ASSUME IInv, IInv', RInv, MInv, NEW voter, NEW t \in Table, NEW vote, Vote(voter, t, vote)
    PROVE  RInv' /\ MInv'
<1> DEFINE tb == try_voting(table[t], OwnerOf[t], voter, vote)
<1>1. DOMAIN table[t] = TableFields
  BY DEF IInv, TInv, Shape
<1>2. SamePurse(tb, table[t])
  <2>1. PICK votes, voting :
           \/ tb = [table[t] EXCEPT !.pending_votes = votes]
           \/ tb = alive_for_table([table[t] EXCEPT !.pending_votes = votes, !.voting = voting])
    BY DEF try_voting
  <2> HIDE DEF tb
  <2> QED BY <1>1, <2>1 DEF alive_for_table, SamePurse, TableFields
<1>3. /\ table' = [table EXCEPT ![t] = tb] /\ phase' = phase /\ todo' \subseteq todo
      /\ UNCHANGED <<balance, pending_buy_ins, measured, pending_rake, pending_fees>>
  BY DEF Vote
<1> HIDE DEF tb
<1> QED BY <1>2, <1>3, NobodyPays

\* tables_alive, table_update, update_expired_table_alive
LEMMA UpdatePays ==
    ASSUME IInv, IInv', RInv, MInv, NEW t \in Table,
           tables_alive(t) \/ (\E s \in Settings : table_update(t, s))
               \/ update_expired_table_alive(t)
    PROVE  RInv' /\ MInv'
<1>1. DOMAIN table[t] = TableFields
  BY DEF IInv, TInv, Shape
<1>2. /\ phase' = phase /\ todo' \subseteq todo
      /\ UNCHANGED <<balance, pending_buy_ins, measured, pending_rake, pending_fees>>
  BY DEF tables_alive, table_update, update_expired_table_alive, Handles
<1>3. PICK tb : table' = [table EXCEPT ![t] = tb] /\ SamePurse(tb, table[t])
  <2>1. CASE tables_alive(t)
    BY <1>1, <2>1, OtherFields DEF tables_alive
  <2>2. ASSUME NEW s \in Settings, table_update(t, s)
        PROVE  \E tb : table' = [table EXCEPT ![t] = tb] /\ SamePurse(tb, table[t])
    <3>1. table' = [table EXCEPT ![t] = [table[t] EXCEPT !.settings = s]]
      BY <2>2 DEF table_update
    <3> QED BY <1>1, <3>1, OtherFields
  <2>3. CASE update_expired_table_alive(t)
    <3>1. table' = [table EXCEPT ![t] = [table[t] EXCEPT !.alive = None]]
      BY <2>3 DEF update_expired_table_alive
    <3> QED BY <1>1, <3>1, OtherFields
  <2> QED BY <2>1, <2>2, <2>3
<1> QED BY <1>2, <1>3, NobodyPays

\* update_expired_buy_in
LEMMA ExpiredBuyInPays ==
    ASSUME IInv, IInv', RInv, MInv, NEW t \in Table, NEW p \in Player, update_expired_buy_in(t, p)
    PROVE  RInv' /\ MInv'
<1> DEFINE d == -table[t].cash[p]
           mid == adjust_cash(table[t], Only(p, d))
           y == IF table[t].cash[p] > 0 THEN 0 ELSE mid.buy_outs[p]
           gone == [mid EXCEPT !.buy_ins[p] = None,
                               !.buy_outs[p] = IF table[t].cash[p] > 0 THEN 0 ELSE @]
<1>1. TInv(table[t]) /\ balance \in Money /\ table[t].cash \in Money
      /\ DOMAIN table[t] = TableFields
  BY DEF IInv, MInv, TInv, Shape
<1>2. phase' = phase /\ todo' \subseteq todo
      /\ UNCHANGED <<pending_buy_ins, measured, pending_rake, pending_fees>>
  BY DEF update_expired_buy_in, Handles
<1>3. CASE ~is_playing(table[t], p)
  <2>1. d \in Int /\ balance[p] - d >= 0 /\ table[t].cash[p] + d >= 0 /\ -d = table[t].cash[p]
    BY <1>1, SMTT(30) DEF Money
  <2>2. /\ table' = [table EXCEPT ![t] = gone]
        /\ balance' = [balance EXCEPT ![p] = @ + table[t].cash[p]]
    BY <1>3 DEF update_expired_buy_in
  <2> HIDE DEF d
  <2>3. DOMAIN mid = TableFields
    BY <1>1, <2>1, CashMoves
  <2>4. SamePurse(gone, mid)
    <3> HIDE DEF mid
    <3> QED BY <2>3, SMTT(30) DEF SamePurse, TableFields
  <2>5. balance' = [balance EXCEPT ![p] = @ + (-d)]
    BY <2>1, <2>2
  <2> HIDE DEF gone
  <2> QED BY <1>2, <2>1, <2>2, <2>4, <2>5, PlayerPays
<1>4. CASE is_playing(table[t], p)
  <2>1. table' = [table EXCEPT ![t] = register_buy_in(table[t], {p})] /\ balance' = balance
    BY <1>4 DEF update_expired_buy_in
  <2>2. SamePurse(register_buy_in(table[t], {p}), table[t])
    BY <1>1, OtherFields
  <2> QED BY <1>2, <2>1, <2>2, NobodyPays
<1> QED BY <1>3, <1>4, SMTT(30)

\* What decisions need of a table.
LEMMA WorldIsReady ==
    ASSUME IInv, MInv, NEW t \in Table
    PROVE  Ready(World(t)) /\ TInv(World(t).tb)
<1>1. /\ World(t).balance = balance /\ World(t).rake = pending_rake[t]
      /\ World(t).fees = pending_fees
  BY DEF World
<1>2. pending_rake[t] \in Nat
  BY DEF MInv
<1>3. Solvent(World(t))
  BY <1>1, <1>2 DEF Solvent, MInv
<1>4. DOMAIN World(t) = WorldFields /\ TInv(World(t).tb)
  BY WorldOfTable
<1> QED BY <1>3, <1>4 DEF Ready, TInv, Sound

\* game_reset
LEMMA ResetPays ==
    ASSUME IInv, IInv', RInv, MInv, NEW t \in Table, NEW full \in BOOLEAN, game_reset(t, full)
    PROVE  RInv' /\ MInv'
<1> DEFINE w == rollback(World(t), full)
           r == [w EXCEPT !.tb = alive_for_table(@)]
<1>1. Kept(World(t), w) /\ Ready(w)
  BY WorldIsReady, RollbackKept
<1>2. Becomes(t, r) /\ phase' = phase /\ todo' \subseteq todo
  BY DEF game_reset
<1> HIDE DEF w
<1>3. r.tb = alive_for_table(w.tb) /\ r.balance = w.balance /\ r.rake = w.rake /\ r.fees = w.fees
  BY <1>1, SMTT(30) DEF Ready, WorldFields
<1>4. SamePurse(alive_for_table(w.tb), w.tb)
  BY <1>1, OtherFields DEF Ready, Sound, Shape
<1> HIDE DEF r
<1>5. Kept(World(t), r)
  BY <1>1, <1>3, <1>4 DEF Kept, Solvent, Wealthy, SamePurse
<1> QED BY <1>2, <1>5, WorldPays

\* The tasks that decide votings and games.
LEMMA DecisionPays ==
    ASSUME IInv, IInv', RInv, MInv, NEW t \in Table,
           update_scheduled_voting(t) \/ update_expired_table_voting(t)
               \/ update_expired_table_game(t)
    PROVE  RInv' /\ MInv'
<1>1. phase' = phase /\ todo' \subseteq todo
  BY DEF update_scheduled_voting, update_expired_table_voting, update_expired_table_game,
               Handles
<1>2. PICK w : /\ Becomes(t, w)
               /\ \/ w \in scheduled_voting(World(t), OwnerOf[t])
                  \/ w \in expired_voting(World(t))
                  \/ w = rollback(World(t), TRUE)
  BY DEF update_scheduled_voting, update_expired_table_voting, update_expired_table_game
<1>3. Ready(World(t)) /\ TInv(World(t).tb)
  BY WorldIsReady
<1>4. Kept(World(t), w)
  <2>1. CASE w \in scheduled_voting(World(t), OwnerOf[t]) \/ w \in expired_voting(World(t))
    BY <1>3, <2>1, VotingKept
  <2>2. CASE w = rollback(World(t), TRUE)
    BY <1>3, <2>2, RollbackKept
  <2> QED BY <1>2, <2>1, <2>2
<1> QED BY <1>1, <1>2, <1>4, WorldPays

-----------------------------------------------------------------------------
(* Steps of reservations.                                                    *)

\* buy_in_reserve
LEMMA ReservePays ==
    ASSUME IInv, IInv', RInv, MInv, NEW p \in Player, NEW u \in Uid, NEW a \in Amount, NEW m,
           buy_in_reserve(p, u, a, m)
    PROVE  RInv' /\ MInv'
<1> DEFINE new == [player |-> p, uid |-> u, amount |-> a, metadata |-> m,
                   table |-> NoTable, expiration |-> PendingLifetime]
           S == pending_buy_ins
<1>1. new.player = p /\ new.uid = u /\ new.amount = a /\ new.table = NoTable
  OBVIOUS
<1>2. /\ pending_buy_ins' = S \cup {new} /\ table' = table /\ measured' = measured
      /\ phase' = phase /\ phase = "operations" /\ balance' = [balance EXCEPT ![p] = @ - a]
      /\ balance[p] >= a /\ Reservation(p, u) = {}
      /\ pending_rake' = pending_rake /\ pending_fees' = pending_fees
  BY DEF buy_in_reserve, Operating
<1> HIDE DEF new
<1>3. Fresh(S, new)
  BY <1>1, <1>2, SMTT(30) DEF Reservation, Fresh
<1>4. a \in Nat /\ balance \in Money /\ IsFiniteSet(S) /\ Priced(S)
  BY TablesAssumption, ReservationsArePriced DEF MInv
<1>5. RInv'
  <2>1. Proposals' = Proposals
    BY <1>2 DEF Proposals
  <2>2. /\ Holds(Proposals, S \cup {new}) /\ Distinct(S \cup {new})
        /\ Placed(S \cup {new}) = Placed(S)
    BY <1>1, <1>3, ReservationWaits DEF RInv
  <2>3. ListIsCurrent'
    BY <1>2, SMTT(30) DEF ListIsCurrent
  <2> QED BY <1>2, <2>1, <2>2, <2>3 DEF RInv
<1>6. IsFiniteSet(S \cup {new}) /\ Held(S \cup {new}) = Held(S) + a
  <2>1. new \notin S
    BY <1>3 DEF Fresh
  <2> QED BY <1>1, <1>4, <2>1, HeldAdd
<1>7. balance' \in Money /\ Total(balance', Player) = Total(balance, Player) + (-a) /\ -a \in Int
  <2>1. -a \in Int /\ balance[p] + (-a) >= 0 /\ balance[p] - a = balance[p] + (-a)
    BY <1>2, <1>4, SMTT(30) DEF Money
  <2>2. balance' = [balance EXCEPT ![p] = @ + (-a)]
    BY <1>2, <2>1
  <2> QED BY <1>4, <2>1, <2>2, BalanceMoves
<1>8. SumOf(Purses(table'), Table) = SumOf(Purses(table), Table) - ((-a) + a)
  <2>1. SumOf(Purses(table), Table) \in Nat
    BY SumsAreNumbers
  <2>2. SumOf(Purses(table), Table) = SumOf(Purses(table), Table) - ((-a) + a)
    BY <1>4, <2>1, SMTT(30)
  <2> QED BY <1>2, <2>2
<1>9. a \in Int
  BY <1>4, SMTT(30)
<1>10. MInv'
  BY <1>2, <1>6, <1>7, <1>8, <1>9, MoneyMoves
<1> QED BY <1>5, <1>10, SMTT(30)

\* cancel_pending_buyin, but for the list of the task
LEMMA CancelPays ==
    ASSUME IInv, IInv', RInv, MInv, NEW p \in Player, NEW S, S \subseteq pending_buy_ins,
           Owned(S, p), cancel_pending_buyin(p, S), ListIsCurrent'
    PROVE  RInv' /\ MInv'
<1>1. /\ pending_buy_ins' = pending_buy_ins \ S /\ balance' = Refunded(p, S)
      /\ table' = Vacated(p, S) /\ measured' = measured \ {<<p, b.uid>> : b \in S}
      /\ pending_rake' = pending_rake /\ pending_fees' = pending_fees
  BY DEF cancel_pending_buyin
<1>2. \A t \in Table : Shape(table[t])
  BY DEF IInv, TInv
<1>3. ASSUME NEW t \in Table
      PROVE  /\ table'[t].cash = table[t].cash /\ table'[t].playing_cash = table[t].playing_cash
             /\ \A q \in Player : table'[t].pending_proposals[q]
                    = IF q = p /\ (\E b \in S : b.table = t) THEN None
                      ELSE table[t].pending_proposals[q]
  <2>1. CASE \E b \in S : b.table = t
    <3>1. table'[t] = remove_pending_proposal(table[t], p)
      BY <1>1, <2>1 DEF Vacated
    <3>2. Shape(table[t])
      BY <1>2, SMTT(30)
    <3>3. PICK b \in S : b.table = t
      BY <2>1, SMTT(30)
    <3>4. b.uid \in Uid
      BY DEF IInv, IsReservation
    <3>5. /\ \A q \in Player : remove_pending_proposal(table[t], p).pending_proposals[q]
                  = IF q = p THEN None ELSE table[t].pending_proposals[q]
          /\ remove_pending_proposal(table[t], p).cash = table[t].cash
          /\ remove_pending_proposal(table[t], p).playing_cash = table[t].playing_cash
      BY <3>2, <3>4, ProposalsAfter
    <3> QED BY <2>1, <3>1, <3>5
  <2>2. CASE ~\E b \in S : b.table = t
    <3>1. table'[t] = table[t]
      BY <1>1, <2>2 DEF Vacated
    <3> QED BY <2>2, <3>1
  <2> QED BY <2>1, <2>2, SMTT(30)
<1>4. RInv'
  <2>1. Freed(Proposals, p, S, Proposals')
    BY <1>3 DEF Freed, Proposals
  <2>2. Named(pending_buy_ins)
    BY ReservationsArePriced
  <2>3. /\ Holds(Proposals', pending_buy_ins \ S) /\ Distinct(pending_buy_ins \ S)
        /\ Placed(pending_buy_ins \ S) = Placed(pending_buy_ins) \ {<<p, b.uid>> : b \in S}
    <3> DEFINE A == pending_buy_ins
               props == Proposals
               news == Proposals'
    <3>1. Leaving(props, A, p, S, news)
      BY <2>1, <2>2 DEF RInv, Leaving
    <3> HIDE DEF A, props, news
    <3>2. Left(A, p, S, news)
      BY <3>1, ReservationsLeave
    <3> QED BY <3>2 DEF A, news, NamesOf, Left
  <2> QED BY <1>1, <2>3 DEF RInv
<1>5. IsFiniteSet(pending_buy_ins) /\ Priced(pending_buy_ins) /\ balance \in Money
  BY ReservationsArePriced DEF MInv
<1>6. IsFiniteSet(S) /\ Held(S) \in Nat
  BY <1>5, HeldAs
<1>7. IsFiniteSet(pending_buy_ins \ S) /\ Held(pending_buy_ins \ S) \in Nat
  <2>1. pending_buy_ins \ S \subseteq pending_buy_ins
    OBVIOUS
  <2> QED BY <1>5, <2>1, HeldAs
<1>8. Held(pending_buy_ins) = Held(S) + Held(pending_buy_ins \ S)
  BY <1>5, HeldSplit
<1>9. balance' = [balance EXCEPT ![p] = @ + Held(S)]
  BY <1>1, <1>6, HeldIsSum DEF Refunded
<1>10. balance' \in Money /\ Total(balance', Player) = Total(balance, Player) + Held(S)
  <2>1. Held(S) \in Int /\ balance[p] + Held(S) >= 0
    BY <1>5, <1>6, SMTT(30) DEF Money
  <2> QED BY <1>5, <1>9, <2>1, BalanceMoves
<1>11. SumOf(Purses(table'), Table) = SumOf(Purses(table), Table)
  BY <1>3, PursesStay
<1>12. MInv'
  <2> DEFINE h == -Held(S)
  <2>1. h \in Int /\ Held(S) \in Int /\ Held(pending_buy_ins \ S) = Held(pending_buy_ins) + h
    BY <1>6, <1>7, <1>8, SMTT(30)
  <2>2. SumOf(Purses(table), Table) = SumOf(Purses(table), Table) - (Held(S) + h)
    <3>1. SumOf(Purses(table), Table) \in Nat
      BY SumsAreNumbers
    <3> QED BY <1>6, <3>1, SMTT(30)
  <2> HIDE DEF h
  <2> QED BY <1>1, <1>7, <1>10, <1>11, <2>1, <2>2, MoneyMoves
<1> QED BY <1>4, <1>12, SMTT(30)

\* buy_in_reserving_cancel, buy_in_reserving_cancel_all, update_expired_pending_buy_in
LEMMA CancelsPay ==
    ASSUME IInv, IInv', RInv, MInv
    PROVE  /\ \A p \in Player, u \in Uid : buy_in_reserving_cancel(p, u) => RInv' /\ MInv'
           /\ \A p \in Player : buy_in_reserving_cancel_all(p) => RInv' /\ MInv'
           /\ \A b \in todo : update_expired_pending_buy_in(b) => RInv' /\ MInv'
<1>1. ASSUME NEW p \in Player, NEW u \in Uid, buy_in_reserving_cancel(p, u)
      PROVE  RInv' /\ MInv'
  <2>1. cancel_pending_buyin(p, Reservation(p, u)) /\ phase' = "operations"
    BY <1>1 DEF buy_in_reserving_cancel, Operating
  <2>2. Reservation(p, u) \subseteq pending_buy_ins /\ Owned(Reservation(p, u), p)
    BY DEF Reservation, Owned
  <2>3. ListIsCurrent'
    BY <2>1, SMTT(30) DEF ListIsCurrent
  <2> QED BY <2>1, <2>2, <2>3, CancelPays
<1>2. ASSUME NEW p \in Player, buy_in_reserving_cancel_all(p)
      PROVE  RInv' /\ MInv'
  <2> DEFINE S == {b \in pending_buy_ins : b.player = p}
  <2>1. cancel_pending_buyin(p, S) /\ phase' = "operations"
    BY <1>2 DEF buy_in_reserving_cancel_all, Operating
  <2>2. S \subseteq pending_buy_ins /\ Owned(S, p)
    BY DEF Owned
  <2>3. ListIsCurrent'
    BY <2>1, SMTT(30) DEF ListIsCurrent
  <2> HIDE DEF S
  <2> QED BY <2>1, <2>2, <2>3, CancelPays
<1>3. ASSUME NEW b \in todo, update_expired_pending_buy_in(b)
      PROVE  RInv' /\ MInv'
  <2> DEFINE p == b.player
             S == {b}
  <2>1. /\ cancel_pending_buyin(p, S) /\ phase = "expired reservations" /\ phase' = phase
        /\ todo' = todo \ {b}
    BY <1>3 DEF update_expired_pending_buy_in, Handles
  <2>2. todo \subseteq pending_buy_ins
    BY <2>1 DEF RInv, ListIsCurrent
  <2>3. S \subseteq pending_buy_ins /\ Owned(S, p) /\ p \in Player
    BY <2>2 DEF Owned, IInv, IsReservation
  <2>4. ListIsCurrent'
    <3>1. pending_buy_ins' = pending_buy_ins \ S
      BY <2>1 DEF cancel_pending_buyin
    <3>2. todo' \subseteq pending_buy_ins'
      BY <2>1, <2>2, <3>1
    <3> QED BY <2>1, <3>2 DEF ListIsCurrent
  <2> HIDE DEF S, p
  <2> QED BY <2>1, <2>3, <2>4, CancelPays
<1> QED BY <1>1, <1>2, <1>3

\* buy_in_reserving_resolve
LEMMA ResolvePays ==
    ASSUME IInv, IInv', RInv, MInv, NEW b \in pending_buy_ins, NEW t \in Table,
           buy_in_reserving_resolve(b, t)
    PROVE  RInv' /\ MInv'
<1> DEFINE p == b.player
           S == pending_buy_ins
           mid == remove_pending_proposal(table[t], p)
           sum == adjust_cash(mid, Only(p, b.amount))
           tb == alive_for_table(register_buy_in(sum, {p}))
<1>1. /\ table[t].pending_proposals[p] = b.uid /\ pending_buy_ins' = S \ {b}
      /\ table' = [table EXCEPT ![t] = tb] /\ measured' = measured \ {<<p, b.uid>>}
      /\ balance' = balance /\ pending_rake' = pending_rake /\ pending_fees' = pending_fees
      /\ phase' = phase /\ phase = "operations"
  BY DEF buy_in_reserving_resolve, Operating
<1>2. p \in Player /\ b.uid \in Uid /\ b.amount \in Nat /\ TInv(table[t]) /\ Shape(table[t])
  <2>1. Amount \subseteq Nat
    BY TablesAssumption
  <2> QED BY <2>1 DEF IInv, IsReservation, TInv
<1>3. b.table = t
  <2>1. Proposals[t][p] = b.uid
    BY <1>1 DEF Proposals
  <2>2. At(S, t, p, b.uid)
    <3>1. Holds(Proposals, S)
      BY DEF RInv
    <3> HIDE DEF p, S
    <3> QED BY <1>2, <2>1, <3>1, HoldsAt
  <2>3. PICK c \in S : c.player = p /\ c.uid = b.uid /\ c.table = t
    BY <2>2 DEF At
  <2>4. c = b
    BY <2>3, DistinctAt DEF RInv
  <2> QED BY <2>3, <2>4
<1>4. TInv(mid) /\ Cash(mid) = Cash(table[t])
      /\ \A q \in Player : mid.pending_proposals[q]
             = IF q = p THEN None ELSE table[t].pending_proposals[q]
  <2> HIDE DEF p
  <2>1. TInv(mid)
    BY <1>2, ProposalsChange DEF Good
  <2>2. /\ mid.cash = table[t].cash /\ mid.playing_cash = table[t].playing_cash
        /\ \A q \in Player : mid.pending_proposals[q]
               = IF q = p THEN None ELSE table[t].pending_proposals[q]
    BY <1>2, ProposalsAfter
  <2> QED BY <2>1, <2>2 DEF Cash
<1> HIDE DEF mid, p
<1>5. /\ Cash(sum) = Cash(mid) + b.amount /\ sum.pending_proposals = mid.pending_proposals
      /\ DOMAIN sum = TableFields
  <2>1. b.amount \in Int /\ mid.cash[p] + b.amount >= 0
    BY <1>2, <1>4, SMTT(30) DEF TInv, Shape, Money
  <2> QED BY <1>2, <1>4, <2>1, CashMoves
<1> HIDE DEF sum
<1>6. SamePurse(tb, sum)
  <2>1. /\ DOMAIN register_buy_in(sum, {p}) = TableFields
        /\ SamePurse(register_buy_in(sum, {p}), sum)
    BY <1>5, OtherFields
  <2>2. SamePurse(tb, register_buy_in(sum, {p}))
    BY <2>1, OtherFields
  <2> QED BY <2>1, <2>2 DEF SamePurse
<1> HIDE DEF tb
<1>7. Cash(tb) = Cash(table[t]) + b.amount /\ tb.pending_proposals = mid.pending_proposals
  BY <1>4, <1>5, <1>6 DEF SamePurse, Cash
<1>8. table'[t] = tb /\ \A u \in Table : u # t => table'[u] = table[u]
  BY <1>1 DEF IInv
<1>9. RInv'
  <2> DEFINE props == Proposals
             news == Proposals'
             R == {b}
  <2>1. Freed(props, p, R, news)
    <3> SUFFICES ASSUME NEW u \in Table, NEW q \in Player
                 PROVE  news[u][q] = IF q = p /\ (\E c \in R : c.table = u) THEN None
                                     ELSE props[u][q]
      BY DEF Freed
    <3>1. (\E c \in R : c.table = u) <=> u = t
      BY <1>3
    <3>2. CASE u = t
      BY <1>4, <1>7, <1>8, <3>1, <3>2 DEF Proposals
    <3>3. CASE u # t
      BY <1>8, <3>1, <3>3 DEF Proposals
    <3> QED BY <3>2, <3>3, SMTT(30)
  <2>2. Leaving(props, S, p, R, news)
    <3>1. R \subseteq S /\ Owned(R, p)
      BY DEF Owned, p
    <3>2. Named(S)
      BY ReservationsArePriced
    <3> HIDE DEF R
    <3> QED BY <2>1, <3>1, <3>2 DEF RInv, Leaving
  <2>3. NamesOf(R, p) = {<<p, b.uid>>}
    BY DEF NamesOf
  <2> HIDE DEF props, news, R, S
  <2>4. Left(S, p, R, news)
    BY <2>2, ReservationsLeave
  <2>5. ListIsCurrent'
    BY <1>1 DEF ListIsCurrent
  <2>6. measured = Placed(S)
    BY DEF RInv, S
  <2> QED BY <1>1, <2>3, <2>4, <2>5, <2>6 DEF RInv, Left, news, R
<1>10. IsFiniteSet(S) /\ Priced(S) /\ balance' \in Money
  BY <1>1, ReservationsArePriced DEF MInv
<1>11. IsFiniteSet(S \ {b}) /\ Held(S) = b.amount + Held(S \ {b}) /\ Held(S \ {b}) \in Nat
  <2>1. {b} \subseteq S /\ S \ {b} \subseteq S
    OBVIOUS
  <2>2. Held(S) = Held({b}) + Held(S \ {b})
    BY <1>10, <2>1, HeldSplit
  <2>3. Held({b}) = b.amount
    BY <1>2, HeldOne
  <2>4. IsFiniteSet(S \ {b}) /\ Held(S \ {b}) \in Nat
    BY <1>10, <2>1, HeldAs
  <2> QED BY <2>2, <2>3, <2>4
<1>12. SumOf(Purses(table'), Table) = SumOf(Purses(table), Table) + (Cash(tb) - Cash(table[t]))
  BY <1>1, PurseChanges
<1>13. MInv'
  <2> DEFINE h == -b.amount
             z == SumOf(Purses(table), Table)
             k == SumOf(Purses(table'), Table)
             c == Cash(table[t])
  <2>1. z \in Nat /\ c \in Nat /\ Total(balance, Player) \in Nat
    BY SumsAreNumbers, PursesAreNumbers
  <2>2. k = z + ((c + b.amount) - c)
    BY <1>7, <1>12
  <2> HIDE DEF z, c, k
  <2>3. h \in Int /\ 0 \in Int /\ k = z - (0 + h)
    BY <1>2, <2>1, <2>2, SMTT(30)
  <2>4. Held(S \ {b}) = Held(S) + h
    BY <1>2, <1>11, SMTT(30)
  <2>5. Total(balance', Player) = Total(balance, Player) + 0
    BY <1>1, <2>1, SMTT(30)
  <2>6. SumOf(Purses(table'), Table) = SumOf(Purses(table), Table) - (0 + h)
    BY <2>3 DEF k, z
  <2> HIDE DEF h
  <2> QED BY <1>1, <1>10, <1>11, <2>3, <2>4, <2>5, <2>6, MoneyMoves
<1> QED BY <1>9, <1>13

-----------------------------------------------------------------------------
(* Blocks.                                                                   *)

\* Reservations after a change of fields other than player, name, table and amount.
Aged(S, m) ==
    \A b \in S : /\ m[b].player = b.player /\ m[b].uid = b.uid
                 /\ m[b].table = b.table /\ m[b].amount = b.amount

\* Such a change moves neither places nor coins.
LEMMA ReservationsAge ==
    ASSUME NEW props, NEW S, Holds(props, S), Distinct(S), Priced(S), IsFiniteSet(S),
           NEW m, Aged(S, m)
    PROVE  /\ Holds(props, ImageOf(m, S)) /\ Distinct(ImageOf(m, S))
           /\ Placed(ImageOf(m, S)) = Placed(S) /\ IsFiniteSet(ImageOf(m, S))
           /\ Held(ImageOf(m, S)) = Held(S)
<1> DEFINE T == ImageOf(m, S)
<1>1. /\ \A b \in S : m[b] \in T
      /\ \A c \in T : \E b \in S : c = m[b]
  BY DEF ImageOf
<1>2. IsFiniteSet(T)
  BY FiniteImage
<1>3. \A x, y \in S : m[x] = m[y] => x = y
  <2> SUFFICES ASSUME NEW x \in S, NEW y \in S, m[x] = m[y] PROVE x = y
    OBVIOUS
  <2>1. x.player = y.player /\ x.uid = y.uid
    BY DEF Aged
  <2> QED BY <2>1, DistinctAt
<1> HIDE DEF T
<1>4. Distinct(T)
  <2> SUFFICES ASSUME NEW c \in T, NEW d \in T, c.player = d.player, c.uid = d.uid PROVE c = d
    BY DEF Distinct
  <2>1. PICK b \in S : c = m[b]
    BY <1>1
  <2>2. PICK e \in S : d = m[e]
    BY <1>1
  <2>3. b.player = e.player /\ b.uid = e.uid
    BY <2>1, <2>2 DEF Aged
  <2> QED BY <2>1, <2>2, <2>3, DistinctAt
<1>5. ASSUME NEW t, NEW p, NEW u PROVE At(T, t, p, u) <=> At(S, t, p, u)
  <2>1. ASSUME At(T, t, p, u) PROVE At(S, t, p, u)
    <3>1. PICK c \in T : c.player = p /\ c.uid = u /\ c.table = t
      BY <2>1 DEF At
    <3>2. PICK b \in S : c = m[b]
      BY <1>1
    <3> QED BY <3>1, <3>2 DEF At, Aged
  <2>2. ASSUME At(S, t, p, u) PROVE At(T, t, p, u)
    <3>1. PICK b \in S : b.player = p /\ b.uid = u /\ b.table = t
      BY <2>2 DEF At
    <3>2. m[b] \in T /\ m[b].player = p /\ m[b].uid = u /\ m[b].table = t
      BY <1>1, <3>1 DEF Aged
    <3> QED BY <3>2 DEF At
  <2> QED BY <2>1, <2>2, SMTT(30)
<1>6. Holds(props, T)
  BY <1>5 DEF Holds
<1>7. Placed(T) = Placed(S)
  <2>1. ASSUME NEW x \in Placed(T) PROVE x \in Placed(S)
    <3>1. PICK c \in T : c.table # NoTable /\ x = <<c.player, c.uid>>
      BY DEF Placed
    <3>2. PICK b \in S : c = m[b]
      BY <1>1
    <3>3. b.table # NoTable /\ x = <<b.player, b.uid>>
      BY <3>1, <3>2 DEF Aged
    <3> QED BY <3>3 DEF Placed
  <2>2. ASSUME NEW x \in Placed(S) PROVE x \in Placed(T)
    <3>1. PICK b \in S : b.table # NoTable /\ x = <<b.player, b.uid>>
      BY DEF Placed
    <3>2. m[b] \in T /\ m[b].table # NoTable /\ x = <<m[b].player, m[b].uid>>
      BY <1>1, <3>1 DEF Aged
    <3> QED BY <3>2 DEF Placed
  <2> QED BY <2>1, <2>2
<1>8. Held(T) = Held(S)
  <2> DEFINE f == Amounts(S)
             g == Amounts(T)
  <2>1. IntegerOn(f, S)
    BY HeldAs
  <2>2. \A x \in S : g[m[x]] = f[x]
    BY <1>1 DEF Amounts, Aged
  <2> HIDE DEF f, g
  <2>3. SumOf(g, ImageOf(m, S)) = SumOf(f, S)
    BY <1>3, <2>1, <2>2, SumImage, SMTT(30)
  <2> QED BY <2>3 DEF f, g, T, Held
<1> QED BY <1>2, <1>4, <1>6, <1>7, <1>8 DEF T

\* NewBlock
LEMMA BlockPays ==
    ASSUME IInv, IInv', RInv, MInv, NEW gap, NewBlock(gap)
    PROVE  RInv' /\ MInv'
<1> DEFINE S == pending_buy_ins
           m == [b \in S |-> [b EXCEPT !.expiration = Tick(@, gap)]]
<1>1. /\ phase' = "block" /\ balance' = balance /\ measured' = measured
      /\ pending_rake' = pending_rake /\ pending_fees' = pending_fees
      /\ table' = [t \in Table |-> TickTable(table[t], gap)]
  BY DEF NewBlock
<1>2. pending_buy_ins' = ImageOf(m, S)
  <2>1. ImageOf(m, S) = {[b EXCEPT !.expiration = Tick(@, gap)] : b \in S}
    BY DEF ImageOf
  <2> QED BY <2>1 DEF NewBlock
<1>3. Aged(S, m)
  <2> SUFFICES ASSUME NEW b \in S
               PROVE  /\ m[b].player = b.player /\ m[b].uid = b.uid
                      /\ m[b].table = b.table /\ m[b].amount = b.amount
    BY DEF Aged
  <2>1. IsReservation(b)
    BY DEF IInv
  <2>2. m[b] = [b EXCEPT !.expiration = Tick(@, gap)]
    OBVIOUS
  <2> HIDE DEF m
  <2> QED BY <2>1, <2>2 DEF IsReservation
<1>4. ASSUME NEW t \in Table PROVE SamePurse(table'[t], table[t])
  <2>1. DOMAIN table[t] = TableFields
    BY DEF IInv, TInv, Shape
  <2>2. table'[t] = TickTable(table[t], gap)
    BY <1>1
  <2>3. SamePurse(TickTable(table[t], gap), table[t])
    BY <2>1, SMTT(30) DEF SamePurse, TickTable, TableFields
  <2> QED BY <2>2, <2>3
<1>5. Proposals' = Proposals
  BY <1>4 DEF Proposals, SamePurse
<1>6. IsFiniteSet(S) /\ Priced(S) /\ Holds(Proposals, S) /\ Distinct(S) /\ measured = Placed(S)
  BY ReservationsArePriced DEF MInv, RInv
<1> HIDE DEF S, m
<1>7. /\ Holds(Proposals, ImageOf(m, S)) /\ Distinct(ImageOf(m, S))
      /\ Placed(ImageOf(m, S)) = Placed(S) /\ IsFiniteSet(ImageOf(m, S))
      /\ Held(ImageOf(m, S)) = Held(S)
  BY <1>3, <1>6, ReservationsAge
<1>8. ListIsCurrent'
  BY <1>1 DEF ListIsCurrent
<1>9. RInv'
  BY <1>1, <1>2, <1>5, <1>6, <1>7, <1>8 DEF RInv
<1>10. SumOf(Purses(table'), Table) = SumOf(Purses(table), Table)
  BY <1>4, PursesStay DEF SamePurse
<1>11. MInv'
  <2>1. Held(pending_buy_ins') = Held(pending_buy_ins) /\ IsFiniteSet(pending_buy_ins')
    BY <1>2, <1>7 DEF S
  <2> QED BY <1>1, <1>10, <2>1 DEF MInv
<1> QED BY <1>9, <1>11, SMTT(30)

\* process_block_tasks collects what is there.
LEMMA TasksPay ==
    ASSUME IInv, IInv', RInv, MInv, process_block_tasks
    PROVE  RInv' /\ MInv'
<1>1. UNCHANGED <<balance, table, pending_buy_ins, measured, pending_rake, pending_fees>>
  BY DEF process_block_tasks
<1>2. todo' \subseteq Collected(phase')
  BY WhatIsCollected
<1>3. ListIsCurrent'
  <2>1. phase' = "expired reservations" => todo' \subseteq pending_buy_ins
    BY <1>2 DEF Collected
  <2>2. phase' = "allocation" => todo' \subseteq Waiting(pending_buy_ins)
    BY <1>2 DEF Collected, Waiting
  <2>3. phase' \in {"scheduled votings", "expired votings", "expired games", "expired tables"}
           => todo' \subseteq Table
    BY <1>2 DEF Collected
  <2> QED BY <1>1, <2>1, <2>2, <2>3 DEF ListIsCurrent
<1>4. RInv'
  BY <1>1, <1>3 DEF RInv, Proposals
<1>5. MInv'
  BY <1>1 DEF MInv
<1> QED BY <1>4, <1>5, SMTT(30)

\* allocate_table
LEMMA AllocatePays ==
    ASSUME IInv, IInv', RInv, MInv, NEW b \in pending_buy_ins, b.table = NoTable, NEW t \in Table,
           allocate_table(b, t), pending_rake' = pending_rake, pending_fees' = pending_fees,
           phase = "allocation", phase' = phase, todo' = todo \ {b}
    PROVE  RInv' /\ MInv'
<1> DEFINE S == pending_buy_ins
           p == b.player
           old == Replaced(b, t)
           R == old \cup {b}
           A == S \ R
           new == [b EXCEPT !.table = t]
<1>1. /\ table' = [table EXCEPT ![t] = add_pending_proposal(table[t], p, b.uid)]
      /\ pending_buy_ins' = A \cup {new} /\ balance' = Refunded(p, old)
      /\ measured' = (measured \ {<<o.player, o.uid>> : o \in old}) \cup {<<p, b.uid>>}
  BY DEF allocate_table, Replaced
<1>2. /\ p \in Player /\ b.uid \in Uid /\ b.amount \in Nat
      /\ new.player = p /\ new.uid = b.uid /\ new.amount = b.amount /\ new.table = t
  <2>1. IsReservation(b)
    BY DEF IInv
  <2>2. Amount \subseteq Nat
    BY TablesAssumption
  <2> QED BY <2>1, <2>2, SMTT(30) DEF IsReservation
<1> HIDE DEF new
<1>3. \A o \in old : o \in S /\ o.player = p /\ o.uid # b.uid /\ o.table = t
  BY <1>2, ReplacedIsThere
<1>4. Shape(table[t])
  BY DEF IInv, TInv
<1>5. Reserving(table[t], p, b.uid, add_pending_proposal(table[t], p, b.uid))
  BY <1>2, <1>4, ProposalAdded
<1>6. /\ table'[t] = add_pending_proposal(table[t], p, b.uid)
      /\ \A u \in Table : u # t => table'[u] = table[u]
  BY <1>1 DEF IInv
<1>7. Given(Proposals, new, Proposals')
  <2> SUFFICES ASSUME NEW u \in Table, NEW q \in Player
               PROVE  Proposals'[u][q] = IF u = new.table /\ q = new.player THEN new.uid
                                         ELSE Proposals[u][q]
    BY DEF Given
  <2>1. CASE u = t
    BY <1>2, <1>5, <1>6, <2>1 DEF Proposals, Reserving
  <2>2. CASE u # t
    BY <1>2, <1>6, <2>2 DEF Proposals
  <2> QED BY <2>1, <2>2, SMTT(30)
<1>8. {<<o.player, o.uid>> : o \in old} = NamesOf(old, p)
  <2> HIDE DEF old
  <2> QED BY <1>3 DEF NamesOf
<1>9. /\ Holds(Proposals', A \cup {new}) /\ Distinct(A \cup {new}) /\ Fresh(A, new)
      /\ Placed(A \cup {new}) = (measured \ NamesOf(old, p)) \cup {<<p, b.uid>>}
  <2> DEFINE news == Proposals'
  <2>1. Moving(b, t, new, news)
    BY <1>2, <1>7 DEF Moving
  <2> HIDE DEF news
  <2>2. Moved(b, t, Others(b, t), new, news)
    BY <2>1, AllocationPlaces
  <2> QED BY <2>2 DEF Moved, Others, news
<1>10. ListIsCurrent'
  <2>1. todo \subseteq Waiting(S)
    BY DEF RInv, ListIsCurrent
  <2>2. todo' \subseteq Waiting(A \cup {new})
    <3> SUFFICES ASSUME NEW c \in todo, c # b PROVE c \in Waiting(A \cup {new})
      OBVIOUS
    <3>1. c \in S /\ c.table = NoTable
      BY <2>1 DEF Waiting
    <3>2. c \notin old
      BY <1>3, <3>1, NoTableIsNone
    <3> QED BY <3>1, <3>2 DEF Waiting
  <2> QED BY <1>1, <2>2 DEF ListIsCurrent
<1> HIDE DEF old
<1>11. RInv'
  BY <1>1, <1>8, <1>9, <1>10 DEF RInv
<1>12. IsFiniteSet(S) /\ Priced(S) /\ balance \in Money
  BY ReservationsArePriced DEF MInv
<1>13. old \subseteq S /\ R \subseteq S /\ A \subseteq S /\ b \notin old /\ new \notin A
  BY <1>3, <1>9 DEF Fresh
<1>14. /\ IsFiniteSet(old) /\ Priced(old) /\ Held(old) \in Nat
       /\ IsFiniteSet(A) /\ Priced(A) /\ Held(A) \in Nat
  BY <1>12, <1>13, HeldAs
<1>15. Held(R) = Held(old) + b.amount
  BY <1>2, <1>13, <1>14, HeldAdd
<1>16. Held(S) = Held(R) + Held(A)
  BY <1>12, <1>13, HeldSplit
<1>17. IsFiniteSet(A \cup {new}) /\ Held(A \cup {new}) = Held(A) + b.amount
  <2> HIDE DEF A
  <2> QED BY <1>2, <1>13, <1>14, HeldAdd
<1>18. balance' \in Money /\ Total(balance', Player) = Total(balance, Player) + Held(old)
  <2>1. balance' = [balance EXCEPT ![p] = @ + Held(old)]
    BY <1>1, <1>14, HeldIsSum DEF Refunded
  <2>2. Held(old) \in Int /\ balance[p] + Held(old) >= 0
    BY <1>2, <1>12, <1>14, SMTT(30) DEF Money
  <2> QED BY <1>2, <1>12, <2>1, <2>2, BalanceMoves
<1>19. SumOf(Purses(table'), Table) = SumOf(Purses(table), Table)
  <2>1. \A u \in Table : /\ table'[u].cash = table[u].cash
                         /\ table'[u].playing_cash = table[u].playing_cash
    BY <1>5, <1>6 DEF Reserving
  <2> QED BY <2>1, PursesStay
<1>20. MInv'
  <2> DEFINE h == -Held(old)
  <2>1. h \in Int /\ Held(old) \in Int /\ Held(A \cup {new}) = Held(S) + h
    <3> HIDE DEF A, R, S
    <3> QED BY <1>2, <1>14, <1>15, <1>16, <1>17, SMTT(30)
  <2>2. SumOf(Purses(table), Table) = SumOf(Purses(table), Table) - (Held(old) + h)
    <3>1. SumOf(Purses(table), Table) \in Nat
      BY SumsAreNumbers
    <3> QED BY <1>14, <3>1, SMTT(30)
  <2> HIDE DEF h, A
  <2> QED BY <1>1, <1>17, <1>18, <1>19, <2>1, <2>2, MoneyMoves
<1> QED BY <1>11, <1>20, SMTT(30)

\* allocation_of_vacancies
LEMMA AllocationPays ==
    ASSUME IInv, IInv', RInv, MInv, NEW b \in todo, allocation_of_vacancies(b)
    PROVE  RInv' /\ MInv'
<1>1. /\ phase = "allocation" /\ phase' = phase /\ todo' = todo \ {b}
      /\ pending_rake' = pending_rake /\ pending_fees' = pending_fees
  BY DEF allocation_of_vacancies, Handles
<1>2. b \in pending_buy_ins /\ b.table = NoTable
  BY <1>1 DEF RInv, ListIsCurrent, Waiting
<1>3. \/ UNCHANGED <<balance, table, pending_buy_ins, measured>>
      \/ \E t \in Table : allocate_table(b, t)
  BY DEF allocation_of_vacancies, FewestPlaces, Vacancies
<1>4. CASE UNCHANGED <<balance, table, pending_buy_ins, measured>>
  <2>1. MInv'
    BY <1>1, <1>4 DEF MInv
  <2>2. /\ todo' \subseteq todo
        /\ \A t \in Table : table'[t].pending_proposals = table[t].pending_proposals
    BY <1>1, <1>4
  <2>3. RInv'
    BY <1>1, <1>4, <2>2, PlacesUntouched
  <2> QED BY <2>1, <2>3, SMTT(30)
<1>5. ASSUME NEW t \in Table, allocate_table(b, t) PROVE RInv' /\ MInv'
  BY <1>1, <1>2, <1>5, AllocatePays
<1> QED BY <1>3, <1>4, <1>5

-----------------------------------------------------------------------------
(* The invariant.                                                            *)

JInv == IInv /\ RInv /\ MInv

\* At first everything is in the balances.
LEMMA InitMoney == Init => JInv
<1> SUFFICES ASSUME Init PROVE JInv
  OBVIOUS
<1>0. IInv
  BY InitTables
<1>1. /\ balance = [p \in Player |-> Wealth] /\ pending_buy_ins = {} /\ measured = {}
      /\ pending_rake = [t \in Table |-> 0] /\ pending_fees = NoCash /\ phase = "operations"
      /\ \A t \in Table : \E s \in Settings : table[t] = NewTable(s)
  BY DEF Init
<1>2. Wealth \in Nat /\ Cardinality(Player) \in Nat
  BY MoneyAssumption, FinitePlayer, FS_CardinalityType
<1>3. ASSUME NEW t \in Table
      PROVE  /\ Cash(table[t]) = 0 /\ \A p \in Player : table[t].pending_proposals[p] = None
  <2>1. PICK s \in Settings : table[t] = NewTable(s)
    BY <1>1
  <2>2. /\ table[t].cash = NoCash /\ table[t].playing_cash = NoCash
        /\ table[t].pending_proposals = [p \in Player |-> None]
    BY <2>1, SMTT(30) DEF NewTable
  <2>3. Cash(table[t]) = 0 + 0
    BY <2>2, TotalOfNothing DEF Cash
  <2>4. Cash(table[t]) = 0
    BY <2>3, SMTT(30)
  <2> QED BY <2>2, <2>4
<1>4. RInv
  <2>1. Holds(Proposals, {})
    <3> SUFFICES ASSUME NEW t \in Table, NEW p \in Player, NEW u \in Uid
                 PROVE  Proposals[t][p] = u <=> At({}, t, p, u)
      BY DEF Holds
    <3>1. Proposals[t][p] # u
      BY <1>3, NoneIsNoUid DEF Proposals
    <3> QED BY <3>1 DEF At
  <2>2. Distinct({}) /\ Placed({}) = {}
    BY DEF Distinct, Placed
  <2>3. ListIsCurrent
    BY <1>1, SMTT(30) DEF ListIsCurrent
  <2> QED BY <1>1, <2>1, <2>2, <2>3 DEF RInv
<1>5. Total(balance, Player) = Wealth * Cardinality(Player) /\ balance \in Money
  <2>1. \A p \in Player : balance[p] = Wealth
    BY <1>1
  <2>2. Wealth \in Int
    BY <1>2, SMTT(30)
  <2>3. SumOf(balance, Player) = Wealth * Cardinality(Player)
    BY <2>1, <2>2, FinitePlayer, SumConstant
  <2> QED BY <1>1, <1>2, <2>3, TotalIsSum DEF Money
<1>6. SumOf(Purses(table), Table) = 0 /\ SumOf(pending_rake, Table) = 0
  <2>1. \A t \in Table : Purses(table)[t] = 0 /\ pending_rake[t] = 0
    BY <1>1, <1>3 DEF Purses
  <2>2. 0 \in Int /\ Cardinality(Table) \in Nat
    BY FiniteTable, FS_CardinalityType, SMTT(30)
  <2>3. /\ SumOf(Purses(table), Table) = 0 * Cardinality(Table)
        /\ SumOf(pending_rake, Table) = 0 * Cardinality(Table)
    BY <2>1, <2>2, FiniteTable, SumConstant
  <2>4. 0 * Cardinality(Table) = 0
    BY <2>2, SMTT(30)
  <2> QED BY <2>3, <2>4
<1>7. Held(pending_buy_ins) = 0 /\ IsFiniteSet(pending_buy_ins)
  BY <1>1, HeldNothing, FS_EmptySet
<1>8. Total(pending_fees, Player) = 0 /\ pending_fees \in Money /\ pending_rake \in [Table -> Nat]
  <2>1. NoCash \in Money
    BY DEF NoCash, Money
  <2>2. 0 \in Nat
    OBVIOUS
  <2> QED BY <1>1, <2>1, <2>2, TotalOfNothing
<1>9. Total(balance, Player) + Held(pending_buy_ins) + SumOf(Purses(table), Table)
          + SumOf(pending_rake, Table) = Issued
  <2>1. Issued \in Int /\ Total(balance, Player) = Issued
    BY <1>2, <1>5, SMTT(30) DEF Issued
  <2> QED BY <1>6, <1>7, <2>1, SMTT(30)
<1>10. MInv
  BY <1>5, <1>6, <1>7, <1>8, <1>9 DEF MInv
<1> QED BY <1>0, <1>4, <1>10 DEF JInv

\* Every operation and every task.
LEMMA NextPays ==
    ASSUME IInv, IInv', RInv, MInv, Next
    PROVE  RInv' /\ MInv'
<1>1. CASE BuyInOperation
  BY <1>1, BuyInPays, BuyOutPays, ReservePays, CancelsPay, ResolvePays DEF BuyInOperation
<1>2. CASE TableOperation
  BY <1>2, VotePays, ResetPays, UpdatePays
     DEF TableOperation, game_start_playing_check, game_result_check
<1>3. CASE BlockStep
  <2>1. ASSUME NEW gap \in Gaps, NewBlock(gap) PROVE RInv' /\ MInv'
    BY <2>1, BlockPays
  <2>2. CASE process_block_tasks
    BY <2>2, TasksPay
  <2>3. ASSUME NEW t \in todo, update_scheduled_voting(t) \/ update_expired_table_voting(t)
                                  \/ update_expired_table_game(t) \/ update_expired_table_alive(t)
        PROVE  RInv' /\ MInv'
    <3>1. t \in Table
      BY <2>3 DEF update_scheduled_voting, update_expired_table_voting,
             update_expired_table_game, update_expired_table_alive, Handles, RInv, ListIsCurrent
    <3> QED BY <2>3, <3>1, DecisionPays, UpdatePays
  <2>4. ASSUME NEW b \in todo, update_expired_pending_buy_in(b) PROVE RInv' /\ MInv'
    BY <2>4, CancelsPay
  <2>5. ASSUME NEW tp \in todo, update_expired_buy_in(tp[1], tp[2]) PROVE RInv' /\ MInv'
    <3>1. tp[1] \in Table /\ tp[2] \in Player
      BY <2>5 DEF update_expired_buy_in, Handles, IInv
    <3> QED BY <2>5, <3>1, ExpiredBuyInPays
  <2>6. ASSUME NEW b \in todo, allocation_of_vacancies(b) PROVE RInv' /\ MInv'
    BY <2>6, AllocationPays
  <2> QED BY <1>3, <2>1, <2>2, <2>3, <2>4, <2>5, <2>6 DEF BlockStep
<1> QED BY <1>1, <1>2, <1>3 DEF Next

\* The invariant, for every step and every stuttering step.
LEMMA StepKeepsMoney == JInv /\ [Next]_vars => JInv'
<1> SUFFICES ASSUME JInv, [Next]_vars PROVE JInv'
  OBVIOUS
<1>1. IInv /\ RInv /\ MInv
  BY DEF JInv
<1>2. IInv'
  BY <1>1, StepKeepsTables
<1>3. CASE Next
  BY <1>1, <1>2, <1>3, NextPays DEF JInv
<1>4. CASE UNCHANGED vars
  <2>1. RInv' /\ MInv'
    BY <1>1, <1>4 DEF vars, RInv, MInv, Proposals, ListIsCurrent
  <2> QED BY <1>2, <2>1 DEF JInv
<1> QED BY <1>3, <1>4, SMTT(30)

-----------------------------------------------------------------------------
(* What the invariant says.                                                  *)

Coffer(t) == Total(table[t].cash, Player) + Total(table[t].playing_cash, Player) + pending_rake[t]

Coffers == [t \in Table |-> Coffer(t)]

\* Sums over the tables, as the recursion of MapThenSumSet computes them.
CofferSums(D, g) ==
    g = [s \in D |-> IF s = {} THEN 0 ELSE Coffer(Chosen(s)) + g[s \ {Chosen(s)}]]

\* Both recursions are the same on sets of tables.
LEMMA SameCoffers ==
    ASSUME NEW g
    PROVE  CofferSums(SUBSET Table, g) <=> Sums(Coffers, SUBSET Table, g)
<1> DEFINE one == [s \in SUBSET Table |->
                      IF s = {} THEN 0 ELSE Coffer(Chosen(s)) + g[s \ {Chosen(s)}]]
           two == [s \in SUBSET Table |->
                      IF s = {} THEN 0 ELSE Coffers[Chosen(s)] + g[s \ {Chosen(s)}]]
<1>1. ASSUME NEW s \in SUBSET Table, s # {} PROVE Coffers[Chosen(s)] = Coffer(Chosen(s))
  <2>1. Chosen(s) \in Table
    BY <1>1, ChosenIn
  <2> QED BY <2>1 DEF Coffers
<1>2. one = two
  BY <1>1
<1>3. (CofferSums(SUBSET Table, g) <=> g = one) /\ (Sums(Coffers, SUBSET Table, g) <=> g = two)
  BY DEF CofferSums, Sums
<1> HIDE DEF one, two
<1> QED BY <1>2, <1>3

\* The sum over the tables that MoneyIsConserved counts.
LEMMA CoffersAreSummed ==
    MapThenSumSet(LAMBDA t : Total(table[t].cash, Player)
                      + Total(table[t].playing_cash, Player) + pending_rake[t], Table)
        = SumOf(Coffers, Table)
<1> DEFINE g == CHOOSE g : CofferSums(SUBSET Table, g)
<1>1. PICK h : Sums(Coffers, SUBSET Table, h) /\ SumOf(Coffers, Table) = h[Table]
  BY FiniteTable, SumIsValue
<1>2. CofferSums(SUBSET Table, h)
  BY <1>1, SameCoffers
<1>3. CofferSums(SUBSET Table, g)
  BY <1>2
<1>4. MapThenSumSet(LAMBDA t : Total(table[t].cash, Player)
                        + Total(table[t].playing_cash, Player) + pending_rake[t], Table)
          = g[Table]
  BY DEF MapThenSumSet, MapThenFoldSet, CofferSums, Coffer, Chosen
<1> HIDE DEF g
<1>5. Sums(Coffers, SUBSET Table, g)
  BY <1>3, SameCoffers
<1>6. SameAt(g, h, Table)
  BY <1>1, <1>5, FiniteTable, SumsAgree
<1> QED BY <1>1, <1>4, <1>6 DEF SameAt

\* The money.
LEMMA MoneyIsThere == IInv /\ MInv => MoneyIsConserved
<1> SUFFICES ASSUME IInv, MInv PROVE MoneyIsConserved
  OBVIOUS
<1> DEFINE B == Total(balance, Player)
           H == Held(pending_buy_ins)
           P == SumOf(Purses(table), Table)
           R == SumOf(pending_rake, Table)
           C == SumOf(Coffers, Table)
<1>1. B + H + P + R = Issued /\ R = Total(pending_fees, Player) /\ IsFiniteSet(pending_buy_ins)
  BY DEF MInv
<1>2. B \in Int /\ H \in Int /\ P \in Int /\ R \in Int
  BY SumsAreNumbers, SMTT(30)
<1>3. C = P + R
  <2>1. IntegerOn(Purses(table), Table)
    BY PursesAreNumbers
  <2>2. IntegerOn(pending_rake, Table)
    BY SMTT(30) DEF IntegerOn, MInv
  <2>3. \A t \in Table : Coffers[t] = Purses(table)[t] + pending_rake[t]
    BY DEF Coffers, Coffer, Purses, Cash
  <2> DEFINE f == Purses(table)
  <2> HIDE DEF f
  <2> QED BY <2>1, <2>2, <2>3, FiniteTable, SumPlus, SMTT(30) DEF f
<1>4. MapThenSumSet(LAMBDA b : b.amount, pending_buy_ins) = H
  BY <1>1, HeldIsSum
<1>5. MapThenSumSet(LAMBDA t : Total(table[t].cash, Player)
                        + Total(table[t].playing_cash, Player) + pending_rake[t], Table) = C
  BY CoffersAreSummed
<1>6. MapThenSumSet(LAMBDA t : pending_rake[t], Table) = R
  BY DEF SumOf
<1>7. B + H + C = Issued
  <2> HIDE DEF B, H, P, R, C
  <2> QED BY <1>1, <1>2, <1>3, SMTT(30)
<1> HIDE DEF H, P, R, C
<1> QED BY <1>1, <1>4, <1>5, <1>6, <1>7 DEF MoneyIsConserved, Issued

\* The invariant holds in every state.
LEMMA MoneyInvariant == Spec => []JInv
BY InitMoney, StepKeepsMoney, PTL DEF Spec

\* A table's pending_proposals and the reservations that name the table stay the same, one
\* per player and name, with one waiting rating measurement each, whichever way
\* reservations come, move, are replaced, are taken up or expire.
THEOREM PlacesAreReserved == Spec => []ReservationsHoldPlaces
<1>1. JInv => ReservationsHoldPlaces
  BY PlacesAreHeld DEF JInv
<1> QED BY <1>1, MoneyInvariant, PTL

\* No operation and no task of a block makes or loses coins, and the rake that the rooms
\* are owed is what the players' pending fees record.
THEOREM MoneyIsNeverLost == Spec => []MoneyIsConserved
<1>1. JInv => MoneyIsConserved
  BY MoneyIsThere DEF JInv
<1> QED BY <1>1, MoneyInvariant, PTL
=============================================================================

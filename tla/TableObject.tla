---------------------------- MODULE TableObject ----------------------------
(***************************************************************************)
(* table_object: the money and the places of one poker table.  A map from  *)
(* players to assets is a function that is 0 where the map has no entry:   *)
(* the code erases an entry as soon as its amount falls below 1.           *)
(*                                                                         *)
(* The operations take a function of amounts, one per player, because the  *)
(* callers apply them to all players of a vote; the loops of the code      *)
(* touch each player once and independently of the others.                 *)
(***************************************************************************)
EXTENDS Integers, FiniteSets, FiniteSetsExt

CONSTANTS
    Player,     \* accounts registered as players
    Uid         \* names a player gives to place reservations

None == -1      \* no object, no reservation, or a time that never comes

NoCash == [p \in Player |-> 0]

Only(p, amount) == [q \in Player |-> IF q = p THEN amount ELSE 0]

Minus(f) == [p \in Player |-> -f[p]]

Plus(f, g) == [p \in Player |-> f[p] + g[p]]

\* f on the players in S, nothing elsewhere.
Part(f, S) == [p \in Player |-> IF p \in S THEN f[p] ELSE 0]

Players(f) == {p \in Player : f[p] > 0}

Total(f, S) == MapThenSumSet(LAMBDA p : f[p], S)

Smaller(a, b) == IF a < b THEN a ELSE b

-----------------------------------------------------------------------------
is_waiting_at_table(tb, p) == tb.cash[p] > 0

is_playing(tb, p) == tb.playing_cash[p] > 0

is_free(tb) == Players(tb.playing_cash) = {}

Reserved(tb) == {p \in Player : tb.pending_proposals[p] # None}

\* Adding to an entry, which is erased when less than 1 is left.
Adjusted(f, delta) ==
    [p \in Player |-> IF f[p] + delta[p] < 1 THEN 0 ELSE f[p] + delta[p]]

\* The change of occupied_places when the entries of f become those of g: a
\* player counts unless another map of the table has an entry for them.
PlacesTaken(f, g, elsewhere) ==
    Cardinality((Players(g) \ Players(f)) \ elsewhere)
        - Cardinality((Players(f) \ Players(g)) \ elsewhere)

adjust_cash_ignores_reservations(tb, delta) ==
    LET new == Adjusted(tb.cash, delta)
    IN  [tb EXCEPT !.cash = new,
                   !.occupied_places = @ + PlacesTaken(tb.cash, new,
                                             Players(tb.playing_cash))]

adjust_cash(tb, delta) ==
    LET new == Adjusted(tb.cash, delta)
    IN  [tb EXCEPT !.cash = new,
                   !.occupied_places = @ + PlacesTaken(tb.cash, new,
                                             Players(tb.playing_cash) \cup Reserved(tb))]

stake_takes_second_place(tb, delta) ==
    LET new == Adjusted(tb.playing_cash, delta)
    IN  [tb EXCEPT !.playing_cash = new,
                   !.occupied_places = @ + PlacesTaken(tb.playing_cash, new, Reserved(tb))]

adjust_playing_cash(tb, delta) ==
    LET new == Adjusted(tb.playing_cash, delta)
    IN  [tb EXCEPT !.playing_cash = new,
                   !.occupied_places = @ + PlacesTaken(tb.playing_cash, new,
                                             Players(tb.cash) \cup Reserved(tb))]

clear_cash(tb) ==
    [tb EXCEPT !.cash = NoCash,
               !.occupied_places = @ - Cardinality(Players(tb.cash) \
                    (Players(tb.playing_cash) \cup Reserved(tb)))]

clear_playing_cash(tb) ==
    [tb EXCEPT !.playing_cash = NoCash,
               !.occupied_places = @ - Cardinality(Players(tb.playing_cash) \
                    (Players(tb.cash) \cup Reserved(tb)))]

\* A reservation of the player that is already there is replaced.
add_pending_proposal(tb, p, uid) ==
    [tb EXCEPT !.pending_proposals[p] = uid,
               !.occupied_places = @ +
                    IF p \in Reserved(tb) \cup Players(tb.cash) \cup Players(tb.playing_cash)
                    THEN 0 ELSE 1]

remove_pending_proposal(tb, p) ==
    IF p \notin Reserved(tb) THEN tb
    ELSE [tb EXCEPT !.pending_proposals[p] = None,
                    !.occupied_places = @ -
                        IF p \in Players(tb.cash) \cup Players(tb.playing_cash)
                        THEN 0 ELSE 1]
=============================================================================

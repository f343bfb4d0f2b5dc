---------------------------- MODULE TableProofs -----------------------------
(***************************************************************************)
(* One table: its invariant, what the operators on it change, how games    *)
(* start, are settled and are called off, and what that does to money;     *)
(* for every number of players, tables, votes and amounts, every lifetime  *)
(* and every required percentage.                                          *)
(*                                                                         *)
(* The invariant is about one table at a time.  Two facts make it          *)
(* inductive: votes of either kind exist only while they can be applied,   *)
(* and a player with a pending buy-out has a stake.                        *)
(*                                                                         *)
(* A rollback, the start of a game and its settlement move coins between   *)
(* the balances, the cash, the stakes and the rake, and neither make nor   *)
(* lose any.  This is shown player by player first; Sums adds it up.       *)
(*                                                                         *)
(* The last section is about the votings by which the players of a table   *)
(* settle a game.                                                          *)
(***************************************************************************)
EXTENDS Tables, Consensus, Sums

\* Zenon proves the steps that name no other prover.
USE ZenonT(60)

TableFields ==
    {"pending_proposals", "cash", "playing_cash", "occupied_places", "game_expiration",
     "voted_witnesses", "settings", "buy_ins", "buy_outs", "voting", "pending_votes", "alive"}

VotingFields ==
    {"votes", "expiration", "scheduled", "allowed", "required_players", "required_witnesses",
     "voted_witnesses"}

Money == [Player -> Nat]

Shape(tb) ==
    /\ DOMAIN tb = TableFields
    /\ DOMAIN tb.voting = VotingFields
    /\ DOMAIN tb.pending_proposals = Player
    /\ tb.cash \in Money /\ tb.playing_cash \in Money /\ tb.buy_outs \in Money
    /\ tb.buy_ins \in [Player -> Int]

Counted(tb) ==
    tb.occupied_places =
        Cardinality(Players(tb.cash) \cup Players(tb.playing_cash) \cup Reserved(tb))

Registered(tb) ==
    \A p \in Player : tb.cash[p] + tb.playing_cash[p] > 0 => tb.buy_ins[p] # None

BuyOutsOfPlayers(tb) == \A p \in Player : tb.buy_outs[p] > 0 => is_playing(tb, p)

\* A vote that can be applied when the table is as it is.
Applicable(tb, c) ==
    IF is_free(tb) THEN c \in StartVotes ELSE c \in ResultVotes /\ validate_result(tb, c)

VotesAreApplicable(tb) ==
    /\ \A v \in DOMAIN tb.voting.votes : Applicable(tb, tb.voting.votes[v])
    /\ \A v \in DOMAIN tb.pending_votes : Applicable(tb, tb.pending_votes[v])
    /\ is_table_voting(tb) => DOMAIN tb.pending_votes = {}

TInv(tb) ==
    /\ Shape(tb) /\ Counted(tb) /\ Registered(tb) /\ BuyOutsOfPlayers(tb)
    /\ VotesAreApplicable(tb)

\* The stakes are as before or there are none.
Frozen(tb, new) ==
    ~is_free(tb) => new.playing_cash = tb.playing_cash \/ is_free(new)

IsReservation(b) ==
    /\ DOMAIN b = {"player", "uid", "amount", "metadata", "table", "expiration"}
    /\ b.player \in Player /\ b.uid \in Uid /\ b.amount \in Amount

IInv ==
    /\ DOMAIN table = Table
    /\ \A t \in Table : TInv(table[t])
    /\ \A b \in pending_buy_ins : IsReservation(b)
    /\ phase = "allocation" => \A b \in todo : IsReservation(b)
    /\ phase = "expired buy-ins" => todo \subseteq Table \X Player

-----------------------------------------------------------------------------
(* Sets of players and the places they take.                                 *)

\* Sets of players are finite.
LEMMA FinitePlayers ==
    ASSUME NEW S, S \subseteq Player
    PROVE  IsFiniteSet(S) /\ Cardinality(S) \in Nat
<1>1. IsFiniteSet(S)
  BY TablesAssumption, FS_Subset
<1> QED BY <1>1, FS_CardinalityType

\* The size of a union of disjoint sets of players.
LEMMA DisjointUnion ==
    ASSUME NEW S, S \subseteq Player, NEW T, T \subseteq Player, S \cap T = {}
    PROVE  Cardinality(S \cup T) = Cardinality(S) + Cardinality(T)
<1>1. IsFiniteSet(S) /\ IsFiniteSet(T) /\ Cardinality(S) \in Nat /\ Cardinality(T) \in Nat
  BY FinitePlayers
<1>2. Cardinality(S \cup T) = Cardinality(S) + Cardinality(T) - Cardinality(S \cap T)
  BY <1>1, FS_Union
<1>3. Cardinality(S \cap T) = 0
  BY FS_EmptySet
<1> QED BY <1>1, <1>2, <1>3, SMTT(30)

\* Counting cash, stakes and reservations in either order.
LEMMA CountedBy ==
    ASSUME NEW tb, NEW f, NEW g
    PROVE  /\ Players(f) \cup Players(g) \cup Reserved(tb)
                = Players(f) \cup (Players(g) \cup Reserved(tb))
           /\ Players(f) \cup Players(g) \cup Reserved(tb)
                = Players(g) \cup (Players(f) \cup Reserved(tb))
OBVIOUS

\* PlacesTaken is the change of the number of players who take a place: those who come
\* less those who go.
LEMMA PlacesAdd ==
    ASSUME NEW f, NEW g, NEW E, E \subseteq Player
    PROVE  Cardinality(Players(f) \cup E) + PlacesTaken(f, g, E) = Cardinality(Players(g) \cup E)
<1> DEFINE A == Players(f)
           B == Players(g)
<1>0. A \subseteq Player /\ B \subseteq Player
  BY DEF Players
<1> HIDE DEF A, B
<1> DEFINE U == A \cup B \cup E
           in == (B \ A) \ E
           out == (A \ B) \ E
<1>1. Cardinality(U) = Cardinality(A \cup E) + Cardinality(in)
  <2>1. U = (A \cup E) \cup in /\ (A \cup E) \cap in = {}
    OBVIOUS
  <2>2. A \cup E \subseteq Player /\ in \subseteq Player
    BY <1>0
  <2> HIDE DEF U, in
  <2> QED BY <2>1, <2>2, DisjointUnion
<1>2. Cardinality(U) = Cardinality(B \cup E) + Cardinality(out)
  <2>1. U = (B \cup E) \cup out /\ (B \cup E) \cap out = {}
    OBVIOUS
  <2>2. B \cup E \subseteq Player /\ out \subseteq Player
    BY <1>0
  <2> HIDE DEF U, out
  <2> QED BY <2>1, <2>2, DisjointUnion
<1>3. /\ Cardinality(A \cup E) \in Nat /\ Cardinality(B \cup E) \in Nat
      /\ Cardinality(in) \in Nat /\ Cardinality(out) \in Nat
  <2>1. A \cup E \subseteq Player /\ B \cup E \subseteq Player
    BY <1>0
  <2>2. in \subseteq Player /\ out \subseteq Player
    BY <1>0
  <2> HIDE DEF in, out
  <2> QED BY <2>1, <2>2, FinitePlayers
<1> DEFINE a == Cardinality(A \cup E)
           b == Cardinality(B \cup E)
           i == Cardinality(in)
           o == Cardinality(out)
<1>4. a + (i - o) = b
  <2>1. a + i = b + o
    BY <1>1, <1>2
  <2>2. a \in Nat /\ b \in Nat /\ i \in Nat /\ o \in Nat
    BY <1>3
  <2> HIDE DEF a, b, i, o
  <2> QED BY <2>1, <2>2, SMTT(30)
<1>5. PlacesTaken(f, g, E) = i - o
  BY DEF PlacesTaken, A, B
<1>6. Cardinality(A \cup E) + PlacesTaken(f, g, E) = Cardinality(B \cup E)
  BY <1>4, <1>5
<1> QED BY <1>6 DEF A, B

\* Entries do not become negative.
LEMMA AdjustedMoney ==
    ASSUME NEW f \in Money, NEW delta \in [Player -> Int]
    PROVE  Adjusted(f, delta) \in Money
BY SMTT(30) DEF Adjusted, Money

\* What Adjusted makes of one entry.
LEMMA AdjustedAt ==
    ASSUME NEW f \in Money, NEW d \in [Player -> Int], NEW p \in Player
    PROVE  /\ d[p] = 0 => Adjusted(f, d)[p] = f[p]
           /\ f[p] = 0 /\ d[p] <= 0 => Adjusted(f, d)[p] = 0
           /\ f[p] + d[p] >= 0 => Adjusted(f, d)[p] = f[p] + d[p]
           /\ d[p] <= 0 => Adjusted(f, d)[p] <= f[p]
<1>1. f[p] \in Nat /\ d[p] \in Int
  BY DEF Money
<1>2. Adjusted(f, d)[p] = IF f[p] + d[p] < 1 THEN 0 ELSE f[p] + d[p]
  BY DEF Adjusted
<1> QED BY <1>1, <1>2, SMTT(30)

-----------------------------------------------------------------------------
(* What the operators on tables change.                                      *)

\* The fields about votes and buy-ins are as before.
SameElsewhere(r, tb) ==
    /\ r.buy_ins = tb.buy_ins /\ r.buy_outs = tb.buy_outs
    /\ r.voting = tb.voting /\ r.pending_votes = tb.pending_votes

\* adjust_cash
LEMMA AdjustCash ==
    ASSUME NEW tb, Shape(tb), Counted(tb), NEW delta \in [Player -> Int]
    PROVE  LET r == adjust_cash(tb, delta)
           IN  /\ Shape(r) /\ Counted(r) /\ SameElsewhere(r, tb)
               /\ r.cash = Adjusted(tb.cash, delta)
               /\ r.playing_cash = tb.playing_cash
               /\ r.pending_proposals = tb.pending_proposals
<1> DEFINE r == adjust_cash(tb, delta)
           new == Adjusted(tb.cash, delta)
           E == Players(tb.playing_cash) \cup Reserved(tb)
<1>1. /\ DOMAIN r = TableFields
      /\ r.cash = new /\ r.playing_cash = tb.playing_cash
      /\ r.pending_proposals = tb.pending_proposals
      /\ r.occupied_places = tb.occupied_places + PlacesTaken(tb.cash, new, E)
      /\ SameElsewhere(r, tb)
  <2> HIDE DEF new, E
  <2> QED BY DEF adjust_cash, Shape, TableFields, SameElsewhere, new, E
<1>2. new \in Money
  BY AdjustedMoney DEF Shape
<1>3. Reserved(r) = Reserved(tb)
  BY <1>1 DEF Reserved
<1> HIDE DEF r, new
<1>4. Shape(r)
  BY <1>1, <1>2 DEF Shape, SameElsewhere
<1>5. Counted(r)
  <2>1. E \subseteq Player
    BY DEF Players, Reserved
  <2> HIDE DEF E
  <2>2. tb.occupied_places = Cardinality(Players(tb.cash) \cup E)
    BY CountedBy DEF Counted, E
  <2>3. r.occupied_places = Cardinality(Players(new) \cup E)
    BY <1>1, <2>1, <2>2, PlacesAdd, SMTT(30)
  <2> QED BY <1>1, <1>3, <2>3, CountedBy DEF Counted, E
<1> QED BY <1>1, <1>4, <1>5 DEF r, new

\* adjust_playing_cash
LEMMA AdjustPlayingCash ==
    ASSUME NEW tb, Shape(tb), Counted(tb), NEW delta \in [Player -> Int]
    PROVE  LET r == adjust_playing_cash(tb, delta)
           IN  /\ Shape(r) /\ Counted(r) /\ SameElsewhere(r, tb)
               /\ r.cash = tb.cash
               /\ r.playing_cash = Adjusted(tb.playing_cash, delta)
               /\ r.pending_proposals = tb.pending_proposals
<1> DEFINE r == adjust_playing_cash(tb, delta)
           new == Adjusted(tb.playing_cash, delta)
           E == Players(tb.cash) \cup Reserved(tb)
<1>1. /\ DOMAIN r = TableFields
      /\ r.cash = tb.cash /\ r.playing_cash = new
      /\ r.pending_proposals = tb.pending_proposals
      /\ r.occupied_places = tb.occupied_places + PlacesTaken(tb.playing_cash, new, E)
      /\ SameElsewhere(r, tb)
  <2> HIDE DEF new, E
  <2> QED BY DEF adjust_playing_cash, Shape, TableFields, SameElsewhere, new, E
<1>2. new \in Money
  BY AdjustedMoney DEF Shape
<1>3. Reserved(r) = Reserved(tb)
  BY <1>1 DEF Reserved
<1> HIDE DEF r, new
<1>4. Shape(r)
  BY <1>1, <1>2 DEF Shape, SameElsewhere
<1>5. Counted(r)
  <2>1. E \subseteq Player
    BY DEF Players, Reserved
  <2> HIDE DEF E
  <2>2. tb.occupied_places = Cardinality(Players(tb.playing_cash) \cup E)
    BY CountedBy DEF Counted, E
  <2>3. r.occupied_places = Cardinality(Players(new) \cup E)
    BY <1>1, <2>1, <2>2, PlacesAdd, SMTT(30)
  <2> QED BY <1>1, <1>3, <2>3, CountedBy DEF Counted, E
<1> QED BY <1>1, <1>4, <1>5 DEF r, new

\* Those who leave when a map is cleared.
LEMMA PlacesLeft ==
    ASSUME NEW f, NEW E, E \subseteq Player
    PROVE  PlacesTaken(f, NoCash, E) = -Cardinality(Players(f) \ E)
<1> DEFINE left == Players(f) \ E
<1>1. Players(NoCash) = {}
  BY SMTT(30) DEF Players, NoCash
<1>2. (Players(NoCash) \ Players(f)) \ E = {} /\ (Players(f) \ Players(NoCash)) \ E = left
  BY <1>1
<1>3. Cardinality({}) = 0
  BY FS_EmptySet
<1>4. left \subseteq Player
  BY DEF Players
<1> HIDE DEF left
<1>5. Cardinality(left) \in Nat
  BY <1>4, FinitePlayers
<1>6. PlacesTaken(f, NoCash, E) = 0 - Cardinality(left)
  BY <1>2, <1>3 DEF PlacesTaken
<1> QED BY <1>5, <1>6, SMTT(30) DEF left

\* clear_cash
LEMMA ClearCash ==
    ASSUME NEW tb, Shape(tb), Counted(tb)
    PROVE  LET r == clear_cash(tb)
           IN  /\ Shape(r) /\ Counted(r) /\ SameElsewhere(r, tb)
               /\ r.cash = NoCash /\ r.playing_cash = tb.playing_cash
<1> DEFINE r == clear_cash(tb)
           E == Players(tb.playing_cash) \cup Reserved(tb)
<1>1. /\ DOMAIN r = TableFields
      /\ r.cash = NoCash /\ r.playing_cash = tb.playing_cash
      /\ r.pending_proposals = tb.pending_proposals
      /\ r.occupied_places = tb.occupied_places - Cardinality(Players(tb.cash) \ E)
      /\ SameElsewhere(r, tb)
  <2> HIDE DEF E
  <2> QED BY DEF clear_cash, Shape, TableFields, SameElsewhere, E
<1>2. NoCash \in Money
  BY DEF NoCash, Money
<1>3. Reserved(r) = Reserved(tb)
  BY <1>1 DEF Reserved
<1> HIDE DEF r
<1>4. Shape(r)
  BY <1>1, <1>2 DEF Shape, SameElsewhere
<1>5. Counted(r)
  <2>1. E \subseteq Player /\ Players(tb.cash) \subseteq Player
    BY DEF Players, Reserved
  <2> HIDE DEF E
  <2>2. tb.occupied_places = Cardinality(Players(tb.cash) \cup E)
    BY CountedBy DEF Counted, E
  <2>3. /\ Cardinality(Players(tb.cash) \cup E) \in Nat
        /\ Cardinality(Players(tb.cash) \ E) \in Nat
    <3>1. Players(tb.cash) \cup E \subseteq Player /\ Players(tb.cash) \ E \subseteq Player
      BY <2>1
    <3> QED BY <3>1, FinitePlayers
  <2>4. r.occupied_places = tb.occupied_places + PlacesTaken(tb.cash, NoCash, E)
    BY <1>1, <2>1, <2>2, <2>3, PlacesLeft
  <2>5. r.occupied_places = Cardinality(Players(NoCash) \cup E)
    BY <2>1, <2>2, <2>4, PlacesAdd, SMTT(30)
  <2> QED BY <1>1, <1>3, <2>5, CountedBy DEF Counted, E
<1> QED BY <1>1, <1>4, <1>5 DEF r

\* clear_playing_cash
LEMMA ClearPlayingCash ==
    ASSUME NEW tb, Shape(tb), Counted(tb)
    PROVE  LET r == clear_playing_cash(tb)
           IN  /\ Shape(r) /\ Counted(r) /\ SameElsewhere(r, tb)
               /\ r.cash = tb.cash /\ r.playing_cash = NoCash
<1> DEFINE r == clear_playing_cash(tb)
           E == Players(tb.cash) \cup Reserved(tb)
<1>1. /\ DOMAIN r = TableFields
      /\ r.cash = tb.cash /\ r.playing_cash = NoCash
      /\ r.pending_proposals = tb.pending_proposals
      /\ r.occupied_places = tb.occupied_places - Cardinality(Players(tb.playing_cash) \ E)
      /\ SameElsewhere(r, tb)
  <2> HIDE DEF E
  <2> QED BY DEF clear_playing_cash, Shape, TableFields, SameElsewhere, E
<1>2. NoCash \in Money
  BY DEF NoCash, Money
<1>3. Reserved(r) = Reserved(tb)
  BY <1>1 DEF Reserved
<1> HIDE DEF r
<1>4. Shape(r)
  BY <1>1, <1>2 DEF Shape, SameElsewhere
<1>5. Counted(r)
  <2>1. E \subseteq Player /\ Players(tb.playing_cash) \subseteq Player
    BY DEF Players, Reserved
  <2> HIDE DEF E
  <2>2. tb.occupied_places = Cardinality(Players(tb.playing_cash) \cup E)
    BY CountedBy DEF Counted, E
  <2>3. /\ Cardinality(Players(tb.playing_cash) \cup E) \in Nat
        /\ Cardinality(Players(tb.playing_cash) \ E) \in Nat
    <3>1. /\ Players(tb.playing_cash) \cup E \subseteq Player
          /\ Players(tb.playing_cash) \ E \subseteq Player
      BY <2>1
    <3> QED BY <3>1, FinitePlayers
  <2>4. r.occupied_places = tb.occupied_places + PlacesTaken(tb.playing_cash, NoCash, E)
    BY <1>1, <2>1, <2>2, <2>3, PlacesLeft
  <2>5. r.occupied_places = Cardinality(Players(NoCash) \cup E)
    BY <2>1, <2>2, <2>4, PlacesAdd, SMTT(30)
  <2> QED BY <1>1, <1>3, <2>5, CountedBy DEF Counted, E
<1> QED BY <1>1, <1>4, <1>5 DEF r

\* add_pending_proposal
LEMMA AddProposal ==
    ASSUME NEW tb, Shape(tb), Counted(tb), NEW p \in Player, NEW uid \in Uid
    PROVE  LET r == add_pending_proposal(tb, p, uid)
           IN  /\ Shape(r) /\ Counted(r) /\ SameElsewhere(r, tb)
               /\ r.cash = tb.cash /\ r.playing_cash = tb.playing_cash
<1> DEFINE r == add_pending_proposal(tb, p, uid)
           here == Players(tb.cash) \cup Players(tb.playing_cash) \cup Reserved(tb)
<1>1. /\ DOMAIN r = TableFields /\ SameElsewhere(r, tb)
      /\ r.cash = tb.cash /\ r.playing_cash = tb.playing_cash
      /\ r.pending_proposals = [tb.pending_proposals EXCEPT ![p] = uid]
  BY DEF add_pending_proposal, Shape, TableFields, SameElsewhere
<1>2. r.occupied_places = tb.occupied_places + IF p \in here THEN 0 ELSE 1
  <2>1. p \in Reserved(tb) \cup Players(tb.cash) \cup Players(tb.playing_cash) <=> p \in here
    OBVIOUS
  <2> HIDE DEF here
  <2> QED BY <2>1 DEF add_pending_proposal, Shape, TableFields
<1>3. Reserved(r) = Reserved(tb) \cup {p}
  BY <1>1, TablesAssumption, SMTT(30) DEF Reserved, Shape
<1> HIDE DEF r
<1>4. Players(r.cash) \cup Players(r.playing_cash) \cup Reserved(r) = here \cup {p}
  BY <1>1, <1>3
<1>5. here \subseteq Player /\ tb.occupied_places = Cardinality(here)
  BY DEF Counted, Players, Reserved
<1> HIDE DEF here
<1>6. IsFiniteSet(here) /\ Cardinality(here) \in Nat
  BY <1>5, FinitePlayers
<1>7. Cardinality(here \cup {p}) = IF p \in here THEN Cardinality(here) ELSE Cardinality(here) + 1
  BY <1>6, FS_AddElement
<1>8. Counted(r)
  <2>1. r.occupied_places = Cardinality(here \cup {p})
    <3>1. CASE p \in here
      BY <1>2, <1>5, <1>6, <1>7, <3>1, SMTT(30)
    <3>2. CASE p \notin here
      BY <1>2, <1>5, <1>6, <1>7, <3>2
    <3> QED BY <3>1, <3>2
  <2> QED BY <1>4, <2>1 DEF Counted
<1>9. Shape(r)
  BY <1>1 DEF Shape, SameElsewhere
<1> QED BY <1>1, <1>8, <1>9 DEF r

\* remove_pending_proposal
LEMMA RemoveProposal ==
    ASSUME NEW tb, Shape(tb), Counted(tb), NEW p
    PROVE  LET r == remove_pending_proposal(tb, p)
           IN  /\ Shape(r) /\ Counted(r) /\ SameElsewhere(r, tb)
               /\ r.cash = tb.cash /\ r.playing_cash = tb.playing_cash
<1> DEFINE r == remove_pending_proposal(tb, p)
           seated == Players(tb.cash) \cup Players(tb.playing_cash)
           here == seated \cup Reserved(tb)
<1>0. CASE p \notin Reserved(tb)
  BY <1>0 DEF remove_pending_proposal, SameElsewhere
<1>a. CASE p \in Reserved(tb)
  <2>0. p \in Player
    BY <1>a DEF Reserved
  <2>1. /\ DOMAIN r = TableFields /\ SameElsewhere(r, tb)
        /\ r.cash = tb.cash /\ r.playing_cash = tb.playing_cash
        /\ r.pending_proposals = [tb.pending_proposals EXCEPT ![p] = None]
    BY <1>a DEF remove_pending_proposal, Shape, TableFields, SameElsewhere
  <2>2. r.occupied_places = tb.occupied_places - IF p \in seated THEN 0 ELSE 1
    <3> HIDE DEF seated
    <3> QED BY <1>a DEF remove_pending_proposal, Shape, TableFields, seated
  <2>3. Reserved(r) = Reserved(tb) \ {p}
    BY <2>0, <2>1 DEF Reserved, Shape
  <2> HIDE DEF r
  <2>4. Players(r.cash) \cup Players(r.playing_cash) \cup Reserved(r)
           = IF p \in seated THEN here ELSE here \ {p}
    BY <2>1, <2>3
  <2>5. p \in here /\ here \subseteq Player /\ tb.occupied_places = Cardinality(here)
    BY <1>a DEF Counted, Players, Reserved
  <2> HIDE DEF here, seated
  <2>6. IsFiniteSet(here) /\ Cardinality(here) \in Nat
    BY <2>5, FinitePlayers
  <2>7. Cardinality(here \ {p}) = Cardinality(here) - 1
    BY <2>5, <2>6, FS_RemoveElement
  <2>8. Counted(r)
    <3>1. CASE p \in seated
      <4>1. r.occupied_places = Cardinality(here)
        BY <2>2, <2>5, <2>6, <3>1, SMTT(30)
      <4> QED BY <2>4, <3>1, <4>1 DEF Counted
    <3>2. CASE p \notin seated
      <4>1. r.occupied_places = Cardinality(here \ {p})
        BY <2>2, <2>5, <2>6, <2>7, <3>2
      <4> QED BY <2>4, <3>2, <4>1 DEF Counted
    <3> QED BY <3>1, <3>2
  <2>9. Shape(r)
    BY <2>1 DEF Shape, SameElsewhere
  <2> QED BY <2>1, <2>8, <2>9 DEF r
<1> QED BY <1>0, <1>a

\* register_buy_in and alive_for_table
LEMMA RegisterBuyIn ==
    ASSUME NEW tb, Shape(tb), Counted(tb), NEW S
    PROVE  LET r == register_buy_in(tb, S)
           IN  /\ Shape(r) /\ Counted(r)
               /\ r.cash = tb.cash /\ r.playing_cash = tb.playing_cash
               /\ r.buy_outs = tb.buy_outs
               /\ r.voting = tb.voting /\ r.pending_votes = tb.pending_votes
               /\ \A p \in Player : r.buy_ins[p] = IF p \in S THEN BuyInLifetime ELSE tb.buy_ins[p]
<1> DEFINE r == register_buy_in(tb, S)
           new == [p \in Player |-> IF p \in S THEN BuyInLifetime ELSE tb.buy_ins[p]]
<1>1. /\ DOMAIN r = TableFields
      /\ r.cash = tb.cash /\ r.playing_cash = tb.playing_cash
      /\ r.pending_proposals = tb.pending_proposals /\ r.occupied_places = tb.occupied_places
      /\ r.buy_outs = tb.buy_outs /\ r.voting = tb.voting /\ r.pending_votes = tb.pending_votes
      /\ r.buy_ins = new
  BY DEF register_buy_in, Shape, TableFields
<1>2. new \in [Player -> Int]
  BY TablesAssumption DEF Shape
<1> HIDE DEF r
<1>3. Shape(r) /\ Counted(r)
  BY <1>1, <1>2 DEF Shape, Counted, Reserved
<1> QED BY <1>1, <1>3 DEF r

-----------------------------------------------------------------------------
(* Tables whose votes, or whose game, have ended.                            *)

\* Which votes are applicable depends on the stakes alone.
LEMMA StakesDecide ==
    ASSUME NEW tb, NEW r, r.playing_cash = tb.playing_cash
    PROVE  /\ is_free(r) <=> is_free(tb)
           /\ \A c : Applicable(r, c) <=> Applicable(tb, c)
BY DEF Applicable, is_free, validate_result, is_cancel

\* A change that leaves votes and stakes alone.
LEMMA VotesAndStakesKept ==
    ASSUME NEW tb, TInv(tb), NEW r, Shape(r), Counted(r), Registered(r), BuyOutsOfPlayers(r),
           r.playing_cash = tb.playing_cash, r.voting = tb.voting,
           r.pending_votes = tb.pending_votes
    PROVE  TInv(r) /\ Frozen(tb, r)
<1>1. VotesAreApplicable(r)
  BY StakesDecide, SMTT(30) DEF TInv, VotesAreApplicable, is_table_voting
<1> QED BY <1>1 DEF TInv, Frozen

\* A change of the cash or of the reservations, after which nobody has cash without a
\* buy-in object.
LEMMA CashChanged ==
    ASSUME NEW tb, TInv(tb), NEW r, Shape(r), Counted(r), SameElsewhere(r, tb),
           r.playing_cash = tb.playing_cash, Registered(r)
    PROVE  TInv(r) /\ Frozen(tb, r)
<1>1. BuyOutsOfPlayers(r)
  BY DEF TInv, BuyOutsOfPlayers, is_playing, SameElsewhere
<1> QED BY <1>1, VotesAndStakesKept DEF SameElsewhere

\* A table without votes.
LEMMA NoVotesLeft ==
    ASSUME NEW r, Shape(r), Counted(r), Registered(r), BuyOutsOfPlayers(r),
           r.voting = NoVoting, r.pending_votes = NoVotes
    PROVE  TInv(r)
<1>1. DOMAIN r.voting.votes = {} /\ DOMAIN r.pending_votes = {}
  BY SMTT(30) DEF NoVoting, NoVotes
<1>2. VotesAreApplicable(r)
  BY <1>1 DEF VotesAreApplicable
<1> QED BY <1>2 DEF TInv

WorldFields == {"tb", "balance", "rake", "fees"}

\* The parts of a pending buy-out are amounts, and the part taken from the result is not
\* more than what is left to the player.
LEMMA TakesAreMoney ==
    ASSUME NEW tb, Shape(tb), NEW who, NEW left \in Money
    PROVE  LET take == BuyOutTakes(tb, who, left)
           IN  /\ take.result \in Money /\ take.cash \in Money /\ take.stake \in Money
               /\ \A p \in Player : take.result[p] <= left[p]
<1> DEFINE fromResult == [p \in Player |->
                             IF p \in who THEN Smaller(left[p], tb.buy_outs[p]) ELSE 0]
           fromCash == [p \in Player |-> Smaller(tb.cash[p], tb.buy_outs[p] - fromResult[p])]
           fromStake == [p \in Player |->
                            IF p \in who THEN 0
                            ELSE Smaller(tb.playing_cash[p], tb.buy_outs[p] - fromCash[p])]
           take == BuyOutTakes(tb, who, left)
<1>1. take = [result |-> fromResult, cash |-> fromCash, stake |-> fromStake]
  BY DEF BuyOutTakes
<1>0. \A p \in Player : /\ left[p] \in Nat /\ tb.buy_outs[p] \in Nat
                        /\ tb.cash[p] \in Nat /\ tb.playing_cash[p] \in Nat
  BY DEF Shape, Money
<1>2. ASSUME NEW p \in Player
      PROVE  /\ fromResult[p] \in Nat /\ fromResult[p] <= left[p]
             /\ fromResult[p] <= tb.buy_outs[p]
  BY <1>0, SMTT(30) DEF Smaller
<1>3. fromResult \in Money
  BY <1>2 DEF Money
<1> HIDE DEF fromResult
<1>4. ASSUME NEW p \in Player
      PROVE  fromCash[p] \in Nat /\ (p \notin who => fromCash[p] <= tb.buy_outs[p])
  BY <1>0, <1>2, SMTT(30) DEF Smaller
<1>5. fromCash \in Money
  BY <1>4 DEF Money
<1> HIDE DEF fromCash
<1>6. ASSUME NEW p \in Player PROVE fromStake[p] \in Nat
  BY <1>0, <1>4, SMTT(30) DEF Smaller
<1>7. fromStake \in Money
  BY <1>6 DEF Money
<1> HIDE DEF fromStake, take
<1> QED BY <1>1, <1>2, <1>3, <1>5, <1>7, SMTT(30) DEF take

\* Taking an amount away.
LEMMA Less ==
    ASSUME NEW f \in Money, NEW take \in Money
    PROVE  /\ Minus(take) \in [Player -> Int]
           /\ \A p \in Player : Adjusted(f, Minus(take))[p] <= f[p]
BY SMTT(30) DEF Money, Minus, Adjusted

\* pending_buyouts_resolve: money only leaves the table, and no buy-out is left.
LEMMA BuyOutsResolved ==
    ASSUME NEW w, DOMAIN w = WorldFields, Shape(w.tb), Counted(w.tb), NEW who, NEW left \in Money
    PROVE  LET r == pending_buyouts_resolve(w, who, left)
           IN  /\ DOMAIN r = WorldFields
               /\ Shape(r.tb) /\ Counted(r.tb) /\ r.tb.buy_outs = NoCash
               /\ r.tb.buy_ins = w.tb.buy_ins
               /\ r.tb.voting = w.tb.voting /\ r.tb.pending_votes = w.tb.pending_votes
               /\ \A p \in Player : /\ r.tb.cash[p] <= w.tb.cash[p]
                                    /\ r.tb.playing_cash[p] <= w.tb.playing_cash[p]
<1> DEFINE take == BuyOutTakes(w.tb, who, left)
           tb1 == adjust_cash(w.tb, Minus(take.cash))
           tb2 == adjust_playing_cash(tb1, Minus(take.stake))
           tb3 == [tb2 EXCEPT !.buy_outs = NoCash]
           r == pending_buyouts_resolve(w, who, left)
<1>1. take.cash \in Money /\ take.stake \in Money
  BY TakesAreMoney
<1>2. DOMAIN r = WorldFields /\ r.tb = tb3
  <2> HIDE DEF tb3
  <2> QED BY DEF pending_buyouts_resolve, WorldFields, tb3
<1> HIDE DEF take
<1>3. /\ Shape(tb1) /\ Counted(tb1) /\ SameElsewhere(tb1, w.tb)
      /\ tb1.cash = Adjusted(w.tb.cash, Minus(take.cash))
      /\ tb1.playing_cash = w.tb.playing_cash
  BY <1>1, Less, AdjustCash
<1>4. w.tb.cash \in Money /\ w.tb.playing_cash \in Money
  BY DEF Shape
<1> HIDE DEF tb1
<1>5. /\ Shape(tb2) /\ Counted(tb2) /\ SameElsewhere(tb2, tb1)
      /\ tb2.cash = tb1.cash
      /\ tb2.playing_cash = Adjusted(tb1.playing_cash, Minus(take.stake))
  BY <1>1, <1>3, Less, AdjustPlayingCash
<1> HIDE DEF tb2
<1>6. \A p \in Player : /\ tb2.cash[p] <= w.tb.cash[p]
                        /\ tb2.playing_cash[p] <= w.tb.playing_cash[p]
  BY <1>1, <1>3, <1>4, <1>5, Less
<1>7. /\ DOMAIN tb3 = TableFields /\ tb3.buy_outs = NoCash
      /\ tb3.cash = tb2.cash /\ tb3.playing_cash = tb2.playing_cash
      /\ tb3.pending_proposals = tb2.pending_proposals
      /\ tb3.occupied_places = tb2.occupied_places /\ tb3.buy_ins = tb2.buy_ins
      /\ tb3.voting = tb2.voting /\ tb3.pending_votes = tb2.pending_votes
  BY <1>5 DEF Shape, TableFields
<1>8. NoCash \in Money
  BY DEF NoCash, Money
<1> HIDE DEF tb3, r
<1>9. Shape(tb3) /\ Counted(tb3)
  BY <1>5, <1>7, <1>8 DEF Shape, Counted, Reserved
<1> QED BY <1>2, <1>3, <1>5, <1>6, <1>7, <1>9 DEF r, SameElsewhere

\* rollback: the game and its votes are over, and whoever got a stake back as cash has a
\* buy-in object.
LEMMA RollbackEnds ==
    ASSUME NEW w, DOMAIN w = WorldFields, Shape(w.tb), Counted(w.tb), Registered(w.tb),
           NEW full \in BOOLEAN
    PROVE  LET r == rollback(w, full)
           IN  /\ DOMAIN r = WorldFields /\ TInv(r.tb) /\ is_free(r.tb)
               /\ r.tb.voting = NoVoting
<1> DEFINE w1 == pending_buyouts_resolve(w, {}, NoCash)
           tbf == clear_cash(clear_playing_cash(w1.tb))
           tbn == clear_playing_cash(adjust_cash(w1.tb, w1.tb.playing_cash))
           tb == IF full THEN tbf ELSE tbn
           back == Players(w.tb.playing_cash) \cap Players(tb.cash)
           registered == IF full THEN [tb EXCEPT !.buy_ins = [p \in Player |-> None]]
                         ELSE register_buy_in(tb, back)
           final == [registered EXCEPT !.game_expiration = None,
                                       !.pending_votes = NoVotes,
                                       !.voting = NoVoting]
           r == rollback(w, full)
<1>1. NoCash \in Money
  BY DEF NoCash, Money
<1>2. /\ DOMAIN w1 = WorldFields /\ Shape(w1.tb) /\ Counted(w1.tb)
      /\ w1.tb.buy_outs = NoCash /\ w1.tb.buy_ins = w.tb.buy_ins
      /\ \A p \in Player : /\ w1.tb.cash[p] <= w.tb.cash[p]
                           /\ w1.tb.playing_cash[p] <= w.tb.playing_cash[p]
  BY <1>1, BuyOutsResolved
<1>3. DOMAIN r = WorldFields /\ r.tb = final
  <2> HIDE DEF final
  <2>1. r = [w1 EXCEPT !.balance = IF full THEN Plus(@, Plus(w1.tb.playing_cash, w1.tb.cash))
                                   ELSE @,
                       !.tb = final]
    BY DEF rollback, final
  <2> HIDE DEF r, w1
  <2> QED BY <1>2, <2>1 DEF WorldFields
<1> HIDE DEF w1
<1>4. /\ Shape(tb) /\ Counted(tb) /\ tb.buy_outs = NoCash /\ tb.playing_cash = NoCash
      /\ tb.buy_ins = w.tb.buy_ins
      /\ tb.cash = IF full THEN NoCash ELSE Adjusted(w1.tb.cash, w1.tb.playing_cash)
  <2>1. CASE full
    <3> DEFINE tb0 == clear_playing_cash(w1.tb)
    <3>1. Shape(tb0) /\ Counted(tb0) /\ SameElsewhere(tb0, w1.tb) /\ tb0.playing_cash = NoCash
      BY <1>2, ClearPlayingCash
    <3> HIDE DEF tb0
    <3>2. /\ Shape(clear_cash(tb0)) /\ Counted(clear_cash(tb0))
          /\ SameElsewhere(clear_cash(tb0), tb0)
          /\ clear_cash(tb0).cash = NoCash /\ clear_cash(tb0).playing_cash = tb0.playing_cash
      BY <3>1, ClearCash
    <3>3. tb = clear_cash(tb0)
      BY <2>1 DEF tb0
    <3> HIDE DEF tb
    <3> QED BY <1>2, <2>1, <3>1, <3>2, <3>3 DEF SameElsewhere
  <2>2. CASE ~full
    <3> DEFINE tb0 == adjust_cash(w1.tb, w1.tb.playing_cash)
    <3>0. w1.tb.playing_cash \in [Player -> Int]
      BY <1>2, SMTT(30) DEF Shape, Money
    <3>1. /\ Shape(tb0) /\ Counted(tb0) /\ SameElsewhere(tb0, w1.tb)
          /\ tb0.cash = Adjusted(w1.tb.cash, w1.tb.playing_cash)
      BY <1>2, <3>0, AdjustCash
    <3> HIDE DEF tb0
    <3>2. /\ Shape(clear_playing_cash(tb0)) /\ Counted(clear_playing_cash(tb0))
          /\ SameElsewhere(clear_playing_cash(tb0), tb0)
          /\ clear_playing_cash(tb0).cash = tb0.cash
          /\ clear_playing_cash(tb0).playing_cash = NoCash
      BY <3>1, ClearPlayingCash
    <3>3. tb = clear_playing_cash(tb0)
      BY <2>2 DEF tb0
    <3> HIDE DEF tb
    <3> QED BY <1>2, <2>2, <3>1, <3>2, <3>3 DEF SameElsewhere
  <2> QED BY <2>1, <2>2
<1> HIDE DEF tb, back
<1>5. /\ Shape(registered) /\ Counted(registered)
      /\ registered.cash = tb.cash /\ registered.playing_cash = NoCash
      /\ registered.buy_outs = NoCash
      /\ ~full => \A p \in Player : registered.buy_ins[p] =
                      IF p \in back THEN BuyInLifetime ELSE w.tb.buy_ins[p]
  <2>1. CASE full
    <3>1. registered = [tb EXCEPT !.buy_ins = [p \in Player |-> None]]
      BY <2>1
    <3>2. /\ DOMAIN registered = TableFields
          /\ registered.buy_ins = [p \in Player |-> None]
          /\ registered.cash = tb.cash /\ registered.playing_cash = tb.playing_cash
          /\ registered.buy_outs = tb.buy_outs
          /\ registered.pending_proposals = tb.pending_proposals
          /\ registered.occupied_places = tb.occupied_places
          /\ registered.voting = tb.voting
      <4> HIDE DEF registered
      <4> QED BY <1>4, <3>1 DEF Shape, TableFields
    <3> HIDE DEF registered
    <3>3. registered.buy_ins \in [Player -> Int]
      BY <3>2, SMTT(30) DEF None
    <3> QED BY <1>4, <2>1, <3>2, <3>3 DEF Shape, Counted, Reserved
  <2>2. CASE ~full
    <3>1. registered = register_buy_in(tb, back)
      BY <2>2
    <3> HIDE DEF registered
    <3> QED BY <1>4, <2>2, <3>1, RegisterBuyIn, SMTT(30)
  <2> QED BY <2>1, <2>2
<1> HIDE DEF registered
<1>6. /\ DOMAIN final = TableFields
      /\ final.cash = tb.cash /\ final.playing_cash = NoCash
      /\ final.buy_outs = NoCash /\ final.buy_ins = registered.buy_ins
      /\ final.pending_proposals = registered.pending_proposals
      /\ final.occupied_places = registered.occupied_places
      /\ final.voting = NoVoting /\ final.pending_votes = NoVotes
  BY <1>5 DEF Shape, TableFields
<1> HIDE DEF final, r
<1>7. DOMAIN NoVoting = VotingFields
  BY DEF NoVoting, VotingFields
<1>8. Shape(final) /\ Counted(final)
  BY <1>1, <1>5, <1>6, <1>7 DEF Shape, Counted, Reserved
<1>9. Registered(final)
  <2> SUFFICES ASSUME NEW p \in Player, final.cash[p] + final.playing_cash[p] > 0
               PROVE  final.buy_ins[p] # None
    BY DEF Registered
  <2>1. final.playing_cash[p] = 0
    BY <1>6 DEF NoCash
  <2>2. tb.cash[p] > 0
    BY <1>4, <1>6, <2>1, SMTT(30) DEF Shape, Money
  <2>3. ~full
    BY <1>4, <2>2, SMTT(30) DEF NoCash
  <2>4. /\ w1.tb.cash[p] \in Nat /\ w1.tb.playing_cash[p] \in Nat
        /\ w.tb.cash[p] \in Nat /\ w.tb.playing_cash[p] \in Nat
    BY <1>2 DEF Shape, Money
  <2>5. w1.tb.cash[p] + w1.tb.playing_cash[p] > 0
    BY <1>4, <2>2, <2>3, <2>4, SMTT(30) DEF Adjusted
  <2>6. w.tb.cash[p] + w.tb.playing_cash[p] > 0
    BY <1>2, <2>4, <2>5, SMTT(30)
  <2>7. w.tb.buy_ins[p] # None
    BY <2>6 DEF Registered
  <2> QED BY <1>5, <1>6, <2>3, <2>7, TablesAssumption
<1>10. BuyOutsOfPlayers(final)
  BY <1>6, SMTT(30) DEF BuyOutsOfPlayers, NoCash
<1>11. is_free(final)
  BY <1>6, SMTT(30) DEF is_free, Players, NoCash
<1> QED BY <1>3, <1>6, <1>8, <1>9, <1>10, <1>11, NoVotesLeft DEF r

\* Settle: a result that balances ends the game.  The players of the result have a stake,
\* so that everyone who ends up with cash had a buy-in object or gets one.
LEMMA SettleEnds ==
    ASSUME NEW w, DOMAIN w = WorldFields, Shape(w.tb), Counted(w.tb), Registered(w.tb),
           NEW vote, vote.cash \in Money, vote.who \subseteq Players(w.tb.playing_cash)
    PROVE  LET r == Settle(w, vote)
           IN  /\ DOMAIN r = WorldFields
               /\ Shape(r.tb) /\ Counted(r.tb) /\ Registered(r.tb) /\ BuyOutsOfPlayers(r.tb)
               /\ is_free(r.tb)
               /\ r.tb.voting = w.tb.voting /\ r.tb.pending_votes = w.tb.pending_votes
<1> DEFINE left == Part(vote.cash, vote.who)
           w1 == pending_buyouts_resolve(w, vote.who, left)
           result == BuyOutTakes(w.tb, vote.who, left).result
           out == Plus(left, Minus(result))
           lost == Minus(Part(w1.tb.playing_cash, vote.who))
           tba == adjust_cash(w1.tb, out)
           tb1 == adjust_playing_cash(tba, lost)
           tbb == adjust_playing_cash(tb1, Minus(tb1.playing_cash))
           tb2 == adjust_cash(tbb, tb1.playing_cash)
           tb3 == [tb2 EXCEPT !.game_expiration = None, !.voted_witnesses = {}]
           back == Players(w.tb.playing_cash) \cap Players(tb2.cash)
           final == register_buy_in(tb3, back)
           rake == Part(vote.rake, vote.who)
           r == Settle(w, vote)
<1>1. left \in Money /\ \A p \in Player : p \notin vote.who => left[p] = 0
  BY DEF Part, Money
<1>2. /\ DOMAIN w1 = WorldFields /\ Shape(w1.tb) /\ Counted(w1.tb)
      /\ w1.tb.buy_outs = NoCash /\ w1.tb.buy_ins = w.tb.buy_ins
      /\ w1.tb.voting = w.tb.voting /\ w1.tb.pending_votes = w.tb.pending_votes
      /\ \A p \in Player : /\ w1.tb.cash[p] <= w.tb.cash[p]
                           /\ w1.tb.playing_cash[p] <= w.tb.playing_cash[p]
  BY <1>1, BuyOutsResolved, SMTT(30)
<1>3. result \in Money /\ \A p \in Player : result[p] <= left[p]
  BY <1>1, TakesAreMoney
<1>4. DOMAIN r = WorldFields /\ r.tb = final
  <2> HIDE DEF final
  <2>1. r = [w1 EXCEPT !.rake = @ + Total(rake, Player), !.fees = Plus(@, rake), !.tb = final]
    BY DEF Settle, final
  <2> HIDE DEF r, w1, rake
  <2> QED BY <1>2, <2>1 DEF WorldFields
<1> HIDE DEF w1, result, left
<1>5. /\ out \in [Player -> Int]
      /\ \A p \in Player : p \notin vote.who => out[p] = 0
  BY <1>1, <1>3, SMTT(30) DEF Money, Plus, Minus
<1> HIDE DEF out
<1>6. /\ Shape(tba) /\ Counted(tba) /\ SameElsewhere(tba, w1.tb)
      /\ tba.cash = Adjusted(w1.tb.cash, out) /\ tba.playing_cash = w1.tb.playing_cash
  BY <1>2, <1>5, AdjustCash
<1> HIDE DEF tba
<1>7. Part(w1.tb.playing_cash, vote.who) \in Money
  BY <1>2 DEF Shape, Money, Part
<1>8. lost \in [Player -> Int] /\ \A p \in Player : lost[p] <= 0
  BY <1>7, SMTT(30) DEF Minus, Money
<1> HIDE DEF lost
<1>9. /\ Shape(tb1) /\ Counted(tb1) /\ SameElsewhere(tb1, tba) /\ tb1.cash = tba.cash
      /\ tb1.playing_cash = Adjusted(tba.playing_cash, lost)
  BY <1>6, <1>8, AdjustPlayingCash
<1> HIDE DEF tb1
<1>10. tb1.playing_cash \in Money /\ tb1.playing_cash \in [Player -> Int]
  BY <1>9, SMTT(30) DEF Shape, Money
<1>11. /\ Shape(tbb) /\ Counted(tbb) /\ SameElsewhere(tbb, tb1) /\ tbb.cash = tb1.cash
       /\ tbb.playing_cash = Adjusted(tb1.playing_cash, Minus(tb1.playing_cash))
  BY <1>9, <1>10, Less, AdjustPlayingCash
<1> HIDE DEF tbb
<1>12. \A p \in Player : tbb.playing_cash[p] = 0
  BY <1>10, <1>11, SMTT(30) DEF Adjusted, Minus, Money
<1>13. /\ Shape(tb2) /\ Counted(tb2) /\ SameElsewhere(tb2, tbb)
       /\ tb2.cash = Adjusted(tbb.cash, tb1.playing_cash)
       /\ tb2.playing_cash = tbb.playing_cash
  BY <1>10, <1>11, AdjustCash
<1> HIDE DEF tb2, back
<1>14. /\ DOMAIN tb3 = TableFields
       /\ tb3.cash = tb2.cash /\ tb3.playing_cash = tb2.playing_cash
       /\ tb3.pending_proposals = tb2.pending_proposals
       /\ tb3.occupied_places = tb2.occupied_places
       /\ SameElsewhere(tb3, tb2)
  BY <1>13 DEF Shape, TableFields, SameElsewhere
<1> HIDE DEF tb3
<1>15. Shape(tb3) /\ Counted(tb3)
  BY <1>13, <1>14 DEF Shape, Counted, Reserved, SameElsewhere
<1>16. /\ Shape(final) /\ Counted(final)
       /\ final.cash = tb2.cash /\ final.playing_cash = tbb.playing_cash
       /\ final.buy_outs = NoCash
       /\ final.voting = w.tb.voting /\ final.pending_votes = w.tb.pending_votes
       /\ \A p \in Player : final.buy_ins[p] =
              IF p \in back THEN BuyInLifetime ELSE w.tb.buy_ins[p]
  <2>1. /\ tb3.buy_ins = w.tb.buy_ins /\ tb3.buy_outs = NoCash
        /\ tb3.voting = w.tb.voting /\ tb3.pending_votes = w.tb.pending_votes
    BY <1>2, <1>6, <1>9, <1>11, <1>13, <1>14 DEF SameElsewhere
  <2> QED BY <1>13, <1>14, <1>15, <2>1, RegisterBuyIn, SMTT(30)
<1> HIDE DEF final, r
<1>17. BuyOutsOfPlayers(final)
  BY <1>16, SMTT(30) DEF BuyOutsOfPlayers, NoCash
<1>18. is_free(final)
  BY <1>12, <1>16, SMTT(30) DEF is_free, Players
<1>19. Registered(final)
  <2> SUFFICES ASSUME NEW p \in Player, final.cash[p] + final.playing_cash[p] > 0,
                      p \notin back
               PROVE  w.tb.buy_ins[p] # None
    BY <1>16, TablesAssumption DEF Registered
  <2>1. tb2.cash[p] \in Nat /\ tb2.cash[p] > 0
    BY <1>12, <1>13, <1>16, SMTT(30) DEF Shape, Money
  <2>2. /\ w1.tb.cash[p] \in Nat /\ w1.tb.playing_cash[p] \in Nat
        /\ w.tb.cash[p] \in Nat /\ w.tb.playing_cash[p] \in Nat
    BY <1>2 DEF Shape, Money
  <2>3. w.tb.playing_cash[p] = 0 /\ p \notin vote.who
    BY <2>1, <2>2, SMTT(30) DEF back, Players
  <2>4. w1.tb.cash[p] <= w.tb.cash[p] /\ w1.tb.playing_cash[p] <= w.tb.playing_cash[p]
    BY <1>2
  <2>5. w1.tb.playing_cash[p] = 0
    BY <2>2, <2>3, <2>4, SMTT(30)
  <2>6. w1.tb.cash \in Money /\ w1.tb.playing_cash \in Money /\ tba.cash \in Money
    BY <1>2, <1>6 DEF Shape
  <2>7. tb1.playing_cash[p] = 0
    <3>1. tb1.playing_cash = Adjusted(w1.tb.playing_cash, lost) /\ lost[p] <= 0
      BY <1>6, <1>8, <1>9
    <3> QED BY <1>8, <2>5, <2>6, <3>1, AdjustedAt, SMTT(30)
  <2>8. tba.cash[p] = w1.tb.cash[p]
    <3>1. tba.cash = Adjusted(w1.tb.cash, out) /\ out[p] = 0
      BY <1>5, <1>6, <2>3
    <3> QED BY <1>5, <2>6, <3>1, AdjustedAt, SMTT(30)
  <2>9. tb2.cash[p] = w1.tb.cash[p]
    <3>1. tb2.cash = Adjusted(tba.cash, tb1.playing_cash)
      BY <1>9, <1>11, <1>13
    <3> QED BY <1>10, <2>6, <2>7, <2>8, <3>1, AdjustedAt, SMTT(30)
  <2>10. w.tb.cash[p] + w.tb.playing_cash[p] > 0
    BY <2>1, <2>2, <2>3, <2>4, <2>9, SMTT(30)
  <2> QED BY <2>10 DEF Registered
<1> QED BY <1>4, <1>16, <1>17, <1>18, <1>19 DEF r

\* apply_start_playing_with_consensus: the stakes come out of cash that is there.
LEMMA StartTakesCash ==
    ASSUME NEW w, DOMAIN w = WorldFields, Shape(w.tb), Counted(w.tb), Registered(w.tb),
           BuyOutsOfPlayers(w.tb),
           NEW vote, vote.cash \in Money, validate_initial_data(w.tb, vote), NEW witnesses
    PROVE  LET r == apply_start_playing_with_consensus(w, vote, witnesses)
           IN  /\ DOMAIN r = WorldFields
               /\ Shape(r.tb) /\ Counted(r.tb) /\ Registered(r.tb) /\ BuyOutsOfPlayers(r.tb)
               /\ r.tb.voting = w.tb.voting /\ r.tb.pending_votes = w.tb.pending_votes
<1> DEFINE tb1 == adjust_playing_cash(w.tb, vote.cash)
           tb2 == adjust_cash(tb1, Minus(vote.cash))
           final == [tb2 EXCEPT !.game_expiration = GameLifetime, !.voted_witnesses = witnesses]
           r == apply_start_playing_with_consensus(w, vote, witnesses)
<1>1. DOMAIN r = WorldFields /\ r.tb = final
  <2> HIDE DEF final
  <2>1. r = [w EXCEPT !.tb = final]
    BY DEF apply_start_playing_with_consensus, final
  <2> HIDE DEF r
  <2> QED BY <2>1 DEF WorldFields
<1>2. vote.cash \in [Player -> Int] /\ Minus(vote.cash) \in [Player -> Int]
  BY SMTT(30) DEF Money, Minus
<1>3. /\ Shape(tb1) /\ Counted(tb1) /\ SameElsewhere(tb1, w.tb) /\ tb1.cash = w.tb.cash
      /\ tb1.playing_cash = Adjusted(w.tb.playing_cash, vote.cash)
  BY <1>2, AdjustPlayingCash
<1> HIDE DEF tb1
<1>4. /\ Shape(tb2) /\ Counted(tb2) /\ SameElsewhere(tb2, tb1)
      /\ tb2.cash = Adjusted(tb1.cash, Minus(vote.cash))
      /\ tb2.playing_cash = tb1.playing_cash
  BY <1>2, <1>3, AdjustCash
<1> HIDE DEF tb2
<1>5. /\ DOMAIN final = TableFields
      /\ final.cash = tb2.cash /\ final.playing_cash = tb2.playing_cash
      /\ final.pending_proposals = tb2.pending_proposals
      /\ final.occupied_places = tb2.occupied_places /\ SameElsewhere(final, tb2)
  BY <1>4 DEF Shape, TableFields, SameElsewhere
<1> HIDE DEF final, r
<1>6. Shape(final) /\ Counted(final)
  BY <1>4, <1>5 DEF Shape, Counted, Reserved, SameElsewhere
<1>7. ASSUME NEW p \in Player
      PROVE  /\ final.playing_cash[p] >= w.tb.playing_cash[p]
             /\ final.cash[p] + final.playing_cash[p] > 0
                   => w.tb.cash[p] + w.tb.playing_cash[p] > 0
  <2>1. w.tb.cash[p] \in Nat /\ w.tb.playing_cash[p] \in Nat /\ vote.cash[p] \in Nat
    BY DEF Shape, Money
  <2>t. /\ w.tb.cash \in Money /\ w.tb.playing_cash \in Money
        /\ vote.cash \in [Player -> Int] /\ Minus(vote.cash) \in [Player -> Int]
        /\ Minus(vote.cash)[p] = -vote.cash[p]
    BY Less, SMTT(30) DEF Shape, Money, Minus
  <2>2. final.playing_cash[p] = w.tb.playing_cash[p] + vote.cash[p]
    <3>1. final.playing_cash = Adjusted(w.tb.playing_cash, vote.cash)
      BY <1>3, <1>4, <1>5
    <3>2. w.tb.playing_cash[p] + vote.cash[p] >= 0
      BY <2>1, SMTT(30)
    <3> QED BY <2>t, <3>1, <3>2, AdjustedAt, SMTT(30)
  <2>3. vote.cash[p] > 0 => vote.cash[p] <= w.tb.cash[p]
    BY DEF validate_initial_data, Players
  <2>4. final.cash[p] = w.tb.cash[p] - vote.cash[p]
    <3>1. final.cash = Adjusted(w.tb.cash, Minus(vote.cash))
      BY <1>3, <1>4, <1>5
    <3>2. /\ w.tb.cash[p] + Minus(vote.cash)[p] >= 0
          /\ w.tb.cash[p] + Minus(vote.cash)[p] = w.tb.cash[p] - vote.cash[p]
      BY <2>1, <2>3, <2>t, SMTT(30)
    <3> QED BY <2>t, <3>1, <3>2, AdjustedAt, SMTT(30)
  <2> QED BY <2>1, <2>2, <2>3, <2>4, SMTT(30)
<1>8. final.buy_ins = w.tb.buy_ins /\ final.buy_outs = w.tb.buy_outs
      /\ final.voting = w.tb.voting /\ final.pending_votes = w.tb.pending_votes
  BY <1>3, <1>4, <1>5 DEF SameElsewhere
<1>9. Registered(final)
  BY <1>7, <1>8 DEF Registered
<1>10. BuyOutsOfPlayers(final)
  <2> SUFFICES ASSUME NEW p \in Player, final.buy_outs[p] > 0 PROVE final.playing_cash[p] > 0
    BY DEF BuyOutsOfPlayers, is_playing
  <2>1. w.tb.playing_cash[p] > 0 /\ w.tb.playing_cash[p] \in Nat /\ final.playing_cash[p] \in Nat
    BY <1>6, <1>8 DEF BuyOutsOfPlayers, is_playing, Shape, Money
  <2> QED BY <1>7, <2>1, SMTT(30)
<1> QED BY <1>1, <1>6, <1>8, <1>9, <1>10 DEF r

-----------------------------------------------------------------------------
(* What a block decides about a table.                                       *)

\* All of the invariant that does not concern votes.
Sound(tb) == Shape(tb) /\ Counted(tb) /\ Registered(tb) /\ BuyOutsOfPlayers(tb)

\* Only the votes of table tb have changed.
OnlyVotes(r, tb) ==
    /\ r.cash = tb.cash /\ r.playing_cash = tb.playing_cash
    /\ r.pending_proposals = tb.pending_proposals /\ r.occupied_places = tb.occupied_places
    /\ r.buy_ins = tb.buy_ins /\ r.buy_outs = tb.buy_outs

\* A change of votes concerns nothing else.
LEMMA SoundVotes ==
    ASSUME NEW tb, Sound(tb), NEW r, DOMAIN r = TableFields, OnlyVotes(r, tb),
           DOMAIN r.voting = VotingFields
    PROVE  Sound(r)
BY DEF Sound, Shape, Counted, Reserved, Registered, BuyOutsOfPlayers, is_playing, OnlyVotes

\* A new voting object for the table of a world.
LEMMA VotingReplaced ==
    ASSUME NEW w, DOMAIN w = WorldFields, Sound(w.tb), NEW vt, DOMAIN vt = VotingFields
    PROVE  LET r == [w EXCEPT !.tb.voting = vt]
           IN  /\ DOMAIN r = WorldFields /\ Sound(r.tb) /\ OnlyVotes(r.tb, w.tb)
               /\ r.tb.voting = vt /\ r.tb.pending_votes = w.tb.pending_votes
<1> DEFINE r == [w EXCEPT !.tb.voting = vt]
           tb == [w.tb EXCEPT !.voting = vt]
<1>1. DOMAIN r = WorldFields /\ r.tb = tb
  BY DEF WorldFields
<1>2. /\ DOMAIN tb = TableFields /\ OnlyVotes(tb, w.tb)
      /\ tb.voting = vt /\ tb.pending_votes = w.tb.pending_votes
  BY DEF Sound, Shape, TableFields, OnlyVotes
<1> HIDE DEF tb, r
<1>3. Sound(tb)
  BY <1>2, SoundVotes
<1> QED BY <1>1, <1>2, <1>3 DEF r

\* Closed
LEMMA ClosedVoting ==
    ASSUME NEW w, DOMAIN w = WorldFields, Sound(w.tb)
    PROVE  LET r == Closed(w)
           IN  /\ DOMAIN r = WorldFields /\ Sound(r.tb) /\ OnlyVotes(r.tb, w.tb)
               /\ r.tb.voting = NoVoting /\ r.tb.pending_votes = w.tb.pending_votes
<1>1. DOMAIN NoVoting = VotingFields
  BY DEF NoVoting, VotingFields
<1> HIDE DEF NoVoting
<1> QED BY <1>1, VotingReplaced DEF Closed

\* cleanup_pending_votes
LEMMA PendingVotesCleared ==
    ASSUME NEW w, DOMAIN w = WorldFields, Sound(w.tb)
    PROVE  LET r == cleanup_pending_votes(w)
           IN  /\ DOMAIN r = WorldFields /\ Sound(r.tb) /\ OnlyVotes(r.tb, w.tb)
               /\ r.tb.voting = w.tb.voting /\ r.tb.pending_votes = NoVotes
<1> DEFINE r == cleanup_pending_votes(w)
           tb == [w.tb EXCEPT !.pending_votes = NoVotes]
<1>1. DOMAIN r = WorldFields /\ r.tb = tb
  BY DEF WorldFields, cleanup_pending_votes
<1>2. /\ DOMAIN tb = TableFields /\ OnlyVotes(tb, w.tb)
      /\ tb.voting = w.tb.voting /\ tb.pending_votes = NoVotes
  BY DEF Sound, Shape, TableFields, OnlyVotes
<1>3. DOMAIN tb.voting = VotingFields
  BY <1>2 DEF Sound, Shape
<1> HIDE DEF tb, r
<1>4. Sound(tb)
  BY <1>2, <1>3, SoundVotes
<1> QED BY <1>1, <1>2, <1>4 DEF r

\* The kind of a voting tells whether there is a game.
LEMMA KindOfVoting ==
    ASSUME NEW tb, TInv(tb)
    PROVE  /\ is_voting_for(tb.voting, "playing") => is_free(tb)
           /\ is_voting_for(tb.voting, "results") => ~is_free(tb)
<1>1. \A v \in DOMAIN tb.voting.votes : Applicable(tb, tb.voting.votes[v])
  BY DEF TInv, VotesAreApplicable
<1> QED BY <1>1, TablesAssumption DEF is_voting_for, Applicable

Decided(w, r) == DOMAIN r = WorldFields /\ TInv(r.tb) /\ Frozen(w.tb, r.tb)

\* A voting that is closed with all pending votes.
LEMMA VotingDropped ==
    ASSUME NEW w, DOMAIN w = WorldFields, TInv(w.tb)
    PROVE  Decided(w, cleanup_pending_votes(Closed(w)))
<1> DEFINE r == cleanup_pending_votes(Closed(w))
<1>1. Sound(w.tb)
  BY DEF TInv, Sound
<1>2. /\ DOMAIN Closed(w) = WorldFields /\ Sound(Closed(w).tb) /\ OnlyVotes(Closed(w).tb, w.tb)
      /\ Closed(w).tb.voting = NoVoting
  BY <1>1, ClosedVoting
<1>3. /\ DOMAIN r = WorldFields /\ Sound(r.tb) /\ OnlyVotes(r.tb, Closed(w).tb)
      /\ r.tb.voting = NoVoting /\ r.tb.pending_votes = NoVotes
  BY <1>2, PendingVotesCleared
<1> HIDE DEF r
<1>4. TInv(r.tb)
  BY <1>3, NoVotesLeft DEF Sound
<1>5. Frozen(w.tb, r.tb)
  BY <1>2, <1>3 DEF Frozen, OnlyVotes
<1> QED BY <1>3, <1>4, <1>5 DEF Decided, r

\* rollback of a closed voting.
LEMMA GameCalledOff ==
    ASSUME NEW w, DOMAIN w = WorldFields, TInv(w.tb)
    PROVE  Decided(w, rollback(Closed(w), FALSE))
<1>1. Sound(w.tb)
  BY DEF TInv, Sound
<1>2. DOMAIN Closed(w) = WorldFields /\ Sound(Closed(w).tb)
  BY <1>1, ClosedVoting
<1>3. /\ DOMAIN rollback(Closed(w), FALSE) = WorldFields
      /\ TInv(rollback(Closed(w), FALSE).tb) /\ is_free(rollback(Closed(w), FALSE).tb)
  BY <1>2, RollbackEnds DEF Sound
<1> QED BY <1>3 DEF Decided, Frozen

\* scheduled_voting_for_playing: the votes that count are validated again, so the game that
\* starts is covered by cash.
LEMMA StartDecided ==
    ASSUME NEW w, DOMAIN w = WorldFields, TInv(w.tb), is_voting_for(w.tb.voting, "playing"),
           NEW owner, NEW r \in scheduled_voting_for_playing(w, owner)
    PROVE  Decided(w, r)
<1> DEFINE valid == ValidVotes(w.tb, w.tb.voting.votes)
           vt == [w.tb.voting EXCEPT !.votes = valid]
           w0 == [w EXCEPT !.tb.voting = vt]
           start(c) == apply_start_playing_with_consensus(Closed(w), c,
                                                          AgreeingWitnesses(vt, owner, c))
<1>0. Sound(w.tb) /\ is_free(w.tb)
  BY KindOfVoting DEF TInv, Sound
<1>1. DOMAIN vt = VotingFields /\ vt.votes = valid
  <2> HIDE DEF valid
  <2> QED BY <1>0 DEF Sound, Shape, VotingFields
<1>2. \A v \in DOMAIN valid : /\ v \in DOMAIN w.tb.voting.votes
                              /\ valid[v] = w.tb.voting.votes[v]
                              /\ validate_ivariants(w.tb, valid[v])
  BY DEF ValidVotes
<1>3. \A v \in DOMAIN valid : valid[v] \in StartVotes
  BY <1>0, <1>2 DEF TInv, VotesAreApplicable, Applicable
<1> HIDE DEF valid
<1>4. \/ r = cleanup_pending_votes(w0)
      \/ r = cleanup_pending_votes(Closed(w))
      \/ \E c \in Winners(valid) : r = cleanup_pending_votes(start(c))
  <2>1. scheduled_voting_for_playing(w, owner) =
            IF Cardinality(DOMAIN vt.votes) < MinVotesForPlaying
            THEN {cleanup_pending_votes(w0)}
            ELSE IF ~Consensus(vt.votes) THEN {cleanup_pending_votes(Closed(w))}
            ELSE {cleanup_pending_votes(start(c)) : c \in Winners(vt.votes)}
    BY DEF scheduled_voting_for_playing, valid
  <2> HIDE DEF vt, w0, start
  <2> QED BY <1>1, <2>1
<1> HIDE DEF vt
<1>5. CASE r = cleanup_pending_votes(w0)
  <2>1. /\ DOMAIN w0 = WorldFields /\ Sound(w0.tb) /\ OnlyVotes(w0.tb, w.tb)
        /\ w0.tb.voting = vt
    BY <1>0, <1>1, VotingReplaced
  <2> HIDE DEF w0
  <2>2. /\ DOMAIN r = WorldFields /\ Sound(r.tb) /\ OnlyVotes(r.tb, w0.tb)
        /\ r.tb.voting = vt /\ r.tb.pending_votes = NoVotes
    BY <1>5, <2>1, PendingVotesCleared
  <2>3. r.tb.playing_cash = w.tb.playing_cash
    BY <2>1, <2>2 DEF OnlyVotes
  <2>4. VotesAreApplicable(r.tb)
    <3>1. DOMAIN r.tb.pending_votes = {}
      BY <2>2 DEF NoVotes
    <3>2. is_free(r.tb)
      BY <1>0, <2>3, StakesDecide
    <3> QED BY <1>1, <1>3, <2>2, <3>1, <3>2 DEF VotesAreApplicable, Applicable
  <2> QED BY <2>2, <2>3, <2>4 DEF Decided, TInv, Sound, Frozen
<1>6. CASE r = cleanup_pending_votes(Closed(w))
  BY <1>6, VotingDropped
<1>7. ASSUME NEW c \in Winners(valid), r = cleanup_pending_votes(start(c))
      PROVE  Decided(w, r)
  <2>1. c \in StartVotes /\ validate_initial_data(w.tb, c) /\ c.cash \in Money
    <3>1. PICK v \in DOMAIN valid : c = valid[v]
      BY DEF Winners, Contents
    <3>2. c \in StartVotes /\ validate_ivariants(w.tb, c)
      BY <1>2, <1>3, <3>1
    <3> QED BY <3>2, TablesAssumption DEF validate_ivariants, Money
  <2>2. /\ DOMAIN Closed(w) = WorldFields /\ Sound(Closed(w).tb)
        /\ OnlyVotes(Closed(w).tb, w.tb) /\ Closed(w).tb.voting = NoVoting
    BY <1>0, ClosedVoting
  <2>3. validate_initial_data(Closed(w).tb, c)
    BY <2>1, <2>2 DEF validate_initial_data, OnlyVotes
  <2>4. /\ DOMAIN start(c) = WorldFields /\ Sound(start(c).tb)
        /\ start(c).tb.voting = NoVoting
    BY <2>1, <2>2, <2>3, StartTakesCash DEF Sound
  <2> HIDE DEF start
  <2>5. /\ DOMAIN r = WorldFields /\ Sound(r.tb)
        /\ r.tb.voting = NoVoting /\ r.tb.pending_votes = NoVotes
    BY <1>7, <2>4, PendingVotesCleared
  <2>6. TInv(r.tb)
    BY <2>5, NoVotesLeft DEF Sound
  <2> QED BY <1>0, <2>5, <2>6 DEF Decided, Frozen
<1> QED BY <1>4, <1>5, <1>6, <1>7

\* scheduled_voting_for_results: the result that is picked was checked when its vote was
\* cast, and the stakes have not changed since.
LEMMA ResultDecided ==
    ASSUME NEW w, DOMAIN w = WorldFields, TInv(w.tb), is_voting_for(w.tb.voting, "results"),
           NEW r \in scheduled_voting_for_results(w)
    PROVE  Decided(w, r)
<1> DEFINE done(c) == apply_game_result_with_consensus(Closed(w), c)
<1>0. Sound(w.tb) /\ ~is_free(w.tb)
  BY KindOfVoting DEF TInv, Sound
<1>1. \/ r = rollback(Closed(w), FALSE)
      \/ \E c \in Winners(w.tb.voting.votes) : r = cleanup_pending_votes(done(c))
  <2> HIDE DEF done
  <2> QED BY DEF scheduled_voting_for_results, done
<1>2. CASE r = rollback(Closed(w), FALSE)
  BY <1>2, GameCalledOff
<1>3. ASSUME NEW c \in Winners(w.tb.voting.votes), r = cleanup_pending_votes(done(c))
      PROVE  Decided(w, r)
  <2>1. c \in ResultVotes /\ validate_result(w.tb, c) /\ c.cash \in Money
    <3>1. PICK v \in DOMAIN w.tb.voting.votes : c = w.tb.voting.votes[v]
      BY DEF Winners, Contents
    <3>2. Applicable(w.tb, c)
      BY <3>1 DEF TInv, VotesAreApplicable
    <3> QED BY <1>0, <3>2, TablesAssumption DEF Applicable, Money
  <2>2. /\ DOMAIN Closed(w) = WorldFields /\ Sound(Closed(w).tb)
        /\ OnlyVotes(Closed(w).tb, w.tb) /\ Closed(w).tb.voting = NoVoting
    BY <1>0, ClosedVoting
  <2>3. /\ DOMAIN done(c) = WorldFields /\ Sound(done(c).tb) /\ is_free(done(c).tb)
        /\ done(c).tb.voting = NoVoting
    <3>1. CASE is_cancel(c)
      <4>1. done(c) = rollback(Closed(w), FALSE)
        BY <3>1 DEF apply_game_result_with_consensus
      <4> HIDE DEF done
      <4>2. /\ DOMAIN done(c) = WorldFields /\ TInv(done(c).tb) /\ is_free(done(c).tb)
            /\ done(c).tb.voting = NoVoting
        BY <2>2, <4>1, RollbackEnds DEF Sound
      <4> QED BY <4>2 DEF TInv, Sound
    <3>2. CASE ~is_cancel(c)
      <4>1. done(c) = Settle(Closed(w), c)
        BY <3>2 DEF apply_game_result_with_consensus
      <4>2. c.who \subseteq Players(Closed(w).tb.playing_cash)
        BY <2>1, <2>2, <3>2 DEF validate_result, OnlyVotes
      <4> HIDE DEF done
      <4> QED BY <2>1, <2>2, <4>1, <4>2, SettleEnds DEF Sound
    <3> QED BY <3>1, <3>2
  <2> HIDE DEF done
  <2>4. /\ DOMAIN r = WorldFields /\ Sound(r.tb) /\ OnlyVotes(r.tb, done(c).tb)
        /\ r.tb.voting = NoVoting /\ r.tb.pending_votes = NoVotes
    BY <1>3, <2>3, PendingVotesCleared
  <2>5. is_free(r.tb)
    BY <2>3, <2>4, StakesDecide DEF OnlyVotes
  <2>6. TInv(r.tb)
    BY <2>4, NoVotesLeft DEF Sound
  <2> QED BY <2>4, <2>5, <2>6 DEF Decided, Frozen
<1> QED BY <1>1, <1>2, <1>3

-----------------------------------------------------------------------------
(* Totals.                                                                   *)

\* Total is the sum of Sums.
LEMMA TotalIsSum ==
    ASSUME NEW f, NEW S
    PROVE  Total(f, S) = SumOf(f, S)
BY DEF Total, SumOf

\* There are finitely many players.
LEMMA FinitePlayer == IsFiniteSet(Player)
BY TablesAssumption

\* The amounts of all players add up to a natural number.
LEMMA TotalOfMoney ==
    ASSUME NEW f \in Money
    PROVE  Total(f, Player) \in Nat
<1>1. \A p \in Player : f[p] \in Nat
  BY DEF Money
<1>2. SumOf(f, Player) \in Nat
  BY <1>1, FinitePlayer, SumNatural
<1> QED BY <1>2, TotalIsSum

\* One amount changes.
LEMMA TotalChange ==
    ASSUME NEW f \in Money, NEW p \in Player, NEW d \in Int
    PROVE  Total([f EXCEPT ![p] = @ + d], Player) = Total(f, Player) + d
<1> DEFINE g == [f EXCEPT ![p] = @ + d]
<1>1. /\ IntegerOn(f, Player) /\ g[p] = f[p] + d
      /\ \A q \in Player : q # p => g[q] = f[q]
  BY SMTT(30) DEF Money, IntegerOn
<1> HIDE DEF g
<1>2. SumOf(g, Player) = SumOf(f, Player) + d
  BY <1>1, FinitePlayer, SumChange, SMTT(30)
<1> QED BY <1>2, TotalIsSum DEF g

\* A part of the players.
LEMMA TotalOfPart ==
    ASSUME NEW f \in Money, NEW S, S \subseteq Player
    PROVE  Total(Part(f, S), Player) = Total(f, S)
<1> DEFINE g == Part(f, S)
<1>1. IntegerOn(f, S) /\ \A p \in Player : g[p] = IF p \in S THEN f[p] ELSE 0
  BY SMTT(30) DEF Part, Money, IntegerOn
<1> HIDE DEF g
<1>2. SumOf(g, Player) = SumOf(f, S)
  BY <1>1, FinitePlayer, SumPart, SMTT(30)
<1> QED BY <1>2, TotalIsSum DEF g

Integers3(b, c, s) == b \in [Player -> Int] /\ c \in [Player -> Int] /\ s \in [Player -> Int]

Holding(b, c, s) == Total(b, Player) + Total(c, Player) + Total(s, Player)

\* The coins that each player holds, as balance, cash and stake, add up to what all hold.
LEMMA TotalOfHoldings ==
    ASSUME NEW b, NEW c, NEW s, Integers3(b, c, s), NEW h,
           \A p \in Player : h[p] = b[p] + c[p] + s[p]
    PROVE  /\ Total(h, Player) = Holding(b, c, s) /\ Total(h, Player) \in Int
           /\ Total(b, Player) \in Int /\ Total(c, Player) \in Int /\ Total(s, Player) \in Int
<1> DEFINE bc == [p \in Player |-> b[p] + c[p]]
<1>1. /\ IntegerOn(b, Player) /\ IntegerOn(c, Player) /\ IntegerOn(s, Player)
      /\ IntegerOn(bc, Player) /\ IntegerOn(h, Player)
      /\ \A p \in Player : bc[p] = b[p] + c[p]
      /\ \A p \in Player : h[p] = bc[p] + s[p]
  BY SMTT(30) DEF IntegerOn, Integers3
<1> HIDE DEF bc
<1>2. SumOf(bc, Player) = SumOf(b, Player) + SumOf(c, Player)
  BY FinitePlayer, <1>1, SumPlus, SMTT(30)
<1>3. SumOf(h, Player) = SumOf(bc, Player) + SumOf(s, Player)
  BY FinitePlayer, <1>1, SumPlus, SMTT(30)
<1>4. /\ SumOf(b, Player) \in Int /\ SumOf(c, Player) \in Int /\ SumOf(s, Player) \in Int
      /\ SumOf(h, Player) \in Int
  BY FinitePlayer, <1>1, SumInteger
<1> QED BY <1>2, <1>3, <1>4, TotalIsSum, SMTT(30) DEF Holding

\* Two ways to hold coins that differ by d.
LEMMA HoldingsDiffer ==
    ASSUME NEW b, NEW c, NEW s, Integers3(b, c, s),
           NEW bb, NEW cc, NEW ss, Integers3(bb, cc, ss), NEW d \in [Player -> Int],
           \A p \in Player : bb[p] + cc[p] + ss[p] = b[p] + c[p] + s[p] + d[p]
    PROVE  /\ Holding(bb, cc, ss) = Holding(b, c, s) + Total(d, Player)
           /\ Holding(b, c, s) \in Int /\ Total(d, Player) \in Int
<1> DEFINE h == [p \in Player |-> b[p] + c[p] + s[p]]
           hh == [p \in Player |-> bb[p] + cc[p] + ss[p]]
<1>1. /\ \A p \in Player : h[p] = b[p] + c[p] + s[p]
      /\ \A p \in Player : hh[p] = bb[p] + cc[p] + ss[p]
      /\ \A p \in Player : hh[p] = h[p] + d[p]
  OBVIOUS
<1>i. IntegerOn(h, Player) /\ IntegerOn(d, Player)
  BY SMTT(30) DEF IntegerOn, Integers3
<1> HIDE DEF h, hh
<1>2. Total(h, Player) = Holding(b, c, s) /\ Total(h, Player) \in Int
  BY <1>1, TotalOfHoldings, SMTT(30)
<1>3. Total(hh, Player) = Holding(bb, cc, ss)
  BY <1>1, TotalOfHoldings
<1>4. SumOf(hh, Player) = SumOf(h, Player) + SumOf(d, Player)
  BY FinitePlayer, <1>1, <1>i, SumPlus, SMTT(30)
<1>5. SumOf(d, Player) \in Int
  BY FinitePlayer, <1>i, SumInteger
<1> QED BY <1>2, <1>3, <1>4, <1>5, TotalIsSum

\* Nothing for anyone.
LEMMA TotalOfNothing == Total(NoCash, Player) = 0
<1>1. \A p \in Player : NoCash[p] = 0
  BY DEF NoCash
<1>2. SumOf(NoCash, Player) = 0 * Cardinality(Player)
  <2>1. 0 \in Int
    BY SMTT(30)
  <2> QED BY <1>1, <2>1, FinitePlayer, SumConstant
<1>3. Cardinality(Player) \in Nat
  BY TablesAssumption, FS_CardinalityType
<1> QED BY <1>2, <1>3, TotalIsSum, SMTT(30)

-----------------------------------------------------------------------------
(* What games do to the money that a table reaches.                          *)

Solvent(w) == w.balance \in Money /\ w.fees \in Money /\ w.rake \in Nat

\* Nothing is lost between two worlds: each player holds what d adds to what they held,
\* and reservations are not concerned.
Moves(w, r, d) ==
    /\ Solvent(r)
    /\ r.tb.pending_proposals = w.tb.pending_proposals
    /\ \A p \in Player : r.balance[p] + r.tb.cash[p] + r.tb.playing_cash[p]
           = w.balance[p] + w.tb.cash[p] + w.tb.playing_cash[p] + d[p]

\* ... and the rake is as before.
Even(w, r) == Moves(w, r, NoCash) /\ r.rake = w.rake /\ r.fees = w.fees

\* The parts of a pending buy-out are there to be taken.
LEMMA TakesAreThere ==
    ASSUME NEW tb, Shape(tb), NEW who, NEW left \in Money, NEW p \in Player
    PROVE  LET take == BuyOutTakes(tb, who, left)
           IN  /\ take.cash[p] <= tb.cash[p] /\ take.stake[p] <= tb.playing_cash[p]
               /\ p \in who => take.stake[p] = 0
               /\ p \notin who => take.result[p] = 0
<1> DEFINE take == BuyOutTakes(tb, who, left)
           r == IF p \in who THEN Smaller(left[p], tb.buy_outs[p]) ELSE 0
           c == Smaller(tb.cash[p], tb.buy_outs[p] - take.result[p])
           s == IF p \in who THEN 0
                ELSE Smaller(tb.playing_cash[p], tb.buy_outs[p] - take.cash[p])
<1>1. take.result[p] = r /\ take.cash[p] = c /\ take.stake[p] = s
  BY DEF BuyOutTakes
<1>2. /\ tb.buy_outs[p] \in Nat /\ tb.cash[p] \in Nat /\ tb.playing_cash[p] \in Nat
      /\ take.result[p] \in Nat /\ take.cash[p] \in Nat
  <2>1. take.result \in Money /\ take.cash \in Money
    BY TakesAreMoney
  <2> HIDE DEF take
  <2> QED BY <2>1 DEF Shape, Money
<1> HIDE DEF take
<1>3. c <= tb.cash[p] /\ s <= tb.playing_cash[p]
  BY <1>2, SMTT(30) DEF Smaller
<1> QED BY <1>1, <1>3 DEF take

\* Taking an amount that is there.
LEMMA Taken ==
    ASSUME NEW f \in Money, NEW take \in Money, NEW p \in Player, take[p] <= f[p]
    PROVE  Adjusted(f, Minus(take))[p] = f[p] - take[p]
<1>1. f[p] \in Nat /\ take[p] \in Nat /\ Minus(take)[p] = -take[p]
  BY DEF Money, Minus
<1>2. f[p] + Minus(take)[p] >= 0 /\ f[p] + Minus(take)[p] = f[p] - take[p]
  BY <1>1, SMTT(30)
<1> QED BY <1>2, Less, AdjustedAt

\* Adding an amount.
LEMMA Added ==
    ASSUME NEW f \in Money, NEW more \in Money, NEW p \in Player
    PROVE  Adjusted(f, more)[p] = f[p] + more[p]
<1>1. f[p] \in Nat /\ more[p] \in Nat /\ more \in [Player -> Int]
  BY SMTT(30) DEF Money
<1>2. f[p] + more[p] >= 0
  BY <1>1, SMTT(30)
<1> QED BY <1>1, <1>2, AdjustedAt

\* pending_buyouts_resolve pays what it takes, and what it takes from the result on top.
PaysBuyOuts(w, who, left) ==
    LET r == pending_buyouts_resolve(w, who, left)
        take == BuyOutTakes(w.tb, who, left)
    IN  /\ Moves(w, r, take.result) /\ r.rake = w.rake /\ r.fees = w.fees
        /\ \A p \in Player : p \in who => r.tb.playing_cash[p] = w.tb.playing_cash[p]

\* It does so at a table whose amounts are sound.
LEMMA BuyOutsPaid ==
    ASSUME NEW w, DOMAIN w = WorldFields, Shape(w.tb), Counted(w.tb), Solvent(w),
           NEW who, NEW left \in Money
    PROVE  PaysBuyOuts(w, who, left)
<1> DEFINE take == BuyOutTakes(w.tb, who, left)
           tb1 == adjust_cash(w.tb, Minus(take.cash))
           tb2 == adjust_playing_cash(tb1, Minus(take.stake))
           tb3 == [tb2 EXCEPT !.buy_outs = NoCash]
           r == pending_buyouts_resolve(w, who, left)
<1>1. take.cash \in Money /\ take.stake \in Money /\ take.result \in Money
  BY TakesAreMoney
<1>2. \A p \in Player : /\ take.cash[p] <= w.tb.cash[p]
                        /\ take.stake[p] <= w.tb.playing_cash[p]
                        /\ p \in who => take.stake[p] = 0
  BY TakesAreThere
<1>3. /\ r.tb = tb3 /\ r.rake = w.rake /\ r.fees = w.fees
      /\ r.balance = Plus(w.balance, Plus(take.result, Plus(take.cash, take.stake)))
  <2> HIDE DEF tb3, take
  <2>1. r = [w EXCEPT !.tb = tb3,
                      !.balance = Plus(@, Plus(take.result, Plus(take.cash, take.stake)))]
    BY DEF pending_buyouts_resolve, tb3, take
  <2> HIDE DEF r
  <2> QED BY <2>1 DEF WorldFields
<1> HIDE DEF take
<1>4. /\ Shape(tb1) /\ Counted(tb1)
      /\ tb1.cash = Adjusted(w.tb.cash, Minus(take.cash))
      /\ tb1.playing_cash = w.tb.playing_cash
      /\ tb1.pending_proposals = w.tb.pending_proposals
  BY <1>1, Less, AdjustCash
<1>t. w.tb.cash \in Money /\ w.tb.playing_cash \in Money
  BY DEF Shape
<1> HIDE DEF tb1
<1>5. /\ Shape(tb2) /\ tb2.cash = tb1.cash
      /\ tb2.playing_cash = Adjusted(tb1.playing_cash, Minus(take.stake))
      /\ tb2.pending_proposals = tb1.pending_proposals
  BY <1>1, <1>4, Less, AdjustPlayingCash, SMTT(30)
<1> HIDE DEF tb2
<1>6. /\ tb3.cash = tb2.cash /\ tb3.playing_cash = tb2.playing_cash
      /\ tb3.pending_proposals = tb2.pending_proposals
  BY <1>5 DEF Shape, TableFields
<1> HIDE DEF tb3, r
<1>7. ASSUME NEW p \in Player
      PROVE  /\ r.tb.cash[p] = w.tb.cash[p] - take.cash[p]
             /\ r.tb.playing_cash[p] = w.tb.playing_cash[p] - take.stake[p]
  <2>1. /\ r.tb.cash = Adjusted(w.tb.cash, Minus(take.cash))
        /\ r.tb.playing_cash = Adjusted(w.tb.playing_cash, Minus(take.stake))
    BY <1>3, <1>4, <1>5, <1>6
  <2>2. take.cash[p] <= w.tb.cash[p] /\ take.stake[p] <= w.tb.playing_cash[p]
    BY <1>2
  <2>3. Adjusted(w.tb.cash, Minus(take.cash))[p] = w.tb.cash[p] - take.cash[p]
    BY <1>1, <1>t, <2>2, Taken
  <2>4. Adjusted(w.tb.playing_cash, Minus(take.stake))[p]
            = w.tb.playing_cash[p] - take.stake[p]
    BY <1>1, <1>t, <2>2, Taken
  <2> QED BY <2>1, <2>3, <2>4
<1>8. ASSUME NEW p \in Player
      PROVE  /\ w.balance[p] \in Nat /\ take.cash[p] \in Nat /\ take.stake[p] \in Nat
             /\ take.result[p] \in Nat /\ w.tb.cash[p] \in Nat /\ w.tb.playing_cash[p] \in Nat
             /\ r.balance[p] = w.balance[p] + (take.result[p] + (take.cash[p] + take.stake[p]))
  BY <1>1, <1>3, <1>t DEF Plus, Money, Solvent
<1>9. r.balance \in Money
  <2>1. DOMAIN r.balance = Player /\ r.balance = [p \in Player |-> r.balance[p]]
    BY <1>3 DEF Plus
  <2>2. \A p \in Player : r.balance[p] \in Nat
    BY <1>8, SMTT(30)
  <2> QED BY <2>1, <2>2 DEF Money
<1>10. ASSUME NEW p \in Player
       PROVE  /\ r.balance[p] + r.tb.cash[p] + r.tb.playing_cash[p]
                    = w.balance[p] + w.tb.cash[p] + w.tb.playing_cash[p] + take.result[p]
              /\ p \in who => r.tb.playing_cash[p] = w.tb.playing_cash[p]
  BY <1>2, <1>7, <1>8, SMTT(30)
<1>11. r.tb.pending_proposals = w.tb.pending_proposals
  BY <1>3, <1>4, <1>5, <1>6
<1> QED BY <1>3, <1>9, <1>10, <1>11 DEF PaysBuyOuts, Moves, Solvent, r, take

\* Reservations are not concerned by what happens to cash, stakes and buy-in objects.
LEMMA ProposalsStay ==
    ASSUME NEW tb, Shape(tb), NEW S
    PROVE  /\ clear_cash(tb).pending_proposals = tb.pending_proposals
           /\ clear_playing_cash(tb).pending_proposals = tb.pending_proposals
           /\ register_buy_in(tb, S).pending_proposals = tb.pending_proposals
<1>1. clear_cash(tb).pending_proposals = tb.pending_proposals
  BY DEF clear_cash, Shape, TableFields
<1>2. clear_playing_cash(tb).pending_proposals = tb.pending_proposals
  BY DEF clear_playing_cash, Shape, TableFields
<1>3. register_buy_in(tb, S).pending_proposals = tb.pending_proposals
  BY DEF register_buy_in, Shape, TableFields
<1> QED BY <1>1, <1>2, <1>3

\* A world whose money moves from w without loss, told player by player.
LEMMA MovesPointwise ==
    ASSUME NEW w, NEW r, NEW d, r.balance \in Money, r.fees \in Money, r.rake \in Nat,
           r.tb.pending_proposals = w.tb.pending_proposals,
           \A p \in Player : r.balance[p] + r.tb.cash[p] + r.tb.playing_cash[p]
               = w.balance[p] + w.tb.cash[p] + w.tb.playing_cash[p] + d[p]
    PROVE  Moves(w, r, d)
BY DEF Moves, Solvent

\* rollback returns stakes to the cash, or everything to the balances.
LEMMA RollbackPays ==
    ASSUME NEW w, DOMAIN w = WorldFields, Shape(w.tb), Counted(w.tb), Solvent(w),
           NEW full \in BOOLEAN
    PROVE  Even(w, rollback(w, full))
<1> DEFINE w1 == pending_buyouts_resolve(w, {}, NoCash)
           take == BuyOutTakes(w.tb, {}, NoCash)
           tb0 == IF full THEN clear_playing_cash(w1.tb)
                  ELSE adjust_cash(w1.tb, w1.tb.playing_cash)
           tb == IF full THEN clear_cash(tb0) ELSE clear_playing_cash(tb0)
           back == Players(w.tb.playing_cash) \cap Players(tb.cash)
           registered == IF full THEN [tb EXCEPT !.buy_ins = [p \in Player |-> None]]
                         ELSE register_buy_in(tb, back)
           final == [registered EXCEPT !.game_expiration = None,
                                       !.pending_votes = NoVotes,
                                       !.voting = NoVoting]
           all == Plus(w1.balance, Plus(w1.tb.playing_cash, w1.tb.cash))
           r == rollback(w, full)
<1>1. NoCash \in Money /\ \A p \in Player : NoCash[p] = 0
  BY DEF NoCash, Money
<1>2. DOMAIN w1 = WorldFields /\ Shape(w1.tb) /\ Counted(w1.tb)
  BY <1>1, BuyOutsResolved
<1>3. Moves(w, w1, take.result) /\ w1.rake = w.rake /\ w1.fees = w.fees
  <2>1. PaysBuyOuts(w, {}, NoCash)
    BY <1>1, BuyOutsPaid
  <2> QED BY <2>1 DEF PaysBuyOuts
<1>4. \A p \in Player : take.result[p] = 0
  BY <1>1, TakesAreThere
<1>5. /\ r.tb = final /\ r.rake = w1.rake /\ r.fees = w1.fees
      /\ r.balance = IF full THEN all ELSE w1.balance
  <2> HIDE DEF final, all
  <2>1. r = [w1 EXCEPT !.balance = IF full THEN all ELSE @, !.tb = final]
    BY DEF rollback, final, all
  <2> HIDE DEF r, w1
  <2> QED BY <1>2, <2>1 DEF WorldFields
<1>6. /\ w1.tb.cash \in Money /\ w1.tb.playing_cash \in Money /\ w1.balance \in Money
      /\ w1.tb.playing_cash \in [Player -> Int]
  <2>1. w1.tb.cash \in Money /\ w1.tb.playing_cash \in Money /\ w1.balance \in Money
    BY <1>2, <1>3 DEF Moves, Solvent, Shape
  <2> HIDE DEF w1
  <2> QED BY <2>1, SMTT(30) DEF Money
<1> HIDE DEF w1, take
<1>7. /\ Shape(tb0) /\ Counted(tb0) /\ tb0.pending_proposals = w1.tb.pending_proposals
      /\ tb0.cash = IF full THEN w1.tb.cash ELSE Adjusted(w1.tb.cash, w1.tb.playing_cash)
  <2>1. CASE full
    BY <1>2, <2>1, ClearPlayingCash, ProposalsStay
  <2>2. CASE ~full
    BY <1>2, <1>6, <2>2, AdjustCash
  <2> QED BY <2>1, <2>2
<1>p. tb0.playing_cash = IF full THEN NoCash ELSE w1.tb.playing_cash
  BY <1>2, <1>6, ClearPlayingCash, AdjustCash
<1> HIDE DEF tb0
<1>8. /\ Shape(tb) /\ Counted(tb) /\ tb.pending_proposals = tb0.pending_proposals
      /\ tb.cash = IF full THEN NoCash ELSE tb0.cash
      /\ tb.playing_cash = NoCash
  <2>1. CASE full
    BY <1>7, <1>p, <2>1, ClearCash, ProposalsStay
  <2>2. CASE ~full
    BY <1>7, <1>p, <2>2, ClearPlayingCash, ProposalsStay
  <2> QED BY <2>1, <2>2
<1> HIDE DEF tb, back
<1>9. /\ DOMAIN registered = TableFields
      /\ registered.pending_proposals = tb.pending_proposals
      /\ registered.cash = tb.cash /\ registered.playing_cash = NoCash
  <2>1. CASE full
    BY <1>8, <2>1, SMTT(30) DEF Shape, TableFields
  <2>2. CASE ~full
    <3>1. Shape(register_buy_in(tb, back)) /\ registered = register_buy_in(tb, back)
      BY <1>8, <2>2, RegisterBuyIn
    <3> HIDE DEF registered
    <3>2. /\ register_buy_in(tb, back).cash = tb.cash
          /\ register_buy_in(tb, back).playing_cash = tb.playing_cash
      BY <1>8, RegisterBuyIn
    <3>3. register_buy_in(tb, back).pending_proposals = tb.pending_proposals
      BY <1>8, ProposalsStay
    <3> QED BY <1>8, <3>1, <3>2, <3>3, SMTT(30) DEF Shape
  <2> QED BY <2>1, <2>2
<1> HIDE DEF registered
<1>10. /\ final.pending_proposals = tb.pending_proposals
       /\ final.cash = tb.cash /\ final.playing_cash = NoCash
  BY <1>9 DEF TableFields
<1> HIDE DEF final, r
<1>11. ASSUME NEW p \in Player
       PROVE  /\ r.balance[p] \in Nat
              /\ r.balance[p] + r.tb.cash[p] + r.tb.playing_cash[p]
                    = w.balance[p] + w.tb.cash[p] + w.tb.playing_cash[p] + NoCash[p]
  <2>1. /\ w1.balance[p] + w1.tb.cash[p] + w1.tb.playing_cash[p]
               = w.balance[p] + w.tb.cash[p] + w.tb.playing_cash[p] + take.result[p]
        /\ take.result[p] = 0 /\ NoCash[p] = 0
    BY <1>1, <1>3, <1>4 DEF Moves
  <2>2. w1.balance[p] \in Nat /\ w1.tb.cash[p] \in Nat /\ w1.tb.playing_cash[p] \in Nat
    BY <1>6 DEF Money
  <2>3. r.tb.playing_cash[p] = 0
    BY <1>1, <1>5, <1>10
  <2>4. CASE full
    <3>1. r.tb.cash[p] = 0 /\ r.balance = all
      BY <1>1, <1>5, <1>8, <1>10, <2>4
    <3>2. r.balance[p] = w1.balance[p] + (w1.tb.playing_cash[p] + w1.tb.cash[p])
      BY <3>1 DEF Plus
    <3> QED BY <2>1, <2>2, <2>3, <3>1, <3>2, SMTT(30)
  <2>5. CASE ~full
    <3>1. r.tb.cash = Adjusted(w1.tb.cash, w1.tb.playing_cash) /\ r.balance = w1.balance
      BY <1>5, <1>7, <1>8, <1>10, <2>5
    <3>2. Adjusted(w1.tb.cash, w1.tb.playing_cash)[p] = w1.tb.cash[p] + w1.tb.playing_cash[p]
      BY <1>6, Added
    <3> QED BY <2>1, <2>2, <2>3, <3>1, <3>2, SMTT(30)
  <2> QED BY <2>4, <2>5
<1>12. r.balance \in Money
  <2>1. r.balance = [p \in Player |-> r.balance[p]]
    BY <1>5, <1>6 DEF Plus, Money
  <2> QED BY <1>11, <2>1 DEF Money
<1>13. r.tb.pending_proposals = w.tb.pending_proposals
  BY <1>3, <1>5, <1>7, <1>8, <1>10 DEF Moves
<1>14. r.fees \in Money /\ r.rake \in Nat /\ r.rake = w.rake /\ r.fees = w.fees
  BY <1>3, <1>5 DEF Solvent
<1>15. Moves(w, r, NoCash)
  BY <1>11, <1>12, <1>13, <1>14, MovesPointwise
<1> QED BY <1>14, <1>15 DEF Even, r

\* apply_start_playing_with_consensus turns cash into stakes.
LEMMA StartPays ==
    ASSUME NEW w, DOMAIN w = WorldFields, Shape(w.tb), Counted(w.tb), Solvent(w),
           NEW vote, vote.cash \in Money, validate_initial_data(w.tb, vote), NEW witnesses
    PROVE  Even(w, apply_start_playing_with_consensus(w, vote, witnesses))
<1> DEFINE tb1 == adjust_playing_cash(w.tb, vote.cash)
           tb2 == adjust_cash(tb1, Minus(vote.cash))
           final == [tb2 EXCEPT !.game_expiration = GameLifetime, !.voted_witnesses = witnesses]
           r == apply_start_playing_with_consensus(w, vote, witnesses)
<1>1. r.tb = final /\ r.balance = w.balance /\ r.rake = w.rake /\ r.fees = w.fees
  <2> HIDE DEF final
  <2>1. r = [w EXCEPT !.tb = final]
    BY DEF apply_start_playing_with_consensus, final
  <2> HIDE DEF r
  <2> QED BY <2>1 DEF WorldFields
<1>2. /\ vote.cash \in [Player -> Int] /\ Minus(vote.cash) \in [Player -> Int]
      /\ w.tb.cash \in Money /\ w.tb.playing_cash \in Money
  BY SMTT(30) DEF Money, Minus, Shape
<1>3. /\ Shape(tb1) /\ Counted(tb1) /\ tb1.cash = w.tb.cash
      /\ tb1.playing_cash = Adjusted(w.tb.playing_cash, vote.cash)
      /\ tb1.pending_proposals = w.tb.pending_proposals
  BY <1>2, AdjustPlayingCash
<1> HIDE DEF tb1
<1>4. /\ Shape(tb2) /\ tb2.cash = Adjusted(tb1.cash, Minus(vote.cash))
      /\ tb2.playing_cash = tb1.playing_cash
      /\ tb2.pending_proposals = tb1.pending_proposals
  BY <1>2, <1>3, AdjustCash
<1> HIDE DEF tb2
<1>5. /\ final.cash = tb2.cash /\ final.playing_cash = tb2.playing_cash
      /\ final.pending_proposals = tb2.pending_proposals
  BY <1>4 DEF Shape, TableFields
<1> HIDE DEF final, r
<1>6. ASSUME NEW p \in Player
      PROVE  r.balance[p] + r.tb.cash[p] + r.tb.playing_cash[p]
                 = w.balance[p] + w.tb.cash[p] + w.tb.playing_cash[p] + NoCash[p]
  <2>1. /\ w.tb.cash[p] \in Nat /\ w.tb.playing_cash[p] \in Nat /\ vote.cash[p] \in Nat
        /\ w.balance[p] \in Nat /\ NoCash[p] = 0
    BY <1>2 DEF Money, Solvent, NoCash
  <2>2. vote.cash[p] > 0 => vote.cash[p] <= w.tb.cash[p]
    BY DEF validate_initial_data, Players
  <2>3. vote.cash[p] <= w.tb.cash[p]
    BY <2>1, <2>2, SMTT(30)
  <2>4. /\ r.tb.cash = Adjusted(w.tb.cash, Minus(vote.cash))
        /\ r.tb.playing_cash = Adjusted(w.tb.playing_cash, vote.cash)
    BY <1>1, <1>3, <1>4, <1>5
  <2>5. /\ Adjusted(w.tb.cash, Minus(vote.cash))[p] = w.tb.cash[p] - vote.cash[p]
        /\ Adjusted(w.tb.playing_cash, vote.cash)[p] = w.tb.playing_cash[p] + vote.cash[p]
    BY <1>2, <2>3, Taken, Added
  <2> QED BY <1>1, <2>1, <2>4, <2>5, SMTT(30)
<1>7. r.tb.pending_proposals = w.tb.pending_proposals
  BY <1>1, <1>3, <1>4, <1>5
<1>8. r.balance \in Money /\ r.fees \in Money /\ r.rake \in Nat
  BY <1>1 DEF Solvent
<1>9. Moves(w, r, NoCash)
  BY <1>6, <1>7, <1>8, MovesPointwise
<1> QED BY <1>1, <1>9 DEF Even, r

\* What the result gives to its players in place of their stakes.
Outcome(tb, vote) == Plus(Part(vote.cash, vote.who), Minus(Part(tb.playing_cash, vote.who)))

\* Settle gives the players of a result what it says in place of their stakes; the rake goes
\* to the room and is recorded as fees.
LEMMA SettlePays ==
    ASSUME NEW w, DOMAIN w = WorldFields, Shape(w.tb), Counted(w.tb), Solvent(w),
           NEW vote, vote.cash \in Money, vote.rake \in Money
    PROVE  LET r == Settle(w, vote)
               rake == Part(vote.rake, vote.who)
           IN  /\ Moves(w, r, Outcome(w.tb, vote))
               /\ r.rake = w.rake + Total(rake, Player) /\ r.fees = Plus(w.fees, rake)
<1> DEFINE left == Part(vote.cash, vote.who)
           w1 == pending_buyouts_resolve(w, vote.who, left)
           take == BuyOutTakes(w.tb, vote.who, left)
           out == Plus(left, Minus(take.result))
           lost == Part(w1.tb.playing_cash, vote.who)
           tba == adjust_cash(w1.tb, out)
           tb1 == adjust_playing_cash(tba, Minus(lost))
           tbb == adjust_playing_cash(tb1, Minus(tb1.playing_cash))
           tb2 == adjust_cash(tbb, tb1.playing_cash)
           tb3 == [tb2 EXCEPT !.game_expiration = None, !.voted_witnesses = {}]
           back == Players(w.tb.playing_cash) \cap Players(tb2.cash)
           final == register_buy_in(tb3, back)
           rake == Part(vote.rake, vote.who)
           r == Settle(w, vote)
<1>1. left \in Money /\ rake \in Money
  BY DEF Part, Money
<1>2. DOMAIN w1 = WorldFields /\ Shape(w1.tb) /\ Counted(w1.tb)
  BY <1>1, BuyOutsResolved
<1>3. /\ Moves(w, w1, take.result) /\ w1.rake = w.rake /\ w1.fees = w.fees
      /\ \A p \in Player : p \in vote.who => w1.tb.playing_cash[p] = w.tb.playing_cash[p]
  <2>1. PaysBuyOuts(w, vote.who, left)
    <3> HIDE DEF left
    <3> QED BY <1>1, BuyOutsPaid
  <2> QED BY <2>1 DEF PaysBuyOuts
<1>4. take.result \in Money /\ \A p \in Player : take.result[p] <= left[p]
  BY <1>1, TakesAreMoney
<1>5. /\ r.tb = final /\ r.balance = w1.balance
      /\ r.rake = w1.rake + Total(rake, Player) /\ r.fees = Plus(w1.fees, rake)
  <2> HIDE DEF final
  <2>1. r = [w1 EXCEPT !.rake = @ + Total(rake, Player), !.fees = Plus(@, rake), !.tb = final]
    BY DEF Settle, final
  <2> HIDE DEF r, w1, rake
  <2> QED BY <1>2, <2>1 DEF WorldFields
<1>6. w1.tb.cash \in Money /\ w1.tb.playing_cash \in Money /\ w1.balance \in Money
  BY <1>2, <1>3 DEF Moves, Solvent, Shape
<1>7. \A p \in Player : /\ left[p] = IF p \in vote.who THEN vote.cash[p] ELSE 0
                        /\ lost[p] = IF p \in vote.who THEN w1.tb.playing_cash[p] ELSE 0
  BY DEF Part
<1>8. lost \in Money
  BY <1>6 DEF Part, Money
<1> HIDE DEF w1, take, left, lost
<1>9. out \in Money /\ \A p \in Player : out[p] = left[p] - take.result[p]
  <2>1. \A p \in Player : left[p] \in Nat /\ take.result[p] \in Nat /\ take.result[p] <= left[p]
    BY <1>1, <1>4 DEF Money
  <2>2. \A p \in Player : out[p] = left[p] - take.result[p]
    BY <2>1 DEF Plus, Minus
  <2>3. out = [p \in Player |-> out[p]]
    BY DEF Plus
  <2>4. \A p \in Player : out[p] \in Nat
    <3> HIDE DEF out
    <3> QED BY <2>1, <2>2, SMTT(30)
  <2> QED BY <2>2, <2>3, <2>4 DEF Money
<1> HIDE DEF out
<1>i. /\ out \in [Player -> Int] /\ Minus(lost) \in [Player -> Int]
  BY <1>8, <1>9, SMTT(30) DEF Money, Minus
<1>10. /\ Shape(tba) /\ Counted(tba) /\ tba.cash = Adjusted(w1.tb.cash, out)
       /\ tba.playing_cash = w1.tb.playing_cash
       /\ tba.pending_proposals = w1.tb.pending_proposals
  BY <1>2, <1>i, AdjustCash
<1> HIDE DEF tba
<1>11. /\ Shape(tb1) /\ Counted(tb1) /\ tb1.cash = tba.cash
       /\ tb1.playing_cash = Adjusted(tba.playing_cash, Minus(lost))
       /\ tb1.pending_proposals = tba.pending_proposals
  BY <1>10, <1>i, AdjustPlayingCash
<1> HIDE DEF tb1
<1>12. /\ tb1.playing_cash \in Money /\ tb1.playing_cash \in [Player -> Int]
       /\ Minus(tb1.playing_cash) \in [Player -> Int]
  BY <1>11, SMTT(30) DEF Shape, Money, Minus
<1>13. /\ Shape(tbb) /\ Counted(tbb) /\ tbb.cash = tb1.cash
       /\ tbb.playing_cash = Adjusted(tb1.playing_cash, Minus(tb1.playing_cash))
       /\ tbb.pending_proposals = tb1.pending_proposals
  BY <1>11, <1>12, AdjustPlayingCash
<1> HIDE DEF tbb
<1>14. /\ Shape(tb2) /\ Counted(tb2) /\ tb2.cash = Adjusted(tbb.cash, tb1.playing_cash)
       /\ tb2.playing_cash = tbb.playing_cash
       /\ tb2.pending_proposals = tbb.pending_proposals
  BY <1>12, <1>13, AdjustCash
<1> HIDE DEF tb2, back
<1>15. /\ DOMAIN tb3 = TableFields /\ tb3.cash = tb2.cash
       /\ tb3.playing_cash = tb2.playing_cash
       /\ tb3.pending_proposals = tb2.pending_proposals
  BY <1>14 DEF Shape, TableFields
<1> HIDE DEF tb3
<1>16. /\ final.cash = tb2.cash /\ final.playing_cash = tb2.playing_cash
       /\ final.pending_proposals = tb2.pending_proposals
  BY <1>15 DEF register_buy_in, TableFields
<1> HIDE DEF final, r, rake
<1>17. ASSUME NEW p \in Player
       PROVE  r.balance[p] + r.tb.cash[p] + r.tb.playing_cash[p]
                  = w.balance[p] + w.tb.cash[p] + w.tb.playing_cash[p]
                      + Outcome(w.tb, vote)[p]
  <2>1. /\ w1.balance[p] \in Nat /\ w1.tb.cash[p] \in Nat /\ w1.tb.playing_cash[p] \in Nat
        /\ out[p] \in Nat /\ lost[p] \in Nat /\ left[p] \in Nat /\ take.result[p] \in Nat
        /\ tb1.playing_cash[p] \in Nat
    BY <1>1, <1>4, <1>6, <1>8, <1>9, <1>12 DEF Money
  <2>2. w1.balance[p] + w1.tb.cash[p] + w1.tb.playing_cash[p]
            = w.balance[p] + w.tb.cash[p] + w.tb.playing_cash[p] + take.result[p]
    BY <1>3 DEF Moves
  <2>3. lost[p] = IF p \in vote.who THEN w.tb.playing_cash[p] ELSE 0
    BY <1>3, <1>7, SMTT(30)
  <2>4. Outcome(w.tb, vote)[p] = left[p] - lost[p]
    <3>1. /\ Part(vote.cash, vote.who)[p] = left[p]
          /\ Part(w.tb.playing_cash, vote.who)[p] = lost[p]
      BY <1>7, <2>3 DEF Part
    <3> QED BY <2>1, <3>1 DEF Outcome, Plus, Minus
  <2>5. lost[p] <= w1.tb.playing_cash[p]
    BY <1>7, <2>1, SMTT(30)
  <2>6. Adjusted(w1.tb.playing_cash, Minus(lost))[p] = w1.tb.playing_cash[p] - lost[p]
    BY <1>6, <1>8, <2>5, Taken
  <2>7. tb1.playing_cash[p] = w1.tb.playing_cash[p] - lost[p]
    BY <1>10, <1>11, <2>6
  <2>8. Adjusted(w1.tb.cash, out)[p] = w1.tb.cash[p] + out[p]
    BY <1>6, <1>9, Added
  <2>9. tbb.cash \in Money /\ tbb.cash[p] = w1.tb.cash[p] + out[p]
    BY <1>10, <1>11, <1>13, <2>8 DEF Shape
  <2>10. Adjusted(tbb.cash, tb1.playing_cash)[p] = tbb.cash[p] + tb1.playing_cash[p]
    BY <1>12, <2>9, Added
  <2>11. tb1.playing_cash[p] <= tb1.playing_cash[p]
    BY <2>1, SMTT(30)
  <2>12. Adjusted(tb1.playing_cash, Minus(tb1.playing_cash))[p]
             = tb1.playing_cash[p] - tb1.playing_cash[p]
    BY <1>12, <2>11, Taken
  <2>13. /\ r.tb.playing_cash[p] = tb1.playing_cash[p] - tb1.playing_cash[p]
         /\ r.tb.cash[p] = tbb.cash[p] + tb1.playing_cash[p]
         /\ r.balance[p] = w1.balance[p]
    BY <1>5, <1>13, <1>14, <1>16, <2>10, <2>12
  <2>14. out[p] = left[p] - take.result[p]
    BY <1>9
  <2> DEFINE a == w1.balance[p]
             b == w1.tb.cash[p]
             c == w1.tb.playing_cash[p]
             t == take.result[p]
             l == left[p]
             x == lost[p]
             h == w.balance[p] + w.tb.cash[p] + w.tb.playing_cash[p]
             new == r.balance[p] + r.tb.cash[p] + r.tb.playing_cash[p]
  <2>15. new = a + ((b + (l - t)) + (c - x)) + ((c - x) - (c - x))
    BY <2>7, <2>9, <2>13, <2>14
  <2>16. h \in Int
    <3>1. w.balance[p] \in Nat /\ w.tb.cash[p] \in Nat /\ w.tb.playing_cash[p] \in Nat
      BY DEF Solvent, Shape, Money
    <3> QED BY <3>1, SMTT(30)
  <2>17. /\ a \in Nat /\ b \in Nat /\ c \in Nat /\ t \in Nat /\ l \in Nat /\ x \in Nat
         /\ a + b + c = h + t
    BY <2>1, <2>2
  <2> HIDE DEF a, b, c, t, l, x, h, new
  <2>18. new = h + (l - x)
    BY <2>15, <2>16, <2>17, SMTT(30)
  <2> QED BY <2>4, <2>18 DEF l, x, h, new
<1>18. r.tb.pending_proposals = w.tb.pending_proposals
  BY <1>3, <1>5, <1>10, <1>11, <1>13, <1>14, <1>16 DEF Moves
<1>19. r.balance \in Money /\ r.fees = Plus(w.fees, rake)
       /\ r.rake = w.rake + Total(rake, Player)
  BY <1>3, <1>5, <1>6
<1>20. r.fees \in Money /\ r.rake \in Nat
  <2>1. w.fees \in Money /\ w.rake \in Nat /\ Total(rake, Player) \in Nat
    BY <1>1, TotalOfMoney DEF Solvent, rake
  <2>2. Plus(w.fees, rake) \in Money
    BY <1>1, <2>1, SMTT(30) DEF Plus, Money, rake
  <2> QED BY <1>19, <2>1, <2>2, SMTT(30)
<1>21. Moves(w, r, Outcome(w.tb, vote))
  BY <1>17, <1>18, <1>19, <1>20, MovesPointwise
<1> QED BY <1>19, <1>21 DEF r, rake

\* What all players hold, with the rake of the table's room.
Wealthy(w) == Holding(w.balance, w.tb.cash, w.tb.playing_cash) + w.rake

\* A decision about a table neither makes nor loses coins, keeps the rake of the room in
\* step with the players' fees, and leaves reservations alone.
Kept(w, r) ==
    /\ Solvent(r)
    /\ r.tb.pending_proposals = w.tb.pending_proposals
    /\ Wealthy(r) = Wealthy(w)
    /\ Total(r.fees, Player) - r.rake = Total(w.fees, Player) - w.rake

\* The amounts in a world are integers.
LEMMA WorldIsInteger ==
    ASSUME NEW w, Shape(w.tb), Solvent(w)
    PROVE  /\ Integers3(w.balance, w.tb.cash, w.tb.playing_cash)
           /\ Total(w.fees, Player) \in Nat /\ w.rake \in Nat
<1>1. Integers3(w.balance, w.tb.cash, w.tb.playing_cash)
  BY SMTT(30) DEF Integers3, Shape, Solvent, Money
<1> QED BY <1>1, TotalOfMoney DEF Solvent

\* What all players hold changes by the total of what moves.
LEMMA MovesDiffer ==
    ASSUME NEW w, Integers3(w.balance, w.tb.cash, w.tb.playing_cash),
           NEW r, Integers3(r.balance, r.tb.cash, r.tb.playing_cash),
           NEW d \in [Player -> Int], Moves(w, r, d)
    PROVE  /\ Holding(r.balance, r.tb.cash, r.tb.playing_cash)
                  = Holding(w.balance, w.tb.cash, w.tb.playing_cash) + Total(d, Player)
           /\ Holding(w.balance, w.tb.cash, w.tb.playing_cash) \in Int
<1> DEFINE b == w.balance
           c == w.tb.cash
           s == w.tb.playing_cash
           bb == r.balance
           cc == r.tb.cash
           ss == r.tb.playing_cash
<1>1. \A p \in Player : bb[p] + cc[p] + ss[p] = b[p] + c[p] + s[p] + d[p]
  BY DEF Moves
<1>2. Integers3(b, c, s) /\ Integers3(bb, cc, ss)
  BY SMTT(30)
<1> HIDE DEF b, c, s, bb, cc, ss
<1>3. Holding(bb, cc, ss) = Holding(b, c, s) + Total(d, Player) /\ Holding(b, c, s) \in Int
  BY <1>1, <1>2, HoldingsDiffer, SMTT(30)
<1> QED BY <1>3 DEF b, c, s, bb, cc, ss

\* Money that only moves between a balance, the cash and the stakes is kept.
LEMMA EvenIsKept ==
    ASSUME NEW w, Shape(w.tb), Solvent(w), NEW r, Shape(r.tb), Even(w, r)
    PROVE  Kept(w, r)
<1>1. Solvent(r) /\ r.rake = w.rake /\ r.fees = w.fees
      /\ r.tb.pending_proposals = w.tb.pending_proposals
  BY DEF Even, Moves
<1>2. /\ Integers3(w.balance, w.tb.cash, w.tb.playing_cash)
      /\ Integers3(r.balance, r.tb.cash, r.tb.playing_cash)
  BY <1>1, WorldIsInteger
<1>3. NoCash \in [Player -> Int]
  BY SMTT(30) DEF NoCash
<1>4. Moves(w, r, NoCash)
  BY DEF Even
<1>5. /\ Holding(r.balance, r.tb.cash, r.tb.playing_cash)
             = Holding(w.balance, w.tb.cash, w.tb.playing_cash) + Total(NoCash, Player)
      /\ Holding(w.balance, w.tb.cash, w.tb.playing_cash) \in Int
  BY <1>2, <1>3, <1>4, MovesDiffer
<1>6. Holding(r.balance, r.tb.cash, r.tb.playing_cash)
          = Holding(w.balance, w.tb.cash, w.tb.playing_cash)
  BY <1>5, TotalOfNothing, SMTT(30)
<1> QED BY <1>1, <1>6 DEF Kept, Wealthy

\* The total of a difference.
LEMMA TotalOfDifference ==
    ASSUME NEW f \in Money, NEW g \in Money
    PROVE  /\ Plus(f, Minus(g)) \in [Player -> Int]
           /\ Total(Plus(f, Minus(g)), Player) = Total(f, Player) - Total(g, Player)
<1> DEFINE d == Plus(f, Minus(g))
<1>1. /\ d \in [Player -> Int] /\ IntegerOn(d, Player) /\ IntegerOn(g, Player)
      /\ \A p \in Player : f[p] = d[p] + g[p]
  BY SMTT(30) DEF Plus, Minus, Money, IntegerOn
<1> HIDE DEF d
<1>2. SumOf(f, Player) = SumOf(d, Player) + SumOf(g, Player)
  BY <1>1, FinitePlayer, SumPlus, SMTT(30)
<1>3. SumOf(d, Player) \in Int /\ SumOf(g, Player) \in Int
  BY <1>1, FinitePlayer, SumInteger
<1>4. SumOf(d, Player) = SumOf(f, Player) - SumOf(g, Player)
  BY <1>2, <1>3, SMTT(30)
<1> QED BY <1>1, <1>4, TotalIsSum DEF d

\* The total of a sum.
LEMMA TotalOfPlus ==
    ASSUME NEW f \in Money, NEW g \in Money
    PROVE  Total(Plus(f, g), Player) = Total(f, Player) + Total(g, Player)
<1> DEFINE h == Plus(f, g)
<1>1. /\ IntegerOn(f, Player) /\ IntegerOn(g, Player)
      /\ \A p \in Player : h[p] = f[p] + g[p]
  BY SMTT(30) DEF Plus, Money, IntegerOn
<1> HIDE DEF h
<1>2. SumOf(h, Player) = SumOf(f, Player) + SumOf(g, Player)
  BY <1>1, FinitePlayer, SumPlus, SMTT(30)
<1> QED BY <1>2, TotalIsSum DEF h

Integral(h, k, l, x, f, n) ==
    h \in Int /\ k \in Int /\ l \in Int /\ x \in Int /\ f \in Int /\ n \in Int

Equal(a, b) == a = b

\* What the players lose is what the room takes, and the room owes what it takes.
LEMMA RakeCovers ==
    ASSUME NEW h, NEW k, NEW l, NEW x, NEW f, NEW n, Integral(h, k, l, x, f, n)
    PROVE  /\ x = l + k => Equal((h + (l - x)) + (n + k), h + n)
           /\ Equal((f + k) - (n + k), f - n)
BY SMTT(30) DEF Integral, Equal

\* A result that validate_result accepts takes as much from the players of the game as it
\* gives to them and to the room.
LEMMA SettleKept ==
    ASSUME NEW w, DOMAIN w = WorldFields, Sound(w.tb), Solvent(w),
           NEW vote, vote.cash \in Money, vote.rake \in Money,
           validate_result(w.tb, vote), ~is_cancel(vote)
    PROVE  Kept(w, Settle(w, vote))
<1> DEFINE r == Settle(w, vote)
           rake == Part(vote.rake, vote.who)
           left == Part(vote.cash, vote.who)
           lost == Part(w.tb.playing_cash, vote.who)
           d == Outcome(w.tb, vote)
<1>0. /\ Shape(w.tb) /\ Counted(w.tb) /\ Registered(w.tb) /\ w.tb.playing_cash \in Money
      /\ w.fees \in Money /\ w.rake \in Nat
  BY DEF Sound, Shape, Solvent
<1>1. /\ vote.who \subseteq Players(w.tb.playing_cash)
      /\ Total(w.tb.playing_cash, vote.who)
             = Total(vote.cash, vote.who) + Total(vote.rake, vote.who)
  BY DEF validate_result
<1>2. vote.who \subseteq Player
  BY <1>1 DEF Players
<1>3. /\ Moves(w, r, d) /\ r.rake = w.rake + Total(rake, Player)
      /\ r.fees = Plus(w.fees, rake)
  BY <1>0, SettlePays
<1>4. Shape(r.tb)
  BY <1>0, <1>1, SettleEnds
<1>5. rake \in Money /\ left \in Money /\ lost \in Money
  BY <1>0 DEF Part, Money
<1>6. /\ Total(rake, Player) = Total(vote.rake, vote.who)
      /\ Total(left, Player) = Total(vote.cash, vote.who)
      /\ Total(lost, Player) = Total(w.tb.playing_cash, vote.who)
  BY <1>0, <1>2, TotalOfPart
<1>7. d \in [Player -> Int] /\ Total(d, Player) = Total(left, Player) - Total(lost, Player)
  BY <1>5, TotalOfDifference DEF Outcome
<1>8. /\ Total(rake, Player) \in Nat /\ Total(left, Player) \in Nat /\ Total(lost, Player) \in Nat
      /\ Total(w.fees, Player) \in Nat
  BY <1>0, <1>5, TotalOfMoney
<1>9. Total(r.fees, Player) = Total(w.fees, Player) + Total(rake, Player)
  BY <1>0, <1>3, <1>5, TotalOfPlus
<1> HIDE DEF r, rake, left, lost, d
<1>10. Solvent(r) /\ r.tb.pending_proposals = w.tb.pending_proposals
  BY <1>3 DEF Moves
<1>11. /\ Integers3(w.balance, w.tb.cash, w.tb.playing_cash)
       /\ Integers3(r.balance, r.tb.cash, r.tb.playing_cash)
  BY <1>0, <1>4, <1>10, WorldIsInteger
<1>12. /\ Holding(r.balance, r.tb.cash, r.tb.playing_cash)
              = Holding(w.balance, w.tb.cash, w.tb.playing_cash) + Total(d, Player)
       /\ Holding(w.balance, w.tb.cash, w.tb.playing_cash) \in Int
  BY <1>3, <1>7, <1>11, MovesDiffer
<1> DEFINE h == Holding(w.balance, w.tb.cash, w.tb.playing_cash)
           k == Total(rake, Player)
           l == Total(left, Player)
           x == Total(lost, Player)
           f == Total(w.fees, Player)
           n == w.rake
<1>13. Integral(h, k, l, x, f, n)
  <2> HIDE DEF h, k, l, x, f, n
  <2>1. h \in Int /\ k \in Nat /\ l \in Nat /\ x \in Nat /\ f \in Nat /\ n \in Nat
    BY <1>0, <1>8, <1>12 DEF h, k, l, x, f, n
  <2> QED BY <2>1, SMTT(30) DEF Integral
<1>14. Wealthy(r) = Wealthy(w)
  <2>1. Wealthy(r) = (h + (l - x)) + (n + k) /\ Wealthy(w) = h + n
    BY <1>3, <1>7, <1>12 DEF Wealthy
  <2>2. x = l + k
    BY <1>1, <1>6
  <2> HIDE DEF h, k, l, x, f, n
  <2>3. Equal((h + (l - x)) + (n + k), h + n)
    BY <1>13, <2>2, RakeCovers
  <2> QED BY <2>1, <2>3 DEF Equal
<1>15. Total(r.fees, Player) - r.rake = Total(w.fees, Player) - w.rake
  <2>1. Total(r.fees, Player) - r.rake = (f + k) - (n + k)
    BY <1>3, <1>9
  <2> HIDE DEF h, k, l, x, f, n
  <2>2. Equal((f + k) - (n + k), f - n)
    BY <1>13, RakeCovers
  <2> QED BY <2>1, <2>2 DEF Equal, f, n
<1> QED BY <1>10, <1>14, <1>15 DEF Kept, r

\* One decision after another.
LEMMA KeptTwice ==
    ASSUME NEW w, NEW mid, NEW r, Kept(w, mid), Kept(mid, r)
    PROVE  Kept(w, r)
BY DEF Kept

\* Votes are not money.
LEMMA SameMoney ==
    ASSUME NEW w, Solvent(w), NEW r, OnlyVotes(r.tb, w.tb),
           r.balance = w.balance, r.rake = w.rake, r.fees = w.fees
    PROVE  Kept(w, r)
BY DEF Kept, Solvent, OnlyVotes, Wealthy

\* A new voting object, Closed and cleanup_pending_votes.
LEMMA VotesKept ==
    ASSUME NEW w, DOMAIN w = WorldFields, Sound(w.tb), Solvent(w)
    PROVE  /\ \A vt : DOMAIN vt = VotingFields => Kept(w, [w EXCEPT !.tb.voting = vt])
           /\ Kept(w, Closed(w))
           /\ Kept(w, cleanup_pending_votes(w))
<1>1. ASSUME NEW vt, DOMAIN vt = VotingFields
      PROVE  Kept(w, [w EXCEPT !.tb.voting = vt])
  <2> DEFINE r == [w EXCEPT !.tb.voting = vt]
  <2>1. OnlyVotes(r.tb, w.tb)
    BY <1>1, VotingReplaced
  <2>2. r.balance = w.balance /\ r.rake = w.rake /\ r.fees = w.fees
    BY DEF WorldFields
  <2> HIDE DEF r
  <2>3. Kept(w, r)
    BY <2>1, <2>2, SameMoney
  <2> QED BY <2>3 DEF r
<1>2. Kept(w, Closed(w))
  <2>1. DOMAIN NoVoting = VotingFields
    BY DEF NoVoting, VotingFields
  <2> QED BY <1>1, <2>1 DEF Closed
<1>3. Kept(w, cleanup_pending_votes(w))
  <2> DEFINE r == cleanup_pending_votes(w)
  <2>1. OnlyVotes(r.tb, w.tb)
    BY PendingVotesCleared
  <2>2. r.balance = w.balance /\ r.rake = w.rake /\ r.fees = w.fees
    BY DEF WorldFields, cleanup_pending_votes
  <2> HIDE DEF r
  <2>3. Kept(w, r)
    BY <2>1, <2>2, SameMoney
  <2> QED BY <2>3 DEF r
<1> QED BY <1>1, <1>2, <1>3

\* A world as the decisions need it: the invariant of the table but for its votes, and money.
Ready(w) == DOMAIN w = WorldFields /\ Sound(w.tb) /\ Solvent(w)

\* Closed leaves everything to the decision that follows.
LEMMA ClosedReady ==
    ASSUME NEW w, Ready(w)
    PROVE  Ready(Closed(w)) /\ OnlyVotes(Closed(w).tb, w.tb) /\ Kept(w, Closed(w))
<1>1. DOMAIN Closed(w) = WorldFields /\ Sound(Closed(w).tb) /\ OnlyVotes(Closed(w).tb, w.tb)
  BY ClosedVoting DEF Ready
<1>2. Kept(w, Closed(w))
  BY VotesKept DEF Ready
<1> QED BY <1>1, <1>2 DEF Ready, Kept

\* A decision whose votes are cleaned up.
LEMMA CleanedUp ==
    ASSUME NEW w, NEW r, Ready(r), Kept(w, r)
    PROVE  Kept(w, cleanup_pending_votes(r))
BY VotesKept, KeptTwice DEF Ready

\* rollback
LEMMA RollbackKept ==
    ASSUME NEW w, Ready(w), NEW full \in BOOLEAN
    PROVE  Kept(w, rollback(w, full)) /\ Ready(rollback(w, full))
<1> DEFINE r == rollback(w, full)
<1>1. DOMAIN w = WorldFields /\ Shape(w.tb) /\ Counted(w.tb) /\ Registered(w.tb) /\ Solvent(w)
  BY DEF Ready, Sound
<1>2. DOMAIN r = WorldFields /\ TInv(r.tb)
  BY <1>1, RollbackEnds
<1>3. Even(w, r)
  BY <1>1, RollbackPays
<1> HIDE DEF r
<1>4. Shape(r.tb) /\ Sound(r.tb)
  BY <1>2 DEF TInv, Sound
<1>5. Kept(w, r)
  BY <1>1, <1>3, <1>4, EvenIsKept
<1> QED BY <1>2, <1>4, <1>5 DEF Ready, Kept, r

\* Closing a voting and calling the game off.
LEMMA CalledOffKept ==
    ASSUME NEW w, Ready(w)
    PROVE  Kept(w, rollback(Closed(w), FALSE)) /\ Ready(rollback(Closed(w), FALSE))
BY ClosedReady, RollbackKept, KeptTwice

\* scheduled_voting_for_playing
LEMMA StartKept ==
    ASSUME NEW w, Ready(w), TInv(w.tb), is_voting_for(w.tb.voting, "playing"),
           NEW owner, NEW r \in scheduled_voting_for_playing(w, owner)
    PROVE  Kept(w, r)
<1> DEFINE valid == ValidVotes(w.tb, w.tb.voting.votes)
           vt == [w.tb.voting EXCEPT !.votes = valid]
           w0 == [w EXCEPT !.tb.voting = vt]
           start(c) == apply_start_playing_with_consensus(Closed(w), c,
                                                          AgreeingWitnesses(vt, owner, c))
<1>0. DOMAIN w = WorldFields /\ Sound(w.tb) /\ Solvent(w) /\ is_free(w.tb)
  BY KindOfVoting DEF Ready
<1>1. DOMAIN vt = VotingFields /\ vt.votes = valid
  <2> HIDE DEF valid
  <2> QED BY <1>0 DEF Sound, Shape, VotingFields
<1>2. \A v \in DOMAIN valid : /\ v \in DOMAIN w.tb.voting.votes
                              /\ valid[v] = w.tb.voting.votes[v]
                              /\ validate_ivariants(w.tb, valid[v])
  BY DEF ValidVotes
<1>3. \A v \in DOMAIN valid : valid[v] \in StartVotes
  BY <1>0, <1>2 DEF TInv, VotesAreApplicable, Applicable
<1> HIDE DEF valid
<1>4. \/ r = cleanup_pending_votes(w0)
      \/ r = cleanup_pending_votes(Closed(w))
      \/ \E c \in Winners(valid) : r = cleanup_pending_votes(start(c))
  <2>1. scheduled_voting_for_playing(w, owner) =
            IF Cardinality(DOMAIN vt.votes) < MinVotesForPlaying
            THEN {cleanup_pending_votes(w0)}
            ELSE IF ~Consensus(vt.votes) THEN {cleanup_pending_votes(Closed(w))}
            ELSE {cleanup_pending_votes(start(c)) : c \in Winners(vt.votes)}
    BY DEF scheduled_voting_for_playing, valid
  <2> HIDE DEF vt, w0, start
  <2> QED BY <1>1, <2>1
<1> HIDE DEF vt
<1>5. CASE r = cleanup_pending_votes(w0)
  <2>1. DOMAIN w0 = WorldFields /\ Sound(w0.tb)
    BY <1>0, <1>1, VotingReplaced
  <2>2. Kept(w, w0)
    BY <1>0, <1>1, VotesKept
  <2> HIDE DEF w0
  <2> QED BY <1>5, <2>1, <2>2, CleanedUp DEF Ready, Kept
<1>6. CASE r = cleanup_pending_votes(Closed(w))
  BY <1>6, ClosedReady, CleanedUp
<1>7. ASSUME NEW c \in Winners(valid), r = cleanup_pending_votes(start(c))
      PROVE  Kept(w, r)
  <2>1. validate_initial_data(w.tb, c) /\ c.cash \in Money
    <3>1. PICK v \in DOMAIN valid : c = valid[v]
      BY DEF Winners, Contents
    <3>2. c \in StartVotes /\ validate_ivariants(w.tb, c)
      BY <1>2, <1>3, <3>1
    <3> QED BY <3>2, TablesAssumption DEF validate_ivariants, Money
  <2>2. Ready(Closed(w)) /\ OnlyVotes(Closed(w).tb, w.tb) /\ Kept(w, Closed(w))
    BY ClosedReady
  <2>3. validate_initial_data(Closed(w).tb, c)
    BY <2>1, <2>2 DEF validate_initial_data, OnlyVotes
  <2>4. DOMAIN start(c) = WorldFields /\ Sound(start(c).tb)
    BY <2>1, <2>2, <2>3, StartTakesCash DEF Sound, Ready
  <2>5. Even(Closed(w), start(c))
    BY <2>1, <2>2, <2>3, StartPays DEF Sound, Ready
  <2> HIDE DEF start
  <2>6. Kept(Closed(w), start(c))
    BY <2>2, <2>4, <2>5, EvenIsKept DEF Sound, Ready
  <2>7. Kept(w, start(c)) /\ Ready(start(c))
    BY <2>2, <2>4, <2>6, KeptTwice DEF Ready, Kept
  <2> QED BY <1>7, <2>7, CleanedUp
<1> QED BY <1>4, <1>5, <1>6, <1>7

\* scheduled_voting_for_results
LEMMA ResultKept ==
    ASSUME NEW w, Ready(w), TInv(w.tb), is_voting_for(w.tb.voting, "results"),
           NEW r \in scheduled_voting_for_results(w)
    PROVE  Kept(w, r)
<1> DEFINE done(c) == apply_game_result_with_consensus(Closed(w), c)
<1>0. ~is_free(w.tb)
  BY KindOfVoting
<1>1. \/ r = rollback(Closed(w), FALSE)
      \/ \E c \in Winners(w.tb.voting.votes) : r = cleanup_pending_votes(done(c))
  <2> HIDE DEF done
  <2> QED BY DEF scheduled_voting_for_results, done
<1>2. CASE r = rollback(Closed(w), FALSE)
  BY <1>2, CalledOffKept
<1>3. ASSUME NEW c \in Winners(w.tb.voting.votes), r = cleanup_pending_votes(done(c))
      PROVE  Kept(w, r)
  <2>1. validate_result(w.tb, c) /\ c.cash \in Money /\ c.rake \in Money
    <3>1. PICK v \in DOMAIN w.tb.voting.votes : c = w.tb.voting.votes[v]
      BY DEF Winners, Contents
    <3>2. Applicable(w.tb, c)
      BY <3>1 DEF TInv, VotesAreApplicable
    <3>3. c \in ResultVotes /\ validate_result(w.tb, c)
      BY <1>0, <3>2 DEF Applicable
    <3> QED BY <3>3, TablesAssumption, MoneyAssumption DEF Money
  <2>2. Ready(Closed(w)) /\ OnlyVotes(Closed(w).tb, w.tb) /\ Kept(w, Closed(w))
    BY ClosedReady
  <2>3. Kept(w, done(c)) /\ Ready(done(c))
    <3>1. CASE is_cancel(c)
      <4>1. done(c) = rollback(Closed(w), FALSE)
        BY <3>1 DEF apply_game_result_with_consensus
      <4> QED BY <4>1, CalledOffKept
    <3>2. CASE ~is_cancel(c)
      <4>1. done(c) = Settle(Closed(w), c)
        BY <3>2 DEF apply_game_result_with_consensus
      <4> HIDE DEF done
      <4>2. validate_result(Closed(w).tb, c)
        BY <2>1, <2>2 DEF validate_result, OnlyVotes
      <4>3. c.who \subseteq Players(Closed(w).tb.playing_cash)
        BY <3>2, <4>2 DEF validate_result
      <4>4. DOMAIN done(c) = WorldFields /\ Sound(done(c).tb)
        BY <2>1, <2>2, <4>1, <4>3, SettleEnds DEF Sound, Ready
      <4>5. Kept(Closed(w), done(c))
        BY <2>1, <2>2, <3>2, <4>1, <4>2, SettleKept DEF Ready
      <4> QED BY <2>2, <4>4, <4>5, KeptTwice DEF Ready, Kept
    <3> QED BY <3>1, <3>2
  <2> HIDE DEF done
  <2> QED BY <1>3, <2>3, CleanedUp
<1> QED BY <1>1, <1>2, <1>3

\* scheduled_voting and expired_voting
LEMMA VotingKept ==
    ASSUME NEW w, Ready(w), TInv(w.tb), NEW owner, NEW r,
           r \in scheduled_voting(w, owner) \/ r \in expired_voting(w)
    PROVE  Kept(w, r)
<1>0. Kept(w, w)
  BY DEF Kept, Ready
<1>1. CASE is_voting_for(w.tb.voting, "playing")
  <2>1. CASE r \in scheduled_voting_for_playing(w, owner)
    BY <1>1, <2>1, StartKept
  <2>2. CASE r = cleanup_pending_votes(Closed(w))
    BY <2>2, ClosedReady, CleanedUp
  <2> QED BY <1>1, <2>1, <2>2 DEF scheduled_voting, expired_voting
<1>2. CASE ~is_voting_for(w.tb.voting, "playing") /\ is_voting_for(w.tb.voting, "results")
  <2>1. CASE r \in scheduled_voting_for_results(w)
    BY <1>2, <2>1, ResultKept
  <2>2. CASE r = rollback(Closed(w), FALSE)
    BY <2>2, CalledOffKept
  <2> QED BY <1>2, <2>1, <2>2
        DEF scheduled_voting, expired_voting, expire_voting_for_results
<1>3. CASE ~is_voting_for(w.tb.voting, "playing") /\ ~is_voting_for(w.tb.voting, "results")
  BY <1>0, <1>3 DEF scheduled_voting, expired_voting
<1> QED BY <1>1, <1>2, <1>3

-----------------------------------------------------------------------------
(* The coins in reservations.                                                *)

Priced(S) == \A b \in S : b.amount \in Nat

Amounts(S) == [b \in S |-> b.amount]

Held(S) == SumOf(Amounts(S), S)

\* Sums of amounts, as the recursion of MapThenSumSet computes them.
AmountSums(D, g) ==
    g = [s \in D |-> IF s = {} THEN 0 ELSE Chosen(s).amount + g[s \ {Chosen(s)}]]

\* Both recursions are the same on the subsets of S.
LEMMA SameRecursion ==
    ASSUME NEW S, NEW g
    PROVE  AmountSums(SUBSET S, g) <=> Sums(Amounts(S), SUBSET S, g)
<1> DEFINE one == [s \in SUBSET S |->
                      IF s = {} THEN 0 ELSE Chosen(s).amount + g[s \ {Chosen(s)}]]
           two == [s \in SUBSET S |->
                      IF s = {} THEN 0 ELSE Amounts(S)[Chosen(s)] + g[s \ {Chosen(s)}]]
<1>1. ASSUME NEW s \in SUBSET S, s # {} PROVE Amounts(S)[Chosen(s)] = Chosen(s).amount
  <2>1. Chosen(s) \in S
    BY <1>1, ChosenIn
  <2> QED BY <2>1 DEF Amounts
<1>2. one = two
  BY <1>1
<1>3. (AmountSums(SUBSET S, g) <=> g = one) /\ (Sums(Amounts(S), SUBSET S, g) <=> g = two)
  BY DEF AmountSums, Sums
<1> HIDE DEF one, two
<1> QED BY <1>2, <1>3

\* The sum that Refunded pays and MoneyIsConserved counts.
LEMMA HeldIsSum ==
    ASSUME NEW S, IsFiniteSet(S)
    PROVE  MapThenSumSet(LAMBDA b : b.amount, S) = Held(S)
<1> DEFINE g == CHOOSE g : AmountSums(SUBSET S, g)
<1>1. PICK h : Sums(Amounts(S), SUBSET S, h) /\ SumOf(Amounts(S), S) = h[S]
  BY SumIsValue
<1>2. AmountSums(SUBSET S, h)
  BY <1>1, SameRecursion
<1>3. AmountSums(SUBSET S, g)
  BY <1>2
<1>4. MapThenSumSet(LAMBDA b : b.amount, S) = g[S]
  BY DEF MapThenSumSet, MapThenFoldSet, AmountSums, Chosen
<1> HIDE DEF g
<1>5. Sums(Amounts(S), SUBSET S, g)
  BY <1>3, SameRecursion
<1>6. SameAt(g, h, S)
  BY <1>1, <1>5, SumsAgree
<1> QED BY <1>1, <1>4, <1>6 DEF Held, SameAt

\* Any function that gives the amounts.
LEMMA HeldAs ==
    ASSUME NEW S, IsFiniteSet(S), Priced(S), NEW T, T \subseteq S
    PROVE  /\ IntegerOn(Amounts(S), T) /\ IsFiniteSet(T) /\ Priced(T)
           /\ SumOf(Amounts(S), T) = Held(T) /\ Held(T) \in Nat
<1>1. IsFiniteSet(T) /\ Priced(T)
  BY FS_Subset DEF Priced
<1>2. IntegerOn(Amounts(S), T)
  BY SMTT(30) DEF IntegerOn, Amounts, Priced
<1>3. \A b \in T : Amounts(S)[b] = Amounts(T)[b]
  BY DEF Amounts
<1>4. SumOf(Amounts(S), T) = SumOf(Amounts(T), T)
  BY <1>1, <1>3, SumCongruent
<1>5. \A b \in T : Amounts(T)[b] \in Nat
  BY <1>1 DEF Amounts, Priced
<1>6. SumOf(Amounts(T), T) \in Nat
  BY <1>1, <1>5, SumNatural
<1> QED BY <1>1, <1>2, <1>4, <1>6 DEF Held

\* Some reservations and the others.
LEMMA HeldSplit ==
    ASSUME NEW S, IsFiniteSet(S), Priced(S), NEW T, T \subseteq S
    PROVE  Held(S) = Held(T) + Held(S \ T)
<1>1. SumOf(Amounts(S), S) = SumOf(Amounts(S), T) + SumOf(Amounts(S), S \ T)
  <2>1. IntegerOn(Amounts(S), S)
    BY HeldAs
  <2> QED BY <2>1, SumSplit, SMTT(30)
<1>2. SumOf(Amounts(S), T) = Held(T) /\ SumOf(Amounts(S), S \ T) = Held(S \ T)
  <2>1. S \ T \subseteq S
    OBVIOUS
  <2> QED BY <2>1, HeldAs
<1> QED BY <1>1, <1>2 DEF Held

\* One more reservation.
LEMMA HeldAdd ==
    ASSUME NEW S, IsFiniteSet(S), Priced(S), NEW x, x \notin S, x.amount \in Nat
    PROVE  /\ IsFiniteSet(S \cup {x}) /\ Priced(S \cup {x})
           /\ Held(S \cup {x}) = Held(S) + x.amount
<1> DEFINE T == S \cup {x}
<1>1. IsFiniteSet(T) /\ Priced(T) /\ S \subseteq T /\ x \in T
  BY FS_AddElement DEF Priced
<1>2. IntegerOn(Amounts(T), T) /\ SumOf(Amounts(T), S) = Held(S) /\ Held(S) \in Nat
  BY <1>1, HeldAs
<1>3. SumOf(Amounts(T), T) = Amounts(T)[x] + SumOf(Amounts(T), S)
  BY <1>2, SumAdd
<1>4. Amounts(T)[x] = x.amount
  BY <1>1 DEF Amounts
<1>5. Held(T) = x.amount + Held(S)
  BY <1>2, <1>3, <1>4 DEF Held
<1> HIDE DEF T
<1>6. Held(T) = Held(S) + x.amount
  BY <1>2, <1>5, SMTT(30)
<1> QED BY <1>1, <1>6 DEF T

\* Nothing is reserved.
LEMMA HeldNothing == Held({}) = 0
BY SumEmpty DEF Held

\* One reservation.
LEMMA HeldOne ==
    ASSUME NEW x, x.amount \in Nat
    PROVE  IsFiniteSet({x}) /\ Priced({x}) /\ Held({x}) = x.amount
<1>1. IsFiniteSet({}) /\ Priced({}) /\ x \notin {}
  BY FS_EmptySet DEF Priced
<1>2. {} \cup {x} = {x}
  OBVIOUS
<1>3. IsFiniteSet({x}) /\ Priced({x}) /\ Held({x}) = Held({}) + x.amount
  <2> DEFINE E == {}
  <2>1. IsFiniteSet(E) /\ Priced(E) /\ x \notin E /\ E \cup {x} = {x}
    BY <1>1, <1>2, SMTT(30)
  <2> HIDE DEF E
  <2>2. /\ IsFiniteSet(E \cup {x}) /\ Priced(E \cup {x})
        /\ Held(E \cup {x}) = Held(E) + x.amount
    BY <2>1, HeldAdd
  <2> QED BY <2>1, <2>2 DEF E
<1> QED BY <1>3, HeldNothing, SMTT(30)

-----------------------------------------------------------------------------
(* What a voting decides, for every number of voters and contents.  Both     *)
(* results count votes: all that has to be known of a state is that finitely *)
(* many have been cast.                                                      *)

FinitelyMany == IsFiniteSet(DOMAIN ballots)

\* Numbers of votes: each group is a part of the votes, and two groups are disjoint.
LEMMA GroupsAreCounted ==
    ASSUME FinitelyMany
    PROVE  /\ Turnout \in Nat
           /\ \A c : /\ Cardinality(Supporters(ballots, c)) \in Nat
                     /\ Cardinality(Supporters(ballots, c)) <= Turnout
           /\ \A c, o : c # o => Cardinality(Supporters(ballots, c))
                                     + Cardinality(Supporters(ballots, o)) <= Turnout
<1>1. \A c : /\ IsFiniteSet(Supporters(ballots, c))
             /\ Cardinality(Supporters(ballots, c)) <= Turnout
  <2> TAKE c
  <2>1. Supporters(ballots, c) \in SUBSET DOMAIN ballots
    BY SMTT(30) DEF Supporters
  <2> QED BY <2>1, FS_Subset, SMTT(30) DEF FinitelyMany, Turnout
<1>2. Turnout \in Nat /\ \A c : Cardinality(Supporters(ballots, c)) \in Nat
  BY <1>1, FS_CardinalityType, SMTT(30) DEF FinitelyMany, Turnout
<1>3. ASSUME NEW c, NEW o, c # o
      PROVE  Cardinality(Supporters(ballots, c)) + Cardinality(Supporters(ballots, o)) <= Turnout
  <2> DEFINE A == Supporters(ballots, c)
             B == Supporters(ballots, o)
  <2>1. A \cap B = {} /\ A \cup B \in SUBSET DOMAIN ballots
    BY <1>3, SMTT(30) DEF Supporters
  <2>2. Cardinality(A \cup B) = Cardinality(A) + Cardinality(B) - Cardinality(A \cap B)
    BY <1>1, FS_Union, SMTT(30)
  <2>3. Cardinality(A \cup B) <= Turnout
    BY <2>1, FS_Subset, SMTT(30) DEF FinitelyMany, Turnout
  <2>4. Cardinality(A) \in Nat /\ Cardinality(B) \in Nat /\ Cardinality(A \cap B) = 0
    BY <1>2, <2>1, FS_EmptySet, SMTT(30)
  <2> HIDE DEF A, B
  <2>5. Cardinality(A) + Cardinality(B) <= Turnout
    BY <2>2, <2>3, <2>4, SMTT(30)
  <2> QED BY <2>5, SMTT(30) DEF A, B
<1> QED BY <1>1, <1>2, <1>3, SMTT(30)

\* A content with more than half of the votes is the only largest group.
LEMMA MajorityIsLargest ==
    ASSUME FinitelyMany, NEW c \in Contents(ballots),
           2 * Cardinality(Supporters(ballots, c)) > Turnout
    PROVE  Winners(ballots) = {c}
<1> DEFINE n(o) == Cardinality(Supporters(ballots, o))
<1>1. Turnout \in Nat /\ n(c) \in Nat /\ \A o : n(o) \in Nat
  BY GroupsAreCounted, SMTT(30)
<1>2. ASSUME NEW o, o # c PROVE n(o) < n(c)
  <2>1. n(c) + n(o) <= Turnout
    BY <1>2, GroupsAreCounted, SMTT(30)
  <2>2. 2 * n(c) > Turnout /\ n(o) \in Nat
    BY <1>1, SMTT(30)
  <2> HIDE DEF n
  <2> QED BY <1>1, <2>1, <2>2, SMTT(30)
<1>3. c \in Winners(ballots)
  <2>1. ASSUME NEW o PROVE n(o) <= n(c)
    <3> HIDE DEF n
    <3> QED BY <1>1, <1>2, SMTT(30)
  <2> QED BY <2>1, SMTT(30) DEF Winners
<1>4. ASSUME NEW o \in Winners(ballots) PROVE o = c
  <2>1. n(c) <= n(o)
    BY SMTT(30) DEF Winners
  <2> HIDE DEF n
  <2> QED BY <1>1, <1>2, <2>1, SMTT(30)
<1> QED BY <1>3, <1>4, SMTT(30)

\* Votes arrive one by one.
LEMMA StaysFinite == FinitelyMany /\ [VotingNext]_ballots => FinitelyMany'
<1> SUFFICES ASSUME FinitelyMany, [VotingNext]_ballots PROVE FinitelyMany'
  BY SMTT(30)
<1>1. CASE UNCHANGED ballots
  BY <1>1, SMTT(30) DEF FinitelyMany
<1>2. ASSUME NEW v \in Participant, NEW c \in Content, collect_votes(v, c) PROVE FinitelyMany'
  <2>1. DOMAIN ballots' = DOMAIN ballots \cup {v}
    BY <1>2, SMTT(30) DEF collect_votes, AddVote
  <2>2. IsFiniteSet(DOMAIN ballots \cup {v})
    BY FS_AddElement, SMTT(30) DEF FinitelyMany
  <2> QED BY <2>1, <2>2, SMTT(30) DEF FinitelyMany
<1> QED BY <1>1, <1>2, SMTT(30) DEF VotingNext

\* No vote has been cast at first.
LEMMA InitiallyFinite == VotingInit => FinitelyMany
<1> SUFFICES ASSUME VotingInit PROVE FinitelyMany
  BY SMTT(30)
<1>1. DOMAIN ballots = {}
  BY SMTT(30) DEF VotingInit
<1> QED BY <1>1, FS_EmptySet, SMTT(30) DEF FinitelyMany

\* voting_impl never picks another content than the one that more than half of the
\* voters agree on, whatever the required percentage is.
THEOREM MajorityIsPicked == VotingSpec => []MajorityWins
<1>1. FinitelyMany => MajorityWins
  BY MajorityIsLargest, SMTT(30) DEF MajorityWins
<1> QED BY <1>1, InitiallyFinite, StaysFinite, PTL DEF VotingSpec

\* The required percentage is a number.  It is a lemma of its own because the provers
\* enumerate a range whose bound they are told.
LEMMA PercentIsInteger == RequiredPercent \in Int
<1>1. \A n : \A p \in 0..n : p \in Int
  BY SMTT(30)
<1> QED BY <1>1, PercentAssumption

\* Two different contents make two groups.
LEMMA PairHasTwo ==
    ASSUME NEW a, NEW b, b # a
    PROVE  Cardinality({a} \cup {b}) = 2
<1> DEFINE S == {a}
<1>1. IsFiniteSet(S) /\ Cardinality(S) = 1
  BY FS_Singleton
<1>2. b \notin S
  BY SMTT(30)
<1> HIDE DEF S
<1>3. Cardinality(S \cup {b}) = Cardinality(S) + 1
  BY <1>1, <1>2, FS_AddElement, SMTT(30)
<1>4. Cardinality(S \cup {b}) = 2
  BY <1>1, <1>3, SMTT(30)
<1> QED BY <1>4, SMTT(30) DEF S

\* One voter against all others makes two groups, of which the others' is the largest.
LEMMA OneAgainstAll ==
    ASSUME FinitelyMany, NEW v \in DOMAIN ballots, NEW c \in Contents(ballots),
           Turnout >= 3, DOMAIN ballots \ {v} = Supporters(ballots, c)
    PROVE  Winners(ballots) = {c} /\ Cardinality(Contents(ballots)) = 2
<1>1. Turnout \in Nat
  BY GroupsAreCounted, SMTT(30)
<1>2. Cardinality(Supporters(ballots, c)) = Turnout - 1
  BY FS_RemoveElement, SMTT(30) DEF FinitelyMany, Turnout
<1>3. 2 * Cardinality(Supporters(ballots, c)) > Turnout
  BY <1>1, <1>2, SMTT(30)
<1>4. Winners(ballots) = {c}
  BY <1>3, MajorityIsLargest, SMTT(30)
<1>5. ballots[v] # c
  BY SMTT(30) DEF Supporters
<1>6. Contents(ballots) = {c} \cup {ballots[v]}
  BY SMTT(30) DEF Contents, Supporters
<1>7. Cardinality({c} \cup {ballots[v]}) = 2
  BY <1>5, PairHasTwo
<1> QED BY <1>4, <1>6, <1>7

\* A voter against all others misses the required percentage by a third at most.
LEMMA CheaterLoses ==
    ASSUME FinitelyMany, RequiredPercent <= 6667
    PROVE  OneCheaterIsHarmless
<1> SUFFICES ASSUME NEW v \in DOMAIN ballots, NEW c \in Contents(ballots),
                    Turnout >= 3, DOMAIN ballots \ {v} = Supporters(ballots, c)
             PROVE  Consensus(ballots) /\ Winners(ballots) = {c}
  BY SMTT(30) DEF OneCheaterIsHarmless
<1>1. Turnout \in Nat
  BY GroupsAreCounted, SMTT(30)
<1>2. Winners(ballots) = {c} /\ Cardinality(Contents(ballots)) = 2
  BY OneAgainstAll, SMTT(30)
<1>3. MissPercent(ballots) = 10000 \div Turnout
  BY <1>2, SMTT(30) DEF MissPercent, Turnout, GRAPHENE_100_PERCENT
<1>4. 10000 \div Turnout <= 3333
  BY <1>1, SMTT(30)
<1>5. Consensus(ballots)
  <2>1. DOMAIN ballots # {}
    BY SMTT(30)
  <2>2. MissPercent(ballots) \in Int /\ MissPercent(ballots) <= 3333
    BY <1>1, <1>3, <1>4, SMTT(30)
  <2>3. MissPercent(ballots) <= 10000 - RequiredPercent
    BY <2>2, PercentIsInteger, SMTT(30)
  <2> QED BY <2>1, <2>3, SMTT(30) DEF Consensus, GRAPHENE_100_PERCENT
<1> QED BY <1>2, <1>5, SMTT(30)

\* As long as at most two thirds of the votes are required (the code's default is 60
\* percent), one voter who disagrees with all the others neither prevents nor decides a
\* voting of three or more.
THEOREM OneCheaterLoses ==
    ASSUME RequiredPercent <= 6667
    PROVE  VotingSpec => []OneCheaterIsHarmless
<1>1. FinitelyMany => OneCheaterIsHarmless
  BY CheaterLoses, SMTT(30)
<1> QED BY <1>1, InitiallyFinite, StaysFinite, PTL DEF VotingSpec
=============================================================================

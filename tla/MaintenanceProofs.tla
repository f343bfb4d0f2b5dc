-------------------------- MODULE MaintenanceProofs --------------------------
(***************************************************************************)
(* What a maintenance decides: proofs about Witnesses, for every number of *)
(* witnesses, every threshold of missed slots and every outcome of the     *)
(* elections, and about Rooms, for all values of its constants.            *)
(*                                                                         *)
(* A block becomes irreversible only with the confirmation of seven of ten *)
(* witnesses.  The invariant bounds the confirmations by the head block,   *)
(* so that the element which nth_element selects exists.                   *)
(*                                                                         *)
(* A witness that never misses a slot waits less than two rounds for its   *)
(* turn.  Turns are counted in slots and shuffles in blocks, so the        *)
(* invariant speaks of the slot of the last shuffle: the round has had at  *)
(* least as many slots as blocks since, nobody had waited for a round or   *)
(* more before it, and nobody has missed a turn after it.                  *)
(*                                                                         *)
(* The irreversible block is less than two rounds behind: who has had a    *)
(* turn in that time has confirmed a block of that time, because blocks    *)
(* are no more than slots, and the others are too few.                     *)
(*                                                                         *)
(* WeightsAreCurrent is not inductive: when the walk over the tables of a  *)
(* room ends, the tables that it never visited would keep the weight of    *)
(* the rating before.  The strengthening says where such tables are: at or *)
(* after the place where the next walk begins.  A walk visits a prefix of  *)
(* what is left, and the whole of it when it ends.                         *)
(*                                                                         *)
(* A silent table has a negative weight because ratings are not negative,  *)
(* and ratings are bounded because the weights of a room's measurements do *)
(* not exceed their times; both sums are those of Sums.  A maintenance     *)
(* rates a room as long as one is ready, since the first of them in the    *)
(* order of the last ratings has a place.                                  *)
(***************************************************************************)
EXTENDS Witnesses, Rooms, Sums, WellFoundedInduction

\* Zenon proves the steps that name no other prover.
USE ZenonT(60)

WitnessFields == {"last_aslot", "last_confirmed_block_num", "total_missed"}

\* The witness objects wits, of which none confirms a block after block `last`.
ConfirmUpTo(wits, last) ==
    \A w \in Witness : /\ DOMAIN wits[w] = WitnessFields
                       /\ wits[w].last_confirmed_block_num \in 0..last

Inv ==
    /\ gpo.active_witnesses \in ActiveSets
    /\ dgp.head_block_number \in Nat
    /\ dgp.last_irreversible_block_num \in 0..dgp.head_block_number
    /\ DOMAIN witness = Witness
    /\ ConfirmUpTo(witness, dgp.head_block_number)

\* The members of S whose number is less than n, and at most n.
Below(S, c, n) == {w \in S : c[w] < n}

UpTo(S, c, n) == {w \in S : c[w] <= n}

-----------------------------------------------------------------------------
\* Among finitely many numbers there is one at position k of their order.
LEMMA NthExists ==
    ASSUME NEW S, IsFiniteSet(S), NEW last \in Nat, NEW c \in [S -> 0..last],
           NEW k \in Nat, k < Cardinality(S)
    PROVE  \E n \in {c[w] : w \in S} :
              Cardinality(Below(S, c, n)) <= k /\ k < Cardinality(UpTo(S, c, n))
<1> DEFINE below(n) == {w \in S : c[w] < n}
           upto(n) == {w \in S : c[w] <= n}
           Enough == {n \in Nat : k < Cardinality(upto(n))}
<1>1. \A n : /\ IsFiniteSet(below(n)) /\ Cardinality(below(n)) \in Nat
             /\ IsFiniteSet(upto(n)) /\ Cardinality(upto(n)) \in Nat
  BY FS_Subset, FS_CardinalityType
<1>2. last \in Enough
  <2>1. upto(last) = S
    BY SMTT(30)
  <2> QED BY <2>1
<1>3. PICK n \in Enough : \A x \in Enough : ~(<<x, n>> \in OpToRel(<, Nat))
  <2>1. Enough \subseteq Nat /\ Enough # {}
    BY <1>2
  <2> HIDE DEF Enough
  <2> QED BY <2>1, NatLessThanWellFounded, WFMin
<1>4. \A x \in Enough : ~(x < n)
  BY <1>3 DEF OpToRel
<1>5. n \in Nat /\ k < Cardinality(upto(n))
  OBVIOUS
<1>6. Cardinality(below(n)) <= k
  <2>1. CASE n = 0
    <3>1. below(n) = {}
      BY <2>1, SMTT(30)
    <3> QED BY <3>1, FS_EmptySet, SMTT(30)
  <2>2. CASE n # 0
    <3>1. below(n) = upto(n - 1)
      BY <1>5, <2>2, SMTT(30)
    <3>2. n - 1 \in Nat /\ n - 1 \notin Enough
      BY <1>4, <1>5, <2>2, SMTT(30)
    <3>3. ~(k < Cardinality(upto(n - 1)))
      BY <3>2
    <3>4. Cardinality(upto(n - 1)) \in Nat
      BY <1>1
    <3> HIDE DEF upto, below
    <3> QED BY <3>1, <3>3, <3>4, SMTT(30)
  <2> QED BY <2>1, <2>2
<1>7. n \in {c[w] : w \in S}
  <2> SUFFICES ASSUME n \notin {c[w] : w \in S} PROVE FALSE
    OBVIOUS
  <2>1. upto(n) = below(n)
    BY <1>5, SMTT(30)
  <2>2. Cardinality(below(n)) \in Nat
    BY <1>1
  <2> HIDE DEF upto, below
  <2> QED BY <1>5, <1>6, <2>1, <2>2, SMTT(30)
<1> QED BY <1>5, <1>6, <1>7 DEF Below, UpTo

\* The greater of two numbers.
LEMMA MaxOfTwo ==
    ASSUME NEW a \in Nat, NEW b \in Nat
    PROVE  Max({a, b}) = IF a >= b THEN a ELSE b
<1>1. \E x \in {a, b} : \A y \in {a, b} : x >= y
  BY SMTT(30)
<1>2. Max({a, b}) \in {a, b} /\ \A y \in {a, b} : Max({a, b}) >= y
  BY <1>1 DEF Max
<1> QED BY <1>2, SMTT(30)

\* The index that update_last_irreversible_block gives to nth_element leaves at most three of
\* ten witnesses before it, and no more would do.
LEMMA OffsetOfN ==
    ASSUME gpo.active_witnesses \in ActiveSets
    PROVE  /\ N \in Nat \ {0} /\ offset \in Nat /\ offset < N /\ 10 * offset <= 3 * N
           /\ \A k \in Nat : 10 * k <= 3 * N => k <= offset
<1>1. /\ gpo.active_witnesses \subseteq Witness /\ gpo.active_witnesses # {}
      /\ IsFiniteSet(gpo.active_witnesses)
  BY WitnessesAssumption, FS_Subset
<1>2. N \in Nat \ {0}
  BY <1>1, FS_CardinalityType, FS_EmptySet DEF N
<1>3. offset = (30 * N) \div 100
  BY SMTT(30) DEF offset, IrreversibleThreshold
<1> HIDE DEF N, offset
<1> QED BY <1>2, <1>3, Z3

\* The block that nth_element selects: what it means to be the element at index offset.
LEMMA NthPosition ==
    ASSUME gpo.active_witnesses \in ActiveSets,
           NEW last \in Nat, NEW wits, ConfirmUpTo(wits, last)
    PROVE  LET nth == nth_confirmed(wits)
               c == [w \in gpo.active_witnesses |-> wits[w].last_confirmed_block_num]
           IN  /\ nth \in {c[w] : w \in gpo.active_witnesses}
               /\ Cardinality(Below(gpo.active_witnesses, c, nth)) <= offset
               /\ offset < Cardinality(UpTo(gpo.active_witnesses, c, nth))
<1> DEFINE S == gpo.active_witnesses
           c == [w \in S |-> wits[w].last_confirmed_block_num]
           nth == nth_confirmed(wits)
<1>1. S \subseteq Witness /\ IsFiniteSet(S)
  BY WitnessesAssumption, FS_Subset
<1>2. \A w \in S : c[w] \in 0..last
  BY <1>1 DEF ConfirmUpTo
<1>3. offset \in Nat /\ offset < N
  BY OffsetOfN
<1>4. \E n \in {c[w] : w \in S} :
         Cardinality(Below(S, c, n)) <= offset /\ offset < Cardinality(UpTo(S, c, n))
  <2>1. offset < Cardinality(S)
    BY <1>3 DEF N
  <2>2. c \in [S -> 0..last]
    BY <1>2
  <2> HIDE DEF S, c
  <2> QED BY <1>1, <1>3, <2>1, <2>2, NthExists
<1>5. nth = CHOOSE n \in {c[w] : w \in S} :
                /\ Cardinality(Below(S, c, n)) <= offset
                /\ offset < Cardinality(UpTo(S, c, n))
  BY DEF nth_confirmed, Below, UpTo
<1> QED BY <1>4, <1>5

\* Seven of ten active witnesses have confirmed the block that nth_element selects.
LEMMA NthIsConfirmed ==
    ASSUME gpo.active_witnesses \in ActiveSets,
           NEW last \in Nat, NEW wits, ConfirmUpTo(wits, last)
    PROVE  LET nth == nth_confirmed(wits)
               confirming == {w \in gpo.active_witnesses :
                                  wits[w].last_confirmed_block_num >= nth}
           IN  nth \in 0..last /\ 10 * Cardinality(confirming) >= 7 * N
<1> DEFINE S == gpo.active_witnesses
           c == [w \in S |-> wits[w].last_confirmed_block_num]
           nth == nth_confirmed(wits)
<1>1. S \subseteq Witness /\ IsFiniteSet(S) /\ N \in Nat
  BY WitnessesAssumption, FS_Subset, OffsetOfN
<1>2. \A w \in S : c[w] \in 0..last /\ c[w] = wits[w].last_confirmed_block_num
  BY <1>1 DEF ConfirmUpTo
<1>3. offset \in Nat /\ offset < N /\ 10 * offset <= 3 * N
  BY OffsetOfN
<1>5. /\ nth \in {c[w] : w \in S}
      /\ Cardinality({w \in S : c[w] < nth}) <= offset
  BY NthPosition DEF Below
<1>6. nth \in 0..last
  BY <1>2, <1>5
<1> DEFINE below == {w \in S : c[w] < nth}
           confirming == {w \in S : wits[w].last_confirmed_block_num >= nth}
<1>7. confirming = S \ below
  BY <1>2, <1>6, SMTT(30)
<1>8. Cardinality(S \ below) = Cardinality(S) - Cardinality(S \cap below)
  BY <1>1, FS_Difference
<1>9. S \cap below = below /\ Cardinality(below) \in Nat
  BY <1>1, FS_Subset, FS_CardinalityType
<1>10. Cardinality(below) <= offset
  BY <1>5
<1>11. Cardinality(S) = N
  BY DEF N
<1> HIDE DEF confirming, below, S, nth
<1>12. 10 * Cardinality(confirming) >= 7 * N
  <2> DEFINE b == Cardinality(below)
  <2>1. Cardinality(confirming) = N - b
    BY <1>7, <1>8, <1>9, <1>11
  <2>2. b \in Nat /\ b <= offset
    BY <1>9, <1>10
  <2> HIDE DEF b
  <2> QED BY <1>1, <1>3, <2>1, <2>2, SMTT(30)
<1> QED BY <1>6, <1>12 DEF S, nth, confirming

-----------------------------------------------------------------------------
\* The witness objects after a block: no other fields and no later confirmations.
LEMMA SigningKeeps ==
    ASSUME Inv, NEW missed, NEW signer, NEW aslot
    PROVE  LET last == dgp.head_block_number + 1
               wits == update_signing_witness(update_witness_missed_blocks(missed),
                                              signer, aslot, last)
           IN  DOMAIN wits = Witness /\ ConfirmUpTo(wits, last)
<1> DEFINE last == dgp.head_block_number + 1
           wm == update_witness_missed_blocks(missed)
           wits == update_signing_witness(wm, signer, aslot, last)
<1>1. DOMAIN wm = Witness /\ ConfirmUpTo(wm, dgp.head_block_number)
  <2>1. ASSUME NEW w \in Witness
        PROVE  /\ DOMAIN wm[w] = WitnessFields
               /\ wm[w].last_confirmed_block_num = witness[w].last_confirmed_block_num
    BY DEF update_witness_missed_blocks, Inv, ConfirmUpTo, WitnessFields
  <2> QED BY <2>1 DEF update_witness_missed_blocks, Inv, ConfirmUpTo
<1> HIDE DEF wm
<1>2. last \in Nat /\ 0..dgp.head_block_number \subseteq 0..last
  BY SMTT(30) DEF Inv
<1> HIDE DEF last
<1>3. ASSUME NEW w \in Witness
      PROVE  /\ DOMAIN wits[w] = WitnessFields
             /\ wits[w].last_confirmed_block_num \in 0..last
  BY <1>1, <1>2, SMTT(30) DEF update_signing_witness, ConfirmUpTo, WitnessFields
<1>4. DOMAIN wits = Witness
  BY <1>1 DEF update_signing_witness
<1> QED BY <1>3, <1>4 DEF ConfirmUpTo, last, wm

\* A block keeps the invariant, and what it makes irreversible is confirmed.
LEMMA BlockKeeps ==
    ASSUME Inv, Next
    PROVE  Inv' /\ Confirmed
<1>1. PICK slot \in 1 .. MaxMissed + 1 : apply_block(slot)
  BY DEF Next
<1> DEFINE last == dgp.head_block_number + 1
           lib == dgp.last_irreversible_block_num
           missed == get_slot_at_time(get_slot_time(slot)) - 1
           aslot == dgp.current_aslot + missed + 1
           wits == update_signing_witness(update_witness_missed_blocks(missed),
                                          get_scheduled_witness(slot), aslot, last)
           nth == nth_confirmed(wits)
           confirming(n) == {w \in gpo.active_witnesses : wits[w].last_confirmed_block_num >= n}
<1>2. /\ witness' = wits
      /\ \E maint : gpo' \in Elections(maint)
      /\ dgp'.head_block_number = last
      /\ dgp'.last_irreversible_block_num = Max({lib, nth})
  BY <1>1 DEF apply_block, update_last_irreversible_block
<1>3. DOMAIN wits = Witness /\ ConfirmUpTo(wits, last)
  BY SigningKeeps
<1> HIDE DEF wits
<1>4. last \in Nat /\ lib \in 0..last
  BY SMTT(30) DEF Inv
<1>5. gpo.active_witnesses \in ActiveSets
  BY DEF Inv
<1> HIDE DEF last, lib
<1>6. nth \in 0..last /\ 10 * Cardinality(confirming(nth)) >= 7 * N
  BY <1>3, <1>4, <1>5, NthIsConfirmed
<1> HIDE DEF nth
<1>7. Max({lib, nth}) = IF lib >= nth THEN lib ELSE nth
  BY <1>4, <1>6, MaxOfTwo, SMTT(30)
<1>8. gpo'.active_witnesses \in ActiveSets
  BY <1>2, <1>5 DEF Elections
<1>9. Inv'
  BY <1>2, <1>3, <1>4, <1>6, <1>7, <1>8, SMTT(30) DEF Inv, ConfirmUpTo
<1>10. Confirmed
  <2>1. CASE lib >= nth
    BY <1>2, <1>7, <2>1 DEF Confirmed, lib
  <2>2. CASE ~(lib >= nth)
    <3>1. dgp'.last_irreversible_block_num = nth /\ nth > lib
      BY <1>2, <1>4, <1>6, <1>7, <2>2, SMTT(30)
    <3>2. {w \in gpo.active_witnesses : witness'[w].last_confirmed_block_num
               >= dgp'.last_irreversible_block_num} = confirming(nth)
      BY <1>2, <3>1
    <3> QED BY <1>6, <3>1, <3>2 DEF Confirmed, lib
  <2> QED BY <2>1, <2>2
<1> QED BY <1>9, <1>10

\* update_last_irreversible_block: however many witnesses there are, whoever is elected and
\* whatever slots are missed, seven of ten active witnesses have built on a block that
\* becomes irreversible, and the number of the last irreversible block never falls.
THEOREM IrreversibleHasSupport == Spec => IrreversibleIsConfirmed
<1>1. Init => Inv
  <2> SUFFICES ASSUME Init PROVE Inv
    OBVIOUS
  <2> QED BY SMTT(30) DEF Init, Inv, ConfirmUpTo, WitnessFields
<1>2. Inv /\ [Next]_vars => Inv' /\ [Confirmed]_vars
  <2> SUFFICES ASSUME Inv, [Next]_vars PROVE Inv' /\ [Confirmed]_vars
    OBVIOUS
  <2>1. CASE Next
    BY <2>1, BlockKeeps
  <2>2. CASE UNCHANGED vars
    BY <2>2 DEF Inv, ConfirmUpTo, vars
  <2> QED BY <2>1, <2>2
<1> QED BY <1>1, <1>2, PTL DEF Spec, IrreversibleIsConfirmed

-----------------------------------------------------------------------------
(* Turns.                                                                    *)

\* A number of rounds of n slots has n times as many slots.
LEMMA RoundsOf ==
    ASSUME NEW a \in Nat, NEW n \in Nat \ {0}
    PROVE  (a * n) \div n = a
BY SMTT(30)

\* The position in a round.
LEMMA PositionIn ==
    ASSUME NEW q \in Int, NEW n \in Nat \ {0}, NEW i \in 0..(n - 1)
    PROVE  (n * q + i) % n = i
BY SMTT(30)

\* Every position comes once in n consecutive slots.
LEMMA TurnComes ==
    ASSUME NEW n \in Nat \ {0}, NEW a \in Nat, NEW i \in 0..(n - 1)
    PROVE  \E k \in (a - n + 1)..a : k % n = i
<1> DEFINE q == a \div n
           r == a % n
<1>1. q \in Int /\ r \in 0..(n - 1) /\ a = n * q + r
  BY SMTT(30)
<1> HIDE DEF q, r
<1>2. CASE i <= r
  <2>1. n * q + i \in (a - n + 1)..a
    BY <1>1, <1>2, SMTT(30)
  <2> QED BY <1>1, <2>1, PositionIn
<1>3. CASE i > r
  <2>1. n * (q - 1) + i \in (a - n + 1)..a /\ q - 1 \in Int
    BY <1>1, <1>3, SMTT(30)
  <2> QED BY <2>1, PositionIn
<1> QED BY <1>1, <1>2, <1>3, SMTT(30)

\* A witness confirmed block c in slot l, since when there have been as many slots as blocks,
\* and has been seated since slot t, two rounds ago: if it has not waited for two rounds, the
\* block is less than two rounds back.
LEMMA ConfirmedLately ==
    ASSUME NEW n \in Nat \ {0}, NEW b \in Nat, NEW h \in Nat, NEW c \in 0..h, NEW l \in 0..b,
           NEW t \in 0..b, NEW s, s = IF l >= t THEN l ELSE t,
           h - c <= b - l, b - s < 2 * n, b >= t + 2 * n
    PROVE  c >= h - 2 * n + 1
BY SMTT(30)

\* The greater of two blocks is no further back.
LEMMA GreaterIsCloser ==
    ASSUME NEW n \in Nat, NEW h \in Nat, NEW old \in Nat, NEW nth \in Nat, NEW new,
           new = IF old >= nth THEN old ELSE nth, nth >= h - 2 * n + 1
    PROVE  h - new < 2 * n
BY SMTT(30)

\* Who was heard of or seated later has waited less.
LEMMA LaterWaitsLess ==
    ASSUME NEW n \in Nat, NEW e \in Nat, NEW x \in Nat, NEW y \in Nat, x >= y, e - y < n
    PROVE  e - x < n
BY SMTT(30)

\* The next block is the next one of its round, or the first of another.
LEMMA NextOfRound ==
    ASSUME NEW n \in Nat \ {0}, NEW h \in Nat
    PROVE  /\ (h + 1) % n = 0 => h % n = n - 1
           /\ (h + 1) % n # 0 => (h + 1) % n = (h % n) + 1
<1> DEFINE q == h \div n
           r == h % n
<1>1. q \in Int /\ r \in 0..(n - 1) /\ h = n * q + r
  BY SMTT(30)
<1> HIDE DEF q, r
<1>2. CASE r = n - 1
  <2>1. h + 1 = n * (q + 1) + 0 /\ q + 1 \in Int /\ 0 \in 0..(n - 1)
    BY <1>1, <1>2, SMTT(30)
  <2>2. (h + 1) % n = 0
    BY <2>1, PositionIn
  <2> QED BY <1>2, <2>2 DEF r
<1>3. CASE r # n - 1
  <2>1. h + 1 = n * q + (r + 1) /\ r + 1 \in 0..(n - 1)
    BY <1>1, <1>3, SMTT(30)
  <2>2. (h + 1) % n = r + 1
    BY <1>1, <2>1, PositionIn
  <2> QED BY <1>1, <2>2, SMTT(30) DEF r
<1> QED BY <1>2, <1>3

\* Every election has the same number of seats.
SameSize == \A A, B \in ActiveSets : Cardinality(A) = Cardinality(B)

SlotInv ==
    /\ Inv
    /\ gpo.block_interval \in Intervals
    /\ dgp.time \in Nat /\ dgp.current_aslot \in Nat
    /\ \E A \in ActiveSets : shuffled \in Shuffles(A)
    /\ \A w \in Witness : /\ witness[w].last_aslot \in 0..dgp.current_aslot
                          /\ seated[w] \in 0..dgp.current_aslot

\* The slot in which witness w was last heard of, or since which it waits for its turn.
Since(w) == Max({witness[w].last_aslot, seated[w]})

\* Witness w, last heard of in slot `last`, had all its turns after slot e and up to slot a.
Served(sched, w, e, a, last) ==
    \A k \in (e + 1)..a : sched[(k % Len(sched)) + 1] = w => last >= k

\* Since slot e the schedule has not been shuffled.  The blocks of this round, counted from
\* its first one, have taken at least as many slots; no reliable witness had waited for a
\* whole round before; and none has missed a turn since.
Round(e) ==
    /\ dgp.head_block_number % Len(shuffled) <= dgp.current_aslot - e
    /\ \A w \in Range(shuffled) \cap Reliable :
          /\ e - Since(w) < Len(shuffled)
          /\ Served(shuffled, w, e, dgp.current_aslot, witness[w].last_aslot)

TurnInv == SlotInv /\ \E e \in 0..dgp.current_aslot : Round(e)

\* A schedule is a sequence of as many witnesses as are active.
LEMMA ScheduleLength ==
    ASSUME NEW A \in ActiveSets, NEW s \in Shuffles(A)
    PROVE  /\ Len(s) = Cardinality(A) /\ Len(s) \in Nat \ {0} /\ DOMAIN s = 1..Len(s)
           /\ \A i \in 1..Len(s) : s[i] \in Witness
           /\ \A w \in Range(s) : w \in Witness /\ \E i \in 0..(Len(s) - 1) : s[i + 1] = w
<1>1. A \subseteq Witness /\ A # {} /\ IsFiniteSet(A)
  BY WitnessesAssumption, FS_Subset
<1>2. Cardinality(A) \in Nat \ {0}
  BY <1>1, FS_CardinalityType, FS_EmptySet
<1> DEFINE n == Cardinality(A)
<1>3. s \in [1..n -> A]
  BY DEF Shuffles, Injection
<1> HIDE DEF n
<1>4. Len(s) = n /\ DOMAIN s = 1..n /\ n \in Nat \ {0}
  BY <1>2, <1>3, SMTT(30) DEF n
<1>5. \A i \in 1..n : s[i] \in Witness
  BY <1>1, <1>3
<1>6. ASSUME NEW w \in Range(s)
      PROVE  w \in Witness /\ \E i \in 0..(n - 1) : s[i + 1] = w
  <2>1. PICK j \in 1..n : s[j] = w
    BY <1>4 DEF Range
  <2>2. j - 1 \in 0..(n - 1) /\ (j - 1) + 1 = j
    BY <1>4, SMTT(30)
  <2>3. s[(j - 1) + 1] = w
    BY <2>1, <2>2
  <2> QED BY <1>5, <2>1, <2>2, <2>3
<1> QED BY <1>4, <1>5, <1>6 DEF n

\* The start of a slot is in that slot.
LEMMA SlotOfTime ==
    ASSUME SlotInv, NEW slot \in Nat \ {0}
    PROVE  /\ get_slot_at_time(get_slot_time(slot)) = slot
           /\ get_slot_time(slot) \in Nat
<1> DEFINE I == gpo.block_interval
           T == get_slot_time(1)
           d == (slot - 1) * I
<1>1. I \in Nat \ {0} /\ dgp.time \in Nat /\ MaintenanceSkipSlots \in Nat
  BY WitnessesAssumption DEF SlotInv
<1>2. get_slot_time(slot) = T + d /\ T \in Nat
  <2>1. CASE dgp.head_block_number = 0
    BY <1>1, <2>1, SMTT(30) DEF get_slot_time
  <2>2. CASE dgp.head_block_number # 0
    <3> DEFINE b == (dgp.time \div I) + (IF dgp.maintenance_flag THEN MaintenanceSkipSlots ELSE 0)
    <3>1. b \in Nat
      BY <1>1, SMTT(30)
    <3>2. /\ get_slot_time(slot) = (dgp.time \div I + slot
                  + (IF dgp.maintenance_flag THEN MaintenanceSkipSlots ELSE 0)) * I
          /\ T = (dgp.time \div I + 1
                  + (IF dgp.maintenance_flag THEN MaintenanceSkipSlots ELSE 0)) * I
      BY <2>2 DEF get_slot_time
    <3>3. get_slot_time(slot) = (b + slot) * I /\ T = (b + 1) * I
      BY <1>1, <3>2, SMTT(30)
    <3> HIDE DEF b
    <3> QED BY <1>1, <3>1, <3>3, SMTT(30)
  <2> QED BY <2>1, <2>2
<1>3. d \in Nat /\ d \div I = slot - 1
  <2>1. slot - 1 \in Nat
    BY SMTT(30)
  <2> QED BY <1>1, <2>1, RoundsOf, SMTT(30)
<1> HIDE DEF d, T
<1>4. get_slot_at_time(T + d) = (T + d - T) \div I + 1
  BY <1>1, <1>2, <1>3, SMTT(30) DEF get_slot_at_time, T
<1>5. T + d - T = d /\ T + d \in Nat
  BY <1>2, <1>3, SMTT(30)
<1> QED BY <1>2, <1>3, <1>4, <1>5, SMTT(30)

\* After slot e there is a turn of position i, less than a round of n slots ago.
LEMMA LastTurn ==
    ASSUME NEW n \in Nat \ {0}, NEW i \in 0..(n - 1), NEW e \in Nat, NEW a \in Nat, a - e >= n
    PROVE  \E k \in (e + 1)..a : k % n = i /\ a - k < n
<1>1. \E k \in (a - n + 1)..a : k % n = i
  BY TurnComes
<1>2. \A k \in (a - n + 1)..a : k \in (e + 1)..a /\ a - k < n
  BY SMTT(30)
<1> QED BY <1>1, <1>2

\* Who has had all turns of a whole round was heard of in its last n slots.
LEMMA ServedLately ==
    ASSUME NEW sched, NEW n \in Nat \ {0}, Len(sched) = n, NEW i \in 0..(n - 1), NEW w,
           sched[i + 1] = w, NEW e \in Nat, NEW a \in Nat, a - e >= n, NEW last \in Nat,
           Served(sched, w, e, a, last)
    PROVE  a - last < n
<1>1. \E k \in (e + 1)..a : k % n = i /\ a - k < n
  BY LastTurn
<1>2. PICK k \in (e + 1)..a : k % n = i /\ a - k < n
  BY <1>1
<1>3. last >= k
  BY <1>2 DEF Served
<1>4. k \in Int /\ a - k < n
  BY <1>2, SMTT(30)
<1> HIDE DEF Served
<1> QED BY <1>3, <1>4, SMTT(30)

\* What a block does to the slots, the seats and the turns.
LEMMA BlockSlots ==
    ASSUME SlotInv, NEW slot \in Nat \ {0}, apply_block(slot)
    PROVE  /\ dgp'.current_aslot = dgp.current_aslot + slot
           /\ dgp'.head_block_number = dgp.head_block_number + 1
           /\ dgp'.time \in Nat
           /\ \E maint : gpo' \in Elections(maint)
           /\ shuffled' \in update_witness_schedule(dgp.head_block_number + 1,
                                                    gpo'.active_witnesses)
           /\ \A w \in Witness :
                 /\ seated'[w] = IF w \in Range(shuffled') /\ w \notin Range(shuffled)
                                 THEN dgp.current_aslot + slot ELSE seated[w]
                 /\ witness'[w].last_aslot = IF w = get_scheduled_witness(slot)
                                             THEN dgp.current_aslot + slot
                                             ELSE witness[w].last_aslot
<1> DEFINE missed == get_slot_at_time(get_slot_time(slot)) - 1
           aslot == dgp.current_aslot + missed + 1
           signer == get_scheduled_witness(slot)
           wm == update_witness_missed_blocks(missed)
<1>1. /\ dgp'.current_aslot = aslot /\ dgp'.head_block_number = dgp.head_block_number + 1
      /\ dgp'.time = get_slot_time(slot)
      /\ \E maint : gpo' \in Elections(maint)
      /\ shuffled' \in update_witness_schedule(dgp.head_block_number + 1, gpo'.active_witnesses)
      /\ seated' = [w \in Witness |-> IF w \in Range(shuffled') /\ w \notin Range(shuffled)
                                      THEN aslot ELSE seated[w]]
      /\ witness' = update_signing_witness(wm, signer, aslot, dgp.head_block_number + 1)
  BY DEF apply_block
<1>2. get_slot_at_time(get_slot_time(slot)) = slot /\ get_slot_time(slot) \in Nat
  BY SlotOfTime
<1>3. aslot = dgp.current_aslot + slot
  BY <1>2, SMTT(30) DEF SlotInv
<1>4. DOMAIN wm = Witness /\ \A w \in Witness : /\ DOMAIN wm[w] = WitnessFields
                                               /\ wm[w].last_aslot = witness[w].last_aslot
  BY DEF update_witness_missed_blocks, SlotInv, Inv, ConfirmUpTo, WitnessFields
<1> HIDE DEF wm, aslot, signer
<1>5. ASSUME NEW w \in Witness
      PROVE  witness'[w].last_aslot = IF w = signer THEN aslot ELSE witness[w].last_aslot
  BY <1>1, <1>4 DEF update_signing_witness, WitnessFields
<1>6. ASSUME NEW w \in Witness
      PROVE  seated'[w] = IF w \in Range(shuffled') /\ w \notin Range(shuffled)
                          THEN aslot ELSE seated[w]
  BY <1>1
<1> QED BY <1>1, <1>2, <1>3, <1>5, <1>6 DEF signer

\* A block keeps the numbers in their ranges.
LEMMA SlotInvStays ==
    ASSUME SlotInv, Next
    PROVE  SlotInv'
<1>1. PICK slot \in 1 .. MaxMissed + 1 : apply_block(slot)
  BY DEF Next
<1>2. slot \in Nat \ {0}
  BY SMTT(30)
<1> DEFINE a == dgp.current_aslot
           b == a + slot
<1>3. /\ dgp'.current_aslot = b /\ dgp'.time \in Nat
      /\ \E maint : gpo' \in Elections(maint)
      /\ shuffled' \in update_witness_schedule(dgp.head_block_number + 1, gpo'.active_witnesses)
      /\ \A w \in Witness : /\ seated'[w] \in {seated[w], b}
                            /\ witness'[w].last_aslot \in {witness[w].last_aslot, b}
  BY <1>1, <1>2, BlockSlots
<1>4. Inv'
  BY BlockKeeps DEF SlotInv
<1>5. a \in Nat /\ b \in Nat /\ 0..a \subseteq 0..b /\ b \in 0..b
  BY <1>2, SMTT(30) DEF SlotInv
<1>6. \A w \in Witness : witness[w].last_aslot \in 0..a /\ seated[w] \in 0..a
  BY DEF SlotInv
<1> HIDE DEF b, a
<1>7. \A w \in Witness : witness'[w].last_aslot \in 0..b /\ seated'[w] \in 0..b
  BY <1>3, <1>5, <1>6
<1>8. gpo'.active_witnesses \in ActiveSets /\ gpo'.block_interval \in Intervals
  BY <1>3 DEF SlotInv, Inv, Elections
<1>9. \E A \in ActiveSets : shuffled' \in Shuffles(A)
  BY <1>3, <1>8 DEF update_witness_schedule, SlotInv
<1> QED BY <1>3, <1>4, <1>5, <1>7, <1>8, <1>9 DEF SlotInv

\* A reliable witness takes the turns that come up to the slot of the next block.
LEMMA ServedAgain ==
    ASSUME NEW sched, NEW n \in Nat \ {0}, Len(sched) = n, NEW w, NEW e \in Nat, NEW a \in Nat,
           NEW slot \in Nat \ {0}, NEW last \in 0..a, Served(sched, w, e, a, last),
           \A i \in 1..(slot - 1) : sched[((a + i) % n) + 1] # w,
           NEW now, now = IF sched[((a + slot) % n) + 1] = w THEN a + slot ELSE last
    PROVE  Served(sched, w, e, a + slot, now)
<1> SUFFICES ASSUME NEW k \in (e + 1)..(a + slot), sched[(k % n) + 1] = w
             PROVE  now >= k
  BY DEF Served
<1>1. CASE k <= a
  <2>1. k \in (e + 1)..a
    BY <1>1, SMTT(30)
  <2>2. last >= k
    BY <2>1 DEF Served
  <2> QED BY <2>2, SMTT(30)
<1>2. CASE k > a
  <2> DEFINE i == k - a
  <2>1. i \in 1..slot /\ k = a + i
    BY <1>2, SMTT(30)
  <2> HIDE DEF i
  <2>2. i \notin 1..(slot - 1)
    BY <2>1
  <2>3. i = slot
    BY <2>1, <2>2, SMTT(30)
  <2> QED BY <2>1, <2>3, SMTT(30)
<1> QED BY <1>1, <1>2, SMTT(30)

\* The number of slots since w was heard of or seated.
LEMMA SinceWhen ==
    ASSUME SlotInv, NEW w \in Witness
    PROVE  /\ Since(w) \in 0..dgp.current_aslot
           /\ Since(w) >= witness[w].last_aslot /\ Since(w) >= seated[w]
<1>1. witness[w].last_aslot \in 0..dgp.current_aslot /\ seated[w] \in 0..dgp.current_aslot
  BY DEF SlotInv
<1>2. dgp.current_aslot \in Nat
  BY DEF SlotInv
<1> QED BY <1>1, <1>2, MaxOfTwo, SMTT(30) DEF Since

\* A block in the round that began in slot e goes on with it, or begins another.
LEMMA BlockTurns ==
    ASSUME SameSize, SlotInv, SlotInv', NEW e \in 0..dgp.current_aslot, Round(e),
           NEW slot \in Nat \ {0}, maybe_produce_block(slot), apply_block(slot)
    PROVE  Round(e)' \/ \E f \in 0..dgp'.current_aslot : Round(f)'
<1> DEFINE n == Len(shuffled)
           a == dgp.current_aslot
           h == dgp.head_block_number
           b == a + slot
<1>1. PICK A \in ActiveSets : shuffled \in Shuffles(A)
  BY DEF SlotInv
<1>2. /\ n \in Nat \ {0} /\ n = Cardinality(A)
      /\ \A w \in Range(shuffled) : w \in Witness /\ \E i \in 0..(n - 1) : shuffled[i + 1] = w
  BY <1>1, ScheduleLength
<1>3. /\ dgp'.current_aslot = b /\ dgp'.head_block_number = h + 1
      /\ shuffled' \in update_witness_schedule(h + 1, gpo'.active_witnesses)
      /\ \A w \in Witness :
            /\ seated'[w] = IF w \in Range(shuffled') /\ w \notin Range(shuffled)
                            THEN b ELSE seated[w]
            /\ witness'[w].last_aslot = IF w = get_scheduled_witness(slot)
                                        THEN b ELSE witness[w].last_aslot
  BY BlockSlots
<1>4. a \in Nat /\ h \in Nat /\ b \in Nat /\ e \in Nat /\ e <= a
  BY SMTT(30) DEF SlotInv, Inv
<1>5. gpo'.active_witnesses \in ActiveSets
  BY DEF SlotInv, Inv
<1>6. Cardinality(gpo'.active_witnesses) = n
  BY <1>1, <1>2, <1>5 DEF SameSize
<1>7. ASSUME NEW w \in Range(shuffled) \cap Reliable
      PROVE  Served(shuffled, w, e, b, witness'[w].last_aslot)
  <2> DEFINE last == witness[w].last_aslot
             now == witness'[w].last_aslot
  <2>1. w \in Witness /\ last \in 0..a /\ Served(shuffled, w, e, a, last)
    BY <1>2 DEF SlotInv, Round
  <2>2. \A i \in 1..(slot - 1) : shuffled[((a + i) % n) + 1] # w
    BY DEF maybe_produce_block, get_scheduled_witness
  <2>3. now = IF shuffled[((a + slot) % n) + 1] = w THEN a + slot ELSE last
    BY <1>3, <2>1 DEF get_scheduled_witness
  <2> DEFINE sched == shuffled
  <2> HIDE DEF n, a, last, now, sched
  <2>4. Len(sched) = n
    BY DEF sched, n
  <2>5. Served(sched, w, e, a + slot, now)
    BY <1>2, <1>4, <2>1, <2>2, <2>3, <2>4, ServedAgain DEF sched
  <2> QED BY <2>5 DEF sched, now, a
<1>8. ASSUME NEW w \in Witness
      PROVE  /\ witness'[w].last_aslot \in 0..b /\ Since(w)' \in Nat
             /\ Since(w)' >= witness'[w].last_aslot /\ Since(w)' >= seated'[w]
  <2> DEFINE l == witness'[w].last_aslot
             s == seated'[w]
  <2>1. l \in 0..b /\ s \in 0..b /\ Since(w)' = Max({l, s})
    BY <1>3 DEF SlotInv, Since
  <2> HIDE DEF l, s
  <2>2. l \in Nat /\ s \in Nat
    BY <2>1, SMTT(30)
  <2>3. Max({l, s}) = IF l >= s THEN l ELSE s
    BY <2>2, MaxOfTwo
  <2>4. Since(w)' \in Nat /\ Since(w)' >= l /\ Since(w)' >= s
    BY <2>1, <2>2, <2>3, SMTT(30)
  <2> QED BY <2>1, <2>4 DEF l, s
<1>9. h % n <= a - e
  BY DEF Round
<1>10. CASE (h + 1) % n # 0
  <2>1. shuffled' = shuffled
    BY <1>3, <1>6, <1>10 DEF update_witness_schedule
  <2>2. (h + 1) % n <= b - e
    <3>1. (h + 1) % n = (h % n) + 1
      BY <1>2, <1>4, <1>10, NextOfRound
    <3>2. h % n \in Int
      BY <1>2, <1>4, SMTT(30)
    <3> HIDE DEF n, h, a
    <3> QED BY <1>4, <1>9, <3>1, <3>2, SMTT(30)
  <2>3. ASSUME NEW w \in Range(shuffled) \cap Reliable
        PROVE  e - Since(w)' < n
    <3> DEFINE l == witness'[w].last_aslot
               s == seated'[w]
    <3>1. w \in Witness /\ e - Since(w) < n
      BY <1>2 DEF Round
    <3>2. s = seated[w] /\ (l = witness[w].last_aslot \/ l = b)
      BY <1>3, <2>1, <3>1
    <3>3. /\ witness[w].last_aslot \in 0..a /\ seated[w] \in 0..a
          /\ Since(w) = Max({witness[w].last_aslot, seated[w]})
      BY <3>1 DEF SlotInv, Since
    <3>4. Since(w)' \in Nat /\ Since(w)' >= l /\ Since(w)' >= s
      BY <1>8, <3>1
    <3> DEFINE l0 == witness[w].last_aslot
               s0 == seated[w]
               m == Since(w)'
               m0 == Since(w)
    <3> HIDE DEF l, s, l0, s0, m, m0, n, a
    <3>5. m0 = Max({l0, s0}) /\ l0 \in 0..a /\ s0 \in 0..a /\ e - m0 < n
      BY <3>1, <3>3 DEF l0, s0, m0
    <3>6. s = s0 /\ (l = l0 \/ l = b) /\ m \in Nat /\ m >= l /\ m >= s
      BY <3>2, <3>4 DEF l0, s0, m
    <3>7. l0 \in Nat /\ s0 \in Nat
      BY <3>5, SMTT(30)
    <3>8. m0 = IF l0 >= s0 THEN l0 ELSE s0
      BY <3>5, <3>7, MaxOfTwo
    <3>9. m >= m0 /\ m0 \in Nat
      <4> DEFINE b0 == b
      <4>1. b0 \in Nat /\ b0 >= a /\ a \in Nat
        BY <1>4, SMTT(30)
      <4>2. s = s0 /\ (l = l0 \/ l = b0)
        BY <3>6
      <4> HIDE DEF b0
      <4> QED BY <3>5, <3>6, <3>7, <3>8, <4>1, <4>2, SMTT(30)
    <3>10. n \in Nat /\ e \in Nat
      BY <1>2, <1>4, SMTT(30)
    <3>11. e - m < n
      BY <3>5, <3>6, <3>9, <3>10, LaterWaitsLess
    <3> QED BY <3>11 DEF m
  <2> QED BY <1>3, <1>7, <2>1, <2>2, <2>3 DEF Round
<1>11. CASE (h + 1) % n = 0
  <2>1. shuffled' \in Shuffles(gpo'.active_witnesses)
    BY <1>3, <1>6, <1>11 DEF update_witness_schedule
  <2> DEFINE new == shuffled'
             C == gpo'.active_witnesses
  <2>2. Len(new) = n /\ \A w \in Range(new) : w \in Witness
    <3> HIDE DEF new, C
    <3>1. C \in ActiveSets /\ new \in Shuffles(C) /\ Cardinality(C) = n
      BY <1>5, <1>6, <2>1 DEF new, C
    <3> QED BY <3>1, ScheduleLength
  <2>3. b - e >= n
    <3>1. h % n = n - 1
      BY <1>2, <1>4, <1>11, NextOfRound
    <3> HIDE DEF n, h, a
    <3> QED BY <1>2, <1>4, <1>9, <3>1, SMTT(30)
  <2>4. ASSUME NEW w \in Range(new) \cap Reliable
        PROVE  b - Since(w)' < n
    <3> DEFINE l == witness'[w].last_aslot
               m == Since(w)'
    <3>1. w \in Witness
      BY <2>2
    <3>2. l \in 0..b /\ m \in Nat /\ m >= l /\ m >= seated'[w]
      BY <1>8, <3>1
    <3>3. CASE w \notin Range(shuffled)
      <4>1. seated'[w] = b
        BY <1>3, <3>1, <3>3
      <4> HIDE DEF m, n
      <4> QED BY <1>2, <1>4, <3>2, <4>1, SMTT(30) DEF m
    <3>4. CASE w \in Range(shuffled)
      <4>1. Served(shuffled, w, e, b, l)
        BY <1>7, <3>4
      <4>2. PICK i \in 0..(n - 1) : shuffled[i + 1] = w
        BY <1>2, <3>4
      <4> DEFINE sched == shuffled
      <4>3. Len(sched) = n /\ sched[i + 1] = w /\ Served(sched, w, e, b, l)
        BY <4>1, <4>2
      <4>4. l \in Nat
        BY <1>4, <3>2, SMTT(30)
      <4> HIDE DEF sched, n, b, l, m
      <4>5. b - l < n
        BY <1>2, <1>4, <2>3, <4>3, <4>4, ServedLately
      <4>6. b \in Nat /\ n \in Nat
        BY <1>2, <1>4, SMTT(30) DEF b
      <4>7. b - m < n
        BY <3>2, <4>4, <4>5, <4>6, LaterWaitsLess
      <4> QED BY <4>7 DEF m
    <3> QED BY <3>3, <3>4
  <2>5. \A w : Served(new, w, b, b, witness'[w].last_aslot)
    <3>1. \A k : k \notin (b + 1)..b
      BY <1>4, SMTT(30)
    <3> QED BY <3>1 DEF Served
  <2>6. (h + 1) % n <= b - b /\ b \in 0..b
    BY <1>4, <1>11, SMTT(30)
  <2>7. PICK f : f = b
    OBVIOUS
  <2>8. Round(f)'
    BY <1>3, <2>2, <2>4, <2>5, <2>6, <2>7 DEF Round
  <2> QED BY <1>3, <2>6, <2>7, <2>8
<1> QED BY <1>10, <1>11

\* The invariant of the turns.
LEMMA TurnInvStays ==
    ASSUME SameSize, TurnInv, [Next]_vars
    PROVE  TurnInv'
<1>1. CASE Next
  <2>1. PICK slot \in 1 .. MaxMissed + 1 : maybe_produce_block(slot) /\ apply_block(slot)
    BY <1>1 DEF Next
  <2>2. slot \in Nat \ {0}
    BY SMTT(30)
  <2>3. SlotInv /\ SlotInv'
    BY <1>1, SlotInvStays DEF TurnInv
  <2>4. PICK e \in 0..dgp.current_aslot : Round(e)
    BY DEF TurnInv
  <2>5. Round(e)' \/ \E f \in 0..dgp'.current_aslot : Round(f)'
    BY <2>1, <2>2, <2>3, <2>4, BlockTurns
  <2>6. e \in 0..dgp'.current_aslot
    <3>1. dgp'.current_aslot = dgp.current_aslot + slot
      BY <2>1, <2>2, <2>3, BlockSlots
    <3> QED BY <2>2, <2>3, <3>1, SMTT(30) DEF SlotInv
  <2> QED BY <2>3, <2>5, <2>6 DEF TurnInv
<1>2. CASE UNCHANGED vars
  BY <1>2 DEF vars, TurnInv, SlotInv, Inv, ConfirmUpTo, Round, Since
<1> QED BY <1>1, <1>2

\* The first round begins with the chain.
LEMMA FirstRound ==
    ASSUME Init
    PROVE  TurnInv
<1>1. PICK active \in ActiveSets, interval \in Intervals :
          /\ gpo = [active_witnesses |-> active, block_interval |-> interval]
          /\ shuffled \in Shuffles(active)
  BY DEF Init
<1>2. /\ gpo.active_witnesses \in ActiveSets /\ gpo.block_interval \in Intervals
      /\ dgp.head_block_number = 0 /\ dgp.last_irreversible_block_num = 0
      /\ dgp.current_aslot = 0 /\ dgp.time = GenesisTime
  BY <1>1, SMTT(30) DEF Init
<1>3. /\ DOMAIN witness = Witness
      /\ \A w \in Witness : /\ DOMAIN witness[w] = WitnessFields
                            /\ witness[w].last_confirmed_block_num = 0
                            /\ witness[w].last_aslot = 0 /\ seated[w] = 0
  BY SMTT(30) DEF Init, WitnessFields
<1>4. 0 \in Nat /\ 0 \in 0..0 /\ GenesisTime \in Nat
  BY WitnessesAssumption, SMTT(30)
<1>5. SlotInv
  BY <1>1, <1>2, <1>3, <1>4 DEF SlotInv, Inv, ConfirmUpTo
<1>6. Round(0)
  <2> DEFINE n == Len(shuffled)
  <2>1. n \in Nat \ {0} /\ \A w \in Range(shuffled) : w \in Witness
    BY <1>1, ScheduleLength
  <2>2. 0 % n <= 0 - 0
    BY <2>1, SMTT(30)
  <2>3. ASSUME NEW w \in Range(shuffled) PROVE 0 - Since(w) < n
    <3>1. Since(w) = Max({0, 0})
      BY <1>3, <2>1 DEF Since
    <3>2. Max({0, 0}) = 0
      BY MaxOfTwo
    <3> QED BY <2>1, <3>1, <3>2, SMTT(30)
  <2>4. \A w : Served(shuffled, w, 0, 0, witness[w].last_aslot)
    <3>1. \A k : k \notin (0 + 1)..0
      BY SMTT(30)
    <3> QED BY <3>1 DEF Served
  <2> QED BY <1>2, <2>2, <2>3, <2>4 DEF Round
<1> QED BY <1>2, <1>4, <1>5, <1>6 DEF TurnInv

\* Less than two rounds after it was heard of or seated, a reliable witness has its turn.
LEMMA TurnsInTime == TurnInv => EveryWitnessHasATurn
<1> SUFFICES ASSUME TurnInv, NEW w \in Range(shuffled) \cap Reliable
             PROVE  dgp.current_aslot - Since(w) < 2 * Len(shuffled)
  BY DEF EveryWitnessHasATurn, Since
<1> DEFINE n == Len(shuffled)
           a == dgp.current_aslot
           last == witness[w].last_aslot
           m == Since(w)
<1>1. PICK A \in ActiveSets : shuffled \in Shuffles(A)
  BY DEF TurnInv, SlotInv
<1>2. n \in Nat \ {0} /\ w \in Witness /\ \E i \in 0..(n - 1) : shuffled[i + 1] = w
  BY <1>1, ScheduleLength
<1>3. PICK i \in 0..(n - 1) : shuffled[i + 1] = w
  BY <1>2
<1>4. PICK e \in 0..a : Round(e)
  BY DEF TurnInv
<1>5. e - m < n /\ Served(shuffled, w, e, a, last)
  BY <1>4 DEF Round
<1>6. a \in Nat /\ last \in 0..a /\ m \in 0..a /\ m >= last
  BY <1>2, SinceWhen DEF TurnInv, SlotInv
<1> DEFINE sched == shuffled
<1>7. Len(sched) = n /\ sched[i + 1] = w /\ Served(sched, w, e, a, last)
  BY <1>3, <1>5
<1> HIDE DEF n, a, last, m, sched
<1>8. CASE a - e >= n
  <2>1. e \in Nat /\ last \in Nat
    BY <1>6, SMTT(30)
  <2>2. a - last < n
    BY <1>2, <1>6, <1>7, <1>8, <2>1, ServedLately
  <2> QED BY <1>2, <1>6, <2>2, SMTT(30) DEF n, a, m
<1>9. CASE a - e < n
  <2>1. a - m < 2 * n
    BY <1>2, <1>5, <1>6, <1>9, SMTT(30)
  <2> QED BY <2>1 DEF n, a, m
<1>10. a - e >= n \/ a - e < n
  BY <1>2, <1>6, SMTT(30)
<1> QED BY <1>8, <1>9, <1>10

\* update_witness_schedule shuffles after a number of blocks, and get_scheduled_witness reads
\* the schedule by the number of slots.  As long as the elections do not change the number of
\* witnesses, the two stay close enough: a witness that misses no slot never waits for two
\* rounds of slots, whoever is elected, whatever the shuffles are and whatever the others
\* miss.
THEOREM WitnessesTakeTurns ==
    ASSUME SameSize
    PROVE  Spec => []EveryWitnessHasATurn
<1>1. Init => TurnInv
  BY FirstRound
<1>2. TurnInv /\ [Next]_vars => TurnInv'
  BY TurnInvStays
<1> QED BY <1>1, <1>2, TurnsInTime, PTL DEF Spec

-----------------------------------------------------------------------------
(* Irreversibility keeps up.                                                 *)

\* In every election seven of ten elected witnesses are reliable.
EnoughReliable ==
    \A A \in ActiveSets : 10 * Cardinality(A \cap Reliable) >= 7 * Cardinality(A)

\* An election that changes the active witnesses brings in one that has not been in the
\* schedule for two rounds.  It does not, before a shuffle, elect others and then the same
\* again: those who are active but not scheduled confirm nothing, and the irreversible block
\* may stand still in between.
BringsSomebodyNew ==
    gpo'.active_witnesses # gpo.active_witnesses =>
        \E w \in gpo'.active_witnesses :
            w \in Range(shuffled') => dgp'.current_aslot < seated'[w] + 2 * N'

\* Since a witness has confirmed a block there have been as many slots as blocks.
Lag ==
    \A w \in Witness : dgp.head_block_number - witness[w].last_confirmed_block_num
                           <= dgp.current_aslot - witness[w].last_aslot

\* The block that nth_element selects is not before block m if all reliable witnesses have
\* confirmed m: there are not enough others.
LEMMA NthIsRecent ==
    ASSUME EnoughReliable, gpo.active_witnesses \in ActiveSets,
           NEW last \in Nat, NEW wits, ConfirmUpTo(wits, last), NEW m \in Int,
           \A w \in gpo.active_witnesses \cap Reliable : wits[w].last_confirmed_block_num >= m
    PROVE  nth_confirmed(wits) \in Nat /\ nth_confirmed(wits) >= m
<1> DEFINE S == gpo.active_witnesses
           c == [w \in S |-> wits[w].last_confirmed_block_num]
           nth == nth_confirmed(wits)
           U == UpTo(S, c, nth)
           R == S \cap Reliable
<1>1. nth \in 0..last
  BY NthIsConfirmed
<1>2. offset < Cardinality(U)
  BY NthPosition
<1>3. IsFiniteSet(S) /\ S \subseteq Witness
  BY WitnessesAssumption, FS_Subset
<1>4. \A w \in R : c[w] \in Int /\ c[w] >= m
  BY <1>3, SMTT(30) DEF ConfirmUpTo
<1> SUFFICES ASSUME nth < m PROVE FALSE
  BY <1>1, SMTT(30)
<1>5. U \subseteq S \ R
  BY <1>1, <1>4, SMTT(30) DEF UpTo
<1>6. Cardinality(S \ R) = Cardinality(S) - Cardinality(S \cap R)
  BY <1>3, FS_Difference
<1>7. S \cap R = R /\ Cardinality(R) \in Nat /\ Cardinality(S) = N
  BY <1>3, FS_Subset, FS_CardinalityType DEF N
<1>8. IsFiniteSet(S \ R)
  BY <1>3, FS_Subset
<1>9. Cardinality(U) <= Cardinality(S \ R)
  BY <1>5, <1>8, FS_Subset
<1>10. Cardinality(U) \in Nat /\ Cardinality(S \ R) \in Nat
  BY <1>5, <1>8, FS_Subset, FS_CardinalityType
<1>11. 10 * Cardinality(R) >= 7 * N
  BY DEF EnoughReliable, N
<1> DEFINE k == Cardinality(S \ R)
           r == Cardinality(R)
<1>12. k = N - r
  BY <1>6, <1>7
<1>13. k \in Nat /\ r \in Nat /\ 10 * r >= 7 * N /\ N \in Nat
  BY <1>7, <1>10, <1>11, OffsetOfN
<1> HIDE DEF k, r
<1>14. 10 * k <= 3 * N
  BY <1>12, <1>13, SMTT(30)
<1>15. k <= offset /\ offset \in Nat
  BY <1>13, <1>14, OffsetOfN
<1>16. Cardinality(U) <= k
  BY <1>9 DEF k
<1> HIDE DEF U
<1> QED BY <1>2, <1>10, <1>13, <1>15, <1>16, SMTT(30)

\* What a block does to the confirmations and to the last irreversible block.
LEMMA BlockConfirms ==
    ASSUME SlotInv, NEW slot \in Nat \ {0}, apply_block(slot)
    PROVE  /\ dgp'.last_irreversible_block_num
                  = Max({dgp.last_irreversible_block_num, nth_confirmed(witness')})
           /\ DOMAIN witness' = Witness
           /\ ConfirmUpTo(witness', dgp.head_block_number + 1)
           /\ \A w \in Witness :
                 witness'[w].last_confirmed_block_num =
                     IF w = get_scheduled_witness(slot) THEN dgp.head_block_number + 1
                     ELSE witness[w].last_confirmed_block_num
<1> DEFINE last == dgp.head_block_number + 1
           missed == get_slot_at_time(get_slot_time(slot)) - 1
           aslot == dgp.current_aslot + missed + 1
           signer == get_scheduled_witness(slot)
           wm == update_witness_missed_blocks(missed)
           wits == update_signing_witness(wm, signer, aslot, last)
<1>1. /\ witness' = wits
      /\ dgp'.last_irreversible_block_num = update_last_irreversible_block(wits)
  BY DEF apply_block
<1>2. DOMAIN wits = Witness /\ ConfirmUpTo(wits, last)
  BY SigningKeeps DEF SlotInv
<1>3. /\ DOMAIN wm = Witness
      /\ \A w \in Witness :
            /\ DOMAIN wm[w] = WitnessFields
            /\ wm[w].last_confirmed_block_num = witness[w].last_confirmed_block_num
  BY DEF update_witness_missed_blocks, SlotInv, Inv, ConfirmUpTo, WitnessFields
<1> HIDE DEF wm, aslot, signer, last
<1>4. ASSUME NEW w \in Witness
      PROVE  wits[w].last_confirmed_block_num =
                 IF w = signer THEN last ELSE witness[w].last_confirmed_block_num
  BY <1>3 DEF update_signing_witness, WitnessFields
<1> HIDE DEF wits
<1>5. dgp'.last_irreversible_block_num
          = Max({dgp.last_irreversible_block_num, nth_confirmed(wits)})
  BY <1>1 DEF update_last_irreversible_block
<1> QED BY <1>1, <1>2, <1>4, <1>5 DEF signer, last

\* A block takes one slot at least.
LEMMA LagStays ==
    ASSUME SlotInv, Lag, NEW slot \in Nat \ {0}, apply_block(slot)
    PROVE  Lag'
<1> DEFINE h == dgp.head_block_number
           a == dgp.current_aslot
<1>1. dgp'.current_aslot = a + slot /\ dgp'.head_block_number = h + 1
  BY BlockSlots
<1>2. h \in Nat /\ a \in Nat
  BY DEF SlotInv, Inv
<1>3. ASSUME NEW w \in Witness
      PROVE  dgp'.head_block_number - witness'[w].last_confirmed_block_num
                 <= dgp'.current_aslot - witness'[w].last_aslot
  <2> DEFINE c == witness[w].last_confirmed_block_num
             l == witness[w].last_aslot
             d == witness'[w].last_confirmed_block_num
             k == witness'[w].last_aslot
  <2>1. c \in 0..h /\ l \in 0..a /\ h - c <= a - l
    BY DEF SlotInv, Inv, ConfirmUpTo, Lag
  <2>2. (d = h + 1 /\ k = a + slot) \/ (d = c /\ k = l)
    BY BlockSlots, BlockConfirms
  <2> HIDE DEF c, l, d, k, h, a
  <2>3. (h + 1) - d <= (a + slot) - k
    BY <1>2, <2>1, <2>2, SMTT(30)
  <2> QED BY <1>1, <2>3 DEF d, k
<1> QED BY <1>3 DEF Lag

\* After a block of an established schedule the irreversible block is less than two rounds
\* behind.
LEMMA BlockKeepsUp ==
    ASSUME SameSize, EnoughReliable, TurnInv, TurnInv', Lag', NEW slot \in Nat \ {0},
           apply_block(slot), BringsSomebodyNew
    PROVE  IrreversibleKeepsUp'
<1> DEFINE A == gpo'.active_witnesses
           b == dgp'.current_aslot
           h == dgp'.head_block_number
           n == N'
           m == h - 2 * n + 1
<1> SUFFICES ASSUME \A w \in A : w \in Range(shuffled') /\ b >= seated'[w] + 2 * n
             PROVE  h - dgp'.last_irreversible_block_num < 2 * n
  BY DEF IrreversibleKeepsUp
<1>1. SlotInv /\ SlotInv' /\ A \in ActiveSets /\ gpo.active_witnesses \in ActiveSets
  BY DEF TurnInv, SlotInv, Inv
<1>2. n = Cardinality(A) /\ n \in Nat \ {0}
  <2>1. A \subseteq Witness /\ A # {} /\ IsFiniteSet(A)
    BY <1>1, WitnessesAssumption, FS_Subset
  <2> QED BY <2>1, FS_CardinalityType, FS_EmptySet DEF N
<1>3. Len(shuffled') = n
  <2>1. PICK B \in ActiveSets : shuffled' \in Shuffles(B)
    BY <1>1 DEF SlotInv
  <2>2. Len(shuffled') = Cardinality(B)
    <3> DEFINE s == shuffled'
    <3> HIDE DEF s
    <3>1. Len(s) = Cardinality(B)
      BY <2>1, ScheduleLength DEF s
    <3> QED BY <3>1 DEF s
  <2> QED BY <1>1, <1>2, <2>1, <2>2 DEF SameSize
<1>4. /\ b \in Nat /\ h \in Nat
      /\ dgp'.last_irreversible_block_num \in 0..h
  BY <1>1 DEF SlotInv, Inv
<1>5. A = gpo.active_witnesses
  <2>1. ASSUME NEW w \in A PROVE ~(b < seated'[w] + 2 * n)
    <3>1. w \in Witness
      BY <1>1, WitnessesAssumption
    <3>2. seated'[w] \in 0..b
      BY <1>1, <3>1 DEF SlotInv
    <3> DEFINE t == seated'[w]
    <3>3. b >= t + 2 * n /\ t \in 0..b
      BY <3>2
    <3> HIDE DEF b, t, n
    <3>4. ~(b < t + 2 * n)
      BY <1>2, <1>4, <3>3, SMTT(30)
    <3> QED BY <3>4 DEF t
  <2> QED BY <2>1 DEF BringsSomebodyNew
<1>6. ASSUME NEW w \in gpo.active_witnesses \cap Reliable
      PROVE  witness'[w].last_confirmed_block_num >= m
  <2> DEFINE l == witness'[w].last_aslot
             c == witness'[w].last_confirmed_block_num
             t == seated'[w]
             s == Since(w)'
  <2>1. w \in Witness /\ w \in Range(shuffled') \cap Reliable
    BY <1>1, <1>5, WitnessesAssumption
  <2>2. l \in 0..b /\ t \in 0..b /\ c \in 0..h /\ h - c <= b - l
    BY <1>1, <2>1 DEF SlotInv, Inv, ConfirmUpTo, Lag
  <2>3. b - s < 2 * n
    <3>1. EveryWitnessHasATurn'
      BY TurnsInTime, PTL
    <3> QED BY <1>3, <2>1, <3>1 DEF EveryWitnessHasATurn, Since
  <2>4. s = IF l >= t THEN l ELSE t
    <3>1. s = Max({l, t}) /\ l \in Nat /\ t \in Nat
      BY <1>4, <2>2, SMTT(30) DEF Since
    <3> HIDE DEF l, t, s
    <3> QED BY <3>1, MaxOfTwo
  <2>5. b >= t + 2 * n
    BY <1>5
  <2> HIDE DEF l, c, t, s, b, h, n
  <2>6. c >= h - 2 * n + 1
    BY <1>2, <1>4, <2>2, <2>3, <2>4, <2>5, ConfirmedLately
  <2> QED BY <2>6 DEF c
<1>7. nth_confirmed(witness') \in Nat /\ nth_confirmed(witness') >= m
  <2> DEFINE wits == witness'
             last == dgp.head_block_number + 1
  <2>1. ConfirmUpTo(wits, last)
    BY <1>1, BlockConfirms
  <2>2. last \in Nat /\ m \in Int
    BY <1>1, <1>2, <1>4, SMTT(30) DEF SlotInv, Inv
  <2> HIDE DEF wits, last, m
  <2>3. \A w \in gpo.active_witnesses \cap Reliable : wits[w].last_confirmed_block_num >= m
    BY <1>6 DEF wits
  <2>4. nth_confirmed(wits) \in Nat /\ nth_confirmed(wits) >= m
    BY <1>1, <2>1, <2>2, <2>3, NthIsRecent
  <2> QED BY <2>4 DEF wits
<1>8. dgp'.last_irreversible_block_num
          = Max({dgp.last_irreversible_block_num, nth_confirmed(witness')})
  BY <1>1, BlockConfirms
<1> DEFINE old == dgp.last_irreversible_block_num
           new == dgp'.last_irreversible_block_num
           nth == nth_confirmed(witness')
<1>9. old \in Nat
  BY <1>1, SMTT(30) DEF SlotInv, Inv
<1>10. new = IF old >= nth THEN old ELSE nth
  <2>1. new = Max({old, nth}) /\ nth \in Nat
    BY <1>7, <1>8
  <2> HIDE DEF old, new, nth
  <2> QED BY <1>9, <2>1, MaxOfTwo
<1>11. nth \in Nat /\ nth >= h - 2 * n + 1
  BY <1>7
<1> HIDE DEF old, new, nth, h, n, b
<1>12. n \in Nat
  BY <1>2, SMTT(30)
<1>13. h - new < 2 * n
  BY <1>4, <1>9, <1>10, <1>11, <1>12, GreaterIsCloser
<1> QED BY <1>13 DEF new

\* update_last_irreversible_block, whatever the shuffles are and whatever the unreliable
\* witnesses miss: if seven of ten elected witnesses miss no slot and the elections keep the
\* number of seats, the last irreversible block of an established schedule is less than two
\* rounds behind the head, so that the undo history which update_global_dynamic_data requires
\* does not grow with the chain.
THEOREM IrreversibleStaysClose ==
    ASSUME SameSize, EnoughReliable
    PROVE  Spec /\ [][BringsSomebodyNew]_vars => []IrreversibleKeepsUp
<1> DEFINE LInv == TurnInv /\ Lag /\ IrreversibleKeepsUp
<1>1. Init => LInv
  <2> SUFFICES ASSUME Init PROVE LInv
    OBVIOUS
  <2>1. TurnInv
    BY FirstRound
  <2>2. Lag
    BY SMTT(30) DEF Init, Lag
  <2>3. N \in Nat \ {0}
    BY <2>1, OffsetOfN DEF TurnInv, SlotInv, Inv
  <2>4. dgp.head_block_number = 0 /\ dgp.last_irreversible_block_num = 0
    BY SMTT(30) DEF Init
  <2>5. IrreversibleKeepsUp
    BY <2>3, <2>4, SMTT(30) DEF IrreversibleKeepsUp
  <2> QED BY <2>1, <2>2, <2>5
<1>2. LInv /\ [Next]_vars /\ [BringsSomebodyNew]_vars => LInv'
  <2> SUFFICES ASSUME LInv, [Next]_vars, [BringsSomebodyNew]_vars PROVE LInv'
    OBVIOUS
  <2>1. TurnInv'
    BY TurnInvStays
  <2>2. CASE UNCHANGED vars
    BY <2>1, <2>2 DEF vars, Lag, IrreversibleKeepsUp, N
  <2>3. CASE Next /\ BringsSomebodyNew
    <3>1. PICK slot \in 1 .. MaxMissed + 1 : apply_block(slot)
      BY <2>3 DEF Next
    <3>2. slot \in Nat \ {0}
      BY SMTT(30)
    <3>3. Lag'
      BY <3>1, <3>2, LagStays DEF TurnInv
    <3>4. IrreversibleKeepsUp'
      BY <2>1, <2>3, <3>1, <3>2, <3>3, BlockKeepsUp
    <3> QED BY <2>1, <3>3, <3>4
  <2> QED BY <2>2, <2>3
<1>3. LInv => IrreversibleKeepsUp
  OBVIOUS
<1> HIDE DEF LInv
<1> QED BY <1>1, <1>2, <1>3, PTL DEF Spec

-----------------------------------------------------------------------------
(* The rooms.                                                                *)

IsRoom(r) ==
    r = [rating |-> r.rating, prev_rating |-> r.prev_rating,
         last_rating_update |-> r.last_rating_update, last_updated_table |-> r.last_updated_table]

IsTable(t) == t = [room |-> t.room, alive |-> t.alive, weight |-> t.weight]

\* The objects have the ids 1, 2, and so on.
Numbered(objects) ==
    /\ Cardinality(DOMAIN objects) \in Nat
    /\ DOMAIN objects = 1..Cardinality(DOMAIN objects)

Shape ==
    /\ Numbered(rooms) /\ Numbered(tables)
    /\ \A r \in DOMAIN rooms : /\ IsRoom(rooms[r])
                               /\ rooms[r].last_updated_table \in DOMAIN tables \cup {Special}
    /\ \A t \in DOMAIN tables : IsTable(tables[t]) /\ tables[t].room \in DOMAIN rooms

\* The walk over the tables of room r has not come to table t.
NotReached(t, r) == r.last_updated_table # Special /\ t >= r.last_updated_table

WeightInv ==
    \A t \in DOMAIN tables :
        LET r == rooms[tables[t].room]
        IN  \/ tables[t].weight = Weight(r.rating, tables[t].alive)
            \/ /\ NotReached(t, r)
               /\ tables[t].weight = Weight(r.prev_rating, tables[t].alive)

IInv == Shape /\ WeightInv

\* The limits of a maintenance leave room for more than one object.
LEMMA Limits == RoomsLimit \in Nat \ {0, 1} /\ TablesLimit \in Nat \ {0, 1}
BY RoomsAssumption

-----------------------------------------------------------------------------
(* Smallest and largest numbers, and first and last tables.                  *)

\* A nonempty set of naturals has a least element.
LEMMA Smallest ==
    ASSUME NEW S, S \subseteq Nat, S # {}
    PROVE  \E m \in S : \A x \in S : m <= x
<1>1. PICK m \in S : \A x \in S : ~(<<x, m>> \in OpToRel(<, Nat))
  BY NatLessThanWellFounded, WFMin
<1>2. \A x \in S : ~(x < m)
  BY <1>1 DEF OpToRel
<1> QED BY <1>2, SMTT(30)

\* A nonempty bounded set of naturals has a greatest element.
LEMMA Largest ==
    ASSUME NEW n \in Nat, NEW S, S \subseteq 1..n, S # {}
    PROVE  \E m \in S : \A x \in S : x <= m
<1> DEFINE T == {n - x : x \in S}
<1>1. T \subseteq Nat /\ T # {}
  <2>1. PICK x \in S : TRUE
    OBVIOUS
  <2>2. n - x \in T
    OBVIOUS
  <2>3. ASSUME NEW y \in S PROVE n - y \in Nat
    <3>1. y \in 1..n
      OBVIOUS
    <3> QED BY <3>1, SMTT(30)
  <2> QED BY <2>2, <2>3
<1>2. PICK k \in T : \A y \in T : k <= y
  <2> HIDE DEF T
  <2> QED BY <1>1, Smallest
<1>3. PICK m \in S : k = n - m
  BY <1>2
<1>4. ASSUME NEW x \in S PROVE x <= m
  <2>1. n - x \in T
    OBVIOUS
  <2>2. n - m <= n - x
    BY <1>2, <1>3, <2>1
  <2> QED BY <2>2, SMTT(30)
<1> QED BY <1>4

\* The tables are finitely many.
LEMMA FiniteTables ==
    ASSUME Shape, NEW T, T \subseteq DOMAIN tables
    PROVE  IsFiniteSet(T) /\ Cardinality(T) \in Nat
<1>1. IsFiniteSet(DOMAIN tables)
  <2> DEFINE k == Cardinality(DOMAIN tables)
  <2>1. k \in Nat /\ DOMAIN tables = 1..k
    BY DEF Shape, Numbered
  <2>2. IsFiniteSet(1..k)
    <3> HIDE DEF k
    <3> QED BY <2>1, FS_Interval, SMTT(30)
  <2> QED BY <2>1, <2>2
<1>2. IsFiniteSet(T)
  BY <1>1, FS_Subset
<1> QED BY <1>2, FS_CardinalityType

\* Some table comes first in the order of the index by room and id.
LEMMA FirstTable ==
    ASSUME Shape, NEW T, T \subseteq DOMAIN tables, T # {}
    PROVE  \E m \in T : \A u \in T : Before(m, u)
<1> DEFINE R == {tables[t].room : t \in T}
<1>0. \A t \in T : t \in Nat /\ tables[t].room \in Nat
  BY SMTT(30) DEF Shape, Numbered
<1>1. R \subseteq Nat /\ R # {}
  BY <1>0
<1>2. PICK r \in R : \A x \in R : r <= x
  <2> HIDE DEF R
  <2> QED BY <1>1, Smallest
<1> DEFINE U == {t \in T : tables[t].room = r}
<1>3. U \subseteq Nat /\ U # {}
  BY <1>0, <1>2
<1>4. PICK m \in U : \A x \in U : m <= x
  <2> HIDE DEF U
  <2> QED BY <1>3, Smallest
<1>5. ASSUME NEW u \in T PROVE Before(m, u)
  <2>1. r <= tables[u].room
    BY <1>2
  <2>2. tables[u].room = r => m <= u
    BY <1>4
  <2> QED BY <1>0, <1>4, <2>1, <2>2, SMTT(30) DEF Before
<1> QED BY <1>4, <1>5

\* Some table comes last in the order of the index by room and id.
LEMMA LastTable ==
    ASSUME Shape, NEW T, T \subseteq DOMAIN tables, T # {}
    PROVE  \E m \in T : \A u \in T : Before(u, m)
<1> DEFINE R == {tables[t].room : t \in T}
<1> DEFINE n == Cardinality(DOMAIN rooms)
<1> DEFINE k == Cardinality(DOMAIN tables)
<1>0. n \in Nat /\ k \in Nat /\ \A t \in T : t \in 1..k /\ tables[t].room \in 1..n
  BY DEF Shape, Numbered
<1> HIDE DEF n, k
<1>1. R \subseteq 1..n /\ R # {}
  BY <1>0
<1>2. PICK r \in R : \A x \in R : x <= r
  <2> HIDE DEF R
  <2> QED BY <1>0, <1>1, Largest
<1> DEFINE U == {t \in T : tables[t].room = r}
<1>3. U \subseteq 1..k /\ U # {}
  BY <1>0, <1>2
<1>4. PICK m \in U : \A x \in U : x <= m
  <2> HIDE DEF U
  <2> QED BY <1>0, <1>3, Largest
<1>5. ASSUME NEW u \in T PROVE Before(u, m)
  <2>1. tables[u].room <= r
    BY <1>2
  <2>2. tables[u].room = r => u <= m
    BY <1>4
  <2> QED BY <1>0, <1>4, <2>1, <2>2, SMTT(30) DEF Before
<1> QED BY <1>4, <1>5
-----------------------------------------------------------------------------
(* The walk over the tables of a room.                                       *)

\* The tables that have been visited are the first of those to visit.
LEMMA VisitedFirst ==
    ASSUME Shape, NEW rs, NEW r, NEW t \in FromLastUpdated(rs, r), NEW l \in Visited(rs, r),
           Before(t, l)
    PROVE  t \in Visited(rs, r)
<1> DEFINE F == FromLastUpdated(rs, r)
<1> DEFINE P(x) == {u \in F : Before(u, x)}
<1>1. F \subseteq DOMAIN tables /\ l \in F /\ t \in F /\ Cardinality(P(l)) <= TablesLimit
  BY DEF Visited, FromLastUpdated
<1>2. P(t) \subseteq P(l)
  <2> SUFFICES ASSUME NEW u \in F, Before(u, t) PROVE Before(u, l)
    OBVIOUS
  <2>1. \A x \in {t, u, l} : x \in Nat /\ tables[x].room \in Nat
    BY <1>1, SMTT(30) DEF Shape, Numbered
  <2> HIDE DEF F
  <2> QED BY <2>1, SMTT(30) DEF Before
<1>3. IsFiniteSet(P(l)) /\ Cardinality(P(l)) \in Nat /\ Cardinality(P(t)) \in Nat
  <2>1. P(l) \subseteq DOMAIN tables /\ P(t) \subseteq DOMAIN tables
    BY <1>1
  <2> HIDE DEF P
  <2> QED BY <2>1, FiniteTables
<1>4. Cardinality(P(t)) <= Cardinality(P(l))
  <2> HIDE DEF P
  <2> QED BY <1>2, <1>3, FS_Subset
<1>5. Cardinality(P(t)) <= TablesLimit
  <2> HIDE DEF P
  <2> QED BY <1>1, <1>3, <1>4, Limits, SMTT(30)
<1> QED BY <1>1, <1>5 DEF Visited

\* A walk that stays below the limit visits every table that was left.
LEMMA WalkEnds ==
    ASSUME Shape, NEW rs, NEW r, Cardinality(FromLastUpdated(rs, r)) < TablesLimit,
           NEW t \in FromLastUpdated(rs, r)
    PROVE  t \in Visited(rs, r)
<1> DEFINE F == FromLastUpdated(rs, r)
<1> DEFINE P == {u \in F : Before(u, t)}
<1>1. F \subseteq DOMAIN tables
  BY DEF FromLastUpdated
<1>2. IsFiniteSet(F) /\ Cardinality(F) \in Nat
  <2> HIDE DEF F
  <2> QED BY <1>1, FiniteTables
<1>3. Cardinality(P) \in Nat
  <2>1. P \subseteq DOMAIN tables
    BY <1>1
  <2> HIDE DEF P
  <2> QED BY <2>1, FiniteTables
<1>4. Cardinality(P) <= Cardinality(F)
  <2>1. P \subseteq F
    OBVIOUS
  <2> HIDE DEF P, F
  <2> QED BY <2>1, <1>2, FS_Subset
<1>5. Cardinality(P) <= TablesLimit
  <2>1. Cardinality(F) < TablesLimit
    OBVIOUS
  <2> HIDE DEF P, F
  <2> QED BY <2>1, <1>2, <1>3, <1>4, Limits, SMTT(30)
<1> QED BY <1>5 DEF Visited

\* A walk that comes to the limit has visited a table, and so has a last one.
LEMMA WalkGoesOn ==
    ASSUME Shape, NEW rs, NEW r, ~(Cardinality(FromLastUpdated(rs, r)) < TablesLimit)
    PROVE  LastVisited(rs, r) \in Visited(rs, r)
<1> DEFINE F == FromLastUpdated(rs, r)
<1>1. F \subseteq DOMAIN tables
  BY DEF FromLastUpdated
<1>2. F # {}
  <2>1. ~(Cardinality(F) < TablesLimit)
    OBVIOUS
  <2> HIDE DEF F
  <2> QED BY <2>1, FS_EmptySet, Limits, SMTT(30)
<1>3. PICK m \in F : \A u \in F : Before(m, u)
  <2> HIDE DEF F
  <2> QED BY <1>1, <1>2, FirstTable
<1>4. {u \in F : Before(u, m)} = {m}
  <2>1. \A u \in F : u \in Nat /\ tables[u].room \in Nat
    BY <1>1, SMTT(30) DEF Shape, Numbered
  <2> HIDE DEF F
  <2> QED BY <1>3, <2>1, SMTT(30) DEF Before
<1>5. Cardinality({u \in F : Before(u, m)}) <= TablesLimit
  <2>1. Cardinality({m}) = 1
    BY FS_Singleton
  <2> HIDE DEF F
  <2> QED BY <1>4, <2>1, Limits, SMTT(30)
<1>6. m \in Visited(rs, r)
  BY <1>3, <1>5 DEF Visited
<1>7. Visited(rs, r) \subseteq DOMAIN tables
  BY DEF Visited, FromLastUpdated
<1>8. \E l \in Visited(rs, r) : \A u \in Visited(rs, r) : Before(u, l)
  BY <1>6, <1>7, LastTable
<1> QED BY <1>8 DEF LastVisited
-----------------------------------------------------------------------------
(* One maintenance.                                                          *)

\* A room is rated only when its tables are done, and remembers the rating before.
LEMMA RatedRooms ==
    ASSUME Shape, NEW ms, NEW r \in DOMAIN rooms
    PROVE  LET rs == update_room_rating(ms, UpdatedRooms)
           IN  /\ DOMAIN rs = DOMAIN rooms
               /\ IsRoom(rs[r])
               /\ rs[r].last_updated_table = rooms[r].last_updated_table
               /\ \/ /\ rs[r].rating = rooms[r].rating
                     /\ rs[r].prev_rating = rooms[r].prev_rating
                  \/ /\ rooms[r].last_updated_table = Special
                     /\ rs[r].prev_rating = rooms[r].rating
<1> DEFINE rs == update_room_rating(ms, UpdatedRooms)
<1> DEFINE u == UpdatedRooms
           o == [rating |-> IF r \in u THEN NewRating(ms, u, r) ELSE rooms[r].rating,
                 prev_rating |-> IF r \in u THEN rooms[r].rating ELSE rooms[r].prev_rating,
                 last_rating_update |-> RatedLast(u)[r],
                 last_updated_table |-> rooms[r].last_updated_table]
<1>1. DOMAIN rs = DOMAIN rooms /\ rs[r] = o
  BY DEF update_room_rating
<1>2. r \in u => rooms[r].last_updated_table = Special
  BY DEF UpdatedRooms, Ready
<1>3. /\ IsRoom(o) /\ o.last_updated_table = rooms[r].last_updated_table
      /\ r \in u => o.prev_rating = rooms[r].rating
      /\ r \notin u => o.rating = rooms[r].rating /\ o.prev_rating = rooms[r].prev_rating
  <2> HIDE DEF u
  <2> QED BY DEF IsRoom
<1> HIDE DEF o, u, rs
<1>4. /\ IsRoom(rs[r]) /\ rs[r].last_updated_table = rooms[r].last_updated_table
      /\ r \in u => rs[r].prev_rating = rooms[r].rating
      /\ r \notin u => rs[r].rating = rooms[r].rating /\ rs[r].prev_rating = rooms[r].prev_rating
  BY <1>1, <1>3
<1>5. /\ DOMAIN rs = DOMAIN rooms
      /\ IsRoom(rs[r])
      /\ rs[r].last_updated_table = rooms[r].last_updated_table
      /\ \/ rs[r].rating = rooms[r].rating /\ rs[r].prev_rating = rooms[r].prev_rating
         \/ rooms[r].last_updated_table = Special /\ rs[r].prev_rating = rooms[r].rating
  BY <1>1, <1>2, <1>4
<1> QED BY <1>5 DEF rs

\* A maintenance keeps the invariant: what its walk leaves out is not yet reached.
LEMMA MaintenanceKeeps ==
    ASSUME IInv, NEW ms,
           rooms' = Walked(update_room_rating(ms, UpdatedRooms)),
           tables' = update_table_weight(update_room_rating(ms, UpdatedRooms))
    PROVE  IInv'
<1> DEFINE rs == update_room_rating(ms, UpdatedRooms)
<1>0. rooms' = Walked(rs) /\ tables' = update_table_weight(rs) /\ Shape /\ WeightInv
  BY DEF IInv
<1>1. DOMAIN rs = DOMAIN rooms
  BY DEF update_room_rating
<1>2. ASSUME NEW r \in DOMAIN rooms
      PROVE  /\ IsRoom(rs[r])
             /\ rs[r].last_updated_table = rooms[r].last_updated_table
             /\ \/ rs[r].rating = rooms[r].rating /\ rs[r].prev_rating = rooms[r].prev_rating
                \/ /\ rooms[r].last_updated_table = Special
                   /\ rs[r].prev_rating = rooms[r].rating
  BY <1>0, RatedRooms
<1> HIDE DEF rs
<1>3. DOMAIN rooms' = DOMAIN rooms /\ DOMAIN tables' = DOMAIN tables
  BY <1>0, <1>1 DEF Walked, update_table_weight
\* What the walk makes of room r.
<1>4. ASSUME NEW r \in DOMAIN rooms
      PROVE  /\ IsRoom(rooms'[r]) /\ rooms'[r].rating = rs[r].rating
             /\ r \notin Changed(rs) => rooms'[r] = rs[r]
             /\ r \in Changed(rs) =>
                    IF Cardinality(FromLastUpdated(rs, r)) < TablesLimit
                      THEN rooms'[r].last_updated_table = Special
                      ELSE /\ rooms'[r].last_updated_table = LastVisited(rs, r)
                           /\ rooms'[r].prev_rating = rs[r].prev_rating
  <2> DEFINE finished == [rating |-> rs[r].rating, prev_rating |-> rs[r].rating,
                          last_rating_update |-> rs[r].last_rating_update,
                          last_updated_table |-> Special]
  <2> DEFINE resumed == [rating |-> rs[r].rating, prev_rating |-> rs[r].prev_rating,
                         last_rating_update |-> rs[r].last_rating_update,
                         last_updated_table |-> LastVisited(rs, r)]
  <2>1. rooms'[r] = IF r \notin Changed(rs) THEN rs[r]
                    ELSE IF Cardinality(FromLastUpdated(rs, r)) < TablesLimit THEN finished
                    ELSE resumed
    BY <1>0, <1>1 DEF Walked
  <2>2. /\ IsRoom(finished) /\ finished.rating = rs[r].rating
        /\ finished.last_updated_table = Special
    BY DEF IsRoom
  <2>3. /\ IsRoom(resumed)
        /\ resumed.rating = rs[r].rating /\ resumed.prev_rating = rs[r].prev_rating
        /\ resumed.last_updated_table = LastVisited(rs, r)
    BY DEF IsRoom
  <2> HIDE DEF finished, resumed
  <2> QED BY <1>2, <2>1, <2>2, <2>3
\* What it makes of table t.
<1>5. ASSUME NEW t \in DOMAIN tables
      PROVE  /\ IsTable(tables'[t])
             /\ tables'[t].room = tables[t].room /\ tables'[t].alive = tables[t].alive
             /\ \/ tables'[t].weight = Weight(rs[tables[t].room].rating, tables[t].alive)
                \/ /\ tables'[t].weight = tables[t].weight
                   /\ ~\E r \in Changed(rs) : t \in Visited(rs, r)
  <2> DEFINE v == \E r \in Changed(rs) : t \in Visited(rs, r)
  <2> DEFINE w == set_weight(rs, t, tables[t].alive)
  <2>1. IsTable(tables[t])
    BY <1>0 DEF Shape
  <2>2. tables'[t] = IF v THEN w ELSE tables[t]
    BY <1>0 DEF update_table_weight
  <2>3. /\ IsTable(w) /\ w.room = tables[t].room /\ w.alive = tables[t].alive
        /\ w.weight = Weight(rs[tables[t].room].rating, tables[t].alive)
    BY DEF IsTable, set_weight
  <2> HIDE DEF v, w
  <2>4. CASE v
    BY <2>2, <2>3, <2>4
  <2>5. CASE ~v
    BY <2>1, <2>2, <2>5 DEF v
  <2> QED BY <2>4, <2>5
<1>6. Shape'
  <2>1. Numbered(rooms)' /\ Numbered(tables)'
    BY <1>0, <1>3 DEF Shape, Numbered
  <2>2. ASSUME NEW r \in DOMAIN rooms
        PROVE  rooms'[r].last_updated_table \in DOMAIN tables \cup {Special}
    <3>1. rs[r].last_updated_table \in DOMAIN tables \cup {Special}
      BY <1>0, <1>2 DEF Shape
    <3>2. LastVisited(rs, r) \in Visited(rs, r) => LastVisited(rs, r) \in DOMAIN tables
      BY DEF Visited, FromLastUpdated
    <3> QED BY <1>0, <1>4, <3>1, <3>2, WalkGoesOn
  <2>3. \A r \in DOMAIN rooms' : /\ IsRoom(rooms[r])'
                                 /\ rooms'[r].last_updated_table \in DOMAIN tables' \cup {Special}
    BY <1>3, <1>4, <2>2 DEF IsRoom
  <2>4. \A t \in DOMAIN tables' : IsTable(tables[t])' /\ tables'[t].room \in DOMAIN rooms'
    BY <1>0, <1>3, <1>5 DEF Shape, IsTable
  <2> QED BY <2>1, <2>3, <2>4 DEF Shape
<1>7. WeightInv'
  <2> SUFFICES ASSUME NEW t \in DOMAIN tables
      PROVE LET q == rooms'[tables'[t].room]
            IN  \/ tables'[t].weight = Weight(q.rating, tables'[t].alive)
                \/ /\ NotReached(t, q)
                   /\ tables'[t].weight = Weight(q.prev_rating, tables'[t].alive)
    BY <1>3 DEF WeightInv, NotReached, Weight
  <2> DEFINE r == tables[t].room
  <2>1. r \in DOMAIN rooms /\ r \in Nat /\ t \in Nat /\ t > Special
    BY <1>0, SMTT(30) DEF Shape, Numbered, Special
  <2>2. rs[r].last_updated_table \in Nat
    BY <1>0, <1>2, <2>1, SMTT(30) DEF Shape, Numbered, Special
  \* After the rating and before the walk.
  <2>3. \/ tables[t].weight = Weight(rs[r].rating, tables[t].alive)
        \/ /\ t >= rs[r].last_updated_table
           /\ tables[t].weight = Weight(rs[r].prev_rating, tables[t].alive)
    <3>1. \/ tables[t].weight = Weight(rooms[r].rating, tables[t].alive)
          \/ /\ NotReached(t, rooms[r])
             /\ tables[t].weight = Weight(rooms[r].prev_rating, tables[t].alive)
      BY <1>0 DEF WeightInv
    <3> QED BY <1>2, <2>1, <3>1, SMTT(30) DEF NotReached, Special
  <2>4. SUFFICES ASSUME tables'[t].weight # Weight(rs[r].rating, tables[t].alive)
                 PROVE  /\ NotReached(t, rooms'[r])
                        /\ tables'[t].weight = Weight(rooms'[r].prev_rating, tables[t].alive)
    BY <1>4, <1>5, <2>1
  <2>5. /\ tables'[t].weight = tables[t].weight
        /\ ~\E q \in Changed(rs) : t \in Visited(rs, q)
    BY <1>5, <2>4
  <2>6. /\ t >= rs[r].last_updated_table
        /\ tables[t].weight = Weight(rs[r].prev_rating, tables[t].alive)
    BY <2>3, <2>4, <2>5
  <2>7. r \in Changed(rs)
    BY <1>1, <2>1, <2>4, <2>5, <2>6 DEF Changed
  <2>8. t \in FromLastUpdated(rs, r)
    BY <2>6 DEF FromLastUpdated
  <2>9. ~(Cardinality(FromLastUpdated(rs, r)) < TablesLimit)
    BY <1>0, <2>5, <2>7, <2>8, WalkEnds
  <2> DEFINE l == LastVisited(rs, r)
  <2>10. l \in Visited(rs, r)
    BY <1>0, <2>9, WalkGoesOn
  <2>11. l \in DOMAIN tables /\ (tables[l].room > r \/ tables[l].room = r)
    BY <2>10 DEF Visited, FromLastUpdated
  <2>12. l \in Nat /\ l > Special /\ tables[l].room \in Nat
    BY <1>0, <2>11, SMTT(30) DEF Shape, Numbered, Special
  <2>13. ~Before(t, l)
    BY <1>0, <2>5, <2>7, <2>8, <2>10, VisitedFirst, SMTT(30)
  <2>14. t >= l
    <3> HIDE DEF l
    <3> QED BY <2>1, <2>11, <2>12, <2>13, SMTT(30) DEF Before
  <2>15. rooms'[r].last_updated_table = l /\ rooms'[r].prev_rating = rs[r].prev_rating
    BY <1>4, <2>1, <2>7, <2>9
  <2> HIDE DEF l
  <2> QED BY <2>5, <2>6, <2>12, <2>14, <2>15, SMTT(30) DEF NotReached, Special
<1> QED BY <1>6, <1>7 DEF IInv
-----------------------------------------------------------------------------
(* The other steps, and the theorem.                                         *)

\* Creating an object appends it to the ones that exist.
LEMMA CreatedObject ==
    ASSUME NEW f, NEW o, Numbered(f)
    PROVE  /\ Numbered(Created(f, o))
           /\ NextId(f) \notin DOMAIN f
           /\ DOMAIN Created(f, o) = DOMAIN f \cup {NextId(f)}
           /\ Created(f, o)[NextId(f)] = o
           /\ \A i \in DOMAIN f : Created(f, o)[i] = f[i]
<1> DEFINE n == Cardinality(DOMAIN f)
<1>1. n \in Nat /\ DOMAIN f = 1..n /\ NextId(f) = n + 1
  BY DEF Numbered, NextId
<1>2. DOMAIN Created(f, o) = DOMAIN f \cup {NextId(f)}
  BY DEF Created
<1>3. NextId(f) \notin DOMAIN f
  <2> HIDE DEF n
  <2> QED BY <1>1, SMTT(30)
<1>4. DOMAIN f \cup {NextId(f)} = 1..(n + 1)
  <2> HIDE DEF n
  <2> QED BY <1>1, SMTT(30)
<1>5. Cardinality(1..(n + 1)) = n + 1
  <2> HIDE DEF n
  <2>1. n + 1 \in Int /\ ~(1 > n + 1) /\ (n + 1) - 1 + 1 = n + 1
    BY <1>1, SMTT(30)
  <2> QED BY <2>1, FS_Interval, SMTT(30)
<1>6. Numbered(Created(f, o))
  <2> DEFINE D == DOMAIN Created(f, o)
  <2>1. D = 1..(n + 1) /\ Cardinality(D) = n + 1 /\ n + 1 \in Nat
    <3>1. D = 1..(n + 1)
      <4> HIDE DEF n
      <4> QED BY <1>2, <1>4
    <3>2. n + 1 \in Nat
      <4> HIDE DEF n
      <4> QED BY <1>1, SMTT(30)
    <3> HIDE DEF n, D
    <3> QED BY <1>5, <3>1, <3>2
  <2>2. Cardinality(D) \in Nat /\ D = 1..Cardinality(D)
    <3> HIDE DEF n, D
    <3> QED BY <2>1
  <2> QED BY <2>2 DEF Numbered
<1> QED BY <1>2, <1>3, <1>6 DEF Created

\* Giving a table the weight of the current rating keeps the invariant.
LEMMA SetWeightKeeps ==
    ASSUME IInv, NEW t, NEW alive, rooms' = rooms,
           tables' = [tables EXCEPT ![t] = set_weight(rooms, t, alive)]
    PROVE  IInv'
<1>0. Shape /\ WeightInv
  BY DEF IInv
<1>1. DOMAIN tables' = DOMAIN tables
  OBVIOUS
<1>2. ASSUME NEW u \in DOMAIN tables
      PROVE  /\ IsTable(tables'[u]) /\ tables'[u].room = tables[u].room
             /\ \/ tables'[u] = tables[u]
                \/ tables'[u].weight = Weight(rooms[tables[u].room].rating, tables'[u].alive)
  <2>1. CASE u = t
    <3> DEFINE w == set_weight(rooms, t, alive)
    <3>1. tables'[u] = w
      BY <2>1
    <3>2. IsTable(w) /\ w.room = tables[t].room
                     /\ w.weight = Weight(rooms[tables[t].room].rating, w.alive)
      BY DEF IsTable, set_weight
    <3> HIDE DEF w
    <3> QED BY <2>1, <3>1, <3>2
  <2>2. CASE u # t
    <3>1. tables'[u] = tables[u]
      BY <2>2
    <3>2. IsTable(tables[u])
      BY <1>0 DEF Shape
    <3> QED BY <3>1, <3>2
  <2> QED BY <2>1, <2>2
<1>3. Shape'
  <2>1. Numbered(rooms)' /\ Numbered(tables)'
    BY <1>0, <1>1 DEF Shape, Numbered
  <2>2. \A r \in DOMAIN rooms : /\ IsRoom(rooms[r])'
                                /\ rooms[r].last_updated_table \in DOMAIN tables \cup {Special}
    BY <1>0 DEF Shape, IsRoom
  <2>3. \A u \in DOMAIN tables : IsTable(tables[u])' /\ tables'[u].room \in DOMAIN rooms
    BY <1>0, <1>2 DEF Shape, IsTable
  <2> QED BY <1>1, <2>1, <2>2, <2>3 DEF Shape
<1>4. WeightInv'
  <2> SUFFICES ASSUME NEW u \in DOMAIN tables
      PROVE LET q == rooms[tables'[u].room]
            IN  \/ tables'[u].weight = Weight(q.rating, tables'[u].alive)
                \/ /\ NotReached(u, q)
                   /\ tables'[u].weight = Weight(q.prev_rating, tables'[u].alive)
    BY <1>1 DEF WeightInv, NotReached, Weight
  <2> QED BY <1>0, <1>2, SMTT(30) DEF WeightInv
<1> QED BY <1>3, <1>4 DEF IInv

\* A new table begins with the current rating of its room.
LEMMA NewTableKeeps ==
    ASSUME IInv, NEW r \in DOMAIN rooms, table_create(r)
    PROVE  IInv'
<1> DEFINE o == [room |-> r, alive |-> FALSE, weight |-> Weight(rooms[r].rating, FALSE)]
<1> DEFINE n == NextId(tables)
<1>0. Shape /\ WeightInv /\ rooms' = rooms /\ tables' = Created(tables, o)
  BY DEF IInv, table_create
<1>1. IsTable(o) /\ o.room = r /\ o.weight = Weight(rooms[r].rating, o.alive)
  BY DEF IsTable
<1> HIDE DEF o
<1>2. /\ Numbered(tables')
      /\ DOMAIN tables' = DOMAIN tables \cup {n}
      /\ tables'[n] = o
      /\ \A i \in DOMAIN tables : tables'[i] = tables[i]
  <2>1. Numbered(tables)
    BY <1>0 DEF Shape
  <2> DEFINE c == Created(tables, o)
  <2>2. /\ Numbered(c) /\ DOMAIN c = DOMAIN tables \cup {n} /\ c[n] = o
        /\ \A i \in DOMAIN tables : c[i] = tables[i]
    BY <2>1, CreatedObject
  <2> HIDE DEF c, n
  <2> QED BY <1>0, <2>2 DEF c
<1> HIDE DEF n
<1>3. Shape'
  <2>1. Numbered(rooms)' /\ Numbered(tables)'
    BY <1>0, <1>2 DEF Shape, Numbered
  <2>2. \A q \in DOMAIN rooms : /\ IsRoom(rooms[q])'
                                /\ rooms[q].last_updated_table \in DOMAIN tables' \cup {Special}
    BY <1>0, <1>2 DEF Shape, IsRoom
  <2>3. \A u \in DOMAIN tables' : IsTable(tables[u])' /\ tables'[u].room \in DOMAIN rooms
    BY <1>0, <1>1, <1>2 DEF Shape, IsTable
  <2> QED BY <1>0, <2>1, <2>2, <2>3 DEF Shape
<1>4. WeightInv'
  <2> SUFFICES ASSUME NEW u \in DOMAIN tables'
      PROVE LET q == rooms[tables'[u].room]
            IN  \/ tables'[u].weight = Weight(q.rating, tables'[u].alive)
                \/ /\ NotReached(u, q)
                   /\ tables'[u].weight = Weight(q.prev_rating, tables'[u].alive)
    BY <1>0 DEF WeightInv, NotReached, Weight
  <2> QED BY <1>0, <1>1, <1>2 DEF WeightInv
<1> QED BY <1>3, <1>4 DEF IInv

\* A new room has no table.
LEMMA NewRoomKeeps ==
    ASSUME IInv, room_create
    PROVE  IInv'
<1> DEFINE n == NextId(rooms)
<1>0. Shape /\ WeightInv /\ tables' = tables /\ rooms' = Created(rooms, NewRoom)
  BY DEF IInv, room_create
<1>1. IsRoom(NewRoom) /\ NewRoom.last_updated_table = Special
  BY DEF IsRoom, NewRoom
<1>2. /\ Numbered(rooms')
      /\ DOMAIN rooms' = DOMAIN rooms \cup {n}
      /\ rooms'[n] = NewRoom
      /\ \A i \in DOMAIN rooms : rooms'[i] = rooms[i]
  <2>1. Numbered(rooms)
    BY <1>0 DEF Shape
  <2> DEFINE c == Created(rooms, NewRoom)
  <2>2. /\ Numbered(c) /\ DOMAIN c = DOMAIN rooms \cup {n} /\ c[n] = NewRoom
        /\ \A i \in DOMAIN rooms : c[i] = rooms[i]
    BY <2>1, CreatedObject
  <2> HIDE DEF c, n
  <2> QED BY <1>0, <2>2 DEF c
<1> HIDE DEF n
<1>3. Shape'
  <2>1. Numbered(rooms)' /\ Numbered(tables)'
    BY <1>0, <1>2 DEF Shape, Numbered
  <2>2. \A q \in DOMAIN rooms' : /\ IsRoom(rooms[q])'
                                 /\ rooms'[q].last_updated_table \in DOMAIN tables \cup {Special}
    BY <1>0, <1>1, <1>2 DEF Shape, IsRoom
  <2>3. \A u \in DOMAIN tables : IsTable(tables[u])' /\ tables[u].room \in DOMAIN rooms'
    BY <1>0, <1>2 DEF Shape, IsTable
  <2> QED BY <1>0, <2>1, <2>2, <2>3 DEF Shape
<1>4. WeightInv'
  <2> SUFFICES ASSUME NEW u \in DOMAIN tables
      PROVE LET q == rooms'[tables[u].room]
            IN  \/ tables[u].weight = Weight(q.rating, tables[u].alive)
                \/ /\ NotReached(u, q)
                   /\ tables[u].weight = Weight(q.prev_rating, tables[u].alive)
    BY <1>0 DEF WeightInv, NotReached, Weight
  <2>1. rooms'[tables[u].room] = rooms[tables[u].room]
    BY <1>0, <1>2 DEF Shape
  <2> QED BY <1>0, <2>1 DEF WeightInv
<1> QED BY <1>3, <1>4 DEF IInv

\* Reservations and their measurements touch neither ratings nor weights.
LEMMA OthersKeep ==
    ASSUME IInv, rooms' = rooms, tables' = tables
    PROVE  IInv'
<1>1. Shape'
  BY DEF IInv, Shape, Numbered
<1>2. WeightInv'
  BY DEF IInv, WeightInv, NotReached
<1> QED BY <1>1, <1>2 DEF IInv

\* Every step keeps the invariant.
LEMMA NextKeeps ==
    ASSUME IInv, [RoomsNext]_room_vars
    PROVE  IInv'
<1>1. CASE process_maintain_tasks
  BY <1>1, MaintenanceKeeps DEF process_maintain_tasks
<1>2. CASE Crash
  BY <1>2, OthersKeep DEF Crash
<1>3. CASE room_create
  BY <1>3, NewRoomKeeps
<1>4. CASE \E r \in DOMAIN rooms : table_create(r)
  BY <1>4, NewTableKeeps
<1>5. ASSUME NEW t \in DOMAIN tables, tables_alive(t)
      PROVE  IInv'
  BY <1>5, SetWeightKeeps DEF tables_alive, alive_for_table
<1>6. ASSUME NEW t \in DOMAIN tables, update_expired_table_alive(t)
      PROVE  IInv'
  BY <1>6, SetWeightKeeps DEF update_expired_table_alive
<1>7. ASSUME NEW t \in DOMAIN tables, NEW s \in Slots, allocate_table(s, t)
      PROVE  IInv'
  BY <1>7, OthersKeep DEF allocate_table
<1>8. ASSUME NEW s \in Slots, buy_in_reserving_resolve(s)
      PROVE  IInv'
  BY <1>8, SetWeightKeeps DEF buy_in_reserving_resolve, alive_for_table
<1>9. ASSUME NEW s \in Slots, push_pending_buy_expire_operation(s) \/ cancel_pending_buyin(s)
      PROVE  IInv'
  BY <1>9, OthersKeep DEF push_pending_buy_expire_operation, cancel_pending_buyin
<1>10. CASE UNCHANGED room_vars
  BY <1>10, OthersKeep DEF room_vars
<1> QED BY <1>1, <1>2, <1>3, <1>4, <1>5, <1>6, <1>7, <1>8, <1>9, <1>10 DEF RoomsNext

-----------------------------------------------------------------------------
(* Numbers and sums.                                                         *)

\* Multiplying keeps the order.
LEMMA Multiplied ==
    ASSUME NEW a \in Nat, NEW b \in Nat, a <= b, NEW c \in Nat
    PROVE  a * c \in Nat /\ a * c <= b * c
<1> DEFINE d == b - a
<1>1. d \in Nat /\ b = a + d
  BY SMTT(30)
<1> HIDE DEF d
<1>2. d * c \in Nat /\ a * c \in Nat
  BY <1>1, SMTT(30)
<1>3. b * c = a * c + d * c
  BY <1>1, SMTT(30)
<1> QED BY <1>2, <1>3, SMTT(30)

\* A quotient is not larger than a factor that makes the divisor at least the dividend.
LEMMA Quotient ==
    ASSUME NEW a \in Nat, NEW d \in Nat \ {0}, NEW k \in Nat, a <= d * k
    PROVE  a \div d \in Nat /\ a \div d <= k
<1> DEFINE q == a \div d
           m == a % d
<1>1. q \in Int /\ m \in Nat /\ a = d * q + m
  BY SMTT(30)
<1> HIDE DEF q, m
<1>2. q \in Nat
  <2> SUFFICES ASSUME q < 0 PROVE FALSE
    BY <1>1, SMTT(30)
  <2>1. m < d
    BY SMTT(30) DEF m
  <2>2. d * q <= -d
    BY <1>1, SMTT(30)
  <2> QED BY <1>1, <2>1, <2>2, SMTT(30)
<1>3. q <= k
  <2> SUFFICES ASSUME q > k PROVE FALSE
    BY <1>1, SMTT(30)
  <2>1. d * q = d * k + d * (q - k)
    BY <1>1, SMTT(30)
  <2>2. d * (q - k) >= d
    BY <1>1, SMTT(30)
  <2> QED BY <1>1, <2>1, <2>2, SMTT(30)
<1> QED BY <1>2, <1>3 DEF q

\* The largest of a number and 1.
LEMMA AtLeastOne ==
    ASSUME NEW n \in Nat
    PROVE  Max({n, 1}) \in Nat \ {0} /\ n <= Max({n, 1})
<1> DEFINE S == {n, 1}
<1>1. \E x \in S : \A y \in S : x >= y
  BY SMTT(30)
<1>2. Max(S) \in S /\ \A y \in S : Max(S) >= y
  BY <1>1 DEF Max
<1> QED BY <1>2, SMTT(30)

LEMMA SumOrdered ==
    ASSUME NEW f, NEW g, NEW S, IsFiniteSet(S),
           \A x \in S : f[x] \in Nat /\ g[x] \in Nat /\ f[x] <= g[x]
    PROVE  SumOf(f, S) \in Nat /\ SumOf(g, S) \in Nat /\ SumOf(f, S) <= SumOf(g, S)
<1> DEFINE d == [x \in S |-> g[x] - f[x]]
<1>1. IntegerOn(f, S) /\ IntegerOn(d, S) /\ \A x \in S : g[x] = f[x] + d[x] /\ d[x] \in Nat
  BY SMTT(30) DEF IntegerOn
<1> HIDE DEF d
<1>2. SumOf(g, S) = SumOf(f, S) + SumOf(d, S)
  BY <1>1, SumPlus, SMTT(30)
<1>3. SumOf(f, S) \in Nat /\ SumOf(d, S) \in Nat
  BY <1>1, SumNatural
<1> QED BY <1>2, <1>3, SMTT(30)

\* No rating exceeds this.
MaxRating == 25 * quantity_factor(Cardinality(Slots))

LEMMA FiniteSlots == IsFiniteSet(Slots) /\ Cardinality(Slots) \in Nat
BY RoomsAssumption, FS_CardinalityType

\* The factor of a number of measurements is at most that of all measurements.
LEMMA QuantityFactors ==
    ASSUME NEW n \in Nat, n <= Cardinality(Slots)
    PROVE  /\ quantity_factor(n) \in Nat /\ quantity_factor(Cardinality(Slots)) \in Nat
           /\ quantity_factor(n) <= quantity_factor(Cardinality(Slots))
<1> DEFINE z == Cardinality(Slots)
           Ns == 0..z
<1>1. n \in Ns /\ z \in Ns
  BY FiniteSlots, SMTT(30)
<1>2. /\ QuantityFactor \in [Ns -> Nat]
      /\ \A i, j \in Ns : i <= j => QuantityFactor[i] <= QuantityFactor[j]
  BY RoomsAssumption
<1> HIDE DEF z, Ns
<1>3. /\ QuantityFactor[n] \in Nat /\ QuantityFactor[z] \in Nat
      /\ n <= z => QuantityFactor[n] <= QuantityFactor[z]
  BY <1>1, <1>2
<1> QED BY <1>3 DEF quantity_factor, z

\* The age at which a measurement is removed.
FullAge == AlivePeriods * MaintenanceMinutes

\* A measurement that has not its full age at one maintenance is not older than MaxAge at
\* the next.
LEMMA Ages == /\ MaintenanceMinutes \in Nat /\ FullAge \in Nat
              /\ MaxAge = FullAge + MaintenanceMinutes /\ MaxAge \in Nat
<1> DEFINE a == AlivePeriods
           m == MaintenanceMinutes
<1>1. a \in Nat /\ m \in Nat
  BY RoomsAssumption
<1> HIDE DEF a, m
<1>2. a * m \in Nat /\ (a + 1) * m = a * m + m
  BY <1>1, SMTT(30)
<1>3. FullAge = a * m /\ MaxAge = (a + 1) * m
  BY DEF FullAge, MaxAge, a, m
<1>4. m \in Nat /\ FullAge \in Nat /\ MaxAge = FullAge + m /\ MaxAge \in Nat
  BY <1>1, <1>2, <1>3, SMTT(30)
<1> QED BY <1>4 DEF m

\* The factor of an age is a number, linear or faded.
LEMMA TimeFactors ==
    ASSUME NEW x \in 0..MaxAge
    PROVE  time_factor(x) \in Nat
<1> DEFINE p == ROOM_RATING_PRECISION
           F == 31..MaxAge
<1>1. p \in Nat /\ FadedTime \in [F -> Nat]
  <2>1. p \in Nat /\ FadedTime \in [(30 + 1)..MaxAge -> Nat]
    BY RoomsAssumption DEF TIME_FACTOR_FADE_START
  <2>2. 30 + 1 = 31
    BY SMTT(30)
  <2> QED BY <2>1, <2>2
<1>2. x \in Nat /\ (x <= 30 \/ x \in F)
  BY Ages, SMTT(30)
<1>3. time_factor(x) = IF x <= 30 THEN p * x ELSE FadedTime[x]
  BY DEF time_factor, TIME_FACTOR_FADE_START
<1> HIDE DEF p, F
<1>4. x \in F => FadedTime[x] \in Nat
  BY <1>1
<1>5. p * x \in Nat
  BY <1>1, <1>2, SMTT(30)
<1>6. (IF x <= 30 THEN p * x ELSE FadedTime[x]) \in Nat
  BY <1>2, <1>4, <1>5
<1> QED BY <1>3, <1>6

\* Factors of a room: the weights do not exceed the times.
Fair(f) ==
    /\ f.weights \in Nat /\ f.times \in Nat /\ f.quantity \in Nat
    /\ f.weights <= f.times /\ f.quantity <= Cardinality(Slots)

\* The rating of a room from the factors of all rooms.
LEMMA RatingIsBounded ==
    ASSUME NEW f, Fair(f), NEW sw \in Nat, NEW st \in Nat, sw <= st
    PROVE  recalculate_room_rating(f, sw, st) \in 0..MaxRating
<1> DEFINE c == Max({st, 1})
           w == f.weights
           t == f.times
           n == f.quantity
           z == Cardinality(Slots)
           s == stat_correction
           k == quantity_factor(n)
           l == quantity_factor(z)
<1>1. c \in Nat \ {0} /\ sw <= c
  BY AtLeastOne, SMTT(30)
<1>2. /\ w \in Nat /\ t \in Nat /\ n \in Nat /\ w <= t /\ n <= z /\ z \in Nat
  BY FiniteSlots DEF Fair
<1>3. recalculate_room_rating(f, sw, st) = ((w * c + sw * s) * 25 * k) \div (c * (t + s))
  BY DEF recalculate_room_rating
<1>4. MaxRating = 25 * l
  BY DEF MaxRating
<1>5. k \in Nat /\ l \in Nat /\ k <= l
  <2> HIDE DEF n
  <2> QED BY <1>2, QuantityFactors
<1> HIDE DEF c, w, t, n, z, k, l
<1> DEFINE a == w * c + sw * s
           d == c * (t + s)
<1>6. a \in Nat /\ d \in Nat \ {0} /\ a <= d
  <2>1. w * c \in Nat /\ w * c <= t * c
    BY <1>1, <1>2, Multiplied
  <2>2. s \in Nat \ {0}
    <3> DEFINE p == ROOM_RATING_PRECISION
    <3>1. p \in Nat \ {0} /\ s = 25 * p
      BY RoomsAssumption DEF stat_correction
    <3> HIDE DEF p, s
    <3> QED BY <3>1, SMTT(30)
  <2> HIDE DEF s
  <2>3. sw * s \in Nat /\ sw * s <= c * s
    BY <1>1, <2>2, Multiplied
  <2>4. d = t * c + c * s
    BY <1>1, <1>2, <2>2, SMTT(30)
  <2>5. t * c \in Nat /\ c * s \in Nat \ {0}
    BY <1>1, <1>2, <2>2, SMTT(30)
  <2> DEFINE wc == w * c
             tc == t * c
             us == sw * s
             cs == c * s
  <2> HIDE DEF wc, tc, us, cs
  <2>6. /\ wc \in Nat /\ tc \in Nat /\ us \in Nat /\ cs \in Nat \ {0}
        /\ wc <= tc /\ us <= cs
    BY <2>1, <2>3, <2>5 DEF wc, tc, us, cs
  <2>7. a = wc + us /\ d = tc + cs
    BY <2>4 DEF wc, tc, us, cs
  <2> HIDE DEF a, d
  <2> QED BY <2>6, <2>7, SMTT(30)
<1> HIDE DEF a, d
<1>7. (a * 25) * k \in Nat /\ (a * 25) * k <= d * (25 * l)
  <2>1. a * k \in Nat /\ a * k <= d * k
    BY <1>5, <1>6, Multiplied
  <2>2. k * d \in Nat /\ k * d <= l * d
    BY <1>5, <1>6, Multiplied
  <2>3. (a * 25) * k = 25 * (a * k) /\ d * (25 * l) = 25 * (l * d) /\ d * k = k * d
    BY <1>5, <1>6, SMTT(30)
  <2>4. a * k \in Nat /\ k * d \in Nat /\ l * d \in Nat
    BY <1>5, <1>6, SMTT(30)
  <2> DEFINE ak == a * k
             kd == k * d
             ld == l * d
  <2> HIDE DEF ak, kd, ld
  <2>5. ak \in Nat /\ kd \in Nat /\ ld \in Nat /\ ak <= kd /\ kd <= ld
    BY <2>1, <2>2, <2>3, <2>4 DEF ak, kd, ld
  <2>6. 25 * ak \in Nat /\ 25 * ak <= 25 * ld
    BY <2>5, SMTT(30)
  <2> QED BY <2>3, <2>6 DEF ak, ld
<1>8. 25 * l \in Nat
  BY <1>5, SMTT(30)
<1> DEFINE q == ((a * 25) * k) \div d
<1>9. q \in Nat /\ q <= 25 * l
  BY <1>6, <1>7, <1>8, Quotient
<1>10. recalculate_room_rating(f, sw, st) = q
  BY <1>3 DEF a, d
<1> HIDE DEF q
<1> DEFINE m == 25 * l
<1> HIDE DEF m
<1>11. q \in 0..m
  BY <1>8, <1>9, SMTT(30) DEF m
<1> QED BY <1>4, <1>10, <1>11 DEF m

-----------------------------------------------------------------------------
(* Measurements, ratings and their average.                                  *)

MeasurementFields == {"pending", "measured", "table", "age", "weight", "waiting"}

IsMeasurement(m) == DOMAIN m = MeasurementFields /\ m.age \in 0..MaxAge /\ m.weight \in {0, 1}

\* The measurement of a free slot.
LEMMA FreeIsMeasurement == IsMeasurement(Free)
<1>1. 0 \in 0..MaxAge
  BY Ages, SMTT(30)
<1> QED BY <1>1 DEF IsMeasurement, MeasurementFields, Free

Measures(ms) == DOMAIN ms = Slots /\ \A s \in Slots : IsMeasurement(ms[s])

\* Ratings and average avg of the rooms rs.
Rated(avg, rs) ==
    /\ avg \in 0..MaxRating
    /\ \A r \in DOMAIN rs : /\ rs[r].rating \in 0..MaxRating
                            /\ rs[r].prev_rating \in 0..MaxRating
                            /\ rs[r].last_rating_update \in Nat

RatingInv == Measures(measurements) /\ Rated(average, rooms)

\* The largest rating is a number.
LEMMA MaxRatingIsNumber == MaxRating \in Nat
<1> DEFINE l == quantity_factor(Cardinality(Slots))
<1>1. Cardinality(Slots) \in Nat /\ Cardinality(Slots) <= Cardinality(Slots)
  BY FiniteSlots, SMTT(30)
<1>2. l \in Nat /\ MaxRating = 25 * l
  BY <1>1, QuantityFactors DEF MaxRating
<1> HIDE DEF l
<1> QED BY <1>2, SMTT(30)

\* A measurement weighs 0 or 1, so the weights of a room do not exceed its times.
LEMMA FactorsAreFair ==
    ASSUME NEW ms, \A s \in Slots : IsMeasurement(ms[s]), NEW r
    PROVE  Fair(recalculate_room_rating_factors(ms, r))
<1> DEFINE C == Counted(ms, r)
           f == [s \in Slots |-> ms[s].weight * time_factor(ms[s].age)]
           g == [s \in Slots |-> time_factor(ms[s].age)]
           F == recalculate_room_rating_factors(ms, r)
<1>1. C \subseteq Slots
  BY DEF Counted
<1>2. IsFiniteSet(C) /\ Cardinality(C) \in Nat /\ Cardinality(C) <= Cardinality(Slots)
  <2> HIDE DEF C
  <2> QED BY <1>1, FiniteSlots, FS_Subset, FS_CardinalityType
<1>3. ASSUME NEW s \in Slots PROVE f[s] \in Nat /\ g[s] \in Nat /\ f[s] <= g[s]
  <2> DEFINE w == ms[s].weight
             x == time_factor(ms[s].age)
  <2>1. ms[s].age \in 0..MaxAge /\ w \in {0, 1}
    BY DEF IsMeasurement
  <2>2. f[s] = w * x /\ g[s] = x
    OBVIOUS
  <2>3. x \in Nat
    BY <2>1, TimeFactors
  <2> HIDE DEF w, x, f, g
  <2> QED BY <2>1, <2>2, <2>3, SMTT(30)
<1>4. F = [weights |-> Sum(f, C), times |-> Sum(g, C), quantity |-> Cardinality(C)]
  BY DEF recalculate_room_rating_factors
<1> HIDE DEF C, f, g, F
<1>5. SumOf(f, C) \in Nat /\ SumOf(g, C) \in Nat /\ SumOf(f, C) <= SumOf(g, C)
  BY <1>1, <1>2, <1>3, SumOrdered
<1>6. Sum(f, C) = SumOf(f, C) /\ Sum(g, C) = SumOf(g, C)
  BY DEF Sum, SumOf
<1>7. F.weights = SumOf(f, C) /\ F.times = SumOf(g, C) /\ F.quantity = Cardinality(C)
  BY <1>4, <1>6
<1>8. Fair(F)
  BY <1>2, <1>5, <1>7 DEF Fair
<1> QED BY <1>8 DEF F

\* The new rating of a room.
LEMMA NewRatingIsBounded ==
    ASSUME NEW ms, \A s \in Slots : IsMeasurement(ms[s]),
           NEW rated, IsFiniteSet(rated), NEW r \in rated
    PROVE  NewRating(ms, rated, r) \in 0..MaxRating
<1> DEFINE F == [q \in rated |-> recalculate_room_rating_factors(ms, q)]
           f == [q \in rated |-> F[q].weights]
           g == [q \in rated |-> F[q].times]
           sw == Sum(f, rated)
           st == Sum(g, rated)
<1>1. \A q \in rated : Fair(F[q])
  <2> TAKE q \in rated
  <2>1. F[q] = recalculate_room_rating_factors(ms, q)
    OBVIOUS
  <2> HIDE DEF F
  <2> QED BY <2>1, FactorsAreFair
<1>2. NewRating(ms, rated, r) = recalculate_room_rating(F[r], sw, st)
  BY DEF NewRating
<1> HIDE DEF F
<1>3. \A q \in rated : f[q] \in Nat /\ g[q] \in Nat /\ f[q] <= g[q]
  BY <1>1 DEF Fair
<1> HIDE DEF f, g
<1>4. SumOf(f, rated) \in Nat /\ SumOf(g, rated) \in Nat /\ SumOf(f, rated) <= SumOf(g, rated)
  BY <1>3, SumOrdered
<1>5. sw = SumOf(f, rated) /\ st = SumOf(g, rated)
  BY DEF Sum, SumOf
<1> HIDE DEF sw, st
<1>6. sw \in Nat /\ st \in Nat /\ sw <= st
  BY <1>4, <1>5
<1>7. recalculate_room_rating(F[r], sw, st) \in 0..MaxRating
  BY <1>1, <1>6, RatingIsBounded
<1> QED BY <1>2, <1>7

\* The average of ratings.
LEMMA AverageIsBounded ==
    ASSUME average \in 0..MaxRating, NEW rs, NEW rated, IsFiniteSet(rated),
           \A r \in rated : rs[r].rating \in 0..MaxRating
    PROVE  AverageRating(rs, rated) \in 0..MaxRating
<1>1. CASE rated = {}
  BY <1>1 DEF AverageRating
<1>2. CASE rated # {}
  <2> DEFINE f == [r \in rated |-> rs[r].rating]
             g == [r \in rated |-> MaxRating]
             n == Cardinality(rated)
             m == MaxRating
             a == SumOf(f, rated)
  <2>1. n \in Nat \ {0}
    BY <1>2, FS_CardinalityType, FS_EmptySet
  <2>2. m \in Nat
    BY MaxRatingIsNumber
  <2>3. \A r \in rated : f[r] \in 0..m /\ g[r] = m
    OBVIOUS
  <2>4. AverageRating(rs, rated) = a \div n
    BY <1>2 DEF AverageRating, Sum, SumOf
  <2> HIDE DEF f, g, m
  <2>5. \A r \in rated : f[r] \in Nat /\ g[r] \in Nat /\ f[r] <= g[r]
    BY <2>2, <2>3, SMTT(30)
  <2>6. a \in Nat /\ a <= SumOf(g, rated)
    BY <2>5, SumOrdered
  <2>7. SumOf(g, rated) = m * n
    BY <2>2, <2>3, SumConstant, SMTT(30)
  <2> HIDE DEF a, n
  <2>8. a <= n * m
    BY <2>1, <2>2, <2>6, <2>7, SMTT(30)
  <2>9. a \div n \in Nat /\ a \div n <= m
    BY <2>1, <2>2, <2>6, <2>8, Quotient
  <2>10. AverageRating(rs, rated) \in 0..m
    BY <2>2, <2>4, <2>9, SMTT(30)
  <2> QED BY <2>10 DEF m
<1> QED BY <1>1, <1>2

\* Measurements that are removed.
LEMMA RemovedMeasures ==
    ASSUME RatingInv, NEW s \in Slots
    PROVE  LET m == remove_expired_room_rating_measurements[s]
           IN  IsMeasurement(m) /\ (m.measured => m.age < FullAge)
<1> DEFINE m == measurements[s]
           k == [Free EXCEPT !.pending = TRUE, !.table = m.table]
           e == remove_expired_room_rating_measurements[s]
<1>1. IsMeasurement(m)
  BY DEF RatingInv, Measures
<1>2. IsMeasurement(Free) /\ ~Free.measured
  BY FreeIsMeasurement DEF Free
<1>4. IsMeasurement(k) /\ ~k.measured
  <2> HIDE DEF m
  <2>1. /\ DOMAIN k = DOMAIN Free /\ k.age = Free.age /\ k.weight = Free.weight
        /\ k.measured = Free.measured
    BY DEF Free
  <2> QED BY <1>2, <2>1 DEF IsMeasurement
<1>5. (e = m /\ (m.measured => m.age < FullAge)) \/ e = k \/ e = Free
  BY DEF remove_expired_room_rating_measurements, FullAge
<1> HIDE DEF m, k, e
<1>6. IsMeasurement(e) /\ (e.measured => e.age < FullAge)
  BY <1>1, <1>2, <1>4, <1>5
<1> QED BY <1>6 DEF e

\* The rooms are finitely many.
LEMMA FiniteRooms ==
    ASSUME Shape, NEW T, T \subseteq DOMAIN rooms
    PROVE  IsFiniteSet(T)
<1> DEFINE n == Cardinality(DOMAIN rooms)
<1>1. n \in Nat /\ DOMAIN rooms = 1..n
  BY DEF Shape, Numbered
<1>2. IsFiniteSet(1..n)
  <2> HIDE DEF n
  <2> QED BY <1>1, FS_Interval, SMTT(30)
<1> QED BY <1>1, <1>2, FS_Subset

\* The times of the last ratings are numbers again.
LEMMA TimesAreNumbers ==
    ASSUME Shape, NEW rated, NEW r \in DOMAIN rooms
    PROVE  RatedLast(rated)[r] \in Nat
<1> DEFINE D == DOMAIN rooms \ rated
           f == [q \in DOMAIN rooms |-> rooms[q].last_rating_update]
           T == {rooms[q].last_rating_update : q \in D} \ {0}
           U == {x \in T : x <= rooms[r].last_rating_update}
<1>1. IsFiniteSet(D)
  BY FiniteRooms
<1>2. IsFiniteSet(ImageOf(f, D))
  BY <1>1, FiniteImage
<1>3. T \subseteq ImageOf(f, D) /\ U \subseteq T
  BY DEF ImageOf
<1>4. RatedLast(rated)[r] = IF r \in rated THEN Cardinality(T) + 1 ELSE Cardinality(U)
  BY DEF RatedLast
<1> HIDE DEF T, U, f, D
<1>5. IsFiniteSet(T) /\ IsFiniteSet(U)
  BY <1>2, <1>3, FS_Subset
<1>6. Cardinality(T) \in Nat /\ Cardinality(U) \in Nat
  BY <1>5, FS_CardinalityType
<1> QED BY <1>4, <1>6, SMTT(30)

\* A maintenance keeps ratings, the average and measurements within their bounds.
LEMMA MaintenanceRates ==
    ASSUME Shape, RatingInv, process_maintain_tasks
    PROVE  RatingInv'
<1> DEFINE ms == remove_expired_room_rating_measurements
           rated == UpdatedRooms
           rs == update_room_rating(ms, rated)
<1>0. /\ rooms' = Walked(rs) /\ average' = AverageRating(rs, rated)
      /\ measurements' = [s \in Slots |->
             [ms[s] EXCEPT !.age = IF ms[s].measured THEN @ + MaintenanceMinutes ELSE @]]
  BY DEF process_maintain_tasks
<1>1. \A s \in Slots : IsMeasurement(ms[s]) /\ (ms[s].measured => ms[s].age < FullAge)
  BY RemovedMeasures
<1>2. rated \subseteq DOMAIN rooms
  BY DEF UpdatedRooms, Ready
<1>3. IsFiniteSet(rated)
  <2> HIDE DEF rated
  <2> QED BY <1>2, FiniteRooms
<1> HIDE DEF ms, rated
<1>4. \A r \in rated : NewRating(ms, rated, r) \in 0..MaxRating
  BY <1>1, <1>3, NewRatingIsBounded
<1>5. ASSUME NEW r \in DOMAIN rooms
      PROVE  /\ rs[r].rating \in 0..MaxRating /\ rs[r].prev_rating \in 0..MaxRating
             /\ rs[r].last_rating_update \in Nat
  <2> DEFINE o == [rating |-> IF r \in rated THEN NewRating(ms, rated, r) ELSE rooms[r].rating,
                   prev_rating |-> IF r \in rated THEN rooms[r].rating ELSE rooms[r].prev_rating,
                   last_rating_update |-> RatedLast(rated)[r],
                   last_updated_table |-> rooms[r].last_updated_table]
             M == 0..MaxRating
  <2>1. rs[r] = o
    BY DEF update_room_rating
  <2>2. rooms[r].rating \in M /\ rooms[r].prev_rating \in M
    BY DEF RatingInv, Rated
  <2>3. RatedLast(rated)[r] \in Nat
    BY TimesAreNumbers
  <2>4. r \in rated => NewRating(ms, rated, r) \in M
    BY <1>4
  <2> HIDE DEF M, rs
  <2>5. rs[r].rating \in M /\ rs[r].prev_rating \in M /\ rs[r].last_rating_update \in Nat
    BY <2>1, <2>2, <2>3, <2>4, SMTT(30)
  <2> QED BY <2>5 DEF M
<1>6. DOMAIN rs = DOMAIN rooms
  BY DEF update_room_rating
<1> HIDE DEF rs
<1>7. average' \in 0..MaxRating
  <2>1. \A r \in rated : rs[r].rating \in 0..MaxRating
    BY <1>2, <1>5
  <2>2. average \in 0..MaxRating
    BY DEF RatingInv, Rated
  <2> QED BY <1>0, <1>3, <2>1, <2>2, AverageIsBounded
<1>8. DOMAIN rooms' = DOMAIN rooms
  BY <1>0, <1>6 DEF Walked
<1>9. ASSUME NEW r \in DOMAIN rooms
      PROVE  /\ rooms'[r].rating \in 0..MaxRating /\ rooms'[r].prev_rating \in 0..MaxRating
             /\ rooms'[r].last_rating_update \in Nat
  <2> DEFINE finished == [rating |-> rs[r].rating, prev_rating |-> rs[r].rating,
                          last_rating_update |-> rs[r].last_rating_update,
                          last_updated_table |-> Special]
             resumed == [rating |-> rs[r].rating, prev_rating |-> rs[r].prev_rating,
                         last_rating_update |-> rs[r].last_rating_update,
                         last_updated_table |-> LastVisited(rs, r)]
             M == 0..MaxRating
  <2>1. rooms'[r] = rs[r] \/ rooms'[r] = finished \/ rooms'[r] = resumed
    BY <1>0, <1>6 DEF Walked
  <2> HIDE DEF M
  <2>2. rs[r].rating \in M /\ rs[r].prev_rating \in M /\ rs[r].last_rating_update \in Nat
    BY <1>5 DEF M
  <2>3. finished.rating \in M /\ finished.prev_rating \in M /\ finished.last_rating_update \in Nat
    BY <2>2
  <2>4. resumed.rating \in M /\ resumed.prev_rating \in M /\ resumed.last_rating_update \in Nat
    BY <2>2
  <2> HIDE DEF finished, resumed
  <2>5. /\ rooms'[r].rating \in M /\ rooms'[r].prev_rating \in M
        /\ rooms'[r].last_rating_update \in Nat
    BY <2>1, <2>2, <2>3, <2>4
  <2> QED BY <2>5 DEF M
<1>10. Measures(measurements')
  <2>1. DOMAIN measurements' = Slots
    BY <1>0
  <2>2. ASSUME NEW s \in Slots PROVE IsMeasurement(measurements'[s])
    <3> DEFINE m == ms[s]
               k == measurements'[s]
               i == MaintenanceMinutes
    <3>1. /\ DOMAIN m = MeasurementFields /\ m.age \in 0..MaxAge /\ m.weight \in {0, 1}
          /\ m.measured => m.age < FullAge
      BY <1>1 DEF IsMeasurement
    <3>2. k = [m EXCEPT !.age = IF m.measured THEN @ + i ELSE @]
      BY <1>0
    <3> HIDE DEF m, k, i
    <3>3. /\ DOMAIN k = DOMAIN m /\ k.weight = m.weight
          /\ k.age = IF m.measured THEN m.age + i ELSE m.age
      BY <3>1, <3>2 DEF MeasurementFields
    <3>4. m.age < FullAge => m.age + i \in 0..MaxAge
      <4> DEFINE x == m.age
      <4>1. x \in 0..MaxAge /\ i \in Nat /\ FullAge \in Nat /\ MaxAge = FullAge + i
        BY <3>1, Ages DEF i
      <4> HIDE DEF x
      <4>2. x < FullAge => x + i \in 0..MaxAge
        BY <4>1, SMTT(30)
      <4> QED BY <4>2 DEF x
    <3>5. k.age \in 0..MaxAge
      BY <3>1, <3>3, <3>4
    <3>6. IsMeasurement(k)
      BY <3>1, <3>3, <3>5 DEF IsMeasurement
    <3> QED BY <3>6 DEF k
  <2> QED BY <2>1, <2>2 DEF Measures
<1>11. Rated(average', rooms')
  BY <1>7, <1>8, <1>9 DEF Rated
<1> QED BY <1>10, <1>11 DEF RatingInv

\* A new room has the average rating.
LEMMA NewRoomIsRated ==
    ASSUME Shape, RatingInv, room_create
    PROVE  RatingInv'
<1> DEFINE n == NextId(rooms)
           M == 0..MaxRating
           c == Created(rooms, NewRoom)
<1>1. rooms' = c /\ average' = average /\ measurements' = measurements
  BY DEF room_create
<1>2. Numbered(rooms)
  BY DEF Shape
<1>3. /\ DOMAIN c = DOMAIN rooms \cup {n} /\ c[n] = NewRoom
      /\ \A i \in DOMAIN rooms : c[i] = rooms[i]
  BY <1>2, CreatedObject
<1>4. /\ average \in M
      /\ \A r \in DOMAIN rooms : /\ rooms[r].rating \in M /\ rooms[r].prev_rating \in M
                                 /\ rooms[r].last_rating_update \in Nat
  BY DEF RatingInv, Rated
<1>5. 0 \in M
  BY MaxRatingIsNumber, SMTT(30)
<1> HIDE DEF M, n, c
<1>6. NewRoom.rating \in M /\ NewRoom.prev_rating \in M /\ NewRoom.last_rating_update \in Nat
  BY <1>4, <1>5 DEF NewRoom
<1>7. \A r \in DOMAIN c : /\ c[r].rating \in M /\ c[r].prev_rating \in M
                           /\ c[r].last_rating_update \in Nat
  BY <1>3, <1>4, <1>6
<1>8. Rated(average', rooms')
  BY <1>1, <1>4, <1>7 DEF Rated, M
<1>9. Measures(measurements')
  BY <1>1 DEF RatingInv
<1> QED BY <1>8, <1>9 DEF RatingInv

\* Steps that touch neither rooms nor the average.
LEMMA MeasuresKeep ==
    ASSUME RatingInv, rooms' = rooms, average' = average, Measures(measurements')
    PROVE  RatingInv'
BY DEF RatingInv

\* One measurement is replaced.
LEMMA ReplacedMeasure ==
    ASSUME RatingInv, NEW s \in Slots, NEW m, IsMeasurement(m)
    PROVE  Measures([measurements EXCEPT ![s] = m])
<1> DEFINE R == [measurements EXCEPT ![s] = m]
<1>1. DOMAIN measurements = Slots /\ \A k \in Slots : IsMeasurement(measurements[k])
  BY DEF RatingInv, Measures
<1>2. DOMAIN R = Slots /\ \A k \in Slots : R[k] = IF k = s THEN m ELSE measurements[k]
  BY <1>1
<1> HIDE DEF R
<1>3. Measures(R)
  BY <1>1, <1>2 DEF Measures
<1> QED BY <1>3 DEF R

\* The end of a reservation.
LEMMA ResolvedMeasure ==
    ASSUME RatingInv, NEW s \in Slots, NEW w \in {0, 1}
    PROVE  Measures(Resolved(s, w))
<1> DEFINE m == measurements[s]
           R == [measurements EXCEPT ![s].pending = FALSE, ![s].waiting = FALSE, ![s].weight = w]
<1>1. DOMAIN measurements = Slots /\ \A k \in Slots : IsMeasurement(measurements[k])
  BY DEF RatingInv, Measures
<1>2. IsMeasurement(Free)
  BY FreeIsMeasurement
<1>3. /\ DOMAIN R = Slots
      /\ \A k \in Slots : k # s => R[k] = measurements[k]
  BY <1>1
<1>4. DOMAIN m = MeasurementFields /\ m.age \in 0..MaxAge
  BY <1>1 DEF IsMeasurement
<1>5. R[s] = [m EXCEPT !.pending = FALSE, !.waiting = FALSE, !.weight = w]
  BY <1>1
<1> HIDE DEF m, R
<1>6. DOMAIN R[s] = DOMAIN m /\ R[s].age = m.age /\ R[s].weight = w
  BY <1>4, <1>5 DEF MeasurementFields
<1>7. IsMeasurement(R[s])
  BY <1>4, <1>6 DEF IsMeasurement
<1>8. Measures(R)
  BY <1>1, <1>3, <1>7 DEF Measures
<1>9. Resolved(s, w) = R \/ Resolved(s, w) = [measurements EXCEPT ![s] = Free]
  BY DEF Resolved, R
<1> QED BY <1>2, <1>8, <1>9, ReplacedMeasure

\* Every step keeps ratings and measurements within their bounds.
LEMMA NextRates ==
    ASSUME Shape, RatingInv, [RoomsNext]_room_vars
    PROVE  RatingInv'
<1>0. Measures(measurements)
  BY DEF RatingInv
<1>1. CASE process_maintain_tasks
  BY <1>1, MaintenanceRates
<1>2. CASE Crash
  BY <1>0, <1>2, MeasuresKeep DEF Crash
<1>3. CASE room_create
  BY <1>3, NewRoomIsRated
<1>4. ASSUME NEW r \in DOMAIN rooms, table_create(r)
      PROVE  RatingInv'
  BY <1>0, <1>4, MeasuresKeep DEF table_create
<1>5. ASSUME NEW t \in DOMAIN tables, tables_alive(t) \/ update_expired_table_alive(t)
      PROVE  RatingInv'
  BY <1>0, <1>5, MeasuresKeep DEF tables_alive, update_expired_table_alive
<1>6. ASSUME NEW t \in DOMAIN tables, NEW s \in Slots, allocate_table(s, t)
      PROVE  RatingInv'
  <2>1. PICK age \in Moments :
            measurements' = [measurements EXCEPT ![s] =
                [pending |-> TRUE, measured |-> TRUE, table |-> t, age |-> age,
                 weight |-> 0, waiting |-> TRUE]]
    BY <1>6 DEF allocate_table
  <2> DEFINE m == [pending |-> TRUE, measured |-> TRUE, table |-> t, age |-> age,
                   weight |-> 0, waiting |-> TRUE]
  <2>2. IsMeasurement(m)
    <3>1. age \in 0..MaintenanceMinutes
      BY RoomsAssumption
    <3>2. age \in 0..MaxAge
      BY <3>1, Ages, SMTT(30)
    <3> QED BY <3>2 DEF IsMeasurement, MeasurementFields
  <2> HIDE DEF m
  <2>3. Measures(measurements')
    BY <2>1, <2>2, ReplacedMeasure DEF m
  <2>4. rooms' = rooms /\ average' = average
    BY <1>6 DEF allocate_table
  <2> QED BY <2>3, <2>4, MeasuresKeep
<1>7. ASSUME NEW s \in Slots, buy_in_reserving_resolve(s)
      PROVE  RatingInv'
  <2>1. rooms' = rooms /\ average' = average /\ measurements' = Resolved(s, 1)
    BY <1>7 DEF buy_in_reserving_resolve
  <2>2. 1 \in {0, 1}
    OBVIOUS
  <2> QED BY <2>1, <2>2, ResolvedMeasure, MeasuresKeep
<1>8. ASSUME NEW s \in Slots, push_pending_buy_expire_operation(s)
      PROVE  RatingInv'
  <2>1. rooms' = rooms /\ average' = average /\ measurements' = Resolved(s, 0)
    BY <1>8 DEF push_pending_buy_expire_operation
  <2>2. 0 \in {0, 1}
    OBVIOUS
  <2> QED BY <2>1, <2>2, ResolvedMeasure, MeasuresKeep
<1>9. ASSUME NEW s \in Slots, cancel_pending_buyin(s)
      PROVE  RatingInv'
  <2>1. rooms' = rooms /\ average' = average /\ measurements' = [measurements EXCEPT ![s] = Free]
    BY <1>9 DEF cancel_pending_buyin
  <2>2. IsMeasurement(Free)
    BY FreeIsMeasurement
  <2> QED BY <2>1, <2>2, ReplacedMeasure, MeasuresKeep
<1>10. CASE UNCHANGED room_vars
  BY <1>0, <1>10, MeasuresKeep DEF room_vars
<1> QED BY <1>1, <1>2, <1>3, <1>4, <1>5, <1>6, <1>7, <1>8, <1>9, <1>10 DEF RoomsNext

-----------------------------------------------------------------------------
(* The rooms that are rated.                                                 *)

\* Some room comes first in the order of the last ratings, and no other before it.
LEMMA FirstRoom ==
    ASSUME Shape, RatingInv, NEW T, T \subseteq DOMAIN rooms, T # {}
    PROVE  \E m \in T : {q \in T : RatedBefore(q, m)} = {m}
<1> DEFINE time(r) == rooms[r].last_rating_update
           Times == {time(r) : r \in T}
<1>0. \A r \in T : r \in Nat /\ time(r) \in Nat
  BY SMTT(30) DEF Shape, Numbered, RatingInv, Rated
<1>1. Times \subseteq Nat /\ Times # {}
  BY <1>0
<1>2. PICK n \in Times : \A x \in Times : n <= x
  <2> HIDE DEF Times
  <2> QED BY <1>1, Smallest
<1> DEFINE U == {r \in T : time(r) = n}
<1>3. U \subseteq Nat /\ U # {}
  BY <1>0, <1>2
<1>4. PICK m \in U : \A x \in U : m <= x
  <2> HIDE DEF U
  <2> QED BY <1>3, Smallest
<1>5. ASSUME NEW q \in T PROVE RatedBefore(q, m) <=> q = m
  <2>1. n <= time(q) /\ (time(q) = n => m <= q)
    BY <1>2, <1>4
  <2>2. time(m) = n /\ m \in Nat /\ q \in Nat /\ n \in Nat /\ time(q) \in Nat
    BY <1>0, <1>4
  <2> QED BY <2>1, <2>2, SMTT(30) DEF RatedBefore
<1>6. m \in T
  BY <1>4
<1> QED BY <1>5, <1>6

\* No room is rated only if the tables of every room are being walked over: the first of
\* the other rooms has a place beside the special room.
LEMMA NothingToRate ==
    ASSUME Shape, RatingInv, DivisionByZero
    PROVE  \A r \in DOMAIN rooms : rooms[r].last_updated_table # Special
<1> SUFFICES ASSUME Ready # {} PROVE FALSE
  BY DEF Ready
<1>1. Ready \subseteq DOMAIN rooms
  BY DEF Ready
<1>2. PICK m \in Ready : {q \in Ready : RatedBefore(q, m)} = {m}
  BY <1>1, FirstRoom
<1>3. Cardinality({m}) = 1
  BY FS_Singleton
<1>4. 1 + 1 <= RoomsLimit
  BY Limits, SMTT(30)
<1>5. m \in UpdatedRooms
  BY <1>2, <1>3, <1>4 DEF UpdatedRooms
<1> QED BY <1>5 DEF DivisionByZero

\* The process ends only in such a state, and then nothing changes.
LEMMA NextRuns ==
    ASSUME Shape, RatingInv, AverageIsDefined, [RoomsNext]_room_vars
    PROVE  AverageIsDefined'
<1>1. CASE Crash
  <2>1. rooms' = rooms /\ DivisionByZero
    BY <1>1 DEF Crash
  <2> QED BY <2>1, NothingToRate DEF AverageIsDefined, Special
<1>2. CASE UNCHANGED room_vars
  BY <1>2 DEF AverageIsDefined, room_vars, Special
<1>3. CASE RoomsNext /\ ~Crash
  <2>1. running /\ running' = running
    BY <1>3 DEF RoomsNext, process_maintain_tasks, room_create, table_create, tables_alive,
       update_expired_table_alive, allocate_table, buy_in_reserving_resolve,
       push_pending_buy_expire_operation, cancel_pending_buyin
  <2> QED BY <2>1 DEF AverageIsDefined
<1> QED BY <1>1, <1>2, <1>3

-----------------------------------------------------------------------------
(* The theorems.                                                             *)

JInv == IInv /\ RatingInv /\ AverageIsDefined

\* There are no rooms at first.
LEMMA InitRooms == RoomsInit => JInv
<1> SUFFICES ASSUME RoomsInit PROVE JInv
  OBVIOUS
<1>1. DOMAIN rooms = {} /\ DOMAIN tables = {}
  BY DEF RoomsInit, None
<1>2. Numbered(rooms) /\ Numbered(tables)
  BY <1>1, FS_EmptySet, SMTT(30) DEF Numbered
<1>3. IInv
  BY <1>1, <1>2 DEF IInv, Shape, WeightInv
<1>4. IsMeasurement(Free)
  BY FreeIsMeasurement
<1>5. DOMAIN measurements = Slots /\ \A s \in Slots : measurements[s] = Free
  BY DEF RoomsInit
<1>6. Measures(measurements)
  BY <1>4, <1>5 DEF Measures
<1>7. average \in 0..MaxRating
  BY MaxRatingIsNumber, SMTT(30) DEF RoomsInit
<1>8. Rated(average, rooms)
  BY <1>1, <1>7 DEF Rated
<1>9. running
  BY DEF RoomsInit
<1> QED BY <1>3, <1>6, <1>8, <1>9 DEF JInv, RatingInv, AverageIsDefined

\* The invariant holds in every state.
LEMMA RoomsInvariant == RoomsSpec => []JInv
<1>1. JInv /\ [RoomsNext]_room_vars => JInv'
  BY NextKeeps, NextRates, NextRuns DEF JInv, IInv
<1> QED BY <1>1, InitRooms, PTL DEF RoomsSpec

\* Whatever the limits of a maintenance, however many rooms and tables there are and
\* however the walks over them interleave with new tables and with owners that come and go,
\* a table has the weight of its room's rating or, until the walk is done, of the rating
\* before.
THEOREM WeightsStayCurrent == RoomsSpec => []WeightsAreCurrent
<1>1. JInv => WeightsAreCurrent
  BY DEF JInv, IInv, WeightInv, NotReached, WeightsAreCurrent
<1> QED BY <1>1, RoomsInvariant, PTL

\* The weight of a silent table is negative.
LEMMA SilentIsNegative ==
    ASSUME NEW rating \in Nat
    PROVE  Weight(rating, FALSE) \in Int /\ Weight(rating, FALSE) < 0
<1> DEFINE l == Lowest
           w == Weight(rating, FALSE)
<1>1. l \in Int /\ l < 0
  BY SMTT(30) DEF Lowest
<1>2. w = IF rating <= 0 THEN l ELSE -rating
  BY DEF Weight
<1> HIDE DEF l, w
<1>3. w \in Int /\ w < 0
  BY <1>1, <1>2, SMTT(30)
<1> QED BY <1>3 DEF w

\* A table whose owner is silent is not allocated, whatever the ratings of its room were
\* and wherever the walk over the room's tables stopped.
THEOREM SilentTablesAreNotOffered == RoomsSpec => []OnlyAliveTablesAreOffered
<1>1. ASSUME JInv PROVE OnlyAliveTablesAreOffered
  <2> SUFFICES ASSUME NEW t \in DOMAIN tables, ~tables[t].alive
               PROVE  ~(tables[t].weight >= MinWeight)
    BY DEF OnlyAliveTablesAreOffered
  <2> DEFINE r == rooms[tables[t].room]
  <2>1. Shape /\ WeightInv /\ Rated(average, rooms)
    BY <1>1 DEF JInv, IInv, RatingInv
  <2>2. tables[t].room \in DOMAIN rooms
    BY <2>1 DEF Shape
  <2>3. r.rating \in 0..MaxRating /\ r.prev_rating \in 0..MaxRating
    BY <2>1, <2>2 DEF Rated
  <2>4. \/ tables[t].weight = Weight(r.rating, tables[t].alive)
        \/ tables[t].weight = Weight(r.prev_rating, tables[t].alive)
    BY <2>1 DEF WeightInv
  <2> HIDE DEF r
  <2>5. \/ tables[t].weight = Weight(r.rating, FALSE)
        \/ tables[t].weight = Weight(r.prev_rating, FALSE)
    BY <2>4 DEF Weight
  <2>6. r.rating \in Nat /\ r.prev_rating \in Nat
    BY <2>3, MaxRatingIsNumber, SMTT(30)
  <2>7. tables[t].weight \in Int /\ tables[t].weight < 0
    BY <2>6, <2>5, SilentIsNegative
  <2>8. MinWeight \in Nat
    BY RoomsAssumption
  <2> QED BY <2>7, <2>8, SMTT(30)
<1> QED BY <1>1, RoomsInvariant, PTL

\* A rating, which the code computes from products that are far larger, is at most 25 times
\* the factor of the number of measurements: for measurements of any age that the alive
\* periods allow, fresh or faded, for any values of the faded time factor, and for any
\* quantity factor that does not fall with the number of measurements.
THEOREM RatingsStayBounded == RoomsSpec => []RatingsAreBounded
<1>1. JInv => RatingsAreBounded
  BY DEF JInv, RatingInv, Rated, RatingsAreBounded, MaxRating
<1> QED BY <1>1, RoomsInvariant, PTL

\* The average of the ratings is computed unless the tables of every room are being walked
\* over: as long as one room is ready, a maintenance rates a room.
THEOREM SomeRoomIsRated == RoomsSpec => []AverageIsDefined
<1>1. JInv => AverageIsDefined
  BY DEF JInv
<1> QED BY <1>1, RoomsInvariant, PTL
==============================================================================

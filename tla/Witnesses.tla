----------------------------- MODULE Witnesses -----------------------------
(***************************************************************************)
(* Who produces the next block and which block becomes irreversible: the   *)
(* slots, the shuffled schedule and the confirmations of the witnesses,    *)
(* along one chain. Every block is produced by the witness plugin in one   *)
(* of the slots that follow the head block; a witness that is not reliable *)
(* may miss its slot. The maintenance block elects the active witnesses    *)
(* and may change the block interval.                                      *)
(*                                                                         *)
(* The shuffle is seeded with the time of the head block; the model lets   *)
(* it choose any permutation. The pay of the witness, recent_slots_filled  *)
(* and recently_missed_count feed no guard of these steps and are left     *)
(* out. No block is skipped by a checkpoint.                               *)
(***************************************************************************)
EXTENDS Integers, Sequences, FiniteSets, FiniteSetsExt

CONSTANTS
    Witness,
    Reliable,               \* the witnesses that never miss a slot
    ActiveSets,             \* the outcomes of an election
    Intervals,              \* the values of block_interval
    GenesisTime,
    MaintenanceInterval,
    MaintenanceSkipSlots,
    MaxUndoHistory,         \* GRAPHENE_MAX_UNDO_HISTORY
    MaxBlocks,              \* bound on the length of the chain
    MaxMissed               \* bound on the slots missed in a row

ASSUME WitnessesAssumption ==
    /\ IsFiniteSet(Witness)
    /\ ActiveSets \subseteq (SUBSET Witness) \ {{}}
    /\ Intervals \subseteq Nat \ {0}
    /\ GenesisTime \in Nat
    /\ MaintenanceInterval \in Nat \ {0}
    /\ MaintenanceSkipSlots \in Nat

VARIABLES
    dgp,            \* dynamic_global_property_object
    gpo,            \* global_property_object: active_witnesses, block_interval
    shuffled,       \* current_shuffled_witnesses
    witness,        \* [witness -> witness_object]
    seated          \* [witness -> the slot since which it is in shuffled]

vars == <<dgp, gpo, shuffled, witness, seated>>

N == Cardinality(gpo.active_witnesses)

IrreversibleThreshold == 70

-----------------------------------------------------------------------------
(* Slots.                                                                    *)

get_slot_time(slot_num) ==
    IF dgp.head_block_number = 0
    THEN dgp.time + slot_num * gpo.block_interval
    ELSE LET skipped == IF dgp.maintenance_flag THEN MaintenanceSkipSlots ELSE 0
         IN  (dgp.time \div gpo.block_interval + slot_num + skipped) * gpo.block_interval

get_slot_at_time(when) ==
    IF when < get_slot_time(1)
    THEN 0
    ELSE (when - get_slot_time(1)) \div gpo.block_interval + 1

get_scheduled_witness(slot_num) ==
    shuffled[((dgp.current_aslot + slot_num) % Len(shuffled)) + 1]

-----------------------------------------------------------------------------
(* The parts of _apply_block.                                                *)

update_witness_missed_blocks(missed) ==
    [w \in Witness |->
        IF missed < Len(shuffled)
        THEN [witness[w] EXCEPT !.total_missed =
                 @ + Cardinality({i \in 1 .. missed : get_scheduled_witness(i) = w})]
        ELSE witness[w]]

update_signing_witness(wits, signer, aslot, block_num) ==
    [wits EXCEPT ![signer].last_aslot = aslot,
                 ![signer].last_confirmed_block_num = block_num]

RoundedUp == ((100 - IrreversibleThreshold) * N + 99) \div 100

DividedFirst == ((100 - IrreversibleThreshold) \div 100) * N

offset == ((100 - IrreversibleThreshold) * N) \div 100

\* The element that nth_element puts at index offset.
nth_confirmed(wits) ==
    LET confirmed(w) == wits[w].last_confirmed_block_num
        below(n) == {w \in gpo.active_witnesses : confirmed(w) < n}
        upto(n) == {w \in gpo.active_witnesses : confirmed(w) <= n}
    IN  CHOOSE n \in {confirmed(w) : w \in gpo.active_witnesses} :
            Cardinality(below(n)) <= offset /\ offset < Cardinality(upto(n))

update_last_irreversible_block(wits) ==
    Max({dgp.last_irreversible_block_num, nth_confirmed(wits)})

next_maintenance(timestamp, block_num) ==
    IF block_num = 1
    THEN (timestamp \div MaintenanceInterval + 1) * MaintenanceInterval
    ELSE dgp.next_maintenance_time + MaintenanceInterval *
             ((timestamp - dgp.next_maintenance_time) \div MaintenanceInterval + 1)

Elections(maint) ==
    IF maint
    THEN [active_witnesses : ActiveSets, block_interval : Intervals]
    ELSE {gpo}

\* The orders that a shuffle may choose.
Shuffles(active) == Injection(1 .. Cardinality(active), active)

ShuffledEveryBlock(block_num, active) == Shuffles(active)

update_witness_schedule(block_num, active) ==
    IF block_num % Cardinality(active) = 0
    THEN Shuffles(active)
    ELSE {shuffled}

-----------------------------------------------------------------------------
Init ==
    \E active \in ActiveSets, interval \in Intervals :
        /\ gpo = [active_witnesses |-> active, block_interval |-> interval]
        /\ shuffled \in Shuffles(active)
        /\ dgp = [head_block_number |-> 0,
                  time |-> GenesisTime,
                  current_aslot |-> 0,
                  last_irreversible_block_num |-> 0,
                  next_maintenance_time |-> GenesisTime,
                  maintenance_flag |-> FALSE]
        /\ witness = [w \in Witness |-> [last_aslot |-> 0,
                                         last_confirmed_block_num |-> 0,
                                         total_missed |-> 0]]
        /\ seated = [w \in Witness |-> 0]

\* The plugin of a witness produces in its slot unless the witness misses it.
maybe_produce_block(slot) ==
    \A i \in 1 .. slot - 1 : get_scheduled_witness(i) \notin Reliable

apply_block(slot) ==
    LET timestamp == get_slot_time(slot)
        block_num == dgp.head_block_number + 1
        missed == get_slot_at_time(timestamp) - 1
        aslot == dgp.current_aslot + missed + 1
        wits == update_signing_witness(update_witness_missed_blocks(missed),
                                       get_scheduled_witness(slot), aslot, block_num)
        maint == dgp.next_maintenance_time <= timestamp
    IN  /\ timestamp > dgp.time
        /\ missed >= 0
        /\ block_num - dgp.last_irreversible_block_num < MaxUndoHistory
        /\ witness' = wits
        /\ gpo' \in Elections(maint)
        /\ shuffled' \in update_witness_schedule(block_num, gpo'.active_witnesses)
        /\ seated' = [w \in Witness |->
               IF w \in Range(shuffled') /\ w \notin Range(shuffled) THEN aslot ELSE seated[w]]
        /\ dgp' = [head_block_number |-> block_num,
                   time |-> timestamp,
                   current_aslot |-> aslot,
                   last_irreversible_block_num |-> update_last_irreversible_block(wits),
                   next_maintenance_time |->
                       IF maint THEN next_maintenance(timestamp, block_num)
                       ELSE dgp.next_maintenance_time,
                   maintenance_flag |-> maint]

Next ==
    /\ dgp.head_block_number < MaxBlocks
    /\ \E slot \in 1 .. MaxMissed + 1 : maybe_produce_block(slot) /\ apply_block(slot)

Spec == Init /\ [][Next]_vars

-----------------------------------------------------------------------------
\* Every number stays in its range and the schedule is a permutation of a set of
\* witnesses.
TypeOK ==
    /\ dgp.head_block_number \in 0 .. MaxBlocks
    /\ dgp.last_irreversible_block_num \in 0 .. dgp.head_block_number
    /\ gpo.active_witnesses \in ActiveSets
    /\ gpo.block_interval \in Intervals
    /\ Range(shuffled) \in ActiveSets /\ Len(shuffled) = Cardinality(Range(shuffled))
    /\ dgp.next_maintenance_time > dgp.time \/ dgp.head_block_number = 0

\* The assertion of maybe_produce_block: a time that get_slot_at_time puts into a
\* slot is later than the head block, and the start of a slot is in that slot,
\* also right after the maintenance that changed the block interval.
SlotsFollowTheHead ==
    \A slot \in 1 .. MaxMissed + 1 :
        /\ get_slot_time(slot) > dgp.time
        /\ get_slot_at_time(get_slot_time(slot)) = slot
        /\ get_slot_at_time(get_slot_time(slot) - 1) = slot - 1

\* A witness that misses no slot never waits for two rounds of slots, although the
\* schedule is shuffled after a number of blocks and read by the number of slots.
EveryWitnessHasATurn ==
    \A w \in Range(shuffled) \cap Reliable :
        dgp.current_aslot - Max({witness[w].last_aslot, seated[w]}) < 2 * Len(shuffled)

\* A missed slot is charged to one witness: the blocks and the charges add up to
\* the slots.
SlotsAreAccounted ==
    dgp.current_aslot =
        dgp.head_block_number + MapThenSumSet(LAMBDA w : witness[w].total_missed, Witness)

\* Enough of the witnesses active in the step have built on the block that the step makes
\* irreversible.
Confirmed ==
    LET lib == dgp'.last_irreversible_block_num
        confirming == {w \in gpo.active_witnesses : witness'[w].last_confirmed_block_num >= lib}
    IN  lib # dgp.last_irreversible_block_num =>
            /\ lib > dgp.last_irreversible_block_num
            /\ 10 * Cardinality(confirming) >= 7 * N

\* A block that becomes irreversible has been built upon by at least seven of
\* ten of the witnesses active at that time.
IrreversibleIsConfirmed == [][Confirmed]_vars

\* While seven of ten active witnesses miss no slot, and none has been elected
\* within the last two rounds of slots, the last irreversible block is less than
\* two rounds behind the head block: the undo history that
\* update_global_dynamic_data requires stays bounded.
IrreversibleKeepsUp ==
    (\A w \in gpo.active_witnesses :
        w \in Range(shuffled) /\ dgp.current_aslot >= seated[w] + 2 * N)
    => dgp.head_block_number - dgp.last_irreversible_block_num < 2 * N
=============================================================================

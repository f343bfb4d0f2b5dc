-------------------------------- MODULE Rooms --------------------------------
(***************************************************************************)
(* The rating of rooms and the weight of their tables                      *)
(* (playchain/maintain_tasks/room_rating.cpp). A reservation that is       *)
(* allocated to a table creates a measurement of the table's room; the     *)
(* measurement counts for the room when the room takes the reservation and *)
(* against it when the reservation expires. Each maintenance rates some of *)
(* the rooms and writes a changed rating to the tables of the room as      *)
(* their weight, a limited number of tables at a time. Only a table of     *)
(* enough weight is allocated.                                             *)
(*                                                                         *)
(* Ids count from 1; the special room and the special table have id 0.     *)
(* Time is counted in minutes, and a measurement knows the age that it     *)
(* will have at the next maintenance. All of this is the code after the    *)
(* hard fork PLAYCHAIN_5. What the code computes in floating point, with   *)
(* std::exp and std::log, is given by the functions FadedTime and          *)
(* QuantityFactor; integers are unbounded. last_rating_update is 0 in a    *)
(* room that has not been rated; of the other times only the order is      *)
(* kept.                                                                   *)
(***************************************************************************)
EXTENDS Integers, FiniteSets, FiniteSetsExt

CONSTANTS
    Slots,          \* reservations that can be known at a time
    MaxRooms,       \* bound on the number of rooms
    MaxTables,      \* bound on the number of tables
    RoomsLimit,     \* rooms_rating_recalculations_per_maintenance
    TablesLimit,    \* tables_weight_recalculations_per_maintenance
    AlivePeriods,   \* room_rating_measurements_alive_periods
    MinWeight,      \* min_allowed_table_weight_to_be_allocated
    MaintenanceMinutes,     \* maintenance_interval
    Moments,        \* the minutes that a reservation may be made before a maintenance
    ROOM_RATING_PRECISION,
    FadedTime,      \* [minutes -> factor]: time_factor after TIME_FACTOR_FADE_START
    QuantityFactor  \* [number of measurements -> factor]

TIME_FACTOR_FADE_START == 30

\* A measurement is removed at the first maintenance at which it has its full age.
MaxAge == (AlivePeriods + 1) * MaintenanceMinutes

ASSUME RoomsAssumption ==
    /\ {MaxRooms, MaxTables, AlivePeriods, MinWeight} \subseteq Nat
    /\ IsFiniteSet(Slots)
    /\ {MaintenanceMinutes, ROOM_RATING_PRECISION} \subseteq Nat \ {0}
    /\ Moments \subseteq 0..MaintenanceMinutes
    /\ FadedTime \in [(TIME_FACTOR_FADE_START + 1)..MaxAge -> Nat]
    /\ QuantityFactor \in [0..Cardinality(Slots) -> Nat]
    /\ \A m, n \in 0..Cardinality(Slots) : m <= n => QuantityFactor[m] <= QuantityFactor[n]
    /\ RoomsLimit \in Nat \ {0, 1}     \* the special room takes one place
    /\ TablesLimit \in Nat \ {0, 1}    \* a walk begins where the last one ended

VARIABLES
    rooms,          \* the rooms, by id
    tables,         \* the tables, by id
    measurements,   \* [Slots -> measurement of a reservation]
    average,        \* average_room_rating
    updated,        \* the rooms that the last maintenance has rated
    running,        \* FALSE when the process has ended
    turn            \* changes with every maintenance

room_vars == <<rooms, tables, measurements, average, updated, running, turn>>

Special == 0

None == [i \in {} |-> 0]

\* Ids are given in order.
NextId(objects) == Cardinality(DOMAIN objects) + 1

Created(objects, o) ==
    [i \in DOMAIN objects \cup {NextId(objects)} |-> IF i = NextId(objects) THEN o ELSE objects[i]]

\* numeric_limits<int32_t>::min()
Lowest == -2147483647 - 1

-----------------------------------------------------------------------------
(* Tables and their weight.                                                  *)

NegatedWhenSilent(rating, alive) == IF alive THEN rating ELSE -rating

\* The negation of the lowest integer overflows, which in two's complement gives the
\* lowest integer again.
Weight(rating, alive) ==
    IF alive THEN rating ELSE IF rating <= 0 THEN Lowest ELSE -rating

\* Table t with the weight of its room's rating in rs.
set_weight(rs, t, alive) ==
    [room |-> tables[t].room, alive |-> alive, weight |-> Weight(rs[tables[t].room].rating, alive)]

alive_for_table(t) == [tables EXCEPT ![t] = set_weight(rooms, t, TRUE)]

NewRoom == [rating |-> average, prev_rating |-> 0, last_rating_update |-> 0,
            last_updated_table |-> Special]

room_create ==
    /\ running
    /\ NextId(rooms) <= MaxRooms
    /\ rooms' = Created(rooms, NewRoom)
    /\ UNCHANGED <<tables, measurements, average, updated, running, turn>>

table_create(r) ==
    /\ running
    /\ NextId(tables) <= MaxTables
    /\ tables' = Created(tables, [room |-> r, alive |-> FALSE,
                                  weight |-> Weight(rooms[r].rating, FALSE)])
    /\ UNCHANGED <<rooms, measurements, average, updated, running, turn>>

tables_alive(t) ==
    /\ running
    /\ tables' = alive_for_table(t)
    /\ UNCHANGED <<rooms, measurements, average, updated, running, turn>>

\* The owner of the table has not been heard of for too long.
update_expired_table_alive(t) ==
    /\ running
    /\ tables[t].alive
    /\ tables' = [tables EXCEPT ![t] = set_weight(rooms, t, FALSE)]
    /\ UNCHANGED <<rooms, measurements, average, updated, running, turn>>

-----------------------------------------------------------------------------
(* Reservations and their measurements. A measurement can go before its      *)
(* reservation, and usually stays after it.                                  *)

Free == [pending |-> FALSE, measured |-> FALSE, table |-> Special, age |-> 0,
         weight |-> 0, waiting |-> FALSE]

allocate_table(s, t) ==
    /\ running
    /\ measurements[s] = Free
    /\ tables[t].weight >= MinWeight
    /\ \E age \in Moments :
        measurements' = [measurements EXCEPT ![s] =
            [pending |-> TRUE, measured |-> TRUE, table |-> t, age |-> age,
             weight |-> 0, waiting |-> TRUE]]
    /\ UNCHANGED <<rooms, tables, average, updated, running, turn>>

\* The reservation of slot s ends, and its measurement, if there still is one, with
\* the given weight.
Resolved(s, weight) ==
    IF measurements[s].measured
      THEN [measurements EXCEPT ![s].pending = FALSE, ![s].waiting = FALSE, ![s].weight = weight]
      ELSE [measurements EXCEPT ![s] = Free]

buy_in_reserving_resolve(s) ==
    /\ running
    /\ measurements[s].pending
    /\ measurements' = Resolved(s, 1)
    /\ tables' = alive_for_table(measurements[s].table)
    /\ UNCHANGED <<rooms, average, updated, running, turn>>

\* The reservation expires or is replaced by a later one.
push_pending_buy_expire_operation(s) ==
    /\ running
    /\ measurements[s].pending
    /\ measurements' = Resolved(s, 0)
    /\ UNCHANGED <<rooms, tables, average, updated, running, turn>>

cancel_pending_buyin(s) ==
    /\ running
    /\ measurements[s].pending
    /\ measurements' = [measurements EXCEPT ![s] = Free]
    /\ UNCHANGED <<rooms, tables, average, updated, running, turn>>

-----------------------------------------------------------------------------
(* Maintenance.                                                              *)

remove_expired_room_rating_measurements ==
    [s \in Slots |->
        LET m == measurements[s]
        IN  IF ~m.measured \/ m.age < AlivePeriods * MaintenanceMinutes THEN m
            ELSE IF m.pending THEN [Free EXCEPT !.pending = TRUE, !.table = m.table] ELSE Free]

\* One factor per minute, and a fraction of one after TIME_FACTOR_FADE_START.
time_factor(x) ==
    IF x <= TIME_FACTOR_FADE_START THEN ROOM_RATING_PRECISION * x ELSE FadedTime[x]

quantity_factor(n) == QuantityFactor[n]

stat_correction == 25 * ROOM_RATING_PRECISION

\* The measurements that count for room r.
Counted(ms, r) ==
    {s \in Slots : ms[s].measured /\ ~ms[s].waiting /\ tables[ms[s].table].room = r}

Sum(f, S) == MapThenSumSet(LAMBDA x : f[x], S)

recalculate_room_rating_factors(ms, r) ==
    LET counted == Counted(ms, r)
    IN  [weights |-> Sum([s \in Slots |-> ms[s].weight * time_factor(ms[s].age)], counted),
         times |-> Sum([s \in Slots |-> time_factor(ms[s].age)], counted),
         quantity |-> Cardinality(counted)]

recalculate_room_rating(factors, sumOfWeights, sumOfTimes) ==
    LET c == Max({sumOfTimes, 1})
    IN  ((factors.weights * c + sumOfWeights * stat_correction)
            * 25 * quantity_factor(factors.quantity))
        \div (c * (factors.times + stat_correction))

\* The order of the index by_last_rating_update.  The special room is before all others.
RatedBefore(q, r) ==
    \/ rooms[q].last_rating_update < rooms[r].last_rating_update
    \/ rooms[q].last_rating_update = rooms[r].last_rating_update /\ q <= r

\* The rooms whose tables are all done.
Ready == {r \in DOMAIN rooms : rooms[r].last_updated_table = Special}

\* The rooms whose turn it is. A room whose tables are not all done is passed over and
\* does not count; the special room is passed over and counts.
UpdatedRooms ==
    {r \in Ready : 1 + Cardinality({q \in Ready : RatedBefore(q, r)}) <= RoomsLimit}

NewRating(ms, rated, r) ==
    LET factors == [q \in rated |-> recalculate_room_rating_factors(ms, q)]
    IN  recalculate_room_rating(factors[r], Sum([q \in rated |-> factors[q].weights], rated),
                                            Sum([q \in rated |-> factors[q].times], rated))

KeepsTheOrder(rated) == [r \in DOMAIN rooms |-> rooms[r].last_rating_update]

\* The times of the last rating, once more numbered from 1: the rooms that have just been
\* rated have the latest.
RatedLast(rated) ==
    LET times == {rooms[r].last_rating_update : r \in DOMAIN rooms \ rated} \ {0}
    IN  [r \in DOMAIN rooms |->
            IF r \in rated THEN Cardinality(times) + 1
            ELSE Cardinality({x \in times : x <= rooms[r].last_rating_update})]

update_room_rating(ms, rated) ==
    [r \in DOMAIN rooms |->
        [rating |-> IF r \in rated THEN NewRating(ms, rated, r) ELSE rooms[r].rating,
         prev_rating |-> IF r \in rated THEN rooms[r].rating ELSE rooms[r].prev_rating,
         last_rating_update |-> RatedLast(rated)[r],
         last_updated_table |-> rooms[r].last_updated_table]]

AverageRating(rs, rated) ==
    IF rated = {} THEN average
    ELSE Sum([r \in rated |-> rs[r].rating], rated) \div Cardinality(rated)

\* The order of the index by_room.
Before(t, u) ==
    \/ tables[t].room < tables[u].room
    \/ tables[t].room = tables[u].room /\ t <= u

\* The tables from the last updated table of room r on: the iterator goes on into the
\* tables of the rooms after r.
FromLastUpdated(rs, r) ==
    {t \in DOMAIN tables : \/ tables[t].room > r
                           \/ tables[t].room = r /\ t >= rs[r].last_updated_table}

\* The first of them, as many as the limit allows.
Visited(rs, r) ==
    {t \in FromLastUpdated(rs, r) :
        Cardinality({u \in FromLastUpdated(rs, r) : Before(u, t)}) <= TablesLimit}

LastVisited(rs, r) == CHOOSE t \in Visited(rs, r) : \A u \in Visited(rs, r) : Before(u, t)

Changed(rs) == {r \in DOMAIN rs : rs[r].rating # rs[r].prev_rating}

WalkedAtOnce(rs) ==
    [r \in DOMAIN rs |->
        IF r \notin Changed(rs) THEN rs[r]
        ELSE [rs[r] EXCEPT !.last_updated_table = Special, !.prev_rating = rs[r].rating]]

\* The rooms of a changed rating after their tables have been visited.
Walked(rs) ==
    [r \in DOMAIN rs |->
        IF r \notin Changed(rs) THEN rs[r]
        ELSE IF Cardinality(FromLastUpdated(rs, r)) < TablesLimit
          THEN [rating |-> rs[r].rating, prev_rating |-> rs[r].rating,
                last_rating_update |-> rs[r].last_rating_update, last_updated_table |-> Special]
          ELSE [rating |-> rs[r].rating, prev_rating |-> rs[r].prev_rating,
                last_rating_update |-> rs[r].last_rating_update,
                last_updated_table |-> LastVisited(rs, r)]]

update_table_weight(rs) ==
    [t \in DOMAIN tables |->
        IF \E r \in Changed(rs) : t \in Visited(rs, r) THEN set_weight(rs, t, tables[t].alive)
                                                       ELSE tables[t]]

\* No room is rated although there are rooms: the average is divided by zero.
DivisionByZero == DOMAIN rooms # {} /\ UpdatedRooms = {}

\* With only the special room there is nothing to rate. A division by zero ends the process.
process_maintain_tasks ==
    /\ running
    /\ LET ms == remove_expired_room_rating_measurements
           rated == UpdatedRooms
           rs == update_room_rating(ms, rated)
       IN  /\ ~DivisionByZero
           /\ rooms' = Walked(rs)
           /\ tables' = update_table_weight(rs)
           /\ measurements' = [s \in Slots |->
                  [ms[s] EXCEPT !.age = IF ms[s].measured THEN @ + MaintenanceMinutes ELSE @]]
           /\ average' = AverageRating(rs, rated)
           /\ updated' = rated
    /\ turn' = ~turn
    /\ UNCHANGED running

Crash ==
    /\ running
    /\ DivisionByZero
    /\ running' = FALSE
    /\ turn' = ~turn
    /\ UNCHANGED <<rooms, tables, measurements, average, updated>>

RoomsInit ==
    /\ rooms = None /\ tables = None /\ running = TRUE /\ turn = FALSE
    /\ measurements = [s \in Slots |-> Free]
    /\ average = 0 /\ updated = {}

RoomsNext ==
    \/ process_maintain_tasks
    \/ Crash
    \/ room_create
    \/ \E r \in DOMAIN rooms : table_create(r)
    \/ \E t \in DOMAIN tables :
        \/ tables_alive(t)
        \/ update_expired_table_alive(t)
        \/ \E s \in Slots : allocate_table(s, t)
    \/ \E s \in Slots :
        \/ buy_in_reserving_resolve(s)
        \/ push_pending_buy_expire_operation(s)
        \/ cancel_pending_buyin(s)

\* Blocks are produced, so maintenance goes on.
RoomsSpec == RoomsInit /\ [][RoomsNext]_room_vars /\ WF_turn(running /\ turn' = ~turn)

-----------------------------------------------------------------------------
(* Properties.                                                               *)

RoomsTypeOK ==
    /\ \A r \in DOMAIN rooms : rooms[r].last_updated_table \in DOMAIN tables \cup {Special}
    /\ \A t \in DOMAIN tables : tables[t].room \in DOMAIN rooms
    /\ \A r \in DOMAIN rooms : rooms[r].last_rating_update \in 0..Cardinality(DOMAIN rooms)

\* A table has the weight of its room's rating, or, while the walk over the room's tables
\* is not done, of the rating before, although the walk is spread over several maintenances,
\* tables are created meanwhile, and the owner comes and goes.
WeightsAreCurrent ==
    \A t \in DOMAIN tables :
        LET r == rooms[tables[t].room]
        IN  \/ tables[t].weight = Weight(r.rating, tables[t].alive)
            \/ /\ r.last_updated_table # Special
               /\ tables[t].weight = Weight(r.prev_rating, tables[t].alive)

\* A table whose owner is not heard of is never allocated, whatever the rating is.
OnlyAliveTablesAreOffered ==
    \A t \in DOMAIN tables : tables[t].weight >= MinWeight => tables[t].alive

\* A rating is at most 25 times the factor of the number of measurements, whatever their
\* ages and the time factors of these: the weights of a room do not exceed its times, so
\* the intermediate product is divided back.
RatingsAreBounded ==
    \A r \in DOMAIN rooms : rooms[r].rating \in 0..(25 * quantity_factor(Cardinality(Slots)))

\* The average is undefined only when the tables of every room are being walked over.
AverageIsDefined ==
    running \/ \A r \in DOMAIN rooms : rooms[r].last_updated_table # Special

\* The walk over the tables of room r does not end: it runs into the tables of the rooms
\* after r, and there are too many of them, or one that is older than a table of r.
Overrun(r) ==
    \/ Cardinality({t \in DOMAIN tables : tables[t].room > r}) >= TablesLimit
    \/ \E t, u \in DOMAIN tables : tables[t].room = r /\ tables[u].room > r /\ u < t

\* Every room is rated again and again, unless its walk does not end or the average has
\* been divided by zero: the order in which rooms are rated starves none.
RatingsAreRevised ==
    \A r \in 1..MaxRooms :
        [](r \in DOMAIN rooms => <>(r \in updated)) \/ <>Overrun(r) \/ <>(~running)
==============================================================================

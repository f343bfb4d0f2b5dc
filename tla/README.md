# PlayChain core: a verification development

PlayChain core is a fork of BitShares/Graphene: a delegated proof-of-stake chain with a layer
for poker tables on top. Players buy in at tables, voters agree on the start and on the result
of each game, and the chain moves the money. This directory holds TLA+ models of the parts where
order, failure and rounding make the code hard to test, TLC configurations that check them on
small instances, and TLAPS proofs for all instances. Paths below are relative to `src/`.

## The parts and how they interact

A block or transaction enters through `database::push_block` and `push_transaction`
(`libraries/chain/db_block.cpp`). The **fork database** picks the longest branch. Applying a block
opens a session of the **undo database** (`libraries/db`), evaluates each operation, runs the
PlayChain **block tasks** (scheduled and expired votings, games, reservations, buy-ins) and, once
per interval, the **maintenance tasks** (fees, room ratings, committee). A committed block is
stored in the **block database**, from which a node that starts again replays. When a longer branch
appears, blocks are popped through the undo database and their transactions return to the pending
ones. The **witness schedule** says who may produce the next block, and the blocks that enough
witnesses have built on become irreversible. A node that is behind fetches blocks from its peers
through the **sync** of `libraries/net/node.cpp`.

`PROJECT.json` lists every part. In short:

| Part | Source | Modules | State |
| --- | --- | --- | --- |
| undo database | `libraries/db/undo_database.cpp` | UndoDatabase, SnapshotStore, UndoDatabaseProofs | modelled, proved |
| fork database | `libraries/chain/fork_database.cpp` | Blocks | modelled |
| block application, fork switch | `libraries/chain/db_block.cpp`, `db_update.cpp` | Blocks, Witnesses, Ledger | partly |
| block database, open, close, reindex | `block_database.cpp`, `db_management.cpp` | Blocks | partly |
| witness schedule, irreversibility | `db_witness_schedule.cpp`, `db_update.cpp`, `witness.cpp` | Witnesses, MaintenanceProofs | modelled, irreversibility and turns proved |
| proposals | `proposal_evaluator.cpp`, `proposal_object.cpp`, `db_block.cpp` | Ledger, UndoDatabase, LedgerDatabaseProofs, LedgerProofs | modelled, proved |
| HTLC, withdraw permissions, vesting | `htlc_evaluator.cpp`, `withdraw_permission_evaluator.cpp`, `vesting_balance_object.cpp` | Ledger, LedgerDatabaseProofs, LedgerProofs | partly, proved |
| players and invitations | `playchain/evaluators/player_invitation_evaluators.cpp` | Ledger, LedgerDatabaseProofs, LedgerProofs | partly |
| tables, buy-ins, reservations | `playchain/evaluators`, `block_tasks` | TableObject, Tables, Sums, TableProofs, TablesProofs, TablesMoneyProofs | partly, proved |
| games: votes, settlement, roll-back | `game_evaluators*.cpp` | TableVoting, Consensus, Tables, TableProofs, TablesProofs, TablesMoneyProofs | modelled (hardfork 11 on), proved |
| pending fees | `maintain_tasks/deposit_pending_fees.cpp` | Fees | modelled |
| rooms and their rating | `maintain_tasks/room_rating.cpp` | Rooms, Sums, MaintenanceProofs | partly, proved |
| peer-to-peer network | `libraries/net/node.cpp` | Sync | partly: the fetching of blocks |
| committee, market, assets, wallet, APIs, genesis | | | not modelled |

## Modules

**UndoDatabase** is one index of objects, its `next_id` and `_stack`. Actions are the sessions
(`start_undo_session`, also forced by a proposal), `on_create`, `on_modify`, `on_remove`, `undo`,
`merge`, `commit`, `pop_commit`, `set_max_size` and enabling or disabling. An object is its value;
with `UniqueKey` the value is a unique secondary key. `snapshots` is a history variable no action
reads. **SnapshotStore** is the abstract specification: a store with a stack of full copies.

**TableObject** holds the arithmetic of `table_object`, **TableVoting** the rules about votes, and
**Tables** the state machine: every buy-in, buy-out, reservation, vote, reset and table operation,
and every block task. A block ticks the clocks (times are counted in blocks left) and then walks
through the tasks in the order of `process_block_tasks`; `todo` holds the objects the current task
has collected. No operation comes between the tasks of one block. The allocation takes at most
`AllocatePerBlock` reservations, those that expire first. **Consensus** checks `voting_impl` alone,
over all vote assignments.

**Blocks** has the fork database (index, live parent links, head, size limit), the length of the undo
history, pending and popped transactions, the block database and the flushed head. A push is one step
unless it switches forks; a switch pops the old branch and applies the new one block by block, so a
crash can fall in between. `written` is what the files of the block database hold for certain: its
streams buffer a store until the next seek, so a crash may lose the last one. Which blocks are invalid
is a constant. The peer-to-peer layer may deliver any block in any order and again, except that the
first block into an empty fork database follows the head.

**Fees** records the rake of a game as fees of the players and as `pending_rake` of the room, and
shares it at maintenance. Balances of inviters are chosen freely for each handled player.
`get_total_balance` comes down to the liquid balance: it returns early up to the upper threshold,
and above that threshold the cut is the full one whatever else is added. A room stands for its
tables of one metadata. Account, vesting and history objects are reduced to sums. `twice` is a
history variable: what `deposit_pending_fees.cpp:289` has taken from the pending rake of a room
although it had been paid to inviters before.

**Witnesses** follows one chain: slots and their times, the schedule that is shuffled whenever the
block number is a multiple of the number of active witnesses, missed slots, the confirmations and
the irreversible block, and at a maintenance block an election and perhaps another block interval.
The seeded shuffle may give any permutation, the election any of `ActiveSets`. A block is one step;
`seated` is a history variable.

**Ledger** is the database seen by operations that outlive their transaction: proposals (also of
proposals), hash time locked contracts, withdraw permissions, vesting balances and invitations. An
evaluator is a function from a database to a database, to the virtual operations it reports and to
the proposal it executes, or to failure. A step applies one operation. `calls` is the call stack: the
transaction, or the proposal that has expired, and inside it the proposals that updates execute, each
with the rest of its operations, the database that its undo session restores and the size that
`_applied_ops` had. `push_proposal` pushes a call unless `push_proposal_nesting_guard` refuses it,
`merge` ends one, and `undo` is the failure of an operation: it restores the session and cuts
`_applied_ops`, which is not part of an undo session. Nothing else happens while a call is open. The
end of a block moves the clock and clears transactions, proposals, contracts, permissions and
invitations in the order of `_apply_block`; `stage` is how far it has come. What `validate()` asserts
of an operation is an assumption about the constant `Operations`. One asset; fees are zero; each
account is its own authority; the rules are those after the last hardfork.

**Sync** has the network thread (`node`), its connections (`peer`), the chain thread (`chain`) and
the peers' chains (`remote`). The handlers of `node.cpp` are actions: ids, a block, refusal, the
result of `handle_block`, the fetch and the backlog loops, loss and stall of a connection. A block
is the path to it from the genesis, so forks and links need no further state. `handle_block`
completes in a later step than it starts, which is where other handlers run in between. The other
yields of the network thread (sending a message, asking the chain for ids) are taken as part of the
handler. The chain adds a block that is not above its head unseen; when the branch becomes the
longest and one of its blocks is invalid, the branch is removed from there on. Time is left out: a
peer that is too slow is a lost connection. So are the disconnections at a hard fork and for an
implausible number of ids.

**Rooms** has rooms, tables and the measurements of reservations. Of the times of the last rating it
keeps the order, by which the index is sorted. A maintenance rates some rooms and walks over some
tables, and leaves in `last_updated_table` where the next walk begins. Ages are in minutes, and the
arithmetic of ratings is that of the code, except that integers are unbounded (products of the code
overflow 64 bits from some hundred thousand measurements on). What the code computes in floating
point are constants, any functions of their kind: `FadedTime`, the time factor after
`TIME_FACTOR_FADE_START`, and `QuantityFactor`, which does not fall with the number of measurements.
Negating the lowest integer (`table_object.cpp:78`) is undefined in C++; the model has the usual
result, the same integer.

The `MC` modules hold the small instances; Consensus is run directly. Definitions
that nothing uses (`first_witness_gets_no_rest`, `UndoKeepingTheReport`, ...) are faulty variants of
the definition after them: each property is known to fail under one of them.

## Runs that pass

| Run | What it shows |
| --- | --- |
| `undo_unique` | undo, merge, commit and pop_commit restore exactly and the log implements SnapshotStore, up to the first restore that meets a taken unique key |
| `game` | money is conserved and votes stay consistent with the table, also result votes that were cast before a buy-out |
| `expirations` | games, votings, buy-ins and reservations running out in any combination leave no cash and no buy-out behind; every game and every reservation ends |
| `places` | two players, two tables: reservations, money and places agree |
| `consensus` | a majority content is the one picked; one dissenter among three or more is harmless |
| `forks` | blocks in any order, two stops or crashes: after every push the node is on a longest valid chain, unless a branch that hangs on a removed invalid block is higher; a block that extends the head is applied, unless such a branch is as high; block database and pending transactions are in step; the undo history reaches the irreversible block; a switch ends |
| `fees` | for rich and poor inviters a room's pending rake is exactly what is still owed, less what was paid twice; shares put off beyond the depth limit are disseminated in the end |
| `witnesses` | every reliable witness has its turn within two rounds; a block becomes irreversible only when seven of ten active witnesses have built on it, and the irreversible block trails the head by less than two rounds |
| `ledger` | nothing is paid twice, before it vests, above a limit or in a proposal's review period; nothing outlives its expiration; the report of applied operations explains every balance, also when a proposal fails half way |
| `sync` | requests are neither doubled nor forgotten, blocks reach the chain after their predecessors, a peer counts as synced only when it is, and a sync ends unless the peer's chain is invalid, a block was left behind in the backlog, or a request that a peer refused stays noted |
| `rooms` | tables carry the weight of the current rating or, during the walk, of the one before; a silent table is never offered; a room is rated again unless its walk is overrun for ever by tables of later rooms or the process has ended in a division by zero |

Eight more configurations pass and are kept out of the list because they say less: `MCUndoMore.cfg`
(types, exact logs), `MCTablesMore.cfg` (types, StakesAreFrozen), `MCBlocksMore.cfg` (a longer branch;
RewindUsesTheHistory, and ChainNeverShrinks, which allows for the one block that a crash may lose),
`MCFeesMore.cfg`, `MCWitnessesMore.cfg` (slots follow the head and are all accounted for),
`MCLedgerMore.cfg` (types, and that a proposal stays in the database while it is executed),
`MCSyncMore.cfg` (peers' lists are branches) and `MCRoomsMore.cfg` (ratings are bounded, and
AverageIsDefined).

## Where the code and its documentation disagree

The run `stuck_voting` ends in a violation: a voting that lost all its votes never expires.
`PROJECT.json` quotes the test that expects otherwise. The following configurations are kept
beside the runs; each also ends in a violation:

| Configuration, module, property | What it shows |
| --- | --- |
| `MCUndoUnwind.cfg`, MCUndo, EveryFailureIsUnwound | a unique key that changes hands inside a session cannot be undone |
| `MCConsensusSplit.cfg`, Consensus, OneCheaterOfThree | two against two counts as a consensus |
| `MCTablesOwner.cfg`, MCTables, OwnerTakesPart | a game starts although the owner's vote was dropped |
| `MCBlocksUnwind.cfg`, MCBlocks, OnLongestChain | a failed switch between longer branches stops half way back |
| `MCBlocksCrash.cfg`, MCBlocks, CanOpenAgain | a crash inside a fork switch leaves a block database that no replay gets through |
| `MCBlocksTrimmed.cfg`, MCBlocks, RewindUsesTheHistory | a switch drops reversible blocks from the fork database, so `close` rewinds less than it could |
| `MCBlocksDangling.cfg`, MCBlocks, ExtensionIsNeverHeldUp | a second branch on an invalid block keeps the next valid block from being applied until a valid branch is higher |
| `MCFeesTwice.cfg`, MCFees, NothingIsPaidTwice | `deposit_pending_fees.cpp:289` pays a put-off share to the owner in full after inviters were paid from it |
| `MCSyncBacklog.cfg`, MCSync, ReceivedBlocksWait | a received block stays in the backlog although its predecessors are there, against `node_impl.hxx:211` ("can't yet process because we are still missing blocks that come earlier in the chain"): the loop ends after a block that had been accepted before |

Smaller disagreements met on the way, which the models follow as the code has them:

- `db_update.cpp:147` says "Transactions must have expired by at least two forking windows in order
  to be removed."; the code removes them as soon as they have expired.
- `on_item_not_available_message` (`node.cpp:2348`) leaves the block among the active sync requests,
  so it is requested from no other peer until this one is dropped. The comment at `node.cpp:942`
  ("This is a state we should never get into in the first place") is about a state that ordinary
  runs of the model reach.
- `room_rating.cpp:275` divides by the number of rooms just rated, which is zero when every room is
  waiting for the walk over its tables. AverageIsDefined says that this is the only such case.
- The walk over a room's tables (`room_rating.cpp:303`) runs on into the tables of later rooms and
  gives them the weight that they have; they count against the limit.

All of these are results about the models. None was reproduced by running the C++ program.

In the passing runs branches are too short for the case of `MCBlocksUnwind.cfg`, and a node that cannot
be opened again stays down. The other cases do arise in them, and the properties name each: the
hanging branches in OnLongestChain and ExtensionIsApplied, the term `twice` in RakeIsOwed, blocks left
behind and requests that stay noted in RequestsAreOutstanding and SyncEnds, and Overrun and the end of
the process in RatingsAreRevised. What these properties show is that nothing else goes wrong.

## Bounds

- Undo: 2 values, 3 ids, up to 3 nested sessions and 2 undo states: enough for an object to be
  created, modified and removed in different sessions that are then merged. The proofs have no such
  bound.
- Tables: 2 players, the owner and another witness, 1 or 2 tables, 1 or 2 coins each, lifetimes of 2
  blocks, 1 or 2 allocations per block. Clocks that a run is not about are switched off (`Forever`).
- Consensus: 6 voters, 3 contents, every assignment.
- Blocks: a tree of 13 blocks with five branches; the last block of one is invalid, and so is the
  first one of two others, which then hang on a removed block; two transactions of which one
  excludes the other. `MaxRestarts` bounds stops. `StopAbove` = 1 keeps the node from stopping with
  a block database of a single block, which is never replayed. In `forks` the last irreversible
  block trails the head by at least one.
- Witnesses: 4 of 5 witnesses, one of them unreliable, 11 blocks, 2 elections' outcomes, 2
  intervals: almost three rounds, with a maintenance in the middle of one.
- Ledger: 8 scenarios of 5 to 9 transactions among 4 accounts, 6 seconds in blocks of 1 or 2; all
  subsets and orders of a scenario occur. Two proposals may be nested, and `Chain` has three.
- Sync: 2 peers, 3 forks of at most 3 blocks after the first, one of them invalid from its first
  block on; limits of 1 or 2 for all queues, so that each is reached. The situations are listed in
  `MCSync`; one has a loss, a refusal and a change of the peer's chain. With `UndoSize` 3 every fork
  is within the undo history, so the refusal of a fork that is beyond it does not occur.
- Rooms: 2 rooms, 3 tables, 1 reservation at a time, 2 rooms (the special one included) and 2 tables
  per maintenance, so that each walk is interrupted. Maintenance is hourly, with measurements before
  and after the beginning of the fading. The precision is 101 instead of 1000: the products stay
  within the integers of TLC. More than one measurement, and with it the second branch of
  `quantity_factor`, is covered by the proofs only.
- Fees: a chain of 4 players in eight classes of wealth, `MaxDepth` 1 (10 in production), 2 games in 2
  rooms. Rakes of 7 and 20 with the percentages chosen leave rests in the divisions. `Rakes` lists
  three distributions of rake, since all of them are too many for TLC.

`CHECK_DEADLOCK FALSE` is used where the system may stop: an undo that failed, all votes cast, a
node without further blocks, no further game, the end of a bounded chain or of the transactions of
a scenario, a sync that is done, a maintenance that divides by zero.

## Fairness

`Tables!FairSpec`: blocks keep coming and each block completes its tasks, since they run inside the
application of the block. No operation of a user is fair. `Blocks!FairSpec`: a fork switch goes on,
being a loop inside one call. `Fees!FairSpec`: maintenance keeps coming and handles every player it
has listed. `Sync!Spec`: the fetch and backlog loops, which run as tasks of the network thread, come
to their end; the chain handles the blocks that it is given; peers answer or their connection is
dropped and made again. `RoomsSpec`: maintenance keeps coming. In Tables and Fees fairness is
stated on the lists of work only, which no other step shortens; this spares TLC the evaluation of
whole payments.

## Proofs

**Undo database.** `UndoDatabaseProofs` proves, for all constants that satisfy `ConstantsAssumption`:

- `TypeCorrectness`;
- `UndoIsExact`: undoing the states one after the other gives back what the index held when each
  was pushed;
- `SessionsKeepTheirState`: cutting the stack never takes the state of an open session;
- `ReplayIsClean`: nothing is logged while undo is disabled;
- `Refinement`: the undo log implements SnapshotStore.

Exactness is not inductive: knowing that a restore gives the right result does not say that it
still does after a merge. The invariant `Inv` therefore says of each undo state what it consists of
(`IsDiff`: old values are those of objects that changed, new ids those that did not exist, removed
those that are gone) and adds the bounds relating sessions, stack and forced sessions. `Invariance`
shows it action by action; `MergeTop` is the hardest lemma, the composition of two differences.

**Rooms.** `MaintenanceProofs` proves, for all numbers of rooms, tables and reservations and all limits
that satisfy `RoomsAssumption`, whatever the interval, the ages and the two factors:

- `WeightsStayCurrent`: WeightsAreCurrent. The property alone is not inductive: once a walk is over,
  a table it never visited would keep the old weight for good. The invariant adds that a table with
  the old weight is not before the place where the next walk begins. That a walk which ends has seen
  every table of its room rests on the least and the greatest element of finite sets of tables
  (`FirstTable`, `LastTable`).
- `RatingsStayBounded`: RatingsAreBounded, for every age that a measurement reaches before it is
  removed and on both branches of both factors. A measurement weighs 0 or 1, so the weights of a room
  do not exceed its times, and the same holds of the sums over all rooms that the rating is corrected
  with. The products and quotients of `recalculate_room_rating` then stay in range, since
  `QuantityFactor` does not fall.
- `SilentTablesAreNotOffered`: OnlyAliveTablesAreOffered. A silent table has the negated rating, or
  the lowest integer when the rating is 0. Both are below the minimal weight because neither the
  present rating of the room nor the one before is negative.
- `SomeRoomIsRated`: AverageIsDefined, which `MCRoomsMore.cfg` checks. As long as the tables of one
  room are all done, the first such room in the order of the last ratings has a place among those a
  maintenance rates, and the average does not divide by zero. Two places are needed (`RoomsLimit`),
  because the special room takes one.

**Tables.** Four modules build on each other: `Sums` (sums over finite sets), `TableProofs` (the
invariant of one table, how games start, are settled and are called off, and the money they move),
`TablesProofs` (every operation and block task, the places that reservations hold, and how coins of
all tables add up) and `TablesMoneyProofs` (the coins that each step moves). For all players, tables,
amounts, votes, lifetimes and percentages that satisfy `TablesAssumption` and `MoneyAssumption`:

- `PlacesNeverDrift`, `CashIsRegistered`, `NoBuyOutWithoutGame`, `VotesFit`, `HeldResultsAreValid`:
  the invariants PlacesAreCounted, NoStrandedCash, BuyOutsEndWithTheGame, VotesFitTheTable and
  ResultVotesStayValid;
- `StakesNeverChange`: the action property StakesAreFrozen;
- `PlacesAreReserved`: the invariant ReservationsHoldPlaces;
- `MoneyIsNeverLost`: the invariant MoneyIsConserved.

The assumptions say that there are finitely many players and tables, that amounts, the initial
balances and gaps between blocks are natural numbers, that a buy-in has a lifetime, and that the
votes offered are of their kind and have no negative rake, which `validate_ivariants` refuses
(`game_evaluators_impl.cpp:687`). The properties of a table need each other, so the invariant `IInv`
has them together. A settlement keeps cash and buy-in objects in step only if its players are
players of the game, which is what the validation of the vote said; that this still holds when the
vote is applied needs the stakes to have been frozen, and that needs the votes to be gone when a
game ends. `TInv` says it of one table with the notion of an applicable vote: one of the kind that
fits, and valid for the present stakes. IInv adds that reservations, and the lists the tasks have
collected, are well-formed.

Reservations are kept in three places: the buy-in objects, the proposals of the tables and the
waiting measurements. Steps change them in different orders, also inside the loops of the
allocation and of the expirations. `RInv` says that they agree, that a player's names are distinct,
and that a list that a task still works on names reservations that exist and have no table
(allocation) or tables. It is what a task needs to know about objects it collected before other
objects of the list were handled.

Conservation is a statement about sums. `MapThenSumSet` is a recursive function over the subsets of
a set that takes away one chosen element at a time; `Sums` shows that it exists for finite sets and
that the choice does not matter, both by a smallest counterexample, and derives what the proofs use:
a sum changes by what one entry does, and the sum of two functions is that of their sums. `MInv`
says that balances, reservations, cash, stakes and rake of all tables add up to what was issued, and
that the rake owed to rooms is the fees recorded for players. One player's coins before and after a
settlement are compared first (`SettlePays`, `BuyOutsPaid`), since a result pays cash, pending
buy-outs leave with at most what is there, and an entry below one is erased: none of them conserves
coins unless the vote balances with the stakes, which is again IInv.

**Ledger.** `LedgerDatabaseProofs` (one database) and `LedgerProofs` (the call stack) prove, for all
accounts, balances, scenarios of transactions, sets of operations (a proposal may hold any sequence of
them), limits and times that satisfy `LedgerAssumption`:

- `TypeCorrect` and `NoDangling`: TypeOK and NothingDangles;
- `ConservedSupply`, `Once`, `ReportIsComplete`, `VestedFirst`: the invariants SupplyIsConserved,
  AppliedOnce, ReportExplainsBalances and WithdrawnIsVested;
- `ReviewsAreRespected`, `ClaimsAreLimited`, `ExpiredIsCleared`: the action properties
  ReviewIsRespected, WithdrawalsAreLimited and NothingOutlivesItsExpiration.

The assumption says that there are finitely many accounts, that limits and lifetimes are natural
numbers, and that operations pass `validate()` and name accounts that exist. None of the properties is
inductive, because an operation that fails brings back a database from before: what holds must hold of
every database on the call stack. `IInv` therefore says of the present database and of each saved one
that it is well-formed and conserves the supply (`Sound`), that the transactions applied so far are
noted in it or have expired (`Remembered`), and that the part of `_applied_ops` up to the size saved
with it explains its balances (`Explains`).

It also says why a call can return (`FramesOK`). The proposal of a call must still be in the database
when its operations are done, or `remove(proposal)` would use an object that is gone. This holds since
a proposal refers to older proposals only, which is what `hardfork_visitor_1479` is for: on the stack
each proposal is older than the one that executes it, so an operation at the top can neither delete nor
execute one below. That a proposal executed by an update has no review period, and that the one
executed at its expiration has expired, is in the same place; ReviewIsRespected needs both.

Of single objects, `CoinDaysOK` bounds the coin seconds earned together with those already spent by
the amount times the age of the balance; WithdrawnIsVested alone does not say how much of what was
earned is left. `PermitOK` says that `claimed_this_period` is at least the sum of the claims that the
present period contains or that were made at this moment; the second half is there because the granting
account may let a new period begin now. Sums over contracts, vesting balances, claims and reported
operations use `Sums`. `LedgerDatabaseProofs` proves the steps of one database, operation by operation
(`Evaluated`); `LedgerProofs` then those of calls: `undo`, `merge` and the end of the block.

**Witnesses.** `MaintenanceProofs` proves `IrreversibleHasSupport`, that is IrreversibleIsConfirmed,
for all sets of witnesses and elections that satisfy the assumption of the module. The invariant is
that no witness has confirmed a block beyond the head; the argument is that the element at the offset
`nth_element` is asked for exists and leaves enough witnesses at or above it.

`WitnessesTakeTurns` is EveryWitnessHasATurn, for all elections that have the same number of seats
(`SameSize`). Without that hypothesis it is false: a reliable witness may wait for almost two rounds
of the larger schedule, which is more than two of the smaller one that an election brings. The
invariant `TurnInv` speaks of the slot of the last shuffle. Shuffles are counted in blocks and turns
in slots, and a slot may be missed, so a round takes at least as many slots as it has blocks; nobody
had waited for a whole round at the shuffle, and since then nobody reliable has missed a turn. A
reliable witness thus had a turn in each complete round, and the gap between two turns is less than
two rounds.

`IrreversibleStaysClose` is IrreversibleKeepsUp, for elections with the same number of seats of which
seven of ten go to reliable witnesses (`EnoughReliable`). Since a witness confirmed a block there
have been at least as many slots as blocks (`Lag`), so a witness whose turn was less than two rounds
of slots ago confirmed a block less than two rounds back; and the others are too few to hold the
element that `nth_element` selects. The irreversible block is computed from the witnesses active
before an election, while the property is about those after it. The theorem is therefore about
behaviours in which an election that changes the active witnesses brings in one that has not been in
the schedule for two rounds (`BringsSomebodyNew`). This excludes electing others and then the same
witnesses again before a shuffle: in between the others are active but not scheduled, confirm
nothing, and the irreversible block may stand still. Maintenance intervals are much longer than
rounds; in the instance of `MCWitnesses.cfg` every election has this property.

**Consensus.** The end of `TableProofs` proves `MajorityIsPicked` for any number of voters, and
`OneCheaterLoses` for percentages up to 66.67 % (the code's default is 60 %,
`playchain_config.hpp:72`).

Only model-checked:

- Blocks: what a chain holds is a fold over the path to its head, and a path is found by recursion;
  Fees: shares are folds over sequences of inviters. Both would need induction over data.
- Sync: the loops over peers and over received blocks are recursive operators, and the proofs would be
  inductions over them.
- All liveness, which is outside the reach of the prover.

## Not modelled

- Market and assets, confidential transfers: inherited from BitShares, not used by the tables. They
  are a large part of the source and sequential: a matching of orders is one step.
- Committee and worker elections, budgets: sums over votes at maintenance. Table and voting
  parameters, which the committee may change, are constants.
- Authorities and fees of operations; checkpoints.
- Of the network: the exchange of single blocks and transactions by inventory, handshakes, keep-alive
  messages and the lists of connections they end in, the peer database, firewall checks.
- Block files torn inside a store, and the order in which the operating system writes files.
- The removal of expired measurements as seen from the tables, which read only those that wait.
- Wallet, APIs, command lines, most plugins and genesis: clients, queries, I/O.
- Rules before hardfork 11, which only matter for replaying old blocks.
- A composition of Tables and Fees, in which the witnesses that are paid are those who voted.

The definitions therefore cover well below a third of the implementation's lines: the chain library and
its PlayChain layer, not the code around them.

------------------------------- MODULE Blocks -------------------------------
(***************************************************************************)
(* How a node turns blocks that arrive in any order into its chain: the    *)
(* fork database, database::push_block with its switch to a longer fork    *)
(* and back, the transactions that wait for a block, the block database    *)
(* on disk, and closing, crashing and opening again.                       *)
(*                                                                         *)
(* The blocks that may ever arrive form a tree, given by Prev.  Whether a  *)
(* block can be applied depends only on the blocks before it: the blocks   *)
(* in Bad cannot (they fail before the node's own records are updated),    *)
(* nor can one whose transactions do not apply.                            *)
(*                                                                         *)
(* push_block is one step unless it switches forks.  A switch pops the old *)
(* branch and then applies the blocks in queue one by one, with a write to *)
(* the block database after each, so that a crash may fall in between.     *)
(***************************************************************************)
EXTENDS Integers, FiniteSets, FiniteSetsExt, Sequences, SequencesExt

CONSTANTS
    Block,
    Prev,           \* [Block -> Block \cup {Genesis}]
    Bad,            \* blocks that fail to apply
    Trx,            \* [Block -> Seq(Transaction)]
    Transaction,
    Excludes,       \* [Transaction -> SUBSET Transaction]: which ones it cannot follow
    Irreversible,   \* [Block \cup {Genesis} -> Nat]: last_irreversible_block_num after it
    MaxRestarts,    \* bound on the number of times the node is closed or crashes
    StopAbove       \* bound: it happens only above this block number

Genesis == "genesis"
None == "none"

VARIABLES
    fork,           \* _fork_db: its index, the items whose prev is alive, _head, _max_size
    db,             \* the object database: head block, length and limit of the undo history
    stored,         \* _block_id_to_block: the block stored for each number
    written,        \* what the files of the block database hold for certain: the stream
                    \* may still buffer the last store
    saved,          \* the head block of the object database as last flushed to disk
    pending,        \* _pending_tx
    aside,          \* the pending transactions put aside while a block is pushed
    popped,         \* _popped_tx
    queue,          \* blocks that the fork switch in progress has still to apply
    good,           \* the branch to go back to if one of them fails
    mode,           \* "running", "switching", "switching back" or "down"
    restarts,
    height,         \* history: the head's number when push_block last returned
    accepted        \* history: the transactions accepted since the node was opened

vars == <<fork, db, stored, written, saved, pending, aside, popped, queue, good, mode,
          restarts, height, accepted>>

-----------------------------------------------------------------------------
(* The tree of blocks and what applies where. *)

Path[b \in Block \cup {Genesis}] ==
    IF b = Genesis THEN <<>> ELSE Append(Path[Prev[b]], b)

Num(b) == Len(Path[b])

Height == Max({Num(b) : b \in Block})

\* The number of the last block that two chains share.
Common(a, b) ==
    Max({0} \cup {n \in 1..Min({Num(a), Num(b)}) : Path[a][n] = Path[b][n]})

\* The block with a number on the chain that ends in b.
At(b, n) == IF n = 0 THEN Genesis ELSE Path[b][n]

Transactions(blocks) == FlattenSeq([i \in DOMAIN blocks |-> Trx[blocks[i]]])

Included(b) == ToSet(Transactions(Path[b]))

\* is_known_transaction's duplicate check, and the evaluation of the operations.
CanFollow(tx, before) == tx \notin before /\ Excludes[tx] \cap before = {}

\* Those of txs that apply one after the other on top of a set of transactions.
Applying(before, txs) ==
    FoldLeft(LAMBDA done, tx :
                 IF CanFollow(tx, before \cup ToSet(done)) THEN Append(done, tx) ELSE done,
             <<>>, txs)

\* apply_block does not throw.
Applies(head, b) ==
    /\ Prev[b] = head
    /\ b \notin Bad
    /\ Applying(Included(head), Trx[b]) = Trx[b]

-----------------------------------------------------------------------------
(* fork_database.  A fork_item points to its parent weakly: once the parent *)
(* is erased from the index the pointer is dead, and it stays dead when the *)
(* same block is pushed again.                                              *)

EmptyFork == [index |-> {}, linked |-> {}, head |-> None, max_size |-> 1024]

erase_keeps_links(f, old) == [f EXCEPT !.index = @ \ old]

Erase(f, old) ==
    [f EXCEPT !.index = @ \ old,
              !.linked = {b \in @ : b \notin old /\ Prev[b] \notin old}]

start_block_is_skipped(b) == EmptyFork

start_block(b) == [EmptyFork EXCEPT !.index = {b}, !.head = b]

IsTooOld(f, b) ==
    f.head # None /\ Num(b) <= Max({0, Num(f.head) - f.max_size})

needs_linked_parent(f, b) ==
    f.head # None /\ Prev[b] # Genesis /\ Prev[b] \notin f.linked

IsUnlinkable(f, b) ==
    f.head # None /\ Prev[b] # Genesis /\ Prev[b] \notin f.index

LinkingPush(f, b) ==
    IF b \in f.index THEN f
    ELSE [f EXCEPT !.index = @ \cup {b},
                   !.linked = IF f.head # None /\ Prev[b] # Genesis THEN @ \cup {b} ELSE @]

fork_push_block(f, b) ==
    LET g == LinkingPush(f, b) IN
    IF f.head = None THEN [g EXCEPT !.head = b]
    ELSE IF Num(b) <= Num(f.head) THEN g
    ELSE Erase([g EXCEPT !.head = b], {x \in g.index : Num(x) < Num(b) - f.max_size})

set_max_size(f, size) ==
    LET g == [f EXCEPT !.max_size = size] IN
    IF f.head = None THEN g
    ELSE Erase(g, {x \in f.index : Num(x) < Num(f.head) - size})

invalid_block_is_kept(f, b) == f

fork_remove(f, b) ==
    LET g == Erase(f, {b}) IN
    IF f.head # b THEN g
    ELSE [g EXCEPT !.head = IF b \in f.linked THEN Prev[b] ELSE None]

\* The number of the lowest block of the branches that fetch_branch_from returns.
Lowest(first, second) == Min({Common(first, second) + 1, Num(second)})

\* fetch_branch_from does not throw: both blocks are known and every pointer
\* that it follows is alive.
CanFetchBranch(f, first, second) ==
    /\ {first, second} \subseteq f.index
    /\ \A b \in {first, second} :
         \A n \in Lowest(first, second) + 1 .. Num(b) : Path[b][n] \in f.linked

Branch(b, from) == SubSeq(Path[b], from, Num(b))

-----------------------------------------------------------------------------
(* The object database.  Only the number of undo states is kept, see       *)
(* UndoDatabase for the states themselves.                                  *)

FreshDb(head) == [head |-> head, undo |-> 0, undo_max |-> 256]

\* start_undo_session drops the oldest states beyond the limit.
Trimmed(d) == [d EXCEPT !.undo = Min({d.undo, d.undo_max})]

\* A transaction is tried in a session of its own inside the pending session.
PendingSession(d) == [d EXCEPT !.undo = Min({d.undo, Max({0, d.undo_max - 1})})]


\* update_global_dynamic_data comes before update_last_irreversible_block.
HistorySize(b) == Num(b) - Irreversible[Prev[b]] + 1

apply_block(d, b) ==
    [head |-> b, undo |-> Trimmed(d).undo + 1, undo_max |-> HistorySize(b)]

\* How many blocks pop_block can pop from the head down to a number, when the
\* head of the fork database is another block.
Poppable(f, d, to) ==
    Max({k \in 0 .. Min({d.undo, Num(d.head) - to}) :
            \A n \in Num(d.head) - k + 1 .. Num(d.head) : Path[d.head][n] \in f.index})

pop_blocks(d, k) == [d EXCEPT !.head = At(@, Num(@) - k), !.undo = @ - k]

popped_transactions_are_dropped(d, k) == <<>>

PoppedTransactions(d, k) == Transactions(Branch(d.head, Num(d.head) - k + 1))

-----------------------------------------------------------------------------
(* push_block *)

return_without_validation(d, waiting) ==
    /\ pending' = waiting
    /\ db' = IF waiting = <<>> THEN d ELSE PendingSession(d)
    /\ popped' = <<>>
    /\ aside' = <<>>
    /\ mode' = "running"
    /\ height' = Num(d.head)
    /\ queue' = <<>>
    /\ good' = <<>>

\* ~pending_transactions_restorer: first the transactions of the popped blocks,
\* then the ones that were pending.
Return(d, waiting) ==
    LET known == Included(d.head)
        tried == SelectSeq(waiting, LAMBDA tx : tx \notin known) IN
    /\ pending' = Applying(known, waiting)
    /\ db' = IF tried = <<>> THEN d ELSE PendingSession(d)
    /\ popped' = <<>>
    /\ aside' = <<>>
    /\ mode' = "running"
    /\ height' = Num(d.head)
    /\ queue' = <<>>
    /\ good' = <<>>

\* block_database::store.  Its seekp first writes what the store before has left in the
\* buffers.
Store(b) ==
    /\ stored' = [stored EXCEPT ![Num(b)] = b]
    /\ written' = stored

PushBlock(d, txs, b) ==
    LET f == fork_push_block(fork, b)
        low == Lowest(f.head, d.head)
        k == Poppable(f, d, low - 1) IN
    \/ /\ IsTooOld(fork, b) \/ IsUnlinkable(fork, b)
       /\ Return(d, txs)
       /\ UNCHANGED <<fork, stored, written>>
    \/ /\ ~IsTooOld(fork, b) /\ ~IsUnlinkable(fork, b)
       /\ Prev[f.head] = d.head
       /\ IF Applies(d.head, b)
          THEN /\ fork' = set_max_size(f, HistorySize(b))
               /\ Store(b)
               /\ Return(apply_block(d, b), txs)
          ELSE /\ fork' = fork_remove(f, b)
               /\ Return(Trimmed(d), txs)
               /\ UNCHANGED <<stored, written>>
    \/ /\ ~IsTooOld(fork, b) /\ ~IsUnlinkable(fork, b)
       /\ Prev[f.head] # d.head
       /\ \/ Num(f.head) <= Num(d.head)
          \/ ~CanFetchBranch(f, f.head, d.head)
       /\ fork' = f
       /\ Return(d, txs)
       /\ UNCHANGED <<stored, written>>
    \/ /\ ~IsTooOld(fork, b) /\ ~IsUnlinkable(fork, b)
       /\ Prev[f.head] # d.head
       /\ Num(f.head) > Num(d.head)
       /\ CanFetchBranch(f, f.head, d.head)
       /\ fork' = f
       /\ IF k < Num(d.head) - low + 1
          THEN Return(pop_blocks(d, k), PoppedTransactions(d, k) \o txs)
          ELSE /\ db' = pop_blocks(d, k)
               /\ popped' = PoppedTransactions(d, k)
               /\ aside' = txs
               /\ pending' = <<>>
               /\ queue' = Branch(f.head, low)
               /\ good' = Branch(d.head, low)
               /\ mode' = "switching"
               /\ UNCHANGED height
       /\ UNCHANGED <<stored, written>>

\* A block from the network or from a client.  The node asks for blocks in order,
\* so the first one to reach an empty fork database follows the head block.
push_block(b) ==
    /\ mode = "running"
    /\ fork.head = None => Prev[b] = db.head
    /\ PushBlock(db, pending, b)
    /\ UNCHANGED <<saved, restarts, accepted>>

\* The node's own witness makes a block from its pending transactions, leaving
\* out any that would make the block too big.
generate_block(b) ==
    /\ mode = "running"
    /\ Applies(db.head, b)
    /\ \E fitting \in SUBSET ToSet(pending) :
         Trx[b] = Applying(Included(db.head), SelectSeq(pending, LAMBDA tx : tx \in fitting))
    /\ PushBlock(IF pending = <<>> THEN Trimmed(db) ELSE PendingSession(db), pending, b)
    /\ UNCHANGED <<saved, restarts, accepted>>

push_transaction(tx) ==
    /\ mode = "running"
    /\ pending' = Applying(Included(db.head), Append(pending, tx))
    /\ accepted' = IF pending' = pending THEN accepted ELSE accepted \cup {tx}
    /\ db' = PendingSession(db)
    /\ UNCHANGED <<fork, stored, written, saved, aside, popped, queue, good, mode,
                   restarts, height>>

queued_is_not_stored ==
    /\ db' = apply_block(db, Head(queue))
    /\ fork' = set_max_size(fork, HistorySize(Head(queue)))
    /\ queue' = Tail(queue)
    /\ UNCHANGED <<stored, written, pending, aside, popped, good, mode, height>>

ApplyQueued ==
    /\ db' = apply_block(db, Head(queue))
    /\ fork' = set_max_size(fork, HistorySize(Head(queue)))
    /\ Store(Head(queue))
    /\ queue' = Tail(queue)
    /\ UNCHANGED <<pending, aside, popped, good, mode, height>>

\* The last block of a switch, or of the way back from one.
ApplyLast ==
    /\ fork' = set_max_size(fork, HistorySize(Head(queue)))
    /\ Store(Head(queue))
    /\ Return(apply_block(db, Head(queue)), popped \o aside)

old_branch_is_not_restored ==
    LET to == Num(Head(good)) - 1
        d == pop_blocks(Trimmed(db), Num(db.head) - to)
        f == Erase(fork, {b \in fork.index : Num(b) > to}) IN
    /\ fork' = [f EXCEPT !.head = d.head]
    /\ stored' = [n \in DOMAIN stored |-> IF n > to THEN None ELSE stored[n]]
    /\ written' = stored'
    /\ Return(d, popped \o aside)

\* A block of the new branch fails: it and the ones after it are removed from
\* the fork database, and the ones before it are popped again.
SwitchBack ==
    LET f == [FoldLeft(fork_remove, fork, queue) EXCEPT !.head = Last(good)]
        to == Num(Head(good)) - 1
        d == Trimmed(db)
        k == Poppable(f, d, to)
        txs == PoppedTransactions(d, k) \o popped IN
    /\ fork' = f
    /\ UNCHANGED <<stored, written>>
    /\ IF k < Num(d.head) - to
       THEN Return(pop_blocks(d, k), txs \o aside)
       ELSE /\ db' = pop_blocks(d, k)
            /\ popped' = txs
            /\ queue' = good
            /\ mode' = "switching back"
            /\ UNCHANGED <<pending, aside, good, height>>

switch_without_catch ==
    /\ mode \in {"switching", "switching back"}
    /\ \/ Applies(db.head, Head(queue)) /\ Len(queue) > 1 /\ ApplyQueued
       \/ Applies(db.head, Head(queue)) /\ Len(queue) = 1 /\ ApplyLast
    /\ UNCHANGED <<saved, restarts, accepted>>

switch_step ==
    /\ mode \in {"switching", "switching back"}
    /\ \/ Applies(db.head, Head(queue)) /\ Len(queue) > 1 /\ ApplyQueued
       \/ Applies(db.head, Head(queue)) /\ Len(queue) = 1 /\ ApplyLast
       \/ ~Applies(db.head, Head(queue)) /\ mode = "switching" /\ SwitchBack
    /\ UNCHANGED <<saved, restarts, accepted>>

-----------------------------------------------------------------------------
(* Closing, crashing and opening *)

Highest(blocks) == Max({0} \cup {n \in DOMAIN blocks : blocks[n] # None})

LastStored == Highest(stored)

\* What is left on disk: the object database with head block disk, and the blocks.
Stop(disk, blocks) ==
    /\ restarts < MaxRestarts /\ Highest(blocks) > StopAbove
    /\ stored' = blocks
    /\ written' = blocks
    /\ restarts' = restarts + 1
    /\ saved' = disk
    /\ mode' = "down"
    /\ fork' = EmptyFork
    /\ db' = FreshDb(disk)
    /\ pending' = <<>> /\ aside' = <<>> /\ popped' = <<>>
    /\ queue' = <<>> /\ good' = <<>>
    /\ accepted' = {}
    /\ UNCHANGED height

\* The rewind to the last irreversible block stops at the first block that
\* pop_block cannot pop.
Rewindable(f, d) ==
    Max({k \in 0 .. Min({d.undo, Max({0, Num(d.head) - Irreversible[d.head]})}) :
            \A n \in Num(d.head) - k + 1 .. Num(d.head) :
                Path[d.head][n] \in IF f.head = d.head THEN f.linked ELSE f.index})

close ==
    /\ mode = "running"
    /\ Stop(pop_blocks(db, Rewindable(fork, db)).head, stored)

\* The process dies between two blocks, with or without the last store in a buffer that
\* is lost.  (Dying inside the application of a block leaves the disk as it was before
\* that block.)
crash ==
    /\ mode # "down"
    /\ \E blocks \in {stored, written} : Stop(saved, blocks)

ToReplay == SubSeq(stored, Num(saved) + 1, LastStored)

\* open does not throw: every stored block that it pushes follows the one before.
CanOpen ==
    /\ LastStored >= Num(saved)
    /\ ToReplay # <<>> => Path[stored[LastStored]] = Path[saved] \o ToReplay

Replay(s, b) ==
    [fork |-> set_max_size(fork_push_block(s.fork, b), HistorySize(b)),
     db |-> apply_block(s.db, b)]

\* open and reindex.  Nothing is replayed into the fork database, which stays
\* empty, when the flushed state is already that of the last stored block.
open ==
    LET start == IF ToReplay = <<>> \/ saved = Genesis THEN EmptyFork ELSE start_block(saved)
        s == FoldLeft(Replay, [fork |-> start, db |-> FreshDb(saved)], ToReplay) IN
    /\ mode = "down"
    /\ CanOpen
    /\ fork' = s.fork
    /\ db' = s.db
    /\ mode' = "running"
    /\ height' = Num(s.db.head)
    /\ UNCHANGED <<stored, written, saved, pending, aside, popped, queue, good, restarts, accepted>>

-----------------------------------------------------------------------------

Init ==
    /\ fork = EmptyFork
    /\ db = FreshDb(Genesis)
    /\ stored = [n \in 1..Height |-> None]
    /\ written = stored
    /\ saved = Genesis
    /\ pending = <<>> /\ aside = <<>> /\ popped = <<>>
    /\ queue = <<>> /\ good = <<>>
    /\ mode = "running"
    /\ restarts = 0
    /\ height = 0
    /\ accepted = {}

Next ==
    \/ \E b \in Block : push_block(b) \/ generate_block(b)
    \/ \E tx \in Transaction : push_transaction(tx)
    \/ switch_step
    \/ close
    \/ crash
    \/ open

Spec == Init /\ [][Next]_vars

\* push_block always returns.
FairSpec == Spec /\ WF_vars(switch_step)

-----------------------------------------------------------------------------

TypeOK ==
    /\ fork.index \subseteq Block /\ fork.linked \subseteq fork.index
    /\ fork.head \in Block \cup {None} /\ fork.max_size \in Nat
    /\ db.head \in Block \cup {Genesis} /\ db.undo \in Nat /\ db.undo_max \in Nat
    /\ {stored, written} \subseteq [1..Height -> Block \cup {None}]
    /\ saved \in Block \cup {Genesis}
    /\ \A s \in {pending, aside, popped} : ToSet(s) \subseteq Transaction
    /\ ToSet(queue) \cup ToSet(good) \subseteq Block
    /\ mode \in {"running", "switching", "switching back", "down"}
    /\ restarts \in 0..MaxRestarts
    /\ height \in 0..Height
    /\ accepted \subseteq Transaction

Invalid(b) == \E n \in 1..Num(b) : ~Applies(At(b, n - 1), At(b, n))

\* The blocks whose pointer to an invalid parent died when the parent was removed.
Orphans == {b \in fork.index \ fork.linked : Invalid(Prev[b])}

\* The blocks of the branches that hang on them.  No fork switch gets past an orphan,
\* and nothing removes it but the limit of the fork database.
Hanging == {b \in fork.index : \E n \in 1..Num(b) : At(b, n) \in Orphans}

\* Whenever push_block has returned, by success or by failure, the head of the
\* fork database is the applied head block, and no block that the node holds is
\* higher, unless one that hangs on a removed block is: a switch that fails is
\* unwound in both databases.
OnLongestChain ==
    mode = "running" /\ (\A o \in Hanging : Num(o) <= Num(db.head)) =>
        /\ fork.head \in {db.head, None}
        /\ \A b \in fork.index : Num(b) <= Num(db.head)

\* The block database holds exactly the chain that is applied, whatever switches
\* have overwritten it number by number.
StoredIsTheChain ==
    mode = "running" => SelectSeq(stored, LAMBDA b : b # None) = Path[db.head]

\* A switch that fails does not make the chain shorter, and a restart by no more than
\* the block whose store was lost.
ChainNeverShrinks ==
    [][mode' = "running" => Num(db'.head) >= height - (IF mode = "down" THEN 1 ELSE 0)]_vars

\* The pending transactions apply in their order on top of the head block ("the
\* invariant that _pending_tx_session is the result of applying _pending_tx").
PendingApplies ==
    mode = "running" => Applying(Included(db.head), pending) = pending

\* A transaction that the node accepted is in the chain, or pending, or has become
\* invalid: neither a block nor a fork switch drops one that still applies.
NoTransactionIsLost ==
    mode = "running" =>
        \A tx \in accepted :
            ~CanFollow(tx, Included(db.head) \cup ToSet(pending)) \/ tx \in ToSet(pending)


\* Pushing b makes it the head of the fork database.
TakesTheLead(b) ==
    /\ ~IsTooOld(fork, b) /\ ~IsUnlinkable(fork, b)
    /\ fork_push_block(fork, b).head = b

\* A valid block that follows the head block is applied when it is pushed, whatever
\* branches the fork database holds, as long as those that hang on a removed block are
\* not as high as it: a failed switch holds the chain up for their length at most.
ExtensionIsApplied ==
    mode = "running" =>
        \A b \in Block :
            Applies(db.head, b) /\ (\A o \in Hanging : Num(o) < Num(b)) => TakesTheLead(b)

\* A valid block that follows the head block is applied when it is pushed, also when a
\* branch that hangs on a removed block has the same height.
ExtensionIsNeverHeldUp ==
    mode = "running" => \A b \in Block : Applies(db.head, b) => TakesTheLead(b)

\* close rewinds to the last irreversible block, or as far as the undo history goes
\* (the first block of the chain has no parent to go back to and is never popped).
RewindUsesTheHistory ==
    mode = "running" /\ db.head # Genesis =>
        Rewindable(fork, db) =
            Min({db.undo, Num(db.head) - Max({1, Irreversible[db.head]})})

\* After a stop at any moment the node can be opened again.
CanOpenAgain == mode = "down" => CanOpen

\* A switch ends, with the higher branch or with the old one.
SwitchEnds == mode \in {"switching", "switching back"} ~> mode \in {"running", "down"}
=============================================================================

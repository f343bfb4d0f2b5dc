-------------------------------- MODULE Sync --------------------------------
(***************************************************************************)
(* How a node fetches the blocks it is missing (libraries/net/node.cpp):   *)
(* it sends each peer a synopsis of its chain, receives the ids of the     *)
(* blocks that the peer has after it, requests these blocks from the peers *)
(* that offered them, and hands the received blocks to the chain in the    *)
(* order of the peers' lists.                                              *)
(*                                                                         *)
(* A block is the sequence of choices that leads to it from the genesis:   *)
(* its number is its length, the block before it is its prefix, and <<>>   *)
(* stands for the null id. Two blocks of the same number are on different  *)
(* forks.                                                                  *)
(*                                                                         *)
(* A connection delivers in order, so a peer's answer is computed when it  *)
(* is delivered: `wire` holds the requests that the peer has not answered. *)
(* The network thread waits for the chain only in handle_block; the other  *)
(* questions to the chain (has_item, the synopsis) are answered at once.   *)
(* Clocks are left out: a timeout may happen while an answer is missing,   *)
(* and no list of ids is implausibly long for the time since the genesis.  *)
(* Blocks that arrive outside of a sync are not modelled, nor are hard     *)
(* forks, at which peers of an older version are disconnected.             *)
(***************************************************************************)
EXTENDS Integers, Sequences, SequencesExt, FiniteSets, FiniteSetsExt, Functions

CONSTANTS
    Peers,
    Meetings,       \* the situations: head blocks of the peers that are met, and budget
    Heads,          \* the chains that the peers may be on
    Rejected,       \* the blocks that the chain finds invalid
    Start,          \* the head block when the node is started
    UndoSize,       \* number of blocks that can be undone
    IdsLimit,       \* limit of get_block_ids
    MinPrefetch,    \* GRAPHENE_NET_MIN_BLOCK_IDS_TO_PREFETCH
    MaxPerPeer,     \* _maximum_blocks_per_peer_during_syncing
    MaxAccepted,    \* capacity of _most_recent_blocks_accepted
    MaxHandled,     \* _maximum_number_of_blocks_to_handle_at_one_time
    MaxPrefetched   \* _maximum_number_of_sync_blocks_to_prefetch

VARIABLES
    chain,      \* the chain thread: blocks known and head block
    node,       \* the network thread
    peer,       \* [Peers -> peer_connection]
    remote,     \* [peers that are met -> head block of the peer]
    budget,     \* how many connections may be lost, blocks refused and peers' chains grow
    refused,    \* the blocks that peers said they do not have
    turn        \* changes when an answer or a result is handled

vars == <<chain, node, peer, remote, budget, refused, turn>>

Null == <<>>

Block == UNION {{SubSeq(h, 1, k) : k \in 1..Len(h)} : h \in Heads \cup {Start}}

\* The blocks from number i to number j of the chain that ends in block h.
Branch(h, i, j) == [k \in 1..(j - i + 1) |-> SubSeq(h, 1, i + k - 1)]

\* No synopsis contains the null id.
NotRequested == <<Null>>

\* A request for ids and a request for one block.
ItemIds(synopsis) == [block |-> Null, synopsis |-> synopsis]

Item(b) == [block |-> b, synopsis |-> Null]

-----------------------------------------------------------------------------
(* What the node asks the chain.                                             *)

KnownByNumber(b) == Len(b) <= Len(chain.head)

has_item(b) == b \in chain.known

is_included_block(h, b) == IsPrefix(b, h)

last_non_undoable_block_num(h) == IF Len(h) > UndoSize THEN Len(h) - UndoSize ELSE 0

\* The block numbers that a synopsis picks from low on: each step goes half of
\* the way to `top`, and the last pick is not above `high`.
RECURSIVE Picks(_, _, _)
Picks(low, high, top) ==
    <<low>> \o LET next == low + (top - low + 2) \div 2
               IN  IF next <= high THEN Picks(next, high, top) ELSE <<>>

\* Whether the fork of block ref leaves the chain of h where it can be undone.
CanSwitchTo(h, ref) ==
    \/ is_included_block(h, ref)
    \/ Len(LongestCommonPrefix({h, ref})) >= last_non_undoable_block_num(h)

get_blockchain_synopsis(h, ref, after) ==
    LET tip == IF ref = Null THEN h ELSE ref
        undoable == last_non_undoable_block_num(h)
        lowest == IF ref # Null /\ is_included_block(h, ref) /\ Len(ref) < undoable
                    THEN Len(ref) ELSE undoable
        picks == Picks(IF lowest = 0 THEN 1 ELSE lowest, Len(tip), Len(tip) + after)
    IN  IF tip = Null THEN <<>> ELSE [i \in DOMAIN picks |-> SubSeq(tip, 1, picks[i])]

\* The answer of a node whose head block is h: the ids from the last block of the
\* synopsis that is on its chain, and how many ids follow them.
get_block_ids(h, synopsis) ==
    LET shared == {i \in DOMAIN synopsis : is_included_block(h, synopsis[i])}
        first == IF synopsis = <<>> THEN 1 ELSE Len(synopsis[Max(shared)])
        last == Min({Len(h), first + IdsLimit - 1})
    IN  IF h = Null \/ (synopsis # <<>> /\ shared = {})
          THEN [ids |-> <<>>, remaining |-> 0]
          ELSE [ids |-> Branch(h, first, last), remaining |-> Len(h) - last]

-----------------------------------------------------------------------------
(* Steps of the network thread: n is its state, as [node, peer].             *)

State == [node |-> node, peer |-> peer]

Active(n) == {p \in Peers : n.peer[p].conn = "active"}

idle(c) == c.requested = {} /\ c.asked = NotRequested

trigger_fetch_sync_items_loop(n) == [n EXCEPT !.node.fetch = TRUE]

\* A task that is already scheduled is not scheduled twice.
trigger_process_backlog_of_sync_blocks(n) == [n EXCEPT !.node.backlog = TRUE]

disconnect_from_peer(n, p) == [n EXCEPT !.peer[p].conn = "closing"]

create_blockchain_synopsis_for_peer(c) ==
    LET list == c.to_get
        known == get_blockchain_synopsis(chain.head, c.last_seen, Len(list))
        first == Len(list[1])
        top == first + Len(list) - 1
        picks == SelectSeq(Picks(IF known = <<>> THEN 1 ELSE Len(known[1]), top, top),
                           LAMBDA i : i >= first)
    IN  IF list = <<>> THEN known
        ELSE known \o [i \in DOMAIN picks |-> list[picks[i] - first + 1]]

fetch_next_batch_of_item_ids_from_peer(n, p) ==
    LET c == n.peer[p]
        synopsis == create_blockchain_synopsis_for_peer(c)
    IN  IF c.last_seen # Null /\ ~CanSwitchTo(chain.head, c.last_seen)
          THEN disconnect_from_peer(n, p)
          ELSE [n EXCEPT !.peer[p].asked = synopsis,
                         !.peer[p].wire = Append(@, ItemIds(synopsis))]

start_synchronizing_with_peer(n, p) ==
    fetch_next_batch_of_item_ids_from_peer(
        [n EXCEPT !.peer[p].to_get = <<>>, !.peer[p].unfetched = 0, !.peer[p].we_need = TRUE,
                  !.peer[p].last_seen = Null, !.peer[p].inhibit = FALSE], p)

ForEach(n, peers, step(_, _)) == FoldSet(LAMBDA p, m : step(m, p), n, peers)

\* The whole list of the peer has been handed to the chain and accepted.
Finished(c) == c.to_get = <<>> /\ c.unfetched = 0 /\ c.processing = {}

\* The chain has accepted block b: no peer's list waits for it.
Processed(n, b, lastSeen) ==
    [n EXCEPT !.peer = [p \in Peers |->
        IF p \in Active(n) /\ b \in @[p].processing
          THEN [@[p] EXCEPT !.processing = @ \ {b}, !.last_seen = IF lastSeen THEN b ELSE @]
          ELSE @[p]]]

\* The peers whose list ends with block b.
NewlyFinished(n, m, b) ==
    {p \in Active(n) : b \in n.peer[p].processing /\ Finished(m.peer[p])}

-----------------------------------------------------------------------------
(* Messages from a peer.                                                     *)

\* The items of an answer that are new, and the list that they continue: items the
\* chain has are dropped, unless another peer's list begins with the first one;
\* a list that the answer does not continue is cut back to where it does.
Merge(n, p, ids) ==
    LET c == n.peer[p]
        others == {q \in Active(n) \ {p} : n.peer[q].to_get # <<>> /\ n.peer[q].to_get[1] = ids[1]}
        unknown == {i \in DOMAIN ids : ~has_item(ids[i])}
        seen == IF others # {} THEN 0 ELSE IF unknown = {} THEN Len(ids) ELSE Min(unknown) - 1
        kept == {i \in DOMAIN c.to_get : c.to_get[i] = ids[1]}
        result(list, drop) ==
            [list |-> list \o SubSeq(ids, drop + 1, Len(ids)),
             last_seen |-> IF drop = 0 THEN c.last_seen ELSE ids[drop]]
    IN  CASE ids = <<>> -> [list |-> c.to_get, last_seen |-> c.last_seen]
          [] ids # <<>> /\ c.to_get = <<>> -> result(<<>>, seen)
          [] OTHER -> IF kept = {} THEN result(<<>>, 1)
                                   ELSE result(SubSeq(c.to_get, 1, Max(kept) - 1), 0)

on_blockchain_item_ids_inventory_message(n, p, answer) ==
    LET c == n.peer[p]
        ids == answer.ids
        sequential == \A i \in 2..Len(ids) : Len(ids[i]) = Len(ids[1]) + i - 1
        valid == /\ sequential
                 /\ ids = <<>> \/ IF c.asked = <<>> THEN Len(ids[1]) = 1
                                                    ELSE ids[1] \in Range(c.asked)
        inSync == /\ answer.remaining = 0
                  /\ ids = <<>> \/ (Len(ids) = 1 /\ has_item(ids[1]))
                  /\ c.to_get = <<>>
                  /\ c.unfetched = 0
        merged == Merge(n, p, ids)
        m == [n EXCEPT !.peer[p] = [@ EXCEPT !.asked = NotRequested, !.to_get = merged.list,
                                             !.last_seen = merged.last_seen,
                                             !.unfetched = answer.remaining]]
        enough == IF answer.remaining # 0 THEN Len(merged.list) > MinPrefetch
                                          ELSE merged.list # <<>>
    IN  IF c.asked = NotRequested THEN n
        ELSE IF ~valid THEN disconnect_from_peer(n, p)
        ELSE IF inSync THEN [n EXCEPT !.peer[p].asked = NotRequested, !.peer[p].we_need = FALSE]
        ELSE IF enough THEN trigger_fetch_sync_items_loop(m)
        ELSE fetch_next_batch_of_item_ids_from_peer(m, p)

process_block_during_sync(n, b) ==
    trigger_process_backlog_of_sync_blocks([n EXCEPT !.node.new_received = <<b>> \o @])

process_block_message(n, p, b) ==
    LET m == process_block_during_sync(
                 [n EXCEPT !.peer[p].requested = @ \ {b}, !.node.active_requests = @ \ {b}], b)
        c == m.peer[p]
    IN  IF b \notin n.peer[p].requested THEN disconnect_from_peer(n, p)
        ELSE IF ~idle(c) THEN m
        ELSE IF c.unfetched > 0 /\ Len(c.to_get) < MinPrefetch
               THEN fetch_next_batch_of_item_ids_from_peer(m, p)
               ELSE trigger_fetch_sync_items_loop(m)

on_item_not_available_message(n, p, b) ==
    LET m == [n EXCEPT !.peer[p].requested = @ \ {b}]
    IN  IF b \notin n.peer[p].requested THEN n
        ELSE trigger_fetch_sync_items_loop(
                 IF n.peer[p].they_need THEN [m EXCEPT !.peer[p].inhibit = TRUE]
                                        ELSE disconnect_from_peer(m, p))

\* The peer asks for the blocks it is missing; its synopsis ends with its head block.
on_fetch_blockchain_item_ids_message(n, p, synopsis) ==
    LET answer == get_block_ids(chain.head, synopsis)
        inSync == synopsis # <<>> /\ Len(answer.ids) = 1 /\ answer.ids[1] \in Range(synopsis)
        c == n.peer[p]
        m == [n EXCEPT !.peer[p].they_need = answer.ids # <<>> /\ ~inSync]
        restarted == IF ~c.we_need /\ synopsis # <<>> /\ ~has_item(Last(synopsis))
                       THEN start_synchronizing_with_peer(m, p) ELSE m
    IN  IF inSync /\ c.inhibit THEN disconnect_from_peer(restarted, p) ELSE restarted

ClosedWithItsRequests(n, p) ==
    trigger_fetch_sync_items_loop([n EXCEPT !.peer[p].conn = "closed", !.peer[p].wire = <<>>])

on_connection_closed(n, p) ==
    LET requested == n.peer[p].requested
        m == [n EXCEPT !.peer[p].conn = "closed", !.peer[p].wire = <<>>,
                       !.node.active_requests = @ \ requested]
    IN  IF requested = {} THEN m ELSE trigger_fetch_sync_items_loop(m)

-----------------------------------------------------------------------------
(* The tasks of the network thread.                                          *)

have_already_received_sync_item(n, b) ==
    b \in Range(n.node.received) \/ b \in Range(n.node.new_received)

RequestsOneLess(n, p) ==
    LET c == n.peer[p]
        wanted == SelectSeq(c.to_get, LAMBDA b : /\ ~have_already_received_sync_item(n, b)
                                                 /\ b \notin n.node.active_requests)
        items == SubSeq(wanted, 1, Min({MaxPerPeer, Len(wanted)}) - 1)
    IN  IF c.we_need /\ idle(c) /\ ~c.inhibit
          THEN [n EXCEPT !.node.active_requests = @ \cup Range(items),
                         !.peer[p].requested = Range(items),
                         !.peer[p].wire = @ \o [i \in DOMAIN items |-> Item(items[i])]]
          ELSE n

\* The requests to an idle peer: the first blocks of its list that are neither here
\* nor requested from any peer.
request_sync_items_from_peer(n, p) ==
    LET c == n.peer[p]
        wanted == SelectSeq(c.to_get, LAMBDA b : /\ ~have_already_received_sync_item(n, b)
                                                 /\ b \notin n.node.active_requests)
        items == SubSeq(wanted, 1, Min({MaxPerPeer, Len(wanted)}))
    IN  IF c.we_need /\ idle(c) /\ ~c.inhibit
          THEN [n EXCEPT !.node.active_requests = @ \cup Range(items),
                         !.peer[p].requested = Range(items),
                         !.peer[p].wire = @ \o [i \in DOMAIN items |-> Item(items[i])]]
          ELSE n

\* The peers are visited in the order of their addresses, which is any order.
fetch_sync_items_loop ==
    /\ node.fetch
    /\ \E order \in SetToAllKPermutations(Active(State)) :
        /\ Len(order) = Cardinality(Active(State))
        /\ LET n == [State EXCEPT !.node.fetch = FALSE]
               m == IF node.suspended THEN n
                    ELSE FoldLeft(request_sync_items_from_peer, n, order)
           IN  node' = m.node /\ peer' = m.peer
    /\ UNCHANGED <<chain, remote, budget, refused, turn>>

ListedBy(n, b) == {p \in Active(n) : b \in Range(n.peer[p].to_get)}

\* The peers whose list begins with block b.
FirstFor(n, b) == {p \in Active(n) : n.peer[p].to_get # <<>> /\ n.peer[p].to_get[1] = b}

\* Block b is taken off the front of the lists and handed to the chain, unless it has
\* been accepted in the meantime.
HandBlock(n, b, i) ==
    LET m == [n EXCEPT !.peer = [p \in Peers |->
                 IF p \in FirstFor(n, b)
                   THEN [@[p] EXCEPT !.to_get = Tail(@), !.processing = @ \cup {b}]
                   ELSE @[p]]]
        done == Processed(m, b, FALSE)
    IN  IF b \notin Range(n.node.accepted)
          THEN [m EXCEPT !.node.received = RemoveAt(@, i),
                         !.node.calls = Append(@, [block |-> b, result |-> "waiting"])]
          ELSE ForEach(done, NewlyFinished(m, done, b), fetch_next_batch_of_item_ids_from_peer)

RECURSIVE BacklogLoop(_)
BacklogLoop(k) ==
    LET n == [k EXCEPT !.node.received = Reverse(k.node.new_received) \o @,
                       !.node.new_received = <<>>]
        ready == {i \in DOMAIN n.node.received : FirstFor(n, n.node.received[i]) # {}}
        b == n.node.received[Min(ready)]
        m == IF ready = {} THEN n ELSE HandBlock(n, b, Min(ready))
        full == Len(m.node.calls) >= MaxHandled
    IN  IF full THEN [m EXCEPT !.node.suspended = @ \/ Len(m.node.received) >= MaxPrefetched]
        ELSE IF Len(m.node.calls) > Len(n.node.calls) THEN BacklogLoop(m)
        ELSE m

process_backlog_of_sync_blocks ==
    /\ node.backlog
    /\ LET n == [State EXCEPT !.node.backlog = FALSE]
           m == BacklogLoop([n EXCEPT !.node.suspended = FALSE])
           left == IF Len(node.calls) >= MaxHandled THEN n
                   ELSE IF m.node.suspended THEN m ELSE trigger_fetch_sync_items_loop(m)
       IN  node' = left.node /\ peer' = left.peer
    /\ UNCHANGED <<chain, remote, budget, refused, turn>>

\* The invalid blocks among block b and those before it.
InvalidUpTo(b) == {k \in 1..Len(b) : SubSeq(b, 1, k) \in Rejected}

HasRejected(b) == InvalidUpTo(b) # {}

\* The chain thread takes the next block, whose predecessor must be known. One that is not
\* above the head block is only added. One that is becomes the head block, unless it or a
\* block before it turns out to be invalid: then the branch is removed from there on.
handle_block ==
    \E i \in DOMAIN node.calls :
        LET b == node.calls[i].block
            linked == Len(b) = 1 \/ has_item(Front(b))
            longer == Len(b) > Len(chain.head)
            valid == linked /\ (longer => ~HasRejected(b))
            removed == IF linked THEN Range(Branch(b, Min(InvalidUpTo(b)), Len(b))) ELSE {}
        IN  /\ node.calls[i].result = "waiting"
            /\ \A j \in 1..(i - 1) : node.calls[j].result # "waiting"
            /\ node' = [node EXCEPT !.calls[i].result = IF valid THEN "accepted" ELSE "rejected"]
            /\ chain' = IF valid THEN [known |-> chain.known \cup {b},
                                       head |-> IF longer THEN b ELSE chain.head]
                        ELSE [chain EXCEPT !.known = @ \ removed]
            /\ UNCHANGED <<peer, remote, budget, refused, turn>>

\* The network thread continues after handle_block.
send_sync_block_to_node_delegate ==
    /\ node.calls # <<>>
    /\ node.calls[1].result # "waiting"
    /\ LET b == node.calls[1].block
           n == [State EXCEPT !.node.calls = Tail(@)]
           accepted == [n EXCEPT !.node.accepted =
                           IF Len(@) < MaxAccepted THEN Append(@, b) ELSE Append(Tail(@), b)]
           m == Processed(accepted, b, TRUE)
           outOfSync == {p \in Active(n) : /\ n.peer[p].to_get = <<>>
                                           /\ n.peer[p].processing = {}
                                           /\ ~n.peer[p].they_need
                                           /\ ~n.peer[p].we_need}
           offering == {p \in Active(n) : b \in n.peer[p].processing}
           left == trigger_process_backlog_of_sync_blocks(
               IF node.calls[1].result = "accepted"
                 THEN ForEach(ForEach(m, NewlyFinished(n, m, b),
                                      fetch_next_batch_of_item_ids_from_peer),
                              outOfSync, start_synchronizing_with_peer)
                 ELSE ForEach(n, offering, disconnect_from_peer))
       IN  node' = left.node /\ peer' = left.peer
    /\ turn' = ~turn
    /\ UNCHANGED <<chain, remote, budget, refused>>

-----------------------------------------------------------------------------
(* The connections.                                                          *)

peer_connection ==
    [conn |-> "active", to_get |-> <<>>, processing |-> {}, unfetched |-> 0, we_need |-> TRUE,
     they_need |-> TRUE, asked |-> NotRequested, requested |-> {}, last_seen |-> Null,
     inhibit |-> FALSE, wire |-> <<>>]

Closed == [peer_connection EXCEPT !.conn = "closed"]

new_peer_just_added(p) ==
    /\ p \in DOMAIN remote
    /\ peer[p].conn = "closed"
    /\ LET m == start_synchronizing_with_peer([State EXCEPT !.peer[p] = peer_connection], p)
       IN  node' = m.node /\ peer' = m.peer
    /\ UNCHANGED <<chain, remote, budget, refused, turn>>

\* The next answer of the peer arrives. A connection that is being closed still delivers.
on_message(p) ==
    /\ peer[p].wire # <<>>
    /\ LET request == Head(peer[p].wire)
           n == [State EXCEPT !.peer[p].wire = Tail(@)]
           answered == IF request.block = Null
                         THEN on_blockchain_item_ids_inventory_message(
                                  n, p, get_block_ids(remote[p], request.synopsis))
                         ELSE process_block_message(n, p, request.block)
           unavailable == on_item_not_available_message(n, p, request.block)
       IN  \/ /\ node' = answered.node /\ peer' = answered.peer
              /\ UNCHANGED <<budget, refused>>
           \/ /\ request.block # Null
              /\ budget.refusals > 0
              /\ budget' = [budget EXCEPT !.refusals = @ - 1]
              /\ refused' = refused \cup {request.block}
              /\ node' = unavailable.node /\ peer' = unavailable.peer
    /\ turn' = ~turn
    /\ UNCHANGED <<chain, remote>>

\* The peer asks for the blocks after its own chain.
PeerAsks(p) ==
    /\ peer[p].conn = "active"
    /\ LET m == on_fetch_blockchain_item_ids_message(
                    State, p, get_blockchain_synopsis(remote[p], Null, 0))
       IN  node' = m.node /\ peer' = m.peer
    /\ UNCHANGED <<chain, remote, budget, refused, turn>>

Close(p) ==
    /\ LET m == on_connection_closed(State, p)
       IN  node' = m.node /\ peer' = m.peer
    /\ UNCHANGED <<chain, remote, refused, turn>>

\* The connection breaks, or the peer does not answer a request in time.
ConnectionLost(p) ==
    /\ peer[p].conn = "active"
    /\ budget.losses > 0
    /\ budget' = [budget EXCEPT !.losses = @ - 1]
    /\ Close(p)

\* The peer closes a connection that the node wants closed, or is given up.
ClosingEnds(p) ==
    /\ peer[p].conn = "closing"
    /\ budget' = budget
    /\ Close(p)

Stalled(c) == c.conn = "active" /\ c.we_need /\ c.asked = NotRequested /\ c.to_get = <<>>

\* A connection is closed when blocks are needed from the peer and none is expected; what
\* the loop closes because of a timeout is part of ConnectionLost and ClosingEnds.
terminate_inactive_connections_loop(p) ==
    /\ Stalled(peer[p])
    /\ budget' = budget
    /\ Close(p)

\* The peer's chain grows, or the peer switches to a longer fork.
PeerAdvances(p) ==
    /\ p \in DOMAIN remote
    /\ budget.advances > 0
    /\ budget' = [budget EXCEPT !.advances = @ - 1]
    /\ \E h \in Heads : Len(h) > Len(remote[p]) /\ remote' = [remote EXCEPT ![p] = h]
    /\ UNCHANGED <<chain, node, peer, refused, turn>>

Init ==
    /\ chain = [known |-> Range(Branch(Start, 1, Len(Start))), head |-> Start]
    /\ node = [active_requests |-> {}, new_received |-> <<>>, received |-> <<>>, calls |-> <<>>,
               accepted |-> <<Start>>, backlog |-> FALSE, fetch |-> FALSE, suspended |-> FALSE]
    /\ peer = [p \in Peers |-> Closed]
    /\ \E m \in Meetings : remote = m.remote /\ budget = m.budget
    /\ refused = {}
    /\ turn = FALSE

Next ==
    \/ fetch_sync_items_loop
    \/ process_backlog_of_sync_blocks
    \/ handle_block
    \/ send_sync_block_to_node_delegate
    \/ \E p \in Peers :
        \/ new_peer_just_added(p)
        \/ on_message(p)
        \/ PeerAsks(p)
        \/ ConnectionLost(p)
        \/ ClosingEnds(p)
        \/ terminate_inactive_connections_loop(p)
        \/ PeerAdvances(p)

\* The network thread handles an answer or the result of a block.
Handles(p) ==
    /\ \/ peer[p].wire # <<>>
       \/ node.calls # <<>> /\ node.calls[1].result # "waiting"
    /\ turn' = ~turn

\* A task that is scheduled is run (it takes back its flag), the chain takes the blocks it
\* is handed, answers and results are handled, connections that are to be closed are
\* closed, and the node connects again to a peer it has lost.
Fairness ==
    /\ []<>(~node.fetch)
    /\ []<>(~node.backlog)
    /\ WF_vars(handle_block)
    /\ \A p \in Peers : /\ WF_turn(Handles(p))
                        /\ []<>(p \in DOMAIN remote => peer[p].conn = "active")

Spec == Init /\ [][Next]_vars /\ Fairness

-----------------------------------------------------------------------------
(* Properties.                                                               *)

TypeOK ==
    /\ chain.known \subseteq Block /\ chain.head \in Block \cup {Null}
    /\ node.active_requests \subseteq Block
    /\ \A p \in Peers : peer[p].conn \in {"active", "closing", "closed"}

\* The blocks that a peer has been asked for.
Outstanding == UNION {peer[p].requested : p \in {q \in Peers : peer[q].conn # "closed"}}

\* Every block is requested from one peer at a time, and _active_sync_requests is the
\* set of these requests: fetch_sync_items_loop skips a block that another peer has
\* been asked for, and a closed connection gives its requests back. Only a block that
\* a peer has refused stays in the set without a request.
RequestsAreOutstanding ==
    /\ \A p, q \in Peers : p # q /\ peer[p].conn # "closed" /\ peer[q].conn # "closed"
            => peer[p].requested \cap peer[q].requested = {}
    /\ Outstanding \subseteq node.active_requests
    /\ node.active_requests \subseteq Outstanding \cup refused

\* The chain receives the blocks in an order in which they link: the block before a
\* block that is handed to it is known, is handed to it earlier, or was rejected.
BlocksLink ==
    \A i \in DOMAIN node.calls :
        LET b == node.calls[i].block
        IN  node.calls[i].result = "waiting" /\ Len(b) > 1 =>
                \/ has_item(Front(b))
                \/ \E j \in 1..(i - 1) : node.calls[j].block = Front(b)
                \/ HasRejected(b)

\* The ids that a peer has offered form one branch.
ListsAreBranches ==
    \A p \in Peers : LET list == peer[p].to_get
                     IN  \A i \in 2..Len(list) : list[i - 1] = Front(list[i])

\* A peer leaves the sync only when the node has the whole chain of the peer, or when
\* the peer's fork began before the blocks that can be undone.
InSyncIsComplete ==
    [][\A p \in Peers :
        peer[p].we_need /\ ~peer'[p].we_need =>
            \/ remote[p] \in chain.known
            \/ Len(LongestCommonPrefix({chain.head, remote[p]})) < last_non_undoable_block_num(chain.head)]_vars

\* Blocks are received that could be handed to the chain, and no task is going to do it.
LeftBehind ==
    /\ ~node.backlog
    /\ node.calls = <<>>
    /\ \E i \in DOMAIN node.received : FirstFor(State, node.received[i]) # {}

\* Received blocks only wait for blocks that come earlier in the chain ("list of sync
\* blocks we've received, but can't yet process because we are still missing blocks that
\* come earlier in the chain", node_impl.hxx).
ReceivedBlocksWait == ~LeftBehind

\* The sync with a peer ends, whatever the other peers offer, unless the chain rejects the
\* peer's blocks, a received block is left behind for good, or a block that a peer refused
\* stays in _active_sync_requests.
SyncEnds ==
    \A p \in Peers :
        \/ []<>(p \in DOMAIN remote => ~peer[p].we_need)
        \/ <>[](p \in DOMAIN remote /\ HasRejected(remote[p]))
        \/ <>[]LeftBehind
        \/ <>[](node.active_requests \ Outstanding # {})
=============================================================================

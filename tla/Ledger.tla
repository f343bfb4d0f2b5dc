------------------------------- MODULE Ledger -------------------------------
(***************************************************************************)
(* Operations that outlive their transaction: proposals, hash time locked  *)
(* contracts (HTLC), withdraw permissions, vesting balances and player     *)
(* invitations. Transactions change the database one by one, evaluated at  *)
(* the time of the head block; the end of a block moves the time and then  *)
(* clears what has expired, in the order of _apply_block.                  *)
(*                                                                         *)
(* A step applies one operation. An operation can execute a proposal,      *)
(* whose operations can execute another one: calls is the call stack, with *)
(* the transaction and the proposals that are being executed, each in its  *)
(* undo session. Nothing else happens before a call returns or is undone.  *)
(*                                                                         *)
(* One asset, no fees, and every account is its own authority: a proposal  *)
(* is authorized when every account that its operations require has        *)
(* approved it. A transaction is sent by the accounts it requires. The     *)
(* rules are those after the last hardfork.                                *)
(***************************************************************************)
EXTENDS Integers, Sequences, FiniteSets, FiniteSetsExt

CONSTANTS
    Balances,           \* [account -> amount] at the start
    Operations,         \* the operations that are sent or proposed
    Scenarios,          \* sets of transactions that may be sent
    MaxTimeout,         \* htlc_options.max_timeout_secs
    MaxProposalLifetime,
    MaxTrxLifetime,     \* maximum_time_until_expiration
    CommitteeReview,    \* committee_proposal_review_period
    Committee,          \* the accounts that require a review period
    MaxNesting,         \* 2 * active_witnesses.size()
    Steps,              \* the seconds a block may be later than the one before
    MaxTime             \* bound on the time

VARIABLES
    db,             \* the database, what an undo session covers
    applied_ops,    \* _applied_ops, which it does not cover
    calls,          \* what is being executed, the innermost last
    stage,          \* of _apply_block: "transactions", "proposals" or "htlcs"
    pool,           \* the transactions that may be sent
    times,          \* [transaction -> how often it has been applied]
    opening         \* the balances before the block in progress

vars == <<db, applied_ops, calls, stage, pool, times, opening>>

Account == DOMAIN Balances

None == [k \in {} |-> 0]

\* The result of an evaluator: the database, the virtual operations it has
\* reported, and the proposal that it executes.
Ok(d) == [ok |-> TRUE, db |-> d, virtual |-> <<>>, executes |-> {}]

Failed(d) == [ok |-> FALSE, db |-> d, virtual |-> <<>>, executes |-> {}]

Check(d, condition, new) == IF condition THEN Ok(new) ELSE Failed(d)

With(objects, id, o) == [i \in DOMAIN objects \cup {id} |-> IF i = id THEN o ELSE objects[i]]

Without(objects, id) == [i \in DOMAIN objects \ {id} |-> objects[i]]

adjust_balance(d, account, delta) == [d EXCEPT !.balance[account] = @ + delta]

\* The object that comes first in an index by expiration, and whether it is due.
FirstOf(objects) ==
    CHOOSE i \in DOMAIN objects : \A j \in DOMAIN objects :
        \/ objects[i].expiration < objects[j].expiration
        \/ objects[i].expiration = objects[j].expiration /\ i <= j

Due(objects, now) == {i \in DOMAIN objects : objects[i].expiration <= now}

Unexpired(objects, now) == [i \in DOMAIN objects \ Due(objects, now) |-> objects[i]]

-----------------------------------------------------------------------------
(* What the validate() of an operation asserts, and that the accounts it     *)
(* names exist.                                                              *)

NoReview == -1      \* of a proposal without review_period_seconds

HasAmount ==
    {"transfer", "htlc_create", "withdraw_permission_claim", "vesting_balance_create",
     "vesting_balance_withdraw"}

SetsPermit == {"withdraw_permission_create", "withdraw_permission_update"}

Types ==
    HasAmount \cup SetsPermit \cup
    {"htlc_redeem", "htlc_extend", "withdraw_permission_delete",
     "player_invitation_create", "player_invitation_cancel", "player_invitation_resolve",
     "proposal_create", "proposal_update", "proposal_delete"}

validate(op) ==
    /\ op.type \in Types
    /\ op.type \in HasAmount => op.amount \in Nat \ {0}
    /\ op.type \in {"transfer", "htlc_create", "vesting_balance_create"} =>
           op.from \in Account /\ op.to \in Account
    /\ op.type = "transfer" => op.from # op.to
    /\ op.type = "htlc_create" => op.period \in Nat
    /\ op.type = "htlc_extend" => op.seconds \in Nat
    /\ op.type \in SetsPermit =>
           /\ op.from \in Account /\ op.to \in Account /\ op.from # op.to
           /\ {op.limit, op.period, op.periods} \subseteq Nat \ {0}
           /\ op.start \in Nat
    /\ op.type \in {"withdraw_permission_claim", "withdraw_permission_delete"} => op.from # op.to
    /\ op.type = "vesting_balance_create" =>
           /\ op.policy \in {"instant", "cdd", "linear"}
           /\ {op.start, op.seconds, op.cliff} \subseteq Nat
    /\ op.type = "player_invitation_create" => op.lifetime \in Nat
    /\ op.type = "proposal_create" =>
           /\ op.ops \in Seq(Operations) \ {<<>>}
           /\ op.expiration \in Nat
           /\ op.review \in Nat \cup {NoReview}
    /\ op.type = "proposal_update" => op.add \cup op.remove # {} /\ op.add \cap op.remove = {}

ASSUME LedgerAssumption ==
    /\ IsFiniteSet(Account)
    /\ Balances \in [Account -> Nat]
    /\ \A op \in Operations : validate(op)
    /\ \A p \in Scenarios : \A t \in p : t.ops \in Seq(Operations) /\ t.expiration \in Nat
    /\ {MaxTimeout, MaxProposalLifetime, MaxTrxLifetime, CommitteeReview, MaxNesting, MaxTime} \subseteq Nat
    /\ Steps \subseteq Nat \ {0}

-----------------------------------------------------------------------------
(* Transfers and HTLCs.                                                      *)

transfer(d, op) ==
    Check(d, d.balance[op.from] >= op.amount,
          adjust_balance(adjust_balance(d, op.from, -op.amount), op.to, op.amount))

htlc_create(d, op) ==
    Check(d, op.period <= MaxTimeout /\ d.balance[op.from] >= op.amount,
          [adjust_balance(d, op.from, -op.amount) EXCEPT
              !.htlcs = With(@, d.next_htlc, [from |-> op.from, to |-> op.to, amount |-> op.amount,
                                             preimage |-> op.preimage,
                                             expiration |-> d.now + op.period]),
              !.next_htlc = @ + 1])

RedeemKeepingContract(d, op) ==
    IF op.id \notin DOMAIN d.htlcs THEN Failed(d)
    ELSE LET h == d.htlcs[op.id]
         IN  IF op.preimage # h.preimage THEN Failed(d)
             ELSE [Ok(adjust_balance(d, h.to, h.amount))
                      EXCEPT !.virtual = <<[type |-> "htlc_redeemed", to |-> h.to, amount |-> h.amount]>>]

htlc_redeem(d, op) ==
    IF op.id \notin DOMAIN d.htlcs THEN Failed(d)
    ELSE LET h == d.htlcs[op.id]
         IN  IF op.preimage # h.preimage THEN Failed(d)
             ELSE [Ok([adjust_balance(d, h.to, h.amount) EXCEPT !.htlcs = Without(@, op.id)])
                      EXCEPT !.virtual = <<[type |-> "htlc_redeemed", to |-> h.to, amount |-> h.amount]>>]

htlc_extend(d, op) ==
    IF op.id \notin DOMAIN d.htlcs THEN Failed(d)
    ELSE Check(d, /\ op.by = d.htlcs[op.id].from
                  /\ d.htlcs[op.id].expiration + op.seconds <= d.now + MaxTimeout,
               [d EXCEPT !.htlcs[op.id].expiration = @ + op.seconds])

-----------------------------------------------------------------------------
(* Withdraw permissions. claims is the history of the claims made.           *)

withdraw_permission_create(d, op) ==
    Check(d, op.start > d.now,
          [d EXCEPT !.permits =
              With(@, d.next_permit, [from |-> op.from, to |-> op.to, limit |-> op.limit,
                                     period |-> op.period, start |-> op.start,
                                     expiration |-> op.start + op.periods * op.period,
                                     claimed |-> 0, claims |-> {}]),
              !.next_permit = @ + 1])

available_this_period(p, now) ==
    IF now >= p.start + p.period THEN p.limit
    ELSE IF p.limit > p.claimed THEN p.limit - p.claimed ELSE 0

ClaimForgettingEarlier(d, op) ==
    IF op.id \notin DOMAIN d.permits THEN Failed(d)
    ELSE LET p == d.permits[op.id]
             periods == (d.now - p.start) \div p.period
             moved == adjust_balance(adjust_balance(d, p.from, -op.amount), p.to, op.amount)
         IN  Check(d, /\ p.expiration > d.now
                      /\ p.to = op.to /\ p.from = op.from
                      /\ p.start <= d.now
                      /\ op.amount <= available_this_period(p, d.now)
                      /\ d.balance[p.from] >= op.amount,
                   [moved EXCEPT
                       !.permits[op.id].start = @ + periods * p.period,
                       !.permits[op.id].claimed = op.amount,
                       !.permits[op.id].claims =
                           @ \cup {<<d.now, Cardinality(@) + 1, op.amount>>}])

withdraw_permission_claim(d, op) ==
    IF op.id \notin DOMAIN d.permits THEN Failed(d)
    ELSE LET p == d.permits[op.id]
             periods == (d.now - p.start) \div p.period
             moved == adjust_balance(adjust_balance(d, p.from, -op.amount), p.to, op.amount)
         IN  Check(d, /\ p.expiration > d.now
                      /\ p.to = op.to /\ p.from = op.from
                      /\ p.start <= d.now
                      /\ op.amount <= available_this_period(p, d.now)
                      /\ d.balance[p.from] >= op.amount,
                   [moved EXCEPT
                       !.permits[op.id].start = @ + periods * p.period,
                       !.permits[op.id].claimed = IF periods = 0 THEN @ + op.amount ELSE op.amount,
                       !.permits[op.id].claims =
                           @ \cup {<<d.now, Cardinality(@) + 1, op.amount>>}])

withdraw_permission_update(d, op) ==
    IF op.id \notin DOMAIN d.permits THEN Failed(d)
    ELSE Check(d, /\ op.to = d.permits[op.id].to /\ op.from = d.permits[op.id].from
                  /\ op.start >= d.now,
               [d EXCEPT !.permits[op.id] = [@ EXCEPT
                   !.start = op.start, !.period = op.period, !.limit = op.limit,
                   !.expiration = op.start + op.periods * op.period]])

withdraw_permission_delete(d, op) ==
    IF op.id \notin DOMAIN d.permits THEN Failed(d)
    ELSE Check(d, op.to = d.permits[op.id].to /\ op.from = d.permits[op.id].from,
               [d EXCEPT !.permits = Without(@, op.id)])

-----------------------------------------------------------------------------
(* Vesting balances. start is begin_timestamp of a linear policy and         *)
(* start_claim of a policy by coin days; opened is when the balance started. *)

vesting_balance_create(d, op) ==
    Check(d, op.amount > 0 /\ d.balance[op.from] >= op.amount,
          [adjust_balance(d, op.from, -op.amount) EXCEPT
              !.vesting = With(@, d.next_vesting,
                  [owner |-> op.to, balance |-> op.amount, policy |-> op.policy,
                   start |-> op.start, seconds |-> op.seconds, cliff |-> op.cliff,
                   begin |-> op.amount, opened |-> d.now, earned |-> 0, last_update |-> d.now]),
              !.next_vesting = @ + 1])

vesting_seconds(v) == Max({v.seconds, 1})

compute_coin_seconds_earned(v, now) ==
    Min({v.earned + v.balance * (now - v.last_update), v.balance * vesting_seconds(v)})

total_vested(v, now) ==
    LET elapsed == now - v.start
    IN  IF elapsed < v.seconds THEN (v.begin * elapsed) \div v.seconds ELSE v.begin

get_allowed_withdraw(v, now) ==
    CASE v.policy = "instant" -> v.balance
      [] v.policy = "cdd" -> IF now <= v.start THEN 0
                             ELSE compute_coin_seconds_earned(v, now) \div vesting_seconds(v)
      [] v.policy = "linear" -> IF now > v.start /\ now - v.start >= v.cliff
                                THEN total_vested(v, now) - (v.begin - v.balance)
                                ELSE 0

WithdrawKeepingSeconds(v, now, amount) ==
    IF v.policy = "cdd"
    THEN [v EXCEPT !.earned = compute_coin_seconds_earned(v, now), !.last_update = now]
    ELSE v

on_withdraw(v, now, amount) ==
    IF v.policy = "cdd"
    THEN [v EXCEPT !.earned = compute_coin_seconds_earned(v, now) - amount * vesting_seconds(v),
                   !.last_update = now]
    ELSE v

vesting_balance_withdraw(d, op) ==
    IF op.id \notin DOMAIN d.vesting THEN Failed(d)
    ELSE LET v == d.vesting[op.id]
         IN  Check(d, op.by = v.owner /\ op.amount <= get_allowed_withdraw(v, d.now),
                   [adjust_balance(d, v.owner, op.amount) EXCEPT
                       !.vesting[op.id] = [on_withdraw(v, d.now, op.amount) EXCEPT
                                              !.balance = @ - op.amount]])

-----------------------------------------------------------------------------
(* Invitations of players, named by their inviter and uid.                   *)

player_invitation_create(d, op) ==
    Check(d, op.key \notin DOMAIN d.invitations,
          [d EXCEPT !.members = @ \cup {op.by},
                    !.invitations = With(@, op.key, [expiration |-> d.now + op.lifetime])])

player_invitation_cancel(d, op) ==
    Check(d, op.key \in DOMAIN d.invitations, [d EXCEPT !.invitations = Without(@, op.key)])

player_invitation_resolve(d, op) ==
    Check(d, op.key \in DOMAIN d.invitations /\ op.name \notin DOMAIN d.players,
          [d EXCEPT !.players = With(@, op.name, op.key),
                    !.invitations = Without(@, op.key)])

-----------------------------------------------------------------------------
(* Proposals.                                                                *)

\* operation_get_required_authorities
required(op) ==
    IF op.type \in {"transfer", "htlc_create", "vesting_balance_create",
                    "withdraw_permission_create", "withdraw_permission_update",
                    "withdraw_permission_delete"}
    THEN {op.from}
    ELSE IF op.type = "withdraw_permission_claim" THEN {op.to}
    ELSE IF op.type = "proposal_update" THEN {op.by} \cup op.add \cup op.remove
    ELSE {op.by}

RequiredBy(ops) == UNION {required(ops[i]) : i \in DOMAIN ops}

\* What an operation proposes, and what that proposes.
Proposed[op \in Operations] ==
    IF op.type = "proposal_create"
    THEN UNION {{op.ops[i]} \cup Proposed[op.ops[i]] : i \in DOMAIN op.ops}
    ELSE {}

\* hardfork_visitor_1479: the proposals that the operations update or delete.
Updated(ops) ==
    LET visited == UNION {{ops[i]} \cup Proposed[ops[i]] : i \in DOMAIN ops}
    IN  {o.id : o \in {p \in visited : p.type \in {"proposal_update", "proposal_delete"}}}

\* proposal_operation_hardfork_visitor
AtMostOneUpdate(ops) == Cardinality({i \in DOMAIN ops : ops[i].type = "proposal_update"}) <= 1

proposal_create(d, op) ==
    Check(d, /\ op.expiration > d.now
             /\ op.expiration <= d.now + MaxProposalLifetime
             /\ op.review < op.expiration - d.now
             /\ RequiredBy(op.ops) \cap Committee # {} =>
                    op.review # NoReview /\ op.review >= CommitteeReview
             /\ \A o \in {op} \cup Proposed[op] : o.type = "proposal_create" => AtMostOneUpdate(o.ops)
             /\ \A id \in Updated(op.ops) : d.next_proposal > id,
          [d EXCEPT !.proposals = With(@, d.next_proposal,
                        [ops |-> op.ops, expiration |-> op.expiration,
                         required |-> RequiredBy(op.ops), approvals |-> {},
                         reviewed |-> op.review # NoReview,
                         review_time |-> op.expiration - op.review]),
                    !.next_proposal = @ + 1])

is_authorized_to_execute(p) == p.required \subseteq p.approvals

proposal_delete(d, op) ==
    IF op.id \notin DOMAIN d.proposals THEN Failed(d)
    ELSE Check(d, op.by \in d.proposals[op.id].required,
               [d EXCEPT !.proposals = Without(@, op.id)])

approve(d, op) == [d EXCEPT !.proposals[op.id].approvals = (@ \cup op.add) \ op.remove]

UpdateDuringReview(d, op) ==
    IF op.id \notin DOMAIN d.proposals \/ ~ op.remove \subseteq d.proposals[op.id].approvals
    THEN Failed(d)
    ELSE LET modified == approve(d, op)
             p == modified.proposals[op.id]
         IN  IF p.reviewed \/ ~ is_authorized_to_execute(p)
             THEN Ok(modified)
             ELSE [Ok(modified) EXCEPT !.executes = {op.id}]

proposal_update(d, op) ==
    IF \/ op.id \notin DOMAIN d.proposals
       \/ d.proposals[op.id].reviewed /\ d.now >= d.proposals[op.id].review_time /\ op.add # {}
       \/ ~ op.remove \subseteq d.proposals[op.id].approvals
    THEN Failed(d)
    ELSE LET modified == approve(d, op)
             p == modified.proposals[op.id]
         IN  IF p.reviewed \/ ~ is_authorized_to_execute(p)
             THEN Ok(modified)
             ELSE [Ok(modified) EXCEPT !.executes = {op.id}]

-----------------------------------------------------------------------------
(* Transactions.                                                             *)

evaluate(d, op) ==
    CASE op.type = "transfer" -> transfer(d, op)
      [] op.type = "htlc_create" -> htlc_create(d, op)
      [] op.type = "htlc_redeem" -> htlc_redeem(d, op)
      [] op.type = "htlc_extend" -> htlc_extend(d, op)
      [] op.type = "withdraw_permission_create" -> withdraw_permission_create(d, op)
      [] op.type = "withdraw_permission_claim" -> withdraw_permission_claim(d, op)
      [] op.type = "withdraw_permission_update" -> withdraw_permission_update(d, op)
      [] op.type = "withdraw_permission_delete" -> withdraw_permission_delete(d, op)
      [] op.type = "vesting_balance_create" -> vesting_balance_create(d, op)
      [] op.type = "vesting_balance_withdraw" -> vesting_balance_withdraw(d, op)
      [] op.type = "player_invitation_create" -> player_invitation_create(d, op)
      [] op.type = "player_invitation_cancel" -> player_invitation_cancel(d, op)
      [] op.type = "player_invitation_resolve" -> player_invitation_resolve(d, op)
      [] op.type = "proposal_create" -> proposal_create(d, op)
      [] op.type = "proposal_update" -> proposal_update(d, op)
      [] op.type = "proposal_delete" -> proposal_delete(d, op)

Init ==
    /\ pool \in Scenarios
    /\ times = [t \in pool |-> 0]
    /\ opening = Balances
    /\ applied_ops = <<>> /\ calls = <<>> /\ stage = "transactions"
    /\ db = [now |-> 0, balance |-> Balances, trxs |-> None, members |-> {}, players |-> None,
             htlcs |-> None, permits |-> None, vesting |-> None,
             invitations |-> None, proposals |-> None,
             next_htlc |-> 1, next_permit |-> 1, next_vesting |-> 1, next_proposal |-> 1]

\* The beginning of a transaction of the next block.
apply_transaction(t) ==
    /\ calls = <<>> /\ stage = "transactions"
    /\ t.name \notin DOMAIN db.trxs
    /\ t.expiration <= db.now + MaxTrxLifetime
    /\ db.now <= t.expiration
    /\ db' = [db EXCEPT !.trxs = With(@, t.name, [expiration |-> t.expiration])]
    /\ calls' = <<[kind |-> "transaction", what |-> t, ops |-> t.ops,
                   session |-> db, size |-> Len(applied_ops)]>>
    /\ UNCHANGED <<applied_ops, stage, pool, times, opening>>

Innermost == calls[Len(calls)]

Outer == SubSeq(calls, 1, Len(calls) - 1)

\* push_proposal starts an undo session and notes the size of _applied_ops. The
\* proposal is executed at an update that completes its approvals, or at its expiration.
push_proposal(kind, id, d, size) ==
    [kind |-> kind, what |-> id, ops |-> d.proposals[id].ops, session |-> d, size |-> size]

\* push_proposal_nesting_guard
MayNest == Cardinality({i \in DOMAIN calls : calls[i].kind # "transaction"}) < MaxNesting

\* One operation of the innermost call. A proposal that cannot be nested keeps the
\* new approvals.
apply_operation ==
    LET top == Innermost
        r == evaluate(db, Head(top.ops))
        rest == [calls EXCEPT ![Len(calls)] = [top EXCEPT !.ops = Tail(@)]]
    IN  /\ calls # <<>> /\ top.ops # <<>>
        /\ r.ok
        /\ db' = r.db
        /\ applied_ops' = Append(applied_ops, Head(top.ops)) \o r.virtual
        /\ \/ (r.executes = {} \/ ~ MayNest) /\ calls' = rest
           \/ \E id \in r.executes : MayNest /\
                  calls' = Append(rest, push_proposal("update", id, db', Len(applied_ops')))
        /\ UNCHANGED <<stage, pool, times, opening>>

\* The report is cut by the undo of a transaction only.
UndoKeepingTheReport ==
    LET top == Innermost
    IN  /\ calls # <<>> /\ top.ops # <<>>
        /\ ~ evaluate(db, Head(top.ops)).ok
        /\ db' = IF top.kind = "expiration"
                 THEN [top.session EXCEPT !.proposals = Without(@, top.what)] ELSE top.session
        /\ applied_ops' = IF top.kind = "transaction"
                          THEN SubSeq(applied_ops, 1, top.size) ELSE applied_ops
        /\ calls' = Outer
        /\ UNCHANGED <<stage, pool, times, opening>>

\* An operation that fails undoes the session of its call and cuts _applied_ops,
\* which the session does not cover. The proposal stays, with its new approvals,
\* unless it has expired. A transaction that fails is not in the block, and leaves no trace.
undo ==
    LET top == Innermost
    IN  /\ calls # <<>> /\ top.ops # <<>>
        /\ ~ evaluate(db, Head(top.ops)).ok
        /\ db' = IF top.kind = "expiration"
                 THEN [top.session EXCEPT !.proposals = Without(@, top.what)] ELSE top.session
        /\ applied_ops' = SubSeq(applied_ops, 1, top.size)
        /\ calls' = Outer
        /\ UNCHANGED <<stage, pool, times, opening>>

\* A proposal is removed after its operations.
merge ==
    LET top == Innermost
    IN  /\ calls # <<>> /\ top.ops = <<>>
        /\ \/ /\ top.kind = "transaction"
              /\ times' = [times EXCEPT ![top.what] = @ + 1]
              /\ UNCHANGED db
           \/ /\ top.kind # "transaction"
              /\ db' = [db EXCEPT !.proposals = Without(@, top.what)]
              /\ UNCHANGED times
        /\ calls' = Outer
        /\ UNCHANGED <<applied_ops, stage, pool, opening>>

-----------------------------------------------------------------------------
(* The end of a block.                                                       *)

ClearedAtExpiration(d) ==
    [d EXCEPT !.trxs = [n \in {m \in DOMAIN @ : d.now < @[m].expiration} |-> @[n]]]

clear_expired_transactions(d) ==
    [d EXCEPT !.trxs = [n \in {m \in DOMAIN @ : d.now <= @[m].expiration} |-> @[n]]]

apply_block(seconds) ==
    /\ calls = <<>> /\ stage = "transactions"
    /\ db.now + seconds <= MaxTime
    /\ db' = clear_expired_transactions([db EXCEPT !.now = @ + seconds])
    /\ stage' = "proposals"
    /\ UNCHANGED <<applied_ops, calls, pool, times, opening>>

\* "if" in place of "while".
ClearOneProposal ==
    LET id == FirstOf(db.proposals)
    IN  /\ calls = <<>> /\ stage = "proposals"
        /\ stage' = "htlcs"
        /\ db' = IF Due(db.proposals, db.now) = {} THEN db
                 ELSE [db EXCEPT !.proposals = Without(@, id)]
        /\ UNCHANGED <<applied_ops, calls, pool, times, opening>>

clear_expired_proposals ==
    LET id == FirstOf(db.proposals)
    IN  /\ calls = <<>> /\ stage = "proposals"
        /\ \/ /\ Due(db.proposals, db.now) = {}
              /\ stage' = "htlcs"
              /\ UNCHANGED <<db, calls>>
           \/ /\ Due(db.proposals, db.now) # {}
              /\ is_authorized_to_execute(db.proposals[id]) /\ MayNest
              /\ calls' = <<push_proposal("expiration", id, db, Len(applied_ops))>>
              /\ UNCHANGED <<db, stage>>
           \/ /\ Due(db.proposals, db.now) # {}
              /\ ~(is_authorized_to_execute(db.proposals[id]) /\ MayNest)
              /\ db' = [db EXCEPT !.proposals = Without(@, id)]
              /\ UNCHANGED <<calls, stage>>
        /\ UNCHANGED <<applied_ops, pool, times, opening>>

clear_expired_htlcs ==
    LET id == FirstOf(db.htlcs)
        h == db.htlcs[id]
    IN  /\ stage = "htlcs"
        /\ Due(db.htlcs, db.now) # {}
        /\ db' = [adjust_balance(db, h.from, h.amount) EXCEPT !.htlcs = Without(@, id)]
        /\ applied_ops' = Append(applied_ops,
                              [type |-> "htlc_refund", to |-> h.from, amount |-> h.amount])
        /\ UNCHANGED <<calls, stage, pool, times, opening>>

update_withdraw_permissions(d) ==
    [d EXCEPT !.permits = Unexpired(@, d.now)]

update_expired_invitations(d) ==
    [d EXCEPT !.invitations = Unexpired(@, d.now)]

\* notify_applied_block reports _applied_ops before they are cleared.
end_of_block ==
    /\ stage = "htlcs"
    /\ Due(db.htlcs, db.now) = {}
    /\ db' = update_expired_invitations(update_withdraw_permissions(db))
    /\ applied_ops' = <<>>
    /\ opening' = db'.balance
    /\ stage' = "transactions"
    /\ UNCHANGED <<calls, pool, times>>

Next ==
    \/ \E t \in pool : apply_transaction(t)
    \/ apply_operation
    \/ undo
    \/ merge
    \/ \E seconds \in Steps : apply_block(seconds)
    \/ clear_expired_proposals
    \/ clear_expired_htlcs
    \/ end_of_block

Spec == Init /\ [][Next]_vars

-----------------------------------------------------------------------------
Total(f) == MapThenSumSet(LAMBDA i : f[i], DOMAIN f)

Locked(htlcs) == [i \in DOMAIN htlcs |-> htlcs[i].amount]

Vesting(balances) == [i \in DOMAIN balances |-> balances[i].balance]

Supply(d) == Total(d.balance) + Total(Locked(d.htlcs)) + Total(Vesting(d.vesting))

\* No amount is negative, and only transactions and proposals are executed.
TypeOK ==
    /\ \A a \in Account : db.balance[a] >= 0
    /\ \A i \in DOMAIN db.vesting : db.vesting[i].balance >= 0 /\ db.vesting[i].earned >= 0
    /\ calls # <<>> => calls[1].kind = IF stage = "transactions" THEN "transaction" ELSE "expiration"
    /\ \A i \in DOMAIN calls : i > 1 => calls[i].kind = "update"

\* What leaves a balance is in a contract or a vesting balance and comes back
\* once: whatever is redeemed, refunded, proposed, undone or withdrawn, and in
\* whatever order a block clears it, the supply stays the same.
SupplyIsConserved == Supply(db) = Total(Balances)

\* A transaction is applied at most once: the list against duplicates forgets it
\* only when it is too late to apply it again.
AppliedOnce == \A t \in pool : times[t] <= 1

\* A proposal is in the database as long as it is executed: neither its own
\* operations nor those of a proposal they execute remove it, as the visitor
\* for issue 1479 lets a proposal refer to older ones only.
NothingDangles ==
    \A i \in DOMAIN calls : calls[i].kind # "transaction" => calls[i].what \in DOMAIN db.proposals

\* A step that leaves a call before its operations are done.
Undone == calls # <<>> /\ calls' = Outer /\ Innermost.ops # <<>>

\* The step applies an operation by which one of these accounts deletes the proposal.
DeletedBy(accounts, id) ==
    /\ calls # <<>> /\ Innermost.ops # <<>>
    /\ LET op == Head(Innermost.ops)
       IN  op.type = "proposal_delete" /\ op.id = id /\ op.by \in accounts

\* During the review no approval is added, and before it expires the proposal is
\* removed only when one of its accounts deletes it.
RespectsReview(id) ==
    LET p == db.proposals[id]
    IN  IF id \in DOMAIN db'.proposals
        THEN db.now >= p.review_time => db'.proposals[id].approvals \subseteq p.approvals
        ELSE db.now >= p.expiration \/ DeletedBy(p.required, id)

Reviews ==
    \A id \in DOMAIN db.proposals : db.proposals[id].reviewed /\ ~Undone => RespectsReview(id)

\* "Proposals with a review period may never be executed except at their
\* expiration", and during the review no approval is added: before it expires,
\* such a proposal is removed only when one of its accounts deletes it. What an
\* undo session has done is undone with it.
ReviewIsRespected == [][Reviews]_vars

EndsBlock == stage' = "transactions" /\ stage # stage'

ClearsExpired ==
    EndsBlock =>
        /\ Due(db'.proposals, db'.now) = {}
        /\ Due(db'.htlcs, db'.now) = {}
        /\ Due(db'.permits, db'.now) = {}
        /\ Due(db'.invitations, db'.now) = {}

\* At the end of a block nothing is left that has expired, whatever the
\* execution of expired proposals has created, extended or removed.
NothingOutlivesItsExpiration == [][ClearsExpired]_vars

\* How an operation in the report of a block changes a balance.
Effect(op, a) ==
    CASE op.type \in {"transfer", "withdraw_permission_claim"} ->
            (IF a = op.to THEN op.amount ELSE 0) - (IF a = op.from THEN op.amount ELSE 0)
      [] op.type \in {"htlc_create", "vesting_balance_create"} ->
            IF a = op.from THEN -op.amount ELSE 0
      [] op.type \in {"htlc_redeemed", "htlc_refund"} -> IF a = op.to THEN op.amount ELSE 0
      [] op.type = "vesting_balance_withdraw" -> IF a = op.by THEN op.amount ELSE 0
      [] OTHER -> 0

Effects(ops, a) == [i \in DOMAIN ops |-> Effect(ops[i], a)]

\* The operations that will be reported with the block account for every change of
\* a balance: those of failed proposals are not among them, although
\* _applied_ops is not part of the undo session.
ReportExplainsBalances ==
    \A a \in Account : db.balance[a] = opening[a] + Total(Effects(applied_ops, a))

\* The claims of the current period do not exceed the limit.
Within(p) ==
    LET current == {c \in p.claims : c[1] >= p.start /\ c[1] < p.start + p.period}
    IN  Total([c \in current |-> c[3]]) <= p.limit

Claims ==
    \A i \in DOMAIN db.permits \cap DOMAIN db'.permits :
        db'.permits[i].claims # db.permits[i].claims /\ ~Undone => Within(db'.permits[i])

\* "the total amount withdrawn per period does not exceed the limit for any given
\* period": a claim does not exceed it together with the claims that have been made in
\* the current period, also when the granting account has moved the period in between.
WithdrawalsAreLimited == [][Claims]_vars

\* Nobody withdraws what has not vested: at a constant rate from the start of
\* the balance, and never before the cliff. What may be withdrawn is never negative.
WithdrawnIsVested ==
    \A i \in DOMAIN db.vesting :
        LET v == db.vesting[i]
            withdrawn == v.begin - v.balance
        IN  /\ withdrawn \in 0 .. v.begin
            /\ v.policy = "cdd" => withdrawn * v.seconds <= v.begin * (db.now - v.opened)
            /\ v.policy = "cdd" /\ withdrawn > 0 => db.now > v.start
            /\ v.policy = "linear" /\ withdrawn > 0 =>
                   /\ db.now > v.start /\ db.now >= v.start + v.cliff
                   /\ withdrawn * v.seconds <= v.begin * (db.now - v.start)
            /\ get_allowed_withdraw(v, db.now) \in 0 .. v.balance
=============================================================================

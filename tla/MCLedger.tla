------------------------------ MODULE MCLedger ------------------------------
(* Instances of Ledger: the transactions that the accounts a to d send.  *)
EXTENDS Ledger, SequencesExt

Trx(name, expiration, ops) == [name |-> name, expiration |-> expiration, ops |-> ops]

Transfer(x, y, n) == [type |-> "transfer", from |-> x, to |-> y, amount |-> n]

Propose(x, ops, expiration, review) ==
    [type |-> "proposal_create", by |-> x, ops |-> ops,
     expiration |-> expiration, review |-> review]

Approve(x, id) ==
    [type |-> "proposal_update", by |-> x, id |-> id, add |-> {x}, remove |-> {}]

Withdraw(x, id) ==
    [type |-> "proposal_update", by |-> x, id |-> id, add |-> {}, remove |-> {x}]

Delete(x, id) == [type |-> "proposal_delete", by |-> x, id |-> id]

Lock(x, y, n, period) ==
    [type |-> "htlc_create", from |-> x, to |-> y, amount |-> n, preimage |-> "p", period |-> period]

Redeem(x, id, preimage) ==
    [type |-> "htlc_redeem", by |-> x, id |-> id, preimage |-> preimage]

Extend(x, id, n) == [type |-> "htlc_extend", by |-> x, id |-> id, seconds |-> n]

Permit(x, y, limit, start) ==
    [type |-> "withdraw_permission_create", from |-> x, to |-> y, limit |-> limit,
     period |-> 2, start |-> start, periods |-> 2]

Claim(x, y, id, n) ==
    [type |-> "withdraw_permission_claim", from |-> x, to |-> y, id |-> id, amount |-> n]

Repermit(x, y, id, limit, start) ==
    [type |-> "withdraw_permission_update", from |-> x, to |-> y, id |-> id, limit |-> limit,
     period |-> 2, start |-> start, periods |-> 1]

Revoke(x, y, id) == [type |-> "withdraw_permission_delete", from |-> x, to |-> y, id |-> id]

Vest(x, y, n, policy, start, seconds, cliff) ==
    [type |-> "vesting_balance_create", from |-> x, to |-> y, amount |-> n,
     policy |-> policy, start |-> start, seconds |-> seconds, cliff |-> cliff]

Take(x, id, n) == [type |-> "vesting_balance_withdraw", by |-> x, id |-> id, amount |-> n]

Invite(x) == [type |-> "player_invitation_create", by |-> x, key |-> <<x, "uid">>, lifetime |-> 2]

Cancel(x) == [type |-> "player_invitation_cancel", by |-> x, key |-> <<x, "uid">>]

Resolve(x, name) ==
    [type |-> "player_invitation_resolve", by |-> name, key |-> <<x, "uid">>, name |-> name]

-----------------------------------------------------------------------------
\* A proposal of two transfers, of which the second fails unless b is given
\* something first, and a second proposal that approves the first one.
Nested == {
    Trx("p1", 3, <<Propose("a", <<Transfer("a", "c", 1), Transfer("b", "c", 2)>>, 4, NoReview)>>),
    Trx("p2", 3, <<Propose("b", <<Approve("b", 1), Transfer("c", "b", 1)>>, 3, NoReview)>>),
    Trx("a1", 4, <<Approve("a", 1)>>),
    Trx("b1", 4, <<Approve("b", 1)>>),
    Trx("b2", 4, <<Approve("b", 2)>>),
    Trx("c2", 4, <<Approve("c", 2)>>),
    Trx("give", 4, <<Transfer("a", "b", 1)>>)}

\* A proposal that deletes the first one, which may be itself.
Deletes == {
    Trx("p1", 3, <<Propose("a", <<Transfer("a", "c", 1), Transfer("b", "c", 1)>>, 4, NoReview)>>),
    Trx("p2", 3, <<Propose("a", <<Delete("a", 1)>>, 4, NoReview)>>),
    Trx("a1", 4, <<Approve("a", 1)>>),
    Trx("b1", 4, <<Approve("b", 1)>>),
    Trx("a2", 4, <<Approve("a", 2)>>)}

\* A chain of proposals, each of which approves the one before: longer than may be nested.
Chain == {
    Trx("p1", 3, <<Propose("a", <<Transfer("a", "c", 1)>>, 4, NoReview)>>),
    Trx("p2", 3, <<Propose("a", <<Approve("a", 1)>>, 3, NoReview)>>),
    Trx("p3", 3, <<Propose("a", <<Approve("a", 2)>>, 3, NoReview)>>),
    Trx("a3", 4, <<Approve("a", 3)>>),
    Trx("no", 4, <<Withdraw("a", 1)>>)}

\* A reviewed proposal about a contract that expires at the same time.
Reviewed == {
    Trx("lock", 2, <<Lock("a", "b", 2, 3)>>),
    Trx("p1", 2, <<Propose("a", <<Extend("a", 1, 2), Transfer("b", "a", 1)>>, 3, 1)>>),
    Trx("a1", 4, <<Approve("a", 1)>>),
    Trx("b1", 4, <<Approve("b", 1)>>),
    Trx("no", 4, <<Withdraw("b", 1)>>),
    Trx("del", 4, <<Delete("b", 1)>>),
    Trx("redeem", 4, <<Redeem("b", 1, "p")>>),
    Trx("guess", 4, <<Redeem("c", 1, "q")>>)}

\* One of the committee, about a contract that expires at once, beside another one.
Contracts == {
    Trx("lock", 2, <<Lock("a", "b", 2, 3)>>),
    Trx("p1", 2, <<Propose("a", <<Extend("a", 1, 2), Transfer("b", "a", 1)>>, 3, 1)>>),
    Trx("a1", 4, <<Approve("a", 1)>>),
    Trx("b1", 4, <<Approve("b", 1)>>),
    Trx("p2", 2, <<Propose("a", <<Lock("d", "c", 1, 0)>>, 3, 1)>>),
    Trx("d2", 4, <<Approve("d", 2)>>),
    Trx("redeem", 4, <<Redeem("b", 1, "p")>>)}

\* A permission of two periods that is changed and revoked, and a proposal that
\* claims it.
Permits == {
    Trx("permit", 1, <<Permit("a", "b", 2, 1)>>),
    Trx("claim1", 4, <<Claim("a", "b", 1, 1)>>),
    Trx("claim2", 4, <<Claim("a", "b", 1, 1)>>),
    Trx("claim3", 5, <<Claim("a", "b", 1, 1)>>),
    Trx("more", 4, <<Repermit("a", "b", 1, 2, 3)>>),
    Trx("less", 4, <<Repermit("a", "b", 1, 1, 2)>>),
    Trx("revoke", 4, <<Revoke("a", "b", 1)>>),
    Trx("p1", 2, <<Propose("b", <<Claim("a", "b", 1, 2)>>, 3, NoReview)>>),
    Trx("b1", 4, <<Approve("b", 1)>>)}

Vestings == {
    Trx("cdd", 2, <<Vest("a", "b", 3, "cdd", 1, 4, 0)>>),
    Trx("linear", 2, <<Vest("b", "b", 2, "linear", 1, 3, 2)>>),
    Trx("instant", 2, <<Vest("b", "a", 1, "instant", 0, 0, 0)>>),
    Trx("take1", 5, <<Take("b", 1, 1)>>),
    Trx("take2", 5, <<Take("b", 1, 2)>>),
    Trx("take3", 5, <<Take("b", 2, 1)>>),
    Trx("take4", 5, <<Take("a", 3, 1)>>)}

Invitations == {
    Trx("invite", 3, <<Invite("a")>>),
    Trx("again", 5, <<Invite("a")>>),
    Trx("cancel", 5, <<Cancel("a")>>),
    Trx("join", 5, <<Resolve("a", "n")>>),
    Trx("join2", 5, <<Resolve("a", "n")>>),
    Trx("other", 5, <<Resolve("a", "m")>>),
    Trx("p1", 2, <<Propose("a", <<Invite("a"), Transfer("a", "b", 1)>>, 3, NoReview)>>),
    Trx("a1", 4, <<Approve("a", 1)>>)}

AllScenarios == {Nested, Deletes, Chain, Reviewed, Contracts, Permits, Vestings, Invitations}

\* The operations of the transactions, and those that they propose.
AllOperations ==
    LET sent == UNION {UNION {Range(t.ops) : t \in s} : s \in AllScenarios}
        Inside(ops) == UNION {Range(op.ops) : op \in {o \in ops : o.type = "proposal_create"}}
    IN  sent \cup Inside(sent) \cup Inside(Inside(sent))

FourAccounts == [a |-> 3, b |-> 1, c |-> 0, d |-> 1]
=============================================================================

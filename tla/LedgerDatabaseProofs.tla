------------------------ MODULE LedgerDatabaseProofs ------------------------
(***************************************************************************)
(* One database of Ledger: what makes it sound, and that every operation,  *)
(* every virtual operation and every step of the maintenance at the end of *)
(* a block keeps it so, moves the coins that the report of the block says, *)
(* and changes permissions and proposals only as they may change.          *)
(***************************************************************************)
EXTENDS Ledger, Sums

Fields ==
    {"now", "balance", "trxs", "members", "players", "htlcs", "permits", "vesting",
     "invitations", "proposals", "next_htlc", "next_permit", "next_vesting", "next_proposal"}

\* Objects are numbered in the order of their creation.
Keyed(objects, next) ==
    /\ next \in Nat
    /\ \A i \in DOMAIN objects : i \in Nat /\ i < next

HtlcOK(h) ==
    /\ DOMAIN h = {"from", "to", "amount", "preimage", "expiration"}
    /\ h.from \in Account /\ h.to \in Account
    /\ h.amount \in Nat /\ h.expiration \in Nat

HtlcsOK(htlcs, next) == Keyed(htlcs, next) /\ \A i \in DOMAIN htlcs : HtlcOK(htlcs[i])

\* What has been withdrawn and what can be withdrawn has vested.
CoinDaysOK(v, now) ==
    /\ v.earned <= v.balance * vesting_seconds(v)
    /\ v.earned + (v.begin - v.balance) * vesting_seconds(v)
          <= v.begin * (v.last_update - v.opened)
    /\ v.balance < v.begin => now > v.start

LinearOK(v, now) ==
    v.balance < v.begin =>
        /\ now > v.start /\ now >= v.start + v.cliff
        /\ (v.begin - v.balance) * v.seconds <= v.begin * (now - v.start)

VestingOK(v, now) ==
    /\ DOMAIN v = {"owner", "balance", "policy", "start", "seconds", "cliff", "begin",
                   "opened", "earned", "last_update"}
    /\ v.owner \in Account
    /\ v.policy \in {"instant", "cdd", "linear"}
    /\ v.start \in Nat /\ v.seconds \in Nat /\ v.cliff \in Nat /\ v.opened \in Nat
    /\ v.begin \in Nat /\ v.balance \in Nat /\ v.earned \in Nat /\ v.last_update \in Nat
    /\ v.balance <= v.begin
    /\ v.opened <= v.last_update /\ v.last_update <= now
    /\ v.policy = "cdd" => CoinDaysOK(v, now)
    /\ v.policy = "linear" => LinearOK(v, now)

VestingsOK(balances, next, now) ==
    Keyed(balances, next) /\ \A i \in DOMAIN balances : VestingOK(balances[i], now)

\* The claims that count against the limit: those of the period, and those made
\* now, which a period that the granting account starts now would have in common.
Counted(p, now) == {c \in p.claims : c[1] >= p.start \/ c[1] = now}

Claimed(claims) == Total([c \in claims |-> c[3]])

PermitOK(p, now) ==
    /\ DOMAIN p = {"from", "to", "limit", "period", "start", "expiration", "claimed", "claims"}
    /\ p.from \in Account /\ p.to \in Account /\ p.from # p.to
    /\ p.limit \in Nat /\ p.period \in Nat \ {0} /\ p.start \in Nat /\ p.claimed \in Nat
    /\ IsFiniteSet(p.claims)
    /\ \A c \in p.claims :
          /\ c[1] \in Nat /\ c[2] \in Nat /\ c[3] \in Nat
          /\ c[1] <= now /\ c[1] < p.start + p.period
          /\ c[2] <= Cardinality(p.claims)
    /\ Claimed(Counted(p, now)) <= p.claimed

PermitsOK(permits, next, now) ==
    Keyed(permits, next) /\ \A i \in DOMAIN permits : PermitOK(permits[i], now)

\* The operations update or delete proposals that are older than id only.
RefersTo(ops, id) ==
    \A k \in DOMAIN ops : ops[k].type \in {"proposal_update", "proposal_delete"} => id > ops[k].id

ProposalOK(id, p) ==
    /\ DOMAIN p = {"ops", "expiration", "required", "approvals", "reviewed", "review_time"}
    /\ p.ops \in Seq(Operations)
    /\ p.expiration \in Nat
    /\ RefersTo(p.ops, id)

ProposalsOK(proposals, next) ==
    Keyed(proposals, next) /\ \A i \in DOMAIN proposals : ProposalOK(i, proposals[i])

DatabaseOK(d) ==
    /\ DOMAIN d = Fields
    /\ d.now \in Nat
    /\ d.balance \in [Account -> Nat]
    /\ HtlcsOK(d.htlcs, d.next_htlc)
    /\ VestingsOK(d.vesting, d.next_vesting, d.now)
    /\ PermitsOK(d.permits, d.next_permit, d.now)
    /\ ProposalsOK(d.proposals, d.next_proposal)

Conserved(d) == Supply(d) = Total(Balances)

Virtual == [type : {"htlc_redeemed", "htlc_refund"}, to : Account, amount : Nat]

Reported == Operations \cup Virtual

\* The first n operations of the report explain how the balances have changed.
Accounted(report, n, a) == Total([i \in 1 .. n |-> Effect(report[i], a)])

Explained(before, balance, report, n) ==
    \A a \in Account : balance[a] = before[a] + Accounted(report, n, a)

Sound(d) == DatabaseOK(d) /\ Conserved(d)

\* Zenon proves the steps that name no other prover.
USE ZenonT(60)

-----------------------------------------------------------------------------
(* Sums over the domain of a function.                                       *)

SumOfAll(f) == SumOf(f, DOMAIN f)

\* Functions with integer values on a finite domain.
IntegerValued(f) == IsFiniteSet(DOMAIN f) /\ IntegerOn(f, DOMAIN f)

\* g is f with n more at x.
ChangedAt(f, g, x, n) ==
    /\ x \in DOMAIN f /\ DOMAIN g = DOMAIN f
    /\ g[x] = f[x] + n
    /\ \A y \in DOMAIN f : y # x => g[y] = f[y]

\* g is f with a value at x.
ExtendedAt(f, g, x) ==
    x \notin DOMAIN f /\ DOMAIN g = DOMAIN f \cup {x} /\ \A y \in DOMAIN f : f[y] = g[y]

\* The sum is an integer.
LEMMA AllInteger ==
    ASSUME NEW f, IntegerValued(f)
    PROVE  SumOfAll(f) \in Int
<1> QED BY SumInteger DEF IntegerValued, SumOfAll

\* One value changes.
LEMMA AllChange ==
    ASSUME NEW f, NEW g, NEW x, NEW n \in Int, IntegerValued(f), ChangedAt(f, g, x, n)
    PROVE  IntegerValued(g) /\ SumOfAll(g) = SumOfAll(f) + n
<1> DEFINE S == DOMAIN f
<1>1. IsFiniteSet(S) /\ IntegerOn(f, S) /\ x \in S
  BY DEF IntegerValued, ChangedAt
<1>2. g[x] = f[x] + n /\ \A y \in S : y # x => g[y] = f[y]
  BY DEF ChangedAt
<1>3. DOMAIN g = S
  BY DEF ChangedAt
<1> HIDE DEF S
<1>4. SumOf(g, S) = SumOf(f, S) + n
  BY <1>1, <1>2, SumChange, SMTT(30)
<1>5. IntegerOn(g, S)
  BY <1>1, <1>2, SMTT(30) DEF IntegerOn
<1> QED BY <1>1, <1>3, <1>4, <1>5 DEF SumOfAll, S, IntegerValued

\* One value is added.
LEMMA AllAdd ==
    ASSUME NEW f, NEW g, NEW x, IntegerValued(f), ExtendedAt(f, g, x), g[x] \in Int
    PROVE  IntegerValued(g) /\ SumOfAll(g) = SumOfAll(f) + g[x]
<1> DEFINE S == DOMAIN f
           T == S \cup {x}
<1>1. IsFiniteSet(S) /\ x \notin S /\ DOMAIN g = T /\ \A y \in S : f[y] = g[y]
  BY DEF IntegerValued, ExtendedAt
<1>2. IntegerOn(g, T)
  BY <1>1 DEF IntegerValued, IntegerOn
<1>3. IsFiniteSet(T)
  BY <1>1, FS_AddElement
<1>4. SumOfAll(f) = SumOf(f, S)
  BY DEF SumOfAll
<1> HIDE DEF S
<1>5. SumOf(g, T) = g[x] + SumOf(g, S)
  BY <1>1, <1>2, SumAdd
<1>6. SumOf(f, S) = SumOf(g, S)
  BY <1>1, SumCongruent
<1> HIDE DEF T
<1>7. SumOfAll(g) = SumOf(g, T)
  BY <1>1 DEF SumOfAll
<1>8. SumOfAll(f) \in Int
  BY AllInteger
<1>9. SumOfAll(g) = SumOfAll(f) + g[x]
  BY <1>4, <1>5, <1>6, <1>7, <1>8, SMTT(30)
<1> QED BY <1>1, <1>2, <1>3, <1>9 DEF IntegerValued

\* One value is taken away.
LEMMA AllRemove ==
    ASSUME NEW f, NEW g, NEW x, IntegerValued(g), ExtendedAt(f, g, x)
    PROVE  IntegerValued(f) /\ g[x] \in Int /\ SumOfAll(g) = SumOfAll(f) + g[x]
<1>1. IsFiniteSet(DOMAIN g) /\ DOMAIN f \subseteq DOMAIN g
  BY DEF ExtendedAt, IntegerValued
<1>2. IsFiniteSet(DOMAIN f)
  BY <1>1, FS_Subset
<1>3. IntegerOn(f, DOMAIN f) /\ g[x] \in Int
  BY DEF ExtendedAt, IntegerValued, IntegerOn
<1>4. IntegerValued(f)
  BY <1>2, <1>3 DEF IntegerValued
<1> QED BY <1>3, <1>4, AllAdd

\* A part of a sum of naturals.
NaturalValued(f) == IsFiniteSet(DOMAIN f) /\ \A x \in DOMAIN f : f[x] \in Nat

PartOf(g, f) == DOMAIN g \subseteq DOMAIN f /\ \A x \in DOMAIN g : g[x] = f[x]

\* A part of natural numbers has a smaller sum.
LEMMA AllPart ==
    ASSUME NEW f, NEW g, NaturalValued(f), PartOf(g, f)
    PROVE  SumOfAll(g) \in Nat /\ SumOfAll(f) \in Nat /\ SumOfAll(g) <= SumOfAll(f)
<1> DEFINE S == DOMAIN f
           T == DOMAIN g
           R == S \ T
<1>1. IsFiniteSet(S) /\ T \subseteq S /\ R \subseteq S
  BY DEF NaturalValued, PartOf
<1>2. IsFiniteSet(T) /\ IsFiniteSet(R)
  BY <1>1, FS_Subset
<1>3. (\A x \in S : f[x] \in Nat) /\ (\A x \in T : g[x] = f[x])
  BY DEF NaturalValued, PartOf
<1>4. IntegerOn(f, S)
  BY <1>3, SMTT(30) DEF IntegerOn
<1> HIDE DEF S, T
<1>5. SumOf(f, S) = SumOf(f, T) + SumOf(f, R)
  BY <1>1, <1>4, SumSplit, SMTT(30)
<1> HIDE DEF R
<1>6. SumOf(g, T) = SumOf(f, T)
  BY <1>2, <1>3, SumCongruent
<1>7. SumOf(f, T) \in Nat /\ SumOf(f, R) \in Nat
  BY <1>1, <1>2, <1>3, SumNatural, SMTT(30)
<1>8. SumOf(g, T) \in Nat /\ SumOf(f, S) \in Nat /\ SumOf(g, T) <= SumOf(f, S)
  BY <1>5, <1>6, <1>7, SMTT(30)
<1> QED BY <1>8 DEF SumOfAll, S, T

-----------------------------------------------------------------------------
(* Numbers.                                                                  *)

\* The larger of two numbers.
LEMMA LargerOfTwo ==
    ASSUME NEW a \in Int, NEW b \in Int
    PROVE  Max({a, b}) \in {a, b} /\ Max({a, b}) >= a /\ Max({a, b}) >= b
<1> DEFINE S == {a, b}
<1>1. \E x \in S : \A y \in S : x >= y
  BY SMTT(30)
<1>2. Max(S) \in S /\ \A y \in S : Max(S) >= y
  BY <1>1 DEF Max
<1> QED BY <1>2, SMTT(30)

\* The smaller of two numbers.
LEMMA SmallerOfTwo ==
    ASSUME NEW a \in Int, NEW b \in Int
    PROVE  Min({a, b}) \in {a, b} /\ Min({a, b}) <= a /\ Min({a, b}) <= b
<1> DEFINE S == {a, b}
<1>1. \E x \in S : \A y \in S : x <= y
  BY SMTT(30)
<1>2. Min(S) \in S /\ \A y \in S : Min(S) <= y
  BY <1>1 DEF Min
<1> QED BY <1>2, SMTT(30)

\* A quotient is rounded down.
LEMMA Quotient ==
    ASSUME NEW a \in Nat, NEW b \in Nat \ {0}
    PROVE  /\ a \div b \in Nat
           /\ (a \div b) * b <= a
           /\ a < (a \div b) * b + b
<1> QED BY SMTT(30)

\* The largest number of times that b fits into a.
LEMMA QuotientBound ==
    ASSUME NEW a \in Nat, NEW b \in Nat \ {0}, NEW n \in Nat, n * b <= a
    PROVE  n <= a \div b
<1> QED BY SMTT(30)

\* A factor that is not negative keeps the order.
LEMMA Monotone ==
    ASSUME NEW a \in Int, NEW b \in Int, NEW c \in Nat, a <= b
    PROVE  a * c <= b * c /\ c * a <= c * b
<1> QED BY SMTT(30)

\* A positive factor can be cancelled.
LEMMA CancelFactor ==
    ASSUME NEW a \in Int, NEW b \in Int, NEW c \in Nat \ {0}, a * c <= b * c
    PROVE  a <= b
<1> QED BY SMTT(30)

-----------------------------------------------------------------------------
(* Totals and parts of a database.                                           *)

\* A total is the sum over the domain.
LEMMA TotalIs ==
    ASSUME NEW f PROVE Total(f) = SumOfAll(f)
<1> QED BY DEF Total, SumOfAll, SumOf

\* The constants are what the code asserts of them.
LEMMA Constants ==
    /\ IsFiniteSet(Account)
    /\ Balances \in [Account -> Nat]
    /\ \A op \in Operations : validate(op)
<1> QED BY LedgerAssumption

\* There are finitely many objects.
LEMMA KeyedFinite ==
    ASSUME NEW objects, NEW next, Keyed(objects, next)
    PROVE  IsFiniteSet(DOMAIN objects)
<1>1. next \in Nat /\ DOMAIN objects \subseteq 0 .. next
  BY SMTT(30) DEF Keyed
<1>2. IsFiniteSet(0 .. next)
  BY <1>1, FS_Interval, SMTT(30)
<1> QED BY <1>1, <1>2, FS_Subset

\* The next number is a new one.
LEMMA NextIsNew ==
    ASSUME NEW objects, NEW next, Keyed(objects, next)
    PROVE  next \in Nat /\ next \notin DOMAIN objects
<1> QED BY SMTT(30) DEF Keyed

\* A new object has the next number.
LEMMA WithKeyed ==
    ASSUME NEW objects, NEW next, Keyed(objects, next), NEW o
    PROVE  Keyed(With(objects, next, o), next + 1)
<1> QED BY SMTT(30) DEF Keyed, With

\* Removing an object keeps the numbers of the others.
LEMMA WithoutKeyed ==
    ASSUME NEW objects, NEW next, Keyed(objects, next), NEW id
    PROVE  Keyed(Without(objects, id), next)
<1> QED BY DEF Keyed, Without

\* Balances, contracts and vesting balances have totals.
LEMMA Totals ==
    ASSUME NEW d, DatabaseOK(d)
    PROVE  /\ IntegerValued(d.balance)
           /\ IntegerValued(Locked(d.htlcs))
           /\ IntegerValued(Vesting(d.vesting))
<1>1. IntegerValued(d.balance)
  <2>1. d.balance \in [Account -> Nat]
    BY DEF DatabaseOK
  <2> QED BY <2>1, Constants, SMTT(30) DEF IntegerValued, IntegerOn
<1>2. IntegerValued(Locked(d.htlcs))
  <2>1. Keyed(d.htlcs, d.next_htlc) /\ \A i \in DOMAIN d.htlcs : d.htlcs[i].amount \in Nat
    BY DEF DatabaseOK, HtlcsOK, HtlcOK
  <2>2. IsFiniteSet(DOMAIN d.htlcs)
    BY <2>1, KeyedFinite
  <2> QED BY <2>1, <2>2, SMTT(30) DEF IntegerValued, IntegerOn, Locked
<1>3. IntegerValued(Vesting(d.vesting))
  <2>1. /\ Keyed(d.vesting, d.next_vesting)
        /\ \A i \in DOMAIN d.vesting : d.vesting[i].balance \in Nat
    BY DEF DatabaseOK, VestingsOK, VestingOK
  <2>2. IsFiniteSet(DOMAIN d.vesting)
    BY <2>1, KeyedFinite
  <2> QED BY <2>1, <2>2, SMTT(30) DEF IntegerValued, IntegerOn, Vesting
<1> QED BY <1>1, <1>2, <1>3

\* The supply, as three integers.
LEMMA SupplyIs ==
    ASSUME NEW d, DatabaseOK(d)
    PROVE  /\ Total(d.balance) \in Int
           /\ Total(Locked(d.htlcs)) \in Int
           /\ Total(Vesting(d.vesting)) \in Int
           /\ Supply(d) = Total(d.balance) + Total(Locked(d.htlcs)) + Total(Vesting(d.vesting))
<1> QED BY Totals, TotalIs, AllInteger DEF Supply

\* Adding n to the balance of an account.
Adjusted(b, a, n, c) == c = [b EXCEPT ![a] = @ + n]

Payment(b, a, n, c) ==
    /\ c \in [Account -> Nat]
    /\ Total(c) = Total(b) + n
    /\ c[a] = b[a] + n
    /\ \A x \in Account : x # a => c[x] = b[x]

\* adjust_balance with enough on the account is a payment.
LEMMA Paid ==
    ASSUME NEW b \in [Account -> Nat], NEW a \in Account, NEW n \in Int, b[a] + n >= 0,
           NEW c, Adjusted(b, a, n, c)
    PROVE  Payment(b, a, n, c)
<1>1. c \in [Account -> Nat] /\ c[a] = b[a] + n /\ \A x \in Account : x # a => c[x] = b[x]
  BY SMTT(30) DEF Adjusted
<1>2. ChangedAt(b, c, a, n)
  BY <1>1 DEF ChangedAt
<1>3. IntegerValued(b)
  BY Constants, SMTT(30) DEF IntegerValued, IntegerOn
<1>4. SumOfAll(c) = SumOfAll(b) + n
  BY <1>2, <1>3, AllChange
<1> QED BY <1>1, <1>4, TotalIs DEF Payment

-----------------------------------------------------------------------------
(* What an evaluator may change.                                             *)

\* The time, the list against duplicates and the record as such are the same.
SameFrame(d, e) == DOMAIN e = Fields /\ e.now = d.now /\ e.trxs = d.trxs

SameHtlcs(d, e) == e.htlcs = d.htlcs /\ e.next_htlc = d.next_htlc

SameVesting(d, e) == e.vesting = d.vesting /\ e.next_vesting = d.next_vesting

SamePermits(d, e) == e.permits = d.permits /\ e.next_permit = d.next_permit

SameProposals(d, e) == e.proposals = d.proposals /\ e.next_proposal = d.next_proposal

\* Of the proposals only one that the operation updates or deletes changes.
ProposalKept(d, e, op, id) ==
    LET p == d.proposals[id]
        q == e.proposals[id]
    IN  IF id \in DOMAIN e.proposals
        THEN /\ q.reviewed = p.reviewed /\ q.expiration = p.expiration
             /\ p.reviewed /\ d.now >= p.review_time => q.approvals \subseteq p.approvals
        ELSE op.type = "proposal_delete" /\ op.id = id /\ op.by \in p.required

ProposalsKept(d, e, op) == \A id \in DOMAIN d.proposals : ProposalKept(d, e, op, id)

\* The claims of the current period do not exceed the limit.
ClaimsWithin(d, e) ==
    \A i \in DOMAIN d.permits \cap DOMAIN e.permits :
        e.permits[i].claims # d.permits[i].claims => Within(e.permits[i])

\* The balances change as the operation and what it reports say.
Moved(b, c, op, virtual) ==
    \/ virtual = <<>> /\ \A a \in Account : c[a] = b[a] + Effect(op, a)
    \/ \E v \in Virtual : virtual = <<v>> /\
           \A a \in Account : c[a] = b[a] + Effect(op, a) + Effect(v, a)

Executes(r, op) ==
    r.executes # {} =>
        /\ r.executes = {op.id} /\ op.type = "proposal_update"
        /\ op.id \in DOMAIN r.db.proposals /\ ~ r.db.proposals[op.id].reviewed

Evaluation(d, r, op) ==
    /\ DatabaseOK(r.db)
    /\ Supply(r.db) = Supply(d)
    /\ r.db.now = d.now /\ r.db.trxs = d.trxs
    /\ Moved(d.balance, r.db.balance, op, r.virtual)
    /\ ProposalsKept(d, r.db, op)
    /\ ClaimsWithin(d, r.db)
    /\ Executes(r, op)

\* The operations of these types, when they are applied.
AreEvaluated(types) ==
    \A d : DatabaseOK(d) =>
        \A op \in Operations : evaluate(d, op).ok /\ op.type \in types =>
            Evaluation(d, evaluate(d, op), op)

\* What an operation leaves alone is as it was.
LEMMA PartsKept ==
    ASSUME NEW d, NEW e, DatabaseOK(d), SameFrame(d, e)
    PROVE  /\ DOMAIN e = Fields /\ e.now \in Nat
           /\ SameHtlcs(d, e) => HtlcsOK(e.htlcs, e.next_htlc)
           /\ SameVesting(d, e) => VestingsOK(e.vesting, e.next_vesting, e.now)
           /\ SamePermits(d, e) => PermitsOK(e.permits, e.next_permit, e.now)
           /\ SameProposals(d, e) => ProposalsOK(e.proposals, e.next_proposal)
<1>1. DOMAIN e = Fields /\ e.now \in Nat
  BY DEF DatabaseOK, SameFrame
<1>2. SameHtlcs(d, e) => HtlcsOK(e.htlcs, e.next_htlc)
  BY DEF DatabaseOK, SameHtlcs
<1>3. SameVesting(d, e) => VestingsOK(e.vesting, e.next_vesting, e.now)
  BY DEF DatabaseOK, SameFrame, SameVesting
<1>4. SamePermits(d, e) => PermitsOK(e.permits, e.next_permit, e.now)
  BY DEF DatabaseOK, SameFrame, SamePermits
<1>5. SameProposals(d, e) => ProposalsOK(e.proposals, e.next_proposal)
  BY DEF DatabaseOK, SameProposals
<1> QED BY <1>1, <1>2, <1>3, <1>4, <1>5

\* Nothing happens to proposals and permissions that are the same.
LEMMA SameKept ==
    ASSUME NEW d, NEW e, NEW op
    PROVE  /\ SameProposals(d, e) => ProposalsKept(d, e, op)
           /\ SamePermits(d, e) => ClaimsWithin(d, e)
<1>1. SameProposals(d, e) => ProposalsKept(d, e, op)
  BY DEF ProposalsKept, ProposalKept, SameProposals
<1> QED BY <1>1 DEF ClaimsWithin, SamePermits

\* How the operations in a report change the balance of a.
Transfers == {"transfer", "withdraw_permission_claim"}

Payments == {"htlc_create", "vesting_balance_create"}

Receipts == {"htlc_redeemed", "htlc_refund"}

Movements == Transfers \cup Payments \cup Receipts \cup {"vesting_balance_withdraw"}

Gain(a, x, y, n) == (IF a = y THEN n ELSE 0) - (IF a = x THEN n ELSE 0)

\* A transfer and a claim of a permission move an amount between two accounts.
LEMMA EffectOfTransfer ==
    ASSUME NEW op, NEW a, op.type \in Transfers
    PROVE  Effect(op, a) = Gain(a, op.from, op.to, op.amount)
<1> QED BY DEF Effect, Gain, Transfers

\* A new contract or vesting balance takes an amount from an account.
LEMMA EffectOfPayment ==
    ASSUME NEW op, NEW a, op.type \in Payments
    PROVE  Effect(op, a) = IF a = op.from THEN -op.amount ELSE 0
<1> QED BY DEF Effect, Payments

\* A contract that is redeemed or refunded pays an amount to an account.
LEMMA EffectOfReceipt ==
    ASSUME NEW op, NEW a, op.type \in Receipts
    PROVE  Effect(op, a) = IF a = op.to THEN op.amount ELSE 0
<1> QED BY DEF Effect, Receipts

\* A withdrawal from a vesting balance pays its owner.
LEMMA EffectOfWithdrawal ==
    ASSUME NEW op, NEW a, op.type = "vesting_balance_withdraw"
    PROVE  Effect(op, a) = IF a = op.by THEN op.amount ELSE 0
<1> QED BY DEF Effect

\* Other operations move nothing.
LEMMA NoEffect ==
    ASSUME NEW op, NEW a, op.type \notin Movements
    PROVE  Effect(op, a) = 0
<1> QED BY DEF Effect, Movements, Transfers, Payments, Receipts

\* What an amount, a transfer or a contract is.
LEMMA Amounts ==
    ASSUME NEW op \in Operations
    PROVE  /\ op.type \in HasAmount => op.amount \in Nat
           /\ op.type \in {"transfer", "htlc_create", "vesting_balance_create"} =>
                 op.from \in Account /\ op.to \in Account
<1> QED BY Constants DEF validate

\* The balances, contracts and vesting balances are as they were.
LEMMA SameSupply ==
    ASSUME NEW d, NEW e, e.balance = d.balance, e.htlcs = d.htlcs, e.vesting = d.vesting
    PROVE  Supply(e) = Supply(d)
<1> QED BY DEF Supply

\* So the balances are explained when they stay as they are.
LEMMA NotMoved ==
    ASSUME NEW b \in [Account -> Nat], NEW op, op.type \notin Movements
    PROVE  Moved(b, b, op, <<>>)
<1>1. \A a \in Account : Effect(op, a) = 0
  BY NoEffect
<1>2. \A a \in Account : b[a] = b[a] + Effect(op, a)
  BY <1>1, SMTT(30)
<1> QED BY <1>2 DEF Moved

\* A payment is what the report says of it.
LEMMA PaymentMoves ==
    ASSUME NEW b \in [Account -> Nat], NEW e, NEW op, op.type \in Payments, op.amount \in Nat,
           NEW m, m = -op.amount, Payment(b, op.from, m, e)
    PROVE  Moved(b, e, op, <<>>)
<1>1. ASSUME NEW a \in Account PROVE e[a] = b[a] + Effect(op, a)
  <2>1. Effect(op, a) = IF a = op.from THEN -op.amount ELSE 0
    BY EffectOfPayment
  <2>2. e[op.from] = b[op.from] + m /\ (a # op.from => e[a] = b[a])
    BY DEF Payment
  <2> QED BY <2>1, <2>2, SMTT(30)
<1> QED BY <1>1 DEF Moved

\* An evaluator that moves nothing.
LEMMA Unmoved ==
    ASSUME NEW d, DatabaseOK(d), NEW e, DatabaseOK(e), NEW op, op.type \notin Movements,
           e.balance = d.balance, Locked(e.htlcs) = Locked(d.htlcs), SameVesting(d, e)
    PROVE  Supply(e) = Supply(d) /\ Moved(d.balance, e.balance, op, <<>>)
<1>1. d.balance \in [Account -> Nat]
  BY DEF DatabaseOK
<1>2. Moved(d.balance, e.balance, op, <<>>)
  BY <1>1, NotMoved
<1> QED BY <1>2 DEF Supply, SameVesting

-----------------------------------------------------------------------------
(* Transfers and contracts.                                                  *)

\* From one account to another.
TransferOf(b, x, y, n, e) ==
    /\ e \in [Account -> Nat]
    /\ Total(e) = Total(b)
    /\ \A a \in Account : e[a] = b[a] + Gain(a, x, y, n)

\* Two adjustments of opposite amounts are a transfer, which keeps the total.
LEMMA Transferred ==
    ASSUME NEW b \in [Account -> Nat], NEW x \in Account, NEW y \in Account, x # y,
           NEW n \in Nat, b[x] >= n, NEW m, m = -n,
           NEW c, Adjusted(b, x, m, c),
           NEW e, Adjusted(c, y, n, e)
    PROVE  TransferOf(b, x, y, n, e)
<1>1. m \in Int /\ b[x] + m >= 0
  BY SMTT(30)
<1>2. /\ c \in [Account -> Nat] /\ Total(c) = Total(b) + m
      /\ c[x] = b[x] + m /\ \A a \in Account : a # x => c[a] = b[a]
  <2>1. Payment(b, x, m, c)
    BY <1>1, Paid
  <2> QED BY <2>1 DEF Payment
<1>3. n \in Int /\ c[y] + n >= 0
  BY <1>2, SMTT(30)
<1>4. /\ e \in [Account -> Nat] /\ Total(e) = Total(c) + n
      /\ e[y] = c[y] + n /\ \A a \in Account : a # y => e[a] = c[a]
  <2>1. Payment(c, y, n, e)
    BY <1>2, <1>3, Paid
  <2> QED BY <2>1 DEF Payment
<1>5. Total(b) \in Int
  <2>1. IntegerValued(b)
    BY Constants, SMTT(30) DEF IntegerValued, IntegerOn
  <2> QED BY <2>1, TotalIs, AllInteger
<1>6. Total(e) = Total(b)
  BY <1>2, <1>4, <1>5, SMTT(30)
<1>7. ASSUME NEW a \in Account
      PROVE  e[a] = b[a] + Gain(a, x, y, n)
  BY <1>2, <1>4, SMTT(30) DEF Gain
<1> QED BY <1>4, <1>6, <1>7 DEF TransferOf

\* A transfer is what the report says of it.
LEMMA TransferMoves ==
    ASSUME NEW b, NEW e, NEW op, op.type \in Transfers,
           TransferOf(b, op.from, op.to, op.amount, e)
    PROVE  Moved(b, e, op, <<>>)
<1>1. \A a \in Account : Effect(op, a) = Gain(a, op.from, op.to, op.amount)
  BY EffectOfTransfer
<1>2. \A a \in Account : e[a] = b[a] + Gain(a, op.from, op.to, op.amount)
  BY DEF TransferOf
<1>3. \A a \in Account : e[a] = b[a] + Effect(op, a)
  BY <1>1, <1>2
<1> QED BY <1>3 DEF Moved

\* transfer_evaluator
LEMMA TransferEvaluated ==
    ASSUME NEW d, DatabaseOK(d), NEW op \in Operations, op.type = "transfer", transfer(d, op).ok
    PROVE  Evaluation(d, transfer(d, op), op)
<1> DEFINE r == transfer(d, op)
           m == -op.amount
           c == [d.balance EXCEPT ![op.from] = @ + m]
           e == adjust_balance(adjust_balance(d, op.from, m), op.to, op.amount)
<1>1. /\ d.balance[op.from] >= op.amount
      /\ r.db = e /\ r.virtual = <<>> /\ r.executes = {}
  BY DEF transfer, Check, Ok, Failed
<1>2. op.from \in Account /\ op.to \in Account /\ op.from # op.to /\ op.amount \in Nat
  <2>1. op.from # op.to
    BY Constants DEF validate
  <2> QED BY <2>1, Amounts DEF HasAmount
<1>3. d.balance \in [Account -> Nat] /\ DOMAIN d = Fields
  BY DEF DatabaseOK
<1>4. /\ SameFrame(d, e) /\ SameHtlcs(d, e) /\ SameVesting(d, e)
      /\ SamePermits(d, e) /\ SameProposals(d, e)
  BY <1>3 DEF SameFrame, SameHtlcs, SameVesting, SamePermits, SameProposals,
                    Fields, adjust_balance
<1>5. Adjusted(d.balance, op.from, m, c) /\ Adjusted(c, op.to, op.amount, e.balance)
  BY <1>3 DEF adjust_balance, Fields, Adjusted
<1>6. m = -op.amount
  BY SMTT(30)
<1> HIDE DEF c, e, m, r
<1>7. TransferOf(d.balance, op.from, op.to, op.amount, e.balance)
  BY <1>1, <1>2, <1>3, <1>5, <1>6, Transferred
<1>8. Moved(d.balance, e.balance, op, <<>>)
  <2>1. op.type \in Transfers
    BY DEF Transfers
  <2> QED BY <1>7, <2>1, TransferMoves
<1>9. DatabaseOK(e)
  BY <1>4, <1>7, PartsKept DEF DatabaseOK, TransferOf
<1>10. Supply(e) = Supply(d)
  BY <1>4, <1>7 DEF Supply, SameHtlcs, SameVesting, TransferOf
<1>11. ProposalsKept(d, e, op) /\ ClaimsWithin(d, e)
  BY <1>4, SameKept
<1> QED BY <1>1, <1>4, <1>8, <1>9, <1>10, <1>11 DEF Evaluation, Executes, SameFrame, r

\* A contract is added, redeemed or refunded, or extended.
LEMMA LockedFor ==
    ASSUME NEW hs, NEW next, HtlcsOK(hs, next)
    PROVE  IntegerValued(Locked(hs)) /\ DOMAIN Locked(hs) = DOMAIN hs
<1>1. Keyed(hs, next) /\ \A i \in DOMAIN hs : hs[i].amount \in Nat
  BY DEF HtlcsOK, HtlcOK
<1>2. IsFiniteSet(DOMAIN hs)
  BY <1>1, KeyedFinite
<1> QED BY <1>1, <1>2, SMTT(30) DEF IntegerValued, IntegerOn, Locked

\* A contract that is removed releases its amount.
LEMMA HtlcRemoved ==
    ASSUME NEW hs, NEW next, HtlcsOK(hs, next), NEW id \in DOMAIN hs
    PROVE  /\ HtlcsOK(Without(hs, id), next)
           /\ Total(Locked(Without(hs, id))) \in Int
           /\ Total(Locked(hs)) = Total(Locked(Without(hs, id))) + hs[id].amount
<1> DEFINE new == Without(hs, id)
<1>1. HtlcsOK(new, next)
  <2>1. Keyed(new, next)
    BY WithoutKeyed DEF HtlcsOK
  <2> QED BY <2>1 DEF HtlcsOK, Without
<1>2. ExtendedAt(Locked(new), Locked(hs), id) /\ Locked(hs)[id] = hs[id].amount
  BY DEF ExtendedAt, Locked, Without
<1> HIDE DEF new
<1>3. SumOfAll(Locked(hs)) = SumOfAll(Locked(new)) + Locked(hs)[id]
  <2>1. IntegerValued(Locked(hs))
    BY LockedFor
  <2> QED BY <1>2, <2>1, AllRemove
<1>4. SumOfAll(Locked(new)) \in Int
  BY <1>1, LockedFor, AllInteger
<1> QED BY <1>1, <1>2, <1>3, <1>4, TotalIs DEF new

ExtendedBy(hs, id, n) == [hs EXCEPT ![id].expiration = @ + n]

\* The three operations on contracts.
LEMMA HtlcsEvaluated ==
    AreEvaluated({"htlc_create", "htlc_redeem", "htlc_extend"})

\* A new contract locks its amount.
<1>HtlcAdded. ASSUME NEW hs, NEW next, HtlcsOK(hs, next), NEW h, HtlcOK(h)
              PROVE  /\ HtlcsOK(With(hs, next, h), next + 1)
                     /\ Total(Locked(With(hs, next, h))) = Total(Locked(hs)) + h.amount
  <2> USE <1>HtlcAdded
  <2> DEFINE new == With(hs, next, h)
  <2>1. Keyed(hs, next) /\ next \notin DOMAIN hs
    BY NextIsNew DEF HtlcsOK
  <2>2. HtlcsOK(new, next + 1)
    <3>1. Keyed(new, next + 1)
      BY <2>1, WithKeyed
    <3> QED BY <3>1 DEF HtlcsOK, With
  <2>3. ExtendedAt(Locked(hs), Locked(new), next) /\ Locked(new)[next] = h.amount
    BY <2>1 DEF ExtendedAt, Locked, With
  <2> HIDE DEF new
  <2>4. Locked(new)[next] \in Int
    BY <2>3, SMTT(30) DEF HtlcOK
  <2>5. SumOfAll(Locked(new)) = SumOfAll(Locked(hs)) + Locked(new)[next]
    <3>1. IntegerValued(Locked(hs))
      BY LockedFor
    <3> QED BY <2>3, <2>4, <3>1, AllAdd, SMTT(30)
  <2> QED BY <2>2, <2>3, <2>5, TotalIs DEF new

\* An extension changes the expiration only.
<1>HtlcExtended.
      ASSUME NEW hs, NEW next, HtlcsOK(hs, next), NEW id \in DOMAIN hs, NEW n \in Nat
      PROVE  /\ HtlcsOK(ExtendedBy(hs, id, n), next)
             /\ Locked(ExtendedBy(hs, id, n)) = Locked(hs)
  <2> USE <1>HtlcExtended
  <2> DEFINE new == [hs EXCEPT ![id].expiration = @ + n]
  <2>1. Keyed(new, next)
    BY DEF HtlcsOK, Keyed
  <2>2. HtlcOK(hs[id]) /\ hs[id].expiration + n \in Nat
    BY SMTT(30) DEF HtlcsOK, HtlcOK
  <2>3. HtlcOK(new[id]) /\ new[id].amount = hs[id].amount
    BY <2>2 DEF HtlcOK
  <2>4. \A i \in DOMAIN hs : i # id => new[i] = hs[i]
    OBVIOUS
  <2>5. DOMAIN new = DOMAIN hs
    OBVIOUS
  <2>6. Locked(new) = Locked(hs)
    BY <2>3, <2>4, <2>5 DEF Locked
  <2> QED BY <2>1, <2>3, <2>4, <2>5, <2>6 DEF HtlcsOK, ExtendedBy

\* htlc_create_evaluator
<1>HtlcCreateEvaluated.
      ASSUME NEW d, DatabaseOK(d), NEW op \in Operations, op.type = "htlc_create",
             htlc_create(d, op).ok
      PROVE  Evaluation(d, htlc_create(d, op), op)
  <2> USE <1>HtlcCreateEvaluated
  <2> DEFINE r == htlc_create(d, op)
             m == -op.amount
             h == [from |-> op.from, to |-> op.to, amount |-> op.amount, preimage |-> op.preimage,
                   expiration |-> d.now + op.period]
             e == [adjust_balance(d, op.from, m) EXCEPT
                      !.htlcs = With(@, d.next_htlc, h), !.next_htlc = @ + 1]
  <2>1. /\ d.balance[op.from] >= op.amount
        /\ r.db = e /\ r.virtual = <<>> /\ r.executes = {}
    BY DEF htlc_create, Check, Ok, Failed
  <2>2. op.from \in Account /\ op.to \in Account /\ op.amount \in Nat /\ op.period \in Nat
    <3>1. op.period \in Nat
      BY Constants DEF validate
    <3> QED BY <3>1, Amounts DEF HasAmount
  <2>3. d.balance \in [Account -> Nat] /\ DOMAIN d = Fields /\ d.now \in Nat
        /\ HtlcsOK(d.htlcs, d.next_htlc)
    BY DEF DatabaseOK
  <2>4. HtlcOK(h)
    BY <2>2, <2>3, SMTT(30) DEF HtlcOK
  <2>5. h.amount = op.amount
    BY SMTT(30)
  <2> HIDE DEF h
  <2>6. SameFrame(d, e) /\ SameVesting(d, e) /\ SamePermits(d, e) /\ SameProposals(d, e)
    BY <2>3 DEF SameFrame, SameVesting, SamePermits, SameProposals, Fields, adjust_balance
  <2>7. /\ Adjusted(d.balance, op.from, m, e.balance)
        /\ e.htlcs = With(d.htlcs, d.next_htlc, h) /\ e.next_htlc = d.next_htlc + 1
    BY <2>3 DEF adjust_balance, Fields, Adjusted
  <2>8. m = -op.amount /\ m \in Int /\ d.balance[op.from] + m >= 0
    BY <2>1, <2>2, <2>3, SMTT(30)
  <2> HIDE DEF e, m, r
  <2>9. Payment(d.balance, op.from, m, e.balance)
    BY <2>2, <2>3, <2>7, <2>8, Paid
  <2>10. /\ HtlcsOK(e.htlcs, e.next_htlc)
         /\ Total(Locked(e.htlcs)) = Total(Locked(d.htlcs)) + op.amount
    <3>1. /\ HtlcsOK(With(d.htlcs, d.next_htlc, h), d.next_htlc + 1)
          /\ Total(Locked(With(d.htlcs, d.next_htlc, h))) = Total(Locked(d.htlcs)) + h.amount
      BY <2>3, <2>4, <1>HtlcAdded
    <3> QED BY <2>5, <2>7, <3>1
  <2>11. Moved(d.balance, e.balance, op, <<>>)
    <3>1. op.type \in Payments
      BY DEF Payments
    <3> QED BY <2>2, <2>3, <2>8, <2>9, <3>1, PaymentMoves
  <2>12. DatabaseOK(e)
    BY <2>6, <2>9, <2>10, PartsKept DEF DatabaseOK, Payment
  <2>13. Supply(e) = Supply(d)
    <3>1. /\ Total(e.balance) = Total(d.balance) + m
          /\ Total(Vesting(e.vesting)) = Total(Vesting(d.vesting))
      BY <2>6, <2>9 DEF Payment, SameVesting
    <3> QED BY <2>2, <2>8, <2>10, <2>12, <3>1, SupplyIs, SMTT(30)
  <2>14. ProposalsKept(d, e, op) /\ ClaimsWithin(d, e)
    BY <2>6, SameKept
  <2> QED BY <2>1, <2>6, <2>11, <2>12, <2>13, <2>14 DEF Evaluation, Executes, SameFrame, r

\* htlc_redeem_evaluator, which reports a virtual operation for the payment
<1>HtlcRedeemEvaluated.
      ASSUME NEW d, DatabaseOK(d), NEW op \in Operations, op.type = "htlc_redeem",
             htlc_redeem(d, op).ok
      PROVE  Evaluation(d, htlc_redeem(d, op), op)
  <2> USE <1>HtlcRedeemEvaluated
  <2> DEFINE r == htlc_redeem(d, op)
             h == d.htlcs[op.id]
             v == [type |-> "htlc_redeemed", to |-> h.to, amount |-> h.amount]
             e == [adjust_balance(d, h.to, h.amount) EXCEPT !.htlcs = Without(@, op.id)]
  <2>1. op.id \in DOMAIN d.htlcs
    BY DEF htlc_redeem, Failed
  <2>2. r = [Ok(e) EXCEPT !.virtual = <<v>>]
    BY <2>1 DEF htlc_redeem, Failed
  <2>3. r.db = e /\ r.virtual = <<v>> /\ r.executes = {}
    BY <2>2 DEF Ok
  <2>4. /\ d.balance \in [Account -> Nat] /\ DOMAIN d = Fields
        /\ HtlcsOK(d.htlcs, d.next_htlc)
    BY DEF DatabaseOK
  <2>5. h.to \in Account /\ h.amount \in Nat
    BY <2>1, <2>4 DEF HtlcsOK, HtlcOK
  <2>6. v \in Virtual /\ v.type \in Receipts /\ v.to = h.to /\ v.amount = h.amount
    BY <2>5, SMTT(30) DEF Virtual, Receipts
  <2> HIDE DEF v, h, r
  <2>7. SameFrame(d, e) /\ SameVesting(d, e) /\ SamePermits(d, e) /\ SameProposals(d, e)
    BY <2>4 DEF SameFrame, SameVesting, SamePermits, SameProposals, Fields, adjust_balance
  <2>8. /\ Adjusted(d.balance, h.to, h.amount, e.balance)
        /\ e.htlcs = Without(d.htlcs, op.id) /\ e.next_htlc = d.next_htlc
    BY <2>4 DEF adjust_balance, Fields, Adjusted
  <2> HIDE DEF e
  <2>9. h.amount \in Int /\ d.balance[h.to] + h.amount >= 0
    BY <2>4, <2>5, SMTT(30)
  <2>10. Payment(d.balance, h.to, h.amount, e.balance)
    BY <2>4, <2>5, <2>8, <2>9, Paid
  <2>11. /\ HtlcsOK(e.htlcs, e.next_htlc)
         /\ Total(Locked(e.htlcs)) \in Int
         /\ Total(Locked(d.htlcs)) = Total(Locked(e.htlcs)) + h.amount
    <3> DEFINE new == Without(d.htlcs, op.id)
    <3>1. /\ HtlcsOK(new, d.next_htlc)
          /\ Total(Locked(new)) \in Int
          /\ Total(Locked(d.htlcs)) = Total(Locked(new)) + d.htlcs[op.id].amount
      BY <2>1, <2>4, HtlcRemoved
    <3> QED BY <2>8, <3>1 DEF h
  <2>12. Moved(d.balance, e.balance, op, <<v>>)
    <3>1. op.type \notin Movements
      BY DEF Movements, Transfers, Payments, Receipts
    <3>2. ASSUME NEW a \in Account
          PROVE  e.balance[a] = d.balance[a] + Effect(op, a) + Effect(v, a)
      <4>1. Effect(op, a) = 0 /\ Effect(v, a) = IF a = v.to THEN v.amount ELSE 0
        BY <2>6, <3>1, NoEffect, EffectOfReceipt
      <4>2. /\ e.balance[h.to] = d.balance[h.to] + h.amount
            /\ a # h.to => e.balance[a] = d.balance[a]
        BY <2>10 DEF Payment
      <4> QED BY <2>4, <2>5, <2>6, <4>1, <4>2, SMTT(30)
    <3> QED BY <2>6, <3>2 DEF Moved
  <2>13. DatabaseOK(e)
    BY <2>7, <2>10, <2>11, PartsKept DEF DatabaseOK, Payment
  <2>14. Supply(e) = Supply(d)
    <3>1. /\ Total(e.balance) = Total(d.balance) + h.amount
          /\ Total(Vesting(e.vesting)) = Total(Vesting(d.vesting))
      BY <2>7, <2>10 DEF Payment, SameVesting
    <3> QED BY <2>5, <2>11, <2>13, <3>1, SupplyIs, SMTT(30)
  <2>15. ProposalsKept(d, e, op) /\ ClaimsWithin(d, e)
    BY <2>7, SameKept
  <2> QED BY <2>3, <2>7, <2>12, <2>13, <2>14, <2>15 DEF Evaluation, Executes, SameFrame, r

\* htlc_extend_evaluator
<1>HtlcExtendEvaluated.
      ASSUME NEW d, DatabaseOK(d), NEW op \in Operations, op.type = "htlc_extend",
             htlc_extend(d, op).ok
      PROVE  Evaluation(d, htlc_extend(d, op), op)
  <2> USE <1>HtlcExtendEvaluated
  <2> DEFINE r == htlc_extend(d, op)
             e == [d EXCEPT !.htlcs[op.id].expiration = @ + op.seconds]
  <2>1. op.id \in DOMAIN d.htlcs
    BY DEF htlc_extend, Failed
  <2>2. r.db = e /\ r.virtual = <<>> /\ r.executes = {}
    BY <2>1 DEF htlc_extend, Check, Ok, Failed
  <2>3. op.seconds \in Nat
    BY Constants DEF validate
  <2>4. /\ d.balance \in [Account -> Nat] /\ DOMAIN d = Fields
        /\ HtlcsOK(d.htlcs, d.next_htlc)
    BY DEF DatabaseOK
  <2>5. /\ SameFrame(d, e) /\ SameVesting(d, e) /\ SamePermits(d, e) /\ SameProposals(d, e)
        /\ e.balance = d.balance /\ e.next_htlc = d.next_htlc
    BY <2>4 DEF SameFrame, SameVesting, SamePermits, SameProposals, Fields
  <2>6. e.htlcs = [d.htlcs EXCEPT ![op.id].expiration = @ + op.seconds]
    BY <2>4 DEF Fields
  <2> HIDE DEF e, r
  <2>7. HtlcsOK(e.htlcs, d.next_htlc) /\ Locked(e.htlcs) = Locked(d.htlcs)
    <3> DEFINE new == ExtendedBy(d.htlcs, op.id, op.seconds)
    <3>1. HtlcsOK(new, d.next_htlc) /\ Locked(new) = Locked(d.htlcs)
      BY <2>1, <2>3, <2>4, <1>HtlcExtended
    <3> QED BY <2>6, <3>1 DEF ExtendedBy
  <2>8. DatabaseOK(e)
    BY <2>4, <2>5, <2>7, PartsKept DEF DatabaseOK
  <2>9. op.type \notin Movements
    BY DEF Movements, Transfers, Payments, Receipts
  <2>10. Supply(e) = Supply(d) /\ Moved(d.balance, e.balance, op, <<>>)
    BY <2>5, <2>7, <2>8, <2>9, Unmoved
  <2>11. ProposalsKept(d, e, op) /\ ClaimsWithin(d, e)
    BY <2>5, SameKept
  <2> QED BY <2>2, <2>5, <2>8, <2>10, <2>11 DEF Evaluation, Executes, SameFrame, r

<1> SUFFICES ASSUME NEW d, DatabaseOK(d), NEW op \in Operations, evaluate(d, op).ok,
                    op.type \in {"htlc_create", "htlc_redeem", "htlc_extend"}
             PROVE  Evaluation(d, evaluate(d, op), op)
  BY DEF AreEvaluated
<1>1. CASE op.type = "htlc_create"
  <2>1. evaluate(d, op) = htlc_create(d, op)
    BY <1>1 DEF evaluate
  <2> QED BY <1>1, <2>1, <1>HtlcCreateEvaluated
<1>2. CASE op.type = "htlc_redeem"
  <2>1. evaluate(d, op) = htlc_redeem(d, op)
    BY <1>2 DEF evaluate
  <2> QED BY <1>2, <2>1, <1>HtlcRedeemEvaluated
<1>3. CASE op.type = "htlc_extend"
  <2>1. evaluate(d, op) = htlc_extend(d, op)
    BY <1>3 DEF evaluate
  <2> QED BY <1>3, <2>1, <1>HtlcExtendEvaluated
<1> QED BY <1>1, <1>2, <1>3

-----------------------------------------------------------------------------
(* Vesting balances.                                                         *)

\* At a constant rate.
LEMMA ConstantRate ==
    ASSUME NEW begin \in Nat, NEW withdrawn \in Nat, NEW seconds \in Nat \ {0}, NEW elapsed \in Nat,
           withdrawn * seconds <= begin * elapsed, elapsed < seconds
    PROVE  LET q == (begin * elapsed) \div seconds
           IN  q \in Nat /\ q <= begin /\ withdrawn <= q /\ q * seconds <= begin * elapsed
<1> DEFINE p == begin * elapsed
           q == p \div seconds
<1>1. p \in Nat /\ p <= begin * seconds
  BY Monotone, SMTT(30)
<1> HIDE DEF p
<1>2. q \in Nat /\ q * seconds <= p /\ withdrawn <= q
  BY <1>1, Quotient, QuotientBound, SMTT(30) DEF p
<1> HIDE DEF q
<1>3. q <= begin
  <2>1. q * seconds <= begin * seconds
    BY <1>1, <1>2, SMTT(30)
  <2> QED BY <1>2, <2>1, CancelFactor, SMTT(30)
<1> QED BY <1>2, <1>3, SMTT(30) DEF p, q

\* The numbers of a vesting balance.
LEMMA VestingTypes ==
    ASSUME NEW v, NEW now \in Nat, VestingOK(v, now)
    PROVE  /\ v.start \in Nat /\ v.seconds \in Nat /\ v.cliff \in Nat /\ v.opened \in Nat
           /\ v.begin \in Nat /\ v.balance \in Nat /\ v.earned \in Nat /\ v.last_update \in Nat
           /\ v.balance <= v.begin /\ v.opened <= v.last_update /\ v.last_update <= now
           /\ vesting_seconds(v) \in Nat \ {0} /\ vesting_seconds(v) >= v.seconds
<1>1. /\ v.start \in Nat /\ v.seconds \in Nat /\ v.cliff \in Nat /\ v.opened \in Nat
      /\ v.begin \in Nat /\ v.balance \in Nat /\ v.earned \in Nat /\ v.last_update \in Nat
      /\ v.balance <= v.begin /\ v.opened <= v.last_update /\ v.last_update <= now
  BY DEF VestingOK
<1>2. /\ Max({v.seconds, 1}) \in {v.seconds, 1}
      /\ Max({v.seconds, 1}) >= v.seconds /\ Max({v.seconds, 1}) >= 1
  <2>1. v.seconds \in Int /\ 1 \in Int
    BY <1>1, SMTT(30)
  <2> QED BY <2>1, LargerOfTwo
<1>3. vesting_seconds(v) \in Nat \ {0} /\ vesting_seconds(v) >= v.seconds
  BY <1>1, <1>2, SMTT(30) DEF vesting_seconds
<1> QED BY <1>1, <1>3

\* Coin seconds are earned at the rate of the balance, up to a limit.
LEMMA CoinsEarned ==
    ASSUME NEW v, NEW now \in Nat, VestingOK(v, now), v.policy = "cdd"
    PROVE  LET coins == compute_coin_seconds_earned(v, now)
           IN  /\ coins \in Nat
               /\ coins <= v.earned + v.balance * (now - v.last_update)
               /\ coins <= v.balance * vesting_seconds(v)
<1> DEFINE x == v.earned + v.balance * (now - v.last_update)
           y == v.balance * vesting_seconds(v)
<1>1. x \in Nat /\ y \in Nat
  <2>1. /\ v.balance \in Nat /\ v.earned \in Nat /\ v.last_update \in Nat /\ v.last_update <= now
        /\ vesting_seconds(v) \in Nat
    BY VestingTypes, SMTT(30)
  <2> QED BY <2>1, SMTT(30)
<1> HIDE DEF x, y
<1>2. Min({x, y}) \in {x, y} /\ Min({x, y}) <= x /\ Min({x, y}) <= y
  BY <1>1, SmallerOfTwo, SMTT(30)
<1>3. compute_coin_seconds_earned(v, now) = Min({x, y})
  BY DEF compute_coin_seconds_earned, x, y
<1>4. Min({x, y}) \in Nat
  BY <1>1, <1>2, SMTT(30)
<1> QED BY <1>2, <1>3, <1>4 DEF x, y

\* What has vested linearly is not less than what has been withdrawn.
LEMMA LinearVested ==
    ASSUME NEW v, NEW now \in Nat, VestingOK(v, now), v.policy = "linear", now > v.start
    PROVE  LET vested == total_vested(v, now)
           IN  /\ vested \in Nat /\ vested <= v.begin /\ v.begin - v.balance <= vested
               /\ vested * v.seconds <= v.begin * (now - v.start)
<1> DEFINE elapsed == now - v.start
           withdrawn == v.begin - v.balance
<1>1. /\ v.start \in Nat /\ v.seconds \in Nat /\ v.begin \in Nat /\ v.balance \in Nat
      /\ v.balance <= v.begin
  BY VestingTypes
<1>2. elapsed \in Nat /\ withdrawn \in Nat
  BY <1>1, SMTT(30)
<1>3. withdrawn * v.seconds <= v.begin * elapsed
  <2>1. CASE v.balance < v.begin
    BY <2>1 DEF VestingOK, LinearOK
  <2>2. CASE v.balance = v.begin
    <3>1. withdrawn = 0
      BY <1>1, <2>2, SMTT(30)
    <3>2. withdrawn * v.seconds = 0
      BY <1>1, <3>1, SMTT(30)
    <3>3. v.begin * elapsed >= 0
      BY <1>1, <1>2, SMTT(30)
    <3> QED BY <3>2, <3>3, SMTT(30)
  <2> QED BY <1>1, <2>1, <2>2, SMTT(30)
<1>4. CASE elapsed < v.seconds
  <2>1. total_vested(v, now) = (v.begin * elapsed) \div v.seconds
    BY <1>4 DEF total_vested
  <2>2. v.seconds \in Nat \ {0}
    BY <1>1, <1>2, <1>4, SMTT(30)
  <2> HIDE DEF elapsed, withdrawn
  <2>3. LET q == (v.begin * elapsed) \div v.seconds
        IN  q \in Nat /\ q <= v.begin /\ withdrawn <= q /\ q * v.seconds <= v.begin * elapsed
    BY <1>1, <1>2, <1>3, <1>4, <2>2, ConstantRate
  <2> QED BY <2>1, <2>3 DEF elapsed, withdrawn
<1>5. CASE ~(elapsed < v.seconds)
  <2>1. total_vested(v, now) = v.begin
    BY <1>5 DEF total_vested
  <2>2. v.begin * v.seconds <= v.begin * elapsed
    BY <1>1, <1>2, <1>5, Monotone, SMTT(30)
  <2> QED BY <1>1, <2>1, <2>2, SMTT(30)
<1> QED BY <1>4, <1>5

\* What may be withdrawn is there.
LEMMA AllowedIsThere ==
    ASSUME NEW v, NEW now \in Nat, VestingOK(v, now)
    PROVE  get_allowed_withdraw(v, now) \in 0 .. v.balance
<1>1. v.policy \in {"instant", "cdd", "linear"}
  BY DEF VestingOK
<1>2. v.balance \in Nat /\ v.begin \in Nat /\ v.balance <= v.begin
  BY VestingTypes
<1>3. CASE v.policy = "instant"
  <2>1. get_allowed_withdraw(v, now) = v.balance
    BY <1>3 DEF get_allowed_withdraw
  <2> QED BY <1>2, <2>1, SMTT(30)
<1>4. CASE v.policy = "cdd"
  <2> DEFINE coins == compute_coin_seconds_earned(v, now)
             s == vesting_seconds(v)
  <2>1. get_allowed_withdraw(v, now) = IF now <= v.start THEN 0 ELSE coins \div s
    BY <1>4 DEF get_allowed_withdraw
  <2>2. coins \in Nat /\ coins <= v.balance * s /\ s \in Nat \ {0}
    BY <1>4, CoinsEarned, VestingTypes
  <2> HIDE DEF coins, s
  <2>3. coins \div s \in Nat /\ (coins \div s) * s <= coins
    BY <2>2, Quotient, SMTT(30)
  <2>4. coins \div s <= v.balance
    <3> DEFINE q == coins \div s
    <3>1. q \in Nat /\ q * s <= coins
      BY <2>3, SMTT(30)
    <3> HIDE DEF q
    <3>2. q * s <= v.balance * s
      BY <1>2, <2>2, <3>1, SMTT(30)
    <3>3. q <= v.balance
      BY <1>2, <2>2, <3>1, <3>2, CancelFactor, SMTT(30)
    <3> QED BY <3>3, SMTT(30) DEF q
  <2> QED BY <1>2, <2>1, <2>3, <2>4, SMTT(30)
<1>5. CASE v.policy = "linear"
  <2>1. get_allowed_withdraw(v, now) = IF now > v.start /\ now - v.start >= v.cliff
                                       THEN total_vested(v, now) - (v.begin - v.balance) ELSE 0
    BY <1>5 DEF get_allowed_withdraw
  <2>2. now > v.start =>
            /\ total_vested(v, now) \in Nat /\ total_vested(v, now) <= v.begin
            /\ v.begin - v.balance <= total_vested(v, now)
    BY <1>5, LinearVested
  <2> QED BY <1>2, <2>1, <2>2, SMTT(30)
<1> QED BY <1>1, <1>3, <1>4, <1>5

\* A balance from which n coins are withdrawn when it has earned the coin seconds.
CoinSecondsOK(begin, balance, earned, s, last, opened, now, coins, n) ==
    /\ {begin, balance, earned, last, opened, now, coins, n} \subseteq Nat /\ s \in Nat \ {0}
    /\ balance <= begin /\ opened <= last /\ last <= now
    /\ earned + (begin - balance) * s <= begin * (last - opened)
    /\ coins <= earned + balance * (now - last) /\ coins <= balance * s /\ n * s <= coins

Withdrawal(v, now, n) == [on_withdraw(v, now, n) EXCEPT !.balance = @ - n]

Replaced(objects, id, o) == [objects EXCEPT ![id] = o]

ChangesBy(v, w, m) == w.balance = v.balance + m

\* The two operations on vesting balances.
LEMMA VestingsEvaluated ==
    AreEvaluated({"vesting_balance_create", "vesting_balance_withdraw"})

\* The withdrawal of n coins takes n * s coin seconds.
<1>CoinSeconds.
      ASSUME NEW begin, NEW balance, NEW earned, NEW s, NEW last, NEW opened, NEW now,
             NEW coins, NEW n,
             CoinSecondsOK(begin, balance, earned, s, last, opened, now, coins, n)
      PROVE  /\ coins - n * s \in Nat
             /\ coins - n * s <= (balance - n) * s
             /\ coins - n * s + (begin - (balance - n)) * s <= begin * (now - opened)
  <2> USE <1>CoinSeconds
  <2> USE DEF CoinSecondsOK
  <2>1. n <= balance
    BY CancelFactor, SMTT(30)
  <2>2. (balance - n) * s = balance * s - n * s
    BY SMTT(30)
  <2>3. (begin - (balance - n)) * s = (begin - balance) * s + n * s
    BY SMTT(30)
  <2>4. balance * (now - last) <= begin * (now - last)
    BY Monotone, SMTT(30)
  <2>5. begin * (now - opened) = begin * (now - last) + begin * (last - opened)
    BY SMTT(30)
  <2>6. /\ n * s \in Nat /\ balance * s \in Nat /\ (begin - balance) * s \in Int
        /\ begin * (now - last) \in Int /\ begin * (last - opened) \in Int
        /\ balance * (now - last) \in Int
    BY SMTT(30)
  <2> QED BY <2>1, <2>2, <2>3, <2>4, <2>5, <2>6, SMTT(30)

\* A withdrawal leaves a balance from which no more is withdrawn than has vested.
<1>WithdrawalOK. ASSUME NEW v, NEW now \in Nat, VestingOK(v, now), NEW n \in Nat \ {0},
                        n <= get_allowed_withdraw(v, now)
                 PROVE  /\ VestingOK(Withdrawal(v, now, n), now)
                        /\ Withdrawal(v, now, n).balance = v.balance - n
  <2> USE <1>WithdrawalOK
  <2> DEFINE w == Withdrawal(v, now, n)
             s == vesting_seconds(v)
             coins == compute_coin_seconds_earned(v, now)
  <2>1. /\ v.start \in Nat /\ v.seconds \in Nat /\ v.cliff \in Nat /\ v.opened \in Nat
        /\ v.begin \in Nat /\ v.balance \in Nat /\ v.earned \in Nat /\ v.last_update \in Nat
        /\ v.balance <= v.begin /\ v.opened <= v.last_update /\ v.last_update <= now
        /\ s \in Nat \ {0}
    BY VestingTypes
  <2>2. /\ DOMAIN v = {"owner", "balance", "policy", "start", "seconds", "cliff", "begin",
                       "opened", "earned", "last_update"}
        /\ v.owner \in Account /\ v.policy \in {"instant", "cdd", "linear"}
    BY DEF VestingOK
  <2>3. n <= v.balance /\ v.balance - n \in Nat /\ v.balance - n <= v.begin
    <3>1. get_allowed_withdraw(v, now) \in 0 .. v.balance
      BY AllowedIsThere
    <3> QED BY <2>1, <3>1, SMTT(30)
  <2>4. CASE v.policy = "cdd"
    <3>1. get_allowed_withdraw(v, now) = IF now <= v.start THEN 0 ELSE coins \div s
      BY <2>4 DEF get_allowed_withdraw
    <3>2. /\ coins \in Nat /\ coins <= v.balance * s
          /\ coins <= v.earned + v.balance * (now - v.last_update)
      BY <2>4, CoinsEarned
    <3>3. v.earned + (v.begin - v.balance) * s <= v.begin * (v.last_update - v.opened)
      BY <2>4 DEF VestingOK, CoinDaysOK
    <3>4. /\ DOMAIN w = DOMAIN v /\ w.owner = v.owner /\ w.policy = v.policy /\ w.start = v.start
          /\ w.seconds = v.seconds /\ w.cliff = v.cliff /\ w.begin = v.begin /\ w.opened = v.opened
          /\ w.balance = v.balance - n /\ w.earned = coins - n * s /\ w.last_update = now
      BY <2>2, <2>4 DEF Withdrawal, on_withdraw
    <3>5. vesting_seconds(w) = s
      BY <3>4 DEF vesting_seconds
    <3> HIDE DEF w, s, coins
    <3>6. now > v.start /\ n <= coins \div s
      BY <2>1, <3>1, SMTT(30)
    <3>7. n * s <= coins
      <4>1. coins \div s \in Nat /\ (coins \div s) * s <= coins
        BY <2>1, <3>2, Quotient
      <4>2. n * s <= (coins \div s) * s
        BY <2>1, <3>6, <4>1, Monotone, SMTT(30)
      <4> DEFINE a == n * s
                 b == (coins \div s) * s
      <4>3. a \in Int /\ b \in Int
        BY <2>1, <4>1, SMTT(30)
      <4> HIDE DEF a, b
      <4>4. a <= coins
        BY <3>2, <4>1, <4>2, <4>3, SMTT(30) DEF a, b
      <4> QED BY <4>4, SMTT(30) DEF a
    <3>8. /\ coins - n * s \in Nat
          /\ coins - n * s <= (v.balance - n) * s
          /\ coins - n * s + (v.begin - (v.balance - n)) * s <= v.begin * (now - v.opened)
      <4>1. CoinSecondsOK(v.begin, v.balance, v.earned, s, v.last_update, v.opened, now, coins, n)
        BY <2>1, <3>2, <3>3, <3>7 DEF CoinSecondsOK
      <4> QED BY <4>1, <1>CoinSeconds
    <3>9. CoinDaysOK(w, now)
      BY <3>4, <3>5, <3>6, <3>8 DEF CoinDaysOK
    <3>10. w.policy # "linear"
      BY <2>4, <3>4
    <3>11. v.opened <= now /\ now <= now
      BY <2>1, SMTT(30)
    <3> QED BY <2>1, <2>2, <2>3, <3>4, <3>8, <3>9, <3>10, <3>11 DEF VestingOK, w
  <2>5. CASE v.policy # "cdd"
    <3>1. /\ DOMAIN w = DOMAIN v /\ w.owner = v.owner /\ w.policy = v.policy /\ w.start = v.start
          /\ w.seconds = v.seconds /\ w.cliff = v.cliff /\ w.begin = v.begin /\ w.opened = v.opened
          /\ w.balance = v.balance - n /\ w.earned = v.earned /\ w.last_update = v.last_update
      BY <2>2, <2>5 DEF Withdrawal, on_withdraw
    <3>2. v.policy = "linear" => LinearOK(w, now)
      <4>1. SUFFICES ASSUME v.policy = "linear" PROVE LinearOK(w, now)
        BY SMTT(30)
      <4> DEFINE t == total_vested(v, now)
      <4>2. get_allowed_withdraw(v, now) = IF now > v.start /\ now - v.start >= v.cliff
                                           THEN t - (v.begin - v.balance) ELSE 0
        BY <4>1 DEF get_allowed_withdraw
      <4> HIDE DEF t
      <4>3. now > v.start /\ now >= v.start + v.cliff /\ n <= t - (v.begin - v.balance)
        BY <2>1, <4>2, SMTT(30)
      <4>4. t \in Nat /\ t * v.seconds <= v.begin * (now - v.start)
        BY <4>1, <4>3, LinearVested DEF t
      <4>5. v.begin - (v.balance - n) \in Int /\ v.begin - (v.balance - n) <= t
        BY <2>1, <4>3, <4>4, SMTT(30)
      <4>6. (v.begin - (v.balance - n)) * v.seconds <= v.begin * (now - v.start)
        <5> DEFINE a == v.begin - (v.balance - n)
                   b == v.begin * (now - v.start)
        <5>1. a \in Int /\ a <= t /\ b \in Int /\ t * v.seconds <= b
          BY <2>1, <4>4, <4>5, SMTT(30)
        <5> HIDE DEF a, b
        <5>2. a * v.seconds <= t * v.seconds
          BY <2>1, <4>4, <5>1, Monotone, SMTT(30)
        <5>3. a * v.seconds <= b
          BY <2>1, <4>4, <5>1, <5>2, SMTT(30)
        <5> QED BY <5>3, SMTT(30) DEF a, b
      <4> QED BY <3>1, <4>3, <4>6 DEF LinearOK
    <3> HIDE DEF w
    <3> QED BY <2>1, <2>2, <2>3, <2>5, <3>1, <3>2 DEF VestingOK, w
  <2> QED BY <2>4, <2>5

\* Vesting balances have a total.
<1>VestingFor. ASSUME NEW vs, NEW next, NEW now, VestingsOK(vs, next, now)
               PROVE  IntegerValued(Vesting(vs))
  <2> USE <1>VestingFor
  <2>1. Keyed(vs, next) /\ \A i \in DOMAIN vs : vs[i].balance \in Nat
    BY DEF VestingsOK, VestingOK
  <2>2. IsFiniteSet(DOMAIN vs)
    BY <2>1, KeyedFinite
  <2> QED BY <2>1, <2>2, SMTT(30) DEF IntegerValued, IntegerOn, Vesting

\* A new vesting balance adds its amount to the total.
<1>VestingAdded.
      ASSUME NEW vs, NEW next, NEW now, VestingsOK(vs, next, now), NEW v, VestingOK(v, now)
      PROVE  /\ VestingsOK(With(vs, next, v), next + 1, now)
             /\ Total(Vesting(With(vs, next, v))) = Total(Vesting(vs)) + v.balance
  <2> USE <1>VestingAdded
  <2> DEFINE new == With(vs, next, v)
  <2>1. Keyed(vs, next) /\ next \notin DOMAIN vs
    BY NextIsNew DEF VestingsOK
  <2>2. VestingsOK(new, next + 1, now)
    <3>1. Keyed(new, next + 1)
      BY <2>1, WithKeyed
    <3> QED BY <3>1 DEF VestingsOK, With
  <2>3. ExtendedAt(Vesting(vs), Vesting(new), next) /\ Vesting(new)[next] = v.balance
    BY <2>1 DEF ExtendedAt, Vesting, With
  <2> HIDE DEF new
  <2>4. Vesting(new)[next] \in Int
    BY <2>3, SMTT(30) DEF VestingOK
  <2>5. SumOfAll(Vesting(new)) = SumOfAll(Vesting(vs)) + Vesting(new)[next]
    <3>1. IntegerValued(Vesting(vs))
      BY <1>VestingFor
    <3> QED BY <2>3, <2>4, <3>1, AllAdd, SMTT(30)
  <2> QED BY <2>2, <2>3, <2>5, TotalIs DEF new

\* A withdrawal takes its amount from the total.
<1>VestingWithdrawn.
      ASSUME NEW vs, NEW next, NEW now, VestingsOK(vs, next, now), NEW id \in DOMAIN vs,
             NEW w, VestingOK(w, now), NEW m \in Int, ChangesBy(vs[id], w, m)
      PROVE  /\ VestingsOK(Replaced(vs, id, w), next, now)
             /\ Total(Vesting(Replaced(vs, id, w))) = Total(Vesting(vs)) + m
  <2> USE <1>VestingWithdrawn
  <2> DEFINE new == Replaced(vs, id, w)
  <2>1. new[id] = w /\ DOMAIN new = DOMAIN vs /\ \A i \in DOMAIN vs : i # id => new[i] = vs[i]
    BY DEF Replaced
  <2> HIDE DEF new
  <2>2. VestingsOK(new, next, now)
    BY <2>1 DEF VestingsOK, Keyed
  <2>3. ChangedAt(Vesting(vs), Vesting(new), id, m)
    BY <2>1 DEF ChangedAt, Vesting, ChangesBy
  <2>4. IntegerValued(Vesting(vs))
    BY <1>VestingFor
  <2>5. SumOfAll(Vesting(new)) = SumOfAll(Vesting(vs)) + m
    BY <2>3, <2>4, AllChange
  <2> QED BY <2>2, <2>5, TotalIs DEF new

\* vesting_balance_create_evaluator
<1>VestingCreateEvaluated.
      ASSUME NEW d, DatabaseOK(d), NEW op \in Operations, op.type = "vesting_balance_create",
             vesting_balance_create(d, op).ok
      PROVE  Evaluation(d, vesting_balance_create(d, op), op)
  <2> USE <1>VestingCreateEvaluated
  <2> DEFINE r == vesting_balance_create(d, op)
             m == -op.amount
             v == [owner |-> op.to, balance |-> op.amount, policy |-> op.policy,
                   start |-> op.start, seconds |-> op.seconds, cliff |-> op.cliff,
                   begin |-> op.amount, opened |-> d.now, earned |-> 0, last_update |-> d.now]
             e == [adjust_balance(d, op.from, m) EXCEPT
                      !.vesting = With(@, d.next_vesting, v), !.next_vesting = @ + 1]
  <2>1. /\ d.balance[op.from] >= op.amount
        /\ r.db = e /\ r.virtual = <<>> /\ r.executes = {}
    BY DEF vesting_balance_create, Check, Ok, Failed
  <2>2. op.from \in Account /\ op.to \in Account /\ op.amount \in Nat
    BY Amounts DEF HasAmount
  <2>3. /\ op.policy \in {"instant", "cdd", "linear"}
        /\ op.start \in Nat /\ op.seconds \in Nat /\ op.cliff \in Nat
    <3>1. validate(op)
      BY Constants
    <3> QED BY <3>1 DEF validate
  <2>4. /\ d.balance \in [Account -> Nat] /\ DOMAIN d = Fields /\ d.now \in Nat
        /\ VestingsOK(d.vesting, d.next_vesting, d.now)
    BY DEF DatabaseOK
  <2>5. /\ DOMAIN v = {"owner", "balance", "policy", "start", "seconds", "cliff", "begin",
                       "opened", "earned", "last_update"}
        /\ v.owner = op.to /\ v.policy = op.policy /\ v.start = op.start /\ v.seconds = op.seconds
        /\ v.cliff = op.cliff /\ v.opened = d.now /\ v.begin = op.amount /\ v.balance = op.amount
        /\ v.earned = 0 /\ v.last_update = d.now
    BY SMTT(30)
  <2> HIDE DEF v
  <2>6. VestingOK(v, d.now)
    <3>1. /\ v.balance <= v.begin /\ ~(v.balance < v.begin) /\ v.opened <= v.last_update
          /\ v.last_update <= d.now /\ v.earned \in Nat
      BY <2>2, <2>4, <2>5, SMTT(30)
    <3>2. LinearOK(v, d.now)
      BY <3>1 DEF LinearOK
    <3>3. CoinDaysOK(v, d.now)
      <4>1. vesting_seconds(v) \in Nat
        <5>1. v.seconds \in Int /\ 1 \in Int
          BY <2>3, <2>5, SMTT(30)
        <5>2. Max({v.seconds, 1}) \in {v.seconds, 1}
          BY <5>1, LargerOfTwo
        <5> QED BY <2>3, <2>5, <5>2, SMTT(30) DEF vesting_seconds
      <4> DEFINE s == vesting_seconds(v)
      <4> HIDE DEF s
      <4>2. /\ s \in Nat /\ 0 <= op.amount * s
            /\ (op.amount - op.amount) * s = 0 /\ op.amount * (d.now - d.now) = 0
        BY <2>2, <2>4, <4>1, SMTT(30) DEF s
      <4>3. v.earned + (op.amount - op.amount) * s <= op.amount * (d.now - d.now)
        BY <2>5, <4>2, SMTT(30)
      <4> QED BY <2>5, <3>1, <4>2, <4>3 DEF CoinDaysOK, s
    <3> QED BY <2>2, <2>3, <2>4, <2>5, <3>1, <3>2, <3>3 DEF VestingOK
  <2>7. SameFrame(d, e) /\ SameHtlcs(d, e) /\ SamePermits(d, e) /\ SameProposals(d, e)
    BY <2>4 DEF SameFrame, SameHtlcs, SamePermits, SameProposals, Fields, adjust_balance
  <2>8. /\ Adjusted(d.balance, op.from, m, e.balance)
        /\ e.vesting = With(d.vesting, d.next_vesting, v) /\ e.next_vesting = d.next_vesting + 1
    BY <2>4 DEF adjust_balance, Fields, Adjusted
  <2>9. m = -op.amount /\ m \in Int /\ d.balance[op.from] + m >= 0
    BY <2>1, <2>2, <2>4, SMTT(30)
  <2> HIDE DEF e, m, r
  <2>10. Payment(d.balance, op.from, m, e.balance)
    BY <2>2, <2>4, <2>8, <2>9, Paid
  <2>11. /\ VestingsOK(e.vesting, e.next_vesting, e.now)
         /\ Total(Vesting(e.vesting)) = Total(Vesting(d.vesting)) + op.amount
    <3> DEFINE new == With(d.vesting, d.next_vesting, v)
    <3>1. /\ VestingsOK(new, d.next_vesting + 1, d.now)
          /\ Total(Vesting(new)) = Total(Vesting(d.vesting)) + v.balance
      BY <2>4, <2>6, <1>VestingAdded
    <3> QED BY <2>5, <2>7, <2>8, <3>1 DEF SameFrame
  <2>12. Moved(d.balance, e.balance, op, <<>>)
    <3>1. op.type \in Payments
      BY DEF Payments
    <3> QED BY <2>2, <2>4, <2>9, <2>10, <3>1, PaymentMoves
  <2>13. DatabaseOK(e)
    BY <2>7, <2>10, <2>11, PartsKept DEF DatabaseOK, Payment
  <2>14. Supply(e) = Supply(d)
    <3>1. Total(e.balance) = Total(d.balance) + m /\ Total(Locked(e.htlcs)) = Total(Locked(d.htlcs))
      BY <2>7, <2>10 DEF Payment, SameHtlcs
    <3> QED BY <2>2, <2>9, <2>11, <2>13, <3>1, SupplyIs, SMTT(30)
  <2>15. ProposalsKept(d, e, op) /\ ClaimsWithin(d, e)
    BY <2>7, SameKept
  <2> QED BY <2>1, <2>7, <2>12, <2>13, <2>14, <2>15 DEF Evaluation, Executes, SameFrame, r

\* vesting_balance_withdraw_evaluator
<1>VestingWithdrawEvaluated.
      ASSUME NEW d, DatabaseOK(d), NEW op \in Operations, op.type = "vesting_balance_withdraw",
             vesting_balance_withdraw(d, op).ok
      PROVE  Evaluation(d, vesting_balance_withdraw(d, op), op)
  <2> USE <1>VestingWithdrawEvaluated
  <2> DEFINE r == vesting_balance_withdraw(d, op)
             v == d.vesting[op.id]
             w == Withdrawal(v, d.now, op.amount)
             m == -op.amount
             e == [adjust_balance(d, v.owner, op.amount) EXCEPT !.vesting[op.id] = w]
  <2>1. op.id \in DOMAIN d.vesting
    BY DEF vesting_balance_withdraw, Failed
  <2>2. /\ op.by = v.owner /\ op.amount <= get_allowed_withdraw(v, d.now)
        /\ r.db = e /\ r.virtual = <<>> /\ r.executes = {}
    BY <2>1 DEF vesting_balance_withdraw, Check, Ok, Failed, Withdrawal
  <2>3. op.amount \in Nat \ {0}
    BY Constants DEF validate, HasAmount
  <2>4. /\ d.balance \in [Account -> Nat] /\ DOMAIN d = Fields /\ d.now \in Nat
        /\ VestingsOK(d.vesting, d.next_vesting, d.now)
    BY DEF DatabaseOK
  <2>5. VestingOK(v, d.now) /\ v.owner \in Account /\ v.balance \in Nat
    BY <2>1, <2>4 DEF VestingsOK, VestingOK
  <2> HIDE DEF v
  <2>6. VestingOK(w, d.now) /\ w.balance = v.balance - op.amount
    BY <2>2, <2>3, <2>4, <2>5, <1>WithdrawalOK
  <2> HIDE DEF w
  <2>7. SameFrame(d, e) /\ SameHtlcs(d, e) /\ SamePermits(d, e) /\ SameProposals(d, e)
    BY <2>4 DEF SameFrame, SameHtlcs, SamePermits, SameProposals, Fields, adjust_balance
  <2>8. /\ Adjusted(d.balance, v.owner, op.amount, e.balance)
        /\ e.vesting = Replaced(d.vesting, op.id, w) /\ e.next_vesting = d.next_vesting
    BY <2>4 DEF adjust_balance, Fields, Adjusted, Replaced
  <2>9. /\ op.amount \in Int /\ m \in Int /\ m = -op.amount
        /\ d.balance[v.owner] + op.amount >= 0 /\ w.balance = v.balance + m
    BY <2>3, <2>4, <2>5, <2>6, SMTT(30)
  <2> HIDE DEF e, m, r
  <2>10. Payment(d.balance, v.owner, op.amount, e.balance)
    BY <2>4, <2>5, <2>8, <2>9, Paid
  <2>11. /\ VestingsOK(e.vesting, e.next_vesting, e.now)
         /\ Total(Vesting(e.vesting)) = Total(Vesting(d.vesting)) + m
    <3> DEFINE new == Replaced(d.vesting, op.id, w)
    <3>1. ChangesBy(d.vesting[op.id], w, m)
      BY <2>9 DEF v, ChangesBy
    <3>2. VestingsOK(d.vesting, d.next_vesting, d.now) /\ VestingOK(w, d.now) /\ m \in Int
      BY <2>4, <2>6, <2>9
    <3>3. /\ VestingsOK(new, d.next_vesting, d.now)
          /\ Total(Vesting(new)) = Total(Vesting(d.vesting)) + m
      BY <2>1, <3>1, <3>2, <1>VestingWithdrawn, SMTT(30)
    <3> QED BY <2>7, <2>8, <3>3 DEF SameFrame
  <2>12. Moved(d.balance, e.balance, op, <<>>)
    <3>1. ASSUME NEW a \in Account
          PROVE  e.balance[a] = d.balance[a] + Effect(op, a)
      <4>1. Effect(op, a) = IF a = v.owner THEN op.amount ELSE 0
        BY <2>2, EffectOfWithdrawal
      <4>2. /\ e.balance[v.owner] = d.balance[v.owner] + op.amount
            /\ a # v.owner => e.balance[a] = d.balance[a]
        BY <2>10 DEF Payment
      <4> QED BY <2>3, <2>4, <4>1, <4>2, SMTT(30)
    <3> QED BY <3>1 DEF Moved
  <2>13. DatabaseOK(e)
    BY <2>7, <2>10, <2>11, PartsKept DEF DatabaseOK, Payment
  <2>14. Supply(e) = Supply(d)
    <3>1. /\ Total(e.balance) = Total(d.balance) + op.amount
          /\ Total(Locked(e.htlcs)) = Total(Locked(d.htlcs))
      BY <2>7, <2>10 DEF Payment, SameHtlcs
    <3> QED BY <2>9, <2>11, <2>13, <3>1, SupplyIs, SMTT(30)
  <2>15. ProposalsKept(d, e, op) /\ ClaimsWithin(d, e)
    BY <2>7, SameKept
  <2> QED BY <2>2, <2>7, <2>12, <2>13, <2>14, <2>15 DEF Evaluation, Executes, SameFrame, r

<1> SUFFICES ASSUME NEW d, DatabaseOK(d), NEW op \in Operations, evaluate(d, op).ok,
                    op.type \in {"vesting_balance_create", "vesting_balance_withdraw"}
             PROVE  Evaluation(d, evaluate(d, op), op)
  BY DEF AreEvaluated
<1>1. CASE op.type = "vesting_balance_create"
  <2>1. evaluate(d, op) = vesting_balance_create(d, op)
    BY <1>1 DEF evaluate
  <2> QED BY <1>1, <2>1, <1>VestingCreateEvaluated
<1>2. CASE op.type = "vesting_balance_withdraw"
  <2>1. evaluate(d, op) = vesting_balance_withdraw(d, op)
    BY <1>2 DEF evaluate
  <2> QED BY <1>2, <2>1, <1>VestingWithdrawEvaluated
<1> QED BY <1>1, <1>2

-----------------------------------------------------------------------------
(* Invitations and proposals.                                                *)

\* The operation changes permissions, invitations or proposals only.
SameMoney(d, e) ==
    SameFrame(d, e) /\ SameHtlcs(d, e) /\ SameVesting(d, e) /\ e.balance = d.balance

\* An operation that moves no money.
LEMMA Concluded ==
    ASSUME NEW d, DatabaseOK(d), NEW e, SameMoney(d, e), NEW op, op.type \notin Movements,
           PermitsOK(e.permits, e.next_permit, e.now), ClaimsWithin(d, e),
           ProposalsOK(e.proposals, e.next_proposal), ProposalsKept(d, e, op),
           NEW r, r.db = e, r.virtual = <<>>, Executes(r, op)
    PROVE  Evaluation(d, r, op)
<1>1. SameFrame(d, e) /\ SameHtlcs(d, e) /\ SameVesting(d, e) /\ e.balance = d.balance
  BY DEF SameMoney
<1>2. DatabaseOK(e)
  BY <1>1, PartsKept DEF DatabaseOK
<1>3. Locked(e.htlcs) = Locked(d.htlcs)
  BY <1>1 DEF SameHtlcs
<1>4. Supply(e) = Supply(d) /\ Moved(d.balance, e.balance, op, <<>>)
  BY <1>1, <1>2, <1>3, Unmoved
<1> QED BY <1>1, <1>2, <1>4 DEF Evaluation, SameFrame

\* The three operations on invitations.
LEMMA InvitationsEvaluated ==
    AreEvaluated({"player_invitation_create", "player_invitation_cancel",
                  "player_invitation_resolve"})

\* An operation on invitations changes nothing that the invariant is about.
<1>InvitationEvaluated.
      ASSUME NEW d, DatabaseOK(d), NEW e, SameMoney(d, e), SamePermits(d, e), SameProposals(d, e),
             NEW op, op.type \notin Movements,
             NEW r, r.db = e, r.virtual = <<>>, r.executes = {}
      PROVE  Evaluation(d, r, op)
  <2> USE <1>InvitationEvaluated
  <2>1. SameFrame(d, e)
    BY DEF SameMoney
  <2>2. PermitsOK(e.permits, e.next_permit, e.now) /\ ProposalsOK(e.proposals, e.next_proposal)
    BY <2>1, PartsKept
  <2>3. ClaimsWithin(d, e) /\ ProposalsKept(d, e, op)
    BY SameKept
  <2>4. Executes(r, op)
    BY DEF Executes
  <2> QED BY <2>2, <2>3, <2>4, Concluded

\* player_invitation_create_evaluator
<1>InvitationCreateEvaluated.
      ASSUME NEW d, DatabaseOK(d), NEW op, op.type = "player_invitation_create",
             player_invitation_create(d, op).ok
      PROVE  Evaluation(d, player_invitation_create(d, op), op)
  <2> USE <1>InvitationCreateEvaluated
  <2> DEFINE r == player_invitation_create(d, op)
             e == [d EXCEPT !.members = @ \cup {op.by},
                      !.invitations = With(@, op.key, [expiration |-> d.now + op.lifetime])]
  <2>1. r.db = e /\ r.virtual = <<>> /\ r.executes = {}
    BY DEF player_invitation_create, Check, Ok, Failed
  <2>2. DOMAIN d = Fields
    BY DEF DatabaseOK
  <2>3. SameMoney(d, e) /\ SamePermits(d, e) /\ SameProposals(d, e)
    BY <2>2 DEF SameMoney, SameFrame, SameHtlcs, SameVesting, SamePermits, SameProposals, Fields
  <2>4. op.type \notin Movements
    BY DEF Movements, Transfers, Payments, Receipts
  <2> HIDE DEF e, r
  <2>5. Evaluation(d, r, op)
    BY <2>1, <2>3, <2>4, <1>InvitationEvaluated
  <2> QED BY <2>5 DEF r

\* player_invitation_cancel_evaluator
<1>InvitationCancelEvaluated.
      ASSUME NEW d, DatabaseOK(d), NEW op, op.type = "player_invitation_cancel",
             player_invitation_cancel(d, op).ok
      PROVE  Evaluation(d, player_invitation_cancel(d, op), op)
  <2> USE <1>InvitationCancelEvaluated
  <2> DEFINE r == player_invitation_cancel(d, op)
             e == [d EXCEPT !.invitations = Without(@, op.key)]
  <2>1. r.db = e /\ r.virtual = <<>> /\ r.executes = {}
    BY DEF player_invitation_cancel, Check, Ok, Failed
  <2>2. DOMAIN d = Fields
    BY DEF DatabaseOK
  <2>3. SameMoney(d, e) /\ SamePermits(d, e) /\ SameProposals(d, e)
    BY <2>2 DEF SameMoney, SameFrame, SameHtlcs, SameVesting, SamePermits, SameProposals, Fields
  <2>4. op.type \notin Movements
    BY DEF Movements, Transfers, Payments, Receipts
  <2> HIDE DEF e, r
  <2>5. Evaluation(d, r, op)
    BY <2>1, <2>3, <2>4, <1>InvitationEvaluated
  <2> QED BY <2>5 DEF r

\* player_invitation_resolve_evaluator
<1>InvitationResolveEvaluated.
      ASSUME NEW d, DatabaseOK(d), NEW op, op.type = "player_invitation_resolve",
             player_invitation_resolve(d, op).ok
      PROVE  Evaluation(d, player_invitation_resolve(d, op), op)
  <2> USE <1>InvitationResolveEvaluated
  <2> DEFINE r == player_invitation_resolve(d, op)
             e == [d EXCEPT !.players = With(@, op.name, op.key),
                            !.invitations = Without(@, op.key)]
  <2>1. r.db = e /\ r.virtual = <<>> /\ r.executes = {}
    BY DEF player_invitation_resolve, Check, Ok, Failed
  <2>2. DOMAIN d = Fields
    BY DEF DatabaseOK
  <2>3. SameMoney(d, e) /\ SamePermits(d, e) /\ SameProposals(d, e)
    BY <2>2 DEF SameMoney, SameFrame, SameHtlcs, SameVesting, SamePermits, SameProposals, Fields
  <2>4. op.type \notin Movements
    BY DEF Movements, Transfers, Payments, Receipts
  <2> HIDE DEF e, r
  <2>5. Evaluation(d, r, op)
    BY <2>1, <2>3, <2>4, <1>InvitationEvaluated
  <2> QED BY <2>5 DEF r

<1> SUFFICES ASSUME NEW d, DatabaseOK(d), NEW op \in Operations, evaluate(d, op).ok,
                    op.type \in {"player_invitation_create", "player_invitation_cancel",
                                "player_invitation_resolve"}
             PROVE  Evaluation(d, evaluate(d, op), op)
  BY DEF AreEvaluated
<1>1. CASE op.type = "player_invitation_create"
  <2>1. evaluate(d, op) = player_invitation_create(d, op)
    BY <1>1 DEF evaluate
  <2> QED BY <1>1, <2>1, <1>InvitationCreateEvaluated
<1>2. CASE op.type = "player_invitation_cancel"
  <2>1. evaluate(d, op) = player_invitation_cancel(d, op)
    BY <1>2 DEF evaluate
  <2> QED BY <1>2, <2>1, <1>InvitationCancelEvaluated
<1>3. CASE op.type = "player_invitation_resolve"
  <2>1. evaluate(d, op) = player_invitation_resolve(d, op)
    BY <1>3 DEF evaluate
  <2> QED BY <1>3, <2>1, <1>InvitationResolveEvaluated
<1> QED BY <1>1, <1>2, <1>3

\* The three operations on proposals.
LEMMA ProposalsEvaluated ==
    AreEvaluated({"proposal_create", "proposal_delete", "proposal_update"})

\* proposal_create_evaluator
<1>ProposalCreateEvaluated.
      ASSUME NEW d, DatabaseOK(d), NEW op \in Operations, op.type = "proposal_create",
             proposal_create(d, op).ok
      PROVE  Evaluation(d, proposal_create(d, op), op)
  <2> USE <1>ProposalCreateEvaluated
  <2> DEFINE r == proposal_create(d, op)
             p == [ops |-> op.ops, expiration |-> op.expiration,
                   required |-> RequiredBy(op.ops), approvals |-> {},
                   reviewed |-> op.review # NoReview,
                   review_time |-> op.expiration - op.review]
             next == d.next_proposal
             e == [d EXCEPT !.proposals = With(@, next, p), !.next_proposal = @ + 1]
  <2>1. /\ \A id \in Updated(op.ops) : next > id
        /\ r.db = e /\ r.virtual = <<>> /\ r.executes = {}
    BY DEF proposal_create, Check, Ok, Failed
  <2>2. op.ops \in Seq(Operations) /\ op.expiration \in Nat
    <3>1. validate(op)
      BY Constants
    <3> QED BY <3>1 DEF validate
  <2>3. DOMAIN d = Fields /\ ProposalsOK(d.proposals, d.next_proposal)
    BY DEF DatabaseOK
  <2>4. RefersTo(op.ops, next)
    <3>1. ASSUME NEW k \in DOMAIN op.ops, op.ops[k].type \in {"proposal_update", "proposal_delete"}
          PROVE  next > op.ops[k].id
      <4> DEFINE ops == op.ops
                 visited == UNION {{ops[i]} \cup Proposed[ops[i]] : i \in DOMAIN ops}
      <4>1. op.ops[k].id \in Updated(op.ops)
        <5>1. ops[k] \in visited
          BY <3>1, SMTT(30)
        <5> HIDE DEF visited
        <5>2. ops[k] \in {o \in visited : o.type \in {"proposal_update", "proposal_delete"}}
          BY <3>1, <5>1
        <5> QED BY <5>2 DEF Updated, visited
      <4> QED BY <2>1, <4>1
    <3> QED BY <3>1 DEF RefersTo
  <2>5. ProposalOK(next, p)
    <3>1. DOMAIN p = {"ops", "expiration", "required", "approvals", "reviewed", "review_time"}
      BY SMTT(30)
    <3>2. p.ops = op.ops /\ p.expiration = op.expiration
      BY SMTT(30)
    <3> HIDE DEF p
    <3> QED BY <2>2, <2>4, <3>1, <3>2 DEF ProposalOK
  <2> HIDE DEF p
  <2>6. SameMoney(d, e) /\ SamePermits(d, e)
    BY <2>3 DEF SameMoney, SameFrame, SameHtlcs, SameVesting, SamePermits, Fields
  <2>7. e.proposals = With(d.proposals, next, p) /\ e.next_proposal = next + 1
    BY <2>3 DEF Fields
  <2> HIDE DEF e, r
  <2>8. Keyed(d.proposals, next) /\ next \notin DOMAIN d.proposals
    BY <2>3, NextIsNew DEF ProposalsOK
  <2>9. ProposalsOK(e.proposals, e.next_proposal)
    <3>1. Keyed(e.proposals, e.next_proposal)
      BY <2>7, <2>8, WithKeyed
    <3> QED BY <2>3, <2>5, <2>7, <3>1 DEF ProposalsOK, With
  <2>10. ProposalsKept(d, e, op)
    <3>1. ASSUME NEW id \in DOMAIN d.proposals PROVE ProposalKept(d, e, op, id)
      <4>1. id \in DOMAIN e.proposals /\ e.proposals[id] = d.proposals[id]
        BY <2>7, <2>8 DEF With
      <4> QED BY <4>1 DEF ProposalKept
    <3> QED BY <3>1 DEF ProposalsKept
  <2>11. PermitsOK(e.permits, e.next_permit, e.now) /\ ClaimsWithin(d, e)
    BY <2>6, PartsKept, SameKept DEF SameMoney
  <2>12. op.type \notin Movements /\ Executes(r, op)
    BY <2>1 DEF Movements, Transfers, Payments, Receipts, Executes
  <2>13. Evaluation(d, r, op)
    BY <2>1, <2>6, <2>9, <2>10, <2>11, <2>12, Concluded
  <2> QED BY <2>13 DEF r

\* proposal_delete_evaluator
<1>ProposalDeleteEvaluated.
      ASSUME NEW d, DatabaseOK(d), NEW op, op.type = "proposal_delete", proposal_delete(d, op).ok
      PROVE  Evaluation(d, proposal_delete(d, op), op)
  <2> USE <1>ProposalDeleteEvaluated
  <2> DEFINE r == proposal_delete(d, op)
             e == [d EXCEPT !.proposals = Without(@, op.id)]
  <2>1. op.id \in DOMAIN d.proposals
    BY DEF proposal_delete, Failed
  <2>2. /\ op.by \in d.proposals[op.id].required
        /\ r.db = e /\ r.virtual = <<>> /\ r.executes = {}
    BY <2>1 DEF proposal_delete, Check, Ok, Failed
  <2>3. DOMAIN d = Fields /\ ProposalsOK(d.proposals, d.next_proposal)
    BY DEF DatabaseOK
  <2>4. SameMoney(d, e) /\ SamePermits(d, e)
    BY <2>3 DEF SameMoney, SameFrame, SameHtlcs, SameVesting, SamePermits, Fields
  <2>5. e.proposals = Without(d.proposals, op.id) /\ e.next_proposal = d.next_proposal
    BY <2>3 DEF Fields
  <2> HIDE DEF e, r
  <2>6. ProposalsOK(e.proposals, e.next_proposal)
    BY <2>3, <2>5 DEF ProposalsOK, Keyed, Without
  <2>7. ProposalsKept(d, e, op)
    <3>1. ASSUME NEW id \in DOMAIN d.proposals PROVE ProposalKept(d, e, op, id)
      <4>1. IF id = op.id THEN id \notin DOMAIN e.proposals
            ELSE id \in DOMAIN e.proposals /\ e.proposals[id] = d.proposals[id]
        BY <2>5 DEF Without
      <4> QED BY <2>2, <4>1 DEF ProposalKept
    <3> QED BY <3>1 DEF ProposalsKept
  <2>8. PermitsOK(e.permits, e.next_permit, e.now) /\ ClaimsWithin(d, e)
    BY <2>4, PartsKept, SameKept DEF SameMoney
  <2>9. op.type \notin Movements /\ Executes(r, op)
    BY <2>2 DEF Movements, Transfers, Payments, Receipts, Executes
  <2>10. Evaluation(d, r, op)
    BY <2>2, <2>4, <2>6, <2>7, <2>8, <2>9, Concluded
  <2> QED BY <2>10 DEF r

\* proposal_update_evaluator
<1>ProposalUpdateEvaluated.
      ASSUME NEW d, DatabaseOK(d), NEW op, op.type = "proposal_update", proposal_update(d, op).ok
      PROVE  Evaluation(d, proposal_update(d, op), op)
  <2> USE <1>ProposalUpdateEvaluated
  <2> DEFINE r == proposal_update(d, op)
             e == approve(d, op)
             p == d.proposals[op.id]
             q == e.proposals[op.id]
  <2>1. op.id \in DOMAIN d.proposals /\ (p.reviewed /\ d.now >= p.review_time => op.add = {})
    BY DEF proposal_update, Failed
  <2>2. /\ r.db = e /\ r.virtual = <<>>
        /\ r.executes # {} => r.executes = {op.id} /\ ~ q.reviewed
    <3>1. CASE q.reviewed \/ ~ is_authorized_to_execute(q)
      <4>1. r = Ok(e)
        BY <3>1 DEF proposal_update, Failed
      <4> HIDE DEF e, r
      <4>2. r.db = e /\ r.virtual = <<>> /\ r.executes = {}
        BY <4>1, SMTT(30) DEF Ok
      <4> QED BY <4>2
    <3>2. CASE ~(q.reviewed \/ ~ is_authorized_to_execute(q))
      <4>1. r = [Ok(e) EXCEPT !.executes = {op.id}]
        BY <3>2 DEF proposal_update, Failed
      <4>2. r.db = e /\ r.virtual = <<>> /\ r.executes = {op.id}
        BY <4>1 DEF Ok
      <4> QED BY <3>2, <4>2
    <3> QED BY <3>1, <3>2
  <2>3. DOMAIN d = Fields /\ ProposalsOK(d.proposals, d.next_proposal)
    BY DEF DatabaseOK
  <2>4. ProposalOK(op.id, p)
    BY <2>1, <2>3 DEF ProposalsOK
  <2>5. SameMoney(d, e) /\ SamePermits(d, e) /\ e.next_proposal = d.next_proposal
    BY <2>3 DEF SameMoney, SameFrame, SameHtlcs, SameVesting, SamePermits, Fields, approve
  <2>6. /\ DOMAIN e.proposals = DOMAIN d.proposals
        /\ \A id \in DOMAIN d.proposals : id # op.id => e.proposals[id] = d.proposals[id]
        /\ q = [p EXCEPT !.approvals = (@ \cup op.add) \ op.remove]
    BY <2>1, <2>3 DEF Fields, approve
  <2> HIDE DEF e, p, q, r
  <2>7. /\ ProposalOK(op.id, q)
        /\ q.reviewed = p.reviewed /\ q.expiration = p.expiration
        /\ q.approvals = (p.approvals \cup op.add) \ op.remove
    BY <2>4, <2>6 DEF ProposalOK
  <2>8. ProposalsOK(e.proposals, e.next_proposal)
    BY <2>3, <2>5, <2>6, <2>7 DEF ProposalsOK, Keyed, q
  <2>9. ProposalsKept(d, e, op)
    <3>1. ASSUME NEW id \in DOMAIN d.proposals, id # op.id PROVE ProposalKept(d, e, op, id)
      BY <2>6, <3>1 DEF ProposalKept
    <3>2. p.reviewed /\ d.now >= p.review_time => q.approvals \subseteq p.approvals
      BY <2>1, <2>7
    <3>3. ProposalKept(d, e, op, op.id)
      BY <2>1, <2>6, <2>7, <3>2 DEF ProposalKept, p, q
    <3> QED BY <3>1, <3>3 DEF ProposalsKept
  <2>10. PermitsOK(e.permits, e.next_permit, e.now) /\ ClaimsWithin(d, e)
    BY <2>5, PartsKept, SameKept DEF SameMoney
  <2>11. op.type \notin Movements
    BY DEF Movements, Transfers, Payments, Receipts
  <2>12. Executes(r, op)
    BY <2>1, <2>2, <2>6 DEF Executes, q
  <2>13. Evaluation(d, r, op)
    BY <2>2, <2>5, <2>8, <2>9, <2>10, <2>11, <2>12, Concluded
  <2> QED BY <2>13 DEF r

<1> SUFFICES ASSUME NEW d, DatabaseOK(d), NEW op \in Operations, evaluate(d, op).ok,
                    op.type \in {"proposal_create", "proposal_delete", "proposal_update"}
             PROVE  Evaluation(d, evaluate(d, op), op)
  BY DEF AreEvaluated
<1>1. CASE op.type = "proposal_create"
  <2>1. evaluate(d, op) = proposal_create(d, op)
    BY <1>1 DEF evaluate
  <2> QED BY <1>1, <2>1, <1>ProposalCreateEvaluated
<1>2. CASE op.type = "proposal_delete"
  <2>1. evaluate(d, op) = proposal_delete(d, op)
    BY <1>2 DEF evaluate
  <2> QED BY <1>2, <2>1, <1>ProposalDeleteEvaluated
<1>3. CASE op.type = "proposal_update"
  <2>1. evaluate(d, op) = proposal_update(d, op)
    BY <1>3 DEF evaluate
  <2> QED BY <1>3, <2>1, <1>ProposalUpdateEvaluated
<1> QED BY <1>1, <1>2, <1>3

-----------------------------------------------------------------------------
(* Withdraw permissions.                                                     *)

ClaimSet(S) == IsFiniteSet(S) /\ \A c \in S : c[3] \in Nat

\* A part of the claims does not amount to more than all of them.
LEMMA ClaimedPart ==
    ASSUME NEW S, NEW T, ClaimSet(T), S \subseteq T
    PROVE  Claimed(S) \in Nat /\ Claimed(T) \in Nat /\ Claimed(S) <= Claimed(T)
<1> DEFINE f == [c \in T |-> c[3]]
           g == [c \in S |-> c[3]]
<1>1. NaturalValued(f) /\ PartOf(g, f)
  BY DEF NaturalValued, PartOf, ClaimSet
<1>2. Claimed(S) = SumOfAll(g) /\ Claimed(T) = SumOfAll(f)
  BY TotalIs DEF Claimed
<1> HIDE DEF f, g
<1> QED BY <1>1, <1>2, AllPart

PermitFields == {"from", "to", "limit", "period", "start", "expiration", "claimed", "claims"}

\* A claim c was made at a time before the end of the period.
ClaimOK(c, p, now) ==
    /\ c[1] \in Nat /\ c[2] \in Nat /\ c[3] \in Nat
    /\ c[1] <= now /\ c[1] < p.start + p.period
    /\ c[2] <= Cardinality(p.claims)

\* The parts of a permission.
LEMMA PermitTypes ==
    ASSUME NEW p, NEW now \in Nat, PermitOK(p, now)
    PROVE  /\ DOMAIN p = PermitFields
           /\ p.from \in Account /\ p.to \in Account /\ p.from # p.to
           /\ p.limit \in Nat /\ p.period \in Nat \ {0} /\ p.start \in Nat /\ p.claimed \in Nat
           /\ IsFiniteSet(p.claims) /\ ClaimSet(p.claims)
           /\ \A c \in p.claims : ClaimOK(c, p, now)
           /\ Counted(p, now) \subseteq p.claims
           /\ Claimed(Counted(p, now)) <= p.claimed
<1> QED BY DEF PermitOK, PermitFields, ClaimSet, ClaimOK, Counted

\* Time goes by.
LEMMA PermitLater ==
    ASSUME NEW p, NEW now \in Nat, PermitOK(p, now), NEW later \in Nat, now < later
    PROVE  PermitOK(p, later)
<1>1. /\ p.claimed \in Nat
      /\ IsFiniteSet(p.claims) /\ ClaimSet(p.claims)
      /\ \A c \in p.claims : ClaimOK(c, p, now)
      /\ Counted(p, now) \subseteq p.claims
      /\ Claimed(Counted(p, now)) <= p.claimed
  BY PermitTypes
<1>2. \A c \in p.claims : ClaimOK(c, p, later)
  BY <1>1, SMTT(30) DEF ClaimOK
<1>3. Counted(p, later) \subseteq Counted(p, now)
  BY <1>1, SMTT(30) DEF Counted, ClaimOK
<1>4. Claimed(Counted(p, later)) <= p.claimed
  <2>1. ClaimSet(Counted(p, now))
    BY <1>1, FS_Subset DEF ClaimSet
  <2>2. /\ Claimed(Counted(p, later)) \in Nat /\ Claimed(Counted(p, now)) \in Nat
        /\ Claimed(Counted(p, later)) <= Claimed(Counted(p, now))
    BY <1>3, <2>1, ClaimedPart
  <2> QED BY <1>1, <2>2, SMTT(30)
<1> QED BY <1>2, <1>4 DEF PermitOK, ClaimOK

\* A claim of n: the period moves on to the one that now is in, the claim is noted.
ClaimOf(p, q, now, n) ==
    /\ DOMAIN q = PermitFields
    /\ q.from = p.from /\ q.to = p.to /\ q.limit = p.limit /\ q.period = p.period
    /\ q.start = p.start + ((now - p.start) \div p.period) * p.period
    /\ q.claimed = IF (now - p.start) \div p.period = 0 THEN p.claimed + n ELSE n
    /\ q.claims = p.claims \cup {<<now, Cardinality(p.claims) + 1, n>>}

\* The four operations on permissions.
LEMMA PermitsEvaluated ==
    AreEvaluated({"withdraw_permission_create", "withdraw_permission_update",
                  "withdraw_permission_delete", "withdraw_permission_claim"})

\* No claims amount to nothing.
<1>ClaimedNothing. Claimed({}) = 0
  <2> DEFINE f == [c \in {} |-> c[3]]
  <2>1. DOMAIN f = {}
    BY SMTT(30)
  <2>2. Claimed({}) = SumOf(f, {})
    BY <2>1, TotalIs DEF Claimed, SumOfAll
  <2> QED BY <2>2, SumEmpty

\* A new claim adds its amount.
<1>ClaimedOneMore. ASSUME NEW S, NEW x, ClaimSet(S), x \notin S, x[3] \in Nat
                   PROVE  /\ ClaimSet(S \cup {x})
                          /\ Claimed(S) \in Nat
                          /\ Claimed(S \cup {x}) = Claimed(S) + x[3]
  <2> USE <1>ClaimedOneMore
  <2> DEFINE T == S \cup {x}
             f == [c \in S |-> c[3]]
             g == [c \in T |-> c[3]]
  <2>1. ClaimSet(T)
    BY FS_AddElement DEF ClaimSet
  <2>2. IntegerValued(f) /\ ExtendedAt(f, g, x) /\ g[x] \in Int /\ g[x] = x[3]
    BY SMTT(30) DEF IntegerValued, IntegerOn, ExtendedAt, ClaimSet
  <2>3. Claimed(S) = SumOfAll(f) /\ Claimed(T) = SumOfAll(g)
    BY TotalIs DEF Claimed
  <2> HIDE DEF f, g
  <2>4. SumOfAll(g) = SumOfAll(f) + g[x]
    BY <2>2, AllAdd, SMTT(30)
  <2>5. Claimed(S) \in Nat
    BY ClaimedPart
  <2> QED BY <2>1, <2>2, <2>3, <2>4, <2>5

\* A new permission, without claims.
<1>PermitAdded.
      ASSUME NEW p, NEW now \in Nat, DOMAIN p = PermitFields,
             p.from \in Account, p.to \in Account, p.from # p.to,
             p.limit \in Nat, p.period \in Nat \ {0}, p.start \in Nat, p.claimed = 0, p.claims = {}
      PROVE  PermitOK(p, now)
  <2> USE <1>PermitAdded
  <2>1. Counted(p, now) = {} /\ IsFiniteSet(p.claims)
    BY FS_EmptySet DEF Counted
  <2>2. Claimed(Counted(p, now)) <= p.claimed /\ p.claimed \in Nat
    BY <2>1, <1>ClaimedNothing, SMTT(30)
  <2> QED BY <2>1, <2>2 DEF PermitOK, PermitFields

\* Another period, which starts now or later.
<1>PermitMoved.
      ASSUME NEW p, NEW now \in Nat, PermitOK(p, now), NEW q, DOMAIN q = PermitFields,
             q.from = p.from, q.to = p.to, q.claimed = p.claimed, q.claims = p.claims,
             q.limit \in Nat, q.period \in Nat \ {0}, q.start \in Nat, q.start >= now
      PROVE  PermitOK(q, now)
  <2> USE <1>PermitMoved
  <2>1. /\ p.from \in Account /\ p.to \in Account /\ p.from # p.to /\ p.claimed \in Nat
        /\ IsFiniteSet(p.claims) /\ ClaimSet(p.claims)
        /\ \A c \in p.claims : ClaimOK(c, p, now)
        /\ Counted(p, now) \subseteq p.claims
        /\ Claimed(Counted(p, now)) <= p.claimed
    BY PermitTypes
  <2>2. \A c \in p.claims : ClaimOK(c, q, now)
    BY <2>1, SMTT(30) DEF ClaimOK
  <2>3. Counted(q, now) \subseteq Counted(p, now)
    BY <2>1, SMTT(30) DEF Counted, ClaimOK
  <2>4. Claimed(Counted(q, now)) <= q.claimed
    <3>1. ClaimSet(Counted(p, now))
      BY <2>1, FS_Subset DEF ClaimSet
    <3>2. /\ Claimed(Counted(q, now)) \in Nat /\ Claimed(Counted(p, now)) \in Nat
          /\ Claimed(Counted(q, now)) <= Claimed(Counted(p, now))
      BY <2>3, <3>1, ClaimedPart
    <3> QED BY <2>1, <3>2, SMTT(30)
  <2> QED BY <2>1, <2>2, <2>4 DEF PermitOK, ClaimOK, PermitFields

\* A claim of what is available keeps the limit.
<1>ClaimKeeps. ASSUME NEW p, NEW now \in Nat, PermitOK(p, now), p.start <= now,
                      NEW n \in Nat \ {0}, n <= available_this_period(p, now),
                      NEW q, ClaimOf(p, q, now, n)
               PROVE  PermitOK(q, now) /\ Within(q)
  <2> USE <1>ClaimKeeps
  <2> DEFINE k == (now - p.start) \div p.period
             size == Cardinality(p.claims)
             x == <<now, size + 1, n>>
             current == {c \in q.claims : c[1] >= q.start /\ c[1] < q.start + q.period}
  <2>1. /\ p.from \in Account /\ p.to \in Account /\ p.from # p.to
        /\ p.limit \in Nat /\ p.period \in Nat \ {0} /\ p.start \in Nat /\ p.claimed \in Nat
        /\ IsFiniteSet(p.claims) /\ ClaimSet(p.claims)
        /\ \A c \in p.claims : ClaimOK(c, p, now)
        /\ Counted(p, now) \subseteq p.claims
        /\ Claimed(Counted(p, now)) <= p.claimed
    BY PermitTypes
  <2>2. /\ DOMAIN q = PermitFields
        /\ q.from = p.from /\ q.to = p.to /\ q.limit = p.limit /\ q.period = p.period
        /\ q.start = p.start + k * p.period
        /\ k = 0 => q.claimed = p.claimed + n
        /\ k # 0 => q.claimed = n
        /\ q.claims = p.claims \cup {x}
    BY DEF ClaimOf
  <2>3. k \in Nat /\ k * p.period <= now - p.start /\ now - p.start < k * p.period + p.period
    <3>1. now - p.start \in Nat
      BY <2>1, SMTT(30)
    <3> QED BY <2>1, <3>1, Quotient
  <2>4. x[1] = now /\ x[2] = size + 1 /\ x[3] = n
    BY SMTT(30)
  <2> HIDE DEF k, x
  <2>5. size \in Nat
    BY <2>1, FS_CardinalityType
  <2>6. x \notin p.claims
    BY <2>1, <2>4, <2>5, SMTT(30) DEF ClaimOK
  <2>7. IsFiniteSet(q.claims) /\ Cardinality(q.claims) = size + 1
    <3> DEFINE S == p.claims
    <3>1. IsFiniteSet(S) /\ x \notin S
      BY <2>1, <2>6
    <3> HIDE DEF S
    <3>2. IsFiniteSet(S \cup {x}) /\ Cardinality(S \cup {x}) = Cardinality(S) + 1
      BY <3>1, FS_AddElement
    <3> QED BY <2>2, <3>2 DEF S
  <2> HIDE DEF size
  <2>8. /\ q.start \in Nat /\ p.start <= q.start /\ q.start <= now /\ now < q.start + q.period
        /\ k = 0 => q.start = p.start
        /\ k # 0 => p.start + p.period <= q.start
    <3> DEFINE s == k * p.period
    <3>1. s \in Nat /\ (k = 0 => s = 0) /\ (k # 0 => p.period <= s)
      BY <2>1, <2>3, SMTT(30)
    <3>2. q.start = p.start + s /\ s <= now - p.start /\ now - p.start < s + p.period
      BY <2>2, <2>3
    <3> HIDE DEF s
    <3> QED BY <2>1, <2>2, <3>1, <3>2, SMTT(30)
  <2>9. ASSUME NEW c \in q.claims
        PROVE  ClaimOK(c, q, now)
    <3>1. CASE c = x
      BY <2>4, <2>5, <2>7, <2>8, <3>1, SMTT(30) DEF ClaimOK
    <3>2. CASE c \in p.claims
      <4>1. ClaimOK(c, p, now)
        BY <2>1, <3>2
      <4> QED BY <2>1, <2>2, <2>5, <2>7, <2>8, <4>1, SMTT(30) DEF ClaimOK, size
    <3> QED BY <2>2, <3>1, <3>2
  <2>10. ClaimSet(Counted(p, now)) /\ x \notin Counted(p, now)
    BY <2>1, <2>6, FS_Subset DEF ClaimSet
  <2>11. /\ ClaimSet(Counted(q, now)) /\ Claimed(Counted(q, now)) \in Nat
         /\ Claimed(Counted(q, now)) <= q.claimed /\ q.claimed \in Nat /\ q.claimed <= q.limit
    <3>1. CASE k = 0
      <4>1. Counted(q, now) = Counted(p, now) \cup {x}
        BY <2>2, <2>4, <2>8, <3>1, SMTT(30) DEF Counted
      <4>2. /\ ClaimSet(Counted(q, now)) /\ Claimed(Counted(p, now)) \in Nat
            /\ Claimed(Counted(q, now)) = Claimed(Counted(p, now)) + n
        <5>1. x[3] \in Nat
          BY <2>4, SMTT(30)
        <5> DEFINE S == Counted(p, now)
        <5>2. ClaimSet(S) /\ x \notin S
          BY <2>10
        <5> HIDE DEF S
        <5>3. ClaimSet(S \cup {x}) /\ Claimed(S) \in Nat /\ Claimed(S \cup {x}) = Claimed(S) + x[3]
          BY <5>1, <5>2, <1>ClaimedOneMore
        <5> QED BY <2>4, <4>1, <5>3 DEF S
      <4>3. p.claimed + n <= p.limit
        <5>1. ~ (now >= p.start + p.period)
          BY <2>1, <2>2, <2>8, <3>1, SMTT(30)
        <5>2. available_this_period(p, now) = IF p.limit > p.claimed THEN p.limit - p.claimed ELSE 0
          BY <5>1 DEF available_this_period
        <5> QED BY <2>1, <5>2, SMTT(30)
      <4> QED BY <2>1, <2>2, <3>1, <4>2, <4>3, SMTT(30)
    <3>2. CASE k # 0
      <4>1. Counted(q, now) = {} \cup {x}
        BY <2>1, <2>2, <2>4, <2>8, <3>2, SMTT(30) DEF Counted, ClaimOK
      <4>2. ClaimSet({}) /\ x \notin {} /\ x[3] \in Nat
        BY <2>4, FS_EmptySet, SMTT(30) DEF ClaimSet
      <4>3. ClaimSet({} \cup {x}) /\ Claimed({} \cup {x}) = Claimed({}) + x[3]
        BY <4>2, <1>ClaimedOneMore
      <4>4. ClaimSet(Counted(q, now)) /\ Claimed(Counted(q, now)) = n
        BY <2>4, <4>1, <4>3, <1>ClaimedNothing, SMTT(30)
      <4>5. n <= p.limit
        <5>1. now >= p.start + p.period
          BY <2>1, <2>8, <3>2, SMTT(30)
        <5> QED BY <5>1 DEF available_this_period
      <4> QED BY <2>1, <2>2, <3>2, <4>4, <4>5, SMTT(30)
    <3> QED BY <3>1, <3>2
  <2>12. PermitOK(q, now)
    <3>1. /\ q.from \in Account /\ q.to \in Account /\ q.from # q.to
          /\ q.limit \in Nat /\ q.period \in Nat \ {0}
      BY <2>1, <2>2
    <3> QED BY <2>2, <2>7, <2>8, <2>9, <2>11, <3>1 DEF PermitOK, PermitFields, ClaimOK
  <2>13. Within(q)
    <3>1. current \subseteq Counted(q, now)
      BY DEF Counted
    <3> HIDE DEF current
    <3>2. Claimed(current) \in Nat /\ Claimed(current) <= Claimed(Counted(q, now))
      BY <2>11, <3>1, ClaimedPart
    <3>3. Claimed(current) <= q.limit
      BY <2>1, <2>2, <2>11, <3>2, SMTT(30)
    <3> QED BY <3>3 DEF Within, Claimed, current
  <2> QED BY <2>12, <2>13

\* An operation on permissions that moves no money.
<1>PermitEvaluated.
      ASSUME NEW d, DatabaseOK(d), NEW e, SameMoney(d, e), SameProposals(d, e),
             PermitsOK(e.permits, e.next_permit, d.now), ClaimsWithin(d, e),
             NEW op, op.type \notin Movements,
             NEW r, r.db = e, r.virtual = <<>>, r.executes = {}
      PROVE  Evaluation(d, r, op)
  <2> USE <1>PermitEvaluated
  <2>1. SameFrame(d, e)
    BY DEF SameMoney
  <2>2. PermitsOK(e.permits, e.next_permit, e.now) /\ ProposalsOK(e.proposals, e.next_proposal)
    BY <2>1, PartsKept DEF SameFrame
  <2>3. ProposalsKept(d, e, op)
    BY SameKept
  <2>4. Executes(r, op)
    BY DEF Executes
  <2> QED BY <2>2, <2>3, <2>4, Concluded

\* What the validation says of an operation that sets a permission.
<1>SetPermit. ASSUME NEW op \in Operations, op.type \in SetsPermit
              PROVE  /\ op.from \in Account /\ op.to \in Account /\ op.from # op.to
                     /\ op.limit \in Nat /\ op.period \in Nat \ {0} /\ op.start \in Nat
  <2> USE <1>SetPermit
  <2>1. validate(op)
    BY Constants
  <2> QED BY <2>1 DEF validate

\* withdraw_permission_create_evaluator
<1>PermitCreateEvaluated.
      ASSUME NEW d, DatabaseOK(d), NEW op \in Operations, op.type = "withdraw_permission_create",
             withdraw_permission_create(d, op).ok
      PROVE  Evaluation(d, withdraw_permission_create(d, op), op)
  <2> USE <1>PermitCreateEvaluated
  <2> DEFINE r == withdraw_permission_create(d, op)
             p == [from |-> op.from, to |-> op.to, limit |-> op.limit,
                   period |-> op.period, start |-> op.start,
                   expiration |-> op.start + op.periods * op.period,
                   claimed |-> 0, claims |-> {}]
             e == [d EXCEPT !.permits = With(@, d.next_permit, p), !.next_permit = @ + 1]
  <2>1. r.db = e /\ r.virtual = <<>> /\ r.executes = {}
    BY DEF withdraw_permission_create, Check, Ok, Failed
  <2>2. /\ op.from \in Account /\ op.to \in Account /\ op.from # op.to
        /\ op.limit \in Nat /\ op.period \in Nat \ {0} /\ op.start \in Nat
    BY <1>SetPermit DEF SetsPermit
  <2>3. DOMAIN d = Fields /\ d.now \in Nat /\ PermitsOK(d.permits, d.next_permit, d.now)
    BY DEF DatabaseOK
  <2>4. /\ DOMAIN p = PermitFields
        /\ p.from = op.from /\ p.to = op.to /\ p.limit = op.limit /\ p.period = op.period
        /\ p.start = op.start /\ p.claimed = 0 /\ p.claims = {}
    BY DEF PermitFields
  <2> HIDE DEF p
  <2>5. PermitOK(p, d.now)
    BY <2>2, <2>3, <2>4, <1>PermitAdded
  <2>6. SameMoney(d, e) /\ SameProposals(d, e)
    BY <2>3 DEF SameMoney, SameFrame, SameHtlcs, SameVesting, SameProposals, Fields
  <2>7. e.permits = With(d.permits, d.next_permit, p) /\ e.next_permit = d.next_permit + 1
    BY <2>3 DEF Fields
  <2>8. op.type \notin Movements
    BY DEF Movements, Transfers, Payments, Receipts
  <2> HIDE DEF e, r
  <2>9. PermitsOK(e.permits, e.next_permit, d.now) /\ ClaimsWithin(d, e)
    <3>1. Keyed(d.permits, d.next_permit) /\ d.next_permit \notin DOMAIN d.permits
      BY <2>3, NextIsNew DEF PermitsOK
    <3>2. Keyed(e.permits, e.next_permit)
      BY <2>7, <3>1, WithKeyed
    <3>3. PermitsOK(e.permits, e.next_permit, d.now)
      BY <2>3, <2>5, <2>7, <3>2 DEF PermitsOK, With
    <3>4. ASSUME NEW i \in DOMAIN d.permits
          PROVE  e.permits[i] = d.permits[i]
      BY <2>7, <3>1 DEF With
    <3> QED BY <3>3, <3>4 DEF ClaimsWithin
  <2>10. Evaluation(d, r, op)
    BY <2>1, <2>6, <2>8, <2>9, <1>PermitEvaluated
  <2> QED BY <2>10 DEF r

\* withdraw_permission_update_evaluator, which may move the period
<1>PermitUpdateEvaluated.
      ASSUME NEW d, DatabaseOK(d), NEW op \in Operations, op.type = "withdraw_permission_update",
             withdraw_permission_update(d, op).ok
      PROVE  Evaluation(d, withdraw_permission_update(d, op), op)
  <2> USE <1>PermitUpdateEvaluated
  <2> DEFINE r == withdraw_permission_update(d, op)
             p == d.permits[op.id]
             q == [p EXCEPT !.start = op.start, !.period = op.period, !.limit = op.limit,
                      !.expiration = op.start + op.periods * op.period]
             e == [d EXCEPT !.permits[op.id] = q]
  <2>1. op.id \in DOMAIN d.permits
    BY DEF withdraw_permission_update, Failed
  <2>2. op.start >= d.now /\ r.db = e /\ r.virtual = <<>> /\ r.executes = {}
    BY <2>1 DEF withdraw_permission_update, Check, Ok, Failed
  <2>3. op.limit \in Nat /\ op.period \in Nat \ {0} /\ op.start \in Nat
    BY <1>SetPermit DEF SetsPermit
  <2>4. DOMAIN d = Fields /\ d.now \in Nat /\ PermitsOK(d.permits, d.next_permit, d.now)
    BY DEF DatabaseOK
  <2>5. PermitOK(p, d.now) /\ DOMAIN p = PermitFields
    BY <2>1, <2>4 DEF PermitsOK, PermitOK, PermitFields
  <2> HIDE DEF p
  <2>6. /\ DOMAIN q = PermitFields
        /\ q.from = p.from /\ q.to = p.to /\ q.claimed = p.claimed /\ q.claims = p.claims
        /\ q.limit = op.limit /\ q.period = op.period /\ q.start = op.start
    BY <2>5 DEF PermitFields
  <2> HIDE DEF q
  <2>7. PermitOK(q, d.now)
    <3>1. q.limit \in Nat /\ q.period \in Nat \ {0} /\ q.start \in Nat /\ q.start >= d.now
      BY <2>2, <2>3, <2>6
    <3> QED BY <2>4, <2>5, <2>6, <3>1, <1>PermitMoved, SMTT(30)
  <2>8. SameMoney(d, e) /\ SameProposals(d, e)
    BY <2>4 DEF SameMoney, SameFrame, SameHtlcs, SameVesting, SameProposals, Fields
  <2>9. e.permits = Replaced(d.permits, op.id, q) /\ e.next_permit = d.next_permit
    BY <2>4 DEF Fields, Replaced
  <2>10. op.type \notin Movements
    BY DEF Movements, Transfers, Payments, Receipts
  <2> HIDE DEF e, r
  <2>11. PermitsOK(e.permits, e.next_permit, d.now) /\ ClaimsWithin(d, e)
    <3>1. /\ DOMAIN e.permits = DOMAIN d.permits
          /\ e.permits[op.id] = q
          /\ \A i \in DOMAIN d.permits : i # op.id => e.permits[i] = d.permits[i]
      BY <2>1, <2>9 DEF Replaced
    <3>2. e.permits[op.id].claims = d.permits[op.id].claims
      BY <2>6, <3>1 DEF p
    <3>3. PermitsOK(e.permits, e.next_permit, d.now)
      BY <2>4, <2>7, <2>9, <3>1 DEF PermitsOK, Keyed
    <3> QED BY <3>1, <3>2, <3>3 DEF ClaimsWithin
  <2>12. Evaluation(d, r, op)
    BY <2>2, <2>8, <2>10, <2>11, <1>PermitEvaluated
  <2> QED BY <2>12 DEF r

\* withdraw_permission_delete_evaluator
<1>PermitDeleteEvaluated.
      ASSUME NEW d, DatabaseOK(d), NEW op \in Operations, op.type = "withdraw_permission_delete",
             withdraw_permission_delete(d, op).ok
      PROVE  Evaluation(d, withdraw_permission_delete(d, op), op)
  <2> USE <1>PermitDeleteEvaluated
  <2> DEFINE r == withdraw_permission_delete(d, op)
             e == [d EXCEPT !.permits = Without(@, op.id)]
  <2>1. op.id \in DOMAIN d.permits
    BY DEF withdraw_permission_delete, Failed
  <2>2. r.db = e /\ r.virtual = <<>> /\ r.executes = {}
    BY <2>1 DEF withdraw_permission_delete, Check, Ok, Failed
  <2>3. DOMAIN d = Fields /\ PermitsOK(d.permits, d.next_permit, d.now)
    BY DEF DatabaseOK
  <2>4. SameMoney(d, e) /\ SameProposals(d, e)
    BY <2>3 DEF SameMoney, SameFrame, SameHtlcs, SameVesting, SameProposals, Fields
  <2>5. e.permits = Without(d.permits, op.id) /\ e.next_permit = d.next_permit
    BY <2>3 DEF Fields
  <2>6. op.type \notin Movements
    BY DEF Movements, Transfers, Payments, Receipts
  <2> HIDE DEF e, r
  <2>7. PermitsOK(e.permits, e.next_permit, d.now) /\ ClaimsWithin(d, e)
    <3>1. Keyed(e.permits, e.next_permit)
      BY <2>3, <2>5, WithoutKeyed DEF PermitsOK
    <3>2. \A i \in DOMAIN e.permits : i \in DOMAIN d.permits /\ e.permits[i] = d.permits[i]
      BY <2>5 DEF Without
    <3> QED BY <2>3, <3>1, <3>2 DEF PermitsOK, ClaimsWithin
  <2>8. Evaluation(d, r, op)
    BY <2>2, <2>4, <2>6, <2>7, <1>PermitEvaluated
  <2> QED BY <2>8 DEF r

\* withdraw_permission_claim_evaluator
<1>PermitClaimEvaluated.
      ASSUME NEW d, DatabaseOK(d), NEW op \in Operations, op.type = "withdraw_permission_claim",
             withdraw_permission_claim(d, op).ok
      PROVE  Evaluation(d, withdraw_permission_claim(d, op), op)
  <2> USE <1>PermitClaimEvaluated
  <2> DEFINE r == withdraw_permission_claim(d, op)
             p == d.permits[op.id]
             periods == (d.now - p.start) \div p.period
             m == -op.amount
             c == [d.balance EXCEPT ![p.from] = @ + m]
             e == [adjust_balance(adjust_balance(d, p.from, m), p.to, op.amount) EXCEPT
                         !.permits[op.id].start = @ + periods * p.period,
                         !.permits[op.id].claimed = IF periods = 0 THEN @ + op.amount ELSE op.amount,
                         !.permits[op.id].claims =
                             @ \cup {<<d.now, Cardinality(@) + 1, op.amount>>}]
             q == e.permits[op.id]
  <2>1. op.id \in DOMAIN d.permits
    BY DEF withdraw_permission_claim, Failed
  <2>2. /\ p.to = op.to /\ p.from = op.from /\ p.start <= d.now
        /\ op.amount <= available_this_period(p, d.now) /\ d.balance[p.from] >= op.amount
        /\ r.db = e /\ r.virtual = <<>> /\ r.executes = {}
    BY <2>1 DEF withdraw_permission_claim, Check, Ok, Failed
  <2>3. op.amount \in Nat \ {0} /\ op.amount \in Nat
    BY Constants DEF validate, HasAmount
  <2>4. /\ d.balance \in [Account -> Nat] /\ DOMAIN d = Fields /\ d.now \in Nat
        /\ PermitsOK(d.permits, d.next_permit, d.now)
    BY DEF DatabaseOK
  <2>5. /\ PermitOK(p, d.now) /\ DOMAIN p = PermitFields
        /\ p.from \in Account /\ p.to \in Account /\ p.from # p.to
    BY <2>1, <2>4 DEF PermitsOK, PermitOK, PermitFields
  <2>6. SameFrame(d, e) /\ SameHtlcs(d, e) /\ SameVesting(d, e) /\ SameProposals(d, e)
    BY <2>4 DEF SameFrame, SameHtlcs, SameVesting, SameProposals, Fields, adjust_balance
  <2>7. Adjusted(d.balance, p.from, m, c) /\ Adjusted(c, p.to, op.amount, e.balance)
    BY <2>4 DEF adjust_balance, Fields, Adjusted
  <2>8. /\ e.next_permit = d.next_permit
        /\ DOMAIN e.permits = DOMAIN d.permits
        /\ \A i \in DOMAIN d.permits : i # op.id => e.permits[i] = d.permits[i]
    BY <2>1, <2>4 DEF adjust_balance, Fields
  <2>9. ClaimOf(p, q, d.now, op.amount)
    <3> DEFINE s == p.start + periods * p.period
               n == IF periods = 0 THEN p.claimed + op.amount ELSE op.amount
               cs == p.claims \cup {<<d.now, Cardinality(p.claims) + 1, op.amount>>}
    <3>1. q = [[[p EXCEPT !.start = s] EXCEPT !.claimed = n] EXCEPT !.claims = cs]
      BY <2>1, <2>4, <2>5, SMTT(30) DEF adjust_balance, Fields, PermitFields
    <3> HIDE DEF s, n, cs, q
    <3>2. /\ DOMAIN q = PermitFields
          /\ q.from = p.from /\ q.to = p.to /\ q.limit = p.limit /\ q.period = p.period
          /\ q.start = s /\ q.claimed = n /\ q.claims = cs
      BY <2>5, <3>1 DEF PermitFields
    <3> QED BY <3>2 DEF ClaimOf, s, n, cs
  <2>10. m = -op.amount
    BY SMTT(30)
  <2> HIDE DEF c, e, m, r, p, q
  <2>11. TransferOf(d.balance, p.from, p.to, op.amount, e.balance)
    BY <2>2, <2>3, <2>4, <2>5, <2>7, <2>10, Transferred
  <2>12. Moved(d.balance, e.balance, op, <<>>)
    <3>1. op.type \in Transfers
      BY DEF Transfers
    <3>2. TransferOf(d.balance, op.from, op.to, op.amount, e.balance)
      BY <2>2, <2>11
    <3> QED BY <3>1, <3>2, TransferMoves
  <2>13. PermitOK(q, d.now) /\ Within(q)
    BY <2>2, <2>3, <2>4, <2>5, <2>9, <1>ClaimKeeps, SMTT(30)
  <2>14. PermitsOK(e.permits, e.next_permit, d.now) /\ ClaimsWithin(d, e)
    <3>1. PermitsOK(e.permits, e.next_permit, d.now)
      BY <2>4, <2>8, <2>13 DEF PermitsOK, Keyed, q
    <3> QED BY <2>8, <2>13, <3>1 DEF ClaimsWithin, q
  <2>15. DatabaseOK(e)
    <3>1. e.balance \in [Account -> Nat]
      BY <2>11 DEF TransferOf
    <3>2. e.now = d.now
      BY <2>6 DEF SameFrame
    <3> QED BY <2>6, <2>14, <3>1, <3>2, PartsKept DEF DatabaseOK
  <2>16. Supply(e) = Supply(d)
    BY <2>6, <2>11 DEF Supply, SameHtlcs, SameVesting, TransferOf
  <2>17. ProposalsKept(d, e, op)
    BY <2>6, SameKept
  <2> QED BY <2>2, <2>6, <2>12, <2>14, <2>15, <2>16, <2>17 DEF Evaluation, Executes, SameFrame, r

<1> SUFFICES ASSUME NEW d, DatabaseOK(d), NEW op \in Operations, evaluate(d, op).ok,
                    op.type \in {"withdraw_permission_create", "withdraw_permission_update",
                                "withdraw_permission_delete", "withdraw_permission_claim"}
             PROVE  Evaluation(d, evaluate(d, op), op)
  BY DEF AreEvaluated
<1>1. CASE op.type = "withdraw_permission_create"
  <2>1. evaluate(d, op) = withdraw_permission_create(d, op)
    BY <1>1 DEF evaluate
  <2> QED BY <1>1, <2>1, <1>PermitCreateEvaluated
<1>2. CASE op.type = "withdraw_permission_update"
  <2>1. evaluate(d, op) = withdraw_permission_update(d, op)
    BY <1>2 DEF evaluate
  <2> QED BY <1>2, <2>1, <1>PermitUpdateEvaluated
<1>3. CASE op.type = "withdraw_permission_delete"
  <2>1. evaluate(d, op) = withdraw_permission_delete(d, op)
    BY <1>3 DEF evaluate
  <2> QED BY <1>3, <2>1, <1>PermitDeleteEvaluated
<1>4. CASE op.type = "withdraw_permission_claim"
  <2>1. evaluate(d, op) = withdraw_permission_claim(d, op)
    BY <1>4 DEF evaluate
  <2> QED BY <1>4, <2>1, <1>PermitClaimEvaluated
<1> QED BY <1>1, <1>2, <1>3, <1>4

-----------------------------------------------------------------------------
(* Every operation.                                                          *)

\* An operation that is applied keeps the database sound and the supply as it
\* is, its report explains the balances, and of the proposals it removes or
\* changes only the one that it names.
LEMMA Evaluated ==
    ASSUME NEW d, DatabaseOK(d), NEW op \in Operations, evaluate(d, op).ok
    PROVE  Evaluation(d, evaluate(d, op), op)
<1>1. op.type \in Types
  BY Constants DEF validate
<1>2. CASE op.type = "transfer"
  <2>1. evaluate(d, op) = transfer(d, op)
    BY <1>2 DEF evaluate
  <2> QED BY <1>2, <2>1, TransferEvaluated
<1>3. CASE op.type # "transfer"
  BY <1>1, <1>3, HtlcsEvaluated, VestingsEvaluated, InvitationsEvaluated, ProposalsEvaluated,
     PermitsEvaluated DEF AreEvaluated, Types, HasAmount, SetsPermit
<1> QED BY <1>2, <1>3

-----------------------------------------------------------------------------
(* The report of a block.                                                    *)

\* An operation in a report changes a balance by an integer.
LEMMA EffectInteger ==
    ASSUME NEW op \in Reported, NEW a
    PROVE  Effect(op, a) \in Int
<1>1. op.type \in Movements => op.amount \in Nat
  <2>1. CASE op \in Operations
    <3>1. op.type \in Types
      BY <2>1, Constants DEF validate
    <3>2. op.type \in Movements => op.type \in HasAmount
      BY <3>1 DEF Types, HasAmount, SetsPermit, Movements, Transfers, Payments, Receipts
    <3> QED BY <2>1, <3>2, Amounts
  <2>2. CASE op \in Virtual
    BY <2>2 DEF Virtual
  <2> QED BY <2>1, <2>2 DEF Reported
<1>2. CASE op.type \in Transfers
  <2>1. Effect(op, a) = Gain(a, op.from, op.to, op.amount) /\ op.amount \in Nat
    BY <1>1, <1>2, EffectOfTransfer DEF Movements
  <2> QED BY <2>1, SMTT(30) DEF Gain
<1>3. CASE op.type \in Payments
  <2>1. Effect(op, a) = (IF a = op.from THEN -op.amount ELSE 0) /\ op.amount \in Nat
    BY <1>1, <1>3, EffectOfPayment DEF Movements
  <2> QED BY <2>1, SMTT(30)
<1>4. CASE op.type \in Receipts
  <2>1. Effect(op, a) = (IF a = op.to THEN op.amount ELSE 0) /\ op.amount \in Nat
    BY <1>1, <1>4, EffectOfReceipt DEF Movements
  <2> QED BY <2>1, SMTT(30)
<1>5. CASE op.type = "vesting_balance_withdraw"
  <2>1. Effect(op, a) = (IF a = op.by THEN op.amount ELSE 0) /\ op.amount \in Nat
    BY <1>1, <1>5, EffectOfWithdrawal DEF Movements
  <2> QED BY <2>1, SMTT(30)
<1>6. CASE op.type \notin Movements
  BY <1>6, NoEffect, SMTT(30)
<1> QED BY <1>2, <1>3, <1>4, <1>5, <1>6 DEF Movements

\* A part of a report has a sum.
LEMMA AccountedInteger ==
    ASSUME NEW report \in Seq(Reported), NEW n \in Nat, n <= Len(report), NEW a
    PROVE  /\ IntegerValued([i \in 1 .. n |-> Effect(report[i], a)])
           /\ Accounted(report, n, a) \in Int
<1> DEFINE f == [i \in 1 .. n |-> Effect(report[i], a)]
<1>1. \A i \in 1 .. n : report[i] \in Reported
  BY SMTT(30)
<1>2. IsFiniteSet(1 .. n)
  BY FS_Interval, SMTT(30)
<1>3. IntegerValued(f)
  BY <1>1, <1>2, EffectInteger DEF IntegerValued, IntegerOn
<1> HIDE DEF f
<1> QED BY <1>3, TotalIs, AllInteger DEF Accounted, f

\* Two reports have the first n operations in common.
Agree(report, other, n) == \A i \in 1 .. n : report[i] = other[i]

\* They account for the same changes.
LEMMA AccountedSame ==
    ASSUME NEW report, NEW other, NEW n, Agree(report, other, n), NEW a
    PROVE  Accounted(report, n, a) = Accounted(other, n, a)
<1>1. [i \in 1 .. n |-> Effect(report[i], a)] = [i \in 1 .. n |-> Effect(other[i], a)]
  BY DEF Agree
<1> QED BY <1>1 DEF Accounted

\* They explain the same balances.
LEMMA ExplainedSame ==
    ASSUME NEW before, NEW b, NEW report, NEW other, NEW n, Agree(report, other, n),
           Explained(before, b, report, n)
    PROVE  Explained(before, b, other, n)
<1>1. ASSUME NEW a \in Account
      PROVE  Accounted(report, n, a) = Accounted(other, n, a)
  BY AccountedSame, SMTT(30)
<1> QED BY <1>1 DEF Explained

\* The report is extended by one operation.
LEMMA AccountedOneMore ==
    ASSUME NEW report \in Seq(Reported), NEW op \in Reported, NEW a
    PROVE  /\ Append(report, op) \in Seq(Reported)
           /\ Len(Append(report, op)) = Len(report) + 1
           /\ Agree(report, Append(report, op), Len(report))
           /\ Accounted(report, Len(report), a) \in Int
           /\ Accounted(Append(report, op), Len(report) + 1, a)
                  = Accounted(report, Len(report), a) + Effect(op, a)
<1> DEFINE n == Len(report)
           new == Append(report, op)
           f == [i \in 1 .. n |-> Effect(report[i], a)]
           g == [i \in 1 .. (n + 1) |-> Effect(new[i], a)]
<1>1. /\ new \in Seq(Reported) /\ Len(new) = n + 1 /\ n \in Nat
      /\ new[n + 1] = op /\ \A i \in 1 .. n : report[i] = new[i]
  BY SMTT(30)
<1>2. IntegerValued(f) /\ Accounted(report, n, a) \in Int
  <2>1. n \in Nat /\ n <= Len(report)
    BY <1>1, SMTT(30)
  <2> QED BY <2>1, AccountedInteger
<1> HIDE DEF new
<1>3. ExtendedAt(f, g, n + 1) /\ g[n + 1] = Effect(op, a)
  <2> HIDE DEF n
  <2>1. 1 .. (n + 1) = (1 .. n) \cup {n + 1} /\ n + 1 \notin 1 .. n
    BY <1>1, SMTT(30)
  <2> QED BY <1>1, <2>1 DEF ExtendedAt
<1>4. Effect(op, a) \in Int
  BY EffectInteger
<1>5. Accounted(report, n, a) = SumOfAll(f) /\ Accounted(new, n + 1, a) = SumOfAll(g)
  BY TotalIs DEF Accounted
<1> HIDE DEF f, g, n
<1>6. SumOfAll(g) = SumOfAll(f) + g[n + 1]
  BY <1>2, <1>3, <1>4, AllAdd, SMTT(30)
<1>7. Accounted(new, n + 1, a) = Accounted(report, n, a) + Effect(op, a)
  BY <1>3, <1>5, <1>6
<1> QED BY <1>1, <1>2, <1>7 DEF Agree, new, n

\* Operations are added to a report.
Extends(report, new) ==
    new \in Seq(Reported) /\ Len(report) <= Len(new) /\ Agree(report, new, Len(report))

\* One more operation in the report explains one more change.
LEMMA ReportOne ==
    ASSUME NEW report \in Seq(Reported), NEW op \in Reported, NEW before \in [Account -> Nat],
           NEW b, Explained(before, b, report, Len(report)),
           NEW c, \A a \in Account : c[a] = b[a] + Effect(op, a)
    PROVE  /\ Extends(report, Append(report, op))
           /\ Explained(before, c, Append(report, op), Len(Append(report, op)))
<1> DEFINE new == Append(report, op)
<1>1. new \in Seq(Reported) /\ Len(new) = Len(report) + 1 /\ Agree(report, new, Len(report))
  BY AccountedOneMore
<1>2. ASSUME NEW a \in Account
      PROVE  c[a] = before[a] + Accounted(new, Len(new), a)
  <2>1. /\ Accounted(report, Len(report), a) \in Int
        /\ Accounted(new, Len(report) + 1, a) = Accounted(report, Len(report), a) + Effect(op, a)
    BY AccountedOneMore
  <2>2. /\ b[a] = before[a] + Accounted(report, Len(report), a)
        /\ c[a] = b[a] + Effect(op, a)
    BY DEF Explained
  <2>3. Effect(op, a) \in Int
    BY EffectInteger
  <2> HIDE DEF new
  <2>4. Accounted(new, Len(new), a) = Accounted(report, Len(report), a) + Effect(op, a)
    BY <1>1, <2>1
  <2> QED BY <2>1, <2>2, <2>3, <2>4, SMTT(30)
<1>3. Len(report) <= Len(new)
  BY <1>1, SMTT(30)
<1> QED BY <1>1, <1>2, <1>3 DEF Extends, Explained

\* A report may be extended step by step.
LEMMA ExtendsTwice ==
    ASSUME NEW report \in Seq(Reported), NEW one, Extends(report, one), NEW two, Extends(one, two)
    PROVE  Extends(report, two)
<1> QED BY SMTT(30) DEF Extends, Agree

\* An operation, and the virtual one it may add, explain what the operation changed.
LEMMA ReportExtended ==
    ASSUME NEW report \in Seq(Reported), NEW op \in Operations, NEW before \in [Account -> Nat],
           NEW b \in [Account -> Nat], Explained(before, b, report, Len(report)),
           NEW c, NEW virtual, Moved(b, c, op, virtual)
    PROVE  /\ Extends(report, Append(report, op) \o virtual)
           /\ Explained(before, c, Append(report, op) \o virtual, Len(Append(report, op) \o virtual))
<1> DEFINE one == Append(report, op)
<1>1. op \in Reported
  BY DEF Reported
<1>2. CASE virtual = <<>> /\ \A a \in Account : c[a] = b[a] + Effect(op, a)
  <2>1. Extends(report, one) /\ Explained(before, c, one, Len(one))
    BY <1>1, <1>2, ReportOne
  <2>2. one \o virtual = one
    BY <1>1, <1>2, SMTT(30)
  <2> QED BY <2>1, <2>2
<1>3. ASSUME NEW v \in Virtual, virtual = <<v>>,
             \A a \in Account : c[a] = b[a] + Effect(op, a) + Effect(v, a)
      PROVE  /\ Extends(report, one \o virtual)
             /\ Explained(before, c, one \o virtual, Len(one \o virtual))
  <2> DEFINE m == [a \in Account |-> b[a] + Effect(op, a)]
             two == Append(one, v)
  <2>1. v \in Reported
    BY DEF Reported
  <2>2. /\ \A a \in Account : m[a] = b[a] + Effect(op, a)
        /\ \A a \in Account : c[a] = m[a] + Effect(v, a)
    BY <1>3
  <2> HIDE DEF m
  <2>3. Extends(report, one) /\ Explained(before, m, one, Len(one)) /\ one \in Seq(Reported)
    <3>1. Extends(report, one) /\ Explained(before, m, one, Len(one))
      BY <1>1, <2>2, ReportOne
    <3> QED BY <3>1 DEF Extends
  <2>4. one \o virtual = two
    BY <1>1, <1>3, <2>1, SMTT(30)
  <2> HIDE DEF one
  <2>5. Extends(one, two) /\ Explained(before, c, two, Len(two))
    BY <2>1, <2>2, <2>3, ReportOne
  <2> HIDE DEF two
  <2>6. Extends(report, two)
    BY <2>3, <2>5, ExtendsTwice
  <2> QED BY <2>4, <2>5, <2>6
<1> QED BY <1>2, <1>3 DEF Moved

\* The report is cut.
LEMMA ReportCut ==
    ASSUME NEW report \in Seq(Reported), NEW n \in Nat, n <= Len(report)
    PROVE  /\ SubSeq(report, 1, n) \in Seq(Reported)
           /\ Len(SubSeq(report, 1, n)) = n
           /\ \A m \in Nat : m <= n => Agree(report, SubSeq(report, 1, n), m)
<1> QED BY SMTT(30) DEF Agree

-----------------------------------------------------------------------------
(* The parts of a database that a step of a block changes.                   *)

\* An object comes first in the index, and it is due when one is.
Before(objects, i, j) ==
    \/ objects[i].expiration < objects[j].expiration
    \/ objects[i].expiration = objects[j].expiration /\ i <= j

\* FirstOf is the object that comes before all others.
LEMMA FirstIsFirst ==
    ASSUME NEW objects, NEW x \in DOMAIN objects, \A y \in DOMAIN objects : Before(objects, x, y)
    PROVE  /\ FirstOf(objects) \in DOMAIN objects
           /\ \A y \in DOMAIN objects : Before(objects, FirstOf(objects), y)
<1> QED BY DEF FirstOf, Before

\* When some object is due, the first one is.
LEMMA FirstIsDue ==
    ASSUME NEW objects, NEW next, Keyed(objects, next), NEW now \in Nat,
           \A i \in DOMAIN objects : objects[i].expiration \in Nat,
           Due(objects, now) # {}
    PROVE  FirstOf(objects) \in DOMAIN objects /\ objects[FirstOf(objects)].expiration <= now
<1> DEFINE D == DOMAIN objects
           E == {objects[i].expiration : i \in D}
<1>1. D \subseteq Nat /\ \A x \in D : objects[x].expiration \in Nat
  BY DEF Keyed
<1>2. PICK k \in D : objects[k].expiration <= now
  BY DEF Due
<1>3. PICK m \in E : \A e \in E : ~(e < m)
  <2>1. E \subseteq Nat /\ E # {}
    BY <1>1, <1>2
  <2> QED BY <2>1, LeastNumber
<1> DEFINE S == {x \in D : objects[x].expiration = m}
<1>4. PICK x \in S : \A y \in S : ~(y < x)
  <2>1. S \subseteq Nat /\ S # {}
    BY <1>1, <1>3
  <2> HIDE DEF S
  <2> QED BY <2>1, LeastNumber
<1>5. x \in D /\ objects[x].expiration = m /\ m \in Nat
  BY <1>1, <1>3, <1>4
<1>6. ASSUME NEW y \in D
      PROVE  Before(objects, x, y)
  <2>1. /\ ~(objects[y].expiration < m) /\ objects[y].expiration \in Nat
        /\ objects[y].expiration = m => ~(y < x)
    BY <1>1, <1>3, <1>4
  <2>2. x \in Nat /\ y \in Nat
    BY <1>1, <1>5
  <2> HIDE DEF D, E, S
  <2> QED BY <1>5, <2>1, <2>2, SMTT(30) DEF Before
<1>7. FirstOf(objects) \in D /\ Before(objects, FirstOf(objects), k)
  BY <1>2, <1>5, <1>6, FirstIsFirst
<1> DEFINE f == FirstOf(objects)
<1> HIDE DEF f
<1>8. f \in D /\ objects[f].expiration \in Nat /\ objects[k].expiration \in Nat
  BY <1>1, <1>2, <1>7 DEF f
<1>9. \/ objects[f].expiration < objects[k].expiration
      \/ objects[f].expiration = objects[k].expiration
  BY <1>7 DEF Before, f
<1>10. objects[f].expiration <= now
  <2> HIDE DEF D, E, S
  <2> QED BY <1>2, <1>8, <1>9, SMTT(30)
<1> QED BY <1>8, <1>10 DEF f

-----------------------------------------------------------------------------
(* The databases of the steps.                                               *)

\* The list against duplicates of the database and of the sessions.
SameTime(d, e) == e.now = d.now /\ e.trxs = d.trxs

\* Time, balances, contracts and vesting balances stay as they are.
SameAccounts(d, e) ==
    /\ DOMAIN e = Fields /\ e.now = d.now /\ e.balance = d.balance
    /\ SameHtlcs(d, e) /\ SameVesting(d, e)

\* A change of permissions or proposals only.
LEMMA SoundKept ==
    ASSUME NEW d, Sound(d), NEW e, SameAccounts(d, e),
           PermitsOK(e.permits, e.next_permit, e.now), ProposalsOK(e.proposals, e.next_proposal)
    PROVE  Sound(e)
<1>1. DatabaseOK(e)
  BY DEF Sound, DatabaseOK, SameAccounts, SameHtlcs, SameVesting
<1>2. Supply(e) = Supply(d)
  BY SameSupply DEF SameAccounts, SameHtlcs, SameVesting
<1> QED BY <1>1, <1>2 DEF Sound, Conserved

\* The transaction is noted.
WithTransaction(d, t) == [d EXCEPT !.trxs = With(@, t.name, [expiration |-> t.expiration])]

\* Noting a transaction changes nothing else.
LEMMA SoundWithTransaction ==
    ASSUME NEW d, Sound(d), NEW t
    PROVE  /\ Sound(WithTransaction(d, t))
           /\ WithTransaction(d, t).now = d.now
           /\ WithTransaction(d, t).balance = d.balance
           /\ WithTransaction(d, t).trxs = With(d.trxs, t.name, [expiration |-> t.expiration])
           /\ WithTransaction(d, t).permits = d.permits
           /\ WithTransaction(d, t).proposals = d.proposals
<1> DEFINE e == WithTransaction(d, t)
<1>1. DOMAIN d = Fields
  BY DEF Sound, DatabaseOK
<1>2. /\ e.now = d.now /\ e.balance = d.balance /\ SameAccounts(d, e)
      /\ SamePermits(d, e) /\ SameProposals(d, e)
      /\ e.trxs = With(d.trxs, t.name, [expiration |-> t.expiration])
  BY <1>1 DEF WithTransaction, SameAccounts, SameHtlcs, SameVesting, SamePermits,
                    SameProposals, Fields
<1> HIDE DEF e
<1>3. PermitsOK(e.permits, e.next_permit, e.now) /\ ProposalsOK(e.proposals, e.next_proposal)
  BY <1>2 DEF Sound, DatabaseOK, SamePermits, SameProposals
<1>4. Sound(e)
  BY <1>2, <1>3, SoundKept
<1> QED BY <1>2, <1>4 DEF e, SamePermits, SameProposals

\* A proposal is removed.
WithoutProposal(d, id) == [d EXCEPT !.proposals = Without(@, id)]

\* Removing a proposal changes nothing else.
LEMMA SoundWithoutProposal ==
    ASSUME NEW d, Sound(d), NEW id
    PROVE  /\ Sound(WithoutProposal(d, id))
           /\ SameTime(d, WithoutProposal(d, id))
           /\ WithoutProposal(d, id).balance = d.balance
           /\ WithoutProposal(d, id).permits = d.permits
           /\ WithoutProposal(d, id).proposals = Without(d.proposals, id)
<1> DEFINE e == WithoutProposal(d, id)
<1>1. DOMAIN d = Fields
  BY DEF Sound, DatabaseOK
<1>2. /\ SameTime(d, e) /\ e.balance = d.balance /\ SameAccounts(d, e)
      /\ SamePermits(d, e) /\ e.next_proposal = d.next_proposal
      /\ e.proposals = Without(d.proposals, id)
  BY <1>1 DEF WithoutProposal, SameAccounts, SameHtlcs, SameVesting, SamePermits,
                    SameTime, Fields
<1> HIDE DEF e
<1>3. PermitsOK(e.permits, e.next_permit, e.now)
  BY <1>2 DEF Sound, DatabaseOK, SamePermits, SameTime
<1>4. ProposalsOK(e.proposals, e.next_proposal)
  <2>1. ProposalsOK(d.proposals, d.next_proposal)
    BY DEF Sound, DatabaseOK
  <2>2. Keyed(e.proposals, e.next_proposal)
    BY <1>2, <2>1, WithoutKeyed DEF ProposalsOK
  <2>3. \A i \in DOMAIN e.proposals : i \in DOMAIN d.proposals /\ e.proposals[i] = d.proposals[i]
    BY <1>2 DEF Without
  <2> QED BY <2>1, <2>2, <2>3 DEF ProposalsOK
<1>5. Sound(e)
  BY <1>2, <1>3, <1>4, SoundKept
<1> QED BY <1>2, <1>5 DEF e, SamePermits

\* Time goes by.
LEMMA VestingLater ==
    ASSUME NEW v, NEW now \in Nat, VestingOK(v, now), NEW later \in Nat, now < later
    PROVE  VestingOK(v, later)
<1>1. /\ v.start \in Nat /\ v.cliff \in Nat /\ v.begin \in Nat /\ v.last_update \in Nat
      /\ v.last_update <= now /\ (v.policy = "cdd" => CoinDaysOK(v, now))
      /\ (v.policy = "linear" => LinearOK(v, now))
      /\ v.balance \in Nat /\ v.seconds \in Nat
  BY DEF VestingOK
<1>2. v.last_update <= later /\ (now > v.start => later > v.start)
      /\ (now >= v.start + v.cliff => later >= v.start + v.cliff)
  BY <1>1, SMTT(30)
<1>3. CoinDaysOK(v, now) => CoinDaysOK(v, later)
  BY <1>2 DEF CoinDaysOK
<1>4. LinearOK(v, now) => LinearOK(v, later)
  <2> DEFINE a == v.begin * (now - v.start)
             b == v.begin * (later - v.start)
             w == (v.begin - v.balance) * v.seconds
  <2>1. a <= b /\ a \in Int /\ b \in Int /\ w \in Int
    BY <1>1, SMTT(30)
  <2> HIDE DEF a, b, w
  <2>2. w <= a => w <= b
    BY <2>1, SMTT(30)
  <2> QED BY <1>2, <2>2 DEF LinearOK, a, b, w
<1> QED BY <1>1, <1>2, <1>3, <1>4 DEF VestingOK

Later(d, seconds) == clear_expired_transactions([d EXCEPT !.now = @ + seconds])

\* The next block changes the time and forgets transactions that have expired.
LEMMA SoundLater ==
    ASSUME NEW d, Sound(d), NEW seconds \in Nat \ {0}
    PROVE  /\ Sound(Later(d, seconds))
           /\ d.now \in Nat /\ Later(d, seconds).now = d.now + seconds
           /\ Later(d, seconds).balance = d.balance
           /\ Later(d, seconds).permits = d.permits
           /\ Later(d, seconds).proposals = d.proposals
           /\ DOMAIN Later(d, seconds).trxs
                  = {n \in DOMAIN d.trxs : d.now + seconds <= d.trxs[n].expiration}
           /\ \A n \in DOMAIN Later(d, seconds).trxs : Later(d, seconds).trxs[n] = d.trxs[n]
<1> DEFINE e == Later(d, seconds)
           later == d.now + seconds
<1>1. DOMAIN d = Fields /\ d.now \in Nat /\ DatabaseOK(d)
  BY DEF Sound, DatabaseOK
<1>2. /\ DOMAIN e = Fields /\ e.now = later /\ e.balance = d.balance
      /\ SameHtlcs(d, e) /\ SameVesting(d, e) /\ SamePermits(d, e) /\ SameProposals(d, e)
      /\ DOMAIN e.trxs = {n \in DOMAIN d.trxs : later <= d.trxs[n].expiration}
      /\ \A n \in DOMAIN e.trxs : e.trxs[n] = d.trxs[n]
  BY <1>1 DEF Later, clear_expired_transactions, SameHtlcs, SameVesting, SamePermits,
                    SameProposals, Fields
<1> HIDE DEF e
<1>3. later \in Nat /\ d.now < later
  BY <1>1, SMTT(30)
<1> HIDE DEF later
<1>4. VestingsOK(e.vesting, e.next_vesting, e.now)
  <2>1. /\ Keyed(d.vesting, d.next_vesting)
        /\ \A i \in DOMAIN d.vesting : VestingOK(d.vesting[i], d.now)
    BY <1>1 DEF DatabaseOK, VestingsOK
  <2>2. \A i \in DOMAIN d.vesting : VestingOK(d.vesting[i], later)
    BY <1>1, <1>3, <2>1, VestingLater
  <2> QED BY <1>2, <2>1, <2>2 DEF VestingsOK, SameVesting
<1>5. PermitsOK(e.permits, e.next_permit, e.now)
  <2>1. /\ Keyed(d.permits, d.next_permit)
        /\ \A i \in DOMAIN d.permits : PermitOK(d.permits[i], d.now)
    BY <1>1 DEF DatabaseOK, PermitsOK
  <2>2. \A i \in DOMAIN d.permits : PermitOK(d.permits[i], later)
    BY <1>1, <1>3, <2>1, PermitLater
  <2> QED BY <1>2, <2>1, <2>2 DEF PermitsOK, SamePermits
<1>6. DatabaseOK(e)
  BY <1>1, <1>2, <1>3, <1>4, <1>5 DEF DatabaseOK, SameHtlcs, SameProposals
<1>7. Supply(e) = Supply(d)
  BY <1>2, SameSupply DEF SameHtlcs, SameVesting
<1>8. Sound(e)
  BY <1>6, <1>7 DEF Sound, Conserved
<1> QED BY <1>1, <1>2, <1>8 DEF e, later, SamePermits, SameProposals

\* A contract is refunded.
Refunded(d, id) ==
    [adjust_balance(d, d.htlcs[id].from, d.htlcs[id].amount) EXCEPT !.htlcs = Without(@, id)]

Refund(d, id) == [type |-> "htlc_refund", to |-> d.htlcs[id].from, amount |-> d.htlcs[id].amount]

\* A refund pays what the contract has locked.
LEMMA SoundRefunded ==
    ASSUME NEW d, Sound(d), NEW id \in DOMAIN d.htlcs
    PROVE  /\ Sound(Refunded(d, id))
           /\ SameTime(d, Refunded(d, id))
           /\ Refunded(d, id).permits = d.permits
           /\ Refunded(d, id).proposals = d.proposals
           /\ Refund(d, id) \in Reported
           /\ \A a \in Account :
                 Refunded(d, id).balance[a] = d.balance[a] + Effect(Refund(d, id), a)
<1> DEFINE e == Refunded(d, id)
           h == d.htlcs[id]
           v == Refund(d, id)
<1>1. /\ DatabaseOK(d) /\ DOMAIN d = Fields /\ d.balance \in [Account -> Nat]
      /\ HtlcsOK(d.htlcs, d.next_htlc)
  BY DEF Sound, DatabaseOK
<1>2. h.from \in Account /\ h.amount \in Nat
  BY <1>1 DEF HtlcsOK, HtlcOK
<1>3. v.type = "htlc_refund" /\ v.to = h.from /\ v.amount = h.amount /\ v \in Virtual
  BY <1>2 DEF Refund, Virtual
<1>4. /\ SameFrame(d, e) /\ SameVesting(d, e) /\ SamePermits(d, e) /\ SameProposals(d, e)
      /\ Adjusted(d.balance, h.from, h.amount, e.balance)
      /\ e.htlcs = Without(d.htlcs, id) /\ e.next_htlc = d.next_htlc
  BY <1>1 DEF Refunded, SameFrame, SameVesting, SamePermits, SameProposals, Fields,
                    adjust_balance, Adjusted
<1> HIDE DEF e, h, v
<1>5. h.amount \in Int /\ d.balance[h.from] + h.amount >= 0
  BY <1>1, <1>2, SMTT(30)
<1>6. Payment(d.balance, h.from, h.amount, e.balance)
  BY <1>1, <1>2, <1>4, <1>5, Paid
<1>7. /\ HtlcsOK(e.htlcs, e.next_htlc) /\ Total(Locked(e.htlcs)) \in Int
      /\ Total(Locked(d.htlcs)) = Total(Locked(e.htlcs)) + h.amount
  BY <1>1, <1>4, HtlcRemoved DEF h
<1>8. DatabaseOK(e)
  <2>1. e.balance \in [Account -> Nat]
    BY <1>6 DEF Payment
  <2> QED BY <1>1, <1>4, <1>7, <2>1, PartsKept DEF DatabaseOK
<1>9. Supply(e) = Supply(d)
  <2>1. /\ Total(e.balance) = Total(d.balance) + h.amount
        /\ Total(Vesting(e.vesting)) = Total(Vesting(d.vesting))
    BY <1>4, <1>6 DEF Payment, SameVesting
  <2> QED BY <1>1, <1>2, <1>7, <1>8, <2>1, SupplyIs, SMTT(30)
<1>10. Sound(e)
  BY <1>8, <1>9 DEF Sound, Conserved
<1>11. ASSUME NEW a \in Account
       PROVE  e.balance[a] = d.balance[a] + Effect(v, a)
  <2>1. Effect(v, a) = IF a = h.from THEN h.amount ELSE 0
    <3>1. v.type \in Receipts
      BY <1>3 DEF Receipts
    <3>2. Effect(v, a) = IF a = v.to THEN v.amount ELSE 0
      BY <3>1, EffectOfReceipt
    <3> QED BY <1>3, <3>2
  <2>2. /\ e.balance[h.from] = d.balance[h.from] + h.amount
        /\ a # h.from => e.balance[a] = d.balance[a]
    BY <1>6 DEF Payment
  <2> QED BY <1>1, <1>2, <2>1, <2>2, SMTT(30)
<1>12. v \in Reported
  BY <1>3 DEF Reported
<1> QED BY <1>4, <1>10, <1>11, <1>12 DEF SameTime, SameFrame, SamePermits, SameProposals, e, v

\* Permissions and invitations expire.
Expired(d) == update_expired_invitations(update_withdraw_permissions(d))

\* Removing permissions and invitations changes nothing else.
LEMMA SoundExpired ==
    ASSUME NEW d, Sound(d)
    PROVE  /\ Sound(Expired(d))
           /\ SameTime(d, Expired(d))
           /\ Expired(d).balance = d.balance
           /\ Expired(d).htlcs = d.htlcs
           /\ Expired(d).proposals = d.proposals
           /\ Expired(d).permits = Unexpired(d.permits, d.now)
           /\ Expired(d).invitations = Unexpired(d.invitations, d.now)
<1> DEFINE e == Expired(d)
<1>1. DOMAIN d = Fields
  BY DEF Sound, DatabaseOK
<1>2. /\ SameTime(d, e) /\ SameAccounts(d, e) /\ SameProposals(d, e)
      /\ e.next_permit = d.next_permit /\ e.permits = Unexpired(d.permits, d.now)
      /\ e.invitations = Unexpired(d.invitations, d.now)
  BY <1>1 DEF Expired, update_expired_invitations, update_withdraw_permissions,
                    SameAccounts, SameHtlcs, SameVesting, SameProposals, SameTime, Fields
<1> HIDE DEF e
<1>3. ProposalsOK(e.proposals, e.next_proposal)
  BY <1>2 DEF Sound, DatabaseOK, SameProposals
<1>4. PermitsOK(e.permits, e.next_permit, e.now)
  <2>1. PermitsOK(d.permits, d.next_permit, e.now)
    BY <1>2 DEF Sound, DatabaseOK, SameTime
  <2>2. \A i \in DOMAIN e.permits : i \in DOMAIN d.permits /\ e.permits[i] = d.permits[i]
    BY <1>2 DEF Unexpired
  <2> QED BY <1>2, <2>1, <2>2 DEF PermitsOK, Keyed
<1>5. Sound(e)
  BY <1>2, <1>3, <1>4, SoundKept
<1> QED BY <1>2, <1>5 DEF e, SameAccounts, SameHtlcs, SameProposals
=============================================================================

---------------------------- MODULE LedgerProofs ----------------------------
(***************************************************************************)
(* The properties of Ledger for every set of operations, transactions and  *)
(* balances. What they need of a database holds for the database and for   *)
(* every one that an undo session would restore.                           *)
(***************************************************************************)
EXTENDS LedgerDatabaseProofs

\* The proposal of a call can be removed at the end of the call.
Fits(c, d) ==
    c.kind # "transaction" =>
        /\ c.what \in DOMAIN d.proposals
        /\ c.kind = "update" => ~ d.proposals[c.what].reviewed
        /\ c.kind = "expiration" => d.proposals[c.what].expiration <= d.now

CallOK(c) ==
    /\ DOMAIN c = {"kind", "what", "ops", "session", "size"}
    /\ c.kind \in {"transaction", "update", "expiration"}
    /\ c.ops \in Seq(Operations)
    /\ c.size \in Nat
    /\ c.kind # "transaction" => c.what \in Nat /\ RefersTo(c.ops, c.what)

\* What a call needs of the state to which it returns, or of the one to which an
\* undo returns: the database and the size of the report.
Returns(c, d, size) == Fits(c, d) /\ c.size <= size

\* A proposal executes older ones only.
Older(c, e) == c.kind # "transaction" => c.what > e.what

IsSequence(s) == s \in Seq({s[i] : i \in DOMAIN s})

\* The calls cs of a database d with a report of this size.
FramesOK(cs, d, size) ==
    /\ IsSequence(cs)
    /\ \A i \in DOMAIN cs :
        CallOK(cs[i]) /\ Returns(cs[i], d, size) /\ (i > 1 => cs[i].kind = "update")
    /\ \A i \in DOMAIN cs : \A j \in DOMAIN cs :
        /\ i <= j => Returns(cs[i], cs[j].session, cs[j].size)
        /\ i < j => Older(cs[i], cs[j])

StageOK ==
    /\ stage \in {"transactions", "proposals", "htlcs"}
    /\ stage = "transactions" /\ 1 \in DOMAIN calls => calls[1].kind = "transaction"
    /\ stage = "proposals" /\ 1 \in DOMAIN calls => calls[1].kind = "expiration"
    /\ stage = "htlcs" => calls = <<>> /\ Due(db.proposals, db.now) = {}

\* The transaction cannot be applied again.
Noted(d, t) ==
    \/ d.now > t.expiration
    \/ t.name \in DOMAIN d.trxs /\ d.trxs[t.name].expiration = t.expiration

\* Every transaction that has been applied is noted.
AppliedNoted(d, ts, applied) == \A t \in ts : applied[t] = 1 => Noted(d, t)

\* So it is in every database, and the transaction that is being applied is noted too.
Remembered(cs, d, ts, applied) ==
    /\ AppliedNoted(d, ts, applied)
    /\ \A i \in DOMAIN cs : AppliedNoted(cs[i].session, ts, applied)
    /\ 1 \in DOMAIN cs /\ cs[1].kind = "transaction" =>
        /\ cs[1].what \in ts /\ applied[cs[1].what] = 0
        /\ Noted(d, cs[1].what)
        /\ \A j \in DOMAIN cs : j > 1 => Noted(cs[j].session, cs[1].what)

PoolOK == pool \in Scenarios /\ times \in [pool -> {0, 1}]

\* So they do for the balances of every database.
Explains(cs, before, balance, report) ==
    /\ report \in Seq(Reported)
    /\ Explained(before, balance, report, Len(report))
    /\ \A i \in DOMAIN cs : Explained(before, cs[i].session.balance, report, cs[i].size)

\* The inductive invariant.
IInv ==
    /\ Sound(db) /\ \A i \in DOMAIN calls : Sound(calls[i].session)
    /\ FramesOK(calls, db, Len(applied_ops))
    /\ StageOK
    /\ PoolOK /\ Remembered(calls, db, pool, times)
    /\ opening \in [Account -> Nat] /\ Explains(calls, opening, db.balance, applied_ops)

\* Zenon proves the steps that name no other prover.
USE ZenonT(60)

-----------------------------------------------------------------------------
(* Calls.                                                                    *)

\* What a sequence of calls is, and which ones the steps make of it.
LEMMA SequenceIs ==
    ASSUME NEW s, IsSequence(s)
    PROVE  /\ Len(s) \in Nat /\ DOMAIN s = 1 .. Len(s)
           /\ s # <<>> => 1 \in DOMAIN s /\ Len(s) \in DOMAIN s /\ \A i \in DOMAIN s : i <= Len(s)
<1> QED BY SMTT(30) DEF IsSequence

\* A sequence of anything is one.
LEMMA SequenceOf ==
    ASSUME NEW S, NEW s \in Seq(S)
    PROVE  IsSequence(s)
<1> QED BY SMTT(30) DEF IsSequence

\* The empty sequence.
LEMMA EmptySequence == IsSequence(<<>>) /\ DOMAIN <<>> = {}
<1> QED BY SMTT(30) DEF IsSequence

\* A sequence without its last element.
LEMMA OuterSequence ==
    ASSUME NEW s, IsSequence(s), s # <<>>
    PROVE  /\ IsSequence(SubSeq(s, 1, Len(s) - 1))
           /\ DOMAIN SubSeq(s, 1, Len(s) - 1) = DOMAIN s \ {Len(s)}
           /\ \A i \in DOMAIN SubSeq(s, 1, Len(s) - 1) : SubSeq(s, 1, Len(s) - 1)[i] = s[i]
<1> DEFINE S == {s[i] : i \in DOMAIN s}
           o == SubSeq(s, 1, Len(s) - 1)
<1>1. s \in Seq(S) /\ Len(s) \in Nat \ {0}
  BY SMTT(30) DEF IsSequence
<1> HIDE DEF S
<1>2. o \in Seq(S) /\ DOMAIN o = DOMAIN s \ {Len(s)} /\ \A i \in DOMAIN o : o[i] = s[i]
  BY <1>1, SMTT(30)
<1> HIDE DEF o
<1>3. IsSequence(o)
  BY <1>2, SequenceOf
<1> QED BY <1>2, <1>3 DEF o

\* A sequence with another last element.
LEMMA ReplacedLast ==
    ASSUME NEW s, IsSequence(s), s # <<>>, NEW x
    PROVE  /\ IsSequence([s EXCEPT ![Len(s)] = x])
           /\ DOMAIN [s EXCEPT ![Len(s)] = x] = DOMAIN s
           /\ [s EXCEPT ![Len(s)] = x][Len(s)] = x
           /\ \A i \in DOMAIN s : i # Len(s) => [s EXCEPT ![Len(s)] = x][i] = s[i]
<1> DEFINE S == {s[i] : i \in DOMAIN s} \cup {x}
           o == [s EXCEPT ![Len(s)] = x]
<1>1. s \in Seq(S) /\ Len(s) \in DOMAIN s
  BY SMTT(30) DEF IsSequence
<1> HIDE DEF S
<1>2. o \in Seq(S \cup {x})
  BY <1>1, SMTT(30)
<1>3. DOMAIN o = DOMAIN s /\ o[Len(s)] = x /\ \A i \in DOMAIN s : i # Len(s) => o[i] = s[i]
  BY <1>1
<1> HIDE DEF o
<1>4. IsSequence(o)
  BY <1>2, SequenceOf
<1> QED BY <1>3, <1>4 DEF o

\* A sequence with one more element.
LEMMA AppendedSequence ==
    ASSUME NEW s, IsSequence(s), NEW x
    PROVE  /\ IsSequence(Append(s, x))
           /\ Len(s) + 1 \notin DOMAIN s
           /\ DOMAIN Append(s, x) = DOMAIN s \cup {Len(s) + 1}
           /\ Append(s, x)[Len(s) + 1] = x
           /\ \A i \in DOMAIN s : Append(s, x)[i] = s[i]
<1> DEFINE S == {s[i] : i \in DOMAIN s} \cup {x}
           o == Append(s, x)
<1>1. s \in Seq(S) /\ x \in S
  BY SMTT(30) DEF IsSequence
<1> HIDE DEF S
<1>2. /\ o \in Seq(S) /\ DOMAIN o = DOMAIN s \cup {Len(s) + 1} /\ o[Len(s) + 1] = x
      /\ Len(s) + 1 \notin DOMAIN s
      /\ \A i \in DOMAIN s : o[i] = s[i]
  BY <1>1, SMTT(30)
<1> HIDE DEF o
<1>3. IsSequence(o)
  BY <1>2, SequenceOf
<1> QED BY <1>2, <1>3 DEF o

\* The calls ds are the first ones of cs, with fewer operations left.
Kept(cs, ds) ==
    /\ IsSequence(ds)
    /\ DOMAIN ds \subseteq DOMAIN cs
    /\ \A i \in DOMAIN ds :
        /\ CallOK(ds[i])
        /\ ds[i].kind = cs[i].kind /\ ds[i].what = cs[i].what
        /\ ds[i].session = cs[i].session /\ ds[i].size = cs[i].size

\* The calls that are kept fit a database to which all of them can return.
LEMMA FramesKept ==
    ASSUME NEW cs, NEW d, NEW size, FramesOK(cs, d, size), NEW ds, Kept(cs, ds),
           NEW e, NEW length, \A i \in DOMAIN ds : Returns(cs[i], e, length)
    PROVE  FramesOK(ds, e, length)
<1>1. ASSUME NEW i \in DOMAIN ds
      PROVE  CallOK(ds[i]) /\ Returns(ds[i], e, length) /\ (i > 1 => ds[i].kind = "update")
  BY DEF Kept, FramesOK, Returns, Fits
<1>2. ASSUME NEW i \in DOMAIN ds, NEW j \in DOMAIN ds
      PROVE  /\ i <= j => Returns(ds[i], ds[j].session, ds[j].size)
             /\ i < j => Older(ds[i], ds[j])
  <2>1. /\ i <= j => Returns(cs[i], cs[j].session, cs[j].size)
        /\ i < j => Older(cs[i], cs[j])
    BY DEF Kept, FramesOK
  <2> QED BY <2>1 DEF Kept, Returns, Fits, Older
<1> QED BY <1>1, <1>2 DEF FramesOK, Kept

\* A call of an older proposal may be added.
LEMMA FramesPushed ==
    ASSUME NEW cs, NEW d, NEW size, FramesOK(cs, d, size),
           NEW f, CallOK(f), f.session = d, f.size = size, Returns(f, d, size),
           cs # <<>> => f.kind = "update",
           \A i \in DOMAIN cs : Older(cs[i], f)
    PROVE  FramesOK(Append(cs, f), d, size)
<1> DEFINE n == Len(cs) + 1
           ds == Append(cs, f)
<1>1. IsSequence(cs) /\ DOMAIN cs = 1 .. Len(cs) /\ Len(cs) \in Nat
  BY SequenceIs DEF FramesOK
<1>2. /\ IsSequence(ds) /\ DOMAIN ds = DOMAIN cs \cup {n} /\ ds[n] = f
      /\ \A i \in DOMAIN cs : ds[i] = cs[i]
  BY <1>1, AppendedSequence
<1>3. n > 1 => cs # <<>>
  BY <1>1, SMTT(30)
<1>4. \A i \in DOMAIN cs : i <= n /\ ~(n <= i) /\ ~(n < i)
  BY <1>1, SMTT(30)
<1>5. n <= n /\ ~(n < n)
  BY <1>1, SMTT(30)
<1> HIDE DEF n, ds
<1>6. ASSUME NEW i \in DOMAIN ds
      PROVE  CallOK(ds[i]) /\ Returns(ds[i], d, size) /\ (i > 1 => ds[i].kind = "update")
  BY <1>2, <1>3 DEF FramesOK
<1>7. ASSUME NEW i \in DOMAIN ds, NEW j \in DOMAIN ds
      PROVE  /\ i <= j => Returns(ds[i], ds[j].session, ds[j].size)
             /\ i < j => Older(ds[i], ds[j])
  <2>1. CASE i \in DOMAIN cs /\ j \in DOMAIN cs
    BY <1>2, <2>1 DEF FramesOK
  <2>2. CASE i \in DOMAIN cs /\ j = n
    BY <1>2, <2>2 DEF FramesOK
  <2>3. CASE i = n
    BY <1>2, <1>4, <1>5, <2>3
  <2> QED BY <1>2, <2>1, <2>2, <2>3
<1>8. FramesOK(ds, d, size)
  BY <1>2, <1>6, <1>7 DEF FramesOK
<1> QED BY <1>8 DEF ds

\* What is noted stays noted when neither the time nor the list changes.
LEMMA NotedSame ==
    ASSUME NEW d, NEW e, SameTime(d, e)
    PROVE  /\ \A t : Noted(d, t) => Noted(e, t)
           /\ \A ts, applied : AppliedNoted(d, ts, applied) => AppliedNoted(e, ts, applied)
<1>1. \A t : Noted(d, t) => Noted(e, t)
  BY DEF Noted, SameTime
<1> QED BY <1>1 DEF AppliedNoted

\* What is remembered stays so for the calls that are kept.
LEMMA RememberedKept ==
    ASSUME NEW cs, NEW d, NEW ts, NEW applied, Remembered(cs, d, ts, applied),
           NEW ds, Kept(cs, ds), NEW e, AppliedNoted(e, ts, applied),
           1 \in DOMAIN ds /\ cs[1].kind = "transaction" => Noted(e, cs[1].what)
    PROVE  Remembered(ds, e, ts, applied)
<1>1. \A i \in DOMAIN ds : /\ i \in DOMAIN cs /\ ds[i].session = cs[i].session
                           /\ ds[i].kind = cs[i].kind /\ ds[i].what = cs[i].what
  BY DEF Kept
<1>2. \A i \in DOMAIN ds : AppliedNoted(ds[i].session, ts, applied)
  BY <1>1 DEF Remembered
<1>3. ASSUME 1 \in DOMAIN ds, ds[1].kind = "transaction"
      PROVE  /\ ds[1].what \in ts /\ applied[ds[1].what] = 0
             /\ Noted(e, ds[1].what)
             /\ \A j \in DOMAIN ds : j > 1 => Noted(ds[j].session, ds[1].what)
  BY <1>1, <1>3 DEF Remembered
<1> QED BY <1>2, <1>3 DEF Remembered

\* The call of a proposal changes nothing that is remembered.
LEMMA RememberedPushed ==
    ASSUME NEW cs, IsSequence(cs), NEW d, NEW ts, NEW applied, Remembered(cs, d, ts, applied),
           NEW f, f.session = d, f.kind # "transaction"
    PROVE  Remembered(Append(cs, f), d, ts, applied)
<1> DEFINE n == Len(cs) + 1
           ds == Append(cs, f)
<1>1. /\ DOMAIN ds = DOMAIN cs \cup {n} /\ ds[n] = f /\ \A i \in DOMAIN cs : ds[i] = cs[i]
  BY AppendedSequence
<1> HIDE DEF n, ds
<1>2. \A i \in DOMAIN ds : AppliedNoted(ds[i].session, ts, applied)
  BY <1>1 DEF Remembered
<1>3. ASSUME 1 \in DOMAIN ds, ds[1].kind = "transaction"
      PROVE  /\ ds[1].what \in ts /\ applied[ds[1].what] = 0
             /\ Noted(d, ds[1].what)
             /\ \A j \in DOMAIN ds : j > 1 => Noted(ds[j].session, ds[1].what)
  <2>1. 1 \in DOMAIN cs /\ ds[1] = cs[1]
    BY <1>1, <1>3
  <2>2. /\ cs[1].what \in ts /\ applied[cs[1].what] = 0
        /\ Noted(d, cs[1].what)
        /\ \A j \in DOMAIN cs : j > 1 => Noted(cs[j].session, cs[1].what)
    BY <1>3, <2>1 DEF Remembered
  <2> QED BY <1>1, <2>1, <2>2
<1>4. Remembered(ds, d, ts, applied)
  BY <1>2, <1>3 DEF Remembered
<1> QED BY <1>4 DEF ds

\* The report explains the balances of the database and of the sessions.
LEMMA ExplainsKept ==
    ASSUME NEW cs, NEW before, NEW b, NEW report, Explains(cs, before, b, report),
           NEW ds, Kept(cs, ds),
           NEW c, NEW new \in Seq(Reported), Explained(before, c, new, Len(new)),
           \A i \in DOMAIN ds : Agree(report, new, cs[i].size)
    PROVE  Explains(ds, before, c, new)
<1>1. ASSUME NEW i \in DOMAIN ds
      PROVE  Explained(before, ds[i].session.balance, new, ds[i].size)
  <2>1. i \in DOMAIN cs /\ ds[i].session = cs[i].session /\ ds[i].size = cs[i].size
    BY DEF Kept
  <2>2. Explained(before, cs[i].session.balance, report, cs[i].size)
    BY <2>1 DEF Explains
  <2>3. Explained(before, cs[i].session.balance, new, cs[i].size)
    BY <2>2, ExplainedSame
  <2> QED BY <2>1, <2>3
<1> QED BY <1>1 DEF Explains

\* The session of a new call is the database, which the report explains.
LEMMA ExplainsPushed ==
    ASSUME NEW cs, IsSequence(cs), NEW before, NEW b, NEW report, Explains(cs, before, b, report),
           NEW f, f.session.balance = b, f.size = Len(report)
    PROVE  Explains(Append(cs, f), before, b, report)
<1> DEFINE n == Len(cs) + 1
           ds == Append(cs, f)
<1>1. /\ DOMAIN ds = DOMAIN cs \cup {n} /\ ds[n] = f /\ \A i \in DOMAIN cs : ds[i] = cs[i]
  BY AppendedSequence
<1> HIDE DEF n, ds
<1>2. Explains(ds, before, b, report)
  BY <1>1 DEF Explains
<1> QED BY <1>2 DEF ds

\* Reports that agree agree on less.
LEMMA AgreeLess ==
    ASSUME NEW report, NEW new, NEW n \in Nat, Agree(report, new, n), NEW m \in Nat, m <= n
    PROVE  Agree(report, new, m)
<1> QED BY SMTT(30) DEF Agree

-----------------------------------------------------------------------------
(* The steps keep the invariant.                                             *)

\* What holds of a state.
LEMMA Parts ==
    ASSUME IInv
    PROVE  /\ Sound(db) /\ DatabaseOK(db) /\ db.now \in Nat /\ db.balance \in [Account -> Nat]
           /\ \A i \in DOMAIN calls : Sound(calls[i].session)
           /\ FramesOK(calls, db, Len(applied_ops))
           /\ pool \in Scenarios /\ times \in [pool -> {0, 1}]
           /\ Remembered(calls, db, pool, times) /\ AppliedNoted(db, pool, times)
           /\ opening \in [Account -> Nat]
           /\ Explains(calls, opening, db.balance, applied_ops)
           /\ applied_ops \in Seq(Reported)
           /\ Explained(opening, db.balance, applied_ops, Len(applied_ops))
<1> QED BY DEF IInv, Sound, DatabaseOK, PoolOK, Remembered, Explains

\* Nothing is being executed.
LEMMA NoCalls ==
    ASSUME NEW cs, cs = <<>>
    PROVE  /\ DOMAIN cs = {}
           /\ \A d, n : FramesOK(cs, d, n)
           /\ \A d, ts, applied : AppliedNoted(d, ts, applied) => Remembered(cs, d, ts, applied)
           /\ \A before, b, report :
                 report \in Seq(Reported) /\ Explained(before, b, report, Len(report))
                     => Explains(cs, before, b, report)
<1>1. DOMAIN cs = {} /\ IsSequence(cs)
  BY EmptySequence
<1>2. \A d, n : FramesOK(cs, d, n)
  BY <1>1 DEF FramesOK
<1>3. \A d, ts, applied : AppliedNoted(d, ts, applied) => Remembered(cs, d, ts, applied)
  BY <1>1 DEF Remembered
<1> QED BY <1>1, <1>2, <1>3 DEF Explains

\* Something is being executed: the first call is the transaction or the expired
\* proposal, the others are proposals that an update executes.
LEMMA SomeCall ==
    ASSUME IInv, calls # <<>>
    PROVE  /\ 1 \in DOMAIN calls /\ Len(calls) \in DOMAIN calls /\ Len(calls) \in Nat
           /\ \A i \in DOMAIN calls : i \in Nat /\ i <= Len(calls) /\ i >= 1
           /\ stage \in {"transactions", "proposals"}
           /\ CallOK(Innermost)
           /\ Returns(Innermost, db, Len(applied_ops))
           /\ Len(calls) > 1 => Innermost.kind = "update"
<1>1. FramesOK(calls, db, Len(applied_ops)) /\ IsSequence(calls)
  BY Parts DEF FramesOK
<1>2. /\ 1 \in DOMAIN calls /\ Len(calls) \in DOMAIN calls /\ Len(calls) \in Nat
      /\ DOMAIN calls = 1 .. Len(calls)
  BY <1>1, SequenceIs
<1>3. \A i \in DOMAIN calls : i \in Nat /\ i <= Len(calls) /\ i >= 1
  BY <1>2, SMTT(30)
<1>4. stage \in {"transactions", "proposals"}
  BY DEF IInv, StageOK
<1> QED BY <1>1, <1>2, <1>3, <1>4 DEF FramesOK, Innermost

\* The beginning of _apply_transaction, after which the transaction is noted.
LEMMA ApplyTransactionStep ==
    ASSUME IInv, NEW t \in pool, apply_transaction(t)
    PROVE  IInv'
<1> DEFINE f == [kind |-> "transaction", what |-> t, ops |-> t.ops,
                 session |-> db, size |-> Len(applied_ops)]
<1>1. /\ calls = <<>> /\ stage = "transactions"
      /\ t.name \notin DOMAIN db.trxs /\ db.now <= t.expiration
      /\ db' = WithTransaction(db, t) /\ calls' = <<f>>
      /\ applied_ops' = applied_ops /\ stage' = stage
      /\ pool' = pool /\ times' = times /\ opening' = opening
  BY DEF apply_transaction, WithTransaction
<1>2. t.ops \in Seq(Operations) /\ t.expiration \in Nat
  BY Parts, LedgerAssumption
<1>3. /\ Sound(db') /\ db'.balance = db.balance /\ db'.now = db.now
      /\ db'.trxs = With(db.trxs, t.name, [expiration |-> t.expiration])
  BY <1>1, Parts, SoundWithTransaction
<1>4. /\ DOMAIN f = {"kind", "what", "ops", "session", "size"}
      /\ f.kind = "transaction" /\ f.what = t /\ f.ops = t.ops
      /\ f.session = db /\ f.size = Len(applied_ops)
  BY SMTT(30)
<1> HIDE DEF f
<1>5. DOMAIN calls' = {1} /\ calls'[1] = f /\ IsSequence(calls')
  BY <1>1, SMTT(30) DEF IsSequence
<1>6. Len(applied_ops) \in Nat /\ ~(1 > 1) /\ ~(1 < 1)
  BY Parts, SMTT(30)
<1>7. FramesOK(calls', db', Len(applied_ops'))
  <2>1. CallOK(f)
    BY <1>2, <1>4, <1>6 DEF CallOK
  <2>2. Len(applied_ops) <= Len(applied_ops)
    BY <1>6, SMTT(30)
  <2>3. \A d : Returns(f, d, Len(applied_ops))
    BY <1>4, <2>2 DEF Returns, Fits
  <2> QED BY <1>1, <1>4, <1>5, <1>6, <2>1, <2>3 DEF FramesOK
<1>8. Noted(db', t)
  <2> DEFINE new == With(db.trxs, t.name, [expiration |-> t.expiration])
  <2>1. t.name \in DOMAIN new /\ new[t.name].expiration = t.expiration
    BY DEF With
  <2> HIDE DEF new
  <2>2. t.name \in DOMAIN db'.trxs /\ db'.trxs[t.name].expiration = t.expiration
    BY <1>3, <2>1 DEF new
  <2> QED BY <2>2 DEF Noted
<1>9. ASSUME NEW u, Noted(db, u)
      PROVE  Noted(db', u)
  <2>1. CASE db.now > u.expiration
    BY <1>3, <2>1 DEF Noted
  <2>2. CASE u.name \in DOMAIN db.trxs /\ db.trxs[u.name].expiration = u.expiration
    <3>1. u.name # t.name
      BY <1>1, <2>2
    <3>2. u.name \in DOMAIN db'.trxs /\ db'.trxs[u.name] = db.trxs[u.name]
      BY <1>3, <2>2, <3>1 DEF With
    <3> QED BY <2>2, <3>2 DEF Noted
  <2> QED BY <1>9, <2>1, <2>2 DEF Noted
<1>10. times[t] = 0
  <2>1. ~(db.now > t.expiration)
    BY <1>1, <1>2, Parts, SMTT(30)
  <2>2. ~Noted(db, t)
    BY <1>1, <2>1 DEF Noted
  <2>3. times[t] # 1 /\ times[t] \in {0, 1}
    BY <2>2, Parts DEF AppliedNoted
  <2> QED BY <2>3
<1>11. Remembered(calls', db', pool', times')
  <2>1. AppliedNoted(db, pool, times)
    BY Parts
  <2>2. AppliedNoted(db', pool, times)
    BY <1>9, <2>1 DEF AppliedNoted
  <2> QED BY <1>1, <1>4, <1>5, <1>6, <1>8, <1>10, <2>1, <2>2 DEF Remembered
<1>12. Explains(calls', opening', db'.balance, applied_ops')
  <2>1. /\ applied_ops \in Seq(Reported)
        /\ Explained(opening, db.balance, applied_ops, Len(applied_ops))
    BY Parts
  <2>2. \A i \in DOMAIN calls' : calls'[i].session = db /\ calls'[i].size = Len(applied_ops)
    BY <1>4, <1>5
  <2> QED BY <1>1, <1>3, <2>1, <2>2 DEF Explains
<1>13. StageOK'
  BY <1>1, <1>4, <1>5 DEF StageOK
<1>14. PoolOK' /\ opening' \in [Account -> Nat]
  BY <1>1, Parts DEF PoolOK
<1>15. \A i \in DOMAIN calls' : Sound(calls'[i].session)
  BY <1>4, <1>5, Parts
<1> QED BY <1>3, <1>7, <1>11, <1>12, <1>13, <1>14, <1>15 DEF IInv

\* The stage of a block goes with the first call.
LEMMA StageKept ==
    ASSUME IInv, calls # <<>>, stage' = stage,
           1 \in DOMAIN calls' => calls'[1].kind = calls[1].kind
    PROVE  StageOK'
<1>1. stage \in {"transactions", "proposals"} /\ 1 \in DOMAIN calls
  BY SomeCall
<1>2. /\ stage = "transactions" => calls[1].kind = "transaction"
      /\ stage = "proposals" => calls[1].kind = "expiration"
  BY <1>1 DEF IInv, StageOK
<1> QED BY <1>1, <1>2 DEF StageOK

\* A call with its first operation taken away.
LEMMA NextOperation ==
    ASSUME NEW c, CallOK(c), c.ops # <<>>
    PROVE  /\ Head(c.ops) \in Operations
           /\ 1 \in DOMAIN c.ops /\ c.ops[1] = Head(c.ops)
           /\ CallOK([c EXCEPT !.ops = Tail(@)])
           /\ [c EXCEPT !.ops = Tail(@)].kind = c.kind
           /\ [c EXCEPT !.ops = Tail(@)].what = c.what
           /\ [c EXCEPT !.ops = Tail(@)].session = c.session
           /\ [c EXCEPT !.ops = Tail(@)].size = c.size
<1> DEFINE ops == c.ops
           rest == Tail(ops)
           e == [c EXCEPT !.ops = rest]
<1>1. DOMAIN c = {"kind", "what", "ops", "session", "size"} /\ ops \in Seq(Operations) /\ ops # <<>>
  BY DEF CallOK
<1>2. /\ DOMAIN e = {"kind", "what", "ops", "session", "size"} /\ e.ops = rest
      /\ e.kind = c.kind /\ e.what = c.what /\ e.session = c.session /\ e.size = c.size
  BY <1>1
<1> HIDE DEF ops
<1>3. /\ Head(ops) \in Operations /\ 1 \in DOMAIN ops /\ ops[1] = Head(ops)
      /\ rest \in Seq(Operations)
      /\ \A k \in DOMAIN rest : k + 1 \in DOMAIN ops /\ rest[k] = ops[k + 1]
  BY <1>1, SMTT(30)
<1> HIDE DEF rest, e
<1>4. ASSUME c.kind # "transaction"
      PROVE  RefersTo(e.ops, e.what)
  <2>1. RefersTo(ops, c.what)
    BY <1>4 DEF CallOK, ops
  <2>2. RefersTo(rest, c.what)
    BY <1>3, <2>1 DEF RefersTo
  <2> QED BY <1>2, <2>2
<1>5. CallOK(e)
  <2>1. /\ c.kind \in {"transaction", "update", "expiration"} /\ c.size \in Nat
        /\ c.kind # "transaction" => c.what \in Nat
    BY DEF CallOK
  <2> QED BY <1>2, <1>3, <1>4, <2>1 DEF CallOK
<1> QED BY <1>2, <1>3, <1>5 DEF e, rest, ops

\* An operation updates or deletes proposals only that are older than the ones
\* that are being executed.
LEMMA OperationRefersToOlder ==
    ASSUME IInv, calls # <<>>, Innermost.ops # <<>>, NEW i \in DOMAIN calls,
           calls[i].kind # "transaction",
           Head(Innermost.ops).type \in {"proposal_update", "proposal_delete"},
           Head(Innermost.ops).id \in Nat
    PROVE  calls[i].what > Head(Innermost.ops).id
<1> DEFINE n == Len(calls)
           op == Head(Innermost.ops)
<1>1. /\ n \in DOMAIN calls /\ n \in Nat /\ i \in Nat /\ i <= n
      /\ CallOK(Innermost) /\ (n > 1 => Innermost.kind = "update")
  BY SomeCall
<1>2. Innermost = calls[n]
  BY DEF Innermost
<1>3. Innermost.kind # "transaction" => Innermost.what \in Nat /\ Innermost.what > op.id
  <2>1. 1 \in DOMAIN Innermost.ops /\ Innermost.ops[1] = op
    BY <1>1, NextOperation
  <2> QED BY <1>1, <2>1 DEF CallOK, RefersTo
<1>4. CASE i = n
  BY <1>2, <1>3, <1>4
<1>5. CASE i # n
  <2>1. i < n /\ n > 1
    <3>1. i >= 1
      BY SomeCall
    <3> QED BY <1>1, <1>5, <3>1, SMTT(30)
  <2>2. Older(calls[i], calls[n]) /\ CallOK(calls[i])
    BY <1>1, <2>1, Parts DEF FramesOK
  <2>3. calls[i].what > Innermost.what /\ calls[i].what \in Nat
    BY <1>2, <2>2 DEF Older, CallOK
  <2>4. Innermost.what \in Nat /\ Innermost.what > op.id
    BY <1>1, <1>3, <2>1
  <2> HIDE DEF op
  <2>5. op.id \in Nat
    BY DEF op
  <2>6. calls[i].what > op.id
    BY <2>3, <2>4, <2>5, SMTT(30)
  <2> QED BY <2>6 DEF op
<1> QED BY <1>4, <1>5

\* So the proposals that are being executed stay in the database.
LEMMA CallsStay ==
    ASSUME IInv, calls # <<>>, Innermost.ops # <<>>, NEW e,
           ProposalsKept(db, e, Head(Innermost.ops)), e.now = db.now, NEW i \in DOMAIN calls
    PROVE  Fits(calls[i], e)
<1> DEFINE op == Head(Innermost.ops)
           id == calls[i].what
<1>1. Fits(calls[i], db) /\ CallOK(calls[i])
  BY Parts DEF FramesOK, Returns
<1>2. ASSUME calls[i].kind # "transaction"
      PROVE  /\ id \in DOMAIN e.proposals
             /\ e.proposals[id].reviewed = db.proposals[id].reviewed
             /\ e.proposals[id].expiration = db.proposals[id].expiration
  <2>1. id \in DOMAIN db.proposals /\ id \in Nat
    BY <1>1, <1>2 DEF Fits, CallOK
  <2>2. ProposalKept(db, e, op, id)
    BY <2>1 DEF ProposalsKept
  <2>3. CASE id \notin DOMAIN e.proposals
    <3>1. op.type \in {"proposal_update", "proposal_delete"} /\ op.id = id
      BY <2>2, <2>3 DEF ProposalKept
    <3>2. op.id \in Nat
      BY <2>1, <3>1
    <3>3. id > op.id
      BY <1>2, <3>1, <3>2, OperationRefersToOlder
    <3>4. FALSE
      <4> HIDE DEF id, op
      <4> QED BY <2>1, <3>1, <3>3, SMTT(30)
    <3> QED BY <3>4
  <2>4. CASE id \in DOMAIN e.proposals
    BY <2>2, <2>4 DEF ProposalKept
  <2> QED BY <2>3, <2>4
<1> QED BY <1>1, <1>2 DEF Fits

\* A length is a number.
LEMMA Length ==
    ASSUME NEW S, NEW s \in Seq(S)
    PROVE  Len(s) \in Nat
<1> QED BY SMTT(30)

\* Transitivity, for leaves in which the provers know too much else.
LEMMA AtMost ==
    ASSUME NEW a \in Nat, NEW b \in Nat, NEW c \in Nat, a <= b, b <= c
    PROVE  a <= c
<1> QED BY SMTT(30)

\* The operation that is applied, what it makes of the database and of the report,
\* and the calls without it.
Operation == Head(Innermost.ops)

Result == evaluate(db, Operation)

Report == Append(applied_ops, Operation) \o Result.virtual

Rest == [calls EXCEPT ![Len(calls)] = [Innermost EXCEPT !.ops = Tail(@)]]

\* What an operation that succeeds makes of the state, before it executes a proposal.
LEMMA OperationApplied ==
    ASSUME IInv, calls # <<>>, Innermost.ops # <<>>, Result.ok
    PROVE  /\ Kept(calls, Rest) /\ DOMAIN Rest = DOMAIN calls
           /\ Sound(Result.db) /\ SameTime(db, Result.db)
           /\ FramesOK(Rest, Result.db, Len(Report))
           /\ Remembered(Rest, Result.db, pool, times)
           /\ Explains(Rest, opening, Result.db.balance, Report)
           /\ ProposalsKept(db, Result.db, Operation) /\ ClaimsWithin(db, Result.db)
           /\ Executes(Result, Operation)
<1> DEFINE n == Len(calls)
           op == Operation
           e == Result.db
           c == [Innermost EXCEPT !.ops = Tail(@)]
<1>1. CallOK(Innermost) /\ Innermost = calls[n] /\ n \in DOMAIN calls
  BY SomeCall DEF Innermost
<1>2. /\ op \in Operations /\ CallOK(c)
      /\ c.kind = calls[n].kind /\ c.what = calls[n].what
      /\ c.session = calls[n].session /\ c.size = calls[n].size
  <2>1. /\ op \in Operations /\ CallOK(c)
        /\ c.kind = Innermost.kind /\ c.what = Innermost.what
        /\ c.session = Innermost.session /\ c.size = Innermost.size
    BY <1>1, NextOperation DEF Operation
  <2> QED BY <1>1, <2>1
<1>3. Evaluation(db, Result, op)
  BY <1>2, Parts, Evaluated DEF Result
<1>4. /\ FramesOK(calls, db, Len(applied_ops)) /\ IsSequence(calls)
      /\ \A i \in DOMAIN calls : CallOK(calls[i])
  BY Parts DEF FramesOK
<1> HIDE DEF c
<1>5. /\ IsSequence(Rest) /\ DOMAIN Rest = DOMAIN calls /\ Rest[n] = c
      /\ \A i \in DOMAIN calls : i # n => Rest[i] = calls[i]
  BY <1>4, ReplacedLast DEF c, Rest
<1>6. Kept(calls, Rest)
  <2>1. ASSUME NEW i \in DOMAIN Rest
        PROVE  /\ CallOK(Rest[i])
               /\ Rest[i].kind = calls[i].kind /\ Rest[i].what = calls[i].what
               /\ Rest[i].session = calls[i].session /\ Rest[i].size = calls[i].size
    BY <1>2, <1>4, <1>5
  <2> QED BY <1>5, <2>1 DEF Kept
<1> HIDE DEF e
<1>7. /\ DatabaseOK(e) /\ Supply(e) = Supply(db) /\ SameTime(db, e)
      /\ Moved(db.balance, e.balance, op, Result.virtual)
      /\ ProposalsKept(db, e, op) /\ ClaimsWithin(db, e) /\ Executes(Result, op)
  BY <1>3 DEF Evaluation, SameTime, e
<1>8. Sound(e)
  BY <1>7, Parts DEF Sound, Conserved
<1>9. Extends(applied_ops, Report) /\ Explained(opening, e.balance, Report, Len(Report))
  <2>1. /\ applied_ops \in Seq(Reported) /\ opening \in [Account -> Nat]
        /\ db.balance \in [Account -> Nat]
        /\ Explained(opening, db.balance, applied_ops, Len(applied_ops))
    BY Parts
  <2>2. /\ Extends(applied_ops, Append(applied_ops, op) \o Result.virtual)
        /\ Explained(opening, e.balance, Append(applied_ops, op) \o Result.virtual,
                     Len(Append(applied_ops, op) \o Result.virtual))
    BY <1>2, <1>7, <2>1, ReportExtended
  <2> QED BY <2>2 DEF Report
<1>10. Len(applied_ops) \in Nat /\ Len(Report) \in Nat /\ Len(applied_ops) <= Len(Report)
  <2>1. applied_ops \in Seq(Reported) /\ Report \in Seq(Reported) /\ Len(applied_ops) <= Len(Report)
    BY <1>9, Parts DEF Extends
  <2> QED BY <2>1, Length
<1>11. ASSUME NEW i \in DOMAIN calls
       PROVE  /\ Returns(calls[i], e, Len(Report))
              /\ Agree(applied_ops, Report, calls[i].size)
  <2>1. calls[i].size \in Nat /\ calls[i].size <= Len(applied_ops)
    BY <1>4 DEF FramesOK, Returns, CallOK
  <2>2. calls[i].size <= Len(Report)
    BY <1>10, <2>1, AtMost
  <2>3. Fits(calls[i], e)
    BY <1>7, CallsStay DEF Operation, SameTime
  <2>4. Agree(applied_ops, Report, Len(applied_ops))
    BY <1>9 DEF Extends
  <2>5. Agree(applied_ops, Report, calls[i].size)
    BY <1>10, <2>1, <2>4, AgreeLess
  <2> QED BY <2>2, <2>3, <2>5 DEF Returns
<1>12. FramesOK(Rest, e, Len(Report))
  BY <1>4, <1>5, <1>6, <1>11, FramesKept
<1>13. Remembered(Rest, e, pool, times)
  <2>1. Remembered(calls, db, pool, times) /\ AppliedNoted(db, pool, times)
    BY Parts
  <2>2. AppliedNoted(e, pool, times) /\ \A t : Noted(db, t) => Noted(e, t)
    BY <1>7, <2>1, NotedSame
  <2>3. 1 \in DOMAIN Rest /\ calls[1].kind = "transaction" => Noted(e, calls[1].what)
    BY <1>5, <2>1, <2>2 DEF Remembered
  <2> QED BY <1>6, <2>1, <2>2, <2>3, RememberedKept
<1>14. Explains(Rest, opening, e.balance, Report)
  <2>1. Explains(calls, opening, db.balance, applied_ops) /\ Report \in Seq(Reported)
    BY <1>9, Parts DEF Extends
  <2>2. Explained(opening, e.balance, Report, Len(Report))
    BY <1>9
  <2>3. \A i \in DOMAIN Rest : Agree(applied_ops, Report, calls[i].size)
    BY <1>5, <1>11
  <2> QED BY <1>6, <2>1, <2>2, <2>3, ExplainsKept
<1> QED BY <1>5, <1>6, <1>7, <1>8, <1>12, <1>13, <1>14 DEF e

\* The database and every session is sound.
LEMMA SessionsKept ==
    ASSUME NEW cs, \A i \in DOMAIN cs : Sound(cs[i].session), NEW ds, Kept(cs, ds)
    PROVE  \A i \in DOMAIN ds : Sound(ds[i].session)
<1> QED BY DEF Kept

\* Every call has the session of a sound database, also a new one.
LEMMA SessionsPushed ==
    ASSUME NEW cs, IsSequence(cs), \A i \in DOMAIN cs : Sound(cs[i].session),
           NEW f, Sound(f.session)
    PROVE  \A i \in DOMAIN Append(cs, f) : Sound(Append(cs, f)[i].session)
<1> DEFINE n == Len(cs) + 1
           ds == Append(cs, f)
<1>1. /\ DOMAIN ds = DOMAIN cs \cup {n} /\ ds[n] = f /\ \A i \in DOMAIN cs : ds[i] = cs[i]
  BY AppendedSequence
<1> HIDE DEF n, ds
<1>2. \A i \in DOMAIN ds : Sound(ds[i].session)
  BY <1>1
<1> QED BY <1>2 DEF ds

\* The proposal can be called.
Callable(d, id, kind) ==
    /\ id \in DOMAIN d.proposals
    /\ kind \in {"update", "expiration"}
    /\ kind = "update" => ~ d.proposals[id].reviewed
    /\ kind = "expiration" => d.proposals[id].expiration <= d.now

\* The call of a proposal that is in the database.
LEMMA ProposalCall ==
    ASSUME NEW d, DatabaseOK(d), NEW id, NEW size \in Nat, NEW kind, Callable(d, id, kind)
    PROVE  /\ CallOK(push_proposal(kind, id, d, size))
           /\ Returns(push_proposal(kind, id, d, size), d, size)
           /\ push_proposal(kind, id, d, size).kind = kind
           /\ push_proposal(kind, id, d, size).what = id
           /\ push_proposal(kind, id, d, size).session = d
           /\ push_proposal(kind, id, d, size).size = size
<1> DEFINE f == push_proposal(kind, id, d, size)
           ops == d.proposals[id].ops
<1>1. id \in Nat /\ ops \in Seq(Operations) /\ RefersTo(ops, id)
  BY DEF DatabaseOK, ProposalsOK, Keyed, ProposalOK, Callable
<1>2. /\ DOMAIN f = {"kind", "what", "ops", "session", "size"} /\ f.kind = kind /\ f.what = id
      /\ f.ops = ops /\ f.session = d /\ f.size = size
  BY DEF push_proposal
<1> HIDE DEF f, ops
<1>3. CallOK(f)
  BY <1>1, <1>2 DEF CallOK, Callable
<1>4. size <= size
  BY SMTT(30)
<1>5. Returns(f, d, size)
  BY <1>2, <1>4 DEF Returns, Fits, Callable
<1> QED BY <1>2, <1>3, <1>5 DEF f

\* The operation executes a proposal.
Pushes(id) == calls' = Append(Rest, push_proposal("update", id, db', Len(applied_ops')))

\* apply_operation, which may call a proposal.
LEMMA ApplyOperationStep ==
    ASSUME IInv, apply_operation
    PROVE  IInv'
<1>1. /\ calls # <<>> /\ Innermost.ops # <<>> /\ Result.ok
      /\ db' = Result.db /\ applied_ops' = Report
      /\ stage' = stage /\ pool' = pool /\ times' = times /\ opening' = opening
      /\ \/ calls' = Rest
         \/ \E id \in Result.executes : Pushes(id)
  BY DEF apply_operation, Result, Operation, Report, Rest, Pushes
<1>2. /\ Kept(calls, Rest) /\ DOMAIN Rest = DOMAIN calls
      /\ Sound(db')
      /\ FramesOK(Rest, db', Len(applied_ops')) /\ IsSequence(Rest)
      /\ Remembered(Rest, db', pool', times')
      /\ Explains(Rest, opening', db'.balance, applied_ops') /\ applied_ops' \in Seq(Reported)
      /\ Executes(Result, Operation)
  BY <1>1, OperationApplied DEF FramesOK, Explains
<1>3. \A i \in DOMAIN Rest : Sound(Rest[i].session)
  <2>1. \A i \in DOMAIN calls : Sound(calls[i].session)
    BY Parts
  <2> QED BY <1>2, <2>1, SessionsKept
<1>4. PoolOK' /\ opening' \in [Account -> Nat]
  BY <1>1, Parts DEF PoolOK
<1>5. 1 \in DOMAIN Rest /\ Rest[1].kind = calls[1].kind
  BY <1>1, <1>2, SomeCall DEF Kept
<1>6. CASE calls' = Rest
  <2>1. StageOK'
    BY <1>1, <1>5, <1>6, StageKept
  <2> QED BY <1>2, <1>3, <1>4, <1>6, <2>1 DEF IInv
<1>7. ASSUME NEW id \in Result.executes, Pushes(id)
      PROVE  IInv'
  <2> DEFINE size == Len(applied_ops')
             f == push_proposal("update", id, db', size)
  <2>1. /\ id = Operation.id /\ Operation.type = "proposal_update"
        /\ id \in DOMAIN db'.proposals /\ ~ db'.proposals[id].reviewed
    BY <1>1, <1>2 DEF Executes
  <2>2. DatabaseOK(db') /\ id \in Nat
    BY <1>2, <2>1 DEF Sound, DatabaseOK, ProposalsOK, Keyed
  <2>3. size \in Nat
    BY <1>2, Length
  <2> HIDE DEF size
  <2>4. /\ CallOK(f) /\ Returns(f, db', size)
        /\ f.kind = "update" /\ f.what = id /\ f.session = db' /\ f.size = size
    <3>1. Callable(db', id, "update")
      BY <2>1 DEF Callable
    <3> QED BY <2>2, <2>3, <3>1, ProposalCall, SMTT(30)
  <2>5. calls' = Append(Rest, f)
    BY <1>7 DEF size, Pushes
  <2> HIDE DEF f
  <2>6. ASSUME NEW i \in DOMAIN Rest
        PROVE  Older(Rest[i], f)
    <3>1. i \in DOMAIN calls /\ Rest[i].kind = calls[i].kind /\ Rest[i].what = calls[i].what
      BY <1>2 DEF Kept
    <3>2. Operation.type \in {"proposal_update", "proposal_delete"} /\ Operation.id \in Nat
      BY <2>1, <2>2
    <3>3. calls[i].kind # "transaction" => calls[i].what > Operation.id
      BY <1>1, <3>1, <3>2, OperationRefersToOlder DEF Operation
    <3> QED BY <2>1, <2>4, <3>1, <3>3 DEF Older
  <2>7. FramesOK(calls', db', size)
    <3>1. FramesOK(Rest, db', size)
      BY <1>2 DEF size
    <3>2. FramesOK(Append(Rest, f), db', size)
      BY <2>4, <2>6, <3>1, FramesPushed
    <3> QED BY <2>5, <3>2
  <2>8. Remembered(calls', db', pool', times')
    <3>1. Remembered(Append(Rest, f), db', pool', times')
      BY <1>2, <2>4, RememberedPushed
    <3> QED BY <2>5, <3>1
  <2>9. Explains(calls', opening', db'.balance, applied_ops')
    <3>1. f.session.balance = db'.balance /\ f.size = Len(applied_ops')
      BY <2>4 DEF size
    <3>2. Explains(Append(Rest, f), opening', db'.balance, applied_ops')
      BY <1>2, <3>1, ExplainsPushed
    <3> QED BY <2>5, <3>2
  <2>10. \A i \in DOMAIN calls' : Sound(calls'[i].session)
    <3>1. Sound(f.session)
      BY <1>2, <2>4
    <3>2. \A i \in DOMAIN Append(Rest, f) : Sound(Append(Rest, f)[i].session)
      BY <1>2, <1>3, <3>1, SessionsPushed
    <3> QED BY <2>5, <3>2
  <2>11. StageOK'
    <3>1. \A i \in DOMAIN Rest : Append(Rest, f)[i] = Rest[i]
      BY <1>2, AppendedSequence
    <3>2. calls'[1].kind = calls[1].kind
      BY <1>5, <2>5, <3>1
    <3> QED BY <1>1, <3>2, StageKept
  <2> QED BY <1>2, <1>4, <2>7, <2>8, <2>9, <2>10, <2>11 DEF IInv, size
<1> QED BY <1>1, <1>6, <1>7

\* The calls below the innermost one stay as they are.
LEMMA OuterCalls ==
    ASSUME IInv, calls # <<>>
    PROVE  /\ Kept(calls, Outer)
           /\ Innermost = calls[Len(calls)] /\ Len(calls) \in DOMAIN calls
           /\ Len(calls) \notin DOMAIN Outer
           /\ \A i \in DOMAIN Outer :
                 /\ i \in DOMAIN calls /\ Outer[i] = calls[i] /\ i < Len(calls)
                 /\ Returns(calls[i], Innermost.session, Innermost.size)
                 /\ Returns(calls[i], db, Len(applied_ops))
                 /\ Older(calls[i], Innermost)
           /\ Innermost.kind # "update" => DOMAIN Outer = {} /\ Innermost = calls[1]
           /\ DOMAIN Outer # {} => 1 \in DOMAIN Outer /\ Outer[1] = calls[1] /\ Len(calls) > 1
<1> DEFINE n == Len(calls)
<1>1. /\ FramesOK(calls, db, Len(applied_ops)) /\ IsSequence(calls)
      /\ \A i \in DOMAIN calls : CallOK(calls[i])
  BY Parts DEF FramesOK
<1>2. /\ n \in DOMAIN calls /\ n \in Nat /\ n >= 1
      /\ \A i \in DOMAIN calls : i \in Nat /\ i <= n /\ i >= 1
      /\ n > 1 => Innermost.kind = "update"
  BY SomeCall
<1>3. Innermost = calls[n]
  BY DEF Innermost
<1>4. /\ IsSequence(Outer) /\ DOMAIN Outer = DOMAIN calls \ {n}
      /\ \A i \in DOMAIN Outer : Outer[i] = calls[i]
  BY <1>1, OuterSequence DEF Outer
<1>5. DOMAIN calls = 1 .. n
  BY <1>1, SequenceIs
<1> HIDE DEF n
<1>6. Kept(calls, Outer)
  BY <1>1, <1>4 DEF Kept
<1>7. ASSUME NEW i \in DOMAIN Outer
      PROVE  /\ i \in DOMAIN calls /\ Outer[i] = calls[i] /\ i < n
             /\ Returns(calls[i], Innermost.session, Innermost.size)
             /\ Returns(calls[i], db, Len(applied_ops))
             /\ Older(calls[i], Innermost)
  <2>1. i \in DOMAIN calls /\ Outer[i] = calls[i] /\ i # n
    BY <1>4
  <2>2. i <= n /\ i < n
    BY <1>2, <2>1, SMTT(30)
  <2>3. Returns(calls[i], calls[n].session, calls[n].size) /\ Older(calls[i], calls[n])
    BY <1>1, <1>2, <2>1, <2>2 DEF FramesOK
  <2>4. Returns(calls[i], db, Len(applied_ops))
    BY <1>1, <2>1 DEF FramesOK
  <2> QED BY <1>3, <2>1, <2>2, <2>3, <2>4
<1>8. n = 1 => DOMAIN Outer = {}
  BY <1>4, <1>5, SMTT(30)
<1>9. n > 1 => 1 \in DOMAIN Outer
  BY <1>2, <1>4, <1>5, SMTT(30)
<1>10. n = 1 \/ n > 1
  BY <1>2, SMTT(30)
<1> QED BY <1>2, <1>3, <1>4, <1>6, <1>7, <1>8, <1>9, <1>10 DEF n

\* The database after an undo.
Restored ==
    IF Innermost.kind = "expiration" THEN WithoutProposal(Innermost.session, Innermost.what)
    ELSE Innermost.session

\* It is the one of the session, but for an expired proposal.
LEMMA RestoredDatabase ==
    ASSUME IInv, calls # <<>>
    PROVE  /\ Sound(Restored) /\ SameTime(Innermost.session, Restored)
           /\ Restored.balance = Innermost.session.balance
           /\ Restored.permits = Innermost.session.permits
           /\ Innermost.kind # "expiration" => Restored = Innermost.session
<1>1. Sound(Innermost.session)
  BY OuterCalls, Parts
<1>2. CASE Innermost.kind = "expiration"
  <2>1. Restored = WithoutProposal(Innermost.session, Innermost.what)
    BY <1>2 DEF Restored
  <2> QED BY <1>1, <1>2, <2>1, SoundWithoutProposal
<1>3. CASE Innermost.kind # "expiration"
  <2>1. Restored = Innermost.session
    BY <1>3 DEF Restored
  <2> QED BY <1>1, <1>3, <2>1 DEF SameTime
<1> QED BY <1>2, <1>3

\* The undo of a session, with the cut of _applied_ops.
LEMMA UndoStep ==
    ASSUME IInv, undo
    PROVE  IInv'
<1> DEFINE new == SubSeq(applied_ops, 1, Innermost.size)
<1>1. /\ calls # <<>> /\ db' = Restored /\ applied_ops' = new /\ calls' = Outer
      /\ stage' = stage /\ pool' = pool /\ times' = times /\ opening' = opening
  BY DEF undo, Restored, WithoutProposal
<1>2. /\ Sound(db') /\ SameTime(Innermost.session, db')
      /\ db'.balance = Innermost.session.balance
      /\ Innermost.kind # "expiration" => db' = Innermost.session
  BY <1>1, RestoredDatabase
<1>3. /\ Kept(calls, Outer) /\ Innermost = calls[Len(calls)] /\ Len(calls) \in DOMAIN calls
  BY <1>1, OuterCalls
<1>4. CallOK(Innermost) /\ Innermost.size \in Nat /\ Innermost.size <= Len(applied_ops)
  BY <1>1, SomeCall DEF Returns, CallOK
<1>5. /\ new \in Seq(Reported) /\ Len(new) = Innermost.size
      /\ \A m \in Nat : m <= Innermost.size => Agree(applied_ops, new, m)
  BY <1>4, Parts, ReportCut
<1> HIDE DEF new
<1>6. \A i \in DOMAIN Outer :
        /\ i \in DOMAIN calls /\ Returns(calls[i], db', Innermost.size)
        /\ calls[i].size \in Nat /\ calls[i].size <= Innermost.size
  <2>1. ASSUME NEW i \in DOMAIN Outer
        PROVE  /\ i \in DOMAIN calls /\ Returns(calls[i], db', Innermost.size)
               /\ calls[i].size \in Nat /\ calls[i].size <= Innermost.size
    <3>1. /\ i \in DOMAIN calls /\ Innermost.kind = "update"
          /\ Returns(calls[i], Innermost.session, Innermost.size)
      BY <1>1, OuterCalls
    <3>2. db' = Innermost.session
      BY <1>2, <3>1
    <3>3. CallOK(calls[i])
      BY <3>1, Parts DEF FramesOK
    <3> QED BY <3>1, <3>2, <3>3 DEF Returns, CallOK
  <2> QED BY <2>1
<1>7. FramesOK(Outer, db', Innermost.size)
  <2>1. FramesOK(calls, db, Len(applied_ops))
    BY Parts
  <2> QED BY <1>3, <1>6, <2>1, FramesKept
<1>8. Remembered(Outer, db', pool, times)
  <2>1. /\ Remembered(calls, db, pool, times)
        /\ AppliedNoted(Innermost.session, pool, times)
    BY <1>3, Parts DEF Remembered
  <2>2. AppliedNoted(db', pool, times)
    BY <1>2, <2>1, NotedSame
  <2>3. \A t : Noted(Innermost.session, t) => Noted(db', t)
    BY <1>2, NotedSame
  <2>4. 1 \in DOMAIN Outer /\ calls[1].kind = "transaction" => Noted(db', calls[1].what)
    <3>1. 1 \in DOMAIN Outer => 1 \in DOMAIN calls /\ Len(calls) > 1
      BY <1>1, OuterCalls
    <3> QED BY <1>3, <2>1, <2>3, <3>1 DEF Remembered
  <2> QED BY <1>3, <2>1, <2>2, <2>4, RememberedKept, SMTT(30)
<1>9. Explains(Outer, opening, db'.balance, new)
  <2>1. /\ Explains(calls, opening, db.balance, applied_ops)
        /\ Explained(opening, Innermost.session.balance, applied_ops, Innermost.size)
    BY <1>3, Parts DEF Explains
  <2>2. Innermost.size <= Innermost.size
    BY <1>4, SMTT(30)
  <2>3. Agree(applied_ops, new, Innermost.size)
    BY <1>4, <1>5, <2>2
  <2>4. Explained(opening, Innermost.session.balance, new, Innermost.size)
    BY <2>1, <2>3, ExplainedSame
  <2>5. Explained(opening, db'.balance, new, Len(new))
    BY <1>2, <1>5, <2>4
  <2>6. \A i \in DOMAIN Outer : Agree(applied_ops, new, calls[i].size)
    BY <1>5, <1>6
  <2> QED BY <1>3, <1>5, <2>1, <2>5, <2>6, ExplainsKept
<1>10. \A i \in DOMAIN Outer : Sound(Outer[i].session)
  <2>1. \A i \in DOMAIN calls : Sound(calls[i].session)
    BY Parts
  <2> QED BY <1>3, <2>1, SessionsKept
<1>11. StageOK'
  <2>1. 1 \in DOMAIN calls' => calls'[1].kind = calls[1].kind
    BY <1>1, OuterCalls
  <2> QED BY <1>1, <2>1, StageKept
<1>12. PoolOK' /\ opening' \in [Account -> Nat]
  BY <1>1, Parts DEF PoolOK
<1>13. FramesOK(calls', db', Len(applied_ops'))
  BY <1>1, <1>5, <1>7
<1>14. Remembered(calls', db', pool', times')
  BY <1>1, <1>8
<1>15. Explains(calls', opening', db'.balance, applied_ops')
  BY <1>1, <1>9
<1>16. \A i \in DOMAIN calls' : Sound(calls'[i].session)
  BY <1>1, <1>10
<1> QED BY <1>2, <1>11, <1>12, <1>13, <1>14, <1>15, <1>16 DEF IInv

\* The end of a transaction or of a proposal.
LEMMA MergeStep ==
    ASSUME IInv, merge
    PROVE  IInv'
<1> DEFINE id == Innermost.what
<1>1. /\ calls # <<>> /\ calls' = Outer /\ applied_ops' = applied_ops
      /\ stage' = stage /\ pool' = pool /\ opening' = opening
      /\ \/ /\ Innermost.kind = "transaction" /\ db' = db
            /\ times' = [times EXCEPT ![id] = @ + 1]
         \/ /\ Innermost.kind # "transaction" /\ times' = times
            /\ db' = WithoutProposal(db, id)
  BY DEF merge, WithoutProposal
<1> HIDE DEF id
<1>2. Kept(calls, Outer)
  BY <1>1, OuterCalls
<1>3. \A i \in DOMAIN calls' : Sound(calls'[i].session)
  <2>1. \A i \in DOMAIN calls : Sound(calls[i].session)
    BY Parts
  <2>2. \A i \in DOMAIN Outer : Sound(Outer[i].session)
    BY <1>2, <2>1, SessionsKept
  <2> QED BY <1>1, <2>2
<1>4. StageOK'
  <2>1. 1 \in DOMAIN calls' => calls'[1].kind = calls[1].kind
    BY <1>1, OuterCalls
  <2> QED BY <1>1, <2>1, StageKept
<1>5. db'.balance = db.balance /\ SameTime(db, db') /\ Sound(db')
  <2>1. CASE db' = db
    BY <2>1, Parts DEF SameTime
  <2>2. CASE db' = WithoutProposal(db, id)
    <3>1. Sound(db)
      BY Parts
    <3>2. /\ Sound(WithoutProposal(db, id)) /\ SameTime(db, WithoutProposal(db, id))
          /\ WithoutProposal(db, id).balance = db.balance
      BY <3>1, SoundWithoutProposal, SMTT(30)
    <3> QED BY <2>2, <3>2
  <2> QED BY <1>1, <2>1, <2>2
<1>6. Explains(calls', opening', db'.balance, applied_ops') /\ opening' \in [Account -> Nat]
  <2>1. /\ Explains(calls, opening, db.balance, applied_ops) /\ applied_ops \in Seq(Reported)
        /\ Explained(opening, db.balance, applied_ops, Len(applied_ops))
        /\ opening \in [Account -> Nat]
    BY Parts
  <2>2. \A i \in DOMAIN Outer : Agree(applied_ops, applied_ops, calls[i].size)
    BY DEF Agree
  <2>3. Explains(Outer, opening, db.balance, applied_ops)
    BY <1>2, <2>1, <2>2, ExplainsKept
  <2> QED BY <1>1, <1>5, <2>1, <2>3
<1>7. FramesOK(calls', db', Len(applied_ops'))
  <2>1. FramesOK(calls, db, Len(applied_ops))
    BY Parts
  <2>2. ASSUME NEW i \in DOMAIN Outer
        PROVE  Returns(calls[i], db', Len(applied_ops))
    <3>1. /\ i \in DOMAIN calls /\ Innermost.kind = "update"
          /\ Returns(calls[i], db, Len(applied_ops)) /\ Older(calls[i], Innermost)
      BY <1>1, OuterCalls
    <3>2. db' = WithoutProposal(db, id)
      BY <1>1, <3>1
    <3>3. db'.proposals = Without(db.proposals, id) /\ db'.now = db.now
      BY <1>5, <3>2, Parts, SoundWithoutProposal DEF SameTime
    <3>4. CallOK(calls[i]) /\ CallOK(Innermost)
      BY <1>1, <3>1, Parts, SomeCall DEF FramesOK
    <3>5. ASSUME calls[i].kind # "transaction"
          PROVE  /\ calls[i].what \in DOMAIN db'.proposals
                 /\ db'.proposals[calls[i].what] = db.proposals[calls[i].what]
      <4>1. calls[i].what > id /\ calls[i].what \in Nat /\ id \in Nat
        BY <3>1, <3>4, <3>5 DEF Older, CallOK, id
      <4>2. calls[i].what # id
        BY <4>1, SMTT(30)
      <4>3. calls[i].what \in DOMAIN db.proposals
        BY <3>1, <3>5 DEF Returns, Fits
      <4> QED BY <3>3, <4>2, <4>3 DEF Without
    <3> QED BY <3>1, <3>3, <3>5 DEF Returns, Fits
  <2>3. FramesOK(Outer, db', Len(applied_ops))
    BY <1>2, <2>1, <2>2, FramesKept
  <2> QED BY <1>1, <2>3
<1>8. /\ Remembered(calls, db, pool, times) /\ AppliedNoted(db, pool, times)
      /\ pool \in Scenarios /\ times \in [pool -> {0, 1}]
  BY Parts
<1>9. CASE Innermost.kind = "transaction"
  <2>1. db' = db /\ times' = [times EXCEPT ![id] = @ + 1]
    BY <1>1, <1>9
  <2>2. DOMAIN Outer = {} /\ Innermost = calls[1] /\ 1 \in DOMAIN calls
    BY <1>1, <1>9, OuterCalls, SomeCall
  <2>3. id \in pool /\ times[id] = 0 /\ Noted(db, id)
    BY <1>8, <1>9, <2>2 DEF Remembered, id
  <2>4. times' \in [pool -> {0, 1}] /\ \A t \in pool : t # id => times'[t] = times[t]
    BY <1>8, <2>1, <2>3, SMTT(30)
  <2>5. AppliedNoted(db', pool', times')
    BY <1>1, <1>8, <2>1, <2>3, <2>4 DEF AppliedNoted
  <2>6. Remembered(calls', db', pool', times')
    BY <1>1, <2>2, <2>5 DEF Remembered
  <2>7. PoolOK'
    BY <1>1, <1>8, <2>4 DEF PoolOK
  <2> QED BY <1>3, <1>4, <1>5, <1>6, <1>7, <2>6, <2>7 DEF IInv
<1>10. CASE Innermost.kind # "transaction"
  <2>1. times' = times
    BY <1>1, <1>10
  <2>2. AppliedNoted(db', pool, times)
    BY <1>5, <1>8, NotedSame
  <2>3. 1 \in DOMAIN Outer /\ calls[1].kind = "transaction" => Noted(db', calls[1].what)
    <3>1. 1 \in DOMAIN Outer => 1 \in DOMAIN calls
      BY <1>1, OuterCalls
    <3>2. 1 \in DOMAIN Outer /\ calls[1].kind = "transaction" => Noted(db, calls[1].what)
      BY <1>8, <3>1 DEF Remembered
    <3> QED BY <1>5, <3>2, NotedSame
  <2>4. Remembered(Outer, db', pool, times)
    BY <1>2, <1>8, <2>2, <2>3, RememberedKept, SMTT(30)
  <2>5. Remembered(calls', db', pool', times') /\ PoolOK'
    BY <1>1, <1>8, <2>1, <2>4 DEF PoolOK
  <2> QED BY <1>3, <1>4, <1>5, <1>6, <1>7, <2>5 DEF IInv
<1> QED BY <1>9, <1>10

\* Nothing is being executed after the step.
LEMMA NoCallsLeft ==
    ASSUME calls' = <<>>, Sound(db'), StageOK', PoolOK', AppliedNoted(db', pool', times'),
           opening' \in [Account -> Nat], applied_ops' \in Seq(Reported),
           Explained(opening', db'.balance, applied_ops', Len(applied_ops'))
    PROVE  IInv'
<1>1. DOMAIN calls' = {} /\ FramesOK(calls', db', Len(applied_ops'))
  BY NoCalls
<1>2. Remembered(calls', db', pool', times')
  BY NoCalls
<1>3. Explains(calls', opening', db'.balance, applied_ops')
  BY NoCalls
<1> QED BY <1>1, <1>2, <1>3 DEF IInv

\* A transaction is noted until its expiration.
LEMMA NotedLater ==
    ASSUME NEW d, Sound(d), NEW seconds \in Nat \ {0}, NEW t, t.expiration \in Nat, Noted(d, t)
    PROVE  Noted(Later(d, seconds), t)
<1> DEFINE e == Later(d, seconds)
           later == d.now + seconds
<1>1. /\ d.now \in Nat /\ e.now = later
      /\ DOMAIN e.trxs = {n \in DOMAIN d.trxs : later <= d.trxs[n].expiration}
      /\ \A n \in DOMAIN e.trxs : e.trxs[n] = d.trxs[n]
  BY SoundLater
<1>2. /\ d.now > t.expiration => later > t.expiration
      /\ later <= t.expiration \/ later > t.expiration
  BY <1>1, SMTT(30)
<1> HIDE DEF e, later
<1>3. Noted(e, t)
  BY <1>1, <1>2 DEF Noted
<1> QED BY <1>3 DEF e

\* The time of the next block: what is forgotten has expired.
LEMMA ApplyBlockStep ==
    ASSUME IInv, NEW seconds \in Steps, apply_block(seconds)
    PROVE  IInv'
<1>1. /\ calls = <<>> /\ calls' = calls /\ db' = Later(db, seconds) /\ stage' = "proposals"
      /\ applied_ops' = applied_ops /\ pool' = pool /\ times' = times /\ opening' = opening
  BY DEF apply_block, Later
<1>2. seconds \in Nat \ {0} /\ Sound(db)
  BY LedgerAssumption, Parts
<1>3. Sound(db') /\ db'.balance = db.balance
  BY <1>1, <1>2, SoundLater
<1>4. AppliedNoted(db', pool', times')
  <2>1. ASSUME NEW t \in pool, times[t] = 1
        PROVE  Noted(db', t)
    <3>1. t.expiration \in Nat
      BY Parts, LedgerAssumption
    <3>2. Noted(db, t)
      BY <2>1, Parts DEF AppliedNoted
    <3>3. Noted(Later(db, seconds), t)
      BY <1>2, <3>1, <3>2, NotedLater, SMTT(30)
    <3> QED BY <1>1, <3>3
  <2> QED BY <1>1, <2>1 DEF AppliedNoted
<1>5. DOMAIN calls' = {}
  BY <1>1, EmptySequence
<1>6. StageOK'
  BY <1>1, <1>5 DEF StageOK
<1>7. /\ PoolOK' /\ opening' \in [Account -> Nat] /\ applied_ops' \in Seq(Reported)
      /\ Explained(opening', db'.balance, applied_ops', Len(applied_ops'))
  BY <1>1, <1>3, Parts DEF PoolOK
<1> QED BY <1>1, <1>3, <1>4, <1>6, <1>7, NoCallsLeft

\* clear_expired_proposals, which may call an expired proposal.
LEMMA ClearExpiredProposalsStep ==
    ASSUME IInv, clear_expired_proposals
    PROVE  IInv'
<1> DEFINE id == FirstOf(db.proposals)
           f == push_proposal("expiration", id, db, Len(applied_ops))
<1>1. /\ calls = <<>> /\ stage = "proposals" /\ applied_ops' = applied_ops
      /\ pool' = pool /\ times' = times /\ opening' = opening
      /\ \/ /\ Due(db.proposals, db.now) = {} /\ stage' = "htlcs" /\ db' = db /\ calls' = calls
         \/ /\ Due(db.proposals, db.now) # {} /\ calls' = <<f>> /\ db' = db /\ stage' = stage
         \/ /\ db' = WithoutProposal(db, id) /\ calls' = calls /\ stage' = stage
  BY DEF clear_expired_proposals, WithoutProposal
<1> HIDE DEF id
<1>2. DOMAIN calls = {}
  BY <1>1, EmptySequence
<1>3. /\ PoolOK' /\ opening' \in [Account -> Nat] /\ applied_ops' \in Seq(Reported)
      /\ Explained(opening', db.balance, applied_ops', Len(applied_ops'))
      /\ Sound(db) /\ AppliedNoted(db, pool', times')
  BY <1>1, Parts DEF PoolOK
<1>4. CASE Due(db.proposals, db.now) = {} /\ stage' = "htlcs" /\ db' = db /\ calls' = calls
  <2>1. StageOK'
    BY <1>1, <1>4 DEF StageOK
  <2>2. calls' = <<>> /\ Sound(db') /\ AppliedNoted(db', pool', times')
    BY <1>1, <1>3, <1>4
  <2>3. Explained(opening', db'.balance, applied_ops', Len(applied_ops'))
    BY <1>3, <1>4
  <2> QED BY <1>3, <2>1, <2>2, <2>3, NoCallsLeft, SMTT(30)
<1>5. CASE db' = WithoutProposal(db, id) /\ calls' = calls /\ stage' = stage
  <2>1. /\ Sound(WithoutProposal(db, id)) /\ SameTime(db, WithoutProposal(db, id))
        /\ WithoutProposal(db, id).balance = db.balance
    BY <1>3, SoundWithoutProposal, SMTT(30)
  <2>2. Sound(db') /\ SameTime(db, db') /\ db'.balance = db.balance
    BY <1>5, <2>1
  <2>3. AppliedNoted(db', pool', times')
    BY <1>3, <2>2, NotedSame
  <2>4. StageOK'
    BY <1>1, <1>2, <1>5 DEF StageOK
  <2>5. calls' = <<>> /\ Explained(opening', db'.balance, applied_ops', Len(applied_ops'))
    BY <1>1, <1>3, <1>5, <2>2
  <2> QED BY <1>3, <2>2, <2>3, <2>4, <2>5, NoCallsLeft, SMTT(30)
<1>6. CASE Due(db.proposals, db.now) # {} /\ calls' = <<f>> /\ db' = db /\ stage' = stage
  <2>1. DatabaseOK(db) /\ db.now \in Nat /\ ProposalsOK(db.proposals, db.next_proposal)
    BY Parts DEF DatabaseOK
  <2>2. \A i \in DOMAIN db.proposals : db.proposals[i].expiration \in Nat
    BY <2>1 DEF ProposalsOK, ProposalOK
  <2>3. id \in DOMAIN db.proposals /\ db.proposals[id].expiration <= db.now
    BY <1>6, <2>1, <2>2, FirstIsDue DEF ProposalsOK, id
  <2>4. Callable(db, id, "expiration")
    BY <2>3 DEF Callable
  <2>5. Len(applied_ops) \in Nat
    BY <1>1, <1>3, Length
  <2>6. /\ CallOK(f) /\ Returns(f, db, Len(applied_ops))
        /\ f.kind = "expiration" /\ f.session = db /\ f.size = Len(applied_ops)
    BY <2>1, <2>4, <2>5, ProposalCall, SMTT(30)
  <2> HIDE DEF f
  <2>7. DOMAIN <<f>> = {1} /\ <<f>>[1] = f /\ IsSequence(<<f>>) /\ ~(1 > 1) /\ ~(1 < 1)
    <3>1. <<f>> \in Seq({f})
      BY SMTT(30)
    <3>2. IsSequence(<<f>>)
      BY <3>1, SequenceOf
    <3> QED BY <3>2, SMTT(30)
  <2>8. DOMAIN calls' = {1} /\ calls'[1] = f /\ IsSequence(calls')
    BY <1>6, <2>7
  <2>9. FramesOK(calls', db', Len(applied_ops'))
    BY <1>1, <1>6, <2>6, <2>7, <2>8 DEF FramesOK
  <2>10. Remembered(calls', db', pool', times')
    <3>1. calls'[1].kind # "transaction"
      BY <2>6, <2>8
    <3> QED BY <1>3, <1>6, <2>6, <2>8, <3>1 DEF Remembered
  <2>11. Explains(calls', opening', db'.balance, applied_ops')
    BY <1>1, <1>3, <1>6, <2>6, <2>8 DEF Explains
  <2>12. StageOK'
    BY <1>1, <1>6, <2>6, <2>8 DEF StageOK
  <2>13. Sound(db') /\ \A i \in DOMAIN calls' : Sound(calls'[i].session)
    BY <1>3, <1>6, <2>6, <2>8
  <2> QED BY <1>3, <2>9, <2>10, <2>11, <2>12, <2>13 DEF IInv
<1> QED BY <1>1, <1>4, <1>5, <1>6

\* clear_expired_htlcs
LEMMA ClearExpiredHtlcsStep ==
    ASSUME IInv, clear_expired_htlcs
    PROVE  IInv'
<1> DEFINE id == FirstOf(db.htlcs)
<1>1. /\ stage = "htlcs" /\ Due(db.htlcs, db.now) # {}
      /\ db' = Refunded(db, id) /\ applied_ops' = Append(applied_ops, Refund(db, id))
      /\ calls' = calls /\ stage' = stage
      /\ pool' = pool /\ times' = times /\ opening' = opening
  BY DEF clear_expired_htlcs, Refunded, Refund
<1>2. calls = <<>> /\ Due(db.proposals, db.now) = {}
  BY <1>1 DEF IInv, StageOK
<1>3. Sound(db) /\ db.now \in Nat /\ HtlcsOK(db.htlcs, db.next_htlc)
  BY Parts DEF DatabaseOK
<1>4. id \in DOMAIN db.htlcs
  <2>1. \A i \in DOMAIN db.htlcs : db.htlcs[i].expiration \in Nat
    BY <1>3 DEF HtlcsOK, HtlcOK
  <2> QED BY <1>1, <1>3, <2>1, FirstIsDue DEF HtlcsOK
<1> HIDE DEF id
<1>5. /\ Sound(Refunded(db, id)) /\ SameTime(db, Refunded(db, id))
      /\ Refunded(db, id).proposals = db.proposals
      /\ Refund(db, id) \in Reported
      /\ \A a \in Account :
            Refunded(db, id).balance[a] = db.balance[a] + Effect(Refund(db, id), a)
  BY <1>3, <1>4, SoundRefunded
<1>6. Sound(db') /\ SameTime(db, db') /\ db'.proposals = db.proposals
  BY <1>1, <1>5
<1>7. /\ Extends(applied_ops, Append(applied_ops, Refund(db, id)))
      /\ Explained(opening, Refunded(db, id).balance, Append(applied_ops, Refund(db, id)),
                   Len(Append(applied_ops, Refund(db, id))))
  <2>1. /\ applied_ops \in Seq(Reported) /\ opening \in [Account -> Nat]
        /\ Explained(opening, db.balance, applied_ops, Len(applied_ops))
    BY Parts
  <2> QED BY <1>5, <2>1, ReportOne
<1>8. /\ applied_ops' \in Seq(Reported)
      /\ Explained(opening', db'.balance, applied_ops', Len(applied_ops'))
  BY <1>1, <1>7 DEF Extends
<1>9. AppliedNoted(db', pool', times')
  <2>1. AppliedNoted(db, pool', times')
    BY <1>1, Parts
  <2> QED BY <1>6, <2>1, NotedSame
<1>10. StageOK' /\ calls' = <<>>
  <2>1. Due(db'.proposals, db'.now) = {}
    BY <1>2, <1>6 DEF SameTime
  <2> QED BY <1>1, <1>2, <2>1 DEF StageOK
<1>11. PoolOK' /\ opening' \in [Account -> Nat]
  BY <1>1, Parts DEF PoolOK
<1> QED BY <1>6, <1>8, <1>9, <1>10, <1>11, NoCallsLeft

\* The total of nothing.
LEMMA TotalOfNothing ==
    ASSUME NEW f, DOMAIN f = {}
    PROVE  Total(f) = 0
<1>1. Total(f) = SumOf(f, {})
  BY TotalIs DEF SumOfAll
<1> QED BY <1>1, SumEmpty

\* An empty report explains that nothing has changed.
LEMMA EmptyReport ==
    ASSUME NEW b \in [Account -> Nat]
    PROVE  <<>> \in Seq(Reported) /\ Explained(b, b, <<>>, Len(<<>>))
<1>1. <<>> \in Seq(Reported) /\ Len(<<>>) = 0
  BY SMTT(30)
<1>2. ASSUME NEW a \in Account
      PROVE  Accounted(<<>>, 0, a) = 0
  <2> DEFINE g == [i \in 1 .. 0 |-> Effect(<<>>[i], a)]
  <2>1. DOMAIN g = {}
    BY SMTT(30)
  <2> HIDE DEF g
  <2>2. Total(g) = 0
    BY <2>1, TotalOfNothing
  <2> QED BY <2>2 DEF Accounted, g
<1>3. ASSUME NEW a \in Account
      PROVE  b[a] = b[a] + Accounted(<<>>, 0, a)
  <2>1. b[a] \in Nat /\ Accounted(<<>>, 0, a) = 0
    BY <1>2
  <2> QED BY <2>1, SMTT(30)
<1> QED BY <1>1, <1>3 DEF Explained

\* The end of a block: a new report begins.
LEMMA EndOfBlockStep ==
    ASSUME IInv, end_of_block
    PROVE  IInv'
<1>1. /\ stage = "htlcs" /\ db' = Expired(db) /\ applied_ops' = <<>> /\ opening' = db'.balance
      /\ stage' = "transactions" /\ calls' = calls /\ pool' = pool /\ times' = times
  BY DEF end_of_block, Expired
<1>2. calls' = <<>>
  BY <1>1 DEF IInv, StageOK
<1>3. Sound(db)
  BY Parts
<1>4. Sound(db') /\ SameTime(db, db')
  BY <1>1, <1>3, SoundExpired
<1>5. opening' \in [Account -> Nat]
  BY <1>1, <1>4 DEF Sound, DatabaseOK
<1>6. /\ applied_ops' \in Seq(Reported)
      /\ Explained(opening', db'.balance, applied_ops', Len(applied_ops'))
  BY <1>1, <1>5, EmptyReport
<1>7. AppliedNoted(db', pool', times')
  <2>1. AppliedNoted(db, pool', times')
    BY <1>1, Parts
  <2> QED BY <1>4, <2>1, NotedSame
<1>8. StageOK'
  <2>1. DOMAIN calls' = {}
    BY <1>2, EmptySequence
  <2> QED BY <1>1, <2>1 DEF StageOK
<1>9. PoolOK'
  BY <1>1, Parts DEF PoolOK
<1> QED BY <1>2, <1>4, <1>5, <1>6, <1>7, <1>8, <1>9, NoCallsLeft

\* An empty table is what it should be.
LEMMA NoObjects ==
    /\ DOMAIN None = {} /\ HtlcsOK(None, 1) /\ VestingsOK(None, 1, 0) /\ PermitsOK(None, 1, 0)
    /\ ProposalsOK(None, 1)
    /\ Total(Locked(None)) = 0 /\ Total(Vesting(None)) = 0
<1>1. DOMAIN None = {}
  BY SMTT(30) DEF None
<1>2. 1 \in Nat
  BY SMTT(30)
<1>3. DOMAIN Locked(None) = {} /\ DOMAIN Vesting(None) = {}
  BY <1>1 DEF Locked, Vesting
<1>4. Total(Locked(None)) = 0 /\ Total(Vesting(None)) = 0
  BY <1>3, TotalOfNothing
<1> QED BY <1>1, <1>2, <1>4 DEF HtlcsOK, VestingsOK, PermitsOK, ProposalsOK, Keyed

\* The genesis.
LEMMA InitialState ==
    ASSUME Init
    PROVE  IInv
<1>1. /\ DOMAIN db = Fields /\ db.now = 0 /\ db.balance = Balances
      /\ db.htlcs = None /\ db.permits = None /\ db.vesting = None /\ db.proposals = None
      /\ db.next_htlc = 1 /\ db.next_permit = 1 /\ db.next_vesting = 1 /\ db.next_proposal = 1
  BY SMTT(30) DEF Init, Fields
<1>2. DatabaseOK(db)
  <2>1. 0 \in Nat
    BY SMTT(30)
  <2> QED BY <1>1, <2>1, NoObjects, Constants DEF DatabaseOK
<1>3. Conserved(db)
  <2>1. Supply(db) = Total(Balances) + 0 + 0
    BY <1>1, NoObjects DEF Supply
  <2>2. Total(Balances) \in Int
    <3>1. IntegerValued(Balances)
      <4>1. \A a \in Account : Balances[a] \in Int
        BY Constants, SMTT(30)
      <4> QED BY <4>1, Constants DEF IntegerValued, IntegerOn, Account
    <3> QED BY <3>1, TotalIs, AllInteger
  <2>3. Supply(db) = Total(Balances)
    BY <2>1, <2>2, SMTT(30)
  <2> QED BY <2>3 DEF Conserved
<1>4. /\ calls = <<>> /\ applied_ops = <<>> /\ opening = Balances /\ stage = "transactions"
      /\ pool \in Scenarios /\ times = [t \in pool |-> 0]
  BY DEF Init
<1>5. times \in [pool -> {0, 1}] /\ \A t \in pool : times[t] # 1
  BY <1>4, SMTT(30)
<1>6. DOMAIN calls = {} /\ FramesOK(calls, db, Len(applied_ops))
  BY <1>4, NoCalls
<1>7. Remembered(calls, db, pool, times)
  <2>1. AppliedNoted(db, pool, times)
    BY <1>5 DEF AppliedNoted
  <2> QED BY <1>4, <2>1, NoCalls
<1>8. opening \in [Account -> Nat] /\ Explains(calls, opening, db.balance, applied_ops)
  <2>1. <<>> \in Seq(Reported) /\ Explained(Balances, Balances, <<>>, Len(<<>>))
    BY Constants, EmptyReport
  <2>2. /\ applied_ops \in Seq(Reported)
        /\ Explained(opening, db.balance, applied_ops, Len(applied_ops))
    BY <1>1, <1>4, <2>1
  <2> QED BY <1>4, <2>2, Constants, NoCalls
<1>9. StageOK
  BY <1>4, <1>6 DEF StageOK
<1> QED BY <1>2, <1>3, <1>4, <1>5, <1>6, <1>7, <1>8, <1>9 DEF IInv, Sound, PoolOK

\* A step that changes nothing.
LEMMA Stuttering ==
    ASSUME IInv, UNCHANGED vars
    PROVE  IInv'
<1>1. /\ db' = db /\ applied_ops' = applied_ops /\ calls' = calls /\ stage' = stage
      /\ pool' = pool /\ times' = times /\ opening' = opening
  BY DEF vars
<1> QED BY <1>1 DEF IInv, StageOK, PoolOK

\* Every step keeps the invariant.
LEMMA Step ==
    ASSUME IInv, [Next]_vars
    PROVE  IInv'
<1>1. CASE UNCHANGED vars
  BY <1>1, Stuttering
<1>2. CASE \E t \in pool : apply_transaction(t)
  BY <1>2, ApplyTransactionStep
<1>3. CASE apply_operation
  BY <1>3, ApplyOperationStep
<1>4. CASE undo
  BY <1>4, UndoStep
<1>5. CASE merge
  BY <1>5, MergeStep
<1>6. CASE \E seconds \in Steps : apply_block(seconds)
  BY <1>6, ApplyBlockStep
<1>7. CASE clear_expired_proposals
  BY <1>7, ClearExpiredProposalsStep
<1>8. CASE clear_expired_htlcs
  BY <1>8, ClearExpiredHtlcsStep
<1>9. CASE end_of_block
  BY <1>9, EndOfBlockStep
<1> QED BY <1>1, <1>2, <1>3, <1>4, <1>5, <1>6, <1>7, <1>8, <1>9 DEF Next

\* The inductive invariant holds in every reachable state, for every scenario of
\* transactions, every length of an expiration, a review or a vesting, and every depth of
\* nested proposals.
THEOREM Inductive == Spec => []IInv
<1>1. Init => IInv
  BY InitialState
<1>2. IInv /\ [Next]_vars => IInv'
  BY Step
<1> QED BY <1>1, <1>2, PTL DEF Spec

-----------------------------------------------------------------------------
(* What the steps do to permissions and proposals.                           *)

\* No claim is made.
NoClaims == \A i \in DOMAIN db.permits \cap DOMAIN db'.permits : db'.permits[i] = db.permits[i]

\* No proposal is changed; at most one is removed, which has expired or has no review period.
Removable(id) == db.proposals[id].expiration <= db.now \/ ~ db.proposals[id].reviewed

NoUpdates ==
    \/ db'.proposals = db.proposals
    \/ \E id \in DOMAIN db.proposals : Removable(id) /\ db'.proposals = Without(db.proposals, id)

\* Operations are the only ones that make claims and change proposals.
LEMMA OtherSteps ==
    ASSUME IInv, [Next]_vars
    PROVE  apply_operation \/ undo \/ (NoClaims /\ NoUpdates)
<1>1. Sound(db) /\ DatabaseOK(db)
  BY Parts
<1>2. CASE UNCHANGED vars
  <2>1. db' = db
    BY <1>2 DEF vars
  <2> QED BY <2>1 DEF NoClaims, NoUpdates
<1>3. ASSUME NEW t \in pool, apply_transaction(t)
      PROVE  NoClaims /\ NoUpdates
  <2>1. db' = WithTransaction(db, t)
    BY <1>3 DEF apply_transaction, WithTransaction
  <2>2. db'.permits = db.permits /\ db'.proposals = db.proposals
    BY <1>1, <2>1, SoundWithTransaction
  <2> QED BY <2>2 DEF NoClaims, NoUpdates
<1>4. CASE merge
  <2>1. calls # <<>>
    BY <1>4 DEF merge
  <2>2. CASE db' = db
    BY <2>2 DEF NoClaims, NoUpdates
  <2>3. CASE Innermost.kind # "transaction" /\ db' = WithoutProposal(db, Innermost.what)
    <3>1. db'.permits = db.permits /\ db'.proposals = Without(db.proposals, Innermost.what)
      BY <1>1, <2>3, SoundWithoutProposal
    <3>2. CallOK(Innermost) /\ Fits(Innermost, db)
      BY <2>1, SomeCall DEF Returns
    <3>3. Innermost.what \in DOMAIN db.proposals /\ Removable(Innermost.what)
      BY <2>3, <3>2 DEF CallOK, Fits, Removable
    <3> QED BY <3>1, <3>3 DEF NoClaims, NoUpdates
  <2> QED BY <1>4, <2>2, <2>3 DEF merge, WithoutProposal
<1>5. ASSUME NEW seconds \in Steps, apply_block(seconds)
      PROVE  NoClaims /\ NoUpdates
  <2>1. db' = Later(db, seconds) /\ seconds \in Nat \ {0}
    BY <1>5, LedgerAssumption DEF apply_block, Later
  <2>2. db'.permits = db.permits /\ db'.proposals = db.proposals
    BY <1>1, <2>1, SoundLater
  <2> QED BY <2>2 DEF NoClaims, NoUpdates
<1>6. CASE clear_expired_proposals
  <2> DEFINE id == FirstOf(db.proposals)
  <2>1. \/ db' = db
        \/ Due(db.proposals, db.now) # {} /\ db' = WithoutProposal(db, id)
    BY <1>6 DEF clear_expired_proposals, WithoutProposal
  <2> HIDE DEF id
  <2>2. CASE db' = db
    BY <2>2 DEF NoClaims, NoUpdates
  <2>3. CASE Due(db.proposals, db.now) # {} /\ db' = WithoutProposal(db, id)
    <3>1. db.now \in Nat /\ ProposalsOK(db.proposals, db.next_proposal)
      BY <1>1 DEF DatabaseOK
    <3>2. \A i \in DOMAIN db.proposals : db.proposals[i].expiration \in Nat
      BY <3>1 DEF ProposalsOK, ProposalOK
    <3>3. id \in DOMAIN db.proposals /\ Removable(id)
      BY <2>3, <3>1, <3>2, FirstIsDue DEF ProposalsOK, Removable, id
    <3>4. db'.permits = db.permits /\ db'.proposals = Without(db.proposals, id)
      BY <1>1, <2>3, SoundWithoutProposal
    <3> QED BY <3>3, <3>4 DEF NoClaims, NoUpdates
  <2> QED BY <2>1, <2>2, <2>3
<1>7. CASE clear_expired_htlcs
  <2> DEFINE id == FirstOf(db.htlcs)
  <2>1. db' = Refunded(db, id) /\ Due(db.htlcs, db.now) # {}
    BY <1>7 DEF clear_expired_htlcs, Refunded
  <2>2. id \in DOMAIN db.htlcs
    <3>1. db.now \in Nat /\ HtlcsOK(db.htlcs, db.next_htlc)
      BY <1>1 DEF DatabaseOK
    <3>2. \A i \in DOMAIN db.htlcs : db.htlcs[i].expiration \in Nat
      BY <3>1 DEF HtlcsOK, HtlcOK
    <3> QED BY <2>1, <3>1, <3>2, FirstIsDue DEF HtlcsOK
  <2> HIDE DEF id
  <2>3. db'.permits = db.permits /\ db'.proposals = db.proposals
    BY <1>1, <2>1, <2>2, SoundRefunded
  <2> QED BY <2>3 DEF NoClaims, NoUpdates
<1>8. CASE end_of_block
  <2>1. db' = Expired(db)
    BY <1>8 DEF end_of_block, Expired
  <2>2. db'.permits = Unexpired(db.permits, db.now) /\ db'.proposals = db.proposals
    BY <1>1, <2>1, SoundExpired
  <2>3. NoClaims
    BY <2>2 DEF NoClaims, Unexpired
  <2> QED BY <2>2, <2>3 DEF NoUpdates
<1> QED BY <1>2, <1>3, <1>4, <1>5, <1>6, <1>7, <1>8 DEF Next

\* What an operation does to them.
LEMMA OperationStep ==
    ASSUME IInv, apply_operation
    PROVE  ProposalsKept(db, db', Operation) /\ ClaimsWithin(db, db')
           /\ calls # <<>> /\ Innermost.ops # <<>>
<1>1. calls # <<>> /\ Innermost.ops # <<>> /\ Result.ok /\ db' = Result.db
  BY DEF apply_operation, Result, Operation
<1>2. ProposalsKept(db, Result.db, Operation) /\ ClaimsWithin(db, Result.db)
  BY <1>1, OperationApplied
<1> QED BY <1>1, <1>2

\* An undo is what ReviewIsRespected and WithdrawalsAreLimited leave out.
LEMMA UndoIsUndone ==
    ASSUME undo
    PROVE  Undone
<1> QED BY DEF undo, Undone

-----------------------------------------------------------------------------
(* The properties.                                                           *)

\* No amount is ever negative, and only transactions and proposals are executed.
THEOREM TypeCorrect == Spec => []TypeOK
<1>1. ASSUME IInv
      PROVE  TypeOK
  <2>1. DatabaseOK(db) /\ db.now \in Nat /\ db.balance \in [Account -> Nat]
    BY <1>1, Parts
  <2>2. \A a \in Account : db.balance[a] >= 0
    BY <2>1, SMTT(30)
  <2>3. \A i \in DOMAIN db.vesting : db.vesting[i].balance \in Nat /\ db.vesting[i].earned \in Nat
    BY <2>1 DEF DatabaseOK, VestingsOK, VestingOK
  <2>4. \A i \in DOMAIN db.vesting : db.vesting[i].balance >= 0 /\ db.vesting[i].earned >= 0
    BY <2>3, SMTT(30)
  <2>5. \A i \in DOMAIN calls : i > 1 => calls[i].kind = "update"
    BY <1>1, Parts DEF FramesOK
  <2>6. calls # <<>> =>
            calls[1].kind = IF stage = "transactions" THEN "transaction" ELSE "expiration"
    <3>1. calls # <<>> => 1 \in DOMAIN calls /\ stage \in {"transactions", "proposals"}
      BY <1>1, SomeCall
    <3>2. StageOK
      BY <1>1 DEF IInv
    <3> QED BY <3>1, <3>2 DEF StageOK
  <2> QED BY <2>2, <2>4, <2>5, <2>6 DEF TypeOK
<1> QED BY <1>1, Inductive, PTL

\* Whatever is transferred, locked, vested, proposed, undone or refunded, the
\* supply stays what it was at the genesis.
THEOREM ConservedSupply == Spec => []SupplyIsConserved
<1>1. ASSUME IInv
      PROVE  SupplyIsConserved
  BY <1>1 DEF IInv, Sound, Conserved, SupplyIsConserved
<1> QED BY <1>1, Inductive, PTL

\* No transaction is applied twice, however long its expiration is.
THEOREM Once == Spec => []AppliedOnce
<1>1. ASSUME IInv
      PROVE  AppliedOnce
  <2>1. \A t \in pool : times[t] \in {0, 1}
    BY <1>1, Parts
  <2>2. \A t \in pool : times[t] <= 1
    BY <2>1, SMTT(30)
  <2> QED BY <2>2 DEF AppliedOnce
<1> QED BY <1>1, Inductive, PTL

\* A proposal that is being executed is in the database.
THEOREM NoDangling == Spec => []NothingDangles
<1>1. ASSUME IInv
      PROVE  NothingDangles
  BY <1>1, Parts DEF FramesOK, Returns, Fits, NothingDangles
<1> QED BY <1>1, Inductive, PTL

\* What is reported with a block explains the balances.
THEOREM ReportIsComplete == Spec => []ReportExplainsBalances
<1>1. ASSUME IInv
      PROVE  ReportExplainsBalances
  <2>1. /\ applied_ops \in Seq(Reported)
        /\ Explained(opening, db.balance, applied_ops, Len(applied_ops))
    BY <1>1, Parts
  <2>2. DOMAIN applied_ops = 1 .. Len(applied_ops)
    BY <2>1, SMTT(30)
  <2>3. ASSUME NEW a \in Account
        PROVE  Total(Effects(applied_ops, a)) = Accounted(applied_ops, Len(applied_ops), a)
    BY <2>2 DEF Effects, Accounted
  <2>4. ASSUME NEW a \in Account
        PROVE  db.balance[a] = opening[a] + Total(Effects(applied_ops, a))
    BY <2>1, <2>3 DEF Explained
  <2> QED BY <2>4 DEF ReportExplainsBalances
<1> QED BY <1>1, Inductive, PTL

\* What a coin-day balance has paid has vested since it was opened.
LEMMA CoinDaysVested ==
    ASSUME NEW v, NEW now \in Nat, VestingOK(v, now), CoinDaysOK(v, now)
    PROVE  (v.begin - v.balance) * v.seconds <= v.begin * (now - v.opened)
<1> DEFINE w == v.begin - v.balance
           s == vesting_seconds(v)
           t == v.last_update - v.opened
           u == now - v.opened
<1>1. /\ v.seconds \in Nat /\ v.begin \in Nat /\ v.balance \in Nat /\ v.earned \in Nat
      /\ v.opened \in Nat /\ v.last_update \in Nat /\ v.balance <= v.begin
      /\ v.opened <= v.last_update /\ v.last_update <= now
      /\ s \in Nat \ {0} /\ s >= v.seconds
  BY VestingTypes
<1>2. w \in Nat /\ t \in Int /\ u \in Int /\ t <= u /\ v.seconds <= s /\ s \in Int
  BY <1>1, SMTT(30)
<1>3. v.earned + w * s <= v.begin * t
  BY DEF CoinDaysOK
<1> HIDE DEF w, s, t, u
<1>4. w * v.seconds <= w * s
  BY <1>1, <1>2, Monotone, SMTT(30)
<1>5. v.begin * t <= v.begin * u
  BY <1>1, <1>2, Monotone, SMTT(30)
<1>6. w * v.seconds \in Int /\ w * s \in Int /\ v.begin * t \in Int /\ v.begin * u \in Int
  BY <1>1, <1>2, SMTT(30)
<1>7. w * v.seconds <= v.begin * u
  BY <1>1, <1>3, <1>4, <1>5, <1>6, SMTT(30)
<1> QED BY <1>7 DEF w, u

\* Nothing is withdrawn that has not vested.
THEOREM VestedFirst == Spec => []WithdrawnIsVested
<1>1. ASSUME IInv
      PROVE  WithdrawnIsVested
  <2>1. db.now \in Nat /\ \A i \in DOMAIN db.vesting : VestingOK(db.vesting[i], db.now)
    BY <1>1, Parts DEF DatabaseOK, VestingsOK
  <2>2. ASSUME NEW v, VestingOK(v, db.now)
        PROVE  /\ v.begin - v.balance \in 0 .. v.begin
               /\ v.policy = "cdd" =>
                    (v.begin - v.balance) * v.seconds <= v.begin * (db.now - v.opened)
               /\ v.policy = "cdd" /\ v.begin - v.balance > 0 => db.now > v.start
               /\ v.policy = "linear" /\ v.begin - v.balance > 0 =>
                     /\ db.now > v.start /\ db.now >= v.start + v.cliff
                     /\ (v.begin - v.balance) * v.seconds <= v.begin * (db.now - v.start)
               /\ get_allowed_withdraw(v, db.now) \in 0 .. v.balance
    <3>1. v.begin \in Nat /\ v.balance \in Nat /\ v.balance <= v.begin
      BY <2>1, <2>2, VestingTypes
    <3>2. v.begin - v.balance \in 0 .. v.begin /\ (v.begin - v.balance > 0 => v.balance < v.begin)
      BY <3>1, SMTT(30)
    <3>3. /\ v.policy = "cdd" => CoinDaysOK(v, db.now)
          /\ v.policy = "linear" => LinearOK(v, db.now)
      BY <2>2 DEF VestingOK
    <3>4. v.policy = "cdd" =>
              (v.begin - v.balance) * v.seconds <= v.begin * (db.now - v.opened)
      BY <2>1, <2>2, <3>3, CoinDaysVested, SMTT(30)
    <3>5. v.policy = "cdd" /\ v.begin - v.balance > 0 => db.now > v.start
      BY <3>2, <3>3 DEF CoinDaysOK
    <3>6. v.policy = "linear" /\ v.begin - v.balance > 0 =>
              /\ db.now > v.start /\ db.now >= v.start + v.cliff
              /\ (v.begin - v.balance) * v.seconds <= v.begin * (db.now - v.start)
      BY <3>2, <3>3 DEF LinearOK
    <3>7. get_allowed_withdraw(v, db.now) \in 0 .. v.balance
      BY <2>1, <2>2, AllowedIsThere
    <3> QED BY <3>2, <3>4, <3>5, <3>6, <3>7
  <2> QED BY <2>1, <2>2 DEF WithdrawnIsVested
<1> QED BY <1>1, Inductive, PTL

\* "Proposals with a review period may never be executed except at their
\* expiration": whatever is executed, the review is not cut short.
THEOREM ReviewsAreRespected == Spec => ReviewIsRespected
<1>1. ASSUME IInv, [Next]_vars
      PROVE  Reviews
  <2>1. CASE apply_operation
    <3>1. /\ ProposalsKept(db, db', Operation)
          /\ calls # <<>> /\ Innermost.ops # <<>> /\ Operation = Head(Innermost.ops)
      BY <1>1, <2>1, OperationStep DEF Operation
    <3>2. ASSUME NEW id \in DOMAIN db.proposals, db.proposals[id].reviewed
          PROVE  RespectsReview(id)
      <4>1. ProposalKept(db, db', Operation, id)
        BY <3>1 DEF ProposalsKept
      <4>2. CASE id \in DOMAIN db'.proposals
        BY <3>2, <4>1, <4>2 DEF ProposalKept, RespectsReview
      <4>3. CASE id \notin DOMAIN db'.proposals
        <5>1. DeletedBy(db.proposals[id].required, id)
          BY <3>1, <4>1, <4>3 DEF ProposalKept, DeletedBy
        <5> QED BY <4>3, <5>1 DEF RespectsReview
      <4> QED BY <4>2, <4>3
    <3> QED BY <3>2 DEF Reviews
  <2>2. CASE undo
    BY <2>2, UndoIsUndone DEF Reviews
  <2>3. CASE NoUpdates
    <3>1. CASE db'.proposals = db.proposals
      BY <3>1 DEF Reviews, RespectsReview
    <3>2. ASSUME NEW i \in DOMAIN db.proposals, Removable(i),
                 db'.proposals = Without(db.proposals, i)
          PROVE  Reviews
      <4>1. /\ DOMAIN db'.proposals = DOMAIN db.proposals \ {i}
            /\ \A id \in DOMAIN db'.proposals : db'.proposals[id] = db.proposals[id]
        BY <3>2 DEF Without
      <4>2. db.proposals[i].reviewed => db.now >= db.proposals[i].expiration
        <5>1. db.now \in Nat /\ db.proposals[i].expiration \in Nat
          BY <1>1, Parts DEF DatabaseOK, ProposalsOK, ProposalOK
        <5>2. db.proposals[i].reviewed => db.proposals[i].expiration <= db.now
          BY <3>2 DEF Removable
        <5> QED BY <5>1, <5>2, SMTT(30)
      <4>3. ASSUME NEW id \in DOMAIN db.proposals, db.proposals[id].reviewed
            PROVE  RespectsReview(id)
        BY <4>1, <4>2, <4>3 DEF RespectsReview
      <4> QED BY <4>3 DEF Reviews
    <3> QED BY <2>3, <3>1, <3>2 DEF NoUpdates
  <2> QED BY <1>1, <2>1, <2>2, <2>3, OtherSteps
<1> QED BY <1>1, Inductive, PTL DEF Spec, ReviewIsRespected

\* No claim exceeds the limit of its period, wherever the period has been moved.
THEOREM ClaimsAreLimited == Spec => WithdrawalsAreLimited
<1>1. ASSUME IInv, [Next]_vars
      PROVE  Claims
  <2>1. CASE apply_operation
    <3>1. ClaimsWithin(db, db')
      BY <1>1, <2>1, OperationStep
    <3> QED BY <3>1 DEF ClaimsWithin, Claims
  <2>2. CASE undo
    BY <2>2, UndoIsUndone DEF Claims
  <2>3. CASE NoClaims
    BY <2>3 DEF NoClaims, Claims
  <2> QED BY <1>1, <2>1, <2>2, <2>3, OtherSteps
<1> QED BY <1>1, Inductive, PTL DEF Spec, WithdrawalsAreLimited

\* Nothing is left that is due.
LEMMA UnexpiredIsNotDue ==
    ASSUME NEW objects, NEW now
    PROVE  Due(Unexpired(objects, now), now) = {}
<1> DEFINE left == Unexpired(objects, now)
<1>1. /\ DOMAIN left = DOMAIN objects \ Due(objects, now)
      /\ \A i \in DOMAIN left : left[i] = objects[i]
  BY DEF Unexpired
<1> HIDE DEF left
<1>2. \A i \in DOMAIN left : ~(left[i].expiration <= now)
  BY <1>1 DEF Due
<1>3. Due(left, now) = {}
  BY <1>2 DEF Due
<1> QED BY <1>3 DEF left

\* A block ends with nothing that has expired.
THEOREM ExpiredIsCleared == Spec => NothingOutlivesItsExpiration
<1>1. ASSUME IInv, [Next]_vars
      PROVE  ClearsExpired
  <2>1. CASE end_of_block
    <3>1. stage = "htlcs" /\ db' = Expired(db) /\ Due(db.htlcs, db.now) = {}
      BY <2>1 DEF end_of_block, Expired
    <3>2. Due(db.proposals, db.now) = {}
      BY <1>1, <3>1 DEF IInv, StageOK
    <3>3. /\ db'.now = db.now /\ db'.htlcs = db.htlcs /\ db'.proposals = db.proposals
          /\ db'.permits = Unexpired(db.permits, db.now)
          /\ db'.invitations = Unexpired(db.invitations, db.now)
      BY <1>1, <3>1, Parts, SoundExpired DEF SameTime
    <3>4. Due(db'.permits, db'.now) = {} /\ Due(db'.invitations, db'.now) = {}
      BY <3>3, UnexpiredIsNotDue
    <3>5. Due(db'.proposals, db'.now) = {} /\ Due(db'.htlcs, db'.now) = {}
      BY <3>1, <3>2, <3>3
    <3> QED BY <3>4, <3>5 DEF ClearsExpired
  <2>2. CASE ~EndsBlock
    BY <2>2 DEF ClearsExpired
  <2>3. EndsBlock => end_of_block
    <3>1. CASE stage' = stage
      BY <3>1 DEF EndsBlock
    <3>2. CASE stage' \in {"proposals", "htlcs"}
      BY <3>2 DEF EndsBlock
    <3>3. UNCHANGED vars => stage' = stage
      BY DEF vars
    <3>4. \A t \in pool : apply_transaction(t) => stage' = stage
      BY DEF apply_transaction
    <3>5. apply_operation => stage' = stage
      BY DEF apply_operation
    <3>6. undo \/ merge => stage' = stage
      BY DEF undo, merge
    <3>7. \A seconds \in Steps : apply_block(seconds) => stage' \in {"proposals", "htlcs"}
      BY DEF apply_block
    <3>8. clear_expired_proposals => stage' = stage \/ stage' \in {"proposals", "htlcs"}
      BY DEF clear_expired_proposals
    <3>9. clear_expired_htlcs => stage' = stage
      BY DEF clear_expired_htlcs
    <3> QED BY <1>1, <3>1, <3>2, <3>3, <3>4, <3>5, <3>6, <3>7, <3>8, <3>9 DEF Next
  <2> QED BY <2>1, <2>2, <2>3
<1> QED BY <1>1, Inductive, PTL DEF Spec, NothingOutlivesItsExpiration
=============================================================================

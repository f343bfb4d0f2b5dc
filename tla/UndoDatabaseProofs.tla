------------------------- MODULE UndoDatabaseProofs -------------------------
(***************************************************************************)
(* Proofs about UndoDatabase, for all values of its constants.             *)
(*                                                                         *)
(* LogsAreExact is not inductive: it says what a log restores, not what it *)
(* holds, and the next write may add to the log.  The strengthening says   *)
(* that each undo state is the exact difference between the contents below *)
(* and above it (IsDiff).  One lemma per log operation shows that it keeps *)
(* an exact difference exact; IsDiff implies what Restore returns.         *)
(***************************************************************************)
EXTENDS UndoDatabase, SequenceTheorems, TLAPS

\* A function to values whose ids lie in S is an index over S.
LEMMA IndexIntro ==
    ASSUME NEW S, NEW f, DOMAIN f \subseteq S, f \in [DOMAIN f -> Value]
    PROVE  f \in Index(S)
BY DEF Index

\* What an index over S is.
LEMMA IndexElim ==
    ASSUME NEW S, NEW f \in Index(S)
    PROVE  DOMAIN f \subseteq S /\ f \in [DOMAIN f -> Value]
BY DEF Index

\* Contents whose objects all have ids below next_id.
Proper(c) ==
    /\ c.next_id \in 0..MaxId
    /\ c.objects \in [DOMAIN c.objects -> Value]
    /\ DOMAIN c.objects \subseteq 0..c.next_id - 1

\* st records exactly what changed between the contents b and the later a.
IsDiff(st, b, a) ==
    /\ st \in UndoStates
    /\ Proper(b) /\ Proper(a)
    /\ DOMAIN a.objects = (DOMAIN b.objects \ DOMAIN st.removed) \cup st.new_ids
    /\ DOMAIN st.removed \subseteq DOMAIN b.objects
    /\ DOMAIN st.old_values \subseteq DOMAIN b.objects \ DOMAIN st.removed
    /\ \A i \in st.new_ids : i >= b.next_id
    /\ \A i \in DOMAIN st.removed : st.removed[i] = b.objects[i]
    /\ \A i \in DOMAIN st.old_values : st.old_values[i] = b.objects[i]
    /\ \A i \in (DOMAIN b.objects \ DOMAIN st.removed) \ DOMAIN st.old_values :
          b.objects[i] = a.objects[i]
    /\ b.next_id <= a.next_id
    /\ IF st.old_next_id = NoId THEN b.next_id = a.next_id
                                ELSE b.next_id = st.old_next_id

\* A fresh undo state says that nothing has changed.
LEMMA EmptyDiff ==
    ASSUME NEW c, Proper(c)
    PROVE  IsDiff(EmptyState, c, c)
<1>1. EmptyState \in UndoStates
  <2>1. EmptyIndex \in Index(Ids)
    BY IndexIntro, Zenon DEF EmptyIndex
  <2> QED BY <2>1 DEF EmptyState, UndoStates
<1>2. DOMAIN EmptyState.removed = {} /\ DOMAIN EmptyState.old_values = {}
  BY DEF EmptyState, EmptyIndex
<1> QED BY <1>1, <1>2, ConstantsAssumption DEF IsDiff, EmptyState, Proper

\* Undoing an exact difference gives the earlier contents back.
LEMMA DiffRestores ==
    ASSUME NEW st, NEW b, NEW a, IsDiff(st, b, a)
    PROVE  /\ Restore(st, a.objects) = b.objects
           /\ RestoreId(st, a.next_id) = b.next_id
<1>1. RestoreId(st, a.next_id) = b.next_id
  BY DEF IsDiff, RestoreId
<1>2. (DOMAIN a.objects \ st.new_ids) \cup DOMAIN st.removed = DOMAIN b.objects
  BY ConstantsAssumption DEF IsDiff, Proper
<1>3. Restore(st, a.objects) = [i \in DOMAIN b.objects |-> b.objects[i]]
  BY <1>2 DEF IsDiff, Proper, Restore
<1> QED BY <1>1, <1>3 DEF IsDiff, Proper

-----------------------------------------------------------------------------
\* The three loggers keep the difference exact.

\* Noting a creation keeps an undo state the difference to the contents before.
LEMMA CreateDiff ==
    ASSUME NEW st, NEW b, NEW a, IsDiff(st, b, a), NEW v \in Value,
           a.next_id < MaxId
    PROVE  IsDiff(on_create(st, a.next_id), b,
                  [objects |-> With(a.objects, a.next_id, v),
                   next_id |-> a.next_id + 1])
<1> DEFINE st2 == on_create(st, a.next_id)
           a2 == [objects |-> With(a.objects, a.next_id, v),
                  next_id |-> a.next_id + 1]
<1>1. Proper(a2)
  BY ConstantsAssumption DEF IsDiff, Proper, With
<1>2. st2 \in UndoStates
  <2>1. a.next_id \in Ids
    BY ConstantsAssumption DEF IsDiff, Proper, Ids
  <2> QED BY <2>1, Zenon DEF IsDiff, UndoStates, on_create
<1>3. /\ st2.old_values = st.old_values /\ st2.removed = st.removed
      /\ st2.new_ids = st.new_ids \cup {a.next_id}
      /\ st2.old_next_id = IF st.old_next_id = NoId THEN a.next_id ELSE st.old_next_id
  BY DEF IsDiff, UndoStates, on_create
<1>4. a2.objects = With(a.objects, a.next_id, v) /\ a2.next_id = a.next_id + 1
  OBVIOUS
<1>5. DOMAIN a2.objects = DOMAIN a.objects \cup {a.next_id}
  BY DEF With
<1>6. \A i \in DOMAIN a.objects : i # a.next_id /\ a2.objects[i] = a.objects[i]
  BY ConstantsAssumption DEF IsDiff, Proper, With
<1>7. st2.old_next_id = b.next_id /\ st2.old_next_id # NoId
  BY <1>3, ConstantsAssumption DEF IsDiff, Proper, NoId
<1> HIDE DEF st2, a2
<1>8. IsDiff(st2, b, a2)
  BY <1>1, <1>2, <1>3, <1>4, <1>5, <1>6, <1>7, ConstantsAssumption DEF IsDiff, Proper
<1> QED BY <1>8 DEF st2, a2

\* Noting a modification keeps it the difference.
LEMMA ModifyDiff ==
    ASSUME NEW st, NEW b, NEW a, IsDiff(st, b, a), NEW v \in Value,
           NEW i \in DOMAIN a.objects
    PROVE  IsDiff(on_modify(st, i, a.objects[i]), b,
                  [objects |-> [a.objects EXCEPT ![i] = v],
                   next_id |-> a.next_id])
<1> DEFINE st2 == on_modify(st, i, a.objects[i])
           a2 == [objects |-> [a.objects EXCEPT ![i] = v], next_id |-> a.next_id]
<1>1. /\ Proper(a2) /\ DOMAIN a2.objects = DOMAIN a.objects
      /\ \A j \in DOMAIN a.objects \ {i} : a2.objects[j] = a.objects[j]
      /\ a2.next_id = a.next_id
  BY DEF IsDiff, Proper
<1>2. CASE i \in st.new_ids \/ i \in DOMAIN st.old_values
  <2>1. st2 = st
    BY <1>2 DEF on_modify
  <2> HIDE DEF a2
  <2>2. IsDiff(st, b, a2)
    BY <1>1, <1>2, ConstantsAssumption DEF IsDiff, Proper
  <2> QED BY <2>1, <2>2 DEF a2
<1>3. CASE ~(i \in st.new_ids \/ i \in DOMAIN st.old_values)
  <2>1. i \in DOMAIN b.objects \ DOMAIN st.removed /\ a.objects[i] = b.objects[i]
    BY <1>3 DEF IsDiff
  <2>2. st2 = [st EXCEPT !.old_values = With(st.old_values, i, a.objects[i])]
    BY <1>3 DEF on_modify
  <2>3. /\ st2.old_values = With(st.old_values, i, a.objects[i])
        /\ st2.removed = st.removed /\ st2.new_ids = st.new_ids
        /\ st2.old_next_id = st.old_next_id
    BY <2>2 DEF IsDiff, UndoStates
  <2>4. With(st.old_values, i, a.objects[i]) \in Index(Ids)
    <3>1. st.old_values \in Index(Ids)
      BY DEF IsDiff, UndoStates
    <3>2. DOMAIN st.old_values \subseteq Ids /\ st.old_values \in [DOMAIN st.old_values -> Value]
      BY <3>1, IndexElim
    <3>3. i \in Ids /\ a.objects[i] \in Value
      BY ConstantsAssumption DEF IsDiff, Proper, Ids
    <3> DEFINE w == With(st.old_values, i, a.objects[i])
    <3>4. DOMAIN w \subseteq Ids /\ w \in [DOMAIN w -> Value]
      BY <3>2, <3>3 DEF With
    <3> QED BY <3>4, IndexIntro
  <2>5. st2 \in UndoStates
    BY <2>2, <2>4 DEF IsDiff, UndoStates
  <2>6. /\ DOMAIN st2.old_values = DOMAIN st.old_values \cup {i}
        /\ \A j \in DOMAIN st.old_values : st2.old_values[j] = st.old_values[j]
        /\ st2.old_values[i] = a.objects[i]
    BY <2>3, <1>3 DEF With
  <2> HIDE DEF st2, a2
  <2>7. IsDiff(st2, b, a2)
    BY <1>1, <2>1, <2>3, <2>5, <2>6, ConstantsAssumption, SMTT(30) DEF IsDiff
  <2> QED BY <2>7 DEF st2, a2
<1> QED BY <1>2, <1>3

\* Noting a removal keeps it the difference.
LEMMA RemoveDiff ==
    ASSUME NEW st, NEW b, NEW a, IsDiff(st, b, a),
           NEW i \in DOMAIN a.objects
    PROVE  IsDiff(on_remove(st, i, a.objects[i]), b,
                  [objects |-> Without(a.objects, {i}), next_id |-> a.next_id])
<1> DEFINE st2 == on_remove(st, i, a.objects[i])
           a2 == [objects |-> Without(a.objects, {i}), next_id |-> a.next_id]
<1>1. /\ Proper(a2) /\ DOMAIN a2.objects = DOMAIN a.objects \ {i}
      /\ \A j \in DOMAIN a.objects \ {i} : a2.objects[j] = a.objects[j]
      /\ a2.next_id = a.next_id
  BY DEF IsDiff, Proper, Without
<1>2. /\ st.old_values \in Index(Ids) /\ st.removed \in Index(Ids)
      /\ st.new_ids \in SUBSET Ids /\ st.old_next_id \in Ids \cup {NoId}
  BY DEF IsDiff, UndoStates
<1>3. CASE i \in st.new_ids
  <2>1. st2 = [st EXCEPT !.new_ids = st.new_ids \ {i}]
    BY <1>3 DEF on_remove
  <2>2. /\ st2.old_values = st.old_values /\ st2.removed = st.removed
        /\ st2.new_ids = st.new_ids \ {i} /\ st2.old_next_id = st.old_next_id
        /\ st2 \in UndoStates
    BY <2>1 DEF IsDiff, UndoStates
  <2>3. i \notin DOMAIN b.objects
    BY <1>3, ConstantsAssumption DEF IsDiff, Proper
  <2> HIDE DEF st2, a2
  <2>4. IsDiff(st2, b, a2)
    BY <1>1, <2>2, <2>3, ConstantsAssumption DEF IsDiff
  <2> QED BY <2>4 DEF st2, a2
<1>4. CASE i \notin st.new_ids
  <2>1. i \in DOMAIN b.objects /\ i \notin DOMAIN st.removed
    BY <1>4 DEF IsDiff
  <2>2. /\ DOMAIN st.removed \subseteq Ids /\ st.removed \in [DOMAIN st.removed -> Value]
        /\ DOMAIN st.old_values \subseteq Ids /\ st.old_values \in [DOMAIN st.old_values -> Value]
    BY <1>2, IndexElim
  <2>3. i \in Ids /\ b.objects[i] \in Value
    BY <2>1, ConstantsAssumption DEF IsDiff, Proper, Ids
  <2> DEFINE r2 == With(st.removed, i, b.objects[i])
             o2 == Without(st.old_values, {i})
  <2>4. /\ r2 \in Index(Ids) /\ o2 \in Index(Ids)
        /\ DOMAIN r2 = DOMAIN st.removed \cup {i} /\ r2[i] = b.objects[i]
        /\ \A j \in DOMAIN st.removed : r2[j] = st.removed[j]
        /\ DOMAIN o2 = DOMAIN st.old_values \ {i}
        /\ \A j \in DOMAIN o2 : o2[j] = st.old_values[j]
    <3>1. /\ DOMAIN r2 \subseteq Ids /\ r2 \in [DOMAIN r2 -> Value]
          /\ DOMAIN o2 \subseteq Ids /\ o2 \in [DOMAIN o2 -> Value]
      BY <2>2, <2>3 DEF With, Without
    <3>2. r2 \in Index(Ids) /\ o2 \in Index(Ids)
      BY <3>1, IndexIntro, Zenon
    <3> QED BY <3>2, <2>1 DEF With, Without
  <2>5. /\ st2.removed = r2 /\ st2.old_values = o2
        /\ st2.new_ids = st.new_ids /\ st2.old_next_id = st.old_next_id
        /\ st2 \in UndoStates
    <3>1. CASE i \in DOMAIN st.old_values
      <4>1. st.old_values[i] = b.objects[i]
        BY <3>1 DEF IsDiff
      <4>2. st2 = [[st EXCEPT !.removed = r2] EXCEPT !.old_values = o2]
        BY <1>4, <3>1, <4>1 DEF on_remove
      <4> HIDE DEF r2, o2
      <4> QED BY <4>2, <2>4, Zenon DEF IsDiff, UndoStates
    <3>2. CASE i \notin DOMAIN st.old_values
      <4>1. a.objects[i] = b.objects[i]
        BY <3>2, <2>1 DEF IsDiff
      <4>2. st2 = [st EXCEPT !.removed = r2]
        BY <1>4, <2>1, <3>2, <4>1 DEF on_remove
      <4>3. o2 = st.old_values
        BY <3>2, <2>2 DEF Without
      <4> HIDE DEF r2, o2
      <4> QED BY <4>2, <4>3, <2>4 DEF IsDiff, UndoStates
    <3> QED BY <3>1, <3>2, SMTT(30)
  <2> HIDE DEF st2, a2, r2, o2
  <2>6. IsDiff(st2, b, a2)
    BY <1>1, <1>4, <2>1, <2>4, <2>5, ConstantsAssumption DEF IsDiff
  <2> QED BY <2>6 DEF st2, a2
<1> QED BY <1>3, <1>4

\* Merging two adjacent exact differences gives the exact difference across both.
LEMMA MergeDiff ==
    ASSUME NEW x, NEW y, NEW a, NEW b, NEW c, IsDiff(x, a, b), IsDiff(y, b, c)
    PROVE  IsDiff(merge(x, y), a, c)
<1> DEFINE m == merge(x, y)
<1>1. /\ x.old_values \in Index(Ids) /\ x.removed \in Index(Ids)
      /\ x.new_ids \in SUBSET Ids /\ x.old_next_id \in Ids \cup {NoId}
      /\ y.old_values \in Index(Ids) /\ y.removed \in Index(Ids)
      /\ y.new_ids \in SUBSET Ids /\ y.old_next_id \in Ids \cup {NoId}
  BY DEF IsDiff, UndoStates
<1>2. /\ DOMAIN x.removed \subseteq Ids /\ x.removed \in [DOMAIN x.removed -> Value]
      /\ DOMAIN x.old_values \subseteq Ids /\ x.old_values \in [DOMAIN x.old_values -> Value]
      /\ DOMAIN y.removed \subseteq Ids /\ y.removed \in [DOMAIN y.removed -> Value]
      /\ DOMAIN y.old_values \subseteq Ids /\ y.old_values \in [DOMAIN y.old_values -> Value]
  BY <1>1, IndexElim
<1>3. /\ x.new_ids \cap DOMAIN a.objects = {} /\ y.new_ids \cap DOMAIN b.objects = {}
      /\ y.new_ids \cap DOMAIN a.objects = {}
      /\ \A i \in y.new_ids : i >= a.next_id
  <2>1. /\ a.next_id \in Nat /\ b.next_id \in Nat /\ a.next_id <= b.next_id
        /\ \A i \in DOMAIN a.objects : i \in Int /\ i < a.next_id
        /\ \A i \in DOMAIN b.objects : i \in Int /\ i < b.next_id
    BY ConstantsAssumption DEF IsDiff, Proper, Ids
  <2>2. /\ \A i \in x.new_ids : i \in Int /\ i >= a.next_id
        /\ \A i \in y.new_ids : i \in Int /\ i >= b.next_id
    BY ConstantsAssumption, <1>1 DEF IsDiff, Ids
  <2>3. \A i \in y.new_ids : i >= a.next_id
    BY <2>1, <2>2
  <2> QED BY <2>1, <2>2, <2>3
<1>4. DOMAIN b.objects = (DOMAIN a.objects \ DOMAIN x.removed) \cup x.new_ids
  BY DEF IsDiff
<1>5. DOMAIN c.objects = (DOMAIN b.objects \ DOMAIN y.removed) \cup y.new_ids
  BY SMTT(30) DEF IsDiff
<1>6. /\ DOMAIN m.old_values = (DOMAIN x.old_values \cup (DOMAIN y.old_values \ x.new_ids))
                                 \ DOMAIN y.removed
      /\ \A i \in DOMAIN m.old_values : m.old_values[i] =
            IF i \in DOMAIN x.old_values THEN x.old_values[i] ELSE y.old_values[i]
      /\ m.new_ids = (x.new_ids \cup y.new_ids) \ DOMAIN y.removed
      /\ DOMAIN m.removed = DOMAIN x.removed \cup (DOMAIN y.removed \ (x.new_ids \cup y.new_ids))
      /\ \A i \in DOMAIN m.removed : m.removed[i] =
            IF i \notin DOMAIN y.removed THEN x.removed[i]
            ELSE IF i \in DOMAIN x.old_values THEN x.old_values[i]
            ELSE y.removed[i]
      /\ m.old_next_id = IF x.old_next_id = NoId THEN y.old_next_id ELSE x.old_next_id
  BY SMTT(30) DEF merge
<1>7. m \in UndoStates
  <2>1. DOMAIN m.old_values \subseteq Ids /\ m.old_values \in [DOMAIN m.old_values -> Value]
    BY <1>2, SMTT(30) DEF merge
  <2>2. DOMAIN m.removed \subseteq Ids /\ m.removed \in [DOMAIN m.removed -> Value]
    BY <1>2, <1>6, SMTT(30) DEF merge
  <2>3. m.old_values \in Index(Ids) /\ m.removed \in Index(Ids)
    BY <2>1, <2>2, IndexIntro
  <2> QED BY <2>3, <1>1, SMTT(30) DEF merge, UndoStates
<1> HIDE DEF m
<1>8. /\ DOMAIN y.removed \subseteq DOMAIN b.objects
      /\ DOMAIN y.old_values \subseteq DOMAIN b.objects \ DOMAIN y.removed
      /\ DOMAIN x.removed \subseteq DOMAIN a.objects
      /\ DOMAIN x.old_values \subseteq DOMAIN a.objects \ DOMAIN x.removed
  BY DEF IsDiff
<1>9. DOMAIN c.objects = (DOMAIN a.objects \ DOMAIN m.removed) \cup m.new_ids
  BY <1>3, <1>4, <1>5, <1>6, <1>8, SMTT(30)
<1>10. /\ DOMAIN m.removed \subseteq DOMAIN a.objects
       /\ DOMAIN m.old_values \subseteq DOMAIN a.objects \ DOMAIN m.removed
  BY <1>3, <1>4, <1>6, <1>8
<1>11. \A i \in m.new_ids : i >= a.next_id
  BY <1>3, <1>6 DEF IsDiff
<1>12. /\ \A i \in DOMAIN x.removed : x.removed[i] = a.objects[i]
       /\ \A i \in DOMAIN x.old_values : x.old_values[i] = a.objects[i]
       /\ \A i \in (DOMAIN a.objects \ DOMAIN x.removed) \ DOMAIN x.old_values :
             a.objects[i] = b.objects[i]
       /\ \A i \in DOMAIN y.removed : y.removed[i] = b.objects[i]
       /\ \A i \in DOMAIN y.old_values : y.old_values[i] = b.objects[i]
       /\ \A i \in (DOMAIN b.objects \ DOMAIN y.removed) \ DOMAIN y.old_values :
             b.objects[i] = c.objects[i]
  BY SMTT(30) DEF IsDiff
<1>13. \A i \in DOMAIN m.removed : m.removed[i] = a.objects[i]
  BY <1>3, <1>4, <1>6, <1>8, <1>12, SMTT(30)
<1>14. \A i \in DOMAIN m.old_values : m.old_values[i] = a.objects[i]
  BY <1>3, <1>4, <1>6, <1>8, <1>12, SMTT(30)
<1>15. \A i \in (DOMAIN a.objects \ DOMAIN m.removed) \ DOMAIN m.old_values :
          a.objects[i] = c.objects[i]
  BY <1>3, <1>4, <1>6, <1>8, <1>12, SMTT(30)
<1>16. /\ a.next_id <= c.next_id
       /\ IF m.old_next_id = NoId THEN a.next_id = c.next_id
                                  ELSE a.next_id = m.old_next_id
  BY <1>6, ConstantsAssumption, SMTT(30) DEF IsDiff, Proper
<1>17. Proper(a) /\ Proper(c)
  BY SMTT(30) DEF IsDiff
<1>18. IsDiff(m, a, c)
  BY <1>7, <1>9, <1>10, <1>11, <1>13, <1>14, <1>15, <1>16, <1>17, SMTT(30) DEF IsDiff
<1> QED BY <1>18 DEF m

-----------------------------------------------------------------------------
\* The inductive invariant.

Diffs == \A k \in 1..Len(stack) : IsDiff(stack[k], At(k), At(k + 1))

Forced == disable_on_exit => active_sessions > 0 /\ Len(stack) = active_sessions

Inv ==
    /\ TypeOK
    /\ OpenSessionsKeepTheirState
    /\ ReplayLeavesNoLog
    /\ Forced
    /\ Diffs

\* The contents of a well-typed database are proper.
LEMMA ContentsProper ==
    ASSUME TypeOK
    PROVE  Proper(Contents)
<1>1. DOMAIN objects \subseteq 0..next_id - 1 /\ objects \in [DOMAIN objects -> Value]
  BY IndexElim DEF TypeOK
<1> QED BY <1>1 DEF Contents, Proper, TypeOK

\* Proper contents are an index over the ids given so far.
LEMMA ProperIndex ==
    ASSUME NEW c, Proper(c)
    PROVE  c.objects \in Index(0..c.next_id - 1) /\ c.objects \in Index(Ids)
<1>1. DOMAIN c.objects \subseteq Ids
  BY ConstantsAssumption DEF Proper, Ids
<1> QED BY <1>1, IndexIntro DEF Proper

\* The front of a sequence.
LEMMA FrontProperties ==
    ASSUME NEW S, NEW s \in Seq(S), s # <<>>
    PROVE  /\ Front(s) \in Seq(S) /\ Len(Front(s)) = Len(s) - 1
           /\ \A k \in 1..Len(s) - 1 : Front(s)[k] = s[k]
<1> DEFINE n == Len(s)
           t == SubSeq(s, 1, n - 1)
<1>1. n \in Nat /\ n >= 1
  BY EmptySeq
<1>2. \A i \in 1..n - 1 : s[i] \in S
  BY <1>1
<1>3. /\ t \in Seq(S)
      /\ Len(t) = IF 1 <= n - 1 THEN n - 1 - 1 + 1 ELSE 0
      /\ \A i \in 1 .. n - 1 - 1 + 1 : t[i] = s[1 + i - 1]
  BY <1>1, <1>2, SubSeqProperties
<1>4. Front(s) = t
  BY DEF Front
<1> HIDE DEF n, t
<1>5. Len(t) = n - 1
  BY <1>1, <1>3
<1>6. ASSUME NEW k \in 1..n - 1
      PROVE  t[k] = s[k]
  <2>1. k \in 1 .. n - 1 - 1 + 1 /\ 1 + k - 1 = k
    BY <1>1
  <2> QED BY <1>3, <2>1
<1> QED BY <1>3, <1>4, <1>5, <1>6 DEF n

\* A write recorded in the top state of the stack.
LEMMA TopChange ==
    ASSUME TypeOK, Diffs, stack # <<>>, NEW st2,
           stack' = [stack EXCEPT ![Len(stack)] = st2], snapshots' = snapshots,
           IsDiff(st2, At(Len(stack)), Contents')
    PROVE  stack' \in Seq(UndoStates) /\ Len(stack') = Len(stack) /\ Diffs'
<1>1. Len(stack) \in Nat /\ Len(stack) >= 1 /\ stack \in Seq(UndoStates)
      /\ Len(snapshots) = Len(stack)
  BY EmptySeq DEF TypeOK
<1>2. st2 \in UndoStates
  BY DEF IsDiff
<1>3. stack' \in Seq(UndoStates) /\ Len(stack') = Len(stack)
  BY <1>1, <1>2
<1>4. ASSUME NEW k \in 1..Len(stack)
      PROVE  IsDiff(stack'[k], At(k)', At(k + 1)')
  <2>1. CASE k = Len(stack)
    <3>1. stack'[k] = st2
      BY <1>1, <2>1
    <3>2. At(k)' = At(k) /\ At(k + 1)' = Contents'
      BY <1>1, <1>3, <2>1 DEF At
    <3> QED BY <2>1, <3>1, <3>2
  <2>2. CASE k # Len(stack)
    <3>1. stack'[k] = stack[k]
      BY <1>1, <2>2
    <3>2. At(k)' = At(k) /\ At(k + 1)' = At(k + 1)
      BY <1>1, <1>3, <2>2 DEF At
    <3> QED BY <3>1, <3>2 DEF Diffs
  <2> QED BY <2>1, <2>2
<1> QED BY <1>3, <1>4, Zenon DEF Diffs

\* A write on an empty stack, outside of any session.
LEMMA FirstChange ==
    ASSUME TypeOK, stack = <<>>, NEW st2,
           stack' = <<st2>>, snapshots' = <<Contents>>,
           IsDiff(st2, Contents, Contents')
    PROVE  stack' \in Seq(UndoStates) /\ Len(stack') = 1 /\ Diffs'
<1>1. st2 \in UndoStates
  BY DEF IsDiff
<1>2. stack' \in Seq(UndoStates) /\ Len(stack') = 1 /\ stack'[1] = st2
  BY <1>1
<1>3. At(1)' = Contents /\ At(2)' = Contents'
  BY <1>2 DEF At
<1> QED BY <1>2, <1>3 DEF Diffs

\* Popping the top state restores the contents it was pushed with.
LEMMA PopDiff ==
    ASSUME TypeOK, Diffs, stack # <<>>, PopState,
           objects' = Restore(Last(stack), objects),
           next_id' = RestoreId(Last(stack), next_id)
    PROVE  /\ Contents' = Last(snapshots) /\ Proper(Contents')
           /\ stack' \in Seq(UndoStates) /\ Len(stack') = Len(stack) - 1
           /\ snapshots' \in Seq(Snapshots)
           /\ Len(snapshots') = Len(stack')
           /\ Diffs'
<1> DEFINE n == Len(stack)
<1>1. n \in Nat /\ n >= 1 /\ stack \in Seq(UndoStates) /\ Len(snapshots) = n
      /\ snapshots \in Seq(Snapshots)
  BY EmptySeq DEF TypeOK
<1>2. /\ stack' \in Seq(UndoStates) /\ Len(stack') = n - 1
      /\ \A k \in 1..n - 1 : stack'[k] = stack[k]
  BY <1>1, FrontProperties DEF PopState
<1>3. /\ snapshots' \in Seq(Snapshots)
      /\ Len(snapshots') = n - 1
      /\ \A k \in 1..n - 1 : snapshots'[k] = snapshots[k]
  BY <1>1, FrontProperties DEF PopState
<1>4. IsDiff(stack[n], snapshots[n], Contents)
  <2>1. At(n) = snapshots[n] /\ At(n + 1) = Contents
    BY <1>1 DEF At
  <2> QED BY <1>1, <2>1 DEF Diffs
<1>5. /\ Restore(stack[n], objects) = snapshots[n].objects
      /\ RestoreId(stack[n], next_id) = snapshots[n].next_id
  <2>1. Contents.objects = objects /\ Contents.next_id = next_id
    BY DEF Contents
  <2> QED BY <1>4, <2>1, DiffRestores
<1>6. snapshots[n] \in Snapshots
  BY <1>1
<1>7. Contents' = snapshots[n]
  BY <1>5, <1>6 DEF Contents, Last, Snapshots
<1>8. Proper(Contents')
  BY <1>4, <1>7, SMTT(30) DEF IsDiff
<1>9. ASSUME NEW k \in 1..n - 1
      PROVE  IsDiff(stack'[k], At(k)', At(k + 1)')
  <2>1. At(k)' = At(k) /\ At(k + 1)' = At(k + 1)
    <3>1. CASE k < n - 1
      BY <1>1, <1>2, <1>3, <3>1 DEF At
    <3>2. CASE k = n - 1
      <4>1. At(k + 1)' = Contents' /\ At(k + 1) = snapshots[n]
        BY <1>1, <1>2, <3>2 DEF At
      <4> QED BY <1>1, <1>2, <1>3, <1>7, <4>1, SMTT(30) DEF At
    <3> QED BY <1>1, <3>1, <3>2
  <2> QED BY <1>1, <1>2, <2>1 DEF Diffs
<1> QED BY <1>1, <1>2, <1>3, <1>7, <1>8, <1>9, SMTT(30) DEF Diffs, Last

-----------------------------------------------------------------------------
\* The invariant holds initially.
LEMMA InvInit == Init => Inv
<1> SUFFICES ASSUME Init PROVE Inv
  OBVIOUS
<1>1. EmptyIndex \in Index(0..next_id - 1)
  BY IndexIntro, Zenon DEF EmptyIndex
<1>2. Len(stack) = 0
  BY DEF Init
<1>3. TypeOK
  <2>1. <<>> \in Seq(UndoStates) /\ <<>> \in Seq(Snapshots)
    BY EmptySeq
  <2>2. stack \in Seq(UndoStates) /\ snapshots \in Seq(Snapshots)
    BY <2>1 DEF Init
  <2>3. /\ max_size \in Nat \ {0} /\ next_id \in 0..MaxId /\ active_sessions \in Nat
        /\ Len(snapshots) = Len(stack)
    BY ConstantsAssumption DEF Init
  <2>4. objects \in Index(0..next_id - 1)
    BY <1>1 DEF Init
  <2> QED BY <2>2, <2>3, <2>4, Zenon DEF Init, TypeOK
<1>4. OpenSessionsKeepTheirState /\ ReplayLeavesNoLog /\ Forced
  BY <1>2 DEF Init, OpenSessionsKeepTheirState, ReplayLeavesNoLog, Forced
<1>5. Diffs
  BY <1>2 DEF Diffs
<1> QED BY <1>3, <1>4, <1>5 DEF Inv

\* What the three kinds of writes have in common: given a difference for the
\* top of the stack (or for the first state of an empty one), Inv is kept.
LEMMA WriteKeepsInv ==
    ASSUME Inv, Proper(Contents'), UNCHANGED SessionVars, NEW st1, NEW st2,
           \/ disabled /\ UNCHANGED <<stack, snapshots>>
           \/ /\ ~disabled /\ stack = <<>>
              /\ stack' = <<st1>> /\ snapshots' = <<Contents>>
              /\ IsDiff(st1, Contents, Contents')
           \/ /\ ~disabled /\ stack # <<>>
              /\ stack' = [stack EXCEPT ![Len(stack)] = st2] /\ snapshots' = snapshots
              /\ IsDiff(st2, At(Len(stack)), Contents')
    PROVE  Inv'
<1>1. /\ objects' \in Index(0..next_id' - 1) /\ next_id' \in 0..MaxId
  <2>1. Contents'.objects = objects' /\ Contents'.next_id = next_id'
    BY SMTT(30) DEF Contents
  <2>2. Contents'.objects \in Index(0..Contents'.next_id - 1)
    BY ProperIndex
  <2> QED BY <2>1, <2>2 DEF Proper
<1>2. /\ stack' \in Seq(UndoStates) /\ Diffs'
      /\ snapshots' \in Seq(Snapshots) /\ Len(snapshots') = Len(stack')
      /\ Len(stack') >= Len(stack) /\ (stack # <<>> => Len(stack') = Len(stack))
      /\ (disabled => stack' = stack)
  <2>1. CASE disabled /\ UNCHANGED <<stack, snapshots>>
    <3>1. stack = <<>>
      BY <2>1 DEF Inv, ReplayLeavesNoLog
    <3>2. Len(stack') = 0
      BY <3>1, <2>1
    <3> QED BY <2>1, <3>1, <3>2 DEF Inv, TypeOK, Diffs
  <2>2. CASE /\ ~disabled /\ stack = <<>>
             /\ stack' = <<st1>> /\ snapshots' = <<Contents>>
             /\ IsDiff(st1, Contents, Contents')
    <3>1. stack' \in Seq(UndoStates) /\ Len(stack') = 1 /\ Diffs'
      BY <2>2, FirstChange DEF Inv
    <3>2. Contents \in Snapshots
      <4>1. Proper(Contents)
        BY ContentsProper DEF Inv
      <4>2. Contents.objects \in Index(Ids)
        BY <4>1, ProperIndex
      <4> QED BY <4>2 DEF Contents, Inv, TypeOK, Snapshots
    <3>3. snapshots' \in Seq(Snapshots) /\ Len(snapshots') = 1
      BY <2>2, <3>2
    <3> QED BY <2>2, <3>1, <3>3 DEF Inv, TypeOK
  <2>3. CASE /\ ~disabled /\ stack # <<>>
             /\ stack' = [stack EXCEPT ![Len(stack)] = st2] /\ snapshots' = snapshots
             /\ IsDiff(st2, At(Len(stack)), Contents')
    <3>1. stack' \in Seq(UndoStates) /\ Len(stack') = Len(stack) /\ Diffs'
      BY <2>3, TopChange, Zenon DEF Inv
    <3>2. Len(stack) \in Nat
      BY DEF Inv, TypeOK
    <3> QED BY <2>3, <3>1, <3>2 DEF Inv, TypeOK
  <2> QED BY <2>1, <2>2, <2>3
<1>3. TypeOK'
  BY <1>1, <1>2 DEF Inv, TypeOK, SessionVars
<1>4. OpenSessionsKeepTheirState'
  BY <1>2, <1>3 DEF Inv, OpenSessionsKeepTheirState, SessionVars, TypeOK
<1>5. ReplayLeavesNoLog'
  BY <1>2 DEF Inv, ReplayLeavesNoLog, SessionVars
<1>6. Forced'
  <2>1. CASE disable_on_exit
    <3>1. stack # <<>>
      BY <2>1, EmptySeq DEF Inv, Forced
    <3> QED BY <2>1, <3>1, <1>2 DEF Inv, Forced, SessionVars
  <2>2. CASE ~disable_on_exit
    BY <2>2 DEF Forced, SessionVars
  <2> QED BY <2>1, <2>2
<1> QED BY <1>2, <1>3, <1>4, <1>5, <1>6 DEF Inv

\* The contents before a write, and the state the write is logged in.
LEMMA TopIsDiff ==
    ASSUME Inv, stack # <<>>
    PROVE  IsDiff(stack[Len(stack)], At(Len(stack)), Contents)
<1>1. Len(stack) \in Nat /\ Len(stack) >= 1
  BY EmptySeq DEF Inv, TypeOK
<1>2. At(Len(stack) + 1) = Contents
  BY <1>1 DEF At
<1> QED BY <1>1, <1>2 DEF Inv, Diffs

\* A creation keeps the invariant.
LEMMA CreateKeepsInv ==
    ASSUME Inv, NEW v \in Value, Create(v)
    PROVE  Inv'
<1> DEFINE st1 == on_create(EmptyState, next_id)
           st2 == on_create(stack[Len(stack)], next_id)
<1>1. Contents' = [objects |-> With(Contents.objects, Contents.next_id, v),
                   next_id |-> Contents.next_id + 1]
  BY DEF Create, Contents
<1>2. Contents.next_id = next_id /\ Contents.next_id < MaxId /\ Proper(Contents)
  BY ContentsProper DEF Create, Contents, Inv
<1>3. IsDiff(st1, Contents, Contents')
  BY <1>1, <1>2, EmptyDiff, CreateDiff
<1>4. stack # <<>> => IsDiff(st2, At(Len(stack)), Contents')
  BY <1>1, <1>2, TopIsDiff, CreateDiff
<1>5. Proper(Contents')
  BY <1>3, SMTT(30) DEF IsDiff
<1>6. UNCHANGED SessionVars
  BY DEF Create
<1>7. IF disabled THEN UNCHANGED <<stack, snapshots>>
      ELSE IF stack = <<>> THEN stack' = <<st1>> /\ snapshots' = <<Contents>>
      ELSE stack' = [stack EXCEPT ![Len(stack)] = st2] /\ snapshots' = snapshots
  BY DEF Create, Logged
<1> HIDE DEF st1, st2
<1> QED BY <1>3, <1>4, <1>5, <1>6, <1>7, WriteKeepsInv

\* A modification keeps the invariant.
LEMMA ModifyKeepsInv ==
    ASSUME Inv, NEW i \in DOMAIN objects, NEW v \in Value, Modify(i, v)
    PROVE  Inv'
<1> DEFINE st1 == on_modify(EmptyState, i, objects[i])
           st2 == on_modify(stack[Len(stack)], i, objects[i])
<1>1. Contents' = [objects |-> [Contents.objects EXCEPT ![i] = v],
                   next_id |-> Contents.next_id]
  BY DEF Modify, Contents
<1>2. Contents.objects = objects /\ Proper(Contents)
  BY ContentsProper DEF Contents, Inv
<1>3. IsDiff(st1, Contents, Contents')
  BY <1>1, <1>2, EmptyDiff, ModifyDiff, SMTT(30)
<1>4. stack # <<>> => IsDiff(st2, At(Len(stack)), Contents')
  BY <1>1, <1>2, TopIsDiff, ModifyDiff, SMTT(30)
<1>5. Proper(Contents')
  BY <1>3, SMTT(30) DEF IsDiff
<1>6. UNCHANGED SessionVars
  BY DEF Modify
<1>7. IF disabled THEN UNCHANGED <<stack, snapshots>>
      ELSE IF stack = <<>> THEN stack' = <<st1>> /\ snapshots' = <<Contents>>
      ELSE stack' = [stack EXCEPT ![Len(stack)] = st2] /\ snapshots' = snapshots
  BY DEF Modify, Logged
<1> HIDE DEF st1, st2
<1> QED BY <1>3, <1>4, <1>5, <1>6, <1>7, WriteKeepsInv

\* A removal keeps the invariant.
LEMMA RemoveKeepsInv ==
    ASSUME Inv, NEW i \in DOMAIN objects, Remove(i)
    PROVE  Inv'
<1> DEFINE st1 == on_remove(EmptyState, i, objects[i])
           st2 == on_remove(stack[Len(stack)], i, objects[i])
<1>1. Contents' = [objects |-> Without(Contents.objects, {i}),
                   next_id |-> Contents.next_id]
  BY DEF Remove, Contents
<1>2. Contents.objects = objects /\ Proper(Contents)
  BY ContentsProper DEF Contents, Inv
<1>3. IsDiff(st1, Contents, Contents')
  BY <1>1, <1>2, EmptyDiff, RemoveDiff, SMTT(30)
<1>4. stack # <<>> => IsDiff(st2, At(Len(stack)), Contents')
  BY <1>1, <1>2, TopIsDiff, RemoveDiff, Zenon
<1>5. Proper(Contents')
  BY <1>3, SMTT(30) DEF IsDiff
<1>6. UNCHANGED SessionVars
  BY DEF Remove
<1>7. IF disabled THEN UNCHANGED <<stack, snapshots>>
      ELSE IF stack = <<>> THEN stack' = <<st1>> /\ snapshots' = <<Contents>>
      ELSE stack' = [stack EXCEPT ![Len(stack)] = st2] /\ snapshots' = snapshots
  BY DEF Remove, Logged
<1> HIDE DEF st1, st2
<1> QED BY <1>3, <1>4, <1>5, <1>6, <1>7, WriteKeepsInv

-----------------------------------------------------------------------------
\* Dropping the first d elements of a sequence and appending one.
Shifted(t, s, S, d, e) ==
    /\ t \in Seq(S) /\ Len(t) = Len(s) - d + 1
    /\ \A k \in 1..Len(s) - d : t[k] = s[k + d]
    /\ t[Len(s) - d + 1] = e

\* Dropping states from the front of the stack and pushing one at its end.
LEMMA DropAppend ==
    ASSUME NEW S, NEW s \in Seq(S), NEW d \in 0..Len(s), NEW e \in S,
           NEW t, t = Append(SubSeq(s, d + 1, Len(s)), e)
    PROVE  Shifted(t, s, S, d, e)
<1> DEFINE n == Len(s)
           u == SubSeq(s, d + 1, n)
<1>0. t = Append(u, e)
  OBVIOUS
<1>1. n \in Nat /\ d \in Nat /\ d <= n
  OBVIOUS
<1>2. \A i \in d + 1..n : s[i] \in S
  BY <1>1
<1>3. /\ u \in Seq(S)
      /\ Len(u) = IF d + 1 <= n THEN n - (d + 1) + 1 ELSE 0
      /\ \A i \in 1 .. n - (d + 1) + 1 : u[i] = s[d + 1 + i - 1]
  BY <1>1, <1>2, SubSeqProperties, SMTT(30)
<1> HIDE DEF n, u
<1>4. Len(u) = n - d
  <2>1. (IF d + 1 <= n THEN n - (d + 1) + 1 ELSE 0) = n - d
    BY <1>1
  <2> QED BY <1>3, <2>1
<1>5. ASSUME NEW k \in 1..n - d
      PROVE  u[k] = s[k + d]
  <2>1. k \in 1 .. n - (d + 1) + 1 /\ d + 1 + k - 1 = k + d
    BY <1>1
  <2> QED BY <1>3, <2>1, SMTT(30)
<1>6. t \in Seq(S) /\ Len(t) = n - d + 1 /\ t[n - d + 1] = e
      /\ \A k \in 1..n - d : t[k] = u[k]
  <2>1. /\ t \in Seq(S) /\ Len(t) = Len(u) + 1
        /\ \A i \in 1..Len(u) : t[i] = u[i]
        /\ t[Len(u) + 1] = e
    BY <1>3, <1>0, AppendProperties, SMTT(30)
  <2> QED BY <1>1, <1>4, <2>1, SMTT(30)
<1> QED BY <1>5, <1>6 DEF n, u, Shifted

\* Opening a session: the states that stay keep their differences.
LEMMA PushKeepsDiffs ==
    ASSUME Inv, NEW limit \in Nat \ {0}, PushState(limit), UNCHANGED <<objects, next_id>>
    PROVE  /\ stack' \in Seq(UndoStates) /\ snapshots' \in Seq(Snapshots)
           /\ Len(snapshots') = Len(stack')
           /\ Len(stack') = Len(stack) - Dropped(Len(stack), limit) + 1
           /\ Diffs'
<1> DEFINE n == Len(stack)
           d == Dropped(n, limit)
<1>1. n \in Nat /\ Len(snapshots) = n /\ stack \in Seq(UndoStates) /\ snapshots \in Seq(Snapshots)
  BY DEF Inv, TypeOK
<1>2. d \in 0..n
  BY <1>1 DEF Dropped
<1>3. Proper(Contents)
  BY ContentsProper DEF Inv
<1>4. EmptyState \in UndoStates
  BY <1>3, EmptyDiff DEF IsDiff
<1>5. Contents \in Snapshots
  <2>1. Contents.objects \in Index(Ids)
    BY <1>3, ProperIndex
  <2> QED BY <2>1 DEF Contents, Inv, TypeOK, Snapshots
<1>6. /\ stack' = Append(SubSeq(stack, d + 1, n), EmptyState)
      /\ snapshots' = Append(SubSeq(snapshots, d + 1, n), Contents)
  BY <1>1 DEF PushState
<1> HIDE DEF n, d
<1>7. /\ stack' \in Seq(UndoStates) /\ Len(stack') = n - d + 1
      /\ \A k \in 1..n - d : stack'[k] = stack[k + d]
      /\ stack'[n - d + 1] = EmptyState
  <2>1. d \in 0..Len(stack) /\ stack' = Append(SubSeq(stack, d + 1, Len(stack)), EmptyState)
    BY <1>2, <1>6 DEF n
  <2>2. /\ stack' \in Seq(UndoStates) /\ Len(stack') = Len(stack) - d + 1
        /\ \A k \in 1..Len(stack) - d : stack'[k] = stack[k + d]
        /\ stack'[Len(stack) - d + 1] = EmptyState
    <3>1. stack \in Seq(UndoStates)
      BY <1>1
    <3>2. Shifted(stack', stack, UndoStates, d, EmptyState)
      BY <3>1, <1>4, <2>1, DropAppend, Zenon
    <3> QED BY <3>2 DEF Shifted
  <2> QED BY <2>2 DEF n
<1>8. /\ snapshots' \in Seq(Snapshots) /\ Len(snapshots') = n - d + 1
      /\ \A k \in 1..n - d : snapshots'[k] = snapshots[k + d]
      /\ snapshots'[n - d + 1] = Contents
  <2>1. /\ d \in 0..Len(snapshots)
        /\ snapshots' = Append(SubSeq(snapshots, d + 1, Len(snapshots)), Contents)
    BY <1>1, <1>2, <1>6
  <2>2. /\ snapshots' \in Seq(Snapshots) /\ Len(snapshots') = Len(snapshots) - d + 1
        /\ \A k \in 1..Len(snapshots) - d : snapshots'[k] = snapshots[k + d]
        /\ snapshots'[Len(snapshots) - d + 1] = Contents
    <3>1. snapshots \in Seq(Snapshots)
      BY <1>1
    <3>2. Shifted(snapshots', snapshots, Snapshots, d, Contents)
      BY <3>1, <1>5, <2>1, DropAppend, Zenon
    <3> QED BY <3>2 DEF Shifted
  <2> QED BY <1>1, <2>2
<1>9. Contents' = Contents
  BY DEF Contents
<1>10. ASSUME NEW k \in 1..n - d + 1
       PROVE  IsDiff(stack'[k], At(k)', At(k + 1)')
  <2>1. CASE k = n - d + 1
    <3>1. At(k)' = Contents /\ At(k + 1)' = Contents
      BY <1>1, <1>2, <1>7, <1>8, <1>9, <2>1 DEF At
    <3> QED BY <2>1, <3>1, <1>3, <1>7, EmptyDiff, SMTT(30)
  <2>2. CASE k = n - d /\ k \in 1..n - d
    <3>1. k + d = n
      BY <1>1, <1>2, <2>2
    <3>2. At(k)' = snapshots[n] /\ At(k + 1)' = Contents /\ stack'[k] = stack[n]
      BY <1>1, <1>2, <1>7, <1>8, <2>2, <3>1, SMTT(30) DEF At
    <3>3. At(n) = snapshots[n] /\ At(n + 1) = Contents
      BY <1>1 DEF At, n
    <3>4. n \in 1..Len(stack)
      BY <1>1, <1>2, <2>2 DEF n
    <3> QED BY <3>2, <3>3, <3>4 DEF Inv, Diffs
  <2>3. CASE k \in 1..n - d - 1
    <3>1. k + d \in 1..n - 1 /\ k + 1 \in 1..n - d /\ (k + 1) + d = (k + d) + 1
      BY <1>1, <1>2, <2>3
    <3>2. At(k)' = snapshots[k + d] /\ At(k + 1)' = snapshots[(k + d) + 1]
          /\ stack'[k] = stack[k + d]
      BY <1>1, <1>2, <1>7, <1>8, <2>3, <3>1, SMTT(30) DEF At
    <3>3. At(k + d) = snapshots[k + d] /\ At((k + d) + 1) = snapshots[(k + d) + 1]
      BY <1>1, <1>2, <2>3, <3>1 DEF At, n
    <3>4. k + d \in 1..Len(stack)
      BY <1>1, <3>1 DEF n
    <3> QED BY <3>2, <3>3, <3>4, SMTT(30) DEF Inv, Diffs
  <2> QED BY <1>1, <1>2, <2>1, <2>2, <2>3
<1>11. 1..Len(stack') = 1..n - d + 1
  BY <1>7
<1> QED BY <1>7, <1>8, <1>10, <1>11, SMTT(30) DEF Diffs, n, d

\* Merging the two top states of the stack.
LEMMA MergeTop ==
    ASSUME Inv, Len(stack) > 1, UNCHANGED <<objects, next_id>>,
           stack' = Append(SubSeq(stack, 1, Len(stack) - 2),
                           merge(stack[Len(stack) - 1], stack[Len(stack)])),
           snapshots' = Front(snapshots)
    PROVE  /\ stack' \in Seq(UndoStates) /\ snapshots' \in Seq(Snapshots)
           /\ Len(snapshots') = Len(stack') /\ Len(stack') = Len(stack) - 1
           /\ Diffs'
<1> DEFINE n == Len(stack)
           m == merge(stack[n - 1], stack[n])
           u == SubSeq(stack, 1, n - 2)
<1>1. n \in Nat /\ n > 1 /\ Len(snapshots) = n /\ stack \in Seq(UndoStates)
      /\ snapshots \in Seq(Snapshots)
  BY DEF Inv, TypeOK
<1>2. /\ At(n - 1) = snapshots[n - 1] /\ At((n - 1) + 1) = snapshots[n]
      /\ At(n) = snapshots[n] /\ At(n + 1) = Contents
  BY <1>1 DEF At
<1>3. IsDiff(stack[n - 1], snapshots[n - 1], snapshots[n])
      /\ IsDiff(stack[n], snapshots[n], Contents)
  BY <1>1, <1>2, SMTT(30) DEF Inv, Diffs
<1>4. IsDiff(m, snapshots[n - 1], Contents)
  BY <1>3, MergeDiff, SMTT(30)
<1>5. m \in UndoStates
  BY <1>4, SMTT(30) DEF IsDiff
<1>6. /\ u \in Seq(UndoStates)
      /\ Len(u) = IF 1 <= n - 2 THEN n - 2 - 1 + 1 ELSE 0
      /\ \A i \in 1 .. n - 2 - 1 + 1 : u[i] = stack[1 + i - 1]
  <2>1. \A i \in 1..n - 2 : stack[i] \in UndoStates
    BY <1>1
  <2> QED BY <1>1, <2>1, SubSeqProperties
<1>7. stack' = Append(u, m)
  OBVIOUS
<1>8. snapshots # <<>>
  BY <1>1
<1>9. /\ snapshots' \in Seq(Snapshots) /\ Len(snapshots') = n - 1
      /\ \A k \in 1..n - 1 : snapshots'[k] = snapshots[k]
  BY <1>1, <1>8, FrontProperties, SMTT(30)
<1>10. Contents' = Contents
  BY DEF Contents
<1> HIDE DEF n, m, u
<1>11. Len(u) = n - 2
  BY <1>1, <1>6
<1>12. /\ stack' \in Seq(UndoStates) /\ Len(stack') = n - 1
       /\ stack'[n - 1] = m /\ \A k \in 1..n - 2 : stack'[k] = stack[k]
  <2>1. \A k \in 1..n - 2 : u[k] = stack[k]
    <3>1. \A k \in 1..n - 2 : k \in 1 .. n - 2 - 1 + 1 /\ 1 + k - 1 = k
      BY <1>1
    <3> QED BY <1>6, <3>1, SMTT(30)
  <2> QED BY <1>1, <1>5, <1>6, <1>7, <1>11, <2>1, SMTT(30)
<1>13. ASSUME NEW k \in 1..n - 1
       PROVE  IsDiff(stack'[k], At(k)', At(k + 1)')
  <2>1. CASE k = n - 1
    <3>1. At(k)' = snapshots[n - 1] /\ At(k + 1)' = Contents
      BY <1>1, <1>9, <1>10, <1>12, <2>1 DEF At
    <3> QED BY <1>4, <1>12, <2>1, <3>1
  <2>2. CASE k \in 1..n - 2
    <3>1. At(k)' = snapshots[k] /\ At(k + 1)' = snapshots[k + 1]
      BY <1>1, <1>9, <1>12, <2>2, SMTT(30) DEF At
    <3>2. At(k) = snapshots[k] /\ At(k + 1) = snapshots[k + 1] /\ k \in 1..Len(stack)
      BY <1>1, <2>2 DEF At, n
    <3> QED BY <1>12, <2>2, <3>1, <3>2, SMTT(30) DEF Inv, Diffs
  <2>3. k = n - 1 \/ k \in 1..n - 2
    BY <1>1
  <2> QED BY <2>1, <2>2, <2>3, Zenon
<1>14. 1..Len(stack') = 1..n - 1
  BY <1>12
<1> QED BY <1>9, <1>12, <1>13, <1>14, SMTT(30) DEF Diffs, n

-----------------------------------------------------------------------------
\* One step keeps the invariant, and is a step of the stack of copies.

\* Every step keeps the invariant.
LEMMA StepKeepsInv == Inv /\ [Next]_vars => Inv'
<1> SUFFICES ASSUME Inv, [Next]_vars PROVE Inv'
  OBVIOUS
<1>0. /\ Len(stack) \in Nat /\ active_sessions \in Nat /\ active_sessions <= Len(stack)
      /\ max_size \in Nat \ {0} /\ (stack # <<>> => Len(stack) >= 1)
      /\ (Len(stack) >= 1 => stack # <<>>)
  BY EmptySeq DEF Inv, TypeOK, OpenSessionsKeepTheirState
<1>1. ASSUME NEW v \in Value, Create(v) PROVE Inv'
  BY <1>1, CreateKeepsInv
<1>2. ASSUME NEW i \in DOMAIN objects, NEW v \in Value, Modify(i, v) PROVE Inv'
  BY <1>2, ModifyKeepsInv
<1>3. ASSUME NEW i \in DOMAIN objects, Remove(i) PROVE Inv'
  BY <1>3, RemoveKeepsInv
<1>4. ASSUME UNCHANGED <<objects, next_id, stack, active_sessions, disabled,
                         disable_on_exit, max_size, snapshots>>,
             broken' \in BOOLEAN
      PROVE  Inv'
  <2>1. TypeOK' /\ OpenSessionsKeepTheirState' /\ ReplayLeavesNoLog' /\ Forced'
    BY <1>4 DEF Inv, TypeOK, OpenSessionsKeepTheirState, ReplayLeavesNoLog, Forced
  <2>2. Diffs'
    BY <1>4 DEF Inv, Diffs, At, Contents
  <2> QED BY <2>1, <2>2 DEF Inv
<1>5. ASSUME NEW i \in DOMAIN objects, NEW v \in Value, ModifyCollides(i, v) PROVE Inv'
  BY <1>4, <1>5 DEF ModifyCollides
<1>6. CASE RestoreFails
  BY <1>4, <1>6, SMTT(30) DEF RestoreFails
<1>7. ASSUME UNCHANGED <<objects, next_id, stack, snapshots>>
      PROVE  Diffs'
  BY <1>7, SMTT(30) DEF Inv, Diffs, At, Contents
<1>8. CASE Enable
  <2>1. TypeOK' /\ OpenSessionsKeepTheirState' /\ ReplayLeavesNoLog' /\ Forced'
    BY <1>8, Zenon DEF Enable, Inv, TypeOK, OpenSessionsKeepTheirState, ReplayLeavesNoLog, Forced
  <2> QED BY <1>7, <1>8, <2>1 DEF Enable, Inv
<1>9. ASSUME NEW n \in 1..MaxUndo, SetMaxSize(n) PROVE Inv'
  <2>1. max_size' \in Nat \ {0}
    BY <1>9, ConstantsAssumption DEF SetMaxSize
  <2>2. TypeOK' /\ OpenSessionsKeepTheirState' /\ ReplayLeavesNoLog' /\ Forced'
    BY <1>9, <2>1 DEF SetMaxSize, Inv, TypeOK, OpenSessionsKeepTheirState,
                      ReplayLeavesNoLog, Forced
  <2> QED BY <1>7, <1>9, <2>2 DEF SetMaxSize, Inv
<1>10. CASE StartSession
  <2>1. PushState(max_size) /\ UNCHANGED <<objects, next_id>>
    BY <1>10 DEF StartSession
  <2>2. /\ stack' \in Seq(UndoStates) /\ snapshots' \in Seq(Snapshots)
        /\ Len(snapshots') = Len(stack')
        /\ Len(stack') = Len(stack) - Dropped(Len(stack), max_size) + 1
        /\ Diffs'
    BY <1>0, <2>1, PushKeepsDiffs
  <2>3. active_sessions' = active_sessions + 1
    BY <2>1 DEF PushState
  <2>4. active_sessions' <= Len(stack')
    <3> DEFINE d == Dropped(Len(stack), max_size)
    <3>1. d \in Nat /\ d <= Len(stack) /\ (Len(stack) >= 1 => d < Len(stack))
      BY <1>0 DEF Dropped
    <3>2. active_sessions = 0 \/ active_sessions = 1
      BY <1>0, <1>10 DEF StartSession
    <3> HIDE DEF d
    <3>3. Len(stack') = Len(stack) - d + 1
      BY <2>2 DEF d
    <3> QED BY <1>0, <2>3, <3>1, <3>2, <3>3
  <2>5. TypeOK'
    BY <1>10, <2>2, <2>3 DEF StartSession, Inv, TypeOK
  <2> QED BY <1>10, <2>2, <2>4, <2>5
          DEF StartSession, Inv, OpenSessionsKeepTheirState, ReplayLeavesNoLog, Forced
<1>11. CASE StartProposalSession
  <2>1. PushState(max_size') /\ UNCHANGED <<objects, next_id>>
    BY <1>11 DEF StartProposalSession
  <2>2. max_size' \in Nat \ {0} /\ Dropped(Len(stack), max_size') = 0
    BY <1>0, <1>11 DEF StartProposalSession, Dropped
  <2>3. /\ stack' \in Seq(UndoStates) /\ snapshots' \in Seq(Snapshots)
        /\ Len(snapshots') = Len(stack') /\ Len(stack') = Len(stack) + 1
        /\ Diffs'
    BY <1>0, <2>1, <2>2, PushKeepsDiffs
  <2>4. active_sessions' = active_sessions + 1
    BY <2>1 DEF PushState
  <2>5. TypeOK'
    <3>1. disable_on_exit \in BOOLEAN /\ active_sessions \in Nat
      BY DEF Inv, TypeOK
    <3>2. disabled' = FALSE /\ disable_on_exit' \in BOOLEAN
      BY <1>11, <3>1, Zenon DEF StartProposalSession
    <3>3. active_sessions' \in Nat
      BY <2>4, <3>1
    <3> QED BY <1>11, <2>2, <2>3, <3>2, <3>3, Zenon DEF StartProposalSession, Inv, TypeOK
  <2>6. OpenSessionsKeepTheirState' /\ ReplayLeavesNoLog'
    BY <1>0, <1>11, <2>3, <2>4
       DEF StartProposalSession, OpenSessionsKeepTheirState, ReplayLeavesNoLog
  <2>7. Forced'
    <3>1. CASE disabled
      <4>1. Len(stack) = 0 /\ active_sessions = 0
        BY <3>1 DEF Inv, ReplayLeavesNoLog
      <4> QED BY <2>3, <2>4, <4>1 DEF Forced
    <3>2. CASE ~disabled
      BY <1>0, <1>11, <2>3, <2>4, <3>2 DEF StartProposalSession, Inv, Forced
    <3> QED BY <3>1, <3>2
  <2> QED BY <2>3, <2>5, <2>6, <2>7 DEF Inv
<1>12. ASSUME active_sessions > 0, LeaveSession, stack' \in Seq(UndoStates),
              Len(stack') = Len(stack) - 1
       PROVE  /\ active_sessions' \in Nat /\ active_sessions' <= Len(stack')
              /\ disabled' \in BOOLEAN /\ disable_on_exit' \in BOOLEAN
              /\ ReplayLeavesNoLog' /\ Forced'
  <2>1. Len(stack') = 0 => stack' = <<>>
    BY <1>12, EmptySeq
  <2>2. disabled \in BOOLEAN /\ disable_on_exit \in BOOLEAN
    BY DEF Inv, TypeOK
  <2>3. disable_on_exit => Len(stack) = active_sessions
    BY DEF Inv, Forced
  <2>4. /\ active_sessions' = active_sessions - 1
        /\ active_sessions' \in Nat /\ active_sessions' <= Len(stack')
    BY <1>0, <1>12 DEF LeaveSession
  <2>5. CASE active_sessions = 1
    <3>1. disabled' = disable_on_exit /\ disable_on_exit' = FALSE
      BY <1>12, <2>5 DEF LeaveSession
    <3>2. active_sessions' = 0
      BY <2>4, <2>5
    <3>3. Len(stack) = 1 => Len(stack') = 0
      BY <1>12
    <3>4. disable_on_exit => Len(stack) = 1
      BY <2>3, <2>5
    <3> QED BY <2>1, <2>2, <2>4, <3>1, <3>2, <3>3, <3>4, Zenon DEF ReplayLeavesNoLog, Forced
  <2>6. CASE active_sessions # 1
    <3>1. disabled' = FALSE /\ disable_on_exit' = disable_on_exit
      BY <1>12, <2>6 DEF LeaveSession
    <3>2. active_sessions' > 0
      BY <1>0, <1>12, <2>4, <2>6
    <3>3. disable_on_exit => Len(stack') = active_sessions'
      BY <1>12, <2>3, <2>4
    <3> QED BY <2>2, <2>4, <3>1, <3>2, <3>3, Zenon DEF ReplayLeavesNoLog, Forced
  <2> QED BY <2>5, <2>6
<1>13. ASSUME Undo \/ pop_commit PROVE Inv'
  <2>1. /\ stack # <<>> /\ PopState /\ ~disabled
        /\ objects' = Restore(Last(stack), objects)
        /\ next_id' = RestoreId(Last(stack), next_id)
        /\ UNCHANGED <<max_size, broken>>
    BY <1>13 DEF Undo, pop_commit, SessionVars
  <2>2. /\ Proper(Contents')
        /\ stack' \in Seq(UndoStates) /\ Len(stack') = Len(stack) - 1
        /\ snapshots' \in Seq(Snapshots) /\ Len(snapshots') = Len(stack')
        /\ Diffs'
    BY <2>1, PopDiff DEF Inv
  <2>3. objects' \in Index(0..next_id' - 1) /\ next_id' \in 0..MaxId
    <3>1. Contents'.objects = objects' /\ Contents'.next_id = next_id'
      BY DEF Contents
    <3>2. Contents'.objects \in Index(0..Contents'.next_id - 1)
      BY <2>2, ProperIndex
    <3> QED BY <2>2, <3>1, <3>2 DEF Proper
  <2>4. /\ active_sessions' \in Nat /\ active_sessions' <= Len(stack')
        /\ disabled' \in BOOLEAN /\ disable_on_exit' \in BOOLEAN
        /\ ReplayLeavesNoLog' /\ Forced'
    <3>1. CASE Undo
      BY <1>12, <2>2, <3>1 DEF Undo
    <3>2. CASE pop_commit
      BY <1>0, <2>1, <2>2, <3>2
         DEF pop_commit, SessionVars, Inv, TypeOK, ReplayLeavesNoLog, Forced
    <3> QED BY <1>13, <3>1, <3>2
  <2>5. TypeOK'
    BY <2>1, <2>2, <2>3, <2>4 DEF Inv, TypeOK
  <2> QED BY <2>2, <2>4, <2>5 DEF Inv, OpenSessionsKeepTheirState
<1>14. CASE Merge
  <2>0. active_sessions > 0 /\ LeaveSession /\ UNCHANGED <<objects, next_id, max_size, broken>>
    BY <1>14 DEF Merge
  <2>1. /\ stack' \in Seq(UndoStates) /\ snapshots' \in Seq(Snapshots)
        /\ Len(snapshots') = Len(stack') /\ Len(stack') = Len(stack) - 1 /\ Diffs'
    <3>1. CASE Len(stack) = 1
      <4>1. PopState /\ stack # <<>> /\ snapshots # <<>>
        BY <1>14, <3>1 DEF Merge, Inv, TypeOK
      <4>2. /\ stack' \in Seq(UndoStates) /\ snapshots' \in Seq(Snapshots)
            /\ Len(snapshots') = Len(snapshots) - 1 /\ Len(stack') = Len(stack) - 1
        BY <4>1, FrontProperties DEF PopState, Inv, TypeOK
      <4>3. Len(stack') = 0
        BY <3>1, <4>2
      <4> QED BY <4>2, <4>3 DEF Diffs, Inv, TypeOK
    <3>2. CASE Len(stack) # 1
      <4>1. Len(stack) > 1
        <5>1. stack # <<>>
          BY <1>14 DEF Merge
        <5> QED BY <1>0, <3>2, <5>1
      <4> QED BY <1>14, <2>0, <3>2, <4>1, MergeTop DEF Merge
    <3> QED BY <3>1, <3>2
  <2>2. /\ active_sessions' \in Nat /\ active_sessions' <= Len(stack')
        /\ disabled' \in BOOLEAN /\ disable_on_exit' \in BOOLEAN
        /\ ReplayLeavesNoLog' /\ Forced'
    BY <1>12, <2>0, <2>1
  <2>3. TypeOK'
    BY <2>0, <2>1, <2>2 DEF Inv, TypeOK
  <2> QED BY <2>1, <2>2, <2>3 DEF Inv, OpenSessionsKeepTheirState
<1>15. CASE Commit
  <2>1. active_sessions' = 0 /\ disabled' = FALSE /\ disable_on_exit' = FALSE
    BY <1>15 DEF Commit, LeaveSession
  <2>2. UNCHANGED <<objects, next_id, stack, max_size, broken, snapshots>>
    BY <1>15 DEF Commit
  <2>3. TypeOK'
    BY <2>1, <2>2, Zenon DEF Inv, TypeOK
  <2>4. OpenSessionsKeepTheirState' /\ ReplayLeavesNoLog' /\ Forced'
    BY <1>0, <2>1, <2>2 DEF OpenSessionsKeepTheirState, ReplayLeavesNoLog, Forced
  <2> QED BY <1>7, <2>2, <2>3, <2>4 DEF Inv
<1>16. CASE UNCHANGED vars
  BY <1>4, <1>16 DEF vars, Inv, TypeOK
<1> QED
  BY <1>1, <1>2, <1>3, <1>5, <1>6, <1>8, <1>9, <1>10, <1>11, <1>13, <1>14, <1>15, <1>16
     DEF Next

-----------------------------------------------------------------------------
(***************************************************************************)
(* The theorems.                                                           *)
(***************************************************************************)

\* The inductive invariant holds in every reachable state.
THEOREM Invariance == Spec => []Inv
<1>1. Init => Inv
  BY InvInit
<1>2. Inv /\ [Next]_vars => Inv'
  BY StepKeepsInv
<1> QED BY <1>1, <1>2, PTL DEF Spec

\* Type correctness of the undo database, for every number of ids, values,
\* nested sessions and undo states.
THEOREM TypeCorrectness == Spec => []TypeOK
<1>1. Inv => TypeOK
  BY DEF Inv
<1> QED BY <1>1, Invariance, PTL

\* No session that is still open loses its undo state when start_undo_session
\* cuts the stack down to max_size.
THEOREM SessionsKeepTheirState == Spec => []OpenSessionsKeepTheirState
<1>1. Inv => OpenSessionsKeepTheirState
  BY DEF Inv
<1> QED BY <1>1, Invariance, PTL

\* A replay, which runs with undo disabled, leaves no undo state behind.
THEOREM ReplayIsClean == Spec => []ReplayLeavesNoLog
<1>1. Inv => ReplayLeavesNoLog
  BY DEF Inv
<1> QED BY <1>1, Invariance, PTL

\* Undoing restores, state by state, exactly what the index held when the state
\* was pushed, after any sequence of creations, modifications, removals, merges,
\* commits and undos.
THEOREM UndoIsExact == Spec => []LogsAreExact
<1>1. Inv => LogsAreExact
  <2> SUFFICES ASSUME Inv, NEW k \in 1..Len(stack)
               PROVE  /\ Restore(stack[k], At(k + 1).objects) = At(k).objects
                      /\ RestoreId(stack[k], At(k + 1).next_id) = At(k).next_id
    BY DEF LogsAreExact
  <2> QED BY DiffRestores DEF Inv, Diffs
<1> QED BY <1>1, Invariance, PTL

-----------------------------------------------------------------------------
(***************************************************************************)
(* The undo log implements the stack of copies.                            *)
(***************************************************************************)
\* Restoring the top of the stack gives back the copy on top.
LEMMA RestoresTopCopy ==
    ASSUME Inv, stack # <<>>,
           objects' = Restore(Last(stack), objects),
           next_id' = RestoreId(Last(stack), next_id)
    PROVE  Contents' = Last(snapshots) /\ snapshots # <<>>
<1>1. /\ Len(stack) \in Nat /\ Len(stack) # 0 /\ Len(snapshots) = Len(stack)
  BY EmptySeq DEF Inv, TypeOK
<1>2. IsDiff(stack[Len(stack)], At(Len(stack)), Contents)
  BY <1>1, TopIsDiff DEF Inv
<1>3. At(Len(stack)) = snapshots[Len(stack)] /\ Len(stack) \in 1..Len(snapshots)
  BY <1>1 DEF At
<1>4. snapshots[Len(stack)] \in Snapshots
  BY <1>1, <1>3 DEF Inv, TypeOK
<1>5. /\ objects' = snapshots[Len(stack)].objects
      /\ next_id' = snapshots[Len(stack)].next_id
  BY <1>2, <1>3, DiffRestores DEF Last, Contents
<1> QED BY <1>1, <1>4, <1>5 DEF Contents, Last, Snapshots

\* Every step of the undo log is a step of SnapshotStore or changes nothing there.
LEMMA StepRefines ==
    ASSUME Inv, [Next]_vars
    PROVE  [Copies!Next]_(Copies!vars)
<1> USE DEF Copies!Next, Copies!vars
<1>0. /\ Len(stack) \in Nat /\ Len(snapshots) = Len(stack)
      /\ active_sessions \in Nat /\ active_sessions <= Len(stack)
  BY DEF Inv, TypeOK, OpenSessionsKeepTheirState
<1>00. stack = <<>> => snapshots = <<>>
  BY <1>0, EmptySeq DEF Inv, TypeOK
<1>1. ASSUME NEW v \in Value, Create(v) PROVE Copies!Write
  <2>1. /\ snapshots' = snapshots \/ (stack = <<>> /\ snapshots' = <<Contents>>)
        /\ active_sessions' = active_sessions
    BY <1>1 DEF Create, SessionVars, Logged
  <2> QED BY <1>00, <2>1 DEF Copies!Write
<1>2. ASSUME NEW i \in DOMAIN objects, NEW v \in Value, Modify(i, v) PROVE Copies!Write
  <2>1. /\ snapshots' = snapshots \/ (stack = <<>> /\ snapshots' = <<Contents>>)
        /\ active_sessions' = active_sessions
    BY <1>2 DEF Modify, SessionVars, Logged
  <2> QED BY <1>00, <2>1 DEF Copies!Write
<1>3. ASSUME NEW i \in DOMAIN objects, Remove(i) PROVE Copies!Write
  <2>1. /\ snapshots' = snapshots \/ (stack = <<>> /\ snapshots' = <<Contents>>)
        /\ active_sessions' = active_sessions
    BY <1>3 DEF Remove, SessionVars, Logged
  <2> QED BY <1>00, <2>1 DEF Copies!Write
<1>4. ASSUME NEW limit, PushState(limit), limit \in Nat, UNCHANGED <<objects, next_id>>
      PROVE  Copies!Start
  <2> DEFINE d == Dropped(Len(stack), limit)
  <2>1. d \in 0..Len(snapshots)
    BY <1>0, <1>4 DEF Dropped
  <2>2. /\ snapshots' = Append(SubSeq(snapshots, d + 1, Len(snapshots)), Contents)
        /\ active_sessions' = active_sessions + 1
    BY <1>4 DEF PushState
  <2>3. Contents' = Contents
    BY <1>4 DEF Contents
  <2> HIDE DEF d
  <2> QED BY <2>1, <2>2, <2>3, Zenon DEF Copies!Start
<1>5. max_size \in Nat
  BY DEF Inv, TypeOK
<1>6. CASE StartSession
  BY <1>4, <1>5, <1>6 DEF StartSession
<1>7. CASE StartProposalSession
  <2>1. max_size' \in Nat
    BY <1>0, <1>5, <1>7 DEF StartProposalSession
  <2> QED BY <1>4, <1>7, <2>1 DEF StartProposalSession
<1>8. CASE Undo
  BY <1>8, RestoresTopCopy DEF Undo, PopState, LeaveSession, Copies!Undo, Copies!Last,
     Copies!Front, Last, Front
<1>9. CASE pop_commit
  BY <1>9, RestoresTopCopy DEF pop_commit, PopState, SessionVars, Copies!PopCommit,
     Copies!Last, Copies!Front, Last, Front
<1>10. CASE Merge
  <2>1. snapshots # <<>>
    BY <1>0, <1>10, EmptySeq DEF Merge, Inv, TypeOK
  <2>2. snapshots' = Front(snapshots) /\ active_sessions > 0 /\ Contents' = Contents
    BY <1>10 DEF Merge, PopState, Contents
  <2>3. active_sessions' = active_sessions - 1
    BY <1>10 DEF Merge, LeaveSession
  <2> QED BY <2>1, <2>2, <2>3 DEF Copies!Merge, Copies!Front, Front
<1>11. CASE Commit
  <2>1. active_sessions > 0 /\ UNCHANGED <<snapshots, Contents>>
    BY <1>11 DEF Commit, Contents
  <2>2. active_sessions' = active_sessions - 1
    BY <1>11 DEF Commit, LeaveSession
  <2> QED BY <2>1, <2>2 DEF Copies!Commit
<1>12. ASSUME UNCHANGED <<objects, next_id, snapshots, active_sessions>>
       PROVE  UNCHANGED Copies!vars
  BY <1>12 DEF Contents
<1>13. ASSUME NEW i \in DOMAIN objects, NEW v \in Value, ModifyCollides(i, v)
       PROVE  UNCHANGED Copies!vars
  BY <1>12, <1>13 DEF ModifyCollides
<1>14. CASE Enable \/ (\E n \in 1..MaxUndo : SetMaxSize(n)) \/ RestoreFails \/ UNCHANGED vars
  BY <1>12, <1>14 DEF Enable, SetMaxSize, RestoreFails, vars
<1> QED
  BY <1>1, <1>2, <1>3, <1>6, <1>7, <1>8, <1>9, <1>10, <1>11, <1>13, <1>14 DEF Next

\* The undo log implements the stack of full copies: whatever mixture of
\* writes, sessions, merges, commits and undos the chain performs, undo and
\* pop_commit put back exactly the contents saved when the session began.
THEOREM Refinement == Spec => ImplementsCopies
<1>1. Init => Copies!Init
  BY DEF Init, Copies!Init
<1>2. Inv /\ [Next]_vars => [Copies!Next]_(Copies!vars)
  BY StepRefines
<1> QED BY <1>1, <1>2, Invariance, PTL DEF Spec, ImplementsCopies, Copies!Spec
=============================================================================

---------------------------- MODULE UndoDatabase ----------------------------
(***************************************************************************)
(* The undo log of the object database (libraries/db): one index of        *)
(* objects with its next_id, and the stack of undo states that start_undo_ *)
(* session, on_create, on_modify, on_remove, undo, merge, commit and       *)
(* pop_commit maintain.  An object is reduced to its value; when UniqueKey *)
(* holds the index has a unique secondary key and the value stands for it. *)
(*                                                                         *)
(* snapshots is a history variable: the contents of the index when the     *)
(* undo state of the same position was pushed.  No action reads it.        *)
(***************************************************************************)
EXTENDS Integers, Sequences, FiniteSets

CONSTANTS
    Value,        \* values of objects
    UniqueKey,    \* does the index have a unique secondary key?
    MaxId,        \* bound: ids 0 .. MaxId-1 are handed out
    MaxNesting,   \* bound: open sessions
    MaxUndo,      \* bound: largest max_size set by the chain
    MaxStack      \* bound: undo states kept

ASSUME ConstantsAssumption ==
    /\ UniqueKey \in BOOLEAN
    /\ MaxId \in Nat
    /\ MaxNesting \in Nat \ {0, 1}
    /\ MaxUndo \in Nat \ {0}
    /\ MaxStack \in Nat

VARIABLES
    objects,          \* the index: id -> value
    next_id,
    stack,            \* undo_database::_stack
    active_sessions,
    disabled,
    disable_on_exit,  \* the outermost session was opened with force_enable
    max_size,
    broken,           \* an undo could not be completed (see RestoreFails)
    snapshots

vars == <<objects, next_id, stack, active_sessions, disabled,
          disable_on_exit, max_size, broken, snapshots>>

NoId == -1

Ids == 0..MaxId - 1

\* Indexes over the ids in S: functions from a subset of S to values.
Index(S) == UNION {[D -> Value] : D \in SUBSET S}

EmptyIndex == [i \in {} |-> 0]

Last(s) == s[Len(s)]

Front(s) == SubSeq(s, 1, Len(s) - 1)

EmptyState ==
    [old_values |-> EmptyIndex, old_next_id |-> NoId,
     new_ids |-> {}, removed |-> EmptyIndex]

Contents == [objects |-> objects, next_id |-> next_id]

-----------------------------------------------------------------------------
\* f without the ids in S, and f with i bound to v.
Without(f, S) == [i \in DOMAIN f \ S |-> f[i]]

With(f, i, v) == [j \in DOMAIN f \cup {i} |-> IF j = i THEN v ELSE f[j]]

\* What undo and pop_commit do to the objects of an index, given the log.
Restore(st, objs) ==
    [i \in (DOMAIN objs \ st.new_ids) \cup DOMAIN st.removed |->
        IF i \in DOMAIN st.removed THEN st.removed[i]
        ELSE IF i \in DOMAIN st.old_values THEN st.old_values[i]
        ELSE objs[i]]

RestoreId(st, n) == IF st.old_next_id = NoId THEN n ELSE st.old_next_id

\* The objects of old_values are modified one after the other, in the order
\* of an unordered_map, before new_ids are removed.  With a unique key the
\* modification of i fails when another object still holds the old value of
\* i; done is the set of objects restored before it.
RestoreCollides(st, objs, done, i) ==
    \E j \in DOMAIN objs \ {i} :
        (IF j \in done THEN st.old_values[j] ELSE objs[j]) = st.old_values[i]

SomeOrderCollides(st, objs) ==
    /\ UniqueKey
    /\ \E i \in DOMAIN st.old_values :
          \E done \in SUBSET (DOMAIN st.old_values \ {i}) :
              RestoreCollides(st, objs, done, i)

\* Some order restores every object: order[i] is the position of i.
SomeOrderSucceeds(st, objs) ==
    \/ ~UniqueKey
    \/ \E order \in [DOMAIN st.old_values -> 1..Cardinality(DOMAIN st.old_values)] :
          /\ \A i, j \in DOMAIN st.old_values : order[i] = order[j] => i = j
          /\ \A i \in DOMAIN st.old_values :
                ~RestoreCollides(st, objs,
                    {j \in DOMAIN st.old_values : order[j] < order[i]}, i)

\* No object other than those in S holds the unique key v.
KeyFree(v, S) == UniqueKey => \A j \in DOMAIN objects \ S : objects[j] # v

-----------------------------------------------------------------------------
\* The log entry of a change.  log(st) is applied to the top of the stack,
\* which gets a state first when it is empty; nothing is logged if disabled.
Logged(log(_)) ==
    IF disabled
    THEN UNCHANGED <<stack, snapshots>>
    ELSE IF stack = <<>>
    THEN stack' = <<log(EmptyState)>> /\ snapshots' = <<Contents>>
    ELSE /\ stack' = [stack EXCEPT ![Len(stack)] = log(stack[Len(stack)])]
         /\ snapshots' = snapshots

on_create(st, i) ==
    [st EXCEPT !.old_next_id = IF @ = NoId THEN i ELSE @,
               !.new_ids = @ \cup {i}]

on_modify(st, i, was) ==
    IF i \in st.new_ids \/ i \in DOMAIN st.old_values
    THEN st
    ELSE [st EXCEPT !.old_values = With(@, i, was)]

on_remove_logs_current(st, i, was) ==
    IF i \in st.new_ids
    THEN [st EXCEPT !.new_ids = @ \ {i}]
    ELSE [st EXCEPT !.removed = With(@, i, was),
                    !.old_values = Without(@, {i})]

on_remove(st, i, was) ==
    IF i \in st.new_ids
    THEN [st EXCEPT !.new_ids = @ \ {i}]
    ELSE IF i \in DOMAIN st.old_values
    THEN [st EXCEPT !.removed = With(@, i, st.old_values[i]),
                    !.old_values = Without(@, {i})]
    ELSE IF i \in DOMAIN st.removed
    THEN st
    ELSE [st EXCEPT !.removed = With(@, i, was)]

-----------------------------------------------------------------------------
Init ==
    /\ objects = EmptyIndex
    /\ next_id = 0
    /\ stack = <<>>
    /\ active_sessions = 0
    /\ disabled = TRUE
    /\ disable_on_exit = FALSE
    /\ max_size \in 1..MaxUndo
    /\ broken = FALSE
    /\ snapshots = <<>>

SessionVars == <<active_sessions, disabled, disable_on_exit, max_size, broken>>

CreateKeepsNextId(v) ==
    /\ ~broken /\ next_id < MaxId
    /\ KeyFree(v, {})
    /\ objects' = With(objects, next_id, v)
    /\ next_id' = next_id
    /\ LET log(st) == on_create(st, next_id) IN Logged(log)
    /\ UNCHANGED SessionVars

\* primary_index::create.  A key that is taken throws before anything changes.
Create(v) ==
    /\ ~broken /\ next_id < MaxId
    /\ KeyFree(v, {})
    /\ objects' = With(objects, next_id, v)
    /\ next_id' = next_id + 1
    /\ LET log(st) == on_create(st, next_id) IN Logged(log)
    /\ UNCHANGED SessionVars

Modify(i, v) ==
    /\ ~broken
    /\ KeyFree(v, {i})
    /\ objects' = [objects EXCEPT ![i] = v]
    /\ LET log(st) == on_modify(st, i, objects[i]) IN Logged(log)
    /\ UNCHANGED next_id
    /\ UNCHANGED SessionVars

\* A modification that takes the key of another object: multi_index erases the
\* object and modify throws; the session unwinds, and undo no longer finds the
\* object it has to restore.
ModifyCollides(i, v) ==
    /\ ~broken /\ active_sessions > 0
    /\ ~KeyFree(v, {i})
    /\ broken' = TRUE
    /\ UNCHANGED <<objects, next_id, stack, active_sessions, disabled,
                   disable_on_exit, max_size, snapshots>>

Remove(i) ==
    /\ ~broken
    /\ objects' = Without(objects, {i})
    /\ LET log(st) == on_remove(st, i, objects[i]) IN Logged(log)
    /\ UNCHANGED next_id
    /\ UNCHANGED SessionVars

-----------------------------------------------------------------------------
\* database::open leaves the replay and turns undo on.
Enable ==
    /\ ~broken /\ disabled /\ active_sessions = 0
    /\ disabled' = FALSE
    /\ UNCHANGED <<objects, next_id, stack, active_sessions, disable_on_exit,
                   max_size, broken, snapshots>>

\* update_global_dynamic_data, while a block is applied, sets max_size to the
\* number of reversible blocks plus one.
SetMaxSize(n) ==
    /\ ~broken /\ n # max_size /\ active_sessions <= 1
    /\ max_size' = n
    /\ UNCHANGED <<objects, next_id, stack, active_sessions, disabled,
                   disable_on_exit, broken, snapshots>>

DropsOneMore(n, limit) == IF n >= limit THEN n - limit + 1 ELSE 0

\* States dropped from the front of a stack of n states before one is pushed.
Dropped(n, limit) == IF n > limit THEN n - limit ELSE 0

PushState(limit) ==
    LET d == Dropped(Len(stack), limit)
    IN  /\ Len(stack) - d < MaxStack
        /\ stack' = Append(SubSeq(stack, d + 1, Len(stack)), EmptyState)
        /\ snapshots' = Append(SubSeq(snapshots, d + 1, Len(snapshots)), Contents)
        /\ active_sessions' = active_sessions + 1

\* start_undo_session() by push_block, _push_transaction and _generate_block:
\* a block session is outermost; a transaction session has one around it.
StartSession ==
    /\ ~broken /\ ~disabled /\ ~disable_on_exit /\ active_sessions < 2
    /\ PushState(max_size)
    /\ UNCHANGED <<objects, next_id, disabled, disable_on_exit, max_size, broken>>

\* push_proposal: makes room on the stack, then opens a session that is active
\* even while undo is disabled.
StartProposalSession ==
    /\ ~broken /\ active_sessions < MaxNesting
    /\ disabled \/ active_sessions > 0
    /\ max_size' = IF Len(stack) >= max_size THEN Len(stack) + 1 ELSE max_size
    /\ PushState(max_size')
    /\ disabled' = FALSE
    /\ disable_on_exit' = IF disabled THEN TRUE ELSE disable_on_exit
    /\ UNCHANGED <<objects, next_id, broken>>

LeaveSessionDisables ==
    /\ active_sessions' = active_sessions - 1
    /\ disabled' = disable_on_exit
    /\ disable_on_exit' = IF active_sessions = 1 THEN FALSE ELSE disable_on_exit

\* ~session of the outermost session disables undo again if it enabled it.
LeaveSession ==
    /\ active_sessions' = active_sessions - 1
    /\ disabled' = IF active_sessions = 1 THEN disable_on_exit ELSE FALSE
    /\ disable_on_exit' = IF active_sessions = 1 THEN FALSE ELSE disable_on_exit

PopState ==
    /\ stack' = Front(stack)
    /\ snapshots' = Front(snapshots)

Undo ==
    /\ ~broken /\ ~disabled /\ active_sessions > 0 /\ stack # <<>>
    /\ SomeOrderSucceeds(Last(stack), objects)
    /\ objects' = Restore(Last(stack), objects)
    /\ next_id' = RestoreId(Last(stack), next_id)
    /\ PopState
    /\ LeaveSession
    /\ UNCHANGED <<max_size, broken>>

\* A restore throws half-way: ~session then calls std::terminate(), and
\* pop_commit leaves the index half restored.
RestoreFails ==
    /\ ~broken /\ ~disabled /\ stack # <<>>
    /\ SomeOrderCollides(Last(stack), objects)
    /\ broken' = TRUE
    /\ UNCHANGED <<objects, next_id, stack, active_sessions, disabled,
                   disable_on_exit, max_size, snapshots>>

\* The state that undoes b and then a, for a the older of two states.  The
\* loops of merge visit old_values, new_ids, next ids and removed in turn.
merge_keeps_newer_value(a, b) ==
    [old_values |-> [i \in (DOMAIN a.old_values \cup (DOMAIN b.old_values \ a.new_ids))
                             \ DOMAIN b.removed |->
                        IF i \in DOMAIN b.old_values THEN b.old_values[i]
                        ELSE a.old_values[i]],
     old_next_id |-> IF a.old_next_id = NoId THEN b.old_next_id ELSE a.old_next_id,
     new_ids |-> (a.new_ids \cup b.new_ids) \ DOMAIN b.removed,
     removed |-> [i \in DOMAIN a.removed \cup
                        (DOMAIN b.removed \ (a.new_ids \cup b.new_ids)) |->
                        IF i \notin DOMAIN b.removed THEN a.removed[i]
                        ELSE b.removed[i]]]

merge(a, b) ==
    [old_values |-> [i \in (DOMAIN a.old_values \cup (DOMAIN b.old_values \ a.new_ids))
                             \ DOMAIN b.removed |->
                        IF i \in DOMAIN a.old_values THEN a.old_values[i]
                        ELSE b.old_values[i]],
     old_next_id |-> IF a.old_next_id = NoId THEN b.old_next_id ELSE a.old_next_id,
     new_ids |-> (a.new_ids \cup b.new_ids) \ DOMAIN b.removed,
     removed |-> [i \in DOMAIN a.removed \cup
                        (DOMAIN b.removed \ (a.new_ids \cup b.new_ids)) |->
                        IF i \notin DOMAIN b.removed THEN a.removed[i]
                        ELSE IF i \in DOMAIN a.old_values THEN a.old_values[i]
                        ELSE b.removed[i]]]

Merge ==
    /\ ~broken /\ active_sessions > 0 /\ stack # <<>>
    /\ IF Len(stack) = 1
       THEN active_sessions = 1 /\ PopState
       ELSE LET n == Len(stack)
            IN  /\ stack' = Append(SubSeq(stack, 1, n - 2),
                                   merge(stack[n - 1], stack[n]))
                /\ snapshots' = Front(snapshots)
    /\ LeaveSession
    /\ UNCHANGED <<objects, next_id, max_size, broken>>

\* session::commit, called for the session of a block, the outermost one.
Commit ==
    /\ ~broken /\ active_sessions = 1 /\ ~disable_on_exit
    /\ LeaveSession
    /\ UNCHANGED <<objects, next_id, stack, max_size, broken, snapshots>>

pop_commit ==
    /\ ~broken /\ ~disabled /\ active_sessions = 0 /\ stack # <<>>
    /\ SomeOrderSucceeds(Last(stack), objects)
    /\ objects' = Restore(Last(stack), objects)
    /\ next_id' = RestoreId(Last(stack), next_id)
    /\ PopState
    /\ UNCHANGED SessionVars

Next ==
    \/ \E v \in Value : Create(v)
    \/ \E i \in DOMAIN objects, v \in Value : Modify(i, v)
    \/ \E i \in DOMAIN objects, v \in Value : ModifyCollides(i, v)
    \/ \E i \in DOMAIN objects : Remove(i)
    \/ Enable
    \/ \E n \in 1..MaxUndo : SetMaxSize(n)
    \/ StartSession
    \/ StartProposalSession
    \/ Undo
    \/ RestoreFails
    \/ Merge
    \/ Commit
    \/ pop_commit

Spec == Init /\ [][Next]_vars

-----------------------------------------------------------------------------
UndoStates ==
    [old_values : Index(Ids), old_next_id : Ids \cup {NoId},
     new_ids : SUBSET Ids, removed : Index(Ids)]

Snapshots == [objects : Index(Ids), next_id : 0..MaxId]

\* Types of the undo database: ids below next_id, one snapshot per undo state.
TypeOK ==
    /\ objects \in Index(0..next_id - 1)
    /\ next_id \in 0..MaxId
    /\ stack \in Seq(UndoStates)
    /\ active_sessions \in Nat
    /\ disabled \in BOOLEAN /\ disable_on_exit \in BOOLEAN /\ broken \in BOOLEAN
    /\ max_size \in Nat \ {0}
    /\ snapshots \in Seq(Snapshots)
    /\ Len(snapshots) = Len(stack)

\* Contents of the index below the k-th undo state, and above the last one.
At(k) == IF k <= Len(stack) THEN snapshots[k] ELSE Contents

\* Undoing the states of the stack from the top, one after the other, gives back
\* exactly the contents the index had when each state was pushed, next_id
\* included: undo_database::undo and pop_commit lose nothing and leave nothing
\* behind, after any mixture of on_create, on_modify, on_remove and merge.
LogsAreExact ==
    \A k \in 1..Len(stack) :
        /\ Restore(stack[k], At(k + 1).objects) = At(k).objects
        /\ RestoreId(stack[k], At(k + 1).next_id) = At(k).next_id

\* The states that start_undo_session drops from the front of a full stack never
\* belong to a session that is still open, so undo() always finds its state.
OpenSessionsKeepTheirState == active_sessions <= Len(stack)

\* While undo is disabled outside of any session (replay of the chain) nothing is
\* left on the stack: push_proposal's forced session cleans up after itself, so
\* a later pop_commit cannot restore values from before the replay.
ReplayLeavesNoLog == disabled => stack = <<>> /\ active_sessions = 0

\* The undo log implements a stack of full copies of the store.
Copies == INSTANCE SnapshotStore
    WITH store <- Contents, saved <- snapshots, active <- active_sessions

ImplementsCopies == Copies!Spec

\* Whatever throws while a block or a transaction is applied, every change of
\* its session can be unwound: there is at least one order of the restores of
\* undo() in which none runs into the unique key of another object.
EveryFailureIsUnwound ==
    active_sessions > 0 => SomeOrderSucceeds(Last(stack), objects)
=============================================================================

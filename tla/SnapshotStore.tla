--------------------------- MODULE SnapshotStore ---------------------------
(***************************************************************************)
(* What the undo database promises to the chain database: a store, and a   *)
(* stack of complete copies of it.  Opening a session pushes a copy; undo  *)
(* and pop_commit put the copy on top back, whatever was written since;    *)
(* merge and commit keep the writes.  No logs, no per-object bookkeeping:  *)
(* UndoDatabase implements this with logs of the touched objects only.     *)
(***************************************************************************)
EXTENDS Naturals, Sequences

VARIABLES
    store,      \* the whole contents of the object database
    saved,      \* copies of store, oldest first
    active      \* number of sessions that are still open

vars == <<store, saved, active>>

Last(s) == s[Len(s)]

Front(s) == SubSeq(s, 1, Len(s) - 1)

Init == saved = <<>> /\ active = 0

\* Objects are created, modified or removed.  With undo enabled and nothing
\* saved yet, the first write saves a copy; otherwise nothing is saved.
Write ==
    /\ \/ saved' = saved
       \/ saved = <<>> /\ saved' = <<store>>
    /\ active' = active

\* A session opens; copies that are too old may be dropped from the bottom.
Start ==
    /\ \E n \in 0..Len(saved) :
          saved' = Append(SubSeq(saved, n + 1, Len(saved)), store)
    /\ active' = active + 1
    /\ store' = store

\* The innermost session is abandoned: the store is exactly what it was.
Undo ==
    /\ active > 0 /\ saved # <<>>
    /\ store' = Last(saved)
    /\ saved' = Front(saved)
    /\ active' = active - 1

\* The innermost session joins the one below: its copy is dropped.
Merge ==
    /\ active > 0 /\ saved # <<>>
    /\ saved' = Front(saved)
    /\ active' = active - 1
    /\ store' = store

\* The session closes and its copy stays, for PopCommit.
Commit ==
    /\ active > 0
    /\ active' = active - 1
    /\ UNCHANGED <<store, saved>>

\* The last committed session is taken back.
PopCommit ==
    /\ active = 0 /\ saved # <<>>
    /\ store' = Last(saved)
    /\ saved' = Front(saved)
    /\ active' = active

Next == Write \/ Start \/ Undo \/ Merge \/ Commit \/ PopCommit

Spec == Init /\ [][Next]_vars
=============================================================================

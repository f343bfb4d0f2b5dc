------------------------------- MODULE MCUndo -------------------------------
(* Small instances of UndoDatabase. *)
EXTENDS UndoDatabase, TLC

ValueSymmetry == Permutations(Value)
=============================================================================

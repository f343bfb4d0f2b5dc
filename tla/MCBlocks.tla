------------------------------ MODULE MCBlocks ------------------------------
(* Instances of Blocks: the trees of blocks that may arrive.  A is the main  *)
(* branch; B and D leave it after A1, C leaves B after B3, E leaves D after  *)
(* D2.                                                                       *)
EXTENDS Blocks, TLC

CONSTANTS A1, A2, A3, A4, A5, B2, B3, B4, B5, B6, C4, D2, D3, D4, E3, E4, x, y

AnyPrev ==
    A1 :> "genesis" @@ A2 :> A1 @@ A3 :> A2 @@ A4 :> A3 @@ A5 :> A4 @@
    B2 :> A1 @@ B3 :> B2 @@ B4 :> B3 @@ B5 :> B4 @@ B6 :> B5 @@
    C4 :> B3 @@
    D2 :> A1 @@ D3 :> D2 @@ D4 :> D3 @@ E3 :> D2 @@ E4 :> E3

Trees == [b \in Block |-> AnyPrev[b]]

TwoTrx == [b \in Block |->
    CASE b = A2 -> <<x>>
      [] b = B3 -> <<y>>
      [] OTHER -> <<>>]

\* y cannot follow x: on branch A, y is invalid once x is included.
TwoExclude == x :> {} @@ y :> {x}

\* The second block makes the first one irreversible, and no branch another one.
FirstBlock == [b \in Block \cup {"genesis"} |-> IF b \in {"genesis", A1} THEN 0 ELSE 1]

\* Branch A goes on to make its second block irreversible.
SecondByA4 ==
    [b \in Block \cup {"genesis"} |-> IF b \in {A4, A5} THEN 2 ELSE FirstBlock[b]]
=============================================================================

---------------------------- MODULE MCWitnesses ----------------------------
(* Instances of Witnesses: four of five witnesses are active, and in every    *)
(* election at least three of them are reliable.                              *)
EXTENDS Witnesses, TLC

CONSTANTS w1, w2, w3, w4, u

FourOfFive == {{w1, w2, w3, u}, {w1, w2, w4, u}}

Symmetry == Permutations({w1, w2}) \cup Permutations({w3, w4})
=============================================================================

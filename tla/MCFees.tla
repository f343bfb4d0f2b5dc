------------------------------- MODULE MCFees -------------------------------
(* A chain of inviters for Fees: a invited b, b invited c, c invited d.  With a *)
(* depth of one, a share of d's rake is put off twice.                          *)
EXTENDS Fees

FourPlayers == <<"a", "b", "c", "d">>

ChainOfInviters ==
    [p \in Player |-> CASE p = "a" -> "null player" [] p = "b" -> "a"
                        [] p = "c" -> "b" [] p = "d" -> "c"]

\* The youngest player pays, with or without the second youngest, or only the oldest.
RakesOfFour ==
    {[a |-> 0, b |-> 0, c |-> 0, d |-> 20], [a |-> 0, b |-> 0, c |-> 7, d |-> 20],
     [a |-> 7, b |-> 0, c |-> 0, d |-> 0]}

\* Inviters below the lower threshold, between the thresholds, or at the upper one.
SomeWealth ==
    {[a |-> l, b |-> m, c |-> n, d |-> 0] : l \in {0, 3}, m \in {0, 4}, n \in {3, 4}}

NoneOrTwo == {<<>>, <<"v", "w">>}

NoWitness == {<<>>}
=============================================================================

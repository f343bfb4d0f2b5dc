------------------------------- MODULE MCSync -------------------------------
EXTENDS Sync, TLC

CONSTANTS p1, p2

\* Two blocks after the first, a fork of one block, and a longer one whose first block is
\* invalid.
ThreeForks == {<<0, 0, 0>>, <<0, 1>>, <<0, 2, 0, 0>>}

Limits(losses, refusals, advances) ==
    [losses |-> losses, refusals |-> refusals, advances |-> advances]

\* One peer, whose connection may break, who may refuse a block and switch to a longer
\* fork; one peer who switches to the invalid fork, of which two blocks are not above
\* the head block, and one who is on it from the beginning; two peers on two forks; and
\* two peers of which one is a block behind the other.
OneOrTwo ==
    {[remote |-> p1 :> <<0, 1>>, budget |-> Limits(1, 1, 1)],
     [remote |-> p1 :> <<0, 0, 0>>, budget |-> Limits(0, 0, 1)],
     [remote |-> p1 :> <<0, 2>>, budget |-> Limits(0, 0, 0)],
     [remote |-> p1 :> <<0, 0, 0>> @@ p2 :> <<0, 1>>, budget |-> Limits(0, 0, 0)],
     [remote |-> p1 :> <<0, 0, 0>> @@ p2 :> <<0, 0>>, budget |-> Limits(0, 0, 0)]}

\* The first block of that fork.
InvalidFork == {<<0, 2>>}

Genesis == <<0>>
=============================================================================

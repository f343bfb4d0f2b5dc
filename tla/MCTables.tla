------------------------------ MODULE MCTables ------------------------------
\* Small instances of Tables: one table and its owner "o", who is a game
\* witness, and another game witness "w".
EXTENDS Tables, TLC

CONSTANTS p1, p2, u1, u2

MCPlayer == {p1, p2}

OneTable == {"t1"}

OwnedByO == [t \in Table |-> "o"]

MCWitness == {"o", "w"}

Stakes(a, b) == [p \in Player |-> IF p = p1 THEN a ELSE b]

AnySettings == {[metadata |-> "m", required_witnesses |-> 0, min_accepted |-> 1]}

\* The owner may require the vote of one witness.
WitnessOrNot == {[metadata |-> "m", required_witnesses |-> n, min_accepted |-> 1] : n \in {0, 1}}

TwoStarts == {Playing(Stakes(1, 1)), Playing(Stakes(2, 1))}

OneStart == {Playing(Stakes(1, 1))}

TwoResults == {Results({}, NoCash, NoCash), Results(Player, Stakes(1, 0), Stakes(0, 1))}

\* Cancel; the first player wins everything; a rake is taken; and a result that
\* leaves the second player out.
FourResults ==
    {Results({}, NoCash, NoCash), Results(Player, Stakes(2, 0), NoCash),
     Results(Player, Stakes(1, 0), Stakes(0, 1)), Results({p1}, Stakes(1, 0), NoCash)}

\* Two tables: the second belongs to the second player.
TwoTables == {"t1", "t2"}

OneOwnedByAPlayer == [t \in Table |-> IF t = "t2" THEN p2 ELSE "o"]

OneUid == {u1}

TwoUids == {u1, u2}

UidSymmetry == Permutations(TwoUids)

TwoMinimums == {[metadata |-> "m", required_witnesses |-> 0, min_accepted |-> a] : a \in {1, 2}}

TwoMetadata == {[metadata |-> m, required_witnesses |-> 0, min_accepted |-> 1] :
                   m \in Metadata}
=============================================================================

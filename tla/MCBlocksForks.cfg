SPECIFICATION FairSpec
CONSTANTS
    A1 = A1
    A2 = A2
    A3 = A3
    A4 = A4
    A5 = A5
    B2 = B2
    B3 = B3
    B4 = B4
    B5 = B5
    B6 = B6
    C4 = C4
    D2 = D2
    D3 = D3
    D4 = D4
    E3 = E3
    E4 = E4
    x = x
    y = y
    Block = {A1, A2, A3, A4, B2, B3, B4, C4, D2, D3, D4, E3, E4}
    Prev <- Trees
    Bad = {C4, D2}
    Trx <- TwoTrx
    Transaction = {x, y}
    Excludes <- TwoExclude
    Irreversible <- SecondByA4
    MaxRestarts = 2
    StopAbove = 1
INVARIANTS
    OnLongestChain
    StoredIsTheChain
    PendingApplies
    NoTransactionIsLost
    ExtensionIsApplied
    
PROPERTIES
    SwitchEnds
CHECK_DEADLOCK FALSE

SPECIFICATION Spec
CONSTANTS
    p1 = p1
    p2 = p2
    Peers = {p1, p2}
    Meetings <- OneOrTwo
    Heads <- ThreeForks
    Rejected <- InvalidFork
    Start <- Genesis
    UndoSize = 3
    IdsLimit = 2
    MinPrefetch = 1
    MaxPerPeer = 1
    MaxAccepted = 1
    MaxHandled = 2
    MaxPrefetched = 1
INVARIANTS
    RequestsAreOutstanding
    BlocksLink
PROPERTIES
    InSyncIsComplete
    SyncEnds
CHECK_DEADLOCK FALSE

CONSTANTS
    p1 = p1
    p2 = p2
    u1 = u1
    u2 = u2
    Player <- MCPlayer
    Uid <- TwoUids
    GameWitness <- MCWitness
    RequiredPercent = 6000
    SubstitutionForPlaying = 0
    SubstitutionForResults = 5000
    Table <- TwoTables
    OwnerOf <- OneOwnedByAPlayer
    Metadata = {"m"}
    Settings <- TwoMinimums
    Wealth = 2
    Amount = {1, 2}
    StartVotes = {}
    ResultVotes = {}
    Gaps = {1}
    VotingLifetime = 2
    GameLifetime <- Forever
    LongGames = FALSE
    PendingLifetime = 2
    BuyInLifetime = 2
    AliveLifetime <- Forever
    MaxPlaces = 2
    AllocatePerBlock = 2
    MinVotesForPlaying = 2
    MinVotesForResults = 1
    MinPlayers = 1
    MaxPlayers = 2
SPECIFICATION Spec
SYMMETRY UidSymmetry
INVARIANTS
    MoneyIsConserved
    PlacesAreCounted
    ReservationsHoldPlaces

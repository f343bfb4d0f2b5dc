CONSTANTS
    p1 = p1
    p2 = p2
    u1 = u1
    u2 = u2
    Player <- MCPlayer
    Uid = {}
    GameWitness <- MCWitness
    RequiredPercent = 6000
    SubstitutionForPlaying = 0
    SubstitutionForResults = 5000
    Table <- OneTable
    OwnerOf <- OwnedByO
    Metadata = {"m"}
    Settings <- AnySettings
    Wealth = 2
    Amount = {1}
    StartVotes <- TwoStarts
    ResultVotes <- FourResults
    Gaps = {1}
    VotingLifetime = 2
    GameLifetime <- Forever
    LongGames = FALSE
    PendingLifetime = 2
    BuyInLifetime <- Forever
    AliveLifetime <- Forever
    MaxPlaces = 0
    AllocatePerBlock = 1
    MinVotesForPlaying = 2
    MinVotesForResults = 1
    MinPlayers = 1
    MaxPlayers = 5
SPECIFICATION Spec
INVARIANTS
    MoneyIsConserved
    VotesFitTheTable
    ResultVotesStayValid

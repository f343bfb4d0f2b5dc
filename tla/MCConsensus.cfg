CONSTANTS
    Player = {}
    Uid = {}
    GameWitness = {}
    RequiredPercent = 6000
    SubstitutionForPlaying = 0
    SubstitutionForResults = 5000
    Participant = {v1, v2, v3, v4, v5, v6}
    Content = {a, b, c}
SPECIFICATION VotingSpec
CHECK_DEADLOCK FALSE
INVARIANTS
    MajorityWins
    OneCheaterIsHarmless

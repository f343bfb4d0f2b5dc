SPECIFICATION FairSpec
CONSTANTS
    Players <- FourPlayers
    Inviter <- ChainOfInviters
    Room = {"r", "s"}
    WitnessLists <- NoneOrTwo
    Rakes <- RakesOfFour
    Balances <- SomeWealth
    MaxDepth = 1
    ReferrerPercent = 7500
    ParentPercent = 4000
    WitnessPercent = 1500
    MinThreshold = 1
    MaxThreshold = 4
    MaxGames = 2
INVARIANTS
    RakeIsOwed
PROPERTIES
    FeesAreDisseminated
CHECK_DEADLOCK FALSE

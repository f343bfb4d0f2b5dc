SPECIFICATION Spec
CONSTANTS
    Balances <- FourAccounts
    Operations <- AllOperations
    Scenarios <- AllScenarios
    MaxTimeout = 4
    MaxProposalLifetime = 4
    MaxTrxLifetime = 5
    CommitteeReview = 1
    Committee = {"d"}
    MaxNesting = 2
    Steps = {1, 2}
    MaxTime = 6
INVARIANTS
    SupplyIsConserved
    AppliedOnce
    WithdrawnIsVested
    ReportExplainsBalances
PROPERTIES
    ReviewIsRespected
    NothingOutlivesItsExpiration
    WithdrawalsAreLimited
CHECK_DEADLOCK FALSE

SPECIFICATION FairSpec
CONSTANTS
    p1 = p1
    p2 = p2
    p3 = p3
    Parties = {p1}
    Requirements = {"e1"}
    PlanParties <- OneEach
    PlanThreshold <- Unset
    Constraints = {TRUE}
    SignNames = {"s1", "s2"}
    AssembleErrorRetryThreshold = 1
    SignErrorRetryThreshold = 1
    RevertRetryThreshold = 0
    FinalizingGracePeriod = 0
    MaxAssemblies = 2
    MaxDelegations = 1
CHECK_DEADLOCK FALSE
INVARIANTS
    WaitsWithTimeout
PROPERTIES
    ImplementsAttestedDispatch
    WaitingEnds

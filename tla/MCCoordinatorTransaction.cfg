SPECIFICATION Spec
CONSTANTS
    p1 = p1
    p2 = p2
    p3 = p3
    Parties = {p1, p2, p3}
    Requirements = {"e1"}
    PlanParties <- TwoOfThree
    PlanThreshold <- Two
    Constraints = {FALSE}
    SignNames = {}
    AssembleErrorRetryThreshold = 0
    SignErrorRetryThreshold = 0
    RevertRetryThreshold = 1
    FinalizingGracePeriod = 1
    MaxAssemblies = 2
    MaxDelegations = 2
SYMMETRY SymmetricParties
CHECK_DEADLOCK FALSE
INVARIANTS
    TypeOK
    EndorsedByThreshold
    EndorsementAccounting
    DispatchIsOfApproved
    WaitsWithTimeout

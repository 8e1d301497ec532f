SPECIFICATION Spec
CONSTANTS
    t1 = t1
    t2 = t2
    t3 = t3
    t4 = t4
    Txs = {t1, t2, t3}
    PublicTxs = {t1, t2}
    Spends <- ChainSpends
    Chained <- LastChained
    MaxInflight = 3
    MaxDispatchAhead = 2
    DispatchMaxBatchSize = 2
    MaxPrepares = 1
    MaxKeys = 2
INVARIANTS DependencyOrder ChildrenAfterPersist
CHECK_DEADLOCK FALSE

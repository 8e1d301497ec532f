SPECIFICATION Spec
CONSTANTS
    t1 = t1
    t2 = t2
    t3 = t3
    t4 = t4
    Txs = {t1, t2}
    PublicTxs = {t1, t2}
    Spends <- OneSpends
    Chained <- NoDependencies
    MaxInflight = 2
    MaxDispatchAhead = 1
    DispatchMaxBatchSize = 2
    MaxPrepares = 2
    MaxKeys = 1
INVARIANTS NoStaleDispatch
CHECK_DEADLOCK FALSE

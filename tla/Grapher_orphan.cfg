SPECIFICATION Spec
CONSTANTS
    n1 = n1
    n2 = n2
    n3 = n3
    t1 = t1
    t2 = t2
    t3 = t3
    g = g
    s1 = s1
    s2 = s2
    s3 = s3
    Nodes = {n1, n3}
    Coordinators = {n1}
    Txs = {t1, t2}
    NoTx = NoTx
    States = {g, s1}
    Genesis = {g}
    Origin <- TwoOrigins
    Allowed <- Everyone
    Tolerance = 1
    ReadSizes = {0}
    Failures = {"final"}
    HandoverLag = 0
    MaxHeight = 2
SYMMETRY SymmetricStates
CHECK_DEADLOCK FALSE
INVARIANTS
    InputsMinted

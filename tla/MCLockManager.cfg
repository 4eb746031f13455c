SPECIFICATION Spec
CONSTANTS
    Txs = {t1, t2, t3}
    Resources = {r1, r2, r3}
    Shared = {r1}
    Requests <- MCRequests
SYMMETRY Symmetry
CHECK_DEADLOCK FALSE
INVARIANTS LockInv MutualExclusion NobodyStuck

\* Without host panics a transaction is never left open.
SPECIFICATION Spec
CONSTANTS
    c1 = c1
    c2 = c2
    none = none
    Conn <- MCConn
    NoConn <- none
    Key <- MCKey
    Configs <- AllManifests
    Genesis = 0
    MaxHeight = 2
    PageSize = 2
    FailedCalls = 2
    MaxEmpty = 2
    MaxFaults = 2
    Faults = {"fetch", "lostTx", "trap", "begin", "load", "commit", "crash"}
SYMMETRY ConnSymmetry
INVARIANTS EntityWithMeta
PROPERTIES WholePages
\* The task ends: killed, out of retries, or unwound by a panic.
CHECK_DEADLOCK FALSE

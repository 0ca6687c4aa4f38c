\* Host panics, which leave transactions open, with every other failure.
SPECIFICATION Spec
CONSTANTS
    c1 = c1
    c2 = c2
    none = none
    Conn <- MCConn
    NoConn <- none
    Key <- MCKey
    Configs <- AllManifests
    Genesis = 1
    MaxHeight = 3
    PageSize = 2
    FailedCalls = 2
    MaxEmpty = 2
    MaxFaults = 2
    Faults = {"fetch", "trap", "begin", "load", "commit", "panic", "crash"}
SYMMETRY ConnSymmetry
INVARIANTS TypeOK CursorCovered Contiguous AppliedOnce
PROPERTIES ImplementsBlockIndex
\* The task ends: killed, out of retries, or unwound by a panic.
CHECK_DEADLOCK FALSE

\* Where a resumable indexer starts after a restart.
SPECIFICATION Spec
CONSTANTS
    c1 = c1
    c2 = c2
    none = none
    Conn <- MCConn
    NoConn <- none
    Key <- MCKey
    Configs <- ResumableManifests
    Genesis = 0
    MaxHeight = 2
    PageSize = 2
    FailedCalls = 2
    MaxEmpty = 2
    MaxFaults = 1
    Faults = {"crash"}
PROPERTIES ResumesAtLast
CHECK_DEADLOCK FALSE

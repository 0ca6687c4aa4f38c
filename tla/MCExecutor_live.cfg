\* Under fairness, with every failure.
SPECIFICATION FairSpec
CONSTANTS
    c1 = c1
    c2 = c2
    none = none
    Conn <- MCConn
    NoConn <- none
    Key <- MCKey
    Configs <- IdleConfigs
    Genesis = 0
    MaxHeight = 2
    PageSize = 2
    FailedCalls = 2
    MaxEmpty = 2
    MaxFaults = 1
    Faults = {"fetch", "trap", "begin", "load", "skip", "panic"}
PROPERTIES KillStops Progress IdleStops
\* The task ends.
CHECK_DEADLOCK FALSE

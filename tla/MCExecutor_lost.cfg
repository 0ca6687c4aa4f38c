\* A transaction that cannot be fetched is dropped from its block.
SPECIFICATION Spec
CONSTANTS
    c1 = c1
    c2 = c2
    none = none
    Conn <- MCConn
    NoConn <- none
    Key <- MCKey
    Configs <- IdleConfigs
    Genesis = 0
    MaxHeight = 2
    PageSize = 2
    FailedCalls = 2
    MaxEmpty = 2
    MaxFaults = 0
    Faults = {"lostTx"}
INVARIANTS NoLostTransactions
CHECK_DEADLOCK FALSE

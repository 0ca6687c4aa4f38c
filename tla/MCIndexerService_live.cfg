\* Under fairness, a channel that fills up, and failures.
SPECIFICATION FairSpec
CONSTANTS
    c1 = c1
    c2 = c2
    u1 = u1
    u2 = u2
    w1 = w1
    w2 = w2
    w3 = w3
    a1 = a1
    a2 = a2
    none = none
    Conn <- MCConn
    NoConn = none
    Uid <- MCUid
    Wasm = {w1}
    Client <- MCClient
    ChannelSize = 1
    Scenarios <- JustOneIndexer
    MaxCalls = 4
    Faults = {"disconnect", "schema", "timeout", "create"}
    MaxFaults = 1
PROPERTIES Settles
\* Once the calls are used up nothing happens.
CHECK_DEADLOCK FALSE

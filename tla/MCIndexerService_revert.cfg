\* One client deploys versions of an indexer and reverts, and nothing fails.
SPECIFICATION Spec
CONSTANTS
    c1 = c1
    c2 = c2
    u1 = u1
    u2 = u2
    w1 = w1
    w2 = w2
    w3 = w3
    a1 = a1
    a2 = a2
    none = none
    Conn <- MCConn
    NoConn = none
    Uid <- MCUid
    Wasm = {w1, w2, w3}
    Client = {a1}
    ChannelSize = 2
    Scenarios <- DeploysAndReverts
    MaxCalls = 4
    Faults = {}
    MaxFaults = 0
PROPERTIES RevertRestoresPrevious
CHECK_DEADLOCK FALSE

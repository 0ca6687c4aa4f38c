\* Two clients deploy the same new indexer, and nothing fails.
SPECIFICATION Spec
CONSTANTS
    c1 = c1
    c2 = c2
    u1 = u1
    u2 = u2
    w1 = w1
    w2 = w2
    w3 = w3
    a1 = a1
    a2 = a2
    none = none
    Conn <- MCConn
    NoConn = none
    Uid <- MCUid
    Wasm = {w1}
    Client <- MCClient
    ChannelSize = 2
    Scenarios <- Deploys
    MaxCalls = 2
    Faults = {}
    MaxFaults = 0
INVARIANTS DeployedRuns
CHECK_DEADLOCK FALSE

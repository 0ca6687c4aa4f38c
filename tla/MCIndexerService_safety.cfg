\* Two clients, two indexers, every failure.
SPECIFICATION Spec
CONSTANTS
    c1 = c1
    c2 = c2
    none = none
    u1 = u1
    u2 = u2
    w1 = w1
    w2 = w2
    w3 = w3
    a1 = a1
    a2 = a2
    Conn <- MCConn
    NoConn = none
    Uid <- MCUid
    Wasm = {w1, w2}
    Client <- MCClient
    ChannelSize = 2
    Scenarios <- AllScenarios
    MaxCalls = 3
    Faults = {"disconnect", "schema", "timeout", "remove", "create", "end", "crash"}
    MaxFaults = 1
SYMMETRY Symmetry
INVARIANTS TypeOK Controllable RemovedStops LatestRuns
\* Once the calls are used up nothing happens.
CHECK_DEADLOCK FALSE

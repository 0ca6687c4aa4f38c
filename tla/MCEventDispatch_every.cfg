SPECIFICATION Spec
CONSTANTS
    Contracts = {"c1", "c2"}
    AbiContracts = {"c1"}
    Script = "script"
    AbiTypes = {"Foo", "Bar", "u64", "Vec"}
    Kind <- MCKind
    Functions = {"foo", "bar", "word"}
    Output <- MCOutput
    OtherSelector = "other"
    LogIds = {"l1", "l2"}
    Logged <- MCLogged
    MessageIds = {"m1"}
    Message <- MCMessage
    OtherId = "l0"
    Modules <- MCModules
    StartBlock = 2
    Scenarios <- MCScenarios
INVARIANT HandlesEveryEvent
CHECK_DEADLOCK FALSE

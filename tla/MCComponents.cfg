SPECIFICATION MCSpec
CONSTANTS
    Contracts = {"c1", "c2"}
    AbiContracts = {"c1"}
    Script = "script"
    AbiTypes = {"Foo", "Bar", "u64", "Vec"}
    Kind <- MCKind
    Functions = {"foo", "bar", "word"}
    Output <- MCOutput
    OtherSelector = "other"
    LogIds = {"l1", "l2"}
    Logged <- MCLogged
    MessageIds = {"m1"}
    Message <- MCMessage
    OtherId = "l0"
    Modules <- MCModules
    StartBlock = 2
    Scenarios <- MCScenarios
    Lower <- MCLower
    CaseFolds <- MCCaseFolds
    Indexers <- MCIndexers
    Nothing = Nothing
    Registrations <- MCRegistrations
    Requests = {"r1", "r2", "r3"}
    Uids = {"n1", "n2"}
    NoUid = "no uid"
    NONCE_EXPIRY = 2
    JwtExpiry = 1
    Leeway = 1
    MaxTime = 7
    AuthConfigs <- MCAuthConfigs
    Alphabet <- MCAlphabet
    FieldTypes <- MCFieldTypes
    Null = Null
    QueryRoot = "QueryRoot"
    JoinKeys <- MCJoinKeys
    Lowercase <- MCLowercase
    Documents <- MCDocuments
    RowIds = {1, 2, 3}
    SortKeys = {1, 2, 3, 4}
    PageSizes = {0, 1, 2, 3}
    Lexicon <- MCLexicon
    RecursionLimit = 4
    Sources <- MCSources
INVARIANTS
    TypeOK NeverEmpty StackIsCalls MistypedOnlyAfterReturn RepeatsFirstEvents HandledWhenSaved
    RegistryTypeOK TablesHaveOneOwner RegistryMatchesTables WebApiServesTables
    DroppedOnlyOnMismatch CompiledEntitiesStored
    NonceIsSpent ServedWithToken
    ObjectsNest JoinsSorted JoinsInOrder SpreadsExpanded NotInverts OperatorsCombine PagesCoverRows
    RoundTrips MinifiedMeansSame
PROPERTIES SchemaIsForever JoinsSpec
CHECK_DEADLOCK FALSE

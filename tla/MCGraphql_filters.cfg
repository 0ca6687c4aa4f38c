SPECIFICATION GraphqlSpec
CONSTANTS
    Alphabet <- MCAlphabet
    FieldTypes <- MCFieldTypes
    Null = Null
    QueryRoot = "QueryRoot"
    JoinKeys <- MCJoinKeys
    Lowercase <- MCLowercase
    Documents <- MCDocuments
    RowIds = {1, 2, 3}
    SortKeys = {1, 2, 3, 4}
    PageSizes = {0, 1, 2, 3}
INVARIANT FiltersAsDocumented
CHECK_DEADLOCK FALSE

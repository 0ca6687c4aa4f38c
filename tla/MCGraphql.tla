----------------------------- MODULE MCGraphql -------------------------------
(* Finite values for the constants of the GraphQL modules, and the filters    *)
(* that their arguments are checked on.                                       *)
EXTENDS GraphqlQuery, GraphqlPages

MCAlphabet ==
    <<"account", "and", "asc", "between", "desc", "equals", "gt", "gte", "has", "hash", "height", "id", "in",
      "like", "lt", "lte", "max", "min", "not", "or", "producer", "up">>

MCTypes ==
    [QueryRoot |-> [block |-> "Block", tx |-> "Tx", account |-> "Account", log |-> "Log", sure |-> "Tx!"],
     Log |-> [id |-> "ID", tx |-> "Tx"],
     Block |-> [id |-> "ID", height |-> "UInt8", parent |-> "Block", producer |-> "Account", consensus |-> "Header"],
     Tx |-> [id |-> "ID", block |-> "Block", account |-> "Account", sender |-> "Account", toBlock |-> "Block"],
     Account |-> [id |-> "ID"],
     Header |-> [id |-> "ID", root |-> "Bytes32"]]

(* A type with a `!` has the fields of the type without.                      *)
MCFieldTypes == [t \in DOMAIN MCTypes \cup {"Tx!"} |-> MCTypes[IF t = "Tx!" THEN "Tx" ELSE t]]

Fk(t) == [table |-> t, column |-> "id"]
MCJoinKeys ==
    [log |-> [tx |-> Fk("tx")],
     block |-> [parent |-> Fk("block"), producer |-> Fk("account"), consensus |-> Fk("header")],
     tx |-> [block |-> Fk("block"), account |-> Fk("account"), sender |-> Fk("account"), toBlock |-> Fk("block")]]
MCLowercase == [toBlock |-> "toblock", To |-> "to"]

(* Documents.                                                                 *)
F(n, is) == [field |-> n, alias |-> {}, args |-> <<>>, items |-> is]
As(a, f) == [f EXCEPT !.alias = {a}]
Args(f, as) == [f EXCEPT !.args = as]
A(n, v) == [arg |-> n, value |-> v]
Leaf(n) == F(n, <<>>)
Spread(n) == [spread |-> n]
Frag(n, c, is) == [name |-> n, cond |-> c, items |-> is]
Doc(fs, is) == [fragments |-> fs, operation |-> [kind |-> "query", items |-> is]]
Num(n) == [int |-> n]
Obj(r) == [object |-> r]
Enum(n) == [enum |-> n]

(* Selections of a transaction: two objects, with objects in them, and a leaf *)
(* between, before or behind.                                                 *)
BlockObjects == {<<Leaf("height")>>, <<F("producer", <<Leaf("id")>>)>>,
                 <<F("producer", <<Leaf("id")>>), Leaf("id")>>, <<Leaf("id"), F("producer", <<Leaf("id")>>)>>,
                 <<F("parent", <<Leaf("id")>>), Leaf("height")>>, <<Leaf("height"), F("parent", <<Leaf("id")>>)>>, <<F("consensus", <<Leaf("root")>>)>>}
TxSelections ==
    {<<F("block", b), As("to", F("account", <<Leaf("id")>>)), Leaf("id")>> : b \in BlockObjects}
    \cup {<<Leaf("id"), F("account", <<Leaf("id")>>), F("block", b)>> : b \in BlockObjects}
    \cup {<<F("sender", <<Leaf("id")>>), F("block", b), Leaf("id"), F("toBlock", <<Leaf("id")>>)>> : b \in BlockObjects}
    \cup {<<F("sender", <<Leaf("id")>>), F("account", <<Leaf("id")>>), F("block", b)>> : b \in BlockObjects}

(* Fragments that use one another forwards, backwards, in a circle, below a   *)
(* field or not at all.                                                       *)
FragmentSets ==
    {<<Frag("a", "Tx", <<Leaf("id"), Spread("b")>>), Frag("b", "Tx", <<F("block", <<Leaf("id")>>), Spread("c")>>),
       Frag("c", "Tx", <<F("sender", <<Leaf("id")>>)>>)>>,
     <<Frag("c", "Tx", <<Leaf("id")>>), Frag("b", "Tx", <<Spread("c")>>), Frag("a", "Tx", <<Spread("b"), Spread("c")>>)>>,
     <<Frag("a", "Tx", <<Spread("b")>>), Frag("b", "Tx", <<Spread("a"), Leaf("id")>>)>>,
     <<Frag("a", "Tx", <<Spread("nowhere")>>)>>,
     <<Frag("a", "Tx", <<Spread("b")>>), Frag("b", "Tx", <<Leaf("toBlock")>>), Frag("b", "Tx", <<Leaf("id")>>)>>,
     <<Frag("a", "Tx", <<F("block", <<Spread("b")>>)>>), Frag("b", "Block", <<Leaf("id")>>)>>,
     <<Frag("a", "Block", <<Leaf("id")>>)>>, <<Frag("a", "Nothing", <<Leaf("id")>>)>>}

Height == Obj([desc |-> Enum("height")])
MCDocuments ==
    {Doc(<<>>, <<F("tx", s)>>) : s \in TxSelections}
    \cup {Doc(<<>>, <<Args(F("tx", s), <<A("first", Num(1)), A("order", Obj([asc |-> Enum("id")]))>>)>>) : s \in TxSelections}
    \cup {Doc(<<>>, <<Args(F("tx", <<As("To", Leaf("id"))>>), <<A("first", Num(1)), A("order", Obj([asc |-> Enum("id")]))>>)>>)}
    \cup {Doc(fs, <<F("sure", <<Leaf("id"), Spread("a")>>)>>) : fs \in FragmentSets}
    \cup {Doc(<<>>, <<F("log", <<Leaf("id"), F("tx", s)>>)>>) : s \in TxSelections}
    \cup {Doc(fs, <<F("tx", <<Leaf("id"), Spread("a")>>), As("b", F("block", <<Leaf("height")>>))>>) : fs \in FragmentSets}
    \cup {[Doc(fs, <<F("tx", <<Spread("a")>>)>>) EXCEPT !.operation.kind = "shorthand"] : fs \in FragmentSets}
    \cup {[Doc(<<>>, <<F("tx", <<Leaf("id")>>)>>) EXCEPT !.operation.kind = k] : k \in {"mutation", "subscription"}}
    \cup {Doc(<<>>, <<Args(F("block", <<Leaf("id")>>), as)>>) :
            as \in {<<A("first", Num(1))>>, <<A("first", Num(1)), A("order", Height), A("id", Num(1))>>,
                    <<A("offset", Num(1))>>, <<A("unknown", Num(1))>>, <<A("order", Obj([up |-> Enum("id")]))>>}}
    \cup {Doc(<<>>, <<F("tx", <<Leaf("hash")>>)>>), Doc(<<>>, <<F("tx", <<[inline |-> "Tx"]>>)>>)}

(* Filters: comparisons of a nullable field, the operators over them and one  *)
(* another.                                                                   *)
Bounds == Obj([min |-> Num(1), max |-> Num(2)])
Comparisons ==
    {[height |-> Obj(c)] : c \in {[gt |-> Num(1)], [gte |-> Num(1)], [lt |-> Num(1)], [lte |-> Num(1)],
        [equals |-> Num(1)], [between |-> Bounds], [between |-> Obj([min |-> Num(1)])], [in |-> [list |-> <<Num(1), Num(2)>>]],
        [in |-> [list |-> <<>>]], [in |-> Num(1)], [like |-> Num(1)], [equals |-> Enum("id")],
        [between |-> Obj([min |-> Num(1)]), equals |-> Num(2)]}}
    \cup {[has |-> [list |-> <<Enum("height")>>]], [has |-> [list |-> <<Enum("height"), Enum("producer")>>]],
          [has |-> [list |-> <<>>]], [has |-> [list |-> <<Enum("hash")>>]], [hash |-> Obj([gt |-> Num(1)])],
          [producer |-> Obj([lte |-> Num(2)])], [id |-> Obj([gt |-> Num(1)])]}
Merge(r, s) == [k \in DOMAIN r \cup DOMAIN s |-> IF k \in DOMAIN r THEN r[k] ELSE s[k]]
Filters1 == Comparisons \cup {[not |-> Obj(c)] : c \in Comparisons}
            \cup {Merge([and |-> Obj(c)], d) : c, d \in Comparisons}
            \cup {Merge([or |-> Obj(c)], d) : c, d \in Comparisons}
MCFilters == Filters1 \cup {[not |-> Obj(f)] : f \in Filters1}
             \cup {[and |-> Obj([gt |-> Num(1)]), or |-> Obj(c)] : c \in Comparisons}
             \cup {[and |-> Obj(c)] : c \in Comparisons}

MCRows == [id : {1, 2}, height : {0, 1, 2, 3, Null}, producer : {2, 3, Null}]

VARIABLES
    filter,  \* the object of a `filter` argument
    parsed   \* what became of it: a set of at most one

FilterOf(object) == ParseArgument("Block", "filter", Obj(object))

(***************************************************************************)
(* Properties.                                                              *)
(***************************************************************************)
\* A range, two filters combined and a check of several columns have an inverse
\* that is none.
IsInvertible(f) ==
    /\ f.op \notin {"between", "and", "or"}
    /\ f.op \in {"no_nulls", "only_nulls"} => Len(f.columns) = 1

Keeps(result, row) == Sql(result.ok.filter, row)

\* A `not` keeps the rows that the filter in it rejects and no others, a null
\* being in neither, unless the filter is a range, a combination or about several
\* columns.
NotInverts ==
    \A outer \in parsed : "not" \in DOMAIN filter /\ Is("object", filter.not) =>
        \A inner \in {FilterOf(filter.not.object)} :
            IsOk(inner) /\ IsInvertible(inner.ok.filter) /\ IsSql(inner.ok.filter) =>
                IsOk(outer) /\ \A row \in MCRows : Keeps(outer, row) = Not3(Keeps(inner, row))

\* A row is kept by both or by either.
Combination(op, a, b) == IF op = "and" THEN And3(a, b) ELSE Or3(a, b)

\* An operator and one key beside it.
Combining == {pair \in {"and", "or"} \X (DOMAIN filter \ {"and", "or"}) :
                 DOMAIN filter = {pair[1], pair[2]} /\ Is("object", filter[pair[1]])}

Beside(key) == FilterOf([k \in {key} |-> filter[key]])

\* `and` and `or` combine the filter in them with the one beside them, and fail if
\* either does, if the operator comes before the key of that one in the alphabet.
\* (One whose key comes before is looked at alone: FiltersAsDocumented.)
OperatorsCombine ==
    \A both \in parsed : \A pair \in Combining :
        \A inner \in {FilterOf(filter[pair[1]].object)}, beside \in {Beside(pair[2])} :
            Head(SortedKeys(filter)) = pair[1] =>
                /\ IsOk(both) <=> IsOk(inner) /\ IsOk(beside)
                /\ IsOk(both) => \A row \in MCRows :
                       Keeps(both, row) = Combination(pair[1], Keeps(inner, row), Keeps(beside, row))

\* What docs/src/reference-guide/components/graphql/queries/search-filtering.md
\* says of every filter: "you can combine these operations using the `and` or `or`
\* keywords, and invert operations by using the `not` keyword."
FiltersAsDocumented ==
    \A whole \in parsed :
        /\ "not" \in DOMAIN filter /\ Is("object", filter.not) =>
              \A inner \in {FilterOf(filter.not.object)} :
                  IsOk(inner) /\ IsOk(whole) /\ IsSql(inner.ok.filter) =>
                      \A row \in MCRows : Keeps(whole, row) = Not3(Keeps(inner, row))
        /\ \A pair \in Combining :
              \A inner \in {FilterOf(filter[pair[1]].object)}, beside \in {Beside(pair[2])} :
                  IsOk(inner) /\ IsOk(beside) /\ IsOk(whole) /\ IsSql(inner.ok.filter) /\ IsSql(beside.ok.filter) =>
                      \A row \in MCRows :
                         Keeps(whole, row) = Combination(pair[1], Keeps(inner, row), Keeps(beside, row))

(* Each behaviour is one of the three at work; a filter is checked as it is.   *)
VARIABLE work

SomeFilter == [height |-> Obj([gt |-> Num(1)])]

GraphqlInit ==
    /\ work \in {"query", "pages", "filter"}
    /\ document \in IF work = "query" THEN Documents ELSE {CHOOSE d \in Documents : TRUE}
    /\ work # "pages" => rows = Empty /\ limit = 0 /\ sort = "asc"
    /\ filter \in IF work = "filter" THEN MCFilters ELSE {SomeFilter}
    /\ parsed = {}
    /\ QueryInit /\ PagesInit

ParseFilter == parsed = {} /\ parsed' = {FilterOf(filter)}

GraphqlNext ==
    /\ UNCHANGED <<work, filter>>
    /\ \/ work = "query" /\ QueryNext /\ UNCHANGED <<parsed, pageVars>>
       \/ work = "pages" /\ PagesNext /\ UNCHANGED <<parsed, queryVars>>
       \/ work = "filter" /\ ParseFilter /\ UNCHANGED <<queryVars, pageVars>>

graphqlVars == <<work, filter, parsed, queryVars, pageVars>>

GraphqlSpec == GraphqlInit /\ [][GraphqlNext]_graphqlVars
=============================================================================

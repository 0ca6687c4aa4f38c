-------------------------- MODULE GraphqlArguments ---------------------------
(***************************************************************************)
(* The arguments of a field of a GraphQL query, from the parsed document to *)
(* the clauses of the SQL statement (fuel-indexer-graphql/src/arguments.rs). *)
(*                                                                          *)
(* A value of the document is a record whose one field names its kind: int, *)
(* bigint, boolean, string, enum, list (a sequence) or object. An object is *)
(* a record too, a BTreeMap whose keys come in alphabetical order. What     *)
(* strings and numbers are does not matter but for their order, so a value  *)
(* to compare with is a number.                                             *)
(***************************************************************************)
EXTENDS Integers, Sequences, FiniteSets

CONSTANTS
    Alphabet,   \* the keys of objects in alphabetical order
    FieldTypes  \* schema.fields: [type -> [field -> type]], where a type has the
                \* same fields with the `!` of a field's type behind its name

Ok(x) == [ok |-> x]
Err(error) == [err |-> error]
IsOk(result) == "ok" \in DOMAIN result

\* `?`: go on with the value of a result, or return its error.
Then(result, Use(_)) == IF IsOk(result) THEN Use(result.ok) ELSE result

\* The values of a sequence of results, or the first error.
Collected(results) ==
    IF \A i \in DOMAIN results : IsOk(results[i])
    THEN Ok([i \in DOMAIN results |-> results[i].ok])
    ELSE results[CHOOSE i \in DOMAIN results : ~IsOk(results[i]) /\ \A j \in 1 .. (i - 1) : IsOk(results[j])]

Is(kind, value) == kind \in DOMAIN value

SortedKeys(object) == SelectSeq(Alphabet, LAMBDA k : k \in DOMAIN object)

\* Schema::field_type: Some for a field of a known type.
HasField(entity, field) == entity \in DOMAIN FieldTypes /\ field \in DOMAIN FieldTypes[entity]

\* Floats, nulls, enums and variables are not supported, lists only in `in`.
ParseValue(value) ==
    CASE Is("int", value) -> Ok(value.int)
      [] Is("bigint", value) -> Ok(value.bigint)
      [] Is("boolean", value) -> Ok(value.boolean)
      [] Is("string", value) -> Ok(value.string)
      [] OTHER -> Err("UnsupportedValueType")

(***************************************************************************)
(* FilterType: what a filter is parsed to, and its inverse.                  *)
(***************************************************************************)
Compare(op, field, value) == [op |-> op, field |-> field, value |-> value]
Between(field, min, max) == [op |-> "between", field |-> field, min |-> min, max |-> max]
Member(op, field, set) == [op |-> op, field |-> field, set |-> set]
Nulls(op, columns) == [op |-> op, columns |-> columns]
Logic(op, left, right) == [op |-> op, left |-> left, right |-> right]

\* Mutant: the bound that > leaves out stays out.
OppositeStrict ==
    [gt |-> "lt", gte |-> "lt", lt |-> "gte", lte |-> "gt", equals |-> "not_equals",
     not_equals |-> "equals", in |-> "not_in", not_in |-> "in", no_nulls |-> "only_nulls",
     only_nulls |-> "no_nulls"]

Opposite ==
    [gt |-> "lte", gte |-> "lt", lt |-> "gte", lte |-> "gt", equals |-> "not_equals",
     not_equals |-> "equals", in |-> "not_in", not_in |-> "in", no_nulls |-> "only_nulls",
     only_nulls |-> "no_nulls"]

RECURSIVE Invert(_)
Invert(f) ==
    CASE f.op = "id" -> Err("UnsupportedNegation")
      [] f.op = "between" -> Ok(Logic("and", Compare("lt", f.field, f.min), Compare("gt", f.field, f.max)))
      [] f.op \in {"and", "or"} ->
            Then(Invert(f.left), LAMBDA left :
                Then(Invert(f.right), LAMBDA right : Ok(Logic(f.op, left, right))))
      [] OTHER -> Ok([f EXCEPT !.op = Opposite[f.op]])

(***************************************************************************)
(* Parsing.                                                                 *)
(***************************************************************************)
ParseHas(entity, predicate) ==
    IF ~Is("list", predicate) THEN Err("UnsupportedValueType")
    ELSE LET Column(value) ==
                IF ~Is("enum", value) THEN Err("UnsupportedValueType")
                ELSE IF HasField(entity, value.enum) THEN Ok(value.enum) ELSE Err("UnrecognizedField")
         IN  Then(Collected([i \in DOMAIN predicate.list |-> Column(predicate.list[i])]),
                  LAMBDA columns : Ok(Nulls("no_nulls", columns)))

\* One operation on a field.
ParseComparison(field, op, value) ==
    Then(ParseValue(value), LAMBDA v : Ok(Compare(op, field, v)))

ParseBetween(field, range) ==
    Then(Collected(<<ParseValue(range.min), ParseValue(range.max)>>), LAMBDA vs : Ok(Between(field, vs[1], vs[2])))

ParseIn(field, list) ==
    IF \E i \in DOMAIN list : ~IsOk(ParseValue(list[i])) THEN Err("UnableToParseValue")
    ELSE Ok(Member("in", field, [i \in DOMAIN list |-> ParseValue(list[i]).ok]))

\* A range without both bounds and an `in` without a list are passed over.
IsPassedOver(op, value) ==
    \/ op = "between" /\ ~(Is("object", value) /\ {"min", "max"} \subseteq DOMAIN value.object)
    \/ op = "in" /\ ~Is("list", value)

\* The first operation on the field counts, in alphabetical order.
ParseField(field, object) ==
    LET ops == SelectSeq(SortedKeys(object), LAMBDA op : ~IsPassedOver(op, object[op]))
    IN  IF ops = <<>> THEN Err("NoPredicatesInFilter")
        ELSE LET op == Head(ops)  value == object[op]
             IN CASE op = "between" -> ParseBetween(field, value.object)
                  [] op = "in" -> ParseIn(field, value.list)
                  [] op \in {"equals", "gt", "gte", "lt", "lte"} -> ParseComparison(field, op, value)
                  [] OTHER -> Err("UnsupportedFilterOperation")

RECURSIVE ParseFilterObject(_, _, _), ParsePair(_, _, _, _), ParseBinary(_, _, _, _)

\* Only the first key of an object is looked at, and by `and` and `or` the next.
\* prior is the filter seen before, a set of at most one.
ParseFilterObject(entity, object, prior) ==
    IF DOMAIN object = {} THEN Err("NoPredicatesInFilter")
    ELSE ParsePair(entity, object, SortedKeys(object), prior)

ParsePair(entity, object, keys, prior) ==
    LET key == Head(keys)  predicate == object[key]
    IN CASE key = "has" -> ParseHas(entity, predicate)
         [] key \in {"and", "or"} -> ParseBinary(entity, object, keys, prior)
         [] key = "not" ->
              IF ~Is("object", predicate) THEN Err("UnsupportedValueType")
              ELSE Then(ParseFilterObject(entity, predicate.object, prior), LAMBDA f : Invert(f))
         [] ~HasField(entity, key) /\ key \notin {"has", "and", "or", "not"} -> Err("UnrecognizedField")
         [] OTHER -> IF Is("object", predicate) THEN ParseField(key, predicate.object)
                     ELSE Err("UnsupportedValueType")

\* Mutant: an operator before any filter stands for the filter in it.
ParseBinaryAlone(entity, object, keys, prior) ==
    Then(ParseFilterObject(entity, object[Head(keys)].object, prior),
         LAMBDA f : Ok(IF prior = {} THEN f ELSE Logic(Head(keys), CHOOSE p \in prior : TRUE, f)))

ParseBinary(entity, object, keys, prior) ==
    LET key == Head(keys)  rest == Tail(keys)
        Combined(f) ==
            IF prior # {} THEN Ok(Logic(key, CHOOSE p \in prior : TRUE, f))
            ELSE IF rest = <<>> THEN Err("MissingPartnerForBinaryLogicalOperator")
            ELSE IF Head(rest) \in {"and", "or"} THEN ParseBinary(entity, object, rest, {f})
            ELSE Then(ParsePair(entity, object, rest, prior), LAMBDA next : Ok(Logic(key, f, next)))
    IN  IF ~Is("object", object[key]) THEN Err("UnsupportedValueType")
        ELSE Then(ParseFilterObject(entity, object[key].object, prior), Combined)

ParseOrder(entity, value) ==
    IF ~Is("object", value) THEN Err("UnsupportedValueType")
    ELSE IF DOMAIN value.object = {} THEN Err("NoPredicatesInFilter")
    ELSE LET order == Head(SortedKeys(value.object))
             field == value.object[order]
         IN  IF ~Is("enum", field) THEN Err("UnsupportedValueType")
             ELSE IF ~HasField(entity, field.enum) THEN Err("UnrecognizedField")
             ELSE IF order \notin {"asc", "desc"} THEN Err("UnableToParseValue")
             ELSE Ok([sort |-> field.enum, order |-> order])

\* parse_argument_into_param.
ParseArgument(entity, arg, value) ==
    CASE arg = "filter" ->
            IF ~Is("object", value) THEN Err("UnsupportedValueType")
            ELSE Then(ParseFilterObject(entity, value.object, {}), LAMBDA f : Ok([filter |-> f]))
      [] arg = "id" -> Then(ParseValue(value), LAMBDA v : Ok([filter |-> Compare("id", "id", v)]))
      [] arg = "order" -> ParseOrder(entity, value)
      [] arg = "offset" -> IF Is("int", value) THEN Ok([offset |-> value.int]) ELSE Err("UnsupportedValueType")
      [] arg = "first" -> IF Is("int", value) THEN Ok([limit |-> value.int]) ELSE Err("UnsupportedValueType")
      [] OTHER -> Err("UnrecognizedArgument")

(***************************************************************************)
(* QueryParams: filters and sorts of all the tables of a query, and at most *)
(* one offset and limit, the last ones that came.                           *)
(***************************************************************************)
NoParams == [filters |-> <<>>, sorts |-> <<>>, offset |-> {}, limit |-> {}]

AddParam(params, param, table) ==
    CASE Is("filter", param) -> [params EXCEPT !.filters = Append(@, [table |-> table, filter |-> param.filter])]
      [] Is("sort", param) -> [params EXCEPT !.sorts = Append(@, [table |-> table, column |-> param.sort, order |-> param.order])]
      [] Is("offset", param) -> [params EXCEPT !.offset = {param.offset}]
      [] OTHER -> [params EXCEPT !.limit = {param.limit}]

AddParams(params, list, table) ==
    LET added[n \in 0 .. Len(list)] == IF n = 0 THEN params ELSE AddParam(added[n - 1], list[n], table)
    IN  added[Len(list)]

(***************************************************************************)
(* What the SQL of a filter keeps of a table: a row maps columns to numbers *)
(* or to Null, and a condition is "true", "false" or "unknown".              *)
(***************************************************************************)
CONSTANT Null

Truth(condition) == IF condition THEN "true" ELSE "false"
Not3(a) == CASE a = "true" -> "false" [] a = "false" -> "true" [] OTHER -> "unknown"
And3(a, b) == IF "false" \in {a, b} THEN "false" ELSE IF "unknown" \in {a, b} THEN "unknown" ELSE "true"
Or3(a, b) == Not3(And3(Not3(a), Not3(b)))

Compared(op, x, y) ==
    CASE op = "gt" -> x > y [] op = "gte" -> x >= y [] op = "lt" -> x < y [] op = "lte" -> x <= y
      [] op = "not_equals" -> x # y [] OTHER -> x = y

\* to_sql, as Postgres evaluates it.
RECURSIVE Sql(_, _)
Sql(f, row) ==
    CASE f.op \in {"and", "or"} ->
            IF f.op = "and" THEN And3(Sql(f.left, row), Sql(f.right, row)) ELSE Or3(Sql(f.left, row), Sql(f.right, row))
      [] f.op = "no_nulls" -> Truth(\A i \in DOMAIN f.columns : row[f.columns[i]] # Null)
      [] f.op = "only_nulls" -> Truth(\A i \in DOMAIN f.columns : row[f.columns[i]] = Null)
      [] f.op \notin {"and", "or", "no_nulls", "only_nulls"} /\ row[f.field] = Null -> "unknown"
      [] f.op = "between" -> Truth(f.min <= row[f.field] /\ row[f.field] <= f.max)
      [] f.op = "in" -> Truth(\E i \in DOMAIN f.set : f.set[i] = row[f.field])
      [] f.op = "not_in" -> Truth(\A i \in DOMAIN f.set : f.set[i] # row[f.field])
      [] OTHER -> Truth(Compared(f.op, row[f.field], f.value))

\* An empty list makes a condition Postgres cannot parse.
RECURSIVE IsSql(_)
IsSql(f) ==
    CASE f.op \in {"and", "or"} -> IsSql(f.left) /\ IsSql(f.right)
      [] f.op \in {"no_nulls", "only_nulls"} -> f.columns # <<>>
      [] f.op \in {"in", "not_in"} -> f.set # <<>>
      [] OTHER -> TRUE
=============================================================================

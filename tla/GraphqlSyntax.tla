---------------------------- MODULE GraphqlSyntax ----------------------------
(***************************************************************************)
(* The grammar of GraphQL queries and how a document is printed             *)
(* (fuel-indexer-graphql/parser/src: common.rs, helpers.rs, query/).        *)
(*                                                                          *)
(* A rule is a record that Parse reads the way the combinators of `combine` *)
(* do: an alternative is tried only if the one before it failed on its      *)
(* first token. What a rule with named parts makes is a record of them with *)
(* the rule's name as `node`. Positions are left out.                       *)
(***************************************************************************)
EXTENDS GraphqlTokens, TLC

(***************************************************************************)
(* Rules.                                                                   *)
(***************************************************************************)
Tok(kind, values) == [rule |-> "token", kind |-> kind, values |-> values]
Name == Tok("Name", {})
P(value) == Tok("Punctuator", {value})
I(value) == Tok("Name", {value})
Str == [rule |-> "string", kinds |-> {"StringValue", "BlockString"}]
Opt(r) == [rule |-> "optional", of |-> r]
Many(r) == [rule |-> "many", of |-> r, least |-> 0]
Many1(r) == [rule |-> "many", of |-> r, least |-> 1]
Choice(rs) == [rule |-> "choice", of |-> rs]
Ref(name) == [rule |-> "ref", name |-> name]
\* optional(..).unwrap_or_default() of a list.
Default(r) == Choice(<<r, [rule |-> "nothing"]>>)

Skip(r) == [label |-> "", rule |-> r]
Take(label, r) == [label |-> label, rule |-> r]
Node(node, parts) == [rule |-> "node", node |-> node, parts |-> parts]
\* The one part that is taken, as `it`.
Only(parts) == [rule |-> "node", node |-> "", parts |-> parts]
Bracketed(open, r, close) == Only(<<Skip(P(open)), Take("it", r), Skip(P(close))>>)
After(first, r) == Only(<<Skip(first), Take("it", r)>>)
\* sep_by1.
Separated(r, separator) == Node("separated", <<Take("first", r), Take("others", Many(After(separator, r)))>>)
\* flat_map and and_then with an error.
Checked(check, r) == [rule |-> "checked", check |-> check, of |-> r]

(***************************************************************************)
(* The parser. A result is [ok, at], or an error that says whether a token  *)
(* was consumed.                                                            *)
(***************************************************************************)
Parsed(value, at) == [ok |-> value, at |-> at]
Fails(consumed) == [consumed |-> consumed]
Succeeds(p) == "ok" \in DOMAIN p
\* An error of a rule before which others consumed tokens.
Progressed(p, started) == IF started /\ ~Succeeds(p) THEN Fails(TRUE) ELSE p

DirectiveLocations ==
    {"QUERY", "MUTATION", "SUBSCRIPTION", "FIELD", "FRAGMENT_DEFINITION", "FRAGMENT_SPREAD", "INLINE_FRAGMENT",
     "VARIABLE_DEFINITION", "SCHEMA", "SCALAR", "OBJECT", "FIELD_DEFINITION", "ARGUMENT_DEFINITION", "INTERFACE",
     "UNION", "ENUM", "ENUM_VALUE", "INPUT_OBJECT", "INPUT_FIELD_DEFINITION"}

\* and_then: numbers are parsed as u64 and u128, escapes as characters.
Converts(token) ==
    CASE token.kind = "IntValue" -> token.value # "negative"
      [] token.kind = "BigIntValue" -> token.value # "vast"
      [] token.kind = "StringValue" -> \A i \in DOMAIN UnquoteString(token.value) : ~IsSurrogate(UnquoteString(token.value)[i])
      [] OTHER -> TRUE

Content(token) == IF token.kind = "StringValue" THEN UnquoteString(token.value) ELSE UnquoteBlockString(token.value)

Matches(r, token) == token.kind = r.kind /\ (r.values # {} => token.value \in r.values)

\* Later entries of an object, a BTreeMap, replace earlier ones of their name.
AsMap(entries) ==
    [n \in {entries[i].name : i \in DOMAIN entries} |->
        entries[CHOOSE i \in DOMAIN entries : entries[i].name = n /\ \A k \in DOMAIN entries : entries[k].name = n => k <= i].value]

\* Mutant: the alias of a field taken for its name.
NamesUnswapped(first, second) == [name |-> first, alias |-> second]

\* field: the name before a colon is the alias.
NamesOf(first, second) ==
    [name |-> IF second = {} THEN first ELSE CHOOSE n \in second : TRUE,
     alias |-> IF second = {} THEN {} ELSE {first}]

\* What the `map` of a rule makes of its parts.
Built(node, parts) ==
    CASE node = "" -> parts.it
      [] node = "separated" -> <<parts.first>> \o parts.others
      [] node = "object" -> [node |-> "object", map |-> AsMap(parts.entries)]
      [] node = "schema" -> [parts EXCEPT !.operations = AsMap(@)] @@ [node |-> "schema"]
      [] node = "type reference" -> IF parts.strict = {} THEN parts.of ELSE [node |-> "nonnull", of |-> parts.of]
      [] node = "field" -> NamesOf(parts.first, parts.second) @@ [l \in DOMAIN parts \ {"first", "second"} |-> parts[l]]
                               @@ [node |-> "field"]
      [] OTHER -> parts @@ [node |-> node]

\* A schema has each operation once, and an extension extends something.
Passes(check, value) ==
    CASE check = "operations" -> \A i \in DOMAIN value :
            /\ value[i].name \in {"query", "mutation", "subscription"}
            /\ \A k \in DOMAIN value : value[k].name = value[i].name => k = i
      [] check = "extends" -> \E l \in DOMAIN value \ {"node", "name", "interfaces"} : value[l] # <<>>
      [] check = "extends object" -> \E l \in DOMAIN value \ {"node", "name"} : value[l] # <<>>
      [] check = "location" -> value \in DirectiveLocations

RECURSIVE Parse(_, _, _, _), ParseParts(_, _, _, _, _, _), ParseChoice(_, _, _, _, _), ParseMany(_, _, _, _, _)

Parse(grammar, ts, r, at) ==
    CASE r.rule = "token" ->
            IF at > Len(ts) THEN Fails(FALSE)
            ELSE IF ~Matches(r, ts[at]) THEN Fails(FALSE)
            ELSE IF Converts(ts[at]) THEN Parsed(ts[at].value, at + 1) ELSE Fails(TRUE)
      [] r.rule = "string" ->
            IF at > Len(ts) THEN Fails(FALSE)
            ELSE IF ts[at].kind \notin r.kinds THEN Fails(FALSE)
            ELSE IF Converts(ts[at]) THEN Parsed(Content(ts[at]), at + 1) ELSE Fails(TRUE)
      [] r.rule = "nothing" -> Parsed(<<>>, at)
      [] r.rule = "ref" -> Parse(grammar, ts, grammar[r.name], at)
      [] r.rule = "optional" ->
            LET p == Parse(grammar, ts, r.of, at)
            IN  IF Succeeds(p) THEN Parsed({p.ok}, p.at) ELSE IF p.consumed THEN p ELSE Parsed({}, at)
      [] r.rule = "checked" ->
            LET p == Parse(grammar, ts, r.of, at)
            IN  IF Succeeds(p) THEN IF Passes(r.check, p.ok) THEN p ELSE Fails(TRUE) ELSE p
      [] r.rule = "many" ->
            LET p == ParseMany(grammar, ts, r.of, at, <<>>)
            IN  IF Succeeds(p) THEN IF Len(p.ok) >= r.least THEN p ELSE Fails(FALSE) ELSE p
      [] r.rule = "choice" -> ParseChoice(grammar, ts, r.of, 1, at)
      [] r.rule = "node" ->
            LET p == ParseParts(grammar, ts, r.parts, 1, at, <<>>)
            IN  IF Succeeds(p) THEN Parsed(Built(r.node, p.ok), p.at) ELSE p

ParseParts(grammar, ts, parts, n, at, record) ==
    IF n > Len(parts) THEN Parsed(record, at)
    ELSE LET p == Parse(grammar, ts, parts[n].rule, at)
         IN  IF ~Succeeds(p) THEN p
             ELSE Progressed(ParseParts(grammar, ts, parts, n + 1, p.at,
                                 IF parts[n].label = "" THEN record ELSE (parts[n].label :> p.ok) @@ record),
                             p.at > at)

ParseChoice(grammar, ts, rules, n, at) ==
    IF n > Len(rules) THEN Fails(FALSE)
    ELSE LET p == Parse(grammar, ts, rules[n], at)
         IN  IF Succeeds(p) THEN p ELSE IF p.consumed THEN p ELSE ParseChoice(grammar, ts, rules, n + 1, at)

ParseMany(grammar, ts, r, at, values) ==
    LET p == Parse(grammar, ts, r, at)
    IN  IF Succeeds(p) THEN ParseMany(grammar, ts, r, p.at, Append(values, p.ok))
        ELSE IF p.consumed THEN p ELSE Parsed(values, at)

\* many1(definition).skip(eof()): a set of at most one document.
ParseDocument(grammar, tokens, definition) ==
    LET ts == TokenStream(tokens)
        p == Parse(grammar, ts, Many1(definition), 1)
    IN  IF Succeeds(p) THEN {p.ok : i \in {k \in {p.at} : k > Len(ts)}} ELSE {}

(***************************************************************************)
(* What queries and schemas have in common.                                 *)
(***************************************************************************)
Argument == Node("argument", <<Take("name", Name), Skip(P(":")), Take("value", Ref("value"))>>)
ArgumentList == Default(Bracketed("(", Many1(Argument), ")"))
Directives == Many(Node("directive", <<Skip(P("@")), Take("name", Name), Take("arguments", ArgumentList)>>))

\* Booleans, null and enum values are words that are printed as they are.
PlainValue ==
    Choice(<<Node("word", <<Take("name", Name)>>), Node("int", <<Take("number", Tok("IntValue", {}))>>),
             Node("float", <<Take("number", Tok("FloatValue", {}))>>),
             Node("bigint", <<Take("number", Tok("BigIntValue", {}))>>), Node("text", <<Take("value", Str)>>)>>)

ListOf(inner) == Node("list", <<Skip(P("[")), Take("items", Many(Ref(inner))), Skip(P("]"))>>)
ObjectOf(inner) ==
    Node("object", <<Skip(P("{")),
                     Take("entries", Many(Node("argument", <<Take("name", Name), Skip(P(":")), Take("value", Ref(inner))>>))),
                     Skip(P("}"))>>)

Value == Choice(<<PlainValue, Node("variable", <<Skip(P("$")), Take("name", Name)>>), ListOf("value"), ObjectOf("value")>>)
\* The same without variables.
DefaultValue == Choice(<<PlainValue, ListOf("default"), ObjectOf("default")>>)

TypeRule ==
    Node("type reference", <<Take("of", Choice(<<Node("named", <<Take("name", Name)>>),
                                       Node("listtype", <<Skip(P("[")), Take("of", Ref("type")), Skip(P("]"))>>)>>)),
                   Take("strict", Opt(P("!")))>>)

(***************************************************************************)
(* Queries.                                                                 *)
(***************************************************************************)
QueryField ==
    Node("field", <<Take("first", Name), Take("second", Opt(After(P(":"), Name))), Take("arguments", ArgumentList),
                    Take("directives", Directives), Take("items", Default(Ref("selections")))>>)

InlineFragment ==
    Node("inline", <<Take("cond", Opt(After(I("on"), Name))), Take("directives", Directives),
                     Take("items", Ref("selections"))>>)
FragmentSpread == Node("spread", <<Take("name", Name), Take("directives", Directives)>>)

SelectionRule == Choice(<<QueryField, After(P("..."), Choice(<<InlineFragment, FragmentSpread>>))>>)
SelectionSet == Bracketed("{", Many1(Ref("selection")), "}")

Variable ==
    Node("vardef", <<Skip(P("$")), Take("name", Name), Skip(P(":")), Take("type", Ref("type")),
                     Take("default", Opt(After(P("="), Ref("default"))))>>)

Operation(kind) ==
    Node(kind, <<Skip(I(kind)), Take("name", Opt(Name)), Take("variables", Default(Bracketed("(", Many1(Variable), ")"))),
                 Take("directives", Directives), Take("items", Ref("selections"))>>)

FragmentDefinition ==
    Node("fragment", <<Skip(I("fragment")), Take("name", Name), Skip(I("on")), Take("cond", Name),
                       Take("directives", Directives), Take("items", Ref("selections"))>>)

QueryDefinition ==
    Choice(<<Node("selections", <<Take("items", Ref("selections"))>>), Operation("query"), Operation("mutation"),
             Operation("subscription"), FragmentDefinition>>)

QueryGrammar ==
    [value |-> Value, default |-> DefaultValue, type |-> TypeRule, selection |-> SelectionRule, selections |-> SelectionSet]

(***************************************************************************)
(* Printing. `in` is the indentation.                                       *)
(***************************************************************************)
NameToken(name) == <<[kind |-> "Name", value |-> name]>>
Mark(value) == <<[kind |-> "Punctuator", value |-> value]>>
Enclosed(open, tokens, close) == Mark(open) \o tokens \o Mark(close)
IfAny(list, tokens) == IF list = <<>> THEN <<>> ELSE tokens

\* `{}` of a float, as the tokenizer reads it.
PrintedFloat(class) ==
    [kind |-> CASE class = "fraction" -> "FloatValue" [] class \in {"whole", "negative"} -> "IntValue"
                [] class = "infinite" -> "Name" [] OTHER -> "BigIntValue",
     value |-> class]

RECURSIVE Printed(_, _)
PrintAll(list, in) == Joined([i \in DOMAIN list |-> Printed(list[i], in)])
PrintArguments(arguments, in) == IfAny(arguments, Enclosed("(", PrintAll(arguments, in), ")"))
PrintBlock(items, in) == Enclosed("{", PrintAll(items, in + 2), "}")
PrintOption(option, before, in) == Joined([i \in 1 .. Cardinality(option) |-> before \o Printed(CHOOSE x \in option : TRUE, in)])
PrintName(option) == Joined([i \in 1 .. Cardinality(option) |-> NameToken(CHOOSE n \in option : TRUE)])

\* Variables are printed for every operation but a subscription without a name.
PrintOperation(n, in) ==
    NameToken(n.node) \o PrintName(n.name)
        \o (IF n.node = "subscription" /\ n.name = {} THEN <<>> ELSE PrintArguments(n.variables, in))
        \o PrintAll(n.directives, in) \o PrintBlock(n.items, in)

PrintSelectedField(n, in) ==
    PrintName(n.alias) \o (IF n.alias = {} THEN <<>> ELSE Mark(":")) \o NameToken(n.name)
        \o PrintArguments(n.arguments, in) \o PrintAll(n.directives, in) \o IfAny(n.items, PrintBlock(n.items, in))

PrintFragment(n, in) ==
    NameToken("fragment") \o NameToken(n.name) \o NameToken("on") \o NameToken(n.cond)
        \o PrintAll(n.directives, in) \o PrintBlock(n.items, in)

\* The order of an object's entries does not matter.
Printed(n, in) ==
    CASE n.node = "word" -> NameToken(n.name)
      [] n.node = "int" -> <<[kind |-> "IntValue", value |-> n.number]>>
      [] n.node = "bigint" -> <<[kind |-> "BigIntValue", value |-> n.number]>>
      [] n.node = "float" -> <<PrintedFloat(n.number)>>
      [] n.node = "text" -> <<WriteQuoted(n.value, in)>>
      [] n.node = "variable" -> Mark("$") \o NameToken(n.name)
      [] n.node = "list" -> Enclosed("[", PrintAll(n.items, in), "]")
      [] n.node = "object" ->
            LET names == CHOOSE s \in [1 .. Cardinality(DOMAIN n.map) -> DOMAIN n.map] :
                            {s[i] : i \in DOMAIN s} = DOMAIN n.map
            IN  Enclosed("{", Joined([i \in DOMAIN names |-> NameToken(names[i]) \o Mark(":") \o Printed(n.map[names[i]], in)]), "}")
      [] n.node = "argument" -> NameToken(n.name) \o Mark(":") \o Printed(n.value, in)
      [] n.node = "directive" -> Mark("@") \o NameToken(n.name) \o PrintArguments(n.arguments, in)
      [] n.node = "named" -> NameToken(n.name)
      [] n.node = "listtype" -> Enclosed("[", Printed(n.of, in), "]")
      [] n.node = "nonnull" -> Printed(n.of, in) \o Mark("!")
      [] n.node = "field" -> PrintSelectedField(n, in)
      [] n.node = "inline" ->
            Mark("...") \o (IF n.cond = {} THEN <<>> ELSE NameToken("on")) \o PrintName(n.cond)
                \o PrintAll(n.directives, in) \o PrintBlock(n.items, in)
      [] n.node = "spread" -> Mark("...") \o NameToken(n.name) \o PrintAll(n.directives, in)
      [] n.node = "vardef" ->
            Mark("$") \o NameToken(n.name) \o Mark(":") \o Printed(n.type, in) \o PrintOption(n.default, Mark("="), in)
      [] n.node = "selections" -> PrintBlock(n.items, in)
      [] n.node = "fragment" -> PrintFragment(n, in)
      [] n.node \in {"query", "mutation", "subscription"} -> PrintOperation(n, in)
=============================================================================

------------------------- MODULE GraphqlSchemaSyntax -------------------------
(***************************************************************************)
(* The grammar of GraphQL schemas and how a schema is printed               *)
(* (fuel-indexer-graphql/parser/src/schema), on the rules of GraphqlSyntax. *)
(***************************************************************************)
EXTENDS GraphqlSyntax

Described == Take("description", Opt(Str))

\* query, mutation and subscription, each at most once and in any order.
SchemaRule ==
    Node("schema", <<Skip(I("schema")), Take("directives", Directives), Skip(P("{")),
                     Take("operations", Checked("operations",
                         Many(Node("argument", <<Take("name", Name), Skip(P(":")), Take("value", Name)>>)))),
                     Skip(P("}"))>>)

Implements ==
    Default(Only(<<Skip(I("implements")), Skip(Opt(P("&"))), Take("it", Separated(Name, P("&")))>>))

InputValue ==
    Node("input value", <<Described, Take("name", Name), Skip(P(":")), Take("type", Ref("type")),
                          Take("default", Opt(After(P("="), Ref("default")))), Take("directives", Directives)>>)
ArgumentsDefinition == Default(Bracketed("(", Many1(InputValue), ")"))

FieldDefinition ==
    Node("field definition", <<Described, Take("name", Name), Take("arguments", ArgumentsDefinition), Skip(P(":")),
                               Take("type", Ref("type")), Take("directives", Directives)>>)
FieldDefinitions == Default(Bracketed("{", Many1(FieldDefinition), "}"))

UnionMembers ==
    Default(Only(<<Skip(P("=")), Skip(Opt(P("|"))), Take("it", Separated(Name, P("|")))>>))

EnumValues ==
    Default(Bracketed("{", Many1(Node("enum value", <<Described, Take("name", Name), Take("directives", Directives)>>)), "}"))

InputFields == Default(Bracketed("{", Many1(InputValue), "}"))

\* A type and its extension are written alike.
TypeDefinition(kind, parts) == Node(kind, <<Skip(I(kind)), Take("name", Name)>> \o parts)
FieldsOfType == <<Take("interfaces", Implements), Take("directives", Directives), Take("fields", FieldDefinitions)>>

ScalarType == TypeDefinition("scalar", <<Take("directives", Directives)>>)
ObjectType == TypeDefinition("type", FieldsOfType)
InterfaceType == TypeDefinition("interface", FieldsOfType)
UnionType == TypeDefinition("union", <<Take("directives", Directives), Take("types", UnionMembers)>>)
EnumType == TypeDefinition("enum", <<Take("directives", Directives), Take("values", EnumValues)>>)
InputObjectType == TypeDefinition("input", <<Take("directives", Directives), Take("fields", InputFields)>>)

Locations ==
    Default(Only(<<Skip(Opt(P("|"))), Take("it", Separated(Checked("location", Name), P("|")))>>))

\* `on` must be written even when no location follows it.
DirectiveDefinition ==
    Node("directive definition",
         <<Skip(I("directive")), Skip(P("@")), Take("name", Name), Take("arguments", ArgumentsDefinition),
           Take("repeatable", Opt(I("repeatable"))), Skip(I("on")), Take("locations", Locations)>>)

DescribedDefinition ==
    Node("described", <<Described, Take("of", Choice(<<ScalarType, ObjectType, InterfaceType, UnionType, EnumType,
                                                       InputObjectType, DirectiveDefinition>>))>>)

TypeExtension ==
    Node("extend", <<Skip(I("extend")),
                     Take("of", Choice(<<Checked("extends", ScalarType), Checked("extends object", ObjectType),
                                         Checked("extends", InterfaceType), Checked("extends", UnionType),
                                         Checked("extends", EnumType), Checked("extends", InputObjectType)>>))>>)

SchemaDefinition == Choice(<<SchemaRule, TypeExtension, DescribedDefinition>>)

SchemaGrammar == [default |-> DefaultValue, value |-> Value, type |-> TypeRule]

(***************************************************************************)
(* Printing.                                                                *)
(***************************************************************************)
PrintDescription(n, in) == Joined([i \in 1 .. Cardinality(n.description) |->
                                    <<WriteQuoted(CHOOSE d \in n.description : TRUE, in)>>])

\* Names with a separator between them.
PrintNames(names, separator) ==
    Joined([i \in DOMAIN names |-> (IF i = 1 THEN <<>> ELSE Mark(separator)) \o NameToken(names[i])])

PrintInput(v, in) ==
    PrintDescription(v, in) \o NameToken(v.name) \o Mark(":") \o Printed(v.type, in)
        \o PrintOption(v.default, Mark("="), in) \o PrintAll(v.directives, in)
PrintInputs(values, in) == Joined([i \in DOMAIN values |-> PrintInput(values[i], in)])
PrintParameters(n, in) == IfAny(n.arguments, Enclosed("(", PrintInputs(n.arguments, in), ")"))

PrintField(v, in) ==
    PrintDescription(v, in) \o NameToken(v.name) \o PrintParameters(v, in) \o Mark(":") \o Printed(v.type, in)
        \o PrintAll(v.directives, in)
PrintFields(fields, in) ==
    IfAny(fields, Enclosed("{", Joined([i \in DOMAIN fields |-> PrintField(fields[i], in + 2)]), "}"))

PrintEnumValue(v, in) == PrintDescription(v, in) \o NameToken(v.name) \o PrintAll(v.directives, in)

\* The operations are printed in a fixed order.
PrintOperations(operations) ==
    Joined([i \in 1 .. 3 |->
        LET name == <<"query", "mutation", "subscription">>[i]
        IN  IF name \in DOMAIN operations THEN NameToken(name) \o Mark(":") \o NameToken(operations[name]) ELSE <<>>])

\* A directive without locations is printed without `on`.
PrintDirectiveDefinition(n) ==
    NameToken("directive") \o Mark("@") \o NameToken(n.name) \o PrintParameters(n, 0)
        \o (IF n.repeatable = {} THEN <<>> ELSE NameToken("repeatable"))
        \o IfAny(n.locations, NameToken("on") \o PrintNames(n.locations, "|"))

PrintHead(n) == NameToken(n.node) \o NameToken(n.name)

PrintScalar(n) == PrintHead(n) \o PrintAll(n.directives, 0)

PrintObject(n) ==
    PrintHead(n) \o IfAny(n.interfaces, NameToken("implements") \o PrintNames(n.interfaces, "&"))
        \o PrintAll(n.directives, 0) \o PrintFields(n.fields, 0)

PrintInterface(n) == PrintObject(n)

PrintUnion(n) ==
    PrintHead(n) \o PrintAll(n.directives, 0) \o IfAny(n.types, Mark("=") \o PrintNames(n.types, "|"))

PrintEnum(n) ==
    PrintHead(n) \o PrintAll(n.directives, 0)
        \o IfAny(n.values, Enclosed("{", Joined([i \in DOMAIN n.values |-> PrintEnumValue(n.values[i], 2)]), "}"))

PrintInputObject(n) ==
    PrintHead(n) \o PrintAll(n.directives, 0) \o IfAny(n.fields, Enclosed("{", PrintInputs(n.fields, 2), "}"))

PrintType(n) ==
    CASE n.node = "scalar" -> PrintScalar(n)
      [] n.node = "type" -> PrintObject(n)
      [] n.node = "interface" -> PrintInterface(n)
      [] n.node = "union" -> PrintUnion(n)
      [] n.node = "enum" -> PrintEnum(n)
      [] n.node = "input" -> PrintInputObject(n)

PrintSchema(n) ==
    CASE n.node = "schema" ->
            NameToken("schema") \o PrintAll(n.directives, 0) \o Enclosed("{", PrintOperations(n.operations), "}")
      [] n.node = "extend" -> NameToken("extend") \o PrintType(n.of)
      [] n.node = "described" ->
            PrintDescription(n, 0)
                \o IF n.of.node = "directive definition" THEN PrintDirectiveDefinition(n.of) ELSE PrintType(n.of)
=============================================================================

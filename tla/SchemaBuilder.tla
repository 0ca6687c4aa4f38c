---------------------------- MODULE SchemaBuilder ----------------------------
(***************************************************************************)
(* What becomes of a module's GraphQL schema: the tables and the registry   *)
(* rows that SchemaBuilder makes of it (fuel-indexer-schema/src/db/         *)
(* tables.rs), the foreign keys the web API reads back from it, and the     *)
(* entity structs that the indexer macro generates from it                  *)
(* (fuel-indexer-macros/src/schema.rs).                                     *)
(*                                                                          *)
(* A schema is [query, types]: the name of the query root and a sequence of *)
(* object types [name, fields], each field being [name, type, list,         *)
(* nullable, directives] and each directive [name, on]. Type names are      *)
(* distinct; Lower gives their lower-case form, which tables are named by.  *)
(***************************************************************************)
EXTENDS Integers, Sequences, FiniteSets

CONSTANTS
    Lower,     \* [type names -> table names]
    CaseFolds  \* [other names with a capital -> their lower-case form]

\* Postgres folds an identifier without quotes, and the code writes none.
Fold(name) == IF name \in DOMAIN CaseFolds THEN CaseFolds[name] ELSE name

ASSUME CaseAssumption == {"id", "object"} \cap DOMAIN CaseFolds = {}

GraphqlField ==
    [name : STRING, type : STRING, list : BOOLEAN, nullable : BOOLEAN,
     directives : Seq([name : STRING, on : STRING])]

GraphqlType == [name : DOMAIN Lower, fields : Seq(GraphqlField)]

GraphqlSchema == [query : STRING, types : Seq(GraphqlType)]

(***************************************************************************)
(* Scalars.                                                                 *)
(***************************************************************************)
\* The names base.graphql defines, scalars and the one enum.
BaseTypes ==
    {"ID", "Address", "AssetId", "Bytes4", "Bytes8", "Bytes32", "Bytes64", "Int4", "Int8",
     "Int16", "UInt4", "UInt8", "UInt16", "Timestamp", "Color", "ContractId", "Salt", "Json",
     "MessageId", "Charfield", "Identity", "Boolean", "Blob", "IndexType"}

\* ColumnType::from panics on the others.
ColumnTypes == BaseTypes \ {"Bytes64", "Color", "IndexType"}

\* The column of a type: what it can hold (bits, decimal digits or characters).
SqlType(t) ==
    CASE t \in {"ID", "UInt8"} -> [kind |-> "numeric", size |-> 20]
      [] t \in {"Int16", "UInt16"} -> [kind |-> "numeric", size |-> 39]
      [] t \in {"Int4", "UInt4"} -> [kind |-> "integer", size |-> 32]
      [] t = "Int8" -> [kind |-> "integer", size |-> 64]
      [] t = "Bytes4" -> [kind |-> "varchar", size |-> 8]
      [] t = "Bytes8" -> [kind |-> "varchar", size |-> 16]
      [] t = "Identity" -> [kind |-> "varchar", size |-> 66]
      [] t = "Charfield" -> [kind |-> "varchar", size |-> 255]
      [] t = "Blob" -> [kind |-> "varchar", size |-> 10485760]
      [] t \in {"Address", "AssetId", "Bytes32", "ContractId", "Salt", "MessageId"} ->
            [kind |-> "varchar", size |-> 64]
      [] t = "Timestamp" -> [kind |-> "timestamp", size |-> 0]
      [] t = "Object" -> [kind |-> "bytea", size |-> 0]
      [] OTHER -> [kind |-> t, size |-> 0]

\* FtColumn::query_fragment: the widest literal a value of the type becomes.
\* A text of any length has size 0.
Literal(t) ==
    CASE t \in {"ID", "UInt8"} -> [kind |-> "unsigned", size |-> 64]
      [] t = "UInt16" -> [kind |-> "unsigned", size |-> 128]
      [] t = "UInt4" -> [kind |-> "unsigned", size |-> 32]
      [] t = "Int4" -> [kind |-> "signed", size |-> 32]
      [] t \in {"Int8", "Timestamp"} -> [kind |-> "signed", size |-> 64]
      [] t = "Int16" -> [kind |-> "signed", size |-> 128]
      [] t = "Bytes4" -> [kind |-> "text", size |-> 8]
      [] t = "Bytes8" -> [kind |-> "text", size |-> 16]
      [] t \in {"Address", "AssetId", "Bytes32", "ContractId", "Salt", "MessageId", "Identity"} ->
            [kind |-> "text", size |-> 64]
      [] t \in {"Charfield", "Blob"} -> [kind |-> "text", size |-> 0]
      [] OTHER -> [kind |-> t, size |-> 0]

\* Decimal digits of the largest number of so many bits.
Digits == [bits \in {32, 64, 128} |-> CASE bits = 32 -> 10 [] bits = 64 -> 20 [] OTHER -> 39]

\* Postgres takes every such literal for a value of the column.
Holds(column, literal) ==
    CASE column.kind = "numeric" ->
            literal.kind \in {"signed", "unsigned"} /\ Digits[literal.size] <= column.size
      [] column.kind = "integer" ->
            \/ literal.kind = "signed" /\ literal.size <= column.size
            \/ literal.kind = "unsigned" /\ literal.size < column.size
      [] column.kind = "varchar" -> literal.kind = "text" /\ literal.size \in 1 .. column.size
      [] OTHER -> literal.kind = column.kind

(***************************************************************************)
(* Fields.                                                                  *)
(***************************************************************************)
TypeNames(schema) == {schema.types[i].name : i \in DOMAIN schema.types}

TypeNamed(schema, t) == schema.types[CHOOSE i \in DOMAIN schema.types : schema.types[i].name = t]

\* build_schema_fields_and_types_map: "Type.field" -> type, without its `!`.
TypesMap(schema) ==
    UNION {{<<t.name, t.fields[j].name>> : j \in DOMAIN t.fields} : t \in {schema.types[i] : i \in DOMAIN schema.types}}

FieldType(schema, id) ==
    LET fields == TypeNamed(schema, id[1]).fields
    IN  fields[CHOOSE j \in DOMAIN fields : fields[j].name = id[2]].type

\* get_unique_directive and get_index_directive: a directive counts when it is
\* the field's only one.
HasDirective(field, name) == Len(field.directives) = 1 /\ field.directives[1].name = name

IsForeignKey(field) == field.type \notin BaseTypes

\* get_join_directive_info: the field that a foreign key refers to.
ReferencedField(field) == IF Len(field.directives) = 1 THEN field.directives[1].on ELSE "id"

JoinPanics(schema, field) ==
    \/ Len(field.directives) = 1 /\ field.directives[1].name # "join"
    \/ <<field.type, ReferencedField(field)>> \notin TypesMap(schema)

\* An implicit reference to a primary key must not make another one; an
\* explicit @join does.
ReferencedType(schema, field) ==
    LET type == FieldType(schema, <<field.type, ReferencedField(field)>>)
    IN  IF Len(field.directives) # 1 /\ type = "ID" THEN "UInt8" ELSE type

(***************************************************************************)
(* SchemaBuilder.                                                           *)
(***************************************************************************)
\* inject_native_entities_into_schema.
MetadataEntity ==
    [name |-> "IndexMetadataEntity",
     fields |-> <<[name |-> "id", type |-> "ID", list |-> FALSE, nullable |-> FALSE, directives |-> <<>>],
                  [name |-> "time", type |-> "Int8", list |-> FALSE, nullable |-> FALSE, directives |-> <<>>]>>]

\* Mutant: the schema as the module's author wrote it.
NotInjected(schema) == schema

Injected(schema) == [schema EXCEPT !.types = Append(@, MetadataEntity)]

\* The types that get a table: all but the query root.
Entities(schema) ==
    LET upTo[n \in 0 .. Len(schema.types)] ==
            IF n = 0 THEN <<>>
            ELSE IF schema.types[n].name = schema.query THEN upTo[n - 1]
            ELSE Append(upTo[n - 1], schema.types[n])
    IN  upTo[Len(schema.types)]

\* process_type, ColumnType::from, sql_type and get_join_directive_info.
FieldPanics(schema, field) ==
    \/ field.list
    \/ IsForeignKey(field) /\ JoinPanics(schema, field)
    \/ IsForeignKey(field) /\ ~JoinPanics(schema, field) /\ ReferencedType(schema, field) \notin ColumnTypes
    \/ ~IsForeignKey(field) /\ field.type \notin ColumnTypes

BuildPanics(schema) ==
    \/ schema.query = "none"
    \/ \E i \in DOMAIN Entities(schema) : \E j \in DOMAIN Entities(schema)[i].fields :
          FieldPanics(schema, Entities(schema)[i].fields[j])

Column(schema, field) ==
    [name |-> field.name,
     type |-> IF IsForeignKey(field) THEN ReferencedType(schema, field) ELSE field.type,
     nullable |-> field.nullable,
     unique |-> HasDirective(field, "unique")]

ObjectColumn == [name |-> "object", type |-> "Object", nullable |-> FALSE, unique |-> FALSE]

\* Mutant: no column for the serialized entity.
ColumnsOfFields(schema, type) == [j \in DOMAIN type.fields |-> Column(schema, type.fields[j])]

\* generate_columns: the columns of a table in the order of its fields, and
\* the serialized entity last.
Columns(schema, type) ==
    Append([j \in DOMAIN type.fields |-> Column(schema, type.fields[j])], ObjectColumn)

ForeignKeys(schema, type) ==
    {[table |-> Lower[type.name], column |-> type.fields[j].name,
      refTable |-> Lower[type.fields[j].type],
      refColumn |-> ReferencedField(type.fields[j])] :
        j \in {k \in DOMAIN type.fields : IsForeignKey(type.fields[k])}}

\* @indexed on a foreign key is ignored.
Indices(type) ==
    {[table |-> Lower[type.name], column |-> type.fields[j].name] :
        j \in {k \in DOMAIN type.fields :
                 ~IsForeignKey(type.fields[k]) /\ HasDirective(type.fields[k], "indexed")}}

\* Schema::load_from_db (get_foreign_keys): what the web API takes for the
\* foreign keys of a stored schema. It knows the query root by the name
\* QueryRoot only.
IsQueryRoot(type) == Lower[type.name] = "queryroot"

LoadedForeignKeys(schema) ==
    UNION {ForeignKeys(schema, schema.types[i]) :
             i \in {k \in DOMAIN schema.types : ~IsQueryRoot(schema.types[k])}}

LoadPanics(schema) ==
    \E i \in DOMAIN schema.types :
        /\ ~IsQueryRoot(schema.types[i])
        /\ \E j \in DOMAIN schema.types[i].fields :
              LET field == schema.types[i].fields[j]
              IN  \/ field.list
                  \/ IsForeignKey(field) /\ JoinPanics(schema, field)
                  \/ ~IsForeignKey(field) /\ field.type \notin ColumnTypes

(***************************************************************************)
(* The entities of the generated module.                                    *)
(***************************************************************************)
\* `FtColumn::#type(self.field)`: the scalars FtColumn has a variant for whose
\* Rust type is the variant's; Timestamp is a u64 to one and an i64 to the other.
EntityScalars == ColumnTypes \ {"Timestamp"}

\* `Option` fields are moved out of `&self`, which only Copy types can be.
CopyScalars == EntityScalars \ {"Json", "Charfield", "Blob"}

ScalarFieldCompiles(field) ==
    field.type \in IF field.nullable THEN CopyScalars ELSE EntityScalars

\* A foreign key is one to a type whose struct was generated before; a nullable
\* one generates `FtColumn::Option<..>`.
ReferenceFieldCompiles(schema, earlier, field) ==
    /\ field.type \in earlier
    /\ ~JoinPanics(schema, field)
    /\ ReferencedType(schema, field) \in EntityScalars
    /\ ~field.nullable

\* process_graphql_schema and the compilation of what it generates.
EntitiesCompile(schema) ==
    /\ schema.query \in TypeNames(schema)
    /\ \A i \in DOMAIN Entities(schema) : \A j \in DOMAIN Entities(schema)[i].fields :
          LET field == Entities(schema)[i].fields[j]
              earlier == {Entities(schema)[k].name : k \in 1 .. i - 1}
          IN  /\ ~field.list
              /\ IF IsForeignKey(field) THEN ReferenceFieldCompiles(schema, earlier, field)
                                        ELSE ScalarFieldCompiles(field)

\* to_row: the FtColumn variants of an entity's fields.
Row(schema, type) ==
    [j \in DOMAIN type.fields |->
        LET field == type.fields[j]
        IN  IF IsForeignKey(field) THEN ReferencedType(schema, field) ELSE field.type]
=============================================================================

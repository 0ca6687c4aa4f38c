--------------------------- MODULE SchemaRegistry ----------------------------
(***************************************************************************)
(* The schemas of all indexers in the one Postgres database: the registry   *)
(* tables, the tables that SchemaBuilder::commit_metadata creates, the       *)
(* modules that save entities in them (fuel-indexer/src/database.rs) and     *)
(* what the web API loads of them.                                          *)
(*                                                                          *)
(* A schema comes with a deploy, inside the deploy's transaction, or with   *)
(* the manifest the service is started with, statement by statement. A      *)
(* schema's version is its hash and is modelled by the schema.              *)
(***************************************************************************)
EXTENDS SchemaBuilder

CONSTANTS
    Indexers,     \* [namespace, identifier], each a sequence of `_`-separated words
    Nothing,      \* no start under way, no module running, nothing saved
    Registrations \* scenarios: [schemas, owners, manifests, cuts]: the schemas in use,
                  \* the indexers, and whether service starts, and deploys that are cut
                  \* short, are part of the scenario

\* A schema as its author writes it: the injected entity's name is reserved.
ASSUME RegistryAssumption ==
    /\ \A r \in Registrations : r.owners \subseteq Indexers /\ {r.manifests, r.cuts} \subseteq BOOLEAN
    /\ \A r \in Registrations : \A s \in r.schemas :
          s \in GraphqlSchema /\ s.query # MetadataEntity.name
    /\ MetadataEntity \in GraphqlType
    /\ Nothing \notin GraphqlSchema
    /\ Nothing \notin [indexer : Indexers, schema : GraphqlSchema, done : Nat]
    /\ Nothing \notin [indexer : Indexers, version : GraphqlSchema, type : GraphqlType,
                       outcome : {"stored", "dropped", "panic"}]

VARIABLES
    registration, \* the scenario
    catalog,      \* what is committed: tables, foreign keys, indices and registry rows
    starting,     \* the start that registers a schema: [indexer, schema, done], or Nothing
    interrupted,  \* history: Postgres schemas where a part of commit_metadata was
                  \* committed: by an interrupted start, or a deploy cut short
    module,       \* indexer -> the schema its running module was compiled with
    saved         \* the last save: [indexer, version, type, outcome], or Nothing

registryVars == <<registration, catalog, starting, interrupted, module, saved>>

(***************************************************************************)
(* Names. Tables are in the Postgres schema "namespace_identifier", which   *)
(* Postgres folds to lower case; a type id is the hash of that name, as it   *)
(* is written, and the type's.                                               *)
(***************************************************************************)
SchemaName(ix) == ix.namespace \o ix.identifier

PgSchema(ix) == [n \in DOMAIN SchemaName(ix) |-> Fold(SchemaName(ix)[n])]

\* Mutant: the hash of the uid, "namespace.identifier".
TypeIdOfUid(ix, type) == <<ix, type>>

TypeId(ix, type) == <<SchemaName(ix), type>>

(***************************************************************************)
(* The statements of commit_metadata, in their order.                       *)
(***************************************************************************)
Statement(kind, item) == [kind |-> kind, item |-> item]

\* The items of a set, in some order.
InOrder(kind, S) ==
    LET order == CHOOSE f \in [1 .. Cardinality(S) -> S] : {f[n] : n \in 1 .. Cardinality(S)} = S
    IN  [n \in 1 .. Cardinality(S) |-> Statement(kind, order[n])]

\* Mutant: the columns are not registered.
StatementsWithoutColumns(schema) ==
    LET entities == Entities(schema)
        types == {entities[i] : i \in DOMAIN entities}
    IN  <<Statement("graph_root", Nothing), Statement("root_columns", Nothing)>>
        \o [i \in DOMAIN entities |-> Statement("table", entities[i])]
        \o InOrder("foreign_key", UNION {ForeignKeys(schema, t) : t \in types})
        \o InOrder("index", UNION {Indices(t) : t \in types})
        \o <<Statement("type_ids", Nothing)>>

Statements(schema) ==
    LET entities == Entities(schema)
        types == {entities[i] : i \in DOMAIN entities}
    IN  <<Statement("graph_root", Nothing), Statement("root_columns", Nothing)>>
        \o [i \in DOMAIN entities |-> Statement("table", entities[i])]
        \o InOrder("foreign_key", UNION {ForeignKeys(schema, t) : t \in types})
        \o InOrder("index", UNION {Indices(t) : t \in types})
        \o <<Statement("type_ids", Nothing), Statement("columns", Nothing)>>

Table(cat, ix, name) == cat.tables[<<PgSchema(ix), name>>]

TableExists(cat, ix, name) == <<PgSchema(ix), name>> \in DOMAIN cat.tables

IsNamed(column, name) == Fold(column.name) = Fold(name)

HasColumn(cat, ix, table, column) ==
    /\ TableExists(cat, ix, table)
    /\ \E j \in DOMAIN Table(cat, ix, table) : IsNamed(Table(cat, ix, table)[j], column)

IsKeyColumn(column) == column.unique \/ column.type = "ID"

\* What a foreign key may refer to and ON CONFLICT may name.
HasUniqueColumn(cat, ix, table, column) ==
    /\ TableExists(cat, ix, table)
    /\ \E j \in DOMAIN Table(cat, ix, table) :
          IsNamed(Table(cat, ix, table)[j], column) /\ IsKeyColumn(Table(cat, ix, table)[j])

ColumnIsJson(cat, ix, table, column) ==
    \E j \in DOMAIN Table(cat, ix, table) :
        IsNamed(Table(cat, ix, table)[j], column) /\ Table(cat, ix, table)[j].type = "Json"

\* json has no ordering to build an index on.
TableRejected(columns) ==
    \/ \E i, j \in DOMAIN columns : i # j /\ IsNamed(columns[i], columns[j].name)
    \/ \E i, j \in DOMAIN columns : i # j /\ columns[i].type = "ID" /\ columns[j].type = "ID"
    \/ \E i \in DOMAIN columns : columns[i].unique /\ columns[i].type = "Json"

\* The names that a foreign key's constraint and an index are made of.
NamedAlike(item, other) ==
    /\ item.table = other.table /\ Fold(item.column) = Fold(other.column)
    /\ DOMAIN item = DOMAIN other
    /\ "refTable" \in DOMAIN item =>
          item.refTable = other.refTable /\ Fold(item.refColumn) = Fold(other.refColumn)

\* Mutant: the type's name for its table's.
TypeIdsByName(ix, schema) ==
    {[id |-> TypeId(ix, t.name), indexer |-> ix, version |-> schema, name |-> t.name,
      table |-> t.name] : t \in {Entities(schema)[i] : i \in DOMAIN Entities(schema)}}

TypeIdsOf(ix, schema) ==
    {[id |-> TypeId(ix, t.name), indexer |-> ix, version |-> schema, name |-> t.name,
      table |-> Lower[t.name]] : t \in {Entities(schema)[i] : i \in DOMAIN Entities(schema)}}

\* Postgres, or an expect(), refuses the statement.
Refused(cat, ix, schema, statement) ==
    LET item == statement.item
    IN CASE statement.kind = "graph_root" ->
              \E n \in DOMAIN cat.roots : cat.roots[n] = [indexer |-> ix, version |-> schema]
         [] statement.kind = "root_columns" -> schema.query \notin TypeNames(schema)
         [] statement.kind = "table" ->
              /\ ~TableExists(cat, ix, Lower[item.name])
              /\ TableRejected(Columns(schema, item))
         [] statement.kind = "foreign_key" ->
              \/ \E k \in cat.foreignKeys : k[1] = PgSchema(ix) /\ NamedAlike(k[2], item)
              \/ ~HasColumn(cat, ix, item.table, item.column)
              \/ ~HasUniqueColumn(cat, ix, item.refTable, item.refColumn)
         [] statement.kind = "index" ->
              \/ \E k \in cat.indices : k[1] = PgSchema(ix) /\ NamedAlike(k[2], item)
              \/ ~HasColumn(cat, ix, item.table, item.column)
              \/ ColumnIsJson(cat, ix, item.table, item.column)
         [] statement.kind = "type_ids" ->
              {t.id : t \in TypeIdsOf(ix, schema)} \cap {t.id : t \in cat.typeIds} # {}
         [] OTHER -> FALSE

\* What an accepted statement leaves. CREATE TABLE IF NOT EXISTS leaves a table
\* that is there as it is.
Executed(cat, ix, schema, statement) ==
    LET item == statement.item
    IN CASE statement.kind = "graph_root" ->
              [cat EXCEPT !.roots = Append(@, [indexer |-> ix, version |-> schema])]
         [] statement.kind = "table" ->
              IF TableExists(cat, ix, Lower[item.name]) THEN cat
              ELSE [cat EXCEPT !.tables =
                      [k \in DOMAIN @ \cup {<<PgSchema(ix), Lower[item.name]>>} |->
                          IF k \in DOMAIN @ THEN @[k] ELSE Columns(schema, item)]]
         [] statement.kind = "foreign_key" ->
              [cat EXCEPT !.foreignKeys = @ \cup {<<PgSchema(ix), item>>}]
         [] statement.kind = "index" ->
              [cat EXCEPT !.indices = @ \cup {<<PgSchema(ix), item>>}]
         [] statement.kind = "type_ids" -> [cat EXCEPT !.typeIds = @ \cup TypeIdsOf(ix, schema)]
         [] statement.kind = "columns" ->
              [cat EXCEPT !.columns = [id \in DOMAIN @ \cup {t.id : t \in TypeIdsOf(ix, schema)} |->
                 IF id \in DOMAIN @ THEN @[id] ELSE Columns(schema, TypeNamed(schema, id[2]))]]
         [] OTHER -> cat

\* The catalog after each of them, as long as none is refused.
StatementsRun(cat, ix, schema) ==
    LET statements == Statements(schema)
        after[n \in 0 .. Len(statements)] ==
            IF n = 0 THEN [ok |-> ~BuildPanics(schema), catalog |-> cat]
            ELSE LET before == after[n - 1]
                 IN  IF before.ok /\ ~Refused(before.catalog, ix, schema, statements[n])
                     THEN [ok |-> TRUE, catalog |-> Executed(before.catalog, ix, schema, statements[n])]
                     ELSE [ok |-> FALSE, catalog |-> cat]
    IN  after

\* All of them in one transaction.
CommitMetadata(cat, ix, schema) == StatementsRun(cat, ix, schema)[Len(Statements(schema))]

\* queries::schema_exists.
SchemaExists(cat, ix, schema) ==
    \E t \in cat.typeIds : t.indexer = ix /\ t.version = schema

(***************************************************************************)
(* Actions.                                                                 *)
(***************************************************************************)
\* Module versions include the injected entity, like the registered ones.
Version(schema) == Injected(schema)

EmptyCatalog ==
    [tables |-> [k \in {} |-> <<>>], foreignKeys |-> {}, indices |-> {}, roots |-> <<>>,
     typeIds |-> {}, columns |-> [k \in {} |-> <<>>]]

RegistryInit ==
    /\ registration \in Registrations
    /\ catalog = EmptyCatalog
    /\ starting = Nothing
    /\ interrupted = {}
    /\ module = [ix \in registration.owners |-> Nothing]
    /\ saved = Nothing

\* Mutant: without a transaction the graph root stays when a later statement fails.
DeployWithoutTransaction(ix, schema, compiled) ==
    /\ starting = Nothing
    /\ ~SchemaExists(catalog, ix, Version(schema))
    /\ LET result == CommitMetadata(catalog, ix, Version(schema))
       IN  catalog' = IF result.ok THEN result.catalog
                      ELSE [catalog EXCEPT !.roots = Append(@, [indexer |-> ix, version |-> Version(schema)])]
    /\ module' = [module EXCEPT ![ix] = Version(compiled)]
    /\ UNCHANGED <<registration, starting, interrupted, saved>>

\* register_indexer_assets: the module may have been built with another schema
\* than the one deployed with it. A refused statement aborts the transaction, and
\* nothing of it is left.
DeploySchema(ix, schema, compiled) ==
    /\ starting = Nothing
    /\ EntitiesCompile(Version(compiled))
    /\ LET result == CommitMetadata(catalog, ix, Version(schema))
       IN  \/ /\ SchemaExists(catalog, ix, Version(schema))
              /\ module' = [module EXCEPT ![ix] = Version(compiled)]
              /\ UNCHANGED catalog
           \/ /\ ~SchemaExists(catalog, ix, Version(schema))
              /\ result.ok
              /\ catalog' = result.catalog
              /\ module' = [module EXCEPT ![ix] = Version(compiled)]
    /\ UNCHANGED <<registration, starting, interrupted, saved>>

\* A deploy that panics without a refusal (`expect("No query root.")`), or whose
\* client goes away, between two statements gives its connection back in the
\* middle of the transaction, and the next request that uses the connection to
\* commit publishes what was executed. Until then its rows are locked and its
\* root has its serial number: it is as if they were published at once.
DeployCutShort(ix, schema) ==
    /\ registration.cuts
    /\ starting = Nothing
    /\ ~SchemaExists(catalog, ix, Version(schema))
    /\ \E n \in 1 .. Len(Statements(Version(schema))) :
          LET result == StatementsRun(catalog, ix, Version(schema))[n]
          IN  result.ok /\ catalog' = result.catalog
    /\ interrupted' = interrupted \cup {PgSchema(ix)}
    /\ UNCHANGED <<registration, starting, module, saved>>

\* register_index_from_manifest (or register_native_index): new_schema on a
\* connection without a transaction.
StartRegistration(ix, schema) ==
    /\ registration.manifests
    /\ starting = Nothing
    /\ EntitiesCompile(Version(schema))
    /\ ~SchemaExists(catalog, ix, Version(schema))
    /\ ~BuildPanics(Version(schema))
    /\ starting' = [indexer |-> ix, schema |-> Version(schema), done |-> 0]
    /\ UNCHANGED <<registration, catalog, interrupted, module, saved>>

NextStatement == Statements(starting.schema)[starting.done + 1]

RunStatement ==
    /\ starting # Nothing
    /\ starting.done < Len(Statements(starting.schema))
    /\ ~Refused(catalog, starting.indexer, starting.schema, NextStatement)
    /\ catalog' = Executed(catalog, starting.indexer, starting.schema, NextStatement)
    /\ starting' = [starting EXCEPT !.done = @ + 1]
    /\ UNCHANGED <<registration, interrupted, module, saved>>

\* A statement is refused, or the process dies between two: the service does not
\* come up, and what was executed stays.
InterruptRegistration ==
    /\ starting # Nothing
    /\ starting.done < Len(Statements(starting.schema))
    /\ interrupted' = interrupted \cup {PgSchema(starting.indexer)}
    /\ starting' = Nothing
    /\ module' = [ix \in registration.owners |-> Nothing]
    /\ UNCHANGED <<registration, catalog, saved>>

FinishRegistration ==
    /\ starting # Nothing
    /\ starting.done = Len(Statements(starting.schema))
    /\ module' = [module EXCEPT ![starting.indexer] = starting.schema]
    /\ starting' = Nothing
    /\ UNCHANGED <<registration, catalog, interrupted, saved>>

\* remove_indexer drops the assets of an indexer; its tables and its rows in
\* the registry stay.
RemoveIndexer(ix) ==
    /\ starting = Nothing
    /\ module[ix] # Nothing
    /\ module' = [module EXCEPT ![ix] = Nothing]
    /\ UNCHANGED <<registration, catalog, starting, interrupted, saved>>

\* Database::load_schema (columns_get_schema): the tables of the version that the
\* module was compiled with, by type id, joined with their columns.
KnownTables(cat, ix, version) ==
    {t \in cat.typeIds : t.indexer = ix /\ t.version = version /\ t.id \in DOMAIN cat.columns}

\* Database::put_object: the columns the registry names, the values the module
\* sends and the serialized entity. `SET` without a column is a syntax error,
\* and ON CONFLICT(id) needs a unique id.
RowFits(cat, ix, tid, row) ==
    LET names == cat.columns[tid.id]
        columns == Table(cat, ix, tid.table)
    IN  /\ Len(names) = Len(row) + 1
        /\ Len(row) > 1
        /\ Len(columns) = Len(names)
        /\ \A j \in DOMAIN row : /\ IsNamed(columns[j], names[j].name)
                                 /\ Holds(SqlType(columns[j].type), Literal(row[j]))
        /\ HasUniqueColumn(cat, ix, tid.table, "id")

\* Texts that are put between quotes as they are, quotes in them included.
Unescaped == {"Charfield", "Json"}

\* Some values of a row that fits are refused: those of a key other than the id
\* that another row has, and texts with a quote. A foreign key is looked at when
\* the page commits.
MayBeRefused(cat, ix, tid, row) ==
    LET columns == Table(cat, ix, tid.table)
    IN  \/ \E j \in DOMAIN columns : IsKeyColumn(columns[j]) /\ ~IsNamed(columns[j], "id")
        \/ \E j \in DOMAIN row : row[j] \in Unescaped

SaveOutcomes(ix, type) ==
    LET known == {t \in KnownTables(catalog, ix, module[ix]) : t.id = TypeId(ix, type.name)}
        row == Row(module[ix], type)
    IN  IF known = {} THEN {"dropped"}
        ELSE {o \in {"stored", "panic"} :
                IF o = "stored" THEN \A t \in known : RowFits(catalog, ix, t, row)
                ELSE \E t \in known : \/ ~RowFits(catalog, ix, t, row)
                                       \/ MayBeRefused(catalog, ix, t, row)}

\* A module saves an entity: stored, a panic of the host, or, for a type id that
\* was not loaded, dropped with an error in the log.
SaveEntityOf(ix) ==
    /\ starting = Nothing
    /\ module[ix] # Nothing
    /\ \E i \in DOMAIN Entities(module[ix]) :
          LET type == Entities(module[ix])[i]
          IN  \E outcome \in SaveOutcomes(ix, type) :
                 saved' = [indexer |-> ix, version |-> module[ix], type |-> type, outcome |-> outcome]
    /\ UNCHANGED <<registration, catalog, starting, interrupted, module>>

RegistryNext ==
    \/ \E ix \in registration.owners :
          \/ \E schema, compiled \in registration.schemas : DeploySchema(ix, schema, compiled)
          \/ \E schema \in registration.schemas : DeployCutShort(ix, schema)
          \/ \E schema \in registration.schemas : StartRegistration(ix, schema)
          \/ RemoveIndexer(ix)
          \/ SaveEntityOf(ix)
    \/ RunStatement \/ InterruptRegistration \/ FinishRegistration

RegistrySpec == RegistryInit /\ [][RegistryNext]_registryVars

(***************************************************************************)
(* Properties.                                                              *)
(***************************************************************************)
\* The registry's state has its type.
RegistryTypeOK ==
    /\ catalog.typeIds \in SUBSET [id : {TypeId(t.indexer, t.name) : t \in catalog.typeIds},
                                  indexer : registration.owners,
                                  version : {Version(s) : s \in registration.schemas},
                                  name : DOMAIN Lower, table : {Lower[t] : t \in DOMAIN Lower}]
    /\ starting = Nothing \/ starting.done \in 0 .. Len(Statements(starting.schema))
    /\ DOMAIN module = registration.owners
    /\ saved = Nothing \/ saved.outcome \in {"stored", "dropped", "panic"}

Registered(cat, ix) == {t \in cat.typeIds : t.indexer = ix}

\* A start or a deploy was interrupted in the Postgres schema, or a start is under way.
Disturbed(ix) ==
    \/ PgSchema(ix) \in interrupted
    \/ starting # Nothing /\ PgSchema(starting.indexer) = PgSchema(ix)

\* Another indexer's names differ from this one's in case only: other type ids, in
\* the same Postgres schema.
SharesSchema(ix) ==
    \E jx \in registration.owners :
        PgSchema(jx) = PgSchema(ix) /\ SchemaName(jx) # SchemaName(ix)

\* Types that differ in case only share a table.
CaseDistinct(schema) ==
    \A i, j \in DOMAIN schema.types :
        Lower[schema.types[i].name] = Lower[schema.types[j].name] => i = j

\* No two indexers own one table, although "a_b"."c" and "a"."b_c" name the same
\* Postgres schema: the entity that is injected in every schema has one type id
\* there, and its insertion fails for the second. Indexers whose names differ in
\* case only do share tables: their type ids differ.
TablesHaveOneOwner ==
    \A s, t \in catalog.typeIds :
        /\ PgSchema(s.indexer) = PgSchema(t.indexer) /\ s.table = t.table
        /\ ~SharesSchema(s.indexer)
        => s.indexer = t.indexer

\* Once an indexer has a schema it keeps it: no deploy, start or removal adds a
\* type to it, takes one away or registers another version.
SchemaIsForever ==
    [][\A ix \in registration.owners :
          Registered(catalog, ix) # {} => Registered(catalog', ix) = Registered(catalog, ix)]_registryVars

\* What the registry says of a table's columns is what the table has, unless a
\* start or a deploy was interrupted, which leaves tables of no registered schema
\* behind, or names differ in case only.
RegistryMatchesTables ==
    \A t \in catalog.typeIds :
        ~Disturbed(t.indexer) /\ ~SharesSchema(t.indexer) /\ CaseDistinct(t.version) =>
            /\ TableExists(catalog, t.indexer, t.table)
            /\ t.id \in DOMAIN catalog.columns
            /\ catalog.columns[t.id] = Table(catalog, t.indexer, t.table)

\* The version of a graph root that the web API would load.
LatestRoots ==
    {catalog.roots[n] : n \in {k \in DOMAIN catalog.roots :
        \A l \in DOMAIN catalog.roots : catalog.roots[l].indexer = catalog.roots[k].indexer => l <= k}}

\* The web API finds types for the root it loads, and loading it does not panic
\* and gives the foreign keys Postgres has, if the query root has its usual name
\* and nothing was interrupted and no names differ in case only.
WebApiServesTables ==
    \A root \in LatestRoots :
        /\ ~Disturbed(root.indexer) /\ ~SharesSchema(root.indexer)
        /\ CaseDistinct(root.version) /\ Lower[root.version.query] = "queryroot"
        =>
            /\ SchemaExists(catalog, root.indexer, root.version)
            /\ ~LoadPanics(root.version)
            /\ LoadedForeignKeys(root.version) =
                  {k[2] : k \in {f \in catalog.foreignKeys : f[1] = PgSchema(root.indexer)}}

\* put_object drops a row only when the module was not built from the schema that
\* is registered, or a start or a deploy was interrupted.
DroppedOnlyOnMismatch ==
    saved # Nothing /\ saved.outcome = "dropped" =>
        \/ Disturbed(saved.indexer)
        \/ ~SchemaExists(catalog, saved.indexer, saved.version)

\* Values that may not fit the column of their type: an integer above 2^31 - 1, a
\* text longer than its column.
Oversized == {"UInt4", "Charfield", "Blob"}

\* The rows of the macro's structs fit the tables of the schema builder. The host
\* panics only for an entity that has no unique id or nothing but an id, or where
\* the values of some field may be refused: more than the column holds, a text
\* with a quote, a key other than the id that another entity has.
CompiledEntitiesStored ==
    saved # Nothing /\ saved.outcome = "panic" =>
        LET fields == saved.type.fields
            row == Row(saved.version, saved.type)
            IsKeyField(j) == HasDirective(fields[j], "unique") \/ row[j] = "ID"
        IN  \/ Disturbed(saved.indexer) \/ SharesSchema(saved.indexer)
            \/ ~CaseDistinct(saved.version)
            \/ Len(fields) = 1
            \/ \A j \in DOMAIN fields : Fold(fields[j].name) = "id" => ~IsKeyField(j)
            \/ \E j \in DOMAIN fields : Fold(fields[j].name) # "id" /\ IsKeyField(j)
            \/ \E j \in DOMAIN fields : row[j] \in Oversized \cup Unescaped
=============================================================================

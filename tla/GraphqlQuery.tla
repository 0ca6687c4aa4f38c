---------------------------- MODULE GraphqlQuery -----------------------------
(***************************************************************************)
(* From a GraphQL document to SQL statements: the selections and fragments, *)
(* and the walk over the selections of an operation (fuel-indexer-graphql/  *)
(* src/graphql.rs, queries.rs).                                             *)
(*                                                                          *)
(* A document is [fragments, operation]: fragment definitions [name, cond,  *)
(* items] in their order, and an operation [kind, items]. An item is        *)
(* [field, alias, args, items], [spread] or [inline]. Field names, aliases   *)
(* and tables are lower case but for those that Lowercase changes. One       *)
(* operation is modelled, since those of a document share nothing.          *)
(***************************************************************************)
EXTENDS GraphqlArguments, GraphqlJoins

CONSTANTS
    QueryRoot,    \* schema.query
    JoinKeys,  \* schema.foreign_keys: [table -> [field -> [table, column]]]
    Lowercase,    \* [names with a capital -> their lower-case form]
    Documents

VARIABLES
    document,   \* stage is "fragments", "resolve", "operation", "begin", "walk",
                \* "sort", "unresolved" or "error"
    fragments,  \* fragments without unresolved spreads: name -> [cond, selections]
    pending,    \* to_resolve: [name, cond, selections]
    remaining,  \* those of this pass that still have spreads
    resolved,   \* spreads resolved in this pass
    operation,  \* the operation's selections that are left
    walk,       \* the locals of Operation::parse, for one of them
    statements  \* the SQL statements: [query, joins, columns]

queryVars == <<document, fragments, pending, remaining, resolved, operation, walk, statements, joinVars>>

Lower1(name) == IF name \in DOMAIN Lowercase THEN Lowercase[name] ELSE name

Concat(lists) ==
    LET joined[n \in 0 .. Len(lists)] == IF n = 0 THEN <<>> ELSE joined[n - 1] \o lists[n]
    IN  joined[Len(lists)]

(***************************************************************************)
(* Selections: [has, list], where has tells of spreads at its top level, and *)
(* the elements of list are [field, params, sub, alias] or [spread].         *)
(***************************************************************************)
RECURSIVE SelectionsOf(_, _)
SelectionOf(type, item) ==
    CASE Is("spread", item) -> Ok([spread |-> item.spread])
      [] Is("inline", item) -> Err("SelectionNotSupported")
      [] Is("field", item) /\ ~HasField(type, item.field) -> Err("UnrecognizedField")
      [] OTHER ->
            LET subtype == FieldTypes[type][item.field]
                arguments == [i \in DOMAIN item.args |-> ParseArgument(subtype, item.args[i].arg, item.args[i].value)]
            IN  Then(Collected(arguments), LAMBDA params :
                    Then(SelectionsOf(subtype, item.items), LAMBDA sub :
                        Ok([field |-> item.field, params |-> params, sub |-> sub, alias |-> item.alias])))

SelectionsOf(type, items) ==
    Then(Collected([i \in DOMAIN items |-> SelectionOf(type, items[i])]), LAMBDA list :
        Ok([has |-> \E i \in DOMAIN items : Is("spread", items[i]), list |-> list]))

\* Mutant: a fragment replaces the selections before it.
ResolveReplacing(cond, selections, known) ==
    Ok([selections |-> [has |-> FALSE, list |-> SelectSeq(selections.list, LAMBDA s : Is("field", s))], resolved |-> 1])

\* Selections::resolve_fragments: one pass, in which a spread of a fragment
\* that is not known stays. What is left below a field is not told.
RECURSIVE Resolve(_, _, _)
Resolve(cond, selections, known) ==
    LET One(s) ==
            IF Is("spread", s)
            THEN IF s.spread \notin DOMAIN known THEN Ok([list |-> <<s>>, has |-> TRUE, resolved |-> 0])
                 ELSE IF known[s.spread].cond # cond THEN Err("InvalidFragmentSelection")
                 ELSE Ok([list |-> known[s.spread].selections.list, has |-> FALSE, resolved |-> 1])
            ELSE Then(Resolve(FieldTypes[cond][s.field], s.sub, known), LAMBDA sub :
                    Ok([list |-> <<[s EXCEPT !.sub = sub.selections]>>, has |-> FALSE, resolved |-> 0]))
    IN  Then(Collected([i \in DOMAIN selections.list |-> One(selections.list[i])]), LAMBDA parts :
            Ok([selections |-> [has |-> \E i \in DOMAIN parts : parts[i].has,
                                list |-> Concat([i \in DOMAIN parts |-> parts[i].list])],
                resolved |-> Cardinality({i \in DOMAIN parts : parts[i].resolved = 1})]))

(***************************************************************************)
(* process_fragments.                                                       *)
(***************************************************************************)
NoWalk == [entity |-> "", alias |-> {}, queue |-> <<>>, entities |-> <<>>, lastSeen |-> 0, nested |-> <<>>,
           elements |-> <<>>, params |-> NoParams, root |-> <<>>]

QueryInit ==
    /\ document \in Documents
    /\ JoinsInit
    /\ fragments = Empty
    /\ pending = <<>>
    /\ remaining = <<>>
    /\ resolved = 0
    /\ operation = <<>>
    /\ walk = NoWalk
    /\ statements = <<>>

Fail == stage' = "error"

FragmentOf(definition) ==
    IF definition.cond \notin DOMAIN FieldTypes THEN Err("UnrecognizedType")
    ELSE Then(SelectionsOf(definition.cond, definition.items), LAMBDA selections :
            Ok([name |-> definition.name, cond |-> definition.cond, selections |-> selections]))

\* The definitions: those without spreads are known at once, the last one of a
\* name.
ReadFragments ==
    /\ stage = "fragments"
    /\ \E result \in {Collected([i \in DOMAIN document.fragments |-> FragmentOf(document.fragments[i])])} :
          \/ ~IsOk(result) /\ Fail /\ UNCHANGED <<fragments, pending>>
          \/ /\ IsOk(result)
             /\ LET known == SelectSeq(result.ok, LAMBDA f : ~f.selections.has)
                IN  fragments' = [n \in {known[i].name : i \in DOMAIN known} |->
                                    Last1(SelectSeq(known, LAMBDA f : f.name = n))]
             /\ pending' = SelectSeq(result.ok, LAMBDA f : f.selections.has)
             /\ stage' = "resolve"
    /\ UNCHANGED <<document, remaining, resolved, operation, walk, joins, startNodes, sorted, statements>>

ResolveFragment ==
    /\ stage = "resolve"
    /\ pending # <<>>
    /\ LET frag == Head(pending)
       IN  \E result \in {Resolve(frag.cond, frag.selections, fragments)} :
             \/ ~IsOk(result) /\ Fail /\ UNCHANGED <<fragments, pending, remaining, resolved>>
             \/ /\ IsOk(result)
                /\ resolved' = resolved + result.ok.resolved
                /\ pending' = Tail(pending)
                /\ IF result.ok.selections.has
                   THEN /\ remaining' = Append(remaining, [frag EXCEPT !.selections = result.ok.selections])
                        /\ UNCHANGED fragments
                   ELSE /\ fragments' = Put(fragments, frag.name, [frag EXCEPT !.selections = result.ok.selections])
                        /\ UNCHANGED remaining
                /\ UNCHANGED stage
    /\ UNCHANGED <<document, operation, walk, joins, startNodes, sorted, statements>>

\* A pass that resolved nothing is the last.
EndPass ==
    /\ stage = "resolve"
    /\ pending = <<>>
    /\ IF remaining = <<>> THEN stage' = "operation" /\ UNCHANGED <<pending, resolved>>
       ELSE IF resolved = 0 THEN stage' = "unresolved" /\ UNCHANGED <<pending, resolved>>
       ELSE pending' = remaining /\ resolved' = 0 /\ UNCHANGED stage
    /\ remaining' = <<>>
    /\ UNCHANGED <<document, fragments, operation, walk, joins, startNodes, sorted, statements>>

(***************************************************************************)
(* process_operation: only a named or anonymous `query` has its spreads     *)
(* resolved, the shorthand `{ .. }` has not.                                 *)
(***************************************************************************)
ProcessOperation ==
    /\ stage = "operation"
    /\ LET kind == document.operation.kind
           selections == SelectionsOf(QueryRoot, document.operation.items)
       IN  \E result \in {CASE kind = "query" ->
                                  Then(selections, LAMBDA s :
                                      Then(Resolve(QueryRoot, s, fragments), LAMBDA r : Ok(r.selections)))
                             [] kind = "shorthand" -> selections
                             [] OTHER -> Err("OperationNotSupported")} :
             \/ ~IsOk(result) /\ Fail /\ UNCHANGED operation
             \/ IsOk(result) /\ operation' = result.ok.list /\ stage' = "begin"
    /\ UNCHANGED <<document, fragments, pending, remaining, resolved, walk, joins, startNodes, sorted, statements>>

(***************************************************************************)
(* Operation::parse. queue and entities are stacks of the same length whose *)
(* top is the last element: the selections still to visit and the table     *)
(* each is of. nested is the stack of the tables of the open objects.       *)
(***************************************************************************)
OpenWalk(root) ==
    [NoWalk EXCEPT !.entity = root.field, !.alias = root.alias, !.root = root.sub.list,
                   !.queue = ReverseSeq(root.sub.list),
                   !.entities = [i \in DOMAIN root.sub.list |-> root.field],
                   !.lastSeen = Len(root.sub.list),
                   !.params = AddParams(NoParams, root.params, root.field)]

\* Mutant: the joins of the statement before are kept.
BeginQueryKeeping ==
    /\ stage = "begin"
    /\ operation # <<>>
    /\ walk' = OpenWalk(Head(operation))
    /\ stage' = "walk"
    /\ operation' = Tail(operation)
    /\ UNCHANGED <<joins, startNodes, sorted, document, fragments, pending, remaining, resolved, statements>>

\* A spread that is left is passed over.
BeginQuery ==
    /\ stage = "begin"
    /\ operation # <<>>
    /\ LET root == Head(operation)
       IN  \/ Is("spread", root) /\ UNCHANGED <<walk, joinVars>>
           \/ ~Is("spread", root) /\ walk' = OpenWalk(root) /\ BeginJoins
    /\ operation' = Tail(operation)
    /\ UNCHANGED <<document, fragments, pending, remaining, resolved, statements>>

Key(s) == IF s.alias = {} THEN s.field ELSE CHOOSE a \in s.alias : TRUE

\* The foreign key of a table that a field is, a set of at most one.
ForeignKeyOf(table, field) ==
    IF Lower1(table) \in DOMAIN JoinKeys /\ Lower1(field) \in DOMAIN JoinKeys[Lower1(table)]
    THEN {JoinKeys[Lower1(table)][Lower1(field)]} ELSE {}

Condition(table, field, fk) == [table |-> table, column |-> field, primary |-> fk.table, key |-> fk.column]

VisitLeaf(w, s, table) ==
    [w EXCEPT !.elements = Append(@, [key |-> Key(s), table |-> table, column |-> s.field]),
              !.params = AddParams(@, s.params, table)]

\* The parameters of an object that is no foreign key are dropped.
VisitObject(w, s, table) ==
    LET fks == ForeignKeyOf(table, s.field)
        inner == IF fks = {} THEN s.field ELSE (CHOOSE fk \in fks : TRUE).table
        opened == [w EXCEPT !.queue = @ \o s.sub.list,
                            !.entities = @ \o [i \in DOMAIN s.sub.list |-> inner],
                            !.nested = Append(@, inner),
                            !.elements = Append(@, [open |-> Key(s)])]
    IN  IF fks = {} THEN opened
        ELSE [opened EXCEPT !.params = AddParams(@, s.params, inner)]

\* Mutant: the object that is left is compared with the length before the pop.
LeftWithoutLength(w, table) ==
    IF w.nested # <<>> /\ Last1(w.nested) # table
    THEN [w EXCEPT !.nested = <<>>, !.elements = Append(@, [close |-> TRUE])]
    ELSE w

\* Out of an object into another table: one object is closed.
Left(w, table) ==
    IF w.nested # <<>> /\ Len(w.entities) < w.lastSeen /\ Last1(w.nested) # table
    THEN [w EXCEPT !.nested = Front1(@), !.elements = Append(@, [close |-> TRUE])]
    ELSE w

\* An object that is a foreign key of its table is joined.
IsKey(s, table) == Is("field", s) /\ s.sub.list # <<>> /\ ForeignKeyOf(table, s.field) # {}

Visit ==
    /\ stage = "walk"
    /\ walk.queue # <<>>
    /\ LET current == Last1(walk.queue)
           table == Last1(walk.entities)
           popped == [walk EXCEPT !.queue = Front1(@), !.entities = Front1(@)]
           left == [Left(popped, table) EXCEPT !.lastSeen = Len(popped.entities)]
       IN  /\ walk' = IF Is("spread", current) THEN left
                      ELSE IF current.sub.list = <<>> THEN VisitLeaf(left, current, table)
                      ELSE VisitObject(left, current, table)
           /\ \/ ~IsKey(current, table) /\ UNCHANGED joinVars
              \/ /\ IsKey(current, table)
                 /\ \E fk \in ForeignKeyOf(table, current.field) : AddJoin(Condition(table, current.field, fk))
    /\ UNCHANGED <<document, fragments, pending, remaining, resolved, operation, statements>>

\* The objects that are open at the end are closed; then UserQuery::to_sql.
EndWalk ==
    /\ stage = "walk"
    /\ walk.queue = <<>>
    /\ walk' = [walk EXCEPT !.elements = @ \o [i \in DOMAIN walk.nested |-> [close |-> TRUE]]]
    /\ StartSort
    /\ UNCHANGED <<document, fragments, pending, remaining, resolved, operation, statements>>

\* The columns that a paginated statement takes from its common table
\* expression: what is in an object is passed over, to the end if it is not
\* closed. A key becomes the name of a column without quotes, which Postgres
\* folds to lower case.
JsonSelections(elements) ==
    LET read[n \in 0 .. Len(elements)] ==
            IF n = 0 THEN [level |-> 0, columns |-> {}]
            ELSE LET before == read[n - 1]  e == elements[n]  top == before.level = 0
                 IN CASE Is("open", e) -> [level |-> before.level + 1,
                                           columns |-> before.columns \cup IF top THEN {Lower1(e.open)} ELSE {}]
                      [] Is("close", e) -> [before EXCEPT !.level = IF top THEN 0 ELSE @ - 1]
                      [] OTHER -> IF top THEN [before EXCEPT !.columns = @ \cup {Lower1(e.key)}] ELSE before
    IN  read[Len(elements)].columns

\* Paginated queries must be ordered.
EndSort ==
    /\ EndJoins
    /\ IF walk.params.limit # {} /\ walk.params.sorts = <<>>
       THEN Fail /\ UNCHANGED statements
       ELSE /\ statements' = Append(statements,
                  [query |-> walk, joins |-> Clauses(ReverseSeq(sorted)),
                   columns |-> IF walk.params.limit = {} THEN {} ELSE JsonSelections(walk.elements)])
            /\ stage' = "begin"
    /\ UNCHANGED <<document, fragments, pending, remaining, resolved, operation, walk>>

QueryNext ==
    \/ ReadFragments \/ ResolveFragment \/ EndPass \/ ProcessOperation
    \/ BeginQuery \/ Visit \/ EndWalk \/ EndSort
    \/ /\ \E order \in DependentsOrders : SortStep(order)
       /\ UNCHANGED <<document, fragments, pending, remaining, resolved, operation, walk, statements>>

QuerySpec == QueryInit /\ [][QueryNext]_queryVars

(***************************************************************************)
(* What the statements should select, from the selections and the document. *)
(***************************************************************************)
IsObject(s) == Is("field", s) /\ s.sub.list # <<>>

RECURSIVE PathsOf(_)
PathsOf(list) ==
    UNION {IF IsObject(list[i]) THEN {<<Key(list[i])>> \o p : p \in PathsOf(list[i].sub.list)}
           ELSE {<<Key(list[i])>>} : i \in {k \in DOMAIN list : Is("field", list[k])}}

\* The keys under which the elements put the fields in nested objects.
Paths(elements) ==
    LET read[n \in 0 .. Len(elements)] ==
            IF n = 0 THEN [at |-> <<>>, paths |-> {}]
            ELSE LET before == read[n - 1]  e == elements[n]
                 IN CASE Is("open", e) -> [before EXCEPT !.at = Append(@, e.open)]
                      [] Is("close", e) -> [before EXCEPT !.at = IF @ = <<>> THEN @ ELSE Front1(@)]
                      [] OTHER -> [before EXCEPT !.paths = @ \cup {Append(before.at, e.key)}]
    IN  read[Len(elements)].paths

\* An object is left together with the one around it. The selections of nested
\* objects are visited from the last to the first.
RECURSIVE LeavesTwoAtOnce(_, _)
LeavesTwoAtOnce(list, lastVisited) ==
    \E i \in DOMAIN list :
        /\ IsObject(list[i])
        /\ \/ i # lastVisited /\ IsObject(list[i].sub.list[1])
           \/ LeavesTwoAtOnce(list[i].sub.list, 1)

InnerTable(table, s) ==
    LET fks == ForeignKeyOf(table, s.field)
    IN  IF fks = {} THEN s.field ELSE (CHOOSE fk \in fks : TRUE).table

RECURSIVE NestsItself(_, _)
NestsItself(list, table) ==
    \E i \in DOMAIN list :
        /\ IsObject(list[i])
        /\ \/ InnerTable(table, list[i]) = table
           \/ NestsItself(list[i].sub.list, InnerTable(table, list[i]))

\* The foreign keys that the nested objects follow.
RECURSIVE Followed(_, _)
Followed(list, table) ==
    UNION {{Condition(table, list[i].field, fk) : fk \in ForeignKeyOf(table, list[i].field)}
             \cup Followed(list[i].sub.list, InnerTable(table, list[i])) :
           i \in {k \in DOMAIN list : IsObject(list[k])}}

\* Every nested object is found among the foreign keys. One whose name has a
\* capital is not: the keys are stored as written and looked up in lower case.
RECURSIVE KeysAreFound(_, _)
KeysAreFound(list, table) ==
    \A i \in {k \in DOMAIN list : IsObject(list[k])} :
        /\ ForeignKeyOf(table, list[i].field) # {}
        /\ KeysAreFound(list[i].sub.list, InnerTable(table, list[i]))

\* The document with every spread replaced by its fragment.
RECURSIVE Expanded(_)
Expanded(items) ==
    UNION {IF Is("spread", items[i])
           THEN UNION {Expanded(document.fragments[k].items) :
                         k \in {n \in DOMAIN document.fragments : document.fragments[n].name = items[i].spread}}
           ELSE IF items[i].items = <<>> THEN {<<Key(items[i])>>}
           ELSE {<<Key(items[i])>> \o p : p \in Expanded(items[i].items)} : i \in DOMAIN items}

RECURSIVE Spreads(_)
Spreads(items) ==
    UNION {IF Is("spread", items[i]) THEN {items[i].spread}
           ELSE IF Is("field", items[i]) THEN Spreads(items[i].items) ELSE {} : i \in DOMAIN items}

TopSpreads(items) == {items[i].spread : i \in {k \in DOMAIN items : Is("spread", items[k])}}

RootKey(query) == IF query.alias = {} THEN query.entity ELSE CHOOSE a \in query.alias : TRUE

FragmentNames == {document.fragments[i].name : i \in DOMAIN document.fragments}

(***************************************************************************)
(* Properties.                                                              *)
(***************************************************************************)
\* The JSON object that a statement builds has every selected field in the
\* object it was selected in, at any depth and under its alias, unless two
\* objects are left at once or an object of a table is nested in one of the same
\* table: Operation::parse closes one object per selection, and only if the
\* tables differ. A page has all that is at the top of it under its key, unless
\* one of those keys has a capital: Postgres folds the names of the columns that
\* a page takes, and the key comes out in lower case.
ObjectsNest ==
    \A n \in DOMAIN statements :
        LET query == statements[n].query
        IN  \/ LeavesTwoAtOnce(query.root, Len(query.root))
            \/ NestsItself(query.root, query.entity)
            \/ /\ Paths(query.elements) = PathsOf(query.root)
               /\ LET keys == {p[1] : p \in PathsOf(query.root)}
                  IN  query.params.limit # {} /\ (\A key \in keys : Lower1(key) = key) => statements[n].columns = keys

\* Whatever the order of the HashMaps, a statement joins each table once, after
\* the tables its condition speaks of, and joins every table it selects from;
\* and each foreign key that was followed is a condition, unless two keys of one
\* table refer to the same table. Two kinds of statement are excepted: one whose
\* foreign keys lead back to a table, which the sort leaves out, and one with an
\* object whose field has a capital, which the code does not find among the
\* foreign keys: it selects from a table that it never joins.
JoinsInOrder ==
    \A n \in DOMAIN statements :
        LET query == statements[n].query
            clauses == statements[n].joins
            followed == Followed(query.root, query.entity)
            known(k) == {query.entity} \cup {clauses[m].table : m \in 1 .. k}
        IN  KeysAreFound(query.root, query.entity) /\ IsAcyclic(followed) =>
                /\ \A k \in DOMAIN clauses : /\ clauses[k].table \notin known(k - 1)
                                           /\ \A c \in clauses[k].on : c.table \in known(k - 1)
                /\ \A i \in DOMAIN query.elements :
                      Is("key", query.elements[i]) => query.elements[i].table \in known(Len(clauses))
                /\ \A c \in followed :
                      \/ c \in UNION {clauses[k].on : k \in DOMAIN clauses}
                      \/ \E d \in followed : d # c /\ d.table = c.table /\ d.primary = c.primary

\* Fragments may use one another in any order: the passes give up only on a
\* fragment that is not there or that leads back to itself, and otherwise every
\* field that a spread stands for is selected, if no two fragments have one name,
\* the spread is not below a field of a fragment and the operation is not a
\* shorthand. (A spread below a field whose type has a `!` is an error: the
\* fragment's type is compared with the field's as it is written.)
SpreadsExpanded ==
    /\ stage = "unresolved" =>
          \E S \in SUBSET FragmentNames :
              /\ S # {}
              /\ \A i \in DOMAIN document.fragments : document.fragments[i].name \in S =>
                    TopSpreads(document.fragments[i].items) \cap S # {} \/ ~(TopSpreads(document.fragments[i].items) \subseteq FragmentNames)
    /\ stage = "begin" /\ operation = <<>> =>
          LET items == document.operation.items
          IN  \/ ~(Spreads(items) \subseteq FragmentNames)
              \/ document.operation.kind = "shorthand" /\ Spreads(items) # {}
              \/ Cardinality(FragmentNames) < Len(document.fragments)
              \/ \E i \in DOMAIN document.fragments :
                    Spreads(document.fragments[i].items) # TopSpreads(document.fragments[i].items)
              \/ Expanded(items) =
                    UNION {{<<RootKey(statements[n].query)>> \o p : p \in PathsOf(statements[n].query.root)} :
                             n \in DOMAIN statements}
=============================================================================

---------------------------- MODULE GraphqlJoins -----------------------------
(***************************************************************************)
(* The joins of a SQL statement: the graph of tables that Operation::parse  *)
(* makes of the foreign keys it follows (fuel-indexer-graphql/src/          *)
(* graphql.rs), its sort, and the clauses that are made of it (queries.rs). *)
(*                                                                          *)
(* A condition says that a column of `table` equals the key of `primary`.   *)
(* A node of the graph maps the tables that a table refers to, and those    *)
(* that refer to it, to the condition between the two. HashMaps are         *)
(* iterated in any order, which makes the sort nondeterministic.            *)
(***************************************************************************)
EXTENDS Integers, Sequences, FiniteSets

VARIABLES
    stage,      \* of the query; here, "begin", "walk" and "sort" matter
    joins,      \* UserQuery::joins: table -> [dependencies, dependents]
    startNodes, \* locals of get_topologically_sorted_joins
    sorted

joinVars == <<stage, joins, startNodes, sorted>>

Conditions == [table : STRING, column : STRING, primary : STRING, key : STRING]

Empty == [k \in {} |-> {}]
Put(map, key, value) == [k \in DOMAIN map \cup {key} |-> IF k = key THEN value ELSE map[k]]
Without(map, key) == [k \in DOMAIN map \ {key} |-> map[k]]

Last1(s) == s[Len(s)]
Front1(s) == SubSeq(s, 1, Len(s) - 1)
ReverseSeq(s) == [i \in DOMAIN s |-> s[Len(s) + 1 - i]]

\* The sequences a set can be iterated in.
Orders(S) ==
    {s \in [1 .. Cardinality(S) -> S] :
        /\ \A i, j \in DOMAIN s : i # j => s[i] # s[j]
        /\ \A x \in S : \E i \in DOMAIN s : s[i] = x}

\* The one of them in which the members of S come as they do in s.
Along(S, s) ==
    {q \in Orders(S) : \A i, j \in DOMAIN q : i < j =>
        \E k, l \in DOMAIN s : k < l /\ s[k] = q[i] /\ s[l] = q[j]}

(***************************************************************************)
(* The graph.                                                               *)
(***************************************************************************)
NoJoin == [dependencies |-> Empty, dependents |-> Empty]
NodeOf(g, table) == IF table \in DOMAIN g THEN g[table] ELSE NoJoin

\* One condition for two tables: a second one replaces it.
Join(g, c) ==
    LET from == NodeOf(g, c.table)
        with == Put(g, c.table, [dependencies |-> Put(from.dependencies, c.primary, c),
                                 dependents |-> from.dependents])
        to == NodeOf(with, c.primary)
    IN  Put(with, c.primary, [dependencies |-> to.dependencies,
                              dependents |-> Put(to.dependents, c.table, c)])

\* The conditions of a graph.
ConditionsOf(g) == UNION {{g[p].dependents[t] : t \in DOMAIN g[p].dependents} : p \in DOMAIN g}

BeginJoins ==
    /\ stage = "begin"
    /\ stage' = "walk"
    /\ joins' = Empty
    /\ UNCHANGED <<startNodes, sorted>>

AddJoin(c) ==
    /\ stage = "walk"
    /\ joins' = Join(joins, c)
    /\ UNCHANGED <<stage, startNodes, sorted>>

(***************************************************************************)
(* get_topologically_sorted_joins.                                          *)
(***************************************************************************)
StartSort ==
    /\ stage = "walk"
    /\ startNodes' \in Orders({t \in DOMAIN joins : DOMAIN joins[t].dependencies = {}})
    /\ sorted' = <<>>
    /\ stage' = "sort"
    /\ UNCHANGED joins

\* The tables that lose their dependency on the current one.
Freed(current) == {t \in DOMAIN joins[current].dependents : current \in DOMAIN joins[t].dependencies}

\* Mutant: a table is started from while it still depends on others.
SortStepEager(order) ==
    /\ stage = "sort"
    /\ startNodes # <<>>
    /\ LET current == Last1(startNodes)
           freed == Freed(current)
       IN  \E kept \in Along(freed, order) :
             /\ sorted' = sorted \o [i \in DOMAIN kept |-> joins[kept[i]].dependencies[current]]
             /\ startNodes' = Front1(startNodes) \o kept
             /\ joins' = [t \in DOMAIN joins |->
                            IF t \in freed
                            THEN [dependencies |-> Without(joins[t].dependencies, current),
                                  dependents |-> joins[t].dependents]
                            ELSE joins[t]]
    /\ UNCHANGED stage

\* The tables that refer to the current one, in the order its map has them,
\* lose a dependency; those without another are next.
SortStep(order) ==
    /\ stage = "sort"
    /\ startNodes # <<>>
    /\ LET current == Last1(startNodes)
           freed == Freed(current)
       IN  \E kept \in Along(freed, order) :
             /\ sorted' = sorted \o [i \in DOMAIN kept |-> joins[kept[i]].dependencies[current]]
             /\ \E next \in Along({t \in freed : DOMAIN joins[t].dependencies = {current}}, kept) :
                   startNodes' = Front1(startNodes) \o next
             /\ joins' = [t \in DOMAIN joins |->
                            IF t \in freed
                            THEN [dependencies |-> Without(joins[t].dependencies, current),
                                  dependents |-> joins[t].dependents]
                            ELSE joins[t]]
    /\ UNCHANGED stage

DependentsOrders ==
    IF stage = "sort" /\ startNodes # <<>>
    THEN Orders(DOMAIN joins[Last1(startNodes)].dependents) ELSE {}

\* The statement is made, or is an error.
EndJoins ==
    /\ stage = "sort"
    /\ startNodes = <<>>
    /\ stage' \in {"begin", "error"}
    /\ UNCHANGED <<joins, startNodes, sorted>>

(***************************************************************************)
(* UserQuery::to_sql.                                                       *)
(***************************************************************************)
\* Mutant: a clause for every condition.
WithClauseApart(clauses, c) == Append(clauses, [table |-> c.primary, on |-> {c}])

\* `INNER JOIN primary ON c AND c ..`: neighbours with one primary table share
\* a clause.
WithClause(clauses, c) ==
    IF clauses # <<>> /\ Last1(clauses).table = c.primary
    THEN Append(Front1(clauses), [table |-> c.primary, on |-> Last1(clauses).on \cup {c}])
    ELSE Append(clauses, [table |-> c.primary, on |-> {c}])

Clauses(conditions) ==
    LET clauses[n \in 0 .. Len(conditions)] ==
            IF n = 0 THEN <<>> ELSE WithClause(clauses[n - 1], conditions[n])
    IN  clauses[Len(conditions)]

(***************************************************************************)
(* The joins of all statements of a document, one after another.            *)
(***************************************************************************)
\* Fragments are read, queries begun and errors returned.
NoJoins ==
    /\ stage \notin {"walk", "sort"}
    /\ stage' \notin {"walk", "sort"}
    /\ UNCHANGED <<joins, startNodes, sorted>>

JoinsInit ==
    /\ stage = "fragments"
    /\ joins = Empty
    /\ startNodes = <<>>
    /\ sorted = <<>>

\* The new condition is one of those that the graph has then.
AddsJoin == \E c \in ConditionsOf(joins') \cap Conditions : AddJoin(c)

JoinsNext ==
    \/ NoJoins \/ BeginJoins \/ AddsJoin \/ StartSort \/ EndJoins
    \/ \E order \in DependentsOrders : SortStep(order)

\* A statement starts with an empty graph, foreign keys are added only on the
\* walk, and the sort goes on, in some order of the HashMaps, until nothing is
\* left to start from. This is all that the sort relies on.
JoinsSpec == JoinsInit /\ [][JoinsNext]_joinVars

(***************************************************************************)
(* Properties.                                                              *)
(***************************************************************************)
TablesOf(conditions) == {c.table : c \in conditions} \cup {c.primary : c \in conditions}

\* Of any tables, one does not refer to another of them.
IsAcyclic(conditions) ==
    \A S \in SUBSET TablesOf(conditions) : S # {} =>
        \E t \in S : \A c \in conditions : c.table = t => c.primary \notin S

\* Whatever the order of the HashMaps, once nothing is left to start from the
\* clauses have every condition of an acyclic graph, each in the one clause of
\* its primary table, and behind the clause of the table it refers from, unless
\* nothing refers to that one.
JoinsSorted ==
    stage = "sort" /\ startNodes = <<>> /\ IsAcyclic(ConditionsOf(joins)) =>
        LET clauses == Clauses(ReverseSeq(sorted))
            known(k) == {clauses[m].table : m \in 1 .. k}
        IN  /\ UNION {clauses[k].on : k \in DOMAIN clauses} = ConditionsOf(joins)
            /\ \A k \in DOMAIN clauses :
                  /\ clauses[k].table \notin known(k - 1)
                  /\ \A c \in clauses[k].on :
                        /\ c.primary = clauses[k].table
                        /\ c.table \in known(k - 1) \/ \A d \in ConditionsOf(joins) : d.primary # c.table
=============================================================================

---------------------------- MODULE GraphqlPages -----------------------------
(***************************************************************************)
(* A client that reads the rows of an entity page by page: the query with a *)
(* limit that UserQuery::create_query_with_pageinfo makes                   *)
(* (fuel-indexer-graphql/src/queries.rs) and the page_info in its answer,   *)
(* while an executor goes on committing rows.                               *)
(*                                                                          *)
(* The rows are those that the filter of the query keeps. A commit is an     *)
(* upsert by id: it adds a row anywhere in the order, moves one, or changes  *)
(* one so that the filter no longer keeps it. Rows are never deleted.        *)
(***************************************************************************)
EXTENDS Integers, Sequences, FiniteSets

CONSTANTS
    RowIds,    \* bound on the rows
    SortKeys,  \* values of the field sorted by
    PageSizes  \* values of `first`

ASSUME PagesAssumption == IsFiniteSet(RowIds) /\ SortKeys \subseteq Int /\ PageSizes \subseteq Nat

VARIABLES
    rows,       \* committed rows: [ids -> values of the field sorted by]
    sort,       \* "asc" or "desc"
    limit,      \* the client's `first`
    offset,     \* the client's next `offset`
    client,     \* "reading", "finished" or "failed"
    got,        \* the rows it got, in their order
    lastPage,   \* page_info of the last answer
    disturbed,  \* history: a row got was saved again, one was saved that does not
                \* come after those got, or a page was taken of rows with ties
    left        \* history: the filter no longer keeps some row

pageVars == <<rows, sort, limit, offset, client, got, lastPage, disturbed, left>>

NoPage == [has_next_page |-> TRUE, pages |-> 0, total_count |-> 0]

PagesInit ==
    /\ rows \in UNION {[ids -> SortKeys] : ids \in SUBSET RowIds}
    /\ sort \in {"asc", "desc"}
    /\ limit \in PageSizes
    /\ offset = 0
    /\ client = "reading"
    /\ got = <<>>
    /\ lastPage = NoPage
    /\ disturbed = FALSE
    /\ left = FALSE

KeyBefore(k, l) == IF sort = "asc" THEN k < l ELSE k > l

IsBefore(r, s) == KeyBefore(rows[r], rows[s])

GotRows == {got[i] : i \in DOMAIN got}

HasTies == \E r, s \in DOMAIN rows : r # s /\ rows[r] = rows[s]

\* What ORDER BY allows: Postgres may put equal rows in another order each time.
Sorted ==
    {s \in [1 .. Cardinality(DOMAIN rows) -> DOMAIN rows] :
        /\ \A r \in DOMAIN rows : \E i \in DOMAIN s : s[i] = r
        /\ \A i, j \in DOMAIN s : i < j => s[i] # s[j] /\ ~IsBefore(s[j], s[i])}

\* Mutant: the page after a full last page.
PageInfoInclusive(count) ==
    [has_next_page |-> limit + offset <= count,
     pages |-> (count + limit - 1) \div limit, total_count |-> count]

PageInfo(count) ==
    [has_next_page |-> limit + offset < count,
     pages |-> (count + limit - 1) \div limit, total_count |-> count]

Smaller(a, b) == IF a < b THEN a ELSE b

\* LIMIT and OFFSET of one result of the common table expression.
RequestPage ==
    /\ client = "reading"
    /\ limit > 0
    /\ \E s \in Sorted : got' = got \o SubSeq(s, offset + 1, Smaller(offset + limit, Len(s)))
    /\ lastPage' = PageInfo(Cardinality(DOMAIN rows))
    /\ offset' = offset + limit
    /\ client' = IF lastPage'.has_next_page THEN "reading" ELSE "finished"
    /\ disturbed' = (disturbed \/ HasTies)
    /\ UNCHANGED <<rows, sort, limit, left>>

\* `pages` divides by the limit.
DivisionByZero ==
    /\ client = "reading"
    /\ limit = 0
    /\ client' = "failed"
    /\ UNCHANGED <<rows, sort, limit, offset, got, lastPage, disturbed, left>>

\* An upsert whose row the filter keeps.
SaveRow(id, key) ==
    /\ client = "reading"
    /\ rows' = [r \in DOMAIN rows \cup {id} |-> IF r = id THEN key ELSE rows[r]]
    /\ disturbed' = (\/ disturbed
                     \/ id \in GotRows
                     \/ \E r \in GotRows \cap DOMAIN rows : ~KeyBefore(rows[r], key))
    /\ UNCHANGED <<sort, limit, offset, client, got, lastPage, left>>

\* An upsert of a row that the filter kept and keeps no longer.
LoseRow(id) ==
    /\ client = "reading"
    /\ id \in DOMAIN rows
    /\ rows' = [r \in DOMAIN rows \ {id} |-> rows[r]]
    /\ disturbed' = (disturbed \/ id \in GotRows)
    /\ left' = TRUE
    /\ UNCHANGED <<sort, limit, offset, client, got, lastPage>>

PagesNext ==
    \/ RequestPage
    \/ DivisionByZero
    \/ \E id \in RowIds, key \in SortKeys : SaveRow(id, key)
    \/ \E id \in RowIds : LoseRow(id)

PagesSpec == PagesInit /\ [][PagesNext]_pageVars

(***************************************************************************)
(* Properties.                                                              *)
(***************************************************************************)
\* A client that asks for page after page until has_next_page is false gets every
\* row once and in order, and as many pages as page_info says unless rows left the
\* filter, although rows are committed in between: if none of the rows it got is
\* saved again, every row saved comes behind those it got, and no two rows are
\* equal in the field sorted by when it asks. Offsets count from the first row, so
\* any other commit makes it miss rows or get them twice.
PagesCoverRows ==
    ~disturbed =>
        /\ \A i, j \in DOMAIN got : i < j => IsBefore(got[i], got[j])
        /\ \A r \in DOMAIN rows \ GotRows : \A i \in DOMAIN got : IsBefore(got[i], r)
        /\ client = "finished" =>
              /\ GotRows = DOMAIN rows
              /\ lastPage.total_count = Len(got)
              /\ left \/ offset = limit * (IF lastPage.pages = 0 THEN 1 ELSE lastPage.pages)
=============================================================================

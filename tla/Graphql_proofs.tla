---------------------------- MODULE Graphql_proofs -----------------------------
(* Proofs about GraphqlPages and GraphqlJoins: a client whose pages no commit *)
(* disturbs gets every row once and in order, and asks as many times as       *)
(* page_info says; the sort of the joins is topological, and its clauses are  *)
(* in that order.                                                             *)
EXTENDS GraphqlPages, GraphqlJoins, FiniteSetTheorems, WellFoundedInduction, SequenceTheorems, TLAPS

-----------------------------------------------------------------------------
(* What ORDER BY leaves of the order of rows.                               *)

(* A set of numbers has a least one.                                        *)
LEMMA LeastNumber ==
    ASSUME NEW S, S \subseteq Nat, S # {}
    PROVE  \E m \in S : \A k \in S : ~(k < m)
<1>1. PICK m \in S : \A k \in S : ~(<<k, m>> \in OpToRel(<, Nat))
  BY WFMin, NatLessThanWellFounded, Zenon
<1>2. \A k \in S : ~(k < m)
  BY <1>1, Zenon DEF OpToRel
<1> QED
  BY <1>2

Total == Cardinality(DOMAIN rows)

RowsOK ==
    /\ IsFiniteSet(DOMAIN rows)
    /\ \A r \in DOMAIN rows : rows[r] \in Int
    /\ sort \in {"asc", "desc"}

(* n rows in their order, which come before all the others.                 *)
IsStart(q, n) ==
    /\ n \in Nat
    /\ q \in [1 .. n -> DOMAIN rows]
    /\ \A i, j \in 1 .. n : i < j => IsBefore(q[i], q[j])
    /\ \A r \in DOMAIN rows : (\E i \in 1 .. n : q[i] = r) \/ \A i \in 1 .. n : IsBefore(q[i], r)

(* The order is strict, and total without ties.                             *)
LEMMA StrictOrder ==
    ASSUME RowsOK, NEW r \in DOMAIN rows, NEW s \in DOMAIN rows
    PROVE  /\ ~IsBefore(r, r)
           /\ IsBefore(r, s) => ~IsBefore(s, r)
           /\ ~HasTies /\ r # s /\ ~IsBefore(s, r) => IsBefore(r, s)
<1>1. rows[r] \in Int /\ rows[s] \in Int /\ sort \in {"asc", "desc"}
  BY DEF RowsOK
<1>2. CASE sort = "asc"
  BY <1>1, <1>2 DEF IsBefore, KeyBefore, HasTies
<1>3. CASE sort = "desc"
  BY <1>1, <1>3 DEF IsBefore, KeyBefore, HasTies
<1> QED
  BY <1>1, <1>2, <1>3

LEMMA SortedIs ==
    ASSUME RowsOK, ~HasTies, NEW s \in Sorted
    PROVE  /\ Total \in Nat
           /\ s \in [1 .. Total -> DOMAIN rows]
           /\ \A r \in DOMAIN rows : \E i \in 1 .. Total : s[i] = r
           /\ \A i, j \in 1 .. Total : i < j => s[i] # s[j] /\ IsBefore(s[i], s[j])
<1>1. Total \in Nat
  BY FS_CardinalityType DEF Total, RowsOK
<1>2. s \in [1 .. Total -> DOMAIN rows] /\ DOMAIN s = 1 .. Total
  BY DEF Sorted, Total
<1>3. /\ \A r \in DOMAIN rows : \E i \in 1 .. Total : s[i] = r
      /\ \A i, j \in 1 .. Total : i < j => s[i] # s[j] /\ ~IsBefore(s[j], s[i])
  BY <1>2 DEF Sorted
<1>4. ASSUME NEW i \in 1 .. Total, NEW j \in 1 .. Total, i < j PROVE IsBefore(s[i], s[j])
  <2>1. s[i] \in DOMAIN rows /\ s[j] \in DOMAIN rows
    BY <1>2
  <2>2. s[i] # s[j] /\ ~IsBefore(s[j], s[i])
    BY <1>3, <1>4
  <2> QED
    BY <2>1, <2>2, StrictOrder
<1> QED
  BY <1>1, <1>2, <1>3, <1>4

(* A start of the rows is a start of what ORDER BY gives, since there is     *)
(* only one order to choose.                                                *)
LEMMA StartsAgree ==
    ASSUME RowsOK, ~HasTies, NEW s \in Sorted, NEW q, NEW o, IsStart(q, o)
    PROVE  o <= Total /\ \A i \in 1 .. o : q[i] = s[i]
<1>1. o \in Nat /\ q \in [1 .. o -> DOMAIN rows]
  BY DEF IsStart
<1>2. ASSUME NEW i \in 1 .. o, NEW j \in 1 .. o, i < j PROVE q[i] # q[j] /\ IsBefore(q[i], q[j])
  <2>1. q[i] \in DOMAIN rows /\ IsBefore(q[i], q[j])
    BY <1>1, <1>2 DEF IsStart
  <2> QED
    BY <2>1, StrictOrder
<1>3. o <= Total
  <2>1. ASSUME NEW i \in 1 .. o, NEW j \in 1 .. o, q[i] = q[j] PROVE i = j
    BY <1>2, <2>1
  <2>2. q \in Injection(1 .. o, DOMAIN rows)
    BY <1>1, <2>1 DEF Injection, IsInjective
  <2>3. Cardinality(1 .. o) <= Total
    BY <2>2, FS_Injection DEF RowsOK, Total
  <2>4. Cardinality(1 .. o) = o
    BY <1>1, FS_Interval
  <2> QED
    BY <2>3, <2>4
<1> DEFINE Off == {i \in 1 .. o : q[i] # s[i]}
<1>4. Off = {}
  <2> SUFFICES ASSUME Off # {} PROVE FALSE
    OBVIOUS
  <2>1. PICK m \in Off : \A k \in Off : ~(k < m)
    <3>1. Off \subseteq Nat
      BY <1>1
    <3> QED
      BY <3>1, LeastNumber
  <2>2. m \in 1 .. o /\ m \in 1 .. Total /\ q[m] # s[m]
    BY <1>1, <1>3, <2>1, SortedIs
  <2>3. \A k \in 1 .. o : k < m => q[k] = s[k]
    BY <2>1
  <2> HIDE DEF Off
  <2>4. PICK j \in 1 .. Total : s[j] = q[m]
    <3>1. q[m] \in DOMAIN rows
      BY <1>1, <2>2
    <3> QED
      BY <3>1, SortedIs
  <2>5. m < j
    <3>1. m # j
      BY <2>2, <2>4
    <3>2. ASSUME j < m PROVE FALSE
      <4>1. j \in 1 .. o /\ q[j] = s[j]
        BY <1>1, <2>2, <2>3, <3>2, SortedIs
      <4> QED
        BY <1>2, <2>2, <2>4, <3>2, <4>1
    <3> QED
      BY <1>1, <2>2, <3>1, <3>2, SortedIs
  <2>6. s[m] \in DOMAIN rows /\ q[m] \in DOMAIN rows /\ IsBefore(s[m], q[m])
    BY <1>1, <2>2, <2>4, <2>5, SortedIs
  <2>7. ~IsBefore(q[m], s[m])
    BY <2>6, StrictOrder
  <2>8. PICK k \in 1 .. o : q[k] = s[m]
    BY <2>2, <2>6, <2>7 DEF IsStart
  <2>9. ~(k < m)
    <3>1. ASSUME k < m PROVE FALSE
      <4>1. s[k] = s[m] /\ k \in 1 .. Total
        BY <1>1, <1>3, <2>3, <2>8, <3>1, SortedIs
      <4> QED
        BY <2>2, <3>1, <4>1, SortedIs
    <3> QED
      BY <3>1
  <2>10. k # m
    BY <2>2, <2>8
  <2>11. m < k
    BY <1>1, <2>2, <2>9, <2>10
  <2> QED
    BY <1>2, <2>2, <2>7, <2>8, <2>11
<1> QED
  BY <1>3, <1>4

-----------------------------------------------------------------------------
(* The number of pages that page_info divides out.                          *)

LEMMA PagesUpTo ==
    ASSUME NEW l \in Nat \ {0}, NEW q \in Nat, NEW count \in Nat, l * q < count, count <= l * q + l
    PROVE  (count + l - 1) \div l = q + 1
<1> DEFINE x == count + l - 1
           d == x \div l
<1>1. x \in Nat /\ l * q + l <= x /\ x < l * q + l + l
  OBVIOUS
<1>2. d \in Int /\ l * d <= x /\ x < l * d + l
  OBVIOUS
<1>3. ~(d <= q)
  <2>1. d <= q => l * d <= l * q
    BY <1>2
  <2> QED
    BY <1>1, <1>2, <2>1
<1>4. ~(d >= q + 2)
  <2>1. d >= q + 2 => l * d >= l * (q + 2)
    BY <1>2
  <2>2. l * (q + 2) = l * q + l + l
    OBVIOUS
  <2> QED
    BY <1>1, <1>2, <2>1, <2>2
<1> QED
  BY <1>2, <1>3, <1>4

-----------------------------------------------------------------------------
(* The next page of a start is a start.                                     *)

WithPage(q, o, s, e) == q \o SubSeq(s, o + 1, e)

LEMMA NextStart ==
    ASSUME RowsOK, ~HasTies, NEW s \in Sorted, NEW q, NEW o, IsStart(q, o),
           NEW e \in Nat, o <= e, e <= Total
    PROVE  /\ Len(WithPage(q, o, s, e)) = e
           /\ IsStart(WithPage(q, o, s, e), e)
           /\ \A i \in 1 .. e : WithPage(q, o, s, e)[i] = s[i]
<1> DEFINE piece == SubSeq(s, o + 1, e)
           joined == q \o piece
<1>1. /\ o \in Nat /\ q \in [1 .. o -> DOMAIN rows]
      /\ \A i \in 1 .. o : q[i] = s[i]
  BY StartsAgree DEF IsStart
<1>2. Total \in Nat /\ s \in [1 .. Total -> DOMAIN rows]
  BY SortedIs
<1>3. /\ piece \in Seq(DOMAIN rows)
      /\ Len(piece) = IF o + 1 <= e THEN e - (o + 1) + 1 ELSE 0
      /\ \A i \in 1 .. e - (o + 1) + 1 : piece[i] = s[o + 1 + i - 1]
  <2>1. \A i \in o + 1 .. e : s[i] \in DOMAIN rows
    BY <1>1, <1>2
  <2>2. o + 1 \in Int /\ e \in Int
    BY <1>1
  <2> HIDE DEF piece
  <2> QED
    BY <2>1, <2>2, SubSeqProperties DEF piece
<1>4. q \in Seq(DOMAIN rows) /\ Len(q) = o
  BY <1>1
<1> HIDE DEF piece
<1>5. Len(piece) = e - o /\ \A i \in 1 .. e - o : piece[i] = s[o + i]
  BY <1>1, <1>3
<1>6. /\ joined \in Seq(DOMAIN rows) /\ Len(joined) = Len(q) + Len(piece)
      /\ \A i \in 1 .. Len(q) + Len(piece) : joined[i] = IF i <= Len(q) THEN q[i] ELSE piece[i - Len(q)]
  BY <1>3, <1>4, ConcatProperties, Zenon
<1> HIDE DEF joined
<1>7. Len(joined) = e /\ joined \in [1 .. e -> DOMAIN rows]
  BY <1>1, <1>4, <1>5, <1>6
<1>8. ASSUME NEW i \in 1 .. e PROVE joined[i] = s[i]
  <2>1. i \in 1 .. Len(q) + Len(piece)
    BY <1>1, <1>4, <1>5
  <2>2. CASE i <= o
    BY <1>1, <1>4, <1>6, <2>1, <2>2
  <2>3. CASE ~(i <= o)
    <3>1. i - o \in 1 .. e - o /\ o + (i - o) = i
      BY <1>1, <2>3
    <3> QED
      BY <1>4, <1>5, <1>6, <2>1, <2>3, <3>1
  <2> QED
    BY <1>1, <2>2, <2>3
<1>9. ASSUME NEW i \in 1 .. e, NEW j \in 1 .. e, i < j PROVE IsBefore(joined[i], joined[j])
  <2>1. i \in 1 .. Total /\ j \in 1 .. Total
    BY <1>2
  <2>2. IsBefore(s[i], s[j])
    BY <1>9, <2>1, SortedIs
  <2> QED
    BY <1>8, <2>2
<1>10. ASSUME NEW r \in DOMAIN rows
       PROVE  (\E i \in 1 .. e : joined[i] = r) \/ \A i \in 1 .. e : IsBefore(joined[i], r)
  <2>1. PICK j \in 1 .. Total : s[j] = r
    BY SortedIs
  <2>2. CASE j <= e
    <3>1. j \in 1 .. e
      BY <1>2, <2>2
    <3> QED
      BY <1>8, <2>1, <3>1
  <2>3. CASE ~(j <= e)
    <3>1. ASSUME NEW i \in 1 .. e PROVE IsBefore(joined[i], r)
      <4>1. i \in 1 .. Total /\ i < j
        BY <1>2, <2>3
      <4> QED
        BY <1>8, <2>1, <4>1, SortedIs
    <3> QED
      BY <3>1
  <2> QED
    BY <2>2, <2>3
<1>11. IsStart(joined, e)
  BY <1>7, <1>9, <1>10 DEF IsStart
<1> QED
  BY <1>7, <1>8, <1>11 DEF joined, piece, WithPage

-----------------------------------------------------------------------------
(* The invariant: while the client reads and nothing disturbs it, it has the *)
(* rows up to its offset, which is a number of whole pages and, after the    *)
(* first, not yet all rows unless some left the filter.                      *)

ReadInOrder ==
    /\ IsStart(got, Len(got))
    /\ \E q \in Nat : offset = limit * q
    /\ client = "reading" => Len(got) = offset /\ (left \/ offset = 0 \/ offset < Total)
    /\ client = "finished" => /\ GotRows = DOMAIN rows
                              /\ lastPage.total_count = Len(got)
                              /\ left \/ offset = limit * (IF lastPage.pages = 0 THEN 1 ELSE lastPage.pages)

PagesInv ==
    /\ RowsOK
    /\ limit \in Nat /\ offset \in Nat
    /\ disturbed \in BOOLEAN /\ left \in BOOLEAN
    /\ ~disturbed => ReadInOrder

LEMMA PagesInvInit == PagesInit => PagesInv
<1> SUFFICES ASSUME PagesInit PROVE PagesInv
  OBVIOUS
<1>1. limit \in Nat /\ offset = 0 /\ got = <<>> /\ client = "reading" /\ disturbed = FALSE /\ left = FALSE
  BY PagesAssumption DEF PagesInit
<1>2. PICK ids \in SUBSET RowIds : rows \in [ids -> SortKeys]
  BY DEF PagesInit
<1>3. DOMAIN rows = ids /\ IsFiniteSet(ids) /\ \A r \in ids : rows[r] \in Int
  BY <1>2, PagesAssumption, FS_Subset
<1>4. RowsOK
  BY <1>3 DEF RowsOK, PagesInit
<1>5. Len(<<>>) = 0 /\ <<>> \in [1 .. 0 -> DOMAIN rows] /\ 0 = limit * 0
  BY <1>1
<1>6. IsStart(got, Len(got))
  BY <1>1, <1>5 DEF IsStart
<1>7. ReadInOrder
  BY <1>1, <1>5, <1>6 DEF ReadInOrder
<1> QED
  BY <1>1, <1>4, <1>7 DEF PagesInv

LEMMA RequestInOrder ==
    ASSUME PagesInv, ~disturbed, ~HasTies, RequestPage
    PROVE  ReadInOrder'
<1> DEFINE e == Smaller(offset + limit, Total)
<1>1. limit \in Nat \ {0} /\ offset \in Nat /\ client = "reading" /\ ReadInOrder /\ RowsOK
  BY DEF PagesInv, RequestPage
<1>2. IsStart(got, offset) /\ (left \/ offset = 0 \/ offset < Total)
  BY <1>1 DEF ReadInOrder
<1>3. PICK s \in Sorted : got' = got \o SubSeq(s, offset + 1, Smaller(offset + limit, Len(s)))
  BY DEF RequestPage
<1>4. Total \in Nat /\ Len(s) = Total /\ offset <= Total
  BY <1>1, <1>2, SortedIs, StartsAgree
<1>5. e \in Nat /\ offset <= e /\ e <= Total /\ (offset + limit < Total => e = offset + limit)
      /\ (~(offset + limit < Total) => e = Total)
  BY <1>1, <1>4 DEF Smaller
<1>6. got' = got \o SubSeq(s, offset + 1, e)
  BY <1>3, <1>4
<1> HIDE DEF e
<1>7. Len(got') = e /\ IsStart(got', e) /\ \A i \in 1 .. e : got'[i] = s[i]
  <2>1. offset <= e /\ e <= Total /\ e \in Nat /\ RowsOK /\ IsStart(got, offset)
    BY <1>1, <1>2, <1>5
  <2>2. PICK all : all = WithPage(got, offset, s, e)
    OBVIOUS
  <2>3. Len(all) = e /\ IsStart(all, e) /\ \A i \in 1 .. e : all[i] = s[i]
    BY <2>1, <2>2, NextStart
  <2>4. got' = all
    BY <1>6, <2>2 DEF WithPage
  <2> QED
    BY <2>3, <2>4 DEF IsStart
<1>8. /\ rows' = rows /\ sort' = sort /\ limit' = limit /\ left' = left
      /\ offset' = offset + limit /\ lastPage' = PageInfo(Total)
      /\ client' = IF lastPage'.has_next_page THEN "reading" ELSE "finished"
  BY DEF RequestPage, Total
<1>9. IsStart(got, Len(got))' /\ Total' = Total
  BY <1>7, <1>8 DEF IsStart, IsBefore, KeyBefore, Total
<1>10. PICK q \in Nat : offset = limit * q
  BY <1>1 DEF ReadInOrder
<1>11. q + 1 \in Nat /\ offset' = limit * (q + 1)
  BY <1>1, <1>8, <1>10
<1>12. /\ lastPage'.total_count = Total
       /\ lastPage'.pages = (Total + limit - 1) \div limit
       /\ lastPage'.has_next_page = (limit + offset < Total)
  BY <1>8, Zenon DEF PageInfo
<1>13. CASE limit + offset < Total
  <2>1. e = offset + limit
    BY <1>1, <1>4, <1>5, <1>13
  <2>2. client' = "reading"
    BY <1>8, <1>12, <1>13, Zenon
  <2>3. Len(got') = offset' /\ offset' < Total'
    BY <1>1, <1>4, <1>7, <1>8, <1>9, <1>13, <2>1
  <2> QED
    BY <1>8, <1>9, <1>11, <2>2, <2>3 DEF ReadInOrder
<1>14. CASE ~(limit + offset < Total)
  <2>1. e = Total
    BY <1>1, <1>4, <1>5, <1>14
  <2>2. client' = "finished"
    BY <1>8, <1>12, <1>14, Zenon
  <2>3. left' \/ offset' = limit' * (IF lastPage'.pages = 0 THEN 1 ELSE lastPage'.pages)
    <3>1. CASE left
      BY <1>8, <3>1
    <3>2. CASE ~left /\ ~(offset < Total)
      <4>1. Total = 0 /\ offset = 0
        BY <1>2, <1>4, <3>2
      <4>2. lastPage'.pages = 0
        BY <1>1, <1>12, <4>1
      <4> QED
        BY <1>1, <1>8, <4>1, <4>2
    <3>3. CASE offset < Total
      <4>1. limit * q < Total /\ Total <= limit * q + limit
        BY <1>1, <1>4, <1>10, <1>14, <3>3
      <4>2. lastPage'.pages = q + 1
        BY <1>1, <1>4, <1>12, <4>1, PagesUpTo
      <4> QED
        BY <1>8, <1>11, <4>2
    <3> QED
      BY <3>1, <3>2, <3>3
  <2>4. GotRows' = DOMAIN rows'
    <3>1. DOMAIN got' = 1 .. Total
      BY <1>7, <2>1 DEF IsStart
    <3>2. \A i \in 1 .. Total : got'[i] = s[i]
      BY <1>7, <2>1
    <3>3. s \in [1 .. Total -> DOMAIN rows] /\ \A r \in DOMAIN rows : \E i \in 1 .. Total : s[i] = r
      BY <1>1, SortedIs
    <3> QED
      BY <1>8, <3>1, <3>2, <3>3 DEF GotRows
  <2>5. lastPage'.total_count = Len(got')
    BY <1>7, <1>12, <2>1
  <2> QED
    BY <1>8, <1>9, <1>11, <2>2, <2>3, <2>4, <2>5 DEF ReadInOrder
<1> QED
  BY <1>13, <1>14

(* A row that comes behind those got, or is not among them any more, leaves  *)
(* them the start of the rows.                                              *)
LEMMA StillStart ==
    ASSUME PagesInv, ~disturbed, got' = got, sort' = sort, offset' = offset, limit' = limit,
           client = "reading", client' = client,
           NEW id, id \notin GotRows,
           DOMAIN rows' \subseteq DOMAIN rows \cup {id}, DOMAIN rows \subseteq DOMAIN rows' \cup {id},
           \A r \in DOMAIN rows : r # id => rows'[r] = rows[r],
           id \in DOMAIN rows' => \A r \in GotRows : KeyBefore(rows[r], rows'[id]),
           left' \/ Total' >= Total, left => left', Total \in Nat, Total' \in Nat
    PROVE  ReadInOrder'
<1>1. ReadInOrder /\ IsStart(got, Len(got)) /\ offset \in Nat /\ left \in BOOLEAN
  BY DEF PagesInv, ReadInOrder
<1> DEFINE n == Len(got)
<1>2. n \in Nat /\ got \in [1 .. n -> DOMAIN rows] /\ \A i \in 1 .. n : got[i] \in GotRows /\ got[i] # id
  BY <1>1 DEF IsStart, GotRows
<1>3. \A i \in 1 .. n : got[i] \in DOMAIN rows' /\ rows'[got[i]] = rows[got[i]]
  BY <1>2
<1>4. got \in [1 .. n -> DOMAIN rows']
  BY <1>2, <1>3
<1>5. ASSUME NEW i \in 1 .. n, NEW r \in DOMAIN rows', r # id PROVE IsBefore(got[i], r)' <=> IsBefore(got[i], r)
  <2>1. r \in DOMAIN rows /\ rows'[r] = rows[r]
    BY <1>5
  <2> QED
    BY <1>3, <2>1 DEF IsBefore, KeyBefore
<1>6. \A i, j \in 1 .. n : i < j => IsBefore(got[i], got[j])'
  <2> SUFFICES ASSUME NEW i \in 1 .. n, NEW j \in 1 .. n, i < j PROVE IsBefore(got[i], got[j])'
    OBVIOUS
  <2>1. got[j] \in DOMAIN rows' /\ got[j] # id /\ IsBefore(got[i], got[j])
    BY <1>1, <1>2, <1>3 DEF IsStart
  <2> QED
    BY <1>3, <2>1 DEF IsBefore, KeyBefore
<1>7. ASSUME NEW r \in DOMAIN rows'
      PROVE  (\E i \in 1 .. n : got[i] = r) \/ \A i \in 1 .. n : IsBefore(got[i], r)'
  <2>1. CASE r = id
    BY <1>2, <1>3, <2>1 DEF IsBefore, KeyBefore
  <2>2. CASE r # id
    <3>1. r \in DOMAIN rows
      BY <2>2
    <3>2. (\E i \in 1 .. n : got[i] = r) \/ \A i \in 1 .. n : IsBefore(got[i], r)
      BY <1>1, <3>1 DEF IsStart
    <3> QED
      BY <1>5, <2>2, <3>2
  <2> QED
    BY <2>1, <2>2
<1>8. IsStart(got, Len(got))'
  BY <1>2, <1>4, <1>6, <1>7 DEF IsStart
<1>9. Len(got') = offset' /\ (left' \/ offset' = 0 \/ offset' < Total')
  BY <1>1 DEF ReadInOrder
<1> QED
  BY <1>1, <1>8, <1>9 DEF ReadInOrder

LEMMA PagesInvNext == PagesInv /\ [PagesNext]_pageVars => PagesInv'
<1> SUFFICES ASSUME PagesInv, [PagesNext]_pageVars PROVE PagesInv'
  OBVIOUS
<1>1. CASE RequestPage
  <2>1. sort' = sort /\ rows' = rows /\ limit' = limit /\ offset' = offset + limit /\ left' = left
        /\ disturbed' = (disturbed \/ HasTies)
    BY <1>1 DEF RequestPage
  <2>2. ~disturbed' => ReadInOrder'
    BY <1>1, <2>1, RequestInOrder
  <2>3. disturbed' \in BOOLEAN
    BY <2>1 DEF PagesInv, HasTies
  <2> QED
    BY <2>1, <2>2, <2>3 DEF PagesInv, RowsOK
<1>2. CASE DivisionByZero
  BY <1>2 DEF DivisionByZero, PagesInv, RowsOK, ReadInOrder, IsStart, IsBefore, KeyBefore, Total, GotRows
<1>3. ASSUME NEW id \in RowIds, NEW key \in SortKeys, SaveRow(id, key) PROVE PagesInv'
  <2>1. /\ client = "reading" /\ sort' = sort /\ limit' = limit /\ offset' = offset /\ left' = left
        /\ client' = client /\ got' = got
        /\ rows' = [r \in DOMAIN rows \cup {id} |-> IF r = id THEN key ELSE rows[r]]
    BY <1>3 DEF SaveRow
  <2>2. DOMAIN rows' = DOMAIN rows \cup {id} /\ rows'[id] = key /\ key \in Int
        /\ \A r \in DOMAIN rows : r # id => rows'[r] = rows[r]
    BY <2>1, PagesAssumption
  <2>3. IsFiniteSet(DOMAIN rows') /\ Total \in Nat /\ Total' \in Nat /\ Total' >= Total
    <3>1. IsFiniteSet(DOMAIN rows)
      BY DEF PagesInv, RowsOK
    <3>2. IsFiniteSet(DOMAIN rows') /\ Cardinality(DOMAIN rows') = IF id \in DOMAIN rows THEN Total ELSE Total + 1
      BY <2>2, <3>1, FS_AddElement DEF Total
    <3>3. Total \in Nat
      BY <3>1, FS_CardinalityType DEF Total
    <3> QED
      BY <3>2, <3>3 DEF Total
  <2>4. RowsOK'
    BY <2>1, <2>2, <2>3 DEF PagesInv, RowsOK
  <2>5. ASSUME ~disturbed' PROVE ReadInOrder'
    <3>1. ~disturbed /\ id \notin GotRows /\ \A r \in GotRows \cap DOMAIN rows : KeyBefore(rows[r], key)
      BY <1>3, <2>5 DEF SaveRow
    <3>2. GotRows \subseteq DOMAIN rows
      BY <3>1 DEF PagesInv, ReadInOrder, IsStart, GotRows
    <3>3. \A r \in GotRows : KeyBefore(rows[r], rows'[id])
      BY <2>2, <3>1, <3>2
    <3> QED
      BY <2>1, <2>2, <2>3, <3>1, <3>3, StillStart
  <2>6. disturbed' \in BOOLEAN
    BY <1>3 DEF SaveRow, PagesInv
  <2> QED
    BY <2>1, <2>4, <2>5, <2>6 DEF PagesInv
<1>4. ASSUME NEW id \in RowIds, LoseRow(id) PROVE PagesInv'
  <2>1. /\ client = "reading" /\ sort' = sort /\ limit' = limit /\ offset' = offset /\ left' = TRUE
        /\ client' = client /\ got' = got
        /\ rows' = [r \in DOMAIN rows \ {id} |-> rows[r]]
    BY <1>4 DEF LoseRow
  <2>2. DOMAIN rows' = DOMAIN rows \ {id} /\ \A r \in DOMAIN rows : r # id => rows'[r] = rows[r]
    BY <2>1
  <2>3. IsFiniteSet(DOMAIN rows') /\ Total \in Nat /\ Total' \in Nat
    <3>1. IsFiniteSet(DOMAIN rows)
      BY DEF PagesInv, RowsOK
    <3>2. IsFiniteSet(DOMAIN rows')
      BY <2>2, <3>1, FS_RemoveElement
    <3> QED
      BY <3>1, <3>2, FS_CardinalityType DEF Total
  <2>4. RowsOK'
    BY <2>1, <2>2, <2>3 DEF PagesInv, RowsOK
  <2>5. ASSUME ~disturbed' PROVE ReadInOrder'
    <3>1. ~disturbed /\ id \notin GotRows
      BY <1>4, <2>5 DEF LoseRow
    <3> QED
      BY <2>1, <2>2, <2>3, <3>1, StillStart
  <2>6. disturbed' \in BOOLEAN
    BY <1>4 DEF LoseRow, PagesInv
  <2> QED
    BY <2>1, <2>4, <2>5, <2>6 DEF PagesInv
<1>5. CASE UNCHANGED pageVars
  BY <1>5 DEF pageVars, PagesInv, RowsOK, ReadInOrder, IsStart, IsBefore, KeyBefore, Total, GotRows
<1> QED
  BY <1>1, <1>2, <1>3, <1>4, <1>5 DEF PagesNext

(* A client that asks page after page gets the rows once, in order and all   *)
(* of them, and unless rows left the filter in as many requests as page_info *)
(* says, for any rows and page size, if each commit in between saves a row   *)
(* behind those it got and no two rows are equal in the field sorted by when *)
(* it asks.                                                                 *)
THEOREM PagesAreComplete == PagesSpec => []PagesCoverRows
<1>1. PagesInv => PagesCoverRows
  <2> SUFFICES ASSUME PagesInv, ~disturbed PROVE PagesCoverRows
    BY DEF PagesCoverRows
  <2>1. ReadInOrder /\ IsStart(got, Len(got))
    BY DEF PagesInv, ReadInOrder
  <2>2. DOMAIN got = 1 .. Len(got)
    BY <2>1 DEF IsStart
  <2> QED
    BY <2>1, <2>2 DEF PagesCoverRows, ReadInOrder, IsStart, GotRows
<1> QED
  BY <1>1, PagesInvInit, PagesInvNext, PTL DEF PagesSpec

-----------------------------------------------------------------------------
(* The graph that AddJoin builds.                                           *)

Deps(g, t) == DOMAIN g[t].dependencies
Refs(g, p) == DOMAIN g[p].dependents

(* The two ends of every condition know it.                                 *)
IsGraph(g) ==
    /\ IsFiniteSet(DOMAIN g)
    /\ \A t \in DOMAIN g : \A p \in Deps(g, t) :
          p \in DOMAIN g /\ t \in Refs(g, p) /\ g[t].dependencies[p] = g[p].dependents[t]
    /\ \A p \in DOMAIN g : \A t \in Refs(g, p) :
          /\ t \in DOMAIN g /\ p \in Deps(g, t)
          /\ g[p].dependents[t] \in Conditions
          /\ g[p].dependents[t].table = t /\ g[p].dependents[t].primary = p

LEMMA EmptyNode ==
    DOMAIN NoJoin.dependencies = {} /\ DOMAIN NoJoin.dependents = {}
  BY DEF NoJoin, Empty

(* The nodes of a graph with one more condition.                            *)
JoinedNode(g, c, t, node) ==
    /\ DOMAIN node.dependencies = DOMAIN NodeOf(g, t).dependencies \cup {p \in {c.primary} : t = c.table}
    /\ DOMAIN node.dependents = DOMAIN NodeOf(g, t).dependents \cup {u \in {c.table} : t = c.primary}
    /\ t = c.table => node.dependencies[c.primary] = c
    /\ t = c.primary => node.dependents[c.table] = c
    /\ \A p \in DOMAIN NodeOf(g, t).dependencies :
          t # c.table \/ p # c.primary => node.dependencies[p] = NodeOf(g, t).dependencies[p]
    /\ \A u \in DOMAIN NodeOf(g, t).dependents :
          t # c.primary \/ u # c.table => node.dependents[u] = NodeOf(g, t).dependents[u]

LEMMA JoinIs ==
    ASSUME NEW g, NEW c
    PROVE  /\ DOMAIN Join(g, c) = DOMAIN g \cup {c.table, c.primary}
           /\ \A t \in DOMAIN Join(g, c) : JoinedNode(g, c, t, Join(g, c)[t])
<1> DEFINE from == NodeOf(g, c.table)
           first == [dependencies |-> Put(from.dependencies, c.primary, c), dependents |-> from.dependents]
           with == Put(g, c.table, first)
           to == NodeOf(with, c.primary)
           second == [dependencies |-> to.dependencies, dependents |-> Put(to.dependents, c.table, c)]
           h == Put(with, c.primary, second)
<1>1. Join(g, c) = h
  BY DEF Join
<1>2. /\ first.dependencies = Put(from.dependencies, c.primary, c) /\ first.dependents = from.dependents
      /\ second.dependencies = to.dependencies /\ second.dependents = Put(to.dependents, c.table, c)
  OBVIOUS
<1>3. with = Put(g, c.table, first) /\ h = Put(with, c.primary, second)
  OBVIOUS
<1>4. c.primary = c.table /\ c.primary \in DOMAIN with => to = with[c.table]
  BY DEF NodeOf
<1>5. c.primary \in DOMAIN with => to = with[c.primary]
  BY DEF NodeOf
<1>6. c.primary \notin DOMAIN with => to = NoJoin
  BY DEF NodeOf
<1> HIDE DEF h, second, to, with, first, from
<1>7. /\ DOMAIN with = DOMAIN g \cup {c.table} /\ with[c.table] = first
      /\ \A x \in DOMAIN g : x # c.table => with[x] = g[x]
  BY <1>3, Zenon DEF Put
<1>8. /\ DOMAIN h = DOMAIN with \cup {c.primary} /\ h[c.primary] = second
      /\ \A x \in DOMAIN with : x # c.primary => h[x] = with[x]
  BY <1>3, Zenon DEF Put
<1>9. /\ DOMAIN first.dependencies = DOMAIN from.dependencies \cup {c.primary}
      /\ first.dependencies[c.primary] = c
      /\ \A p \in DOMAIN from.dependencies : p # c.primary => first.dependencies[p] = from.dependencies[p]
  BY <1>2, Zenon DEF Put
<1>10. /\ DOMAIN second.dependents = DOMAIN to.dependents \cup {c.table}
       /\ second.dependents[c.table] = c
       /\ \A u \in DOMAIN to.dependents : u # c.table => second.dependents[u] = to.dependents[u]
  BY <1>2, Zenon DEF Put
<1>11. c.primary = c.table => to = first
  BY <1>4, <1>7
<1>12. c.primary # c.table => to = NodeOf(g, c.primary)
  BY <1>5, <1>6, <1>7 DEF NodeOf
<1>13. from = NodeOf(g, c.table)
  BY DEF from
<1>14. ASSUME NEW t \in DOMAIN h PROVE JoinedNode(g, c, t, h[t])
  <2>1. CASE t = c.primary /\ t = c.table
    <3>1. h[t] = second /\ to = first /\ from = NodeOf(g, t)
      BY <1>8, <1>11, <1>13, <2>1
    <3> QED
      BY <1>2, <1>9, <1>10, <2>1, <3>1 DEF JoinedNode
  <2>2. CASE t = c.primary /\ t # c.table
    <3>1. h[t] = second /\ to = NodeOf(g, t)
      BY <1>8, <1>12, <2>2
    <3> QED
      BY <1>2, <1>10, <2>2, <3>1 DEF JoinedNode
  <2>3. CASE t # c.primary /\ t = c.table
    <3>1. h[t] = first /\ from = NodeOf(g, t)
      BY <1>7, <1>8, <1>13, <2>3
    <3> QED
      BY <1>2, <1>9, <2>3, <3>1 DEF JoinedNode
  <2>4. CASE t # c.primary /\ t # c.table
    <3>1. h[t] = NodeOf(g, t)
      BY <1>7, <1>8, <2>4 DEF NodeOf
    <3> QED
      BY <2>4, <3>1 DEF JoinedNode
  <2> QED
    BY <2>1, <2>2, <2>3, <2>4
<1> QED
  BY <1>1, <1>7, <1>8, <1>14

(* A node that is there is taken as it is, another is empty.                *)
LEMMA NodeIs ==
    ASSUME NEW g, IsGraph(g), NEW t
    PROVE  /\ \A p \in DOMAIN NodeOf(g, t).dependencies : t \in DOMAIN g /\ p \in Deps(g, t)
           /\ \A u \in DOMAIN NodeOf(g, t).dependents : t \in DOMAIN g /\ u \in Refs(g, t)
           /\ t \in DOMAIN g => NodeOf(g, t) = g[t]
  BY EmptyNode DEF NodeOf, Deps, Refs

LEMMA JoinKeepsGraph ==
    ASSUME NEW g, IsGraph(g), NEW c \in Conditions
    PROVE  IsGraph(Join(g, c))
<1> DEFINE h == Join(g, c)
<1>1. DOMAIN h = DOMAIN g \cup {c.table, c.primary} /\ \A t \in DOMAIN h : JoinedNode(g, c, t, h[t])
  BY JoinIs
<1> HIDE DEF h
<1>2. IsFiniteSet(DOMAIN h)
  <2>1. IsFiniteSet(DOMAIN g)
    BY DEF IsGraph
  <2>2. IsFiniteSet(DOMAIN g \cup {c.table})
    BY <2>1, FS_AddElement
  <2>3. IsFiniteSet((DOMAIN g \cup {c.table}) \cup {c.primary})
    BY <2>2, FS_AddElement
  <2>4. DOMAIN h = (DOMAIN g \cup {c.table}) \cup {c.primary}
    BY <1>1
  <2> QED
    BY <2>3, <2>4
<1>3. ASSUME NEW t \in DOMAIN h, NEW p \in Deps(h, t)
      PROVE  p \in DOMAIN h /\ t \in Refs(h, p) /\ h[t].dependencies[p] = h[p].dependents[t]
  <2>1. CASE t = c.table /\ p = c.primary
    <3>1. p \in DOMAIN h
      BY <1>1, <2>1
    <3> QED
      BY <1>1, <2>1, <3>1 DEF JoinedNode, Refs
  <2>2. CASE ~(t = c.table /\ p = c.primary)
    <3>1. p \in DOMAIN NodeOf(g, t).dependencies
      BY <1>1, <2>2 DEF JoinedNode, Deps
    <3>2. t \in DOMAIN g /\ p \in Deps(g, t) /\ NodeOf(g, t) = g[t]
      BY <3>1, NodeIs
    <3>3. p \in DOMAIN g /\ t \in Refs(g, p) /\ g[t].dependencies[p] = g[p].dependents[t]
      BY <3>2 DEF IsGraph
    <3>4. NodeOf(g, p) = g[p]
      BY <3>3, NodeIs
    <3>5. p \in DOMAIN h
      BY <1>1, <3>3
    <3>6. h[t].dependencies[p] = g[t].dependencies[p]
      BY <1>1, <2>2, <3>1, <3>2 DEF JoinedNode
    <3>7. t \in DOMAIN h[p].dependents /\ h[p].dependents[t] = g[p].dependents[t]
      BY <1>1, <2>2, <3>3, <3>4, <3>5 DEF JoinedNode, Refs
    <3> QED
      BY <3>3, <3>5, <3>6, <3>7 DEF Refs
  <2> QED
    BY <2>1, <2>2
<1>4. ASSUME NEW p \in DOMAIN h, NEW t \in Refs(h, p)
      PROVE  /\ t \in DOMAIN h /\ p \in Deps(h, t)
             /\ h[p].dependents[t] \in Conditions
             /\ h[p].dependents[t].table = t /\ h[p].dependents[t].primary = p
  <2>1. CASE t = c.table /\ p = c.primary
    <3>1. t \in DOMAIN h
      BY <1>1, <2>1
    <3>2. h[p].dependents[t] = c /\ p \in Deps(h, t)
      BY <1>1, <2>1, <3>1 DEF JoinedNode, Deps
    <3> QED
      BY <2>1, <3>1, <3>2
  <2>2. CASE ~(t = c.table /\ p = c.primary)
    <3>1. t \in DOMAIN NodeOf(g, p).dependents
      BY <1>1, <2>2 DEF JoinedNode, Refs
    <3>2. p \in DOMAIN g /\ t \in Refs(g, p) /\ NodeOf(g, p) = g[p]
      BY <3>1, NodeIs
    <3>3. /\ t \in DOMAIN g /\ p \in Deps(g, t) /\ g[p].dependents[t] \in Conditions
          /\ g[p].dependents[t].table = t /\ g[p].dependents[t].primary = p
      BY <3>2 DEF IsGraph
    <3>4. t \in DOMAIN h /\ NodeOf(g, t) = g[t]
      BY <1>1, <3>3, NodeIs
    <3>5. h[p].dependents[t] = g[p].dependents[t]
      BY <1>1, <2>2, <3>1, <3>2 DEF JoinedNode
    <3>6. p \in Deps(h, t)
      BY <1>1, <3>3, <3>4 DEF JoinedNode, Deps
    <3> QED
      BY <3>3, <3>4, <3>5, <3>6
  <2> QED
    BY <2>1, <2>2
<1> QED
  BY <1>2, <1>3, <1>4 DEF IsGraph, h

-----------------------------------------------------------------------------
(* Sequences.                                                               *)

LEMMA ConcatIs ==
    ASSUME NEW S, NEW s \in Seq(S), NEW q \in Seq(S)
    PROVE  /\ s \o q \in Seq(S)
           /\ \A i \in DOMAIN s : i \in DOMAIN (s \o q) /\ (s \o q)[i] = s[i]
           /\ \A i \in DOMAIN q : Len(s) + i \in DOMAIN (s \o q) /\ (s \o q)[Len(s) + i] = q[i]
           /\ \A k \in DOMAIN (s \o q) :
                 \/ k \in DOMAIN s /\ (s \o q)[k] = s[k] /\ k <= Len(s)
                 \/ k - Len(s) \in DOMAIN q /\ (s \o q)[k] = q[k - Len(s)] /\ k > Len(s)
<1> DEFINE r == s \o q
<1>1. /\ r \in Seq(S) /\ Len(r) = Len(s) + Len(q)
      /\ \A i \in 1 .. Len(s) + Len(q) : r[i] = IF i <= Len(s) THEN s[i] ELSE q[i - Len(s)]
  BY ConcatProperties
<1> HIDE DEF r
<1>2. Len(s) \in Nat /\ Len(q) \in Nat /\ DOMAIN s = 1 .. Len(s) /\ DOMAIN q = 1 .. Len(q)
  OBVIOUS
<1>3. DOMAIN r = 1 .. Len(s) + Len(q)
  BY <1>1
<1>4. \A i \in DOMAIN s : i \in DOMAIN r /\ r[i] = s[i]
  BY <1>1, <1>2, <1>3
<1>5. \A i \in DOMAIN q : Len(s) + i \in DOMAIN r /\ r[Len(s) + i] = q[i]
  BY <1>1, <1>2, <1>3
<1>6. \A k \in DOMAIN r :
         \/ k \in DOMAIN s /\ r[k] = s[k] /\ k <= Len(s)
         \/ k - Len(s) \in DOMAIN q /\ r[k] = q[k - Len(s)] /\ k > Len(s)
  BY <1>1, <1>2, <1>3
<1> QED
  BY <1>1, <1>4, <1>5, <1>6 DEF r

(* A finite set is iterated as a sequence that has each member once.        *)
LEMMA OrderIs ==
    ASSUME NEW S, IsFiniteSet(S), NEW q \in Orders(S)
    PROVE  /\ q \in Seq(S)
           /\ \A i, j \in DOMAIN q : q[i] = q[j] => i = j
           /\ \A x \in S : \E i \in DOMAIN q : q[i] = x
           /\ \A i \in DOMAIN q : q[i] \in S
<1>1. Cardinality(S) \in Nat
  BY FS_CardinalityType
<1>2. q \in [1 .. Cardinality(S) -> S]
  BY DEF Orders
<1>3. q \in Seq(S)
  BY <1>1, <1>2
<1>4. \A i \in DOMAIN q : q[i] \in S
  BY <1>2
<1> QED
  BY <1>3, <1>4 DEF Orders

-----------------------------------------------------------------------------
(* The sorted conditions: none twice, those with one primary table next to  *)
(* each other, and those that refer to a table behind those it is put by.   *)

Once(s) == \A i, j \in DOMAIN s : s[i] = s[j] => i = j
Together(s) == \A i, j, k \in DOMAIN s : i < j /\ j < k /\ s[i].primary = s[k].primary => s[j].primary = s[i].primary
Precede(s) == \A i, j \in DOMAIN s : s[i].table = s[j].primary => i < j

LEMMA AppendedSorted ==
    ASSUME NEW s \in Seq(Conditions), NEW q \in Seq(Conditions), NEW current,
           Once(s), Together(s), Precede(s), Once(q),
           \A i \in DOMAIN q : q[i].primary = current /\ q[i].table # current,
           \A i \in DOMAIN s : s[i].primary # current,
           \A i \in DOMAIN s : \A j \in DOMAIN q : q[j].table # s[i].primary
    PROVE  Once(s \o q) /\ Together(s \o q) /\ Precede(s \o q)
<1> DEFINE r == s \o q
           n == Len(s)
           Old(k) == k \in DOMAIN s /\ r[k] = s[k] /\ k <= n
           New(k) == k - n \in DOMAIN q /\ r[k] = q[k - n] /\ k > n
<1>1. \A k \in DOMAIN r : Old(k) \/ New(k)
  BY ConcatIs
<1>2. n \in Nat /\ DOMAIN r \subseteq Int
  <2>1. r \in Seq(Conditions)
    BY ConcatIs
  <2> QED
    BY <2>1
<1> HIDE DEF r, n
<1>3. \A k \in DOMAIN r : New(k) => r[k].primary = current /\ r[k].table # current
  OBVIOUS
<1>4. \A k \in DOMAIN r : Old(k) => r[k].primary # current
  OBVIOUS
<1>5. \A i, j \in DOMAIN r : Old(i) /\ New(j) => r[j].table # r[i].primary /\ i < j
  BY <1>2
<1>6. Once(r)
  <2>1. ASSUME NEW i \in DOMAIN r, NEW j \in DOMAIN r, r[i] = r[j] PROVE i = j
    <3>1. CASE Old(i) /\ Old(j)
      BY <2>1, <3>1 DEF Once
    <3>2. CASE New(i) /\ New(j)
      <4>1. i - n = j - n
        BY <2>1, <3>2 DEF Once
      <4> QED
        BY <1>2, <4>1
    <3>3. CASE Old(i) /\ New(j)
      BY <1>3, <1>4, <2>1, <3>3
    <3>4. CASE New(i) /\ Old(j)
      BY <1>3, <1>4, <2>1, <3>4
    <3> QED
      BY <1>1, <3>1, <3>2, <3>3, <3>4
  <2> QED
    BY <2>1 DEF Once
<1>7. Together(r)
  <2>1. ASSUME NEW i \in DOMAIN r, NEW j \in DOMAIN r, NEW k \in DOMAIN r, i < j, j < k, r[i].primary = r[k].primary
        PROVE  r[j].primary = r[i].primary
    <3>1. CASE Old(i)
      <4>1. Old(k)
        BY <1>1, <1>3, <1>4, <2>1, <3>1
      <4>2. Old(j)
        BY <1>1, <1>2, <2>1, <4>1
      <4> QED
        BY <2>1, <3>1, <4>1, <4>2 DEF Together
    <3>2. CASE New(i)
      <4>1. New(j)
        BY <1>1, <1>2, <2>1, <3>2
      <4> QED
        BY <1>3, <3>2, <4>1
    <3> QED
      BY <1>1, <3>1, <3>2
  <2> QED
    BY <2>1 DEF Together
<1>8. Precede(r)
  <2>1. ASSUME NEW i \in DOMAIN r, NEW j \in DOMAIN r, r[i].table = r[j].primary PROVE i < j
    <3>1. CASE Old(i) /\ Old(j)
      BY <2>1, <3>1 DEF Precede
    <3>2. CASE Old(i) /\ New(j)
      BY <1>5, <3>2
    <3>3. CASE New(i) /\ Old(j)
      BY <1>5, <2>1, <3>3
    <3>4. CASE New(i) /\ New(j)
      BY <1>3, <2>1, <3>4
    <3> QED
      BY <1>1, <3>1, <3>2, <3>3, <3>4
  <2> QED
    BY <2>1 DEF Precede
<1> QED
  BY <1>6, <1>7, <1>8 DEF r

-----------------------------------------------------------------------------
(* The sort.                                                                *)

Ready == {startNodes[i] : i \in DOMAIN startNodes}

(* The tables whose dependents are placed.                                  *)
Done == {p \in DOMAIN joins : Deps(joins, p) = {} /\ p \notin Ready}

Placed == {c \in Conditions : \E p \in Done : \E t \in Refs(joins, p) : c = joins[p].dependents[t]}

(* A dependency goes when the table it is on is done.                       *)
SortGraph ==
    /\ IsFiniteSet(DOMAIN joins)
    /\ \A t \in DOMAIN joins : \A p \in Deps(joins, t) :
          /\ p \in DOMAIN joins /\ t \in Refs(joins, p)
          /\ joins[t].dependencies[p] = joins[p].dependents[t]
          /\ p \notin Done
    /\ \A p \in DOMAIN joins : \A t \in Refs(joins, p) :
          /\ t \in DOMAIN joins /\ (p \in Done \/ p \in Deps(joins, t))
          /\ joins[p].dependents[t] \in Conditions
          /\ joins[p].dependents[t].table = t /\ joins[p].dependents[t].primary = p

SortQueue ==
    /\ startNodes \in Seq(DOMAIN joins)
    /\ \A i, j \in DOMAIN startNodes : startNodes[i] = startNodes[j] => i = j
    /\ \A i \in DOMAIN startNodes : Deps(joins, startNodes[i]) = {}

SortOrder ==
    /\ sorted \in Seq(Conditions)
    /\ \A i \in DOMAIN sorted : sorted[i] \in Placed
    /\ \A c \in Placed : \E i \in DOMAIN sorted : sorted[i] = c
    /\ Once(sorted) /\ Together(sorted) /\ Precede(sorted)

JoinsInv ==
    /\ stage = "walk" => IsGraph(joins)
    /\ stage = "sort" => SortGraph /\ SortQueue /\ SortOrder

(* Nothing is done at first.                                                *)
LEMMA SortStarts ==
    ASSUME JoinsInv, StartSort
    PROVE  JoinsInv'
<1>1. IsGraph(joins) /\ joins' = joins /\ sorted' = <<>> /\ stage' = "sort"
  BY DEF JoinsInv, StartSort
<1> DEFINE free == {t \in DOMAIN joins : DOMAIN joins[t].dependencies = {}}
<1>2. startNodes' \in Orders(free) /\ IsFiniteSet(free) /\ IsFiniteSet(DOMAIN joins)
  <2>1. IsFiniteSet(DOMAIN joins)
    BY <1>1 DEF IsGraph
  <2> QED
    BY <2>1, FS_Subset DEF StartSort
<1> HIDE DEF free
<1>3. /\ startNodes' \in Seq(free)
      /\ \A i, j \in DOMAIN startNodes' : startNodes'[i] = startNodes'[j] => i = j
      /\ \A x \in free : \E i \in DOMAIN startNodes' : startNodes'[i] = x
      /\ \A i \in DOMAIN startNodes' : startNodes'[i] \in free
  BY <1>2, OrderIs
<1>4. free \subseteq DOMAIN joins /\ \A t \in DOMAIN joins : t \in free <=> Deps(joins, t) = {}
  BY DEF free, Deps
<1>5. \A p : p \notin Done'
  BY <1>1, <1>3, <1>4 DEF Done, Ready
<1>6. SortGraph'
  BY <1>1, <1>5 DEF SortGraph, IsGraph
<1>7. SortQueue'
  <2>1. startNodes' \in Seq(DOMAIN joins')
    BY <1>1, <1>3, <1>4
  <2> QED
    BY <1>1, <1>3, <1>4, <2>1 DEF SortQueue
<1>8. SortOrder'
  <2>1. sorted' \in Seq(Conditions) /\ DOMAIN sorted' = {}
    BY <1>1
  <2> QED
    BY <1>5, <2>1 DEF SortOrder, Placed, Once, Together, Precede
<1> QED
  BY <1>1, <1>6, <1>7, <1>8 DEF JoinsInv

(* The last of a sequence, and what is before it.                           *)
LEMMA LastIs ==
    ASSUME NEW S, NEW s \in Seq(S), s # <<>>
    PROVE  /\ Len(s) \in DOMAIN s /\ Last1(s) = s[Len(s)] /\ Last1(s) \in S
           /\ Front1(s) \in Seq(S)
           /\ \A i \in DOMAIN Front1(s) : i \in DOMAIN s /\ i # Len(s) /\ Front1(s)[i] = s[i]
           /\ \A i \in DOMAIN s : i # Len(s) => i \in DOMAIN Front1(s)
<1>1. Len(s) \in Nat /\ Len(s) > 0 /\ DOMAIN s = 1 .. Len(s)
  OBVIOUS
<1>2. \A i \in 1 .. Len(s) - 1 : s[i] \in S
  BY <1>1
<1>3. /\ Front1(s) \in Seq(S) /\ Len(Front1(s)) = Len(s) - 1
      /\ \A i \in 1 .. Len(s) - 1 : Front1(s)[i] = s[i]
  <2>1. /\ SubSeq(s, 1, Len(s) - 1) \in Seq(S)
        /\ Len(SubSeq(s, 1, Len(s) - 1)) = IF 1 <= Len(s) - 1 THEN (Len(s) - 1) - 1 + 1 ELSE 0
        /\ \A i \in 1 .. (Len(s) - 1) - 1 + 1 : SubSeq(s, 1, Len(s) - 1)[i] = s[1 + i - 1]
    BY <1>1, <1>2, SubSeqProperties
  <2> QED
    BY <1>1, <2>1 DEF Front1
<1>4. DOMAIN Front1(s) = 1 .. Len(s) - 1
  BY <1>3
<1> QED
  BY <1>1, <1>3, <1>4 DEF Last1

(* One step of the sort, without the sequences it is made of.               *)
Sorts(current, kept, next) ==
    /\ stage = "sort" /\ stage' = "sort" /\ startNodes # <<>>
    /\ current = Last1(startNodes) /\ current \in DOMAIN joins
    /\ Deps(joins, current) = {} /\ current \notin Done
    /\ \A t \in DOMAIN joins : current \in Deps(joins, t) <=> t \in Refs(joins, current)
    /\ DOMAIN joins' = DOMAIN joins
    /\ \A t \in DOMAIN joins :
          /\ Refs(joins', t) = Refs(joins, t) /\ joins'[t].dependents = joins[t].dependents
          /\ Deps(joins', t) = Deps(joins, t) \ {current}
          /\ \A p \in Deps(joins', t) : joins'[t].dependencies[p] = joins[t].dependencies[p]
    /\ kept \in Seq(DOMAIN joins)
    /\ \A i, j \in DOMAIN kept : kept[i] = kept[j] => i = j
    /\ \A t : t \in Refs(joins, current) <=> \E i \in DOMAIN kept : kept[i] = t
    /\ next \in Seq(DOMAIN joins)
    /\ \A i, j \in DOMAIN next : next[i] = next[j] => i = j
    /\ \A t \in DOMAIN joins : Deps(joins, t) = {current} <=> \E i \in DOMAIN next : next[i] = t
    /\ startNodes' = Front1(startNodes) \o next
    /\ sorted' = sorted \o [i \in DOMAIN kept |-> joins[kept[i]].dependencies[current]]

LEMMA StepSorts ==
    ASSUME JoinsInv, NEW order, SortStep(order)
    PROVE  \E current, kept, next : Sorts(current, kept, next)
<1> DEFINE current == Last1(startNodes)
           freed == Freed(current)
<1>1. SortGraph /\ SortQueue /\ stage = "sort" /\ startNodes # <<>>
  BY DEF JoinsInv, SortStep
<1>2. /\ current \in DOMAIN joins /\ Deps(joins, current) = {}
      /\ current \in Ready /\ current \notin Done
  <2>1. Len(startNodes) \in DOMAIN startNodes /\ current = startNodes[Len(startNodes)] /\ current \in DOMAIN joins
    BY <1>1, LastIs DEF SortQueue
  <2> QED
    BY <1>1, <2>1 DEF SortQueue, Ready, Done
<1>3. PICK kept \in Along(freed, order) :
        /\ sorted' = sorted \o [i \in DOMAIN kept |-> joins[kept[i]].dependencies[current]]
        /\ \E next \in Along({t \in freed : DOMAIN joins[t].dependencies = {current}}, kept) :
              startNodes' = Front1(startNodes) \o next
        /\ joins' = [t \in DOMAIN joins |->
                       IF t \in freed
                       THEN [dependencies |-> Without(joins[t].dependencies, current),
                             dependents |-> joins[t].dependents]
                       ELSE joins[t]]
        /\ stage' = "sort"
  BY <1>1 DEF SortStep
<1>4. PICK next \in Along({t \in freed : DOMAIN joins[t].dependencies = {current}}, kept) :
        startNodes' = Front1(startNodes) \o next
  BY <1>3
<1>5. \A t : t \in freed <=> t \in Refs(joins, current)
  BY <1>1, <1>2 DEF Freed, SortGraph, Refs, Deps
<1>6. freed \subseteq DOMAIN joins /\ \A t \in DOMAIN joins : t \in freed <=> current \in Deps(joins, t)
  BY <1>1, <1>2, <1>5 DEF SortGraph
<1> HIDE DEF current, freed
<1>7. IsFiniteSet(freed)
  BY <1>1, <1>6, FS_Subset DEF SortGraph
<1>8. /\ kept \in Seq(freed)
      /\ \A i, j \in DOMAIN kept : kept[i] = kept[j] => i = j
      /\ \A x \in freed : \E i \in DOMAIN kept : kept[i] = x
      /\ \A i \in DOMAIN kept : kept[i] \in freed
  <2>1. kept \in Orders(freed)
    BY DEF Along
  <2> QED
    BY <1>7, <2>1, OrderIs
<1> DEFINE ready == {t \in freed : DOMAIN joins[t].dependencies = {current}}
<1>9. ready \subseteq freed /\ \A t \in DOMAIN joins : t \in ready <=> Deps(joins, t) = {current}
  BY <1>6 DEF Deps
<1>10. next \in Orders(ready) /\ IsFiniteSet(ready)
  <2>1. next \in Orders(ready)
    BY DEF Along
  <2> HIDE DEF ready
  <2> QED
    BY <1>7, <1>9, <2>1, FS_Subset
<1> HIDE DEF ready
<1>11. /\ next \in Seq(ready)
       /\ \A i, j \in DOMAIN next : next[i] = next[j] => i = j
       /\ \A x \in ready : \E i \in DOMAIN next : next[i] = x
       /\ \A i \in DOMAIN next : next[i] \in ready
  BY <1>10, OrderIs
<1>12. kept \in Seq(DOMAIN joins) /\ next \in Seq(DOMAIN joins)
  BY <1>6, <1>8, <1>9, <1>11
<1>13. DOMAIN joins' = DOMAIN joins
  BY <1>3
<1>14. ASSUME NEW t \in DOMAIN joins
       PROVE  /\ Refs(joins', t) = Refs(joins, t) /\ joins'[t].dependents = joins[t].dependents
              /\ Deps(joins', t) = Deps(joins, t) \ {current}
              /\ \A p \in Deps(joins', t) : joins'[t].dependencies[p] = joins[t].dependencies[p]
  <2>1. CASE t \in freed
    <3>1. /\ joins'[t].dependencies = Without(joins[t].dependencies, current)
          /\ joins'[t].dependents = joins[t].dependents
      BY <1>3, <2>1
    <3> QED
      BY <3>1 DEF Refs, Deps, Without
  <2>2. CASE t \notin freed
    <3>1. joins'[t] = joins[t]
      BY <1>3, <2>2
    <3> QED
      BY <1>6, <2>2, <3>1 DEF Refs, Deps
  <2> QED
    BY <2>1, <2>2
<1>15. \A t : t \in Refs(joins, current) <=> \E i \in DOMAIN kept : kept[i] = t
  BY <1>5, <1>8
<1>16. \A t \in DOMAIN joins : Deps(joins, t) = {current} <=> \E i \in DOMAIN next : next[i] = t
  BY <1>9, <1>11
<1>17. Sorts(current, kept, next)
  BY <1>1, <1>2, <1>3, <1>4, <1>5, <1>6, <1>8, <1>11, <1>12, <1>13, <1>14, <1>15, <1>16 DEF Sorts, current
<1> QED
  BY <1>17

LEMMA SortGoesOn ==
    ASSUME JoinsInv, NEW current, NEW kept, NEW next, Sorts(current, kept, next)
    PROVE  JoinsInv'
<1> DEFINE front == Front1(startNodes)
           q == [i \in DOMAIN kept |-> joins[kept[i]].dependencies[current]]
<1>1. SortGraph /\ SortQueue /\ SortOrder
  BY DEF JoinsInv, Sorts
<1>2. DOMAIN joins' = DOMAIN joins /\ startNodes' = front \o next /\ sorted' = sorted \o q
  BY DEF Sorts
<1>3. current \in DOMAIN joins /\ Deps(joins, current) = {} /\ current \notin Done
  BY DEF Sorts
<1>4. \A t \in DOMAIN joins :
        /\ Refs(joins', t) = Refs(joins, t) /\ joins'[t].dependents = joins[t].dependents
        /\ Deps(joins', t) = Deps(joins, t) \ {current}
        /\ \A p \in Deps(joins', t) : joins'[t].dependencies[p] = joins[t].dependencies[p]
  BY DEF Sorts
<1>5. /\ startNodes \in Seq(DOMAIN joins) /\ Len(startNodes) \in DOMAIN startNodes
      /\ current = startNodes[Len(startNodes)] /\ front \in Seq(DOMAIN joins)
      /\ \A i \in DOMAIN front : i \in DOMAIN startNodes /\ i # Len(startNodes) /\ front[i] = startNodes[i]
      /\ \A i \in DOMAIN startNodes : i # Len(startNodes) => i \in DOMAIN front
  <2>1. startNodes \in Seq(DOMAIN joins) /\ startNodes # <<>> /\ current = Last1(startNodes)
    BY <1>1 DEF SortQueue, Sorts
  <2> QED
    BY <2>1, LastIs
<1>6. \A i, j \in DOMAIN front : front[i] = front[j] => i = j
  BY <1>1, <1>5 DEF SortQueue
<1>7. \A i \in DOMAIN front : Deps(joins, front[i]) = {} /\ front[i] # current
  BY <1>1, <1>5 DEF SortQueue
<1>8. /\ next \in Seq(DOMAIN joins)
      /\ \A i, j \in DOMAIN next : next[i] = next[j] => i = j
      /\ \A t \in DOMAIN joins : Deps(joins, t) = {current} <=> \E i \in DOMAIN next : next[i] = t
  BY DEF Sorts
<1>9. \A i \in DOMAIN next : next[i] \in DOMAIN joins /\ Deps(joins, next[i]) = {current}
  BY <1>8
<1> DEFINE after == front \o next
           Front(k) == k \in DOMAIN front /\ after[k] = front[k] /\ k <= Len(front)
           Next1(k) == k - Len(front) \in DOMAIN next /\ after[k] = next[k - Len(front)] /\ k > Len(front)
<1>10. /\ after \in Seq(DOMAIN joins)
       /\ \A i \in DOMAIN front : i \in DOMAIN after /\ after[i] = front[i]
       /\ \A i \in DOMAIN next : Len(front) + i \in DOMAIN after /\ after[Len(front) + i] = next[i]
       /\ \A k \in DOMAIN after : Front(k) \/ Next1(k)
  BY <1>5, <1>8, ConcatIs
<1>11. Len(front) \in Nat /\ DOMAIN after \subseteq Int
  BY <1>5, <1>10
<1> HIDE DEF after, front, q
(* What is done.                                                            *)
<1>12. \A p : p \in Ready' <=> (p \in Ready /\ p # current) \/ \E i \in DOMAIN next : next[i] = p
  <2>1. \A p : p \in Ready' <=> \E k \in DOMAIN after : after[k] = p
    BY <1>2 DEF Ready, after
  <2>2. \A p : (p \in Ready /\ p # current) <=> \E k \in DOMAIN front : front[k] = p
    BY <1>5, <1>7 DEF Ready
  <2>3. \A p : (\E k \in DOMAIN after : after[k] = p)
                 <=> (\E k \in DOMAIN front : front[k] = p) \/ (\E i \in DOMAIN next : next[i] = p)
    BY <1>10
  <2> QED
    BY <2>1, <2>2, <2>3
<1>13. \A p : p \in Done' <=> p \in Done \/ p = current
  <2>1. ASSUME NEW p \in DOMAIN joins PROVE p \in Done' <=> p \in Done \/ p = current
    <3>1. p \in Done' <=> Deps(joins', p) = {} /\ p \notin Ready'
      BY <1>2, <2>1 DEF Done
    <3>2. p \in Done <=> Deps(joins, p) = {} /\ p \notin Ready
      BY <2>1 DEF Done
    <3>3. Deps(joins', p) = Deps(joins, p) \ {current}
      BY <1>4, <2>1
    <3>4. CASE Deps(joins, p) = {current}
      <4>1. p \in Ready' /\ p # current
        BY <1>3, <1>8, <1>12, <2>1, <3>4
      <4> QED
        BY <3>1, <3>2, <3>4, <4>1
    <3>5. CASE Deps(joins, p) # {current}
      <4>1. Deps(joins', p) = {} <=> Deps(joins, p) = {}
        BY <3>3, <3>5
      <4>2. p \in Ready' <=> p \in Ready /\ p # current
        BY <1>8, <1>12, <2>1, <3>5
      <4> QED
        BY <1>3, <3>1, <3>2, <4>1, <4>2
    <3> QED
      BY <3>4, <3>5
  <2>2. \A p : p \in Done' \/ p \in Done \/ p = current => p \in DOMAIN joins
    BY <1>2, <1>3 DEF Done
  <2> QED
    BY <2>1, <2>2
<1>14. SortGraph'
  <2>1. IsFiniteSet(DOMAIN joins')
    BY <1>1, <1>2 DEF SortGraph
  <2>2. ASSUME NEW t \in DOMAIN joins', NEW p \in Deps(joins', t)
        PROVE  /\ p \in DOMAIN joins' /\ t \in Refs(joins', p)
               /\ joins'[t].dependencies[p] = joins'[p].dependents[t]
               /\ p \notin Done'
    <3>1. t \in DOMAIN joins /\ p \in Deps(joins, t) /\ p # current /\ joins'[t].dependencies[p] = joins[t].dependencies[p]
      BY <1>2, <1>4, <2>2
    <3>2. p \in DOMAIN joins /\ t \in Refs(joins, p) /\ joins[t].dependencies[p] = joins[p].dependents[t] /\ p \notin Done
      BY <1>1, <3>1 DEF SortGraph
    <3>3. Refs(joins', p) = Refs(joins, p) /\ joins'[p].dependents = joins[p].dependents
      BY <1>4, <3>2
    <3> QED
      BY <1>2, <1>13, <3>1, <3>2, <3>3
  <2>3. ASSUME NEW p \in DOMAIN joins', NEW t \in Refs(joins', p)
        PROVE  /\ t \in DOMAIN joins' /\ (p \in Done' \/ p \in Deps(joins', t))
               /\ joins'[p].dependents[t] \in Conditions
               /\ joins'[p].dependents[t].table = t /\ joins'[p].dependents[t].primary = p
    <3>1. p \in DOMAIN joins /\ t \in Refs(joins, p) /\ joins'[p].dependents = joins[p].dependents
      BY <1>2, <1>4, <2>3
    <3>2. /\ t \in DOMAIN joins /\ (p \in Done \/ p \in Deps(joins, t))
          /\ joins[p].dependents[t] \in Conditions
          /\ joins[p].dependents[t].table = t /\ joins[p].dependents[t].primary = p
      BY <1>1, <3>1 DEF SortGraph
    <3>3. Deps(joins', t) = Deps(joins, t) \ {current}
      BY <1>4, <3>2
    <3> QED
      BY <1>2, <1>13, <3>1, <3>2, <3>3
  <2> QED
    BY <2>1, <2>2, <2>3 DEF SortGraph
<1>15. SortQueue'
  <2>1. ASSUME NEW i \in DOMAIN after, NEW j \in DOMAIN after, after[i] = after[j] PROVE i = j
    <3>1. CASE Front(i) /\ Front(j)
      BY <1>6, <2>1, <3>1
    <3>2. CASE Next1(i) /\ Next1(j)
      <4>1. i - Len(front) = j - Len(front)
        BY <1>8, <2>1, <3>2
      <4> QED
        BY <1>11, <4>1
    <3>3. ~(Front(i) /\ Next1(j)) /\ ~(Next1(i) /\ Front(j))
      <4>1. \A k \in DOMAIN front : Deps(joins, front[k]) = {}
        BY <1>7
      <4>2. \A k \in DOMAIN next : Deps(joins, next[k]) # {}
        BY <1>9
      <4> QED
        BY <2>1, <4>1, <4>2
    <3> QED
      BY <1>10, <3>1, <3>2, <3>3
  <2>2. ASSUME NEW i \in DOMAIN after PROVE Deps(joins', after[i]) = {}
    <3>1. after[i] \in DOMAIN joins
      BY <1>10
    <3>2. Deps(joins, after[i]) = {} \/ Deps(joins, after[i]) = {current}
      BY <1>7, <1>9, <1>10
    <3>3. Deps(joins', after[i]) = Deps(joins, after[i]) \ {current}
      BY <1>4, <3>1
    <3> QED
      BY <3>2, <3>3
  <2>3. startNodes' = after
    BY <1>2 DEF after
  <2> QED
    BY <1>2, <1>10, <2>1, <2>2, <2>3 DEF SortQueue
(* What is placed.                                                          *)
<1>16. /\ kept \in Seq(DOMAIN joins) /\ \A i, j \in DOMAIN kept : kept[i] = kept[j] => i = j
       /\ \A t : t \in Refs(joins, current) <=> \E i \in DOMAIN kept : kept[i] = t
       /\ \A t \in DOMAIN joins : current \in Deps(joins, t) <=> t \in Refs(joins, current)
  BY DEF Sorts
<1>17. ASSUME NEW i \in DOMAIN kept
       PROVE  /\ kept[i] \in DOMAIN joins /\ kept[i] \in Refs(joins, current) /\ current \in Deps(joins, kept[i])
              /\ q[i] = joins[current].dependents[kept[i]] /\ q[i] \in Conditions
              /\ q[i].primary = current /\ q[i].table = kept[i]
  <2>1. kept[i] \in DOMAIN joins /\ kept[i] \in Refs(joins, current) /\ current \in Deps(joins, kept[i])
    BY <1>16, <1>17
  <2>2. q[i] = joins[kept[i]].dependencies[current]
    BY <1>17 DEF q
  <2>3. q[i] = joins[current].dependents[kept[i]]
    BY <1>1, <2>1, <2>2 DEF SortGraph
  <2> QED
    BY <1>1, <1>3, <2>1, <2>3 DEF SortGraph
<1>18. q \in Seq(Conditions) /\ DOMAIN q = DOMAIN kept
  <2>1. DOMAIN q = DOMAIN kept /\ DOMAIN kept = 1 .. Len(kept) /\ Len(kept) \in Nat
    BY <1>16 DEF q
  <2>2. q = [i \in 1 .. Len(kept) |-> q[i]]
    BY <2>1 DEF q
  <2>3. \A i \in 1 .. Len(kept) : q[i] \in Conditions
    BY <1>17, <2>1
  <2>4. q \in [1 .. Len(kept) -> Conditions]
    BY <2>2, <2>3
  <2> QED
    BY <2>1, <2>4
<1>19. \A c : c \in Placed' <=> c \in Placed \/ \E i \in DOMAIN kept : c = q[i]
  <2>1. \A c : c \in Placed' <=> c \in Conditions /\ \E p \in Done' : \E t \in Refs(joins', p) : c = joins'[p].dependents[t]
    BY DEF Placed
  <2>2. \A p \in Done' : p \in DOMAIN joins
    BY <1>3, <1>13 DEF Done
  <2>3. \A c : c \in Placed' <=> c \in Conditions /\ \E p \in Done' : \E t \in Refs(joins, p) : c = joins[p].dependents[t]
    BY <1>4, <2>1, <2>2
  <2>4. \A c : c \in Placed' <=> c \in Placed \/ (c \in Conditions /\ \E t \in Refs(joins, current) : c = joins[current].dependents[t])
    BY <1>13, <2>3 DEF Placed
  <2>5. \A c : (\E t \in Refs(joins, current) : c = joins[current].dependents[t]) <=> \E i \in DOMAIN kept : c = q[i]
    BY <1>16, <1>17
  <2>6. \A i \in DOMAIN kept : q[i] \in Conditions
    BY <1>17
  <2> QED
    BY <2>4, <2>5, <2>6
<1>20. \A i \in DOMAIN sorted : sorted[i].primary \in Done
  <2>1. \A i \in DOMAIN sorted : sorted[i] \in Placed
    BY <1>1 DEF SortOrder
  <2>2. Done \subseteq DOMAIN joins
    BY DEF Done
  <2> QED
    BY <1>1, <2>1, <2>2 DEF SortGraph, Placed
<1>21. Once(q)
  BY <1>16, <1>17, <1>18 DEF Once
<1>22. \A i \in DOMAIN q : q[i].primary = current /\ q[i].table # current
  BY <1>3, <1>17, <1>18
<1>23. \A i \in DOMAIN sorted : sorted[i].primary # current
  BY <1>3, <1>20
<1>24. \A i \in DOMAIN sorted : \A j \in DOMAIN q : q[j].table # sorted[i].primary
  BY <1>17, <1>18, <1>20 DEF Done
<1>25. sorted \in Seq(Conditions) /\ Once(sorted) /\ Together(sorted) /\ Precede(sorted)
  BY <1>1 DEF SortOrder
<1>26. SortOrder'
  <2>1. Once(sorted \o q) /\ Together(sorted \o q) /\ Precede(sorted \o q)
    BY <1>18, <1>21, <1>22, <1>23, <1>24, <1>25, AppendedSorted
  <2> DEFINE r == sorted \o q
  <2>2. /\ r \in Seq(Conditions)
        /\ \A i \in DOMAIN sorted : i \in DOMAIN r /\ r[i] = sorted[i]
        /\ \A i \in DOMAIN q : Len(sorted) + i \in DOMAIN r /\ r[Len(sorted) + i] = q[i]
        /\ \A k \in DOMAIN r : \/ k \in DOMAIN sorted /\ r[k] = sorted[k] /\ k <= Len(sorted)
                               \/ k - Len(sorted) \in DOMAIN q /\ r[k] = q[k - Len(sorted)] /\ k > Len(sorted)
    BY <1>18, <1>25, ConcatIs
  <2>3. sorted' = r
    BY <1>2
  <2> HIDE DEF r
  <2>4. \A k \in DOMAIN r : r[k] \in Placed'
    BY <1>1, <1>18, <1>19, <2>2 DEF SortOrder
  <2>5. ASSUME NEW c \in Placed' PROVE \E k \in DOMAIN r : r[k] = c
    <3>1. CASE c \in Placed
      BY <1>1, <2>2, <3>1 DEF SortOrder
    <3>2. CASE \E i \in DOMAIN kept : c = q[i]
      BY <1>18, <2>2, <3>2
    <3> QED
      BY <1>19, <3>1, <3>2
  <2>6. Once(r) /\ Together(r) /\ Precede(r)
    BY <2>1 DEF r
  <2> QED
    BY <2>2, <2>3, <2>4, <2>5, <2>6 DEF SortOrder, Once, Together, Precede
<1>27. stage' = "sort"
  BY DEF Sorts
<1> QED
  BY <1>14, <1>15, <1>26, <1>27 DEF JoinsInv

(* JoinsInv is inductive.                                                   *)
LEMMA JoinsInductive ==
    ASSUME JoinsInv, [JoinsNext]_joinVars
    PROVE  JoinsInv'
<1>1. CASE UNCHANGED joinVars
  <2>1. stage' = stage /\ joins' = joins /\ startNodes' = startNodes /\ sorted' = sorted
    BY <1>1 DEF joinVars
  <2>2. Ready' = Ready /\ Done' = Done
    BY <2>1 DEF Ready, Done
  <2>3. Placed' = Placed
    BY <2>1, <2>2 DEF Placed
  <2>4. SortGraph' = SortGraph
    BY <2>1, <2>2 DEF SortGraph
  <2>5. SortQueue' = SortQueue
    BY <2>1 DEF SortQueue
  <2>6. SortOrder' = SortOrder
    BY <2>1, <2>3 DEF SortOrder
  <2> QED
    BY <2>1, <2>4, <2>5, <2>6 DEF JoinsInv
<1>2. CASE NoJoins
  BY <1>2 DEF NoJoins, JoinsInv
<1>3. CASE BeginJoins
  <2>1. stage' = "walk" /\ DOMAIN joins' = {}
    BY <1>3 DEF BeginJoins, Empty
  <2>2. IsFiniteSet({})
    BY FS_EmptySet
  <2> QED
    BY <2>1, <2>2 DEF JoinsInv, IsGraph
<1>4. CASE StartSort
  BY <1>4, SortStarts
<1>5. CASE EndJoins
  BY <1>5 DEF EndJoins, JoinsInv
<1>6. CASE AddsJoin
  <2> PICK c \in Conditions : AddJoin(c)
    BY <1>6 DEF AddsJoin
  <2>1. IsGraph(joins) /\ joins' = Join(joins, c) /\ stage' = "walk"
    BY DEF AddJoin, JoinsInv
  <2>2. IsGraph(Join(joins, c))
    BY <2>1, JoinKeepsGraph
  <2> QED
    BY <2>1, <2>2 DEF JoinsInv
<1>7. ASSUME NEW order, SortStep(order) PROVE JoinsInv'
  <2>1. PICK current, kept, next : Sorts(current, kept, next)
    BY <1>7, StepSorts
  <2> QED
    BY <2>1, SortGoesOn
<1> QED
  BY <1>1, <1>2, <1>3, <1>4, <1>5, <1>6, <1>7 DEF JoinsNext

-----------------------------------------------------------------------------
(* The clauses.                                                             *)

Clause == [table : STRING, on : SUBSET Conditions]

(* The clauses of the first conditions.                                     *)
Grouped(s, n, b) ==
    /\ b \in Seq(Clause)
    /\ \A i \in 1 .. n : \E k \in DOMAIN b : s[i] \in b[k].on
    /\ \A k \in DOMAIN b : \A c \in b[k].on : c.primary = b[k].table /\ \E i \in 1 .. n : s[i] = c
    /\ \A k \in DOMAIN b : b[k].on # {}
    /\ \A k, l \in DOMAIN b : k < l => \A i, j \in 1 .. n : s[i] \in b[k].on /\ s[j] \in b[l].on => i < j
    /\ n # 0 => b # <<>> /\ s[n] \in b[Len(b)].on
    /\ \A k, l \in DOMAIN b : k < l => b[k].table # b[l].table

(* A condition opens a clause.                                              *)
LEMMA ClauseOpened ==
    ASSUME NEW s \in Seq(Conditions), Once(s), Together(s), NEW n \in Nat, n < Len(s), NEW b, Grouped(s, n, b),
           b = <<>> \/ Last1(b).table # s[n + 1].primary
    PROVE  Grouped(s, n + 1, Append(b, [table |-> s[n + 1].primary, on |-> {s[n + 1]}]))
<1> DEFINE c == s[n + 1]
           new == [table |-> c.primary, on |-> {c}]
           r == Append(b, new)
           m == Len(b)
<1>1. b \in Seq(Clause) /\ m \in Nat /\ DOMAIN b = 1 .. m
  BY DEF Grouped
<1>2. c \in Conditions /\ new \in Clause /\ new.table = c.primary /\ new.on = {c}
  <2>1. c \in Conditions
    OBVIOUS
  <2> HIDE DEF c
  <2>2. c.primary \in STRING
    BY <2>1 DEF Conditions
  <2> QED
    BY <2>1, <2>2 DEF Clause
<1> HIDE DEF new
<1>3. r \in Seq(Clause) /\ DOMAIN r = 1 .. m + 1 /\ r[m + 1] = new /\ Len(r) = m + 1 /\ \A k \in 1 .. m : r[k] = b[k]
  BY <1>1, <1>2, AppendProperties
<1> HIDE DEF r
<1>4. DOMAIN s = 1 .. Len(s) /\ Len(s) \in Nat /\ 1 .. n + 1 \subseteq DOMAIN s /\ 1 .. n + 1 = (1 .. n) \cup {n + 1}
  OBVIOUS
<1>5. \A i \in 1 .. n : s[i] # c
  BY <1>4 DEF Once
<1> HIDE DEF c, m
<1>6. \A k \in 1 .. m : c \notin b[k].on
  BY <1>1, <1>5 DEF Grouped
<1>7. \A k \in 1 .. m : b[k].table # c.primary
  <2>1. ASSUME NEW k \in 1 .. m, b[k].table = c.primary PROVE FALSE
    <3>1. m \in DOMAIN b /\ k \in DOMAIN b /\ b # <<>> /\ b[m].table # c.primary
      BY <1>1, <2>1 DEF Last1, m, c
    <3>2. k < m
      BY <1>1, <2>1, <3>1
    <3>3. PICK d \in b[k].on : d.primary = c.primary /\ \E i \in 1 .. n : s[i] = d
      BY <2>1, <3>1 DEF Grouped
    <3>4. PICK i \in 1 .. n : s[i] = d
      BY <3>3
    <3>5. n # 0 /\ n \in 1 .. n /\ s[n] \in b[m].on
      BY <3>4 DEF Grouped, m
    <3>6. s[n].primary = b[m].table
      BY <3>1, <3>5 DEF Grouped
    <3>7. i < n
      BY <3>1, <3>2, <3>3, <3>4, <3>5 DEF Grouped
    <3>8. i \in DOMAIN s /\ n \in DOMAIN s /\ n + 1 \in DOMAIN s /\ n < n + 1
      BY <1>4, <3>5
    <3>9. s[i].primary = s[n + 1].primary
      BY <3>3, <3>4 DEF c
    <3>10. s[n].primary = s[i].primary
      BY <3>7, <3>8, <3>9 DEF Together
    <3> QED
      BY <3>1, <3>3, <3>4, <3>6, <3>10
  <2> QED
    BY <2>1
<1>8. \A i \in 1 .. n + 1 : \E k \in DOMAIN r : s[i] \in r[k].on
  <2>1. s[n + 1] \in r[m + 1].on
    BY <1>2, <1>3 DEF c
  <2>2. \A i \in 1 .. n : \E k \in 1 .. m : s[i] \in r[k].on
    BY <1>1, <1>3 DEF Grouped
  <2>3. m + 1 \in DOMAIN r /\ 1 .. m \subseteq DOMAIN r
    BY <1>1, <1>3
  <2> QED
    BY <1>4, <2>1, <2>2, <2>3
<1>9. \A k \in DOMAIN r : \A d \in r[k].on : d.primary = r[k].table /\ \E i \in 1 .. n + 1 : s[i] = d
  <2>1. ASSUME NEW k \in DOMAIN r, NEW d \in r[k].on PROVE d.primary = r[k].table /\ \E i \in 1 .. n + 1 : s[i] = d
    <3>1. CASE k = m + 1
      BY <1>2, <1>3, <1>4, <2>1, <3>1 DEF c
    <3>2. CASE k \in 1 .. m
      <4>1. k \in DOMAIN b /\ r[k] = b[k]
        BY <1>1, <1>3, <3>2
      <4>2. d.primary = b[k].table /\ \E i \in 1 .. n : s[i] = d
        BY <2>1, <4>1 DEF Grouped
      <4> QED
        BY <1>4, <4>1, <4>2
    <3>3. k \in 1 .. m + 1 /\ m \in Nat
      BY <1>1, <1>3, <2>1
    <3>4. k = m + 1 \/ k \in 1 .. m
      BY <3>3
    <3> QED
      BY <3>1, <3>2, <3>4
  <2> QED
    BY <2>1
<1>10. \A k \in DOMAIN r : r[k].on # {}
  <2>1. \A k \in 1 .. m : r[k].on # {}
    BY <1>1, <1>3 DEF Grouped
  <2>2. r[m + 1].on # {}
    BY <1>2, <1>3
  <2> QED
    BY <1>1, <1>3, <2>1, <2>2
<1>11. ASSUME NEW k \in DOMAIN r, NEW l \in DOMAIN r, k < l
       PROVE  /\ r[k].table # r[l].table
              /\ \A i, j \in 1 .. n + 1 : s[i] \in r[k].on /\ s[j] \in r[l].on => i < j
  <2>1. k \in 1 .. m /\ r[k] = b[k]
    BY <1>1, <1>3, <1>11
  <2>2. CASE l = m + 1
    <3>1. r[k].table # r[l].table
      BY <1>2, <1>3, <1>7, <2>1, <2>2
    <3>2. ASSUME NEW i \in 1 .. n + 1, NEW j \in 1 .. n + 1, s[i] \in r[k].on, s[j] \in r[l].on PROVE i < j
      <4>1. s[j] = c
        BY <1>2, <1>3, <2>2, <3>2
      <4>2. j = n + 1
        BY <1>4, <1>5, <4>1
      <4>3. i # n + 1
        BY <1>6, <2>1, <3>2 DEF c
      <4> QED
        BY <4>2, <4>3
    <3> QED
      BY <3>1, <3>2
  <2>3. CASE l \in 1 .. m
    <3>1. r[l] = b[l] /\ r[k].table # r[l].table
      BY <1>1, <1>3, <1>11, <2>1, <2>3 DEF Grouped
    <3>2. ASSUME NEW i \in 1 .. n + 1, NEW j \in 1 .. n + 1, s[i] \in r[k].on, s[j] \in r[l].on PROVE i < j
      <4>1. i \in 1 .. n /\ j \in 1 .. n
        BY <1>4, <1>6, <2>1, <2>3, <3>1, <3>2 DEF c
      <4> QED
        BY <1>1, <1>11, <2>1, <2>3, <3>1, <3>2, <4>1 DEF Grouped
    <3> QED
      BY <3>1, <3>2
  <2> QED
    BY <1>1, <1>3, <2>2, <2>3
<1>12. r # <<>> /\ s[n + 1] \in r[Len(r)].on
  BY <1>1, <1>2, <1>3 DEF c
<1> QED
  BY <1>3, <1>8, <1>9, <1>10, <1>11, <1>12 DEF Grouped, r, new, c

(* A condition joins the last clause.                                       *)
LEMMA ClauseShared ==
    ASSUME NEW s \in Seq(Conditions), Once(s), NEW n \in Nat, n < Len(s), NEW b, Grouped(s, n, b),
           b # <<>>, Last1(b).table = s[n + 1].primary
    PROVE  Grouped(s, n + 1, Append(Front1(b), [table |-> s[n + 1].primary, on |-> Last1(b).on \cup {s[n + 1]}]))
<1> DEFINE c == s[n + 1]
           new == [table |-> c.primary, on |-> Last1(b).on \cup {c}]
           m == Len(b)
           r == Append(Front1(b), new)
<1>1. b \in Seq(Clause) /\ m \in Nat \ {0} /\ DOMAIN b = 1 .. m
  BY DEF Grouped
<1>2. Last1(b) = b[m] /\ b[m] \in Clause /\ b[m].table = c.primary /\ b[m].on \subseteq Conditions
  <2>1. Last1(b) = b[m] /\ b[m] \in Clause /\ b[m].table = c.primary
    BY <1>1 DEF Last1
  <2> QED
    BY <2>1 DEF Clause
<1>3. c \in Conditions /\ new \in Clause /\ new.table = b[m].table /\ new.on = b[m].on \cup {c}
  <2>1. c \in Conditions
    OBVIOUS
  <2> HIDE DEF c
  <2>2. c.primary \in STRING
    BY <2>1 DEF Conditions
  <2> QED
    BY <1>2, <2>1, <2>2 DEF Clause
<1>4. /\ Front1(b) \in Seq(Clause) /\ Len(Front1(b)) = m - 1
      /\ \A k \in 1 .. m - 1 : Front1(b)[k] = b[k]
  <2>1. \A k \in 1 .. m - 1 : b[k] \in Clause
    BY <1>1
  <2>2. /\ SubSeq(b, 1, m - 1) \in Seq(Clause)
        /\ Len(SubSeq(b, 1, m - 1)) = IF 1 <= m - 1 THEN (m - 1) - 1 + 1 ELSE 0
        /\ \A i \in 1 .. (m - 1) - 1 + 1 : SubSeq(b, 1, m - 1)[i] = b[1 + i - 1]
    <3> HIDE DEF m
    <3> QED
      BY <1>1, <2>1, SubSeqProperties
  <2> QED
    BY <1>1, <2>2 DEF Front1
<1> HIDE DEF new
<1>5. r \in Seq(Clause) /\ DOMAIN r = 1 .. m /\ Len(r) = m /\ r[m] = new /\ \A k \in 1 .. m - 1 : r[k] = b[k]
  <2>1. /\ r \in Seq(Clause) /\ Len(r) = Len(Front1(b)) + 1
        /\ \A i \in 1 .. Len(Front1(b)) : r[i] = Front1(b)[i]
        /\ r[Len(Front1(b)) + 1] = new
    BY <1>3, <1>4, AppendProperties
  <2> HIDE DEF r
  <2> QED
    BY <1>1, <1>4, <2>1
<1> HIDE DEF r
<1>6. DOMAIN s = 1 .. Len(s) /\ Len(s) \in Nat /\ 1 .. n + 1 \subseteq DOMAIN s /\ 1 .. n + 1 = (1 .. n) \cup {n + 1}
  OBVIOUS
<1>7. \A i \in 1 .. n : s[i] # c
  BY <1>6 DEF Once
<1> HIDE DEF c
<1>8. \A k \in 1 .. m : c \notin b[k].on
  BY <1>1, <1>7 DEF Grouped
<1>9. \A k \in 1 .. m : r[k].table = b[k].table /\ r[k].on = IF k = m THEN b[k].on \cup {c} ELSE b[k].on
  <2>1. \A k \in 1 .. m : k = m \/ k \in 1 .. m - 1
    BY <1>1
  <2> HIDE DEF m
  <2> QED
    BY <1>1, <1>3, <1>5, <2>1
<1>10. s[n + 1] = c /\ m \in 1 .. m
  BY <1>1 DEF c
<1>11. m = Len(b)
  OBVIOUS
<1> HIDE DEF m
<1>12. \A i \in 1 .. n + 1 : \E k \in DOMAIN r : s[i] \in r[k].on
  <2>1. s[n + 1] \in r[m].on
    BY <1>9, <1>10
  <2>2. ASSUME NEW i \in 1 .. n PROVE \E k \in 1 .. m : s[i] \in r[k].on
    <3>1. PICK k \in 1 .. m : s[i] \in b[k].on
      BY <1>1, <2>2 DEF Grouped
    <3> QED
      BY <1>9, <3>1
  <2> QED
    BY <1>5, <1>6, <1>10, <2>1, <2>2
<1>13. \A k \in DOMAIN r : \A d \in r[k].on : d.primary = r[k].table /\ \E i \in 1 .. n + 1 : s[i] = d
  <2>1. ASSUME NEW k \in DOMAIN r, NEW d \in r[k].on PROVE d.primary = r[k].table /\ \E i \in 1 .. n + 1 : s[i] = d
    <3>1. k \in 1 .. m /\ (d \in b[k].on \/ (k = m /\ d = c)) /\ r[k].table = b[k].table
      BY <1>5, <1>9, <2>1
    <3>2. CASE k = m /\ d = c
      BY <1>2, <1>6, <1>10, <3>1, <3>2
    <3>3. CASE d \in b[k].on
      <4>1. d.primary = b[k].table /\ \E i \in 1 .. n : s[i] = d
        BY <1>1, <3>1, <3>3 DEF Grouped
      <4> QED
        BY <1>6, <3>1, <4>1
    <3> QED
      BY <3>1, <3>2, <3>3
  <2> QED
    BY <2>1
<1>14. \A k \in DOMAIN r : r[k].on # {}
  <2>1. ASSUME NEW k \in 1 .. m PROVE r[k].on # {}
    <3>1. b[k].on # {}
      BY <1>1, <2>1 DEF Grouped
    <3> QED
      BY <1>9, <2>1, <3>1
  <2> QED
    BY <1>5, <2>1
<1>15. ASSUME NEW k \in DOMAIN r, NEW l \in DOMAIN r, k < l
       PROVE  /\ r[k].table # r[l].table
              /\ \A i, j \in 1 .. n + 1 : s[i] \in r[k].on /\ s[j] \in r[l].on => i < j
  <2>1. k \in 1 .. m /\ l \in 1 .. m /\ k # m
    BY <1>1, <1>5, <1>15
  <2>2. b[k].table # b[l].table
    BY <1>1, <1>15, <2>1 DEF Grouped
  <2>3. ASSUME NEW i \in 1 .. n + 1, NEW j \in 1 .. n + 1, s[i] \in r[k].on, s[j] \in r[l].on PROVE i < j
    <3>1. s[i] \in b[k].on
      BY <1>9, <2>1, <2>3
    <3>2. i \in 1 .. n
      BY <1>6, <1>8, <1>10, <2>1, <3>1
    <3>3. CASE s[j] \in b[l].on
      <4>1. j \in 1 .. n
        BY <1>6, <1>8, <1>10, <2>1, <3>3
      <4> QED
        BY <1>1, <1>15, <2>1, <3>1, <3>2, <3>3, <4>1 DEF Grouped
    <3>4. CASE s[j] \notin b[l].on
      <4>1. s[j] = c
        BY <1>9, <2>1, <2>3, <3>4
      <4>2. j = n + 1
        BY <1>6, <1>7, <4>1
      <4> QED
        BY <3>2, <4>2
    <3> QED
      BY <3>3, <3>4
  <2> QED
    BY <1>9, <2>1, <2>2, <2>3
<1>16. r # <<>> /\ s[n + 1] \in r[Len(r)].on
  <2>1. s[n + 1] \in r[m].on
    BY <1>9, <1>10
  <2>2. r # <<>>
    BY <1>1, <1>5
  <2> QED
    BY <1>5, <2>1, <2>2
<1>17. Grouped(s, n + 1, r)
  BY <1>5, <1>12, <1>13, <1>14, <1>15, <1>16 DEF Grouped
<1> QED
  BY <1>17 DEF r, new, c

LEMMA ClauseNext ==
    ASSUME NEW s \in Seq(Conditions), Once(s), Together(s), NEW n \in Nat, n < Len(s), NEW b, Grouped(s, n, b)
    PROVE  Grouped(s, n + 1, WithClause(b, s[n + 1]))
<1>1. CASE b # <<>> /\ Last1(b).table = s[n + 1].primary
  BY <1>1, ClauseShared DEF WithClause
<1>2. CASE b = <<>> \/ Last1(b).table # s[n + 1].primary
  BY <1>2, ClauseOpened DEF WithClause
<1> QED
  BY <1>1, <1>2

(* What holds at 0 and goes on from each step to the next holds up to n.    *)
LEMMA CountUp ==
    ASSUME NEW n \in Nat, NEW P, 0 \in P, \A m \in 0 .. n : m < n /\ m \in P => m + 1 \in P
    PROVE  \A m \in 0 .. n : m \in P
<1> DEFINE Left == {m \in 0 .. n : m \notin P}
<1> SUFFICES ASSUME Left # {} PROVE FALSE
  OBVIOUS
<1>1. Left \subseteq Nat
  OBVIOUS
<1>2. PICK m \in Left : \A k \in Left : ~(<<k, m>> \in OpToRel(<, Nat))
  BY <1>1, WFMin, NatLessThanWellFounded, Zenon
<1>3. \A k \in Left : ~(k < m)
  BY <1>1, <1>2, Zenon DEF OpToRel
<1>4. m # 0 /\ m - 1 \in 0 .. n /\ m - 1 < n /\ (m - 1) + 1 = m
  OBVIOUS
<1>5. m - 1 \in P
  BY <1>3, <1>4
<1> QED
  BY <1>4, <1>5

(* The clauses of each of the first conditions.                             *)
ClausesUpTo(s, m, f) ==
    f = [n \in 0 .. m |-> IF n = 0 THEN <<>> ELSE WithClause(f[n - 1], s[n])]

LEMMA ClausesExist ==
    ASSUME NEW s, NEW N \in Nat
    PROVE  \E f : ClausesUpTo(s, N, f)
<1> DEFINE P == {m \in 0 .. N : \E f : ClausesUpTo(s, m, f)}
<1>1. 0 \in P
  <2> DEFINE g == [n \in 0 .. 0 |-> <<>>]
  <2>1. \A n \in 0 .. 0 : n = 0
    OBVIOUS
  <2>2. ClausesUpTo(s, 0, g)
    BY <2>1 DEF ClausesUpTo
  <2> HIDE DEF g
  <2> QED
    BY <2>2
<1>2. ASSUME NEW m \in 0 .. N, m < N, m \in P PROVE m + 1 \in P
  <2>1. PICK f : ClausesUpTo(s, m, f)
    BY <1>2
  <2> DEFINE g == [n \in 0 .. m + 1 |-> IF n = m + 1 THEN WithClause(f[m], s[m + 1]) ELSE f[n]]
  <2>2. \A n \in 0 .. m : f[n] = IF n = 0 THEN <<>> ELSE WithClause(f[n - 1], s[n])
    BY <2>1 DEF ClausesUpTo
  <2>3. ASSUME NEW n \in 0 .. m + 1 PROVE g[n] = IF n = 0 THEN <<>> ELSE WithClause(g[n - 1], s[n])
    <3>1. n \in 0 .. m \/ n = m + 1
      BY <1>2, <2>3
    <3>2. CASE n = m + 1
      <4>1. n # 0 /\ n - 1 = m /\ m \in 0 .. m + 1 /\ m # m + 1
        BY <1>2, <3>2
      <4>2. g[m] = f[m]
        BY <4>1
      <4> QED
        BY <3>2, <4>1, <4>2
    <3>3. CASE n \in 0 .. m /\ n = 0
      BY <1>2, <2>2, <3>3
    <3>4. CASE n \in 0 .. m /\ n # 0
      <4>1. n - 1 \in 0 .. m + 1 /\ n - 1 # m + 1 /\ n # m + 1
        BY <1>2, <3>4
      <4>2. g[n - 1] = f[n - 1] /\ g[n] = f[n]
        BY <2>3, <4>1
      <4> QED
        BY <2>2, <3>4, <4>2
    <3> QED
      BY <3>1, <3>2, <3>3, <3>4
  <2>4. g = [n \in 0 .. m + 1 |-> IF n = 0 THEN <<>> ELSE WithClause(g[n - 1], s[n])]
    BY <2>3
  <2>5. ClausesUpTo(s, m + 1, g)
    <3> HIDE DEF g
    <3> QED
      BY <2>4 DEF ClausesUpTo
  <2>6. m + 1 \in 0 .. N
    BY <1>2
  <2> HIDE DEF g
  <2> QED
    BY <2>5, <2>6
<1> HIDE DEF P
<1>3. \A m \in 0 .. N : m < N /\ m \in P => m + 1 \in P
  BY <1>2
<1>4. \A m \in 0 .. N : m \in P
  BY <1>1, <1>3, CountUp
<1> QED
  BY <1>4 DEF P

LEMMA ClausesAre ==
    ASSUME NEW s \in Seq(Conditions), Once(s), Together(s)
    PROVE  Grouped(s, Len(s), Clauses(s))
<1> DEFINE N == Len(s)
           f == CHOOSE f : ClausesUpTo(s, N, f)
           P == {n \in 0 .. N : Grouped(s, n, f[n])}
<1>1. N \in Nat
  OBVIOUS
<1>2. Clauses(s) = f[N]
  BY DEF Clauses, ClausesUpTo
<1>3. ClausesUpTo(s, N, f)
  <2> HIDE DEF N
  <2> QED
    BY <1>1, ClausesExist
<1> HIDE DEF f
<1>4. \A n \in 0 .. N : f[n] = IF n = 0 THEN <<>> ELSE WithClause(f[n - 1], s[n])
  BY <1>3 DEF ClausesUpTo
<1>5. 0 \in P
  <2>1. f[0] = <<>> /\ 0 \in 0 .. N
    BY <1>1, <1>4
  <2>2. Grouped(s, 0, <<>>)
    BY DEF Grouped
  <2> QED
    BY <2>1, <2>2
<1>6. ASSUME NEW m \in 0 .. N, m < N, m \in P PROVE m + 1 \in P
  <2>1. m + 1 \in 0 .. N /\ m + 1 # 0 /\ (m + 1) - 1 = m /\ m \in Nat
    BY <1>1, <1>6
  <2>2. f[m + 1] = WithClause(f[m], s[m + 1])
    BY <1>4, <2>1
  <2>3. Grouped(s, m, f[m])
    BY <1>6
  <2>4. Grouped(s, m + 1, f[m + 1])
    BY <1>6, <2>1, <2>2, <2>3, ClauseNext
  <2> QED
    BY <2>1, <2>4
<1> HIDE DEF P
<1>7. \A m \in 0 .. N : m \in P
  <2>1. \A m \in 0 .. N : m < N /\ m \in P => m + 1 \in P
    BY <1>6
  <2> HIDE DEF N
  <2> QED
    BY <1>1, <1>5, <2>1, CountUp
<1> QED
  BY <1>1, <1>2, <1>7 DEF P

-----------------------------------------------------------------------------
(* The order of the clauses.                                                *)

LEMMA ReversedIs ==
    ASSUME NEW s \in Seq(Conditions), Once(s), Together(s), Precede(s)
    PROVE  /\ ReverseSeq(s) \in Seq(Conditions)
           /\ Once(ReverseSeq(s)) /\ Together(ReverseSeq(s))
           /\ \A i, j \in DOMAIN ReverseSeq(s) : ReverseSeq(s)[i].table = ReverseSeq(s)[j].primary => j < i
           /\ \A i \in DOMAIN ReverseSeq(s) : \E k \in DOMAIN s : ReverseSeq(s)[i] = s[k]
           /\ \A k \in DOMAIN s : \E i \in DOMAIN ReverseSeq(s) : ReverseSeq(s)[i] = s[k]
<1> DEFINE r == ReverseSeq(s)
           n == Len(s)
           At(i) == n + 1 - i
<1>1. n \in Nat /\ DOMAIN s = 1 .. n
  OBVIOUS
<1>2. DOMAIN r = 1 .. n /\ \A i \in 1 .. n : r[i] = s[At(i)]
  BY <1>1 DEF ReverseSeq
<1> HIDE DEF n
<1>3. /\ \A i \in 1 .. n : At(i) \in 1 .. n /\ At(At(i)) = i
      /\ \A i, j \in 1 .. n : (At(i) = At(j) => i = j) /\ (i < j <=> At(j) < At(i))
  BY <1>1
<1>4. r \in Seq(Conditions)
  <2>1. r = [i \in 1 .. n |-> r[i]]
    BY <1>1 DEF ReverseSeq
  <2>2. \A i \in 1 .. n : r[i] \in Conditions
    BY <1>1, <1>2, <1>3
  <2> HIDE DEF r
  <2>3. r \in [1 .. n -> Conditions]
    BY <2>1, <2>2
  <2> QED
    BY <1>1, <2>3
<1> HIDE DEF r, At
<1>5. Once(r)
  BY <1>1, <1>2, <1>3 DEF Once
<1>6. Together(r)
  <2>1. ASSUME NEW i \in 1 .. n, NEW j \in 1 .. n, NEW k \in 1 .. n, i < j, j < k, r[i].primary = r[k].primary
        PROVE  r[j].primary = r[i].primary
    <3>1. At(k) \in 1 .. n /\ At(j) \in 1 .. n /\ At(i) \in 1 .. n /\ At(k) < At(j) /\ At(j) < At(i)
      BY <1>3, <2>1
    <3>2. s[At(k)].primary = s[At(i)].primary
      BY <1>2, <2>1
    <3>3. s[At(j)].primary = s[At(k)].primary
      BY <1>1, <3>1, <3>2 DEF Together
    <3> QED
      BY <1>2, <2>1, <3>3
  <2> QED
    BY <1>2, <2>1 DEF Together
<1>7. \A i, j \in 1 .. n : r[i].table = r[j].primary => j < i
  <2>1. ASSUME NEW i \in 1 .. n, NEW j \in 1 .. n, r[i].table = r[j].primary PROVE j < i
    <3>1. At(i) \in 1 .. n /\ At(j) \in 1 .. n /\ s[At(i)].table = s[At(j)].primary
      BY <1>2, <1>3, <2>1
    <3>2. At(i) < At(j)
      BY <1>1, <3>1 DEF Precede
    <3> QED
      BY <1>3, <2>1, <3>2
  <2> QED
    BY <2>1
<1>8. \A k \in 1 .. n : At(k) \in 1 .. n /\ r[At(k)] = s[k]
  BY <1>2, <1>3
<1>9. \A i \in 1 .. n : \E k \in 1 .. n : r[i] = s[k]
  BY <1>2, <1>3
<1> QED
  BY <1>1, <1>2, <1>4, <1>5, <1>6, <1>7, <1>8, <1>9 DEF r

(* A table that is not done refers to another one: they are on a cycle.     *)
LEMMA AllDone ==
    ASSUME SortGraph, startNodes = <<>>, IsAcyclic(ConditionsOf(joins))
    PROVE  Placed = ConditionsOf(joins)
<1> DEFINE conditions == ConditionsOf(joins)
           S == {c.table : c \in {d \in conditions : d.primary \notin Done}}
<1>1. \A c : c \in conditions <=> \E p \in DOMAIN joins : \E t \in Refs(joins, p) : c = joins[p].dependents[t]
  BY DEF ConditionsOf, Refs
<1>2. \A c \in conditions : c \in Conditions /\ c.primary \in DOMAIN joins /\ c.table \in Refs(joins, c.primary)
                              /\ c = joins[c.primary].dependents[c.table]
  BY <1>1 DEF SortGraph
<1>3. \A p : p \in Done <=> p \in DOMAIN joins /\ Deps(joins, p) = {}
  <2>1. DOMAIN startNodes = {}
    OBVIOUS
  <2> QED
    BY <2>1 DEF Done, Ready
<1> HIDE DEF conditions
<1>4. \A c \in conditions : c.primary \in Done
  <2> SUFFICES ASSUME S # {} PROVE FALSE
    OBVIOUS
  <2>1. S \in SUBSET TablesOf(conditions)
    BY DEF TablesOf
  <2>2. PICK t \in S : \A c \in conditions : c.table = t => c.primary \notin S
    <3>1. IsAcyclic(conditions)
      BY DEF conditions
    <3> HIDE DEF S
    <3> QED
      BY <2>1, <3>1 DEF IsAcyclic
  <2>3. PICK c \in conditions : c.table = t /\ c.primary \notin Done
    OBVIOUS
  <2>4. c.primary \in DOMAIN joins /\ Deps(joins, c.primary) # {}
    BY <1>2, <1>3, <2>3
  <2>5. PICK r \in Deps(joins, c.primary) : TRUE
    BY <2>4
  <2>6. /\ r \in DOMAIN joins /\ c.primary \in Refs(joins, r) /\ r \notin Done
    BY <2>4, <2>5 DEF SortGraph
  <2> DEFINE d == joins[r].dependents[c.primary]
  <2>7. d.table = c.primary /\ d.primary = r /\ d \in conditions
    BY <1>1, <2>6 DEF SortGraph
  <2>8. c.primary \in S
    BY <2>6, <2>7
  <2> QED
    BY <2>2, <2>3, <2>8
<1>5. \A c : c \in Placed <=> c \in Conditions /\ \E p \in Done : \E t \in Refs(joins, p) : c = joins[p].dependents[t]
  BY DEF Placed
<1>6. \A c : c \in Placed => c \in conditions
  BY <1>1, <1>3, <1>5
<1>7. \A c : c \in conditions => c \in Placed
  BY <1>2, <1>4, <1>5
<1> QED
  BY <1>6, <1>7 DEF conditions

LEMMA SortedWhenDone ==
    ASSUME JoinsInv
    PROVE  JoinsSorted
<1> SUFFICES ASSUME stage = "sort", startNodes = <<>>, IsAcyclic(ConditionsOf(joins))
             PROVE  LET clauses == Clauses(ReverseSeq(sorted))
                        known(k) == {clauses[m].table : m \in 1 .. k}
                    IN  /\ UNION {clauses[k].on : k \in DOMAIN clauses} = ConditionsOf(joins)
                        /\ \A k \in DOMAIN clauses :
                              /\ clauses[k].table \notin known(k - 1)
                              /\ \A c \in clauses[k].on :
                                    /\ c.primary = clauses[k].table
                                    /\ c.table \in known(k - 1) \/ \A d \in ConditionsOf(joins) : d.primary # c.table
  BY DEF JoinsSorted
<1> DEFINE s == ReverseSeq(sorted)
           clauses == Clauses(s)
           conditions == ConditionsOf(joins)
           known(k) == {clauses[m].table : m \in 1 .. k}
<1>1. SortGraph /\ SortOrder
  BY DEF JoinsInv
<1>2. /\ s \in Seq(Conditions) /\ Once(s) /\ Together(s)
      /\ \A i, j \in DOMAIN s : s[i].table = s[j].primary => j < i
      /\ \A i \in DOMAIN s : \E k \in DOMAIN sorted : s[i] = sorted[k]
      /\ \A k \in DOMAIN sorted : \E i \in DOMAIN s : s[i] = sorted[k]
  BY <1>1, ReversedIs DEF SortOrder
<1>3. \A c : c \in conditions <=> \E i \in DOMAIN s : s[i] = c
  <2>1. Placed = conditions
    BY <1>1, AllDone
  <2> HIDE DEF conditions, s
  <2> QED
    BY <1>1, <1>2, <2>1 DEF SortOrder
<1> HIDE DEF s
<1>4. Grouped(s, Len(s), clauses)
  BY <1>2, ClausesAre
<1> HIDE DEF clauses, conditions
<1>5. DOMAIN s = 1 .. Len(s) /\ Len(s) \in Nat
  BY <1>2
<1>6. DOMAIN clauses = 1 .. Len(clauses) /\ Len(clauses) \in Nat
  BY <1>4 DEF Grouped
<1>7. \A c : (\E k \in DOMAIN clauses : c \in clauses[k].on) <=> c \in conditions
  BY <1>3, <1>4, <1>5 DEF Grouped
<1>8. UNION {clauses[k].on : k \in DOMAIN clauses} = conditions
  BY <1>7
<1>9. ASSUME NEW k \in DOMAIN clauses PROVE clauses[k].table \notin known(k - 1)
  <2>1. \A m \in 1 .. k - 1 : m \in DOMAIN clauses /\ m < k
    BY <1>6, <1>9
  <2> QED
    BY <1>4, <1>9, <2>1 DEF Grouped
<1>10. ASSUME NEW k \in DOMAIN clauses, NEW c \in clauses[k].on, NEW d \in conditions, d.primary = c.table
       PROVE  c.table \in known(k - 1)
  <2>1. PICK i \in DOMAIN s : s[i] = c
    BY <1>4, <1>5, <1>10 DEF Grouped
  <2>2. PICK j \in DOMAIN s : s[j] = d
    BY <1>3, <1>10
  <2>3. j < i
    BY <1>2, <1>10, <2>1, <2>2
  <2>4. PICK l \in DOMAIN clauses : d \in clauses[l].on
    BY <1>7, <1>10
  <2>5. clauses[l].table = c.table
    BY <1>4, <1>10, <2>4 DEF Grouped
  <2>6. ~(k < l)
    <3>1. k < l => \A x, y \in 1 .. Len(s) : s[x] \in clauses[k].on /\ s[y] \in clauses[l].on => x < y
      BY <1>4, <1>10, <2>4 DEF Grouped
    <3>2. i \in 1 .. Len(s) /\ j \in 1 .. Len(s) /\ s[i] \in clauses[k].on /\ s[j] \in clauses[l].on
      BY <1>5, <1>10, <2>1, <2>2, <2>4
    <3>3. k < l => i < j
      BY <3>1, <3>2
    <3> QED
      BY <1>5, <2>3, <3>2, <3>3
  <2>7. k # l
    <3>1. k = l => c.primary = c.table
      BY <1>4, <1>10, <2>5 DEF Grouped
    <3>2. c.primary # c.table
      BY <1>2, <1>5, <2>1
    <3> QED
      BY <3>1, <3>2
  <2>8. l \in 1 .. k - 1
    BY <1>6, <1>10, <2>4, <2>6, <2>7
  <2> QED
    BY <2>5, <2>8
<1>11. \A k \in DOMAIN clauses : \A c \in clauses[k].on : c.primary = clauses[k].table
  BY <1>4 DEF Grouped
<1>12. \A k \in DOMAIN clauses :
         /\ clauses[k].table \notin known(k - 1)
         /\ \A c \in clauses[k].on :
               /\ c.primary = clauses[k].table
               /\ c.table \in known(k - 1) \/ \A d \in conditions : d.primary # c.table
  <2> HIDE DEF known
  <2> QED
    BY <1>9, <1>10, <1>11
<1> QED
  BY <1>8, <1>12 DEF clauses, conditions, s

-----------------------------------------------------------------------------
(* The joins of every statement are in order: for any foreign keys and any  *)
(* order of the HashMaps, what get_topologically_sorted_joins and to_sql    *)
(* make of an acyclic graph has each of its conditions, in one clause for   *)
(* each table, behind those of the tables it refers from.                   *)
THEOREM JoinsAreSorted == JoinsSpec => []JoinsSorted
<1>1. JoinsInit => JoinsInv
  BY DEF JoinsInit, JoinsInv
<1>2. JoinsInv /\ [JoinsNext]_joinVars => JoinsInv'
  BY JoinsInductive
<1>3. JoinsInv => JoinsSorted
  BY SortedWhenDone
<1> QED
  BY <1>1, <1>2, <1>3, PTL DEF JoinsSpec
=============================================================================

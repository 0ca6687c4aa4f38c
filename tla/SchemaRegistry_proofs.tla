------------------------ MODULE SchemaRegistry_proofs ------------------------
(* Proofs about SchemaRegistry: every Postgres schema has one owner and one *)
(* version, and what the registry says of its tables is so.                 *)
EXTENDS SchemaRegistry, FiniteSetTheorems, WellFoundedInduction, NaturalsInduction, TLAPS

-----------------------------------------------------------------------------
(* Induction along a sequence.                                              *)

(* What holds at 0 and goes on from each step to the next holds up to n.    *)
LEMMA CountUp ==
    ASSUME NEW n \in Nat, NEW P, 0 \in P, \A m \in 0 .. n : m < n /\ m \in P => m + 1 \in P
    PROVE  \A m \in 0 .. n : m \in P
<1> DEFINE Left == {m \in 0 .. n : m \notin P}
<1> SUFFICES ASSUME Left # {} PROVE FALSE
  OBVIOUS
<1>1. Left \subseteq Nat
  OBVIOUS
<1>2. PICK m \in Left : \A k \in Left : ~(<<k, m>> \in OpToRel(<, Nat))
  BY <1>1, WFMin, NatLessThanWellFounded, Zenon
<1>3. \A k \in Left : ~(k < m)
  BY <1>1, <1>2, Zenon DEF OpToRel
<1>4. m # 0 /\ m - 1 \in 0 .. n /\ m - 1 < n /\ (m - 1) + 1 = m
  OBVIOUS
<1>5. m - 1 \in P
  BY <1>3, <1>4
<1> QED
  BY <1>4, <1>5

-----------------------------------------------------------------------------
(* The types that get tables.                                               *)

EntitySet(schema) == {Entities(schema)[i] : i \in DOMAIN Entities(schema)}

(* The filter of generate_table_sql, after its first types.                 *)
Filtered(schema, f) ==
    f = [n \in 0 .. Len(schema.types) |->
            IF n = 0 THEN <<>>
            ELSE IF schema.types[n].name = schema.query THEN f[n - 1]
            ELSE Append(f[n - 1], schema.types[n])]

(* There is a function that is as its recursive definition says.            *)
LEMMA FilterExists ==
    ASSUME NEW schema \in GraphqlSchema
    PROVE  \E f : Filtered(schema, f)
<1> DEFINE N == Len(schema.types)
           Body(f, n) == IF n = 0 THEN <<>>
                         ELSE IF schema.types[n].name = schema.query THEN f[n - 1]
                         ELSE Append(f[n - 1], schema.types[n])
           P == {m \in 0 .. N : \E f : f = [n \in 0 .. m |-> Body(f, n)]}
<1>1. N \in Nat
  BY DEF GraphqlSchema
<1>2. 0 \in P
  <2> DEFINE g == [n \in 0 .. 0 |-> <<>>]
  <2>1. g = [n \in 0 .. 0 |-> Body(g, n)]
    OBVIOUS
  <2> HIDE DEF g, Body
  <2> QED
    BY <1>1, <2>1
<1>3. ASSUME NEW m \in 0 .. N, m < N, m \in P PROVE m + 1 \in P
  <2>1. PICK f : f = [n \in 0 .. m |-> Body(f, n)]
    BY <1>3
  <2> DEFINE g == [n \in 0 .. m + 1 |-> IF n = m + 1 THEN Body(f, n) ELSE f[n]]
  <2>2. ASSUME NEW n \in 0 .. m + 1 PROVE g[n] = Body(g, n)
    <3>1. CASE n = 0
      BY <1>1, <2>1, <3>1
    <3>2. CASE n # 0
      <4>1. n - 1 \in 0 .. m /\ g[n - 1] = f[n - 1]
        BY <1>1, <3>2
      <4>2. n # m + 1 => n \in 0 .. m
        BY <1>1, <1>3
      <4>3. \A k \in 0 .. m : f[k] = Body(f, k)
        <5> HIDE DEF Body
        <5> QED
          BY <2>1
      <4>4. g[n] = Body(f, n)
        <5> HIDE DEF Body
        <5> QED
          BY <4>2, <4>3
      <4> QED
        BY <4>1, <4>4
    <3> QED
      BY <3>1, <3>2
  <2>3. g = [n \in 0 .. m + 1 |-> Body(g, n)]
    BY <2>2
  <2> HIDE DEF g, Body
  <2> QED
    BY <1>1, <1>3, <2>3
<1> HIDE DEF Body, P
<1>4. N \in P
  <2> HIDE DEF N
  <2>1. \A m \in 0 .. N : m < N /\ m \in P => m + 1 \in P
    BY <1>3
  <2>2. \A m \in 0 .. N : m \in P
    BY <1>1, <1>2, <2>1, CountUp
  <2> QED
    BY <1>1, <2>2
<1>5. PICK f : f = [n \in 0 .. N |-> Body(f, n)]
  BY <1>4 DEF P
<1> QED
  BY <1>5 DEF Body, Filtered


(* What a sequence holds after Append.                                      *)
LEMMA RangeOfAppend ==
    ASSUME NEW S, NEW s \in Seq(S), NEW t \in S
    PROVE  Append(s, t) \in Seq(S) /\ Range(Append(s, t)) = Range(s) \cup {t}
<1>1. Append(s, t) \in Seq(S) /\ Len(Append(s, t)) = Len(s) + 1 /\ Len(s) \in Nat
  OBVIOUS
<1>2. DOMAIN Append(s, t) = 1 .. Len(s) + 1 /\ DOMAIN s = 1 .. Len(s)
  BY <1>1
<1>3. \A i \in 1 .. Len(s) : Append(s, t)[i] = s[i]
  OBVIOUS
<1>4. Append(s, t)[Len(s) + 1] = t
  OBVIOUS
<1>5. ASSUME NEW i \in DOMAIN Append(s, t) PROVE Append(s, t)[i] \in Range(s) \cup {t}
  <2>1. i \in 1 .. Len(s) \/ i = Len(s) + 1
    BY <1>1, <1>2, <1>5
  <2> QED
    BY <1>2, <1>3, <1>4, <2>1 DEF Range
<1>6. t \in Range(Append(s, t))
  <2>1. Len(s) + 1 \in DOMAIN Append(s, t)
    BY <1>1, <1>2
  <2> QED
    BY <1>4, <2>1 DEF Range
<1>7. ASSUME NEW j \in DOMAIN s PROVE s[j] \in Range(Append(s, t))
  <2>1. j \in DOMAIN Append(s, t) /\ j \in 1 .. Len(s)
    BY <1>1, <1>2
  <2> QED
    BY <1>3, <2>1 DEF Range
<1> QED
  BY <1>1, <1>5, <1>6, <1>7 DEF Range

(* The types among the first n that get a table are those f[n] holds.       *)
Kept(schema, f, n) ==
    /\ f[n] \in Seq(GraphqlType)
    /\ Range(f[n]) = {t \in GraphqlType : t.name # schema.query /\ \E i \in 1 .. n : t = schema.types[i]}

LEMMA KeptNext ==
    ASSUME NEW schema \in GraphqlSchema, NEW f, NEW m \in 0 .. Len(schema.types),
           m < Len(schema.types), Kept(schema, f, m),
           f[m + 1] = IF schema.types[m + 1].name = schema.query THEN f[m]
                      ELSE Append(f[m], schema.types[m + 1])
    PROVE  Kept(schema, f, m + 1)
<1> DEFINE t == schema.types[m + 1]
           Of(n) == {u \in GraphqlType : u.name # schema.query /\ \E i \in 1 .. n : u = schema.types[i]}
<1>1. m \in Nat /\ Len(schema.types) \in Nat /\ schema.types \in Seq(GraphqlType)
  BY DEF GraphqlSchema
<1>2. m + 1 \in 1 .. Len(schema.types) /\ t \in GraphqlType
  BY <1>1
<1>3. \A i : i \in 1 .. m + 1 <=> i \in 1 .. m \/ i = m + 1
  BY <1>1
<1>4. Of(m + 1) = IF t.name = schema.query THEN Of(m) ELSE Of(m) \cup {t}
  <2> DEFINE Upper == 1 .. m + 1
             Lower1 == 1 .. m
  <2>1. \A i : i \in Upper <=> i \in Lower1 \/ i = m + 1
    BY <1>3
  <2>2. t \in GraphqlType /\ t = schema.types[m + 1]
    BY <1>2
  <2> HIDE DEF Upper, Lower1, t
  <2>3. \A u : u \in {v \in GraphqlType : v.name # schema.query /\ \E i \in Upper : v = schema.types[i]} <=>
               \/ u \in {v \in GraphqlType : v.name # schema.query /\ \E i \in Lower1 : v = schema.types[i]}
               \/ u = t /\ u.name # schema.query
    BY <2>1, <2>2
  <2> QED
    BY <2>3 DEF Upper, Lower1
<1> HIDE DEF t, Of
<1>5. CASE t.name = schema.query
  <2>1. f[m + 1] = f[m]
    BY <1>5 DEF t
  <2> QED
    BY <1>4, <1>5, <2>1 DEF Kept, Of
<1>6. CASE t.name # schema.query
  <2>1. f[m + 1] = Append(f[m], t)
    BY <1>6 DEF t
  <2>2. f[m] \in Seq(GraphqlType) /\ Range(f[m]) = Of(m)
    BY DEF Kept, Of
  <2>3. Append(f[m], t) \in Seq(GraphqlType) /\ Range(Append(f[m], t)) = Range(f[m]) \cup {t}
    BY <1>2, <2>2, RangeOfAppend
  <2>4. f[m + 1] \in Seq(GraphqlType) /\ Range(f[m + 1]) = Of(m + 1)
    BY <1>4, <1>6, <2>1, <2>2, <2>3
  <2> QED
    BY <2>4 DEF Kept, Of
<1> QED
  BY <1>5, <1>6

(* The types that get tables are all but the query root, in their order.    *)
LEMMA EntitiesAre ==
    ASSUME NEW schema \in GraphqlSchema
    PROVE  /\ Entities(schema) \in Seq(GraphqlType)
           /\ EntitySet(schema) = {t \in Range(schema.types) : t.name # schema.query}
           /\ Range(schema.types) \subseteq GraphqlType
<1> DEFINE N == Len(schema.types)
           f == CHOOSE f : Filtered(schema, f)
           P == {n \in 0 .. N : Kept(schema, f, n)}
<1>1. N \in Nat /\ schema.types \in Seq(GraphqlType) /\ DOMAIN schema.types = 1 .. N
  BY DEF GraphqlSchema
<1>2. Filtered(schema, f)
  BY FilterExists
<1>3. Entities(schema) = f[N]
  BY DEF Entities, Filtered
<1> HIDE DEF f
<1>4. /\ f[0] = <<>>
      /\ \A n \in 0 .. N : n # 0 => f[n] = IF schema.types[n].name = schema.query THEN f[n - 1]
                                           ELSE Append(f[n - 1], schema.types[n])
  <2> HIDE DEF N
  <2>1. \A n \in 0 .. N : f[n] = IF n = 0 THEN <<>>
                          ELSE IF schema.types[n].name = schema.query THEN f[n - 1]
                          ELSE Append(f[n - 1], schema.types[n])
    BY <1>2 DEF Filtered, N
  <2> QED
    BY <1>1, <2>1
<1> HIDE DEF N, P
<1>5. 0 \in P
  <2>1. 0 \in 0 .. N /\ \A i : i \notin 1 .. 0
    BY <1>1
  <2>2. f[0] \in Seq(GraphqlType) /\ \A i : i \notin DOMAIN f[0]
    BY <1>4
  <2>3. Range(f[0]) = {}
    BY <2>2 DEF Range
  <2>4. {t \in GraphqlType : t.name # schema.query /\ \E i \in 1 .. 0 : t = schema.types[i]} = {}
    BY <2>1
  <2>5. Kept(schema, f, 0)
    BY <2>2, <2>3, <2>4 DEF Kept
  <2> QED
    BY <2>1, <2>5 DEF P
<1>6. ASSUME NEW m \in 0 .. N, m < N, m \in P PROVE m + 1 \in P
  <2>1. m + 1 \in 0 .. N /\ m + 1 # 0 /\ (m + 1) - 1 = m
    BY <1>1, <1>6
  <2>2. f[m + 1] = IF schema.types[m + 1].name = schema.query THEN f[m]
                   ELSE Append(f[m], schema.types[m + 1])
    BY <1>4, <2>1
  <2>3. Kept(schema, f, m)
    BY <1>6 DEF P
  <2>4. Kept(schema, f, m + 1)
    BY <1>6, <2>2, <2>3, KeptNext DEF N
  <2> QED
    BY <2>1, <2>4 DEF P
<1>7. Kept(schema, f, N)
  <2>1. \A m \in 0 .. N : m < N /\ m \in P => m + 1 \in P
    BY <1>6
  <2>2. \A m \in 0 .. N : m \in P
    BY <1>1, <1>5, <2>1, CountUp
  <2> QED
    BY <1>1, <2>2 DEF P
<1>8. Range(schema.types) \subseteq GraphqlType
  BY <1>1 DEF Range
<1>9. {t \in GraphqlType : t.name # schema.query /\ \E i \in 1 .. N : t = schema.types[i]}
        = {t \in Range(schema.types) : t.name # schema.query}
  BY <1>1, <1>8 DEF Range
<1>10. Range(f[N]) = {t \in Range(schema.types) : t.name # schema.query} /\ f[N] \in Seq(GraphqlType)
  BY <1>7, <1>9 DEF Kept
<1>11. EntitySet(schema) = Range(Entities(schema))
  BY DEF EntitySet, Range
<1> QED
  BY <1>3, <1>8, <1>10, <1>11

(* The range of a function on a finite set is finite.                       *)
LEMMA RangeFinite ==
    ASSUME NEW f, IsFiniteSet(DOMAIN f), f = [x \in DOMAIN f |-> f[x]]
    PROVE  IsFiniteSet(Range(f))
<1>1. f \in [DOMAIN f -> Range(f)]
  BY DEF Range
<1>2. \A t \in Range(f) : \E x \in DOMAIN f : f[x] = t
  BY DEF Range
<1>3. f \in Surjection(DOMAIN f, Range(f))
  BY <1>1, <1>2 DEF Surjection
<1> QED
  BY <1>3, FS_Surjection

LEMMA SequenceFinite ==
    ASSUME NEW S, NEW s \in Seq(S)
    PROVE  IsFiniteSet(DOMAIN s) /\ IsFiniteSet(Range(s))
<1>1. Len(s) \in Nat /\ DOMAIN s = 1 .. Len(s)
  OBVIOUS
<1>2. IsFiniteSet(1 .. Len(s))
  BY <1>1, FS_Interval
<1>3. s = [i \in DOMAIN s |-> s[i]]
  OBVIOUS
<1> QED
  BY <1>1, <1>2, <1>3, RangeFinite

AllKeys(schema) == UNION {ForeignKeys(schema, t) : t \in EntitySet(schema)}

AllIndices(schema) == UNION {Indices(t) : t \in EntitySet(schema)}

LEMMA KeysFinite ==
    ASSUME NEW schema \in GraphqlSchema
    PROVE  IsFiniteSet(AllKeys(schema)) /\ IsFiniteSet(AllIndices(schema))
<1>1. Entities(schema) \in Seq(GraphqlType) /\ EntitySet(schema) = Range(Entities(schema))
  BY EntitiesAre DEF EntitySet, Range
<1>2. IsFiniteSet(EntitySet(schema)) /\ EntitySet(schema) \subseteq GraphqlType
  BY <1>1, SequenceFinite DEF Range
<1>3. ASSUME NEW t \in GraphqlType
      PROVE  IsFiniteSet(ForeignKeys(schema, t)) /\ IsFiniteSet(Indices(t))
  <2> DEFINE K == {k \in DOMAIN t.fields : IsForeignKey(t.fields[k])}
             I == {k \in DOMAIN t.fields : ~IsForeignKey(t.fields[k]) /\ HasDirective(t.fields[k], "indexed")}
             keyOf == [j \in K |-> [table |-> Lower[t.name], column |-> t.fields[j].name,
                                    refTable |-> Lower[t.fields[j].type],
                                    refColumn |-> ReferencedField(t.fields[j])]]
             indexOf == [j \in I |-> [table |-> Lower[t.name], column |-> t.fields[j].name]]
  <2>1. IsFiniteSet(DOMAIN t.fields)
    BY SequenceFinite DEF GraphqlType
  <2>2. IsFiniteSet(K) /\ IsFiniteSet(I)
    <3>1. K \in SUBSET DOMAIN t.fields /\ I \in SUBSET DOMAIN t.fields
      OBVIOUS
    <3> HIDE DEF K, I
    <3> QED
      BY <2>1, <3>1, FS_Subset
  <2>3. ForeignKeys(schema, t) = Range(keyOf) /\ Indices(t) = Range(indexOf)
    BY DEF ForeignKeys, Indices, Range
  <2>4. DOMAIN keyOf = K /\ keyOf = [j \in DOMAIN keyOf |-> keyOf[j]]
    OBVIOUS
  <2>5. DOMAIN indexOf = I /\ indexOf = [j \in DOMAIN indexOf |-> indexOf[j]]
    OBVIOUS
  <2> HIDE DEF keyOf, indexOf, K, I
  <2> QED
    BY <2>2, <2>3, <2>4, <2>5, RangeFinite
<1> DEFINE keysOf == [t \in EntitySet(schema) |-> ForeignKeys(schema, t)]
           indicesOf == [t \in EntitySet(schema) |-> Indices(t)]
<1>4. /\ AllKeys(schema) = UNION Range(keysOf)
      /\ \A S \in Range(keysOf) : IsFiniteSet(S)
      /\ DOMAIN keysOf = EntitySet(schema) /\ keysOf = [t \in DOMAIN keysOf |-> keysOf[t]]
  BY <1>2, <1>3 DEF AllKeys, Range
<1>5. /\ AllIndices(schema) = UNION Range(indicesOf)
      /\ \A S \in Range(indicesOf) : IsFiniteSet(S)
      /\ DOMAIN indicesOf = EntitySet(schema) /\ indicesOf = [t \in DOMAIN indicesOf |-> indicesOf[t]]
  BY <1>2, <1>3 DEF AllIndices, Range
<1> HIDE DEF keysOf, indicesOf
<1>6. IsFiniteSet(Range(keysOf)) /\ IsFiniteSet(Range(indicesOf))
  BY <1>2, <1>4, <1>5, RangeFinite
<1> QED
  BY <1>4, <1>5, <1>6, FS_UNION

(* InOrder lists the items of a finite set, and nothing else.               *)
LEMMA InOrderIs ==
    ASSUME NEW kind, NEW S, IsFiniteSet(S)
    PROVE  /\ InOrder(kind, S) \in Seq({Statement(kind, x) : x \in S})
           /\ Range(InOrder(kind, S)) = {Statement(kind, x) : x \in S}
<1> DEFINE n == Cardinality(S)
           Orders == {f \in [1 .. n -> S] : {f[i] : i \in 1 .. n} = S}
           order == CHOOSE f \in [1 .. n -> S] : {f[i] : i \in 1 .. n} = S
           Out == {Statement(kind, x) : x \in S}
<1>1. n \in Nat /\ ExistsBijection(1 .. n, S)
  BY FS_CardinalityType
<1> HIDE DEF n
<1>2. \E f \in [1 .. n -> S] : {f[i] : i \in 1 .. n} = S
  <2>1. PICK f : f \in Surjection(1 .. n, S)
    BY <1>1 DEF ExistsBijection, Bijection
  <2> QED
    BY <2>1 DEF Surjection
<1>3. order \in [1 .. n -> S] /\ {order[i] : i \in 1 .. n} = S
  BY <1>2
<1>4. InOrder(kind, S) = [i \in 1 .. n |-> Statement(kind, order[i])]
  BY DEF InOrder, n
<1> HIDE DEF order
<1>5. \A i \in 1 .. n : Statement(kind, order[i]) \in Out
  BY <1>3
<1>6. \A u \in Out : \E i \in 1 .. n : u = Statement(kind, order[i])
  <2> SUFFICES ASSUME NEW x \in S PROVE \E i \in 1 .. n : Statement(kind, x) = Statement(kind, order[i])
    OBVIOUS
  <2>1. PICK i \in 1 .. n : order[i] = x
    BY <1>3
  <2> QED
    BY <2>1
<1> HIDE DEF Out
<1>7. [i \in 1 .. n |-> Statement(kind, order[i])] \in Seq(Out)
  BY <1>1, <1>5
<1>8. Range([i \in 1 .. n |-> Statement(kind, order[i])]) = Out
  BY <1>5, <1>6 DEF Range
<1> QED
  BY <1>4, <1>7, <1>8 DEF Out

(* What two sequences hold, one after the other.                            *)
Joined(S, a, b, c) ==
    /\ c \in Seq(S)
    /\ Len(c) = Len(a) + Len(b)
    /\ Range(c) = Range(a) \cup Range(b)
    /\ \A i \in 1 .. Len(a) : c[i] = a[i]
    /\ \A i \in 1 .. Len(b) : c[Len(a) + i] = b[i]

LEMMA RangeOfBoth ==
    ASSUME NEW S, NEW a \in Seq(S), NEW b \in Seq(S)
    PROVE  Joined(S, a, b, a \o b)
<1> DEFINE c == a \o b
<1>1. /\ Len(a) \in Nat /\ Len(b) \in Nat /\ c \in Seq(S) /\ Len(c) = Len(a) + Len(b)
      /\ DOMAIN a = 1 .. Len(a) /\ DOMAIN b = 1 .. Len(b) /\ DOMAIN c = 1 .. Len(c)
  OBVIOUS
<1>2. \A i \in 1 .. Len(a) : c[i] = a[i]
  OBVIOUS
<1>3. \A i \in 1 .. Len(b) : c[Len(a) + i] = b[i]
  OBVIOUS
<1> HIDE DEF c
<1>4. ASSUME NEW i \in DOMAIN c PROVE c[i] \in Range(a) \cup Range(b)
  <2>1. CASE i \in 1 .. Len(a)
    BY <1>1, <1>2, <2>1 DEF Range
  <2>2. CASE i \notin 1 .. Len(a)
    <3>1. i - Len(a) \in 1 .. Len(b) /\ Len(a) + (i - Len(a)) = i
      BY <1>1, <2>2
    <3> QED
      BY <1>1, <1>3, <3>1 DEF Range
  <2> QED
    BY <2>1, <2>2
<1>5. ASSUME NEW i \in DOMAIN a PROVE a[i] \in Range(c)
  <2>1. i \in DOMAIN c /\ i \in 1 .. Len(a)
    BY <1>1
  <2> QED
    BY <1>2, <2>1 DEF Range
<1>6. ASSUME NEW i \in DOMAIN b PROVE b[i] \in Range(c)
  <2>1. Len(a) + i \in DOMAIN c /\ i \in 1 .. Len(b)
    BY <1>1
  <2> QED
    BY <1>3, <2>1 DEF Range
<1>7. Range(c) = Range(a) \cup Range(b)
  BY <1>4, <1>5, <1>6 DEF Range
<1> QED
  BY <1>1, <1>2, <1>3, <1>7 DEF c, Joined

(* The statements between the registration of the graph root and of the types. *)
MakesTables(schema) ==
    [i \in DOMAIN Entities(schema) |-> Statement("table", Entities(schema)[i])]
    \o InOrder("foreign_key", AllKeys(schema)) \o InOrder("index", AllIndices(schema))

TableStatements(schema) ==
    {Statement("table", t) : t \in EntitySet(schema)}
        \cup {Statement("foreign_key", k) : k \in AllKeys(schema)}
        \cup {Statement("index", k) : k \in AllIndices(schema)}

LEMMA MakesTablesIs ==
    ASSUME NEW schema \in GraphqlSchema
    PROVE  MakesTables(schema) \in Seq(TableStatements(schema)) /\ Range(MakesTables(schema)) = TableStatements(schema)
<1> DEFINE T == {Statement("table", t) : t \in EntitySet(schema)}
           F == {Statement("foreign_key", k) : k \in AllKeys(schema)}
           I == {Statement("index", k) : k \in AllIndices(schema)}
           t == [i \in DOMAIN Entities(schema) |-> Statement("table", Entities(schema)[i])]
           f == InOrder("foreign_key", AllKeys(schema))
           d == InOrder("index", AllIndices(schema))
           S == T \cup F \cup I
<1>1. Entities(schema) \in Seq(GraphqlType)
  BY EntitiesAre
<1>2. t \in Seq(T) /\ Range(t) = T
  BY <1>1 DEF EntitySet, Range
<1>3. f \in Seq(F) /\ Range(f) = F
  BY KeysFinite, InOrderIs
<1>4. d \in Seq(I) /\ Range(d) = I
  BY KeysFinite, InOrderIs
<1> HIDE DEF T, F, I, t, f, d
<1>5. t \in Seq(S) /\ f \in Seq(S) /\ d \in Seq(S)
  BY <1>2, <1>3, <1>4
<1> HIDE DEF S
<1> DEFINE tf == t \o f
           tfd == tf \o d
<1>6. tf \in Seq(S) /\ Range(tf) = T \cup F
  <2>1. Joined(S, t, f, tf)
    BY <1>5, RangeOfBoth
  <2> QED
    BY <1>2, <1>3, <2>1 DEF Joined
<1> HIDE DEF tf
<1>7. tfd \in Seq(S) /\ Range(tfd) = (T \cup F) \cup I
  <2>1. Joined(S, tf, d, tfd)
    BY <1>5, <1>6, RangeOfBoth
  <2> HIDE DEF tfd
  <2> QED
    BY <1>4, <1>6, <2>1 DEF Joined
<1> QED
  BY <1>7 DEF tf, MakesTables, TableStatements, S, T, F, I, t, f, d

(* The statements of commit_metadata by their places.                       *)
LEMMA StatementsAre ==
    ASSUME NEW schema \in GraphqlSchema
    PROVE  LET S == Statements(schema)
               L == Len(S)
           IN  /\ L \in Nat /\ L >= 4
               /\ S[1] = Statement("graph_root", Nothing)
               /\ S[2] = Statement("root_columns", Nothing)
               /\ S[L - 1] = Statement("type_ids", Nothing)
               /\ S[L] = Statement("columns", Nothing)
               /\ \A n \in 3 .. L - 2 : S[n] \in TableStatements(schema)
               /\ \A s \in TableStatements(schema) : \E n \in 3 .. L - 2 : S[n] = s
<1> DEFINE M == MakesTables(schema)
           head == <<Statement("graph_root", Nothing), Statement("root_columns", Nothing)>>
           last == <<Statement("type_ids", Nothing), Statement("columns", Nothing)>>
           A == TableStatements(schema)
                  \cup {Statement("graph_root", Nothing), Statement("root_columns", Nothing),
                        Statement("type_ids", Nothing), Statement("columns", Nothing)}
           S == Statements(schema)
           t == [i \in DOMAIN Entities(schema) |-> Statement("table", Entities(schema)[i])]
           f == InOrder("foreign_key", AllKeys(schema))
           d == InOrder("index", AllIndices(schema))
<1>1. M \in Seq(A) /\ Range(M) = TableStatements(schema) /\ head \in Seq(A) /\ last \in Seq(A)
  <2>1. head \in Seq(A) /\ last \in Seq(A)
    <3>1. /\ Statement("graph_root", Nothing) \in A /\ Statement("root_columns", Nothing) \in A
          /\ Statement("type_ids", Nothing) \in A /\ Statement("columns", Nothing) \in A
      OBVIOUS
    <3> HIDE DEF A
    <3> QED
      BY <3>1
  <2>2. M \in Seq(TableStatements(schema)) /\ Range(M) = TableStatements(schema)
    BY MakesTablesIs
  <2>3. M \in Seq(A)
    <3> HIDE DEF M, A
    <3>1. TableStatements(schema) \subseteq A
      BY DEF A
    <3> QED
      BY <2>2, <3>1
  <2> QED
    BY <2>1, <2>2, <2>3
<1>2. S = head \o M \o last
  <2>1. S = head \o t \o f \o d \o last
    BY DEF Statements, EntitySet, AllKeys, AllIndices
  <2>2. M = t \o f \o d
    BY DEF MakesTables
  <2>3. t \in Seq(Range(t)) /\ f \in Seq(Range(f)) /\ d \in Seq(Range(d))
    <3>1. Entities(schema) \in Seq(GraphqlType)
      BY EntitiesAre
    <3>2. t \in Seq(Range(t))
      BY <3>1 DEF Range
    <3>3. f \in Seq(Range(f)) /\ d \in Seq(Range(d))
      BY KeysFinite, InOrderIs
    <3> QED
      BY <3>2, <3>3
  <2> HIDE DEF t, f, d, S, M, head, last
  <2> QED
    BY <1>1, <2>1, <2>2, <2>3, SMTT(30)
<1>3. /\ Len(head) = 2 /\ Len(last) = 2 /\ Len(M) \in Nat
      /\ head[1] = Statement("graph_root", Nothing) /\ head[2] = Statement("root_columns", Nothing)
      /\ last[1] = Statement("type_ids", Nothing) /\ last[2] = Statement("columns", Nothing)
  <2>1. Len(M) \in Nat
    <3> HIDE DEF M, A
    <3> QED
      BY <1>1
  <2>2. \A a, b : Len(<<a, b>>) = 2 /\ <<a, b>>[1] = a /\ <<a, b>>[2] = b
    OBVIOUS
  <2>3. Len(head) = 2 /\ head[1] = Statement("graph_root", Nothing) /\ head[2] = Statement("root_columns", Nothing)
    BY <2>2, Zenon
  <2>4. Len(last) = 2 /\ last[1] = Statement("type_ids", Nothing) /\ last[2] = Statement("columns", Nothing)
    BY <2>2, Zenon
  <2> HIDE DEF M, head, last
  <2> QED
    BY <2>1, <2>3, <2>4
<1> HIDE DEF M, head, last, S, A, t, f, d
<1> DEFINE front == head \o M
<1>4. /\ front \in Seq(A) /\ Len(front) = 2 + Len(M)
      /\ front[1] = head[1] /\ front[2] = head[2]
      /\ \A i \in 1 .. Len(M) : front[2 + i] = M[i]
  <2>1. Joined(A, head, M, front)
    BY <1>1, RangeOfBoth
  <2> HIDE DEF front
  <2> QED
    BY <1>3, <2>1 DEF Joined
<1> HIDE DEF front
<1>5. /\ S \in Seq(A) /\ Len(S) = Len(M) + 4
      /\ \A i \in 1 .. Len(M) + 2 : S[i] = front[i]
      /\ S[Len(M) + 3] = last[1] /\ S[Len(M) + 4] = last[2]
  <2>1. S = front \o last
    BY <1>2 DEF front
  <2>4. Joined(A, front, last, S)
    <3>1. Joined(A, front, last, front \o last)
      BY <1>1, <1>4, RangeOfBoth
    <3> QED
      BY <2>1, <3>1
  <2>2. /\ S \in Seq(A) /\ Len(S) = Len(front) + Len(last)
        /\ \A i \in 1 .. Len(front) : S[i] = front[i]
        /\ \A i \in 1 .. Len(last) : S[Len(front) + i] = last[i]
    BY <2>4 DEF Joined
  <2>3. S[Len(front) + 1] = last[1] /\ S[Len(front) + 2] = last[2]
    BY <1>3, <2>2
  <2> QED
    BY <1>3, <1>4, <2>2, <2>3
<1>6. \A n \in 3 .. Len(S) - 2 : S[n] \in TableStatements(schema)
  <2> TAKE n \in 3 .. Len(S) - 2
  <2>1. n - 2 \in 1 .. Len(M) /\ 2 + (n - 2) = n /\ n \in 1 .. Len(M) + 2
    BY <1>3, <1>5
  <2>2. S[n] = M[n - 2]
    BY <1>4, <1>5, <2>1
  <2>3. M[n - 2] \in Range(M)
    BY <1>1, <2>1 DEF Range
  <2> QED
    BY <1>1, <2>2, <2>3
<1>7. \A s \in TableStatements(schema) : \E n \in 3 .. Len(S) - 2 : S[n] = s
  <2> TAKE s \in TableStatements(schema)
  <2>1. PICK i \in DOMAIN M : M[i] = s
    BY <1>1 DEF Range
  <2>2. i \in 1 .. Len(M) /\ 2 + i \in 3 .. Len(S) - 2 /\ 2 + i \in 1 .. Len(M) + 2
    BY <1>1, <1>3, <1>5, <2>1
  <2> QED
    BY <1>4, <1>5, <2>1, <2>2
<1>8. S[1] = head[1] /\ S[2] = head[2] /\ S[Len(S) - 1] = last[1] /\ S[Len(S)] = last[2]
  <2>1. 1 \in 1 .. Len(M) + 2 /\ 2 \in 1 .. Len(M) + 2 /\ Len(S) - 1 = Len(M) + 3 /\ Len(S) = Len(M) + 4
    BY <1>3, <1>5
  <2> QED
    BY <1>4, <1>5, <2>1
<1> QED
  BY <1>3, <1>5, <1>6, <1>7, <1>8 DEF S

-----------------------------------------------------------------------------
(* One owner and one version in every Postgres schema.                      *)

Versions == {Version(s) : s \in registration.schemas}

IsCatalog(cat) ==
    cat = [tables |-> cat.tables, foreignKeys |-> cat.foreignKeys, indices |-> cat.indices,
           roots |-> cat.roots, typeIds |-> cat.typeIds, columns |-> cat.columns]

(* The type ids are those of whole versions, and each is registered once.   *)
OwnedTypes(cat) ==
    /\ IsCatalog(cat)
    /\ \A t \in cat.typeIds :
          /\ t.indexer \in registration.owners /\ t.version \in Versions
          /\ t \in TypeIdsOf(t.indexer, t.version)
          /\ TypeIdsOf(t.indexer, t.version) \subseteq cat.typeIds
    /\ \A s, t \in cat.typeIds : s.id = t.id => s = t

(* A version is the author's schema and the injected entity, which gets a   *)
(* table whatever the query root is.                                        *)
LEMMA VersionIs ==
    ASSUME NEW s \in GraphqlSchema, s.query # MetadataEntity.name, RegistryAssumption
    PROVE  /\ Version(s) \in GraphqlSchema
           /\ MetadataEntity \in EntitySet(Version(s))
<1> DEFINE v == Version(s)
<1>1. MetadataEntity \in GraphqlType
  BY DEF RegistryAssumption
<1>2. s.types \in Seq(GraphqlType) /\ s.query \in STRING /\ s = [query |-> s.query, types |-> s.types]
  BY DEF GraphqlSchema
<1>3. v = [query |-> s.query, types |-> Append(s.types, MetadataEntity)]
  <2>1. PICK q, T : s = [query |-> q, types |-> T]
    BY <1>2
  <2>2. [s EXCEPT !.types = Append(@, MetadataEntity)] = [query |-> q, types |-> Append(T, MetadataEntity)]
    BY <2>1, SMTT(30)
  <2> QED
    BY <2>1, <2>2 DEF Version, Injected
<1>4. Append(s.types, MetadataEntity) \in Seq(GraphqlType)
      /\ MetadataEntity \in Range(Append(s.types, MetadataEntity))
  BY <1>1, <1>2, RangeOfAppend
<1>5. v \in GraphqlSchema
  BY <1>2, <1>3, <1>4 DEF GraphqlSchema
<1>6. v.query # MetadataEntity.name /\ MetadataEntity \in Range(v.types)
  BY <1>3, <1>4
<1> QED
  BY <1>5, <1>6, EntitiesAre

LEMMA VersionsAre ==
    ASSUME RegistryAssumption, registration \in Registrations, NEW v \in Versions
    PROVE  /\ v \in GraphqlSchema
           /\ MetadataEntity \in EntitySet(v)
           /\ EntitySet(v) \subseteq GraphqlType
<1>1. PICK s \in registration.schemas : v = Version(s)
  BY DEF Versions
<1>2. s \in GraphqlSchema /\ s.query # MetadataEntity.name
  BY DEF RegistryAssumption
<1>3. v \in GraphqlSchema /\ MetadataEntity \in EntitySet(v)
  BY <1>1, <1>2, VersionIs
<1> QED
  BY <1>3, EntitiesAre

(* Every version registers the type id of the injected entity, which is the *)
(* same for all indexers of a Postgres schema.                              *)
LEMMA MetadataId ==
    ASSUME RegistryAssumption, registration \in Registrations, NEW v \in Versions, NEW ix
    PROVE  /\ \E t \in TypeIdsOf(ix, v) : t.id = TypeId(ix, MetadataEntity.name)
           /\ \A t \in TypeIdsOf(ix, v) : t.indexer = ix /\ t.version = v
<1>1. TypeIdsOf(ix, v) = {[id |-> TypeId(ix, t.name), indexer |-> ix, version |-> v, name |-> t.name,
                           table |-> Lower[t.name]] : t \in EntitySet(v)}
  BY DEF TypeIdsOf, EntitySet
<1>2. MetadataEntity \in EntitySet(v)
  BY VersionsAre
<1> DEFINE m == [id |-> TypeId(ix, MetadataEntity.name), indexer |-> ix, version |-> v,
                 name |-> MetadataEntity.name, table |-> Lower[MetadataEntity.name]]
<1>3. m \in TypeIdsOf(ix, v)
  BY <1>1, <1>2
<1>4. m.id = TypeId(ix, MetadataEntity.name)
  OBVIOUS
<1>5. \A t \in TypeIdsOf(ix, v) : t.indexer = ix /\ t.version = v
  BY <1>1
<1> HIDE DEF m
<1> QED
  BY <1>3, <1>4, <1>5

LEMMA OneSchema ==
    ASSUME RegistryAssumption, registration \in Registrations, NEW cat, OwnedTypes(cat),
           NEW s \in cat.typeIds, NEW t \in cat.typeIds, SchemaName(s.indexer) = SchemaName(t.indexer)
    PROVE  s.indexer = t.indexer /\ s.version = t.version
<1>1. /\ s.version \in Versions /\ TypeIdsOf(s.indexer, s.version) \subseteq cat.typeIds
      /\ t.version \in Versions /\ TypeIdsOf(t.indexer, t.version) \subseteq cat.typeIds
  BY DEF OwnedTypes
<1>2. PICK m \in TypeIdsOf(s.indexer, s.version) : m.id = TypeId(s.indexer, MetadataEntity.name)
  BY <1>1, MetadataId
<1>3. PICK n \in TypeIdsOf(t.indexer, t.version) : n.id = TypeId(t.indexer, MetadataEntity.name)
  BY <1>1, MetadataId
<1>4. m.id = n.id
  BY <1>2, <1>3 DEF TypeId
<1>5. m = n
  BY <1>1, <1>2, <1>3, <1>4 DEF OwnedTypes
<1>6. m.indexer = s.indexer /\ m.version = s.version
  BY <1>1, <1>2, MetadataId
<1>7. n.indexer = t.indexer /\ n.version = t.version
  BY <1>1, <1>3, MetadataId
<1> QED
  BY <1>5, <1>6, <1>7

(* Which type ids there are after a statement.                              *)
LEMMA ExecutedTypes ==
    ASSUME NEW cat, IsCatalog(cat), NEW ix, NEW v, NEW st
    PROVE  /\ IsCatalog(Executed(cat, ix, v, st))
           /\ st.kind = "type_ids" =>
                 Executed(cat, ix, v, st).typeIds = cat.typeIds \cup TypeIdsOf(ix, v)
           /\ st.kind # "type_ids" => Executed(cat, ix, v, st).typeIds = cat.typeIds
<1>1. PICK T, F, I, R, D, C : cat = [tables |-> T, foreignKeys |-> F, indices |-> I, roots |-> R,
                                     typeIds |-> D, columns |-> C]
  BY DEF IsCatalog
<1> QED
  BY <1>1 DEF Executed, IsCatalog

(* A version in the Postgres schema refuses every further one.              *)
LEMMA SecondRefused ==
    ASSUME RegistryAssumption, registration \in Registrations, NEW cat, OwnedTypes(cat),
           NEW ix \in registration.owners, NEW v \in Versions, NEW st, st.kind = "type_ids",
           ~Refused(cat, ix, v, st)
    PROVE  /\ \A t \in cat.typeIds : SchemaName(t.indexer) # SchemaName(ix)
           /\ \A s \in TypeIdsOf(ix, v), t \in cat.typeIds : s.id # t.id
<1>1. {t.id : t \in TypeIdsOf(ix, v)} \cap {t.id : t \in cat.typeIds} = {}
  BY DEF Refused
<1>2. \A s \in TypeIdsOf(ix, v), t \in cat.typeIds : s.id # t.id
  BY <1>1
<1>3. ASSUME NEW t \in cat.typeIds, SchemaName(t.indexer) = SchemaName(ix) PROVE FALSE
  <2>1. t.version \in Versions /\ TypeIdsOf(t.indexer, t.version) \subseteq cat.typeIds
    BY DEF OwnedTypes
  <2>2. PICK m \in TypeIdsOf(t.indexer, t.version) : m.id = TypeId(t.indexer, MetadataEntity.name)
    BY <2>1, MetadataId
  <2>3. PICK n \in TypeIdsOf(ix, v) : n.id = TypeId(ix, MetadataEntity.name)
    BY MetadataId
  <2>4. m.id = n.id /\ m \in cat.typeIds
    BY <1>3, <2>1, <2>2, <2>3 DEF TypeId
  <2> QED
    BY <1>2, <2>3, <2>4
<1> QED
  BY <1>2, <1>3

(* A statement that is not refused keeps the types owned, and adds none to  *)
(* an indexer that has some.                                                *)
LEMMA ExecutedOwned ==
    ASSUME RegistryAssumption, registration \in Registrations, NEW cat, OwnedTypes(cat),
           NEW ix \in registration.owners, NEW v \in Versions, NEW st, ~Refused(cat, ix, v, st)
    PROVE  /\ OwnedTypes(Executed(cat, ix, v, st))
           /\ \A own \in registration.owners : Registered(cat, own) # {} =>
                  Registered(Executed(cat, ix, v, st), own) = Registered(cat, own)
<1> DEFINE new == Executed(cat, ix, v, st)
<1>1. /\ IsCatalog(new)
      /\ st.kind = "type_ids" => new.typeIds = cat.typeIds \cup TypeIdsOf(ix, v)
      /\ st.kind # "type_ids" => new.typeIds = cat.typeIds
  <2>1. IsCatalog(cat)
    BY DEF OwnedTypes
  <2>2. IsCatalog(Executed(cat, ix, v, st))
    BY <2>1, ExecutedTypes
  <2>3. st.kind = "type_ids" => Executed(cat, ix, v, st).typeIds = cat.typeIds \cup TypeIdsOf(ix, v)
    BY <2>1, ExecutedTypes
  <2>4. st.kind # "type_ids" => Executed(cat, ix, v, st).typeIds = cat.typeIds
    BY <2>1, ExecutedTypes
  <2> QED
    BY <2>2, <2>3, <2>4
<1> HIDE DEF new
<1>2. CASE st.kind # "type_ids"
  BY <1>1, <1>2 DEF OwnedTypes, Registered, new
<1>3. CASE st.kind = "type_ids"
  <2>1. /\ \A t \in cat.typeIds : SchemaName(t.indexer) # SchemaName(ix)
        /\ \A s \in TypeIdsOf(ix, v), t \in cat.typeIds : s.id # t.id
    BY <1>3, SecondRefused
  <2>2. \A t \in TypeIdsOf(ix, v) : t.indexer = ix /\ t.version = v
    BY MetadataId
  <2>3. \A s, t \in TypeIdsOf(ix, v) : s.id = t.id => s = t
    BY DEF TypeIdsOf, TypeId
  <2>4. new.typeIds = cat.typeIds \cup TypeIdsOf(ix, v)
    BY <1>1, <1>3
  <2>5. ASSUME NEW t \in new.typeIds
        PROVE  /\ t.indexer \in registration.owners /\ t.version \in Versions
               /\ t \in TypeIdsOf(t.indexer, t.version)
               /\ TypeIdsOf(t.indexer, t.version) \subseteq new.typeIds
    BY <2>2, <2>4 DEF OwnedTypes
  <2>6. \A s, t \in new.typeIds : s.id = t.id => s = t
    BY <2>1, <2>3, <2>4 DEF OwnedTypes
  <2>7. OwnedTypes(new)
    BY <1>1, <2>5, <2>6 DEF OwnedTypes
  <2>8. ASSUME NEW own \in registration.owners, Registered(cat, own) # {}
        PROVE  Registered(new, own) = Registered(cat, own)
    BY <2>1, <2>2, <2>4, <2>8 DEF Registered
  <2> QED
    BY <2>7, <2>8 DEF new
<1> QED
  BY <1>2, <1>3

-----------------------------------------------------------------------------
(* The statements of a deploy, one after the other.                         *)

After(cat, ix, v, f, n) ==
    IF n = 0 THEN [ok |-> ~BuildPanics(v), catalog |-> cat]
    ELSE IF f[n - 1].ok /\ ~Refused(f[n - 1].catalog, ix, v, Statements(v)[n])
         THEN [ok |-> TRUE, catalog |-> Executed(f[n - 1].catalog, ix, v, Statements(v)[n])]
         ELSE [ok |-> FALSE, catalog |-> cat]

Chain(cat, ix, v, N, f) == f = [n \in 0 .. N |-> After(cat, ix, v, f, n)]

LEMMA AfterExists ==
    ASSUME NEW cat, NEW ix, NEW v, NEW N \in Nat
    PROVE  \E f : Chain(cat, ix, v, N, f)
<1> DEFINE P == {m \in 0 .. N : \E f : f = [n \in 0 .. m |-> After(cat, ix, v, f, n)]}
<1>1. 0 \in P
  <2> DEFINE g == [n \in 0 .. 0 |-> [ok |-> ~BuildPanics(v), catalog |-> cat]]
  <2>1. \A n \in 0 .. 0 : g[n] = After(cat, ix, v, g, n)
    BY DEF After
  <2>2. g = [n \in 0 .. 0 |-> g[n]]
    OBVIOUS
  <2> HIDE DEF g
  <2>3. g = [n \in 0 .. 0 |-> After(cat, ix, v, g, n)]
    BY <2>1, <2>2
  <2> QED
    BY <2>3
<1>2. ASSUME NEW m \in 0 .. N, m < N, m \in P PROVE m + 1 \in P
  <2>1. PICK f : f = [n \in 0 .. m |-> After(cat, ix, v, f, n)]
    BY <1>2
  <2> DEFINE g == [n \in 0 .. m + 1 |-> IF n = m + 1 THEN After(cat, ix, v, f, n) ELSE f[n]]
  <2>2. ASSUME NEW n \in 0 .. m + 1 PROVE g[n] = After(cat, ix, v, g, n)
    <3>1. g[n] = After(cat, ix, v, f, n)
      <4>1. n # m + 1 => n \in 0 .. m
        BY <1>2
      <4> QED
        BY <2>1, <4>1
    <3>2. n # 0 => n - 1 \in 0 .. m
      BY <1>2
    <3>3. n # 0 => g[n - 1] = f[n - 1]
      BY <3>2
    <3> HIDE DEF g
    <3> QED
      BY <3>1, <3>3 DEF After
  <2>3. g = [n \in 0 .. m + 1 |-> g[n]]
    OBVIOUS
  <2> HIDE DEF g
  <2>4. g = [n \in 0 .. m + 1 |-> After(cat, ix, v, g, n)]
    BY <2>2, <2>3
  <2> QED
    BY <1>2, <2>4
<1> HIDE DEF P
<1>3. \A m \in 0 .. N : m < N /\ m \in P => m + 1 \in P
  BY <1>2
<1>4. \A m \in 0 .. N : m \in P
  BY <1>1, <1>3, CountUp
<1>5. N \in P
  BY <1>4
<1> QED
  BY <1>5 DEF P, Chain

(* c is the catalog after each of the first statements.                     *)
Runs(cat, ix, v, k, c) ==
    /\ c[0] = cat
    /\ \A m \in 0 .. k - 1 :
          /\ ~Refused(c[m], ix, v, Statements(v)[m + 1])
          /\ c[m + 1] = Executed(c[m], ix, v, Statements(v)[m + 1])

(* Statements that were executed were all accepted.                         *)
LEMMA PrefixRuns ==
    ASSUME NEW cat, NEW ix, NEW v \in GraphqlSchema, NEW K \in 0 .. Len(Statements(v)),
           StatementsRun(cat, ix, v)[K].ok
    PROVE  /\ ~BuildPanics(v)
           /\ \E c : Runs(cat, ix, v, K, c) /\ c[K] = StatementsRun(cat, ix, v)[K].catalog
<1> DEFINE N == Len(Statements(v))
           f == CHOOSE f : Chain(cat, ix, v, N, f)
           P == {n \in 0 .. K : f[K - n].ok}
           c == [n \in 0 .. N |-> f[n].catalog]
<1>1. N \in Nat
  BY StatementsAre
<1>2. StatementsRun(cat, ix, v) = f
  BY DEF StatementsRun, Chain, After
<1>3. Chain(cat, ix, v, N, f)
  <2> HIDE DEF N
  <2> QED
    BY <1>1, AfterExists
<1> HIDE DEF f, N, P
<1>4. \A n \in 0 .. N : f[n] = After(cat, ix, v, f, n)
  BY <1>3 DEF Chain
<1>5. K \in 0 .. N /\ K \in Nat /\ f[K].ok
  BY <1>1, <1>2 DEF N
<1>6. \A n \in 0 .. N : n # 0 /\ f[n].ok =>
         /\ f[n - 1].ok /\ ~Refused(f[n - 1].catalog, ix, v, Statements(v)[n])
         /\ f[n].catalog = Executed(f[n - 1].catalog, ix, v, Statements(v)[n])
  <2> TAKE n \in 0 .. N
  <2> SUFFICES ASSUME n # 0, f[n].ok
               PROVE  /\ f[n - 1].ok /\ ~Refused(f[n - 1].catalog, ix, v, Statements(v)[n])
                      /\ f[n].catalog = Executed(f[n - 1].catalog, ix, v, Statements(v)[n])
    OBVIOUS
  <2> DEFINE go == f[n - 1].ok /\ ~Refused(f[n - 1].catalog, ix, v, Statements(v)[n])
             next == Executed(f[n - 1].catalog, ix, v, Statements(v)[n])
  <2>1. f[n] = IF go THEN [ok |-> TRUE, catalog |-> next] ELSE [ok |-> FALSE, catalog |-> cat]
    BY <1>4 DEF After
  <2> HIDE DEF go, next
  <2>2. go
    BY <2>1
  <2>3. f[n].catalog = next
    BY <2>1, <2>2
  <2> QED
    BY <2>2, <2>3 DEF go, next
<1>7. 0 \in P
  BY <1>5 DEF P
<1>8. ASSUME NEW m \in 0 .. K, m < K, m \in P PROVE m + 1 \in P
  <2>1. K - m \in 0 .. N /\ K - m # 0 /\ (K - m) - 1 = K - (m + 1) /\ m + 1 \in 0 .. K
    BY <1>1, <1>5, <1>8
  <2>2. f[K - m].ok
    BY <1>8 DEF P
  <2>3. f[K - (m + 1)].ok
    BY <1>6, <2>1, <2>2
  <2> QED
    BY <2>1, <2>3 DEF P
<1>9. \A k \in 0 .. K : f[k].ok
  <2>1. \A m \in 0 .. K : m < K /\ m \in P => m + 1 \in P
    BY <1>8
  <2>2. \A m \in 0 .. K : m \in P
    BY <1>5, <1>7, <2>1, CountUp
  <2>3. \A k \in 0 .. K : K - k \in 0 .. K /\ K - (K - k) = k
    BY <1>5
  <2> QED
    BY <2>2, <2>3 DEF P
<1>10. f[0].catalog = cat /\ ~BuildPanics(v)
  <2>1. f[0] = After(cat, ix, v, f, 0)
    BY <1>1, <1>4
  <2>2. f[0] = [ok |-> ~BuildPanics(v), catalog |-> cat]
    BY <2>1 DEF After
  <2>3. f[0].ok
    BY <1>5, <1>9
  <2>4. ASSUME BuildPanics(v) PROVE FALSE
    <3>1. (~BuildPanics(v)) = FALSE
      BY <2>4
    <3>2. f[0] = [ok |-> FALSE, catalog |-> cat]
      BY <2>2, <3>1, Zenon
    <3> QED
      BY <2>3, <3>2
  <2>5. ~BuildPanics(v)
    BY <2>4
  <2> QED
    BY <2>2, <2>5
<1>11. Runs(cat, ix, v, K, c)
  <2>1. c[0] = cat
    BY <1>1, <1>10
  <2>2. ASSUME NEW m \in 0 .. K - 1
        PROVE  /\ ~Refused(c[m], ix, v, Statements(v)[m + 1])
               /\ c[m + 1] = Executed(c[m], ix, v, Statements(v)[m + 1])
    <3>1. m \in 0 .. N /\ m + 1 \in 0 .. N /\ m + 1 \in 0 .. K /\ m + 1 # 0 /\ (m + 1) - 1 = m
      BY <1>1, <1>5
    <3>2. c[m] = f[m].catalog /\ c[m + 1] = f[m + 1].catalog
      BY <3>1
    <3> HIDE DEF c
    <3> QED
      BY <1>6, <1>9, <3>1, <3>2
  <2> HIDE DEF c
  <2> QED
    BY <2>1, <2>2 DEF Runs
<1>12. c[K] = StatementsRun(cat, ix, v)[K].catalog
  BY <1>2, <1>5
<1> HIDE DEF c
<1> QED
  BY <1>10, <1>11, <1>12

(* A deploy keeps the types owned, whether or not all of it is committed, and *)
(* adds none to an indexer that has some.                                     *)
LEMMA PrefixOwned ==
    ASSUME RegistryAssumption, registration \in Registrations, NEW cat, OwnedTypes(cat),
           NEW ix \in registration.owners, NEW v \in Versions, NEW N \in 0 .. Len(Statements(v)),
           StatementsRun(cat, ix, v)[N].ok
    PROVE  LET new == StatementsRun(cat, ix, v)[N].catalog
           IN  /\ OwnedTypes(new)
               /\ \A own \in registration.owners : Registered(cat, own) # {} =>
                      Registered(new, own) = Registered(cat, own)
<1> DEFINE Kept1(new) == \A own \in registration.owners : Registered(cat, own) # {} =>
                             Registered(new, own) = Registered(cat, own)
<1>1. v \in GraphqlSchema /\ N \in Nat
  BY VersionsAre, StatementsAre
<1>2. PICK c : Runs(cat, ix, v, N, c) /\ c[N] = StatementsRun(cat, ix, v)[N].catalog
  BY <1>1, PrefixRuns
<1> DEFINE P == {m \in 0 .. N : OwnedTypes(c[m]) /\ Kept1(c[m])}
<1>3. 0 \in P
  <2>1. c[0] = cat
    BY <1>2 DEF Runs
  <2> QED
    BY <1>1, <2>1
<1>4. ASSUME NEW m \in 0 .. N, m < N, m \in P PROVE m + 1 \in P
  <2> DEFINE st == Statements(v)[m + 1]
  <2>1. m \in 0 .. N - 1 /\ m + 1 \in 0 .. N
    BY <1>1, <1>4
  <2>2. ~Refused(c[m], ix, v, st) /\ c[m + 1] = Executed(c[m], ix, v, st)
    BY <1>2, <2>1 DEF Runs
  <2>3. OwnedTypes(c[m]) /\ Kept1(c[m])
    BY <1>4
  <2> HIDE DEF st
  <2>4. /\ OwnedTypes(c[m + 1])
        /\ \A own \in registration.owners : Registered(c[m], own) # {} =>
               Registered(c[m + 1], own) = Registered(c[m], own)
    <3>1. /\ OwnedTypes(Executed(c[m], ix, v, st))
          /\ \A own \in registration.owners : Registered(c[m], own) # {} =>
               Registered(Executed(c[m], ix, v, st), own) = Registered(c[m], own)
      BY <2>2, <2>3, ExecutedOwned
    <3> QED
      BY <2>2, <3>1
  <2>5. Kept1(c[m + 1])
    BY <2>3, <2>4
  <2> QED
    BY <2>1, <2>4, <2>5
<1> HIDE DEF P, Kept1
<1>5. N \in P
  <2>1. \A m \in 0 .. N : m < N /\ m \in P => m + 1 \in P
    BY <1>4
  <2>2. \A m \in 0 .. N : m \in P
    BY <1>1, <1>3, <2>1, CountUp
  <2> QED
    BY <1>1, <2>2
<1>6. OwnedTypes(c[N]) /\ Kept1(c[N])
  BY <1>5 DEF P
<1> QED
  BY <1>2, <1>6 DEF Kept1

-----------------------------------------------------------------------------
(* The invariant of the registry's rows.                                    *)

(* The start under way registers a whole version, and once its statement    *)
(* for the type ids has run, they are there.                                *)
StartInv ==
    starting # Nothing =>
        /\ starting \in [indexer : registration.owners, schema : Versions, done : Nat]
        /\ starting.done <= Len(Statements(starting.schema))
        /\ starting.done >= Len(Statements(starting.schema)) - 1 =>
              TypeIdsOf(starting.indexer, starting.schema) \subseteq catalog.typeIds
        /\ EntitiesCompile(starting.schema) /\ ~BuildPanics(starting.schema)

OwnedInv ==
    /\ registration \in Registrations
    /\ OwnedTypes(catalog)
    /\ StartInv
    /\ DOMAIN module = registration.owners
    /\ saved = Nothing \/ saved.outcome \in {"stored", "dropped", "panic"}

LEMMA OwnedInit == RegistryInit => OwnedInv
<1> SUFFICES ASSUME RegistryInit PROVE OwnedInv
  OBVIOUS
<1>1. IsCatalog(EmptyCatalog) /\ EmptyCatalog.typeIds = {}
  BY DEF EmptyCatalog, IsCatalog
<1>2. OwnedTypes(catalog)
  BY <1>1 DEF RegistryInit, OwnedTypes
<1> QED
  BY <1>2 DEF RegistryInit, OwnedInv, StartInv

Forever ==
    \A ix \in registration.owners :
        Registered(catalog, ix) # {} => Registered(catalog', ix) = Registered(catalog, ix)

LEMMA SameCatalog ==
    ASSUME OwnedTypes(catalog), UNCHANGED <<registration, catalog>>
    PROVE  OwnedTypes(catalog)' /\ Forever /\ Versions' = Versions
BY DEF OwnedTypes, Versions, Forever, Registered

LEMMA DeployOwned ==
    ASSUME RegistryAssumption, OwnedInv, NEW ix \in registration.owners,
           NEW schema \in registration.schemas, NEW compiled \in registration.schemas,
           DeploySchema(ix, schema, compiled)
    PROVE  OwnedInv' /\ Forever
<1> DEFINE v == Version(schema)
<1>1. v \in Versions /\ registration \in Registrations /\ OwnedTypes(catalog)
  BY DEF Versions, OwnedInv
<1>2. /\ starting = Nothing /\ UNCHANGED <<registration, starting, interrupted, saved>>
      /\ DOMAIN module' = registration.owners
  BY DEF DeploySchema, OwnedInv
<1>3. \/ UNCHANGED catalog
      \/ CommitMetadata(catalog, ix, v).ok /\ catalog' = CommitMetadata(catalog, ix, v).catalog
  BY DEF DeploySchema
<1>4. OwnedTypes(catalog)' /\ Forever
  <2>1. CASE UNCHANGED catalog
    BY <1>1, <1>2, <2>1, SameCatalog
  <2>2. CASE CommitMetadata(catalog, ix, v).ok /\ catalog' = CommitMetadata(catalog, ix, v).catalog
    <3> HIDE DEF v
    <3>0. Len(Statements(v)) \in 0 .. Len(Statements(v))
      BY <1>1, VersionsAre, StatementsAre
    <3>1. /\ OwnedTypes(catalog')
          /\ \A own \in registration.owners : Registered(catalog, own) # {} =>
                 Registered(catalog', own) = Registered(catalog, own)
      BY <1>1, <2>2, <3>0, PrefixOwned DEF CommitMetadata
    <3>2. Versions' = Versions
      BY <1>2 DEF Versions
    <3> QED
      BY <1>2, <3>1, <3>2 DEF OwnedTypes, Forever
  <2> QED
    BY <1>3, <2>1, <2>2
<1> QED
  BY <1>1, <1>2, <1>4 DEF OwnedInv, StartInv

LEMMA CutOwned ==
    ASSUME RegistryAssumption, OwnedInv, NEW ix \in registration.owners,
           NEW schema \in registration.schemas, DeployCutShort(ix, schema)
    PROVE  OwnedInv' /\ Forever
<1> DEFINE v == Version(schema)
<1>1. v \in Versions /\ registration \in Registrations /\ OwnedTypes(catalog)
  BY DEF Versions, OwnedInv
<1>2. starting = Nothing /\ UNCHANGED <<registration, starting, module, saved>>
  BY DEF DeployCutShort
<1> HIDE DEF v
<1>3. PICK n \in 1 .. Len(Statements(v)) :
         StatementsRun(catalog, ix, v)[n].ok /\ catalog' = StatementsRun(catalog, ix, v)[n].catalog
  BY DEF DeployCutShort, v
<1>4. n \in 0 .. Len(Statements(v))
  BY <1>1, VersionsAre, StatementsAre
<1>5. /\ OwnedTypes(catalog')
      /\ \A own \in registration.owners : Registered(catalog, own) # {} =>
             Registered(catalog', own) = Registered(catalog, own)
  BY <1>1, <1>3, <1>4, PrefixOwned
<1>6. Versions' = Versions
  BY <1>2 DEF Versions
<1>7. OwnedTypes(catalog)' /\ Forever
  BY <1>2, <1>5, <1>6 DEF OwnedTypes, Forever
<1> QED
  BY <1>1, <1>2, <1>7 DEF OwnedInv, StartInv

LEMMA StartOwned ==
    ASSUME RegistryAssumption, OwnedInv, NEW ix \in registration.owners,
           NEW schema \in registration.schemas, StartRegistration(ix, schema)
    PROVE  OwnedInv' /\ Forever
<1> DEFINE v == Version(schema)
<1>1. v \in Versions /\ registration \in Registrations /\ OwnedTypes(catalog)
  BY DEF Versions, OwnedInv
<1>2. /\ starting' = [indexer |-> ix, schema |-> v, done |-> 0]
      /\ UNCHANGED <<registration, catalog, interrupted, module, saved>>
      /\ EntitiesCompile(v) /\ ~BuildPanics(v)
  BY DEF StartRegistration
<1>3. v \in GraphqlSchema
  BY <1>1, VersionsAre
<1>4. Len(Statements(v)) \in Nat /\ Len(Statements(v)) >= 4
  BY <1>3, StatementsAre
<1>5. OwnedTypes(catalog)' /\ Forever /\ Versions' = Versions
  BY <1>1, <1>2, SameCatalog
<1> HIDE DEF v
<1>6. /\ starting' \in [indexer : registration'.owners, schema : Versions', done : Nat]
      /\ starting'.done = 0 /\ starting'.schema = v
  BY <1>1, <1>2, <1>5
<1>7. StartInv'
  BY <1>2, <1>4, <1>6 DEF StartInv
<1> QED
  BY <1>1, <1>2, <1>5, <1>7 DEF OwnedInv

LEMMA StatementOwned ==
    ASSUME RegistryAssumption, OwnedInv, RunStatement
    PROVE  OwnedInv' /\ Forever
<1>1. PICK ix \in registration.owners, v \in Versions, n \in Nat :
         starting = [indexer |-> ix, schema |-> v, done |-> n]
  BY DEF OwnedInv, StartInv, RunStatement
<1> DEFINE st == Statements(v)[n + 1]
           L == Len(Statements(v))
<1>2. registration \in Registrations /\ OwnedTypes(catalog) /\ v \in GraphqlSchema
  BY VersionsAre DEF OwnedInv
<1>3. n < L /\ L \in Nat /\ L >= 4 /\ Statements(v)[L - 1].kind = "type_ids"
  BY <1>1, <1>2, StatementsAre DEF RunStatement, Statement
<1>4. /\ ~Refused(catalog, ix, v, st) /\ catalog' = Executed(catalog, ix, v, st)
      /\ starting' = [indexer |-> ix, schema |-> v, done |-> n + 1]
      /\ UNCHANGED <<registration, interrupted, module, saved>>
  BY <1>1 DEF RunStatement, NextStatement
<1> HIDE DEF L
<1>5. OwnedTypes(catalog)' /\ Forever
  <2> HIDE DEF st
  <2>1. /\ OwnedTypes(Executed(catalog, ix, v, st))
        /\ \A own \in registration.owners : Registered(catalog, own) # {} =>
               Registered(Executed(catalog, ix, v, st), own) = Registered(catalog, own)
    BY <1>2, <1>4, ExecutedOwned
  <2>2. OwnedTypes(catalog')
    BY <1>4, <2>1
  <2>3. Versions' = Versions
    BY <1>4 DEF Versions
  <2> QED
    BY <1>4, <2>1, <2>2, <2>3 DEF OwnedTypes, Forever
<1>6. n + 1 >= L - 1 => TypeIdsOf(ix, v) \subseteq catalog'.typeIds
  <2>1. /\ st.kind = "type_ids" => catalog'.typeIds = catalog.typeIds \cup TypeIdsOf(ix, v)
        /\ st.kind # "type_ids" => catalog'.typeIds = catalog.typeIds
    <3>1. IsCatalog(catalog)
      BY <1>2 DEF OwnedTypes
    <3> HIDE DEF st
    <3>2. st.kind = "type_ids" => Executed(catalog, ix, v, st).typeIds = catalog.typeIds \cup TypeIdsOf(ix, v)
      BY <3>1, ExecutedTypes
    <3>3. st.kind # "type_ids" => Executed(catalog, ix, v, st).typeIds = catalog.typeIds
      BY <3>1, ExecutedTypes
    <3> QED
      BY <1>4, <3>2, <3>3
  <2>2. CASE n + 1 = L - 1
    BY <1>3, <2>1, <2>2
  <2>3. CASE n + 1 > L - 1
    <3>1. n >= L - 1
      BY <1>3, <2>3
    <3>2. TypeIdsOf(ix, v) \subseteq catalog.typeIds
      BY <1>1, <3>1 DEF OwnedInv, StartInv, RunStatement, L
    <3> QED
      BY <2>1, <3>2
  <2> QED
    BY <1>3, <2>2, <2>3
<1>7. EntitiesCompile(v) /\ ~BuildPanics(v)
  BY <1>1 DEF OwnedInv, StartInv, RunStatement
<1>8. StartInv'
  <2>1. Versions' = Versions
    BY <1>4 DEF Versions
  <2>2. /\ starting' \in [indexer : registration'.owners, schema : Versions', done : Nat]
        /\ starting'.done = n + 1 /\ starting'.schema = v /\ starting'.indexer = ix
    BY <1>4, <2>1
  <2>3. n + 1 <= L
    BY <1>3
  <2> QED
    BY <1>6, <1>7, <2>2, <2>3 DEF StartInv, L
<1> QED
  BY <1>4, <1>5, <1>8 DEF OwnedInv

LEMMA OthersOwned ==
    ASSUME RegistryAssumption, OwnedInv,
           \/ InterruptRegistration \/ FinishRegistration \/ UNCHANGED registryVars
           \/ \E ix \in registration.owners : RemoveIndexer(ix) \/ SaveEntityOf(ix)
    PROVE  OwnedInv' /\ Forever
<1>1. registration \in Registrations /\ OwnedTypes(catalog)
  BY DEF OwnedInv
<1>2. UNCHANGED <<registration, catalog>> /\ (starting' = Nothing \/ UNCHANGED starting)
  BY DEF InterruptRegistration, FinishRegistration, RemoveIndexer, SaveEntityOf, registryVars
<1>3. OwnedTypes(catalog)' /\ Forever /\ Versions' = Versions
  BY <1>1, <1>2, SameCatalog
<1>4. StartInv'
  BY <1>2, <1>3 DEF OwnedInv, StartInv
<1>5. DOMAIN module' = registration'.owners
  BY DEF OwnedInv, InterruptRegistration, FinishRegistration, RemoveIndexer, SaveEntityOf, registryVars
<1>6. saved' = Nothing \/ saved'.outcome \in {"stored", "dropped", "panic"}
  <2>1. CASE UNCHANGED saved
    BY <2>1 DEF OwnedInv
  <2>2. CASE \E ix \in registration.owners : SaveEntityOf(ix)
    <3>1. PICK ix \in registration.owners : SaveEntityOf(ix)
      BY <2>2
    <3>2. PICK i \in DOMAIN Entities(module[ix]) : \E outcome \in SaveOutcomes(ix, Entities(module[ix])[i]) :
             saved' = [indexer |-> ix, version |-> module[ix], type |-> Entities(module[ix])[i], outcome |-> outcome]
      BY <3>1 DEF SaveEntityOf
    <3>3. SaveOutcomes(ix, Entities(module[ix])[i]) \subseteq {"stored", "dropped", "panic"}
      BY DEF SaveOutcomes
    <3> QED
      BY <3>2, <3>3
  <2> QED
    BY <2>1, <2>2 DEF InterruptRegistration, FinishRegistration, RemoveIndexer, registryVars
<1> QED
  BY <1>1, <1>2, <1>3, <1>4, <1>5, <1>6 DEF OwnedInv

LEMMA OwnedNext == RegistryAssumption /\ OwnedInv /\ [RegistryNext]_registryVars => OwnedInv' /\ Forever
<1> SUFFICES ASSUME RegistryAssumption, OwnedInv, [RegistryNext]_registryVars PROVE OwnedInv' /\ Forever
  OBVIOUS
<1>1. CASE \E ix \in registration.owners : \E schema, compiled \in registration.schemas :
             DeploySchema(ix, schema, compiled)
  BY <1>1, DeployOwned
<1>2. CASE \E ix \in registration.owners : \E schema \in registration.schemas : StartRegistration(ix, schema)
  BY <1>2, StartOwned
<1>3. CASE RunStatement
  BY <1>3, StatementOwned
<1>4. CASE \/ InterruptRegistration \/ FinishRegistration \/ UNCHANGED registryVars
           \/ \E ix \in registration.owners : RemoveIndexer(ix) \/ SaveEntityOf(ix)
  BY <1>4, OthersOwned
<1>5. CASE \E ix \in registration.owners : \E schema \in registration.schemas : DeployCutShort(ix, schema)
  BY <1>5, CutOwned
<1> QED
  BY <1>1, <1>2, <1>3, <1>4, <1>5 DEF RegistryNext

LEMMA RegistryOwned == RegistrySpec => []OwnedInv
<1>1. RegistryInit => OwnedInv
  BY OwnedInit
<1>2. OwnedInv /\ [RegistryNext]_registryVars => OwnedInv'
  BY OwnedNext, RegistryAssumption
<1> QED
  BY <1>1, <1>2, PTL DEF RegistrySpec

(* The registry's state has its type: the rows that commit_metadata inserts  *)
(* name indexers of the scenario and whole versions, the start under way is  *)
(* at one of its statements, and modules are those of the indexers.          *)
THEOREM RegistryIsTyped == RegistrySpec => []RegistryTypeOK
<1>1. OwnedInv => RegistryTypeOK
  <2> SUFFICES ASSUME OwnedInv PROVE RegistryTypeOK
    OBVIOUS
  <2>1. registration \in Registrations /\ OwnedTypes(catalog)
    BY DEF OwnedInv
  <2>2. ASSUME NEW t \in catalog.typeIds
        PROVE  t \in [id : {TypeId(u.indexer, u.name) : u \in catalog.typeIds},
                      indexer : registration.owners, version : {Version(s) : s \in registration.schemas},
                      name : DOMAIN Lower, table : {Lower[u] : u \in DOMAIN Lower}]
    <3>1. t.indexer \in registration.owners /\ t.version \in Versions /\ t \in TypeIdsOf(t.indexer, t.version)
      BY <2>1 DEF OwnedTypes
    <3>2. PICK u \in EntitySet(t.version) :
             t = [id |-> TypeId(t.indexer, u.name), indexer |-> t.indexer, version |-> t.version,
                  name |-> u.name, table |-> Lower[u.name]]
      BY <3>1 DEF TypeIdsOf, EntitySet
    <3>3. u.name \in DOMAIN Lower
      BY <2>1, <3>1, <3>2, RegistryAssumption, VersionsAre DEF GraphqlType
    <3>4. t.name = u.name /\ TypeId(t.indexer, u.name) \in {TypeId(w.indexer, w.name) : w \in catalog.typeIds}
      BY <3>2
    <3> QED
      BY <3>1, <3>2, <3>3, <3>4 DEF Versions
  <2>3. starting # Nothing => starting.done \in 0 .. Len(Statements(starting.schema))
    <3> SUFFICES ASSUME starting # Nothing PROVE starting.done \in 0 .. Len(Statements(starting.schema))
      OBVIOUS
    <3>1. starting.schema \in GraphqlSchema
      BY <2>1, RegistryAssumption, VersionsAre DEF OwnedInv, StartInv
    <3>2. Len(Statements(starting.schema)) \in Nat
      BY <3>1, StatementsAre
    <3> QED
      BY <3>2 DEF OwnedInv, StartInv
  <2> QED
    BY <2>2, <2>3 DEF OwnedInv, RegistryTypeOK
<1> QED
  BY <1>1, RegistryOwned, PTL

(* No two indexers own one table, although the names of two can make the     *)
(* same Postgres schema: the injected entity has one type id there, if the   *)
(* names do not differ in case only.                                         *)
THEOREM TablesAreOwned == RegistrySpec => []TablesHaveOneOwner
<1>1. OwnedInv => TablesHaveOneOwner
  <2> SUFFICES ASSUME OwnedInv PROVE TablesHaveOneOwner
    OBVIOUS
  <2>1. registration \in Registrations /\ OwnedTypes(catalog)
    BY DEF OwnedInv
  <2> SUFFICES ASSUME NEW s \in catalog.typeIds, NEW t \in catalog.typeIds,
                      PgSchema(s.indexer) = PgSchema(t.indexer), ~SharesSchema(s.indexer)
               PROVE  s.indexer = t.indexer
    BY DEF TablesHaveOneOwner
  <2>2. t.indexer \in registration.owners
    BY <2>1 DEF OwnedTypes
  <2>3. SchemaName(s.indexer) = SchemaName(t.indexer)
    BY <2>2 DEF SharesSchema
  <2> QED
    BY <2>1, <2>3, RegistryAssumption, OneSchema
<1> QED
  BY <1>1, RegistryOwned, PTL

(* Once an indexer has a schema it keeps it: no deploy, start or removal     *)
(* adds a type to it, takes one away or registers another version.           *)
THEOREM SchemasAreForever == RegistrySpec => SchemaIsForever
<1>1. OwnedInv /\ [RegistryNext]_registryVars => [Forever]_registryVars
  BY OwnedNext, RegistryAssumption
<1>2. RegistrySpec => [][Forever]_registryVars
  BY <1>1, RegistryOwned, PTL DEF RegistrySpec
<1> QED
  BY <1>2 DEF SchemaIsForever, Forever

-----------------------------------------------------------------------------
(* What each statement does.                                                *)

LEMMA StatementKind ==
    ASSUME NEW v \in GraphqlSchema, NEW n \in 1 .. Len(Statements(v))
    PROVE  LET st == Statements(v)[n]
               L == Len(Statements(v))
           IN  /\ st = Statement(st.kind, st.item)
               /\ st.kind \in {"graph_root", "root_columns", "table", "foreign_key", "index", "type_ids", "columns"}
               /\ (st.kind = "graph_root" <=> n = 1) /\ (st.kind = "root_columns" <=> n = 2)
               /\ (st.kind = "type_ids" <=> n = L - 1) /\ (st.kind = "columns" <=> n = L)
               /\ st.kind = "table" => st.item \in EntitySet(v)
               /\ st.kind = "foreign_key" => st.item \in AllKeys(v)
<1> DEFINE st == Statements(v)[n]
           L == Len(Statements(v))
<1>1. /\ L \in Nat /\ L >= 4
      /\ Statements(v)[1] = Statement("graph_root", Nothing)
      /\ Statements(v)[2] = Statement("root_columns", Nothing)
      /\ Statements(v)[L - 1] = Statement("type_ids", Nothing)
      /\ Statements(v)[L] = Statement("columns", Nothing)
      /\ \A m \in 3 .. L - 2 : Statements(v)[m] \in TableStatements(v)
  BY StatementsAre
<1>2. n = 1 \/ n = 2 \/ n \in 3 .. L - 2 \/ n = L - 1 \/ n = L
  BY <1>1
<1>3. CASE n \in 3 .. L - 2
  <2>1. /\ n # 1 /\ n # 2 /\ n # L - 1 /\ n # L
        /\ st \in TableStatements(v)
    BY <1>1, <1>3
  <2> HIDE DEF st, L
  <2>2. CASE \E t \in EntitySet(v) : st = Statement("table", t)
    BY <2>1, <2>2 DEF Statement, st, L
  <2>3. CASE \E k \in AllKeys(v) : st = Statement("foreign_key", k)
    BY <2>1, <2>3 DEF Statement, st, L
  <2>4. CASE \E k \in AllIndices(v) : st = Statement("index", k)
    BY <2>1, <2>4 DEF Statement, st, L
  <2> QED
    BY <2>1, <2>2, <2>3, <2>4 DEF TableStatements
<1>4. CASE n = 1
  <2>1. n # 2 /\ n # L - 1 /\ n # L /\ st = Statement("graph_root", Nothing)
    BY <1>1, <1>4
  <2> HIDE DEF st, L
  <2> QED
    BY <1>4, <2>1 DEF Statement, st, L
<1>5. CASE n = 2
  <2>1. n # 1 /\ n # L - 1 /\ n # L /\ st = Statement("root_columns", Nothing)
    BY <1>1, <1>5
  <2> HIDE DEF st, L
  <2> QED
    BY <1>5, <2>1 DEF Statement, st, L
<1>6. CASE n = L - 1
  <2>1. n # 1 /\ n # 2 /\ n # L /\ st = Statement("type_ids", Nothing)
    BY <1>1, <1>6
  <2> HIDE DEF st, L
  <2> QED
    BY <1>6, <2>1 DEF Statement, st, L
<1>7. CASE n = L
  <2>1. n # 1 /\ n # 2 /\ n # L - 1 /\ st = Statement("columns", Nothing)
    BY <1>1, <1>7
  <2> HIDE DEF st, L
  <2> QED
    BY <1>7, <2>1 DEF Statement, st, L
<1> QED
  BY <1>2, <1>3, <1>4, <1>5, <1>6, <1>7

TablesStep(cat, new, ix, v, st) ==
    LET key == <<PgSchema(ix), Lower[st.item.name]>>
    IN  IF st.kind = "table" /\ key \notin DOMAIN cat.tables
        THEN new.tables = [k \in DOMAIN cat.tables \cup {key} |->
                              IF k \in DOMAIN cat.tables THEN cat.tables[k] ELSE Columns(v, st.item)]
        ELSE new.tables = cat.tables

KeysStep(cat, new, ix, v, st) ==
    /\ st.kind = "foreign_key" => new.foreignKeys = cat.foreignKeys \cup {<<PgSchema(ix), st.item>>}
    /\ st.kind # "foreign_key" => new.foreignKeys = cat.foreignKeys

RootsStep(cat, new, ix, v, st) ==
    /\ st.kind = "graph_root" => new.roots = Append(cat.roots, [indexer |-> ix, version |-> v])
    /\ st.kind # "graph_root" => new.roots = cat.roots

ColumnsStep(cat, new, ix, v, st) ==
    /\ st.kind = "columns" =>
          new.columns = [id \in DOMAIN cat.columns \cup {t.id : t \in TypeIdsOf(ix, v)} |->
              IF id \in DOMAIN cat.columns THEN cat.columns[id] ELSE Columns(v, TypeNamed(v, id[2]))]
    /\ st.kind # "columns" => new.columns = cat.columns

TypesStep(cat, new, ix, v, st) ==
    /\ st.kind = "type_ids" => new.typeIds = cat.typeIds \cup TypeIdsOf(ix, v)
    /\ st.kind # "type_ids" => new.typeIds = cat.typeIds

LEMMA ExecutedIs ==
    ASSUME NEW cat, IsCatalog(cat), NEW ix, NEW v, NEW st, NEW new, new = Executed(cat, ix, v, st)
    PROVE  /\ TablesStep(cat, new, ix, v, st)
           /\ KeysStep(cat, new, ix, v, st)
           /\ RootsStep(cat, new, ix, v, st)
           /\ ColumnsStep(cat, new, ix, v, st)
           /\ TypesStep(cat, new, ix, v, st)
<1>1. PICK T, F, I, R, D, C : cat = [tables |-> T, foreignKeys |-> F, indices |-> I, roots |-> R,
                                     typeIds |-> D, columns |-> C]
  BY DEF IsCatalog
<1> DEFINE key == <<PgSchema(ix), Lower[st.item.name]>>
           ids == {t.id : t \in TypeIdsOf(ix, v)}
<1>2. CASE st.kind = "graph_root"
  BY <1>1, <1>2 DEF Executed, TablesStep, KeysStep, RootsStep, ColumnsStep, TypesStep
<1>3. CASE st.kind = "table"
  <2>1. TableExists(cat, ix, Lower[st.item.name]) <=> key \in DOMAIN T
    BY <1>1 DEF TableExists
  <2>2. new = IF TableExists(cat, ix, Lower[st.item.name]) THEN cat
              ELSE [tables |-> [k \in DOMAIN T \cup {key} |-> IF k \in DOMAIN T THEN T[k] ELSE Columns(v, st.item)],
                    foreignKeys |-> F, indices |-> I, roots |-> R, typeIds |-> D, columns |-> C]
    BY <1>1, <1>3 DEF Executed
  <2> QED
    BY <1>1, <1>3, <2>1, <2>2 DEF TablesStep, KeysStep, RootsStep, ColumnsStep, TypesStep
<1>4. CASE st.kind = "foreign_key"
  BY <1>1, <1>4 DEF Executed, TablesStep, KeysStep, RootsStep, ColumnsStep, TypesStep
<1>5. CASE st.kind = "index"
  BY <1>1, <1>5 DEF Executed, TablesStep, KeysStep, RootsStep, ColumnsStep, TypesStep
<1>6. CASE st.kind = "type_ids"
  BY <1>1, <1>6 DEF Executed, TablesStep, KeysStep, RootsStep, ColumnsStep, TypesStep
<1>7. CASE st.kind = "columns"
  BY <1>1, <1>7 DEF Executed, TablesStep, KeysStep, RootsStep, ColumnsStep, TypesStep
<1>8. CASE st.kind \notin {"graph_root", "table", "foreign_key", "index", "type_ids", "columns"}
  BY <1>1, <1>8 DEF Executed, TablesStep, KeysStep, RootsStep, ColumnsStep, TypesStep
<1> QED
  BY <1>2, <1>3, <1>4, <1>5, <1>6, <1>7, <1>8

-----------------------------------------------------------------------------
(* A Postgres schema in which n statements of one registration have run.    *)

Ran(v, n, s) == \E m \in 1 .. n : Statements(v)[m] = s

TablesAre(cat, sn, v, n) ==
    /\ CaseDistinct(v) =>
          \A k \in DOMAIN cat.tables : k[1] = sn =>
              \E t \in EntitySet(v) : k = <<sn, Lower[t.name]>> /\ cat.tables[k] = Columns(v, t)
    /\ \A t \in EntitySet(v) :
          Ran(v, n, Statement("table", t)) => <<sn, Lower[t.name]>> \in DOMAIN cat.tables

KeysAre(cat, sn, v, n) ==
    /\ \A f \in cat.foreignKeys : f[1] = sn => \E k \in AllKeys(v) : f = <<sn, k>>
    /\ \A k \in AllKeys(v) : Ran(v, n, Statement("foreign_key", k)) => <<sn, k>> \in cat.foreignKeys

TypesAre(cat, ix, v, n) ==
    /\ n < Len(Statements(v)) - 1 => \A t \in cat.typeIds : SchemaName(t.indexer) # SchemaName(ix)
    /\ n >= Len(Statements(v)) - 1 => TypeIdsOf(ix, v) \subseteq cat.typeIds

ColumnsAre(cat, ix, v, n) ==
    /\ n < Len(Statements(v)) => \A id \in DOMAIN cat.columns : id[1] # SchemaName(ix)
    /\ n >= Len(Statements(v)) => \A t \in TypeIdsOf(ix, v) :
          t.id \in DOMAIN cat.columns /\ cat.columns[t.id] = Columns(v, TypeNamed(v, t.name))

RootsAre(cat, ix, v) ==
    \A m \in DOMAIN cat.roots :
        SchemaName(cat.roots[m].indexer) = SchemaName(ix) => cat.roots[m] = [indexer |-> ix, version |-> v]

(* Folds a name as Postgres does: PgSchema(ix) is Folded(SchemaName(ix)).    *)
Folded(name) == [n \in DOMAIN name |-> Fold(name[n])]

(* One of the owners has another name that Postgres folds to the same.      *)
Shared(owners, sn) == \E own \in owners : PgSchema(own) = Folded(sn) /\ SchemaName(own) # sn

LEMMA SharedIs ==
    ASSUME NEW ix
    PROVE  /\ PgSchema(ix) = Folded(SchemaName(ix))
           /\ SharesSchema(ix) <=> Shared(registration.owners, SchemaName(ix))
           /\ \A own : SchemaName(own) = SchemaName(ix) => PgSchema(own) = PgSchema(ix)
<1>1. \A own : PgSchema(own) = Folded(SchemaName(own))
  BY DEF PgSchema, Folded
<1> QED
  BY <1>1 DEF SharesSchema, Shared

(* The tables and the keys are looked at where one name has them only.      *)
Has(cat, owners, ix, v, n) ==
    /\ ~Shared(owners, SchemaName(ix)) =>
          TablesAre(cat, PgSchema(ix), v, n) /\ KeysAre(cat, PgSchema(ix), v, n)
    /\ TypesAre(cat, ix, v, n)
    /\ ColumnsAre(cat, ix, v, n)
    /\ RootsAre(cat, ix, v)
    /\ n >= 2 => v.query \in TypeNames(v)
    /\ ~BuildPanics(v)

LEMMA RanNext ==
    ASSUME NEW v, NEW n \in Nat, NEW s
    PROVE  Ran(v, n + 1, s) <=> Ran(v, n, s) \/ Statements(v)[n + 1] = s
<1>1. \A m : m \in 1 .. n + 1 <=> m \in 1 .. n \/ m = n + 1
  OBVIOUS
<1> QED
  BY <1>1 DEF Ran

LEMMA TablesNext ==
    ASSUME NEW cat, IsCatalog(cat), NEW ix, NEW v \in GraphqlSchema, NEW n \in Nat, n < Len(Statements(v)),
           NEW new, new = Executed(cat, ix, v, Statements(v)[n + 1]), TablesAre(cat, PgSchema(ix), v, n)
    PROVE  TablesAre(new, PgSchema(ix), v, n + 1)
<1> DEFINE sn == PgSchema(ix)
           st == Statements(v)[n + 1]
           key == <<sn, Lower[st.item.name]>>
<1>1. n + 1 \in 1 .. Len(Statements(v))
  BY StatementsAre
<1>2. st.kind = "table" => st.item \in EntitySet(v)
  BY <1>1, StatementKind
<1>3. /\ st.kind = "table" /\ key \notin DOMAIN cat.tables =>
            new.tables = [k \in DOMAIN cat.tables \cup {key} |->
                            IF k \in DOMAIN cat.tables THEN cat.tables[k] ELSE Columns(v, st.item)]
      /\ ~(st.kind = "table" /\ key \notin DOMAIN cat.tables) => new.tables = cat.tables
  <2>1. TablesStep(cat, new, ix, v, st)
    BY ExecutedIs
  <2> QED
    BY <2>1 DEF TablesStep
<1>4. \A t \in EntitySet(v) :
         Ran(v, n + 1, Statement("table", t)) <=> Ran(v, n, Statement("table", t)) \/ st = Statement("table", t)
  BY RanNext
<1>5. \A t : st = Statement("table", t) => st.kind = "table" /\ st.item = t
  BY DEF Statement
<1> HIDE DEF st, sn
<1>6. CASE st.kind = "table" /\ key \notin DOMAIN cat.tables
  <2>1. \A k \in DOMAIN new.tables : k \in DOMAIN cat.tables \/ k = key
    BY <1>3, <1>6
  <2>2. \A k \in DOMAIN cat.tables : k \in DOMAIN new.tables /\ new.tables[k] = cat.tables[k]
    BY <1>3, <1>6
  <2>3. key \in DOMAIN new.tables /\ new.tables[key] = Columns(v, st.item)
    BY <1>3, <1>6
  <2>4. st.item \in EntitySet(v)
    BY <1>2, <1>6
  <2>5. ASSUME CaseDistinct(v), NEW k \in DOMAIN new.tables, k[1] = sn
        PROVE  \E t \in EntitySet(v) : k = <<sn, Lower[t.name]>> /\ new.tables[k] = Columns(v, t)
    <3>1. CASE k \in DOMAIN cat.tables
      BY <2>2, <2>5, <3>1 DEF TablesAre, sn
    <3>2. CASE k = key
      BY <2>3, <2>4, <3>2
    <3> QED
      BY <2>1, <3>1, <3>2
  <2>6. ASSUME NEW t \in EntitySet(v), Ran(v, n + 1, Statement("table", t))
        PROVE  <<sn, Lower[t.name]>> \in DOMAIN new.tables
    <3>1. CASE Ran(v, n, Statement("table", t))
      BY <2>2, <3>1 DEF TablesAre, sn
    <3>2. CASE st = Statement("table", t)
      BY <1>5, <2>3, <3>2
    <3> QED
      BY <1>4, <2>6, <3>1, <3>2
  <2> QED
    BY <2>5, <2>6 DEF TablesAre, sn
<1>7. CASE ~(st.kind = "table" /\ key \notin DOMAIN cat.tables)
  <2>1. new.tables = cat.tables
    BY <1>3, <1>7
  <2>2. ASSUME NEW t \in EntitySet(v), Ran(v, n + 1, Statement("table", t))
        PROVE  <<sn, Lower[t.name]>> \in DOMAIN new.tables
    <3>1. CASE Ran(v, n, Statement("table", t))
      BY <2>1, <3>1 DEF TablesAre, sn
    <3>2. CASE st = Statement("table", t)
      BY <1>5, <1>7, <2>1, <3>2
    <3> QED
      BY <1>4, <2>2, <3>1, <3>2
  <2> QED
    BY <2>1, <2>2 DEF TablesAre, sn
<1> QED
  BY <1>6, <1>7

LEMMA KeysNext ==
    ASSUME NEW cat, IsCatalog(cat), NEW ix, NEW v \in GraphqlSchema, NEW n \in Nat, n < Len(Statements(v)),
           NEW new, new = Executed(cat, ix, v, Statements(v)[n + 1]), KeysAre(cat, PgSchema(ix), v, n)
    PROVE  KeysAre(new, PgSchema(ix), v, n + 1)
<1> DEFINE sn == PgSchema(ix)
           st == Statements(v)[n + 1]
<1>1. n + 1 \in 1 .. Len(Statements(v))
  BY StatementsAre
<1>2. st.kind = "foreign_key" => st.item \in AllKeys(v)
  BY <1>1, StatementKind
<1>3. /\ st.kind = "foreign_key" => new.foreignKeys = cat.foreignKeys \cup {<<sn, st.item>>}
      /\ st.kind # "foreign_key" => new.foreignKeys = cat.foreignKeys
  <2>1. KeysStep(cat, new, ix, v, st)
    BY ExecutedIs
  <2> QED
    BY <2>1 DEF KeysStep
<1>4. \A k \in AllKeys(v) :
         Ran(v, n + 1, Statement("foreign_key", k)) <=>
             Ran(v, n, Statement("foreign_key", k)) \/ st = Statement("foreign_key", k)
  BY RanNext
<1>5. \A k : st = Statement("foreign_key", k) => st.kind = "foreign_key" /\ st.item = k
  BY DEF Statement
<1> HIDE DEF st, sn
<1>6. \A f \in new.foreignKeys : f[1] = sn => \E k \in AllKeys(v) : f = <<sn, k>>
  BY <1>2, <1>3 DEF KeysAre, sn
<1>7. ASSUME NEW k \in AllKeys(v), Ran(v, n + 1, Statement("foreign_key", k))
      PROVE  <<sn, k>> \in new.foreignKeys
  <2>1. CASE Ran(v, n, Statement("foreign_key", k))
    BY <1>3, <2>1 DEF KeysAre, sn
  <2>2. CASE st = Statement("foreign_key", k)
    BY <1>3, <1>5, <2>2
  <2> QED
    BY <1>4, <1>7, <2>1, <2>2
<1> QED
  BY <1>6, <1>7 DEF KeysAre, sn

LEMMA TypesNext ==
    ASSUME NEW cat, IsCatalog(cat), NEW ix, NEW v \in GraphqlSchema, NEW n \in Nat, n < Len(Statements(v)),
           NEW new, new = Executed(cat, ix, v, Statements(v)[n + 1]), TypesAre(cat, ix, v, n)
    PROVE  TypesAre(new, ix, v, n + 1)
<1> DEFINE st == Statements(v)[n + 1]
           L == Len(Statements(v))
<1>1. L \in Nat /\ L >= 4 /\ n + 1 \in 1 .. L
  BY StatementsAre
<1>2. st.kind = "type_ids" <=> n + 1 = L - 1
  BY <1>1, StatementKind
<1>3. TypesStep(cat, new, ix, v, st)
  BY ExecutedIs
<1> HIDE DEF st, L
<1>4. CASE n + 1 < L - 1
  BY <1>1, <1>2, <1>3, <1>4 DEF TypesStep, TypesAre, L
<1>5. CASE n + 1 = L - 1
  BY <1>1, <1>2, <1>3, <1>5 DEF TypesStep, TypesAre, L
<1>6. CASE n + 1 > L - 1
  <2>1. n >= L - 1
    BY <1>1, <1>6
  <2>2. TypeIdsOf(ix, v) \subseteq cat.typeIds
    BY <2>1 DEF TypesAre, L
  <2>3. cat.typeIds \subseteq new.typeIds
    BY <1>3 DEF TypesStep
  <2> QED
    BY <1>1, <1>6, <2>2, <2>3 DEF TypesAre, L
<1> QED
  BY <1>1, <1>4, <1>5, <1>6

LEMMA ColumnsNext ==
    ASSUME NEW cat, IsCatalog(cat), NEW ix, NEW v \in GraphqlSchema, NEW n \in Nat, n < Len(Statements(v)),
           NEW new, new = Executed(cat, ix, v, Statements(v)[n + 1]), ColumnsAre(cat, ix, v, n)
    PROVE  ColumnsAre(new, ix, v, n + 1)
<1> DEFINE st == Statements(v)[n + 1]
           L == Len(Statements(v))
           ids == {t.id : t \in TypeIdsOf(ix, v)}
<1>1. L \in Nat /\ L >= 4 /\ n + 1 \in 1 .. L
  BY StatementsAre
<1>2. st.kind = "columns" <=> n + 1 = L
  BY <1>1, StatementKind
<1>3. ColumnsStep(cat, new, ix, v, st)
  BY ExecutedIs
<1>4. \A id \in DOMAIN cat.columns : id[1] # SchemaName(ix)
  BY <1>1 DEF ColumnsAre
<1>5. \A t \in TypeIdsOf(ix, v) : t.id = <<SchemaName(ix), t.name>>
  BY DEF TypeIdsOf, TypeId
<1> HIDE DEF st, L
<1>6. CASE n + 1 < L
  BY <1>1, <1>2, <1>3, <1>4, <1>6 DEF ColumnsStep, ColumnsAre, L
<1>7. CASE n + 1 = L
  <2>1. new.columns = [id \in DOMAIN cat.columns \cup ids |->
              IF id \in DOMAIN cat.columns THEN cat.columns[id] ELSE Columns(v, TypeNamed(v, id[2]))]
    BY <1>2, <1>3, <1>7 DEF ColumnsStep
  <2>2. ASSUME NEW t \in TypeIdsOf(ix, v)
        PROVE  t.id \in DOMAIN new.columns /\ new.columns[t.id] = Columns(v, TypeNamed(v, t.name))
    <3>1. t.id \in ids /\ t.id[1] = SchemaName(ix) /\ t.id[2] = t.name
      BY <1>5
    <3>2. t.id \notin DOMAIN cat.columns
      BY <1>4, <3>1
    <3> QED
      BY <2>1, <3>1, <3>2
  <2> QED
    BY <1>1, <1>7, <2>2 DEF ColumnsAre, L
<1> QED
  BY <1>1, <1>6, <1>7

LEMMA RootsNext ==
    ASSUME NEW cat, IsCatalog(cat), NEW A, cat.roots \in Seq(A), NEW ix, NEW v \in GraphqlSchema, NEW st,
           [indexer |-> ix, version |-> v] \in A,
           NEW new, new = Executed(cat, ix, v, st)
    PROVE  /\ new.roots \in Seq(A)
           /\ Range(new.roots) \subseteq Range(cat.roots) \cup {[indexer |-> ix, version |-> v]}
<1> DEFINE r == [indexer |-> ix, version |-> v]
<1>1. RootsStep(cat, new, ix, v, st)
  BY ExecutedIs
<1>2. Append(cat.roots, r) \in Seq(A) /\ Range(Append(cat.roots, r)) = Range(cat.roots) \cup {r}
  BY RangeOfAppend
<1> HIDE DEF r
<1>3. CASE st.kind = "graph_root"
  BY <1>1, <1>2, <1>3 DEF RootsStep, r
<1>4. CASE st.kind # "graph_root"
  BY <1>1, <1>4 DEF RootsStep
<1> QED
  BY <1>3, <1>4 DEF r

LEMMA HasNext ==
    ASSUME NEW cat, IsCatalog(cat), NEW owners, NEW A, cat.roots \in Seq(A), NEW ix, NEW v \in GraphqlSchema,
           [indexer |-> ix, version |-> v] \in A,
           NEW n \in Nat, n < Len(Statements(v)),
           ~Refused(cat, ix, v, Statements(v)[n + 1]),
           NEW new, new = Executed(cat, ix, v, Statements(v)[n + 1]), Has(cat, owners, ix, v, n)
    PROVE  Has(new, owners, ix, v, n + 1)
<1> DEFINE st == Statements(v)[n + 1]
<1>1. TablesAre(cat, PgSchema(ix), v, n) => TablesAre(new, PgSchema(ix), v, n + 1)
  BY TablesNext
<1>2. KeysAre(cat, PgSchema(ix), v, n) => KeysAre(new, PgSchema(ix), v, n + 1)
  BY KeysNext
<1>3. TypesAre(new, ix, v, n + 1)
  BY TypesNext DEF Has
<1>4. ColumnsAre(new, ix, v, n + 1)
  BY ColumnsNext DEF Has
<1>5. RootsAre(new, ix, v)
  <2> DEFINE r == [indexer |-> ix, version |-> v]
  <2>1. Range(new.roots) \subseteq Range(cat.roots) \cup {r}
    BY RootsNext
  <2>2. \A q \in Range(cat.roots) : SchemaName(q.indexer) = SchemaName(ix) => q = r
    BY DEF Has, RootsAre, Range
  <2> HIDE DEF r
  <2>3. \A m \in DOMAIN new.roots : new.roots[m] \in Range(new.roots)
    BY DEF Range
  <2> QED
    BY <2>1, <2>2, <2>3 DEF RootsAre, r
<1>6. n + 1 >= 2 => v.query \in TypeNames(v)
  <2>1. CASE n + 1 = 2
    <3>1. st = Statement("root_columns", Nothing)
      BY <2>1, StatementsAre
    <3> QED
      BY <3>1 DEF Refused, Statement
  <2> QED
    BY <2>1 DEF Has
<1> QED
  BY <1>1, <1>2, <1>3, <1>4, <1>5, <1>6 DEF Has

(* The registration under way has its schema's name to itself, or it will   *)
(* be refused: the type id of the injected entity is there already.         *)
UnderWay(cat, owners, ix, v, n) ==
    \/ Has(cat, owners, ix, v, n)
    \/ /\ n < Len(Statements(v)) - 1
       /\ \E t \in cat.typeIds : SchemaName(t.indexer) = SchemaName(ix)

RootSet == [indexer : registration.owners, version : Versions]

LEMMA UnderWayNext ==
    ASSUME RegistryAssumption, registration \in Registrations, NEW cat, OwnedTypes(cat), cat.roots \in Seq(RootSet),
           NEW ix \in registration.owners, NEW v \in Versions, NEW n \in Nat, n < Len(Statements(v)),
           ~Refused(cat, ix, v, Statements(v)[n + 1]),
           NEW new, new = Executed(cat, ix, v, Statements(v)[n + 1]), UnderWay(cat, registration.owners, ix, v, n)
    PROVE  UnderWay(new, registration.owners, ix, v, n + 1)
<1> DEFINE st == Statements(v)[n + 1]
           L == Len(Statements(v))
<1>1. v \in GraphqlSchema /\ IsCatalog(cat) /\ [indexer |-> ix, version |-> v] \in RootSet
  BY VersionsAre DEF OwnedTypes, RootSet
<1>2. L \in Nat /\ L >= 4 /\ n + 1 \in 1 .. L
  BY <1>1, StatementsAre
<1>3. CASE Has(cat, registration.owners, ix, v, n)
  BY <1>1, <1>3, HasNext DEF UnderWay
<1>4. CASE n < L - 1 /\ \E t \in cat.typeIds : SchemaName(t.indexer) = SchemaName(ix)
  <2>1. st.kind = "type_ids" <=> n + 1 = L - 1
    BY <1>1, <1>2, StatementKind
  <2>2. TypesStep(cat, new, ix, v, st)
    BY <1>1, ExecutedIs
  <2> HIDE DEF st, L
  <2>3. st.kind # "type_ids"
    BY <1>4, SecondRefused DEF st
  <2>4. n + 1 < L - 1
    BY <1>2, <1>4, <2>1, <2>3
  <2> QED
    BY <1>4, <2>2, <2>3, <2>4 DEF TypesStep, UnderWay, L
<1> QED
  BY <1>3, <1>4 DEF UnderWay

-----------------------------------------------------------------------------
(* The Postgres schemas that a statement does not concern.                  *)

Untouched(cat, owners, sn) ==
    /\ ~Shared(owners, sn) =>
          /\ \A k \in DOMAIN cat.tables : k[1] # Folded(sn)
          /\ \A f \in cat.foreignKeys : f[1] # Folded(sn)
    /\ \A t \in cat.typeIds : SchemaName(t.indexer) # sn
    /\ \A id \in DOMAIN cat.columns : id[1] # sn
    /\ \A m \in DOMAIN cat.roots : SchemaName(cat.roots[m].indexer) # sn

(* Nothing is registered under the name, or one version with all of its     *)
(* tables.                                                                  *)
Settled(cat, sn) ==
    \/ Untouched(cat, registration.owners, sn)
    \/ \E ix \in registration.owners, v \in Versions :
          SchemaName(ix) = sn /\ Has(cat, registration.owners, ix, v, Len(Statements(v)))

SameTables(cat, new, pg) ==
    /\ \A k : k[1] = pg => /\ k \in DOMAIN new.tables <=> k \in DOMAIN cat.tables
                           /\ k \in DOMAIN cat.tables => new.tables[k] = cat.tables[k]
    /\ \A f : f[1] = pg => (f \in new.foreignKeys <=> f \in cat.foreignKeys)

Same(cat, new, owners, sn) ==
    /\ ~Shared(owners, sn) => SameTables(cat, new, Folded(sn))
    /\ \A t : SchemaName(t.indexer) = sn => (t \in new.typeIds <=> t \in cat.typeIds)
    /\ \A id : id[1] = sn => /\ id \in DOMAIN new.columns <=> id \in DOMAIN cat.columns
                             /\ id \in DOMAIN cat.columns => new.columns[id] = cat.columns[id]
    /\ \A r \in Range(new.roots) : SchemaName(r.indexer) = sn => r \in Range(cat.roots)

LEMMA OthersSame ==
    ASSUME NEW cat, IsCatalog(cat), NEW A, cat.roots \in Seq(A), NEW ix, NEW v \in GraphqlSchema, NEW st,
           [indexer |-> ix, version |-> v] \in A, NEW owners, ix \in owners, NEW sn, sn # SchemaName(ix),
           NEW new, new = Executed(cat, ix, v, st)
    PROVE  Same(cat, new, owners, sn)
<1>1. /\ TablesStep(cat, new, ix, v, st) /\ KeysStep(cat, new, ix, v, st)
      /\ ColumnsStep(cat, new, ix, v, st) /\ TypesStep(cat, new, ix, v, st)
  BY ExecutedIs
<1>0. ~Shared(owners, sn) => PgSchema(ix) # Folded(sn)
  BY DEF Shared
<1>2. ASSUME ~Shared(owners, sn), NEW k, k[1] = Folded(sn)
      PROVE  /\ k \in DOMAIN new.tables <=> k \in DOMAIN cat.tables
             /\ k \in DOMAIN cat.tables => new.tables[k] = cat.tables[k]
  <2> DEFINE key == <<PgSchema(ix), Lower[st.item.name]>>
  <2>1. key[1] = PgSchema(ix)
    OBVIOUS
  <2>2. k # key
    BY <1>0, <1>2, <2>1
  <2>3. CASE st.kind = "table" /\ key \notin DOMAIN cat.tables
    <3>1. new.tables = [l \in DOMAIN cat.tables \cup {key} |->
                           IF l \in DOMAIN cat.tables THEN cat.tables[l] ELSE Columns(v, st.item)]
      BY <1>1, <2>3 DEF TablesStep
    <3> HIDE DEF key
    <3> QED
      BY <2>2, <3>1
  <2>4. CASE ~(st.kind = "table" /\ key \notin DOMAIN cat.tables)
    BY <1>1, <2>4 DEF TablesStep
  <2> QED
    BY <2>3, <2>4
<1>3. ASSUME ~Shared(owners, sn), NEW f, f[1] = Folded(sn)
      PROVE  f \in new.foreignKeys <=> f \in cat.foreignKeys
  <2>1. f # <<PgSchema(ix), st.item>>
    BY <1>0, <1>3
  <2> QED
    BY <1>1, <2>1 DEF KeysStep
<1>4. ASSUME NEW t, SchemaName(t.indexer) = sn PROVE t \in new.typeIds <=> t \in cat.typeIds
  <2>1. \A u \in TypeIdsOf(ix, v) : u.indexer = ix
    BY DEF TypeIdsOf
  <2>2. t \notin TypeIdsOf(ix, v)
    BY <1>4, <2>1
  <2> QED
    BY <1>1, <2>2 DEF TypesStep
<1>5. ASSUME NEW id, id[1] = sn
      PROVE  /\ id \in DOMAIN new.columns <=> id \in DOMAIN cat.columns
             /\ id \in DOMAIN cat.columns => new.columns[id] = cat.columns[id]
  <2> DEFINE ids == {t.id : t \in TypeIdsOf(ix, v)}
  <2>1. \A t \in TypeIdsOf(ix, v) : t.id[1] = SchemaName(ix)
    BY DEF TypeIdsOf, TypeId
  <2>2. id \notin ids
    BY <1>5, <2>1
  <2>3. CASE st.kind = "columns"
    <3>1. new.columns = [i \in DOMAIN cat.columns \cup ids |->
             IF i \in DOMAIN cat.columns THEN cat.columns[i] ELSE Columns(v, TypeNamed(v, i[2]))]
      BY <1>1, <2>3 DEF ColumnsStep
    <3> HIDE DEF ids
    <3> QED
      BY <2>2, <3>1
  <2>4. CASE st.kind # "columns"
    BY <1>1, <2>4 DEF ColumnsStep
  <2> QED
    BY <2>3, <2>4
<1>6. \A r \in Range(new.roots) : SchemaName(r.indexer) = sn => r \in Range(cat.roots)
  <2>1. Range(new.roots) \subseteq Range(cat.roots) \cup {[indexer |-> ix, version |-> v]}
    BY RootsNext
  <2> QED
    BY <2>1
<1> QED
  BY <1>2, <1>3, <1>4, <1>5, <1>6 DEF Same, SameTables

LEMMA SameHas ==
    ASSUME NEW cat, NEW new, NEW owners, NEW ix, NEW v \in GraphqlSchema, NEW n \in Nat,
           Same(cat, new, owners, SchemaName(ix)), Has(cat, owners, ix, v, n)
    PROVE  Has(new, owners, ix, v, n)
<1> DEFINE sn == SchemaName(ix)
           pg == PgSchema(ix)
<1>0. ~Shared(owners, sn) =>
         SameTables(cat, new, pg) /\ TablesAre(cat, pg, v, n) /\ KeysAre(cat, pg, v, n)
  BY SharedIs DEF Same, Has
<1>1. ~Shared(owners, sn) => TablesAre(new, pg, v, n)
  <2>1. \A t : <<pg, t>>[1] = pg
    OBVIOUS
  <2> HIDE DEF pg
  <2> QED
    BY <1>0, <2>1 DEF TablesAre, SameTables
<1>2. ~Shared(owners, sn) => KeysAre(new, pg, v, n)
  <2>1. \A t : <<pg, t>>[1] = pg
    OBVIOUS
  <2> HIDE DEF pg
  <2> QED
    BY <1>0, <2>1 DEF KeysAre, SameTables
<1>3. TypesAre(new, ix, v, n)
  <2>1. \A t \in TypeIdsOf(ix, v) : t.indexer = ix
    BY DEF TypeIdsOf
  <2> QED
    BY <2>1 DEF Has, TypesAre, Same
<1>4. ColumnsAre(new, ix, v, n)
  <2>1. \A t \in TypeIdsOf(ix, v) : t.id[1] = sn
    BY DEF TypeIdsOf, TypeId
  <2> QED
    BY <2>1 DEF Has, ColumnsAre, Same
<1>5. RootsAre(new, ix, v)
  <2>1. \A r \in Range(new.roots) : SchemaName(r.indexer) = sn => r = [indexer |-> ix, version |-> v]
    BY DEF Has, RootsAre, Same, Range
  <2> QED
    BY <2>1 DEF RootsAre, Range
<1> QED
  BY <1>1, <1>2, <1>3, <1>4, <1>5 DEF Has

LEMMA SameSettled ==
    ASSUME RegistryAssumption, registration \in Registrations,
           NEW cat, NEW new, NEW sn, Same(cat, new, registration.owners, sn), Settled(cat, sn)
    PROVE  Settled(new, sn)
<1>1. CASE Untouched(cat, registration.owners, sn)
  <2>1. \A m \in DOMAIN new.roots : SchemaName(new.roots[m].indexer) # sn
    BY <1>1 DEF Untouched, Same, Range
  <2>2. Untouched(new, registration.owners, sn)
    BY <1>1, <2>1 DEF Untouched, Same, SameTables
  <2> QED
    BY <2>2 DEF Settled
<1>2. CASE \E ix \in registration.owners, v \in Versions :
             SchemaName(ix) = sn /\ Has(cat, registration.owners, ix, v, Len(Statements(v)))
  <2>1. PICK ix \in registration.owners, v \in Versions :
           SchemaName(ix) = sn /\ Has(cat, registration.owners, ix, v, Len(Statements(v)))
    BY <1>2
  <2>2. v \in GraphqlSchema /\ Len(Statements(v)) \in Nat
    BY VersionsAre, StatementsAre
  <2>3. Has(new, registration.owners, ix, v, Len(Statements(v)))
    BY <2>1, <2>2, SameHas
  <2> QED
    BY <2>1, <2>3 DEF Settled
<1> QED
  BY <1>1, <1>2 DEF Settled

-----------------------------------------------------------------------------
(* Registrations of whole schemas.                                          *)

LEMMA BeginsUnderWay ==
    ASSUME RegistryAssumption, registration \in Registrations, NEW cat,
           NEW ix \in registration.owners, NEW v \in Versions, ~BuildPanics(v), Settled(cat, SchemaName(ix))
    PROVE  UnderWay(cat, registration.owners, ix, v, 0)
<1>1. v \in GraphqlSchema
  BY VersionsAre
<1>2. Len(Statements(v)) \in Nat /\ Len(Statements(v)) >= 4
  BY <1>1, StatementsAre
<1>3. CASE Untouched(cat, registration.owners, SchemaName(ix))
  <2>1. \A s : ~Ran(v, 0, s)
    <3>1. \A m : m \notin 1 .. 0
      OBVIOUS
    <3> QED
      BY <3>1 DEF Ran
  <2>2. ~Shared(registration.owners, SchemaName(ix)) =>
           TablesAre(cat, PgSchema(ix), v, 0) /\ KeysAre(cat, PgSchema(ix), v, 0)
    BY <1>3, <2>1, SharedIs DEF Untouched, TablesAre, KeysAre
  <2>3. TypesAre(cat, ix, v, 0) /\ ColumnsAre(cat, ix, v, 0) /\ RootsAre(cat, ix, v)
    BY <1>2, <1>3 DEF Untouched, TypesAre, ColumnsAre, RootsAre
  <2> QED
    BY <2>2, <2>3 DEF Has, UnderWay
<1>4. CASE \E own \in registration.owners, w \in Versions :
             SchemaName(own) = SchemaName(ix) /\ Has(cat, registration.owners, own, w, Len(Statements(w)))
  <2>1. PICK own \in registration.owners, w \in Versions :
           SchemaName(own) = SchemaName(ix) /\ Has(cat, registration.owners, own, w, Len(Statements(w)))
    BY <1>4
  <2>2. w \in GraphqlSchema
    BY VersionsAre
  <2>3. Len(Statements(w)) \in Nat
    BY <2>2, StatementsAre
  <2>4. TypeIdsOf(own, w) \subseteq cat.typeIds
    BY <2>1, <2>3 DEF Has, TypesAre
  <2>5. PICK t \in TypeIdsOf(own, w) : t.indexer = own
    BY MetadataId
  <2> QED
    BY <1>2, <2>1, <2>4, <2>5 DEF UnderWay
<1> QED
  BY <1>3, <1>4 DEF Settled

(* A deploy that commits leaves what is registered under every name settled, *)
(* and one that is cut short does so but for its own.                        *)
LEMMA PrefixSettled ==
    ASSUME RegistryAssumption, registration \in Registrations,
           NEW cat, OwnedTypes(cat), cat.roots \in Seq(RootSet),
           NEW ix \in registration.owners, NEW v \in Versions, NEW K \in 0 .. Len(Statements(v)),
           StatementsRun(cat, ix, v)[K].ok, NEW new, new = StatementsRun(cat, ix, v)[K].catalog
    PROVE  /\ new.roots \in Seq(RootSet)
           /\ K = Len(Statements(v)) => TypeIdsOf(ix, v) \subseteq new.typeIds
           /\ \A own \in registration.owners :
                 /\ Settled(cat, SchemaName(own))
                 /\ SchemaName(own) = SchemaName(ix) => K = Len(Statements(v))
                 => Settled(new, SchemaName(own))
<1> DEFINE N == Len(Statements(v))
           sn == SchemaName(ix)
           Good(c, m) ==
              /\ OwnedTypes(c) /\ c.roots \in Seq(RootSet)
              /\ m >= N - 1 => TypeIdsOf(ix, v) \subseteq c.typeIds
              /\ Settled(cat, sn) => UnderWay(c, registration.owners, ix, v, m)
              /\ \A own \in registration.owners : SchemaName(own) # sn /\ Settled(cat, SchemaName(own))
                     => Settled(c, SchemaName(own))
<1>1. v \in GraphqlSchema /\ N \in Nat /\ N >= 4
  BY VersionsAre, StatementsAre
<1>2. /\ ~BuildPanics(v)
      /\ \E c : Runs(cat, ix, v, K, c) /\ c[K] = new
  BY <1>1, PrefixRuns
<1>3. PICK c : Runs(cat, ix, v, K, c) /\ c[K] = new
  BY <1>2
<1>10. K \in 0 .. N /\ K \in Nat
  BY <1>1
<1> DEFINE P == {m \in 0 .. K : Good(c[m], m)}
<1>4. 0 \in P
  <2>1. c[0] = cat
    BY <1>3 DEF Runs
  <2>2. Settled(cat, sn) => UnderWay(cat, registration.owners, ix, v, 0)
    BY <1>2, BeginsUnderWay
  <2>3. Good(cat, 0)
    BY <1>1, <2>2
  <2> HIDE DEF Good
  <2> QED
    BY <1>10, <2>1, <2>3
<1>5. ASSUME NEW m \in 0 .. K, m < K, m \in P PROVE m + 1 \in P
  <2> DEFINE st == Statements(v)[m + 1]
  <2>1. m \in 0 .. K - 1 /\ m + 1 \in 0 .. K /\ m + 1 \in 1 .. N /\ m \in Nat /\ m < N
    BY <1>1, <1>5, <1>10
  <2>2. ~Refused(c[m], ix, v, st) /\ c[m + 1] = Executed(c[m], ix, v, st)
    BY <1>3, <2>1 DEF Runs
  <2>3. Good(c[m], m)
    BY <1>5
  <2>4. OwnedTypes(c[m]) /\ c[m].roots \in Seq(RootSet)
    BY <2>3
  <2>5. OwnedTypes(c[m + 1])
    <3> HIDE DEF st
    <3>1. OwnedTypes(Executed(c[m], ix, v, st))
      BY <2>2, <2>4, ExecutedOwned
    <3> QED
      BY <2>2, <3>1
  <2>6. IsCatalog(c[m]) /\ [indexer |-> ix, version |-> v] \in RootSet
    BY <2>4 DEF OwnedTypes, RootSet
  <2>7. c[m + 1].roots \in Seq(RootSet)
    <3> HIDE DEF st
    <3> QED
      BY <1>1, <2>2, <2>4, <2>6, RootsNext
  <2>8. UnderWay(c[m], registration.owners, ix, v, m) => UnderWay(c[m + 1], registration.owners, ix, v, m + 1)
    BY <1>5, <2>1, <2>2, <2>4, UnderWayNext
  <2>9. ASSUME NEW own \in registration.owners, SchemaName(own) # sn, Settled(c[m], SchemaName(own))
        PROVE  Settled(c[m + 1], SchemaName(own))
    <3> HIDE DEF st
    <3>1. Same(c[m], c[m + 1], registration.owners, SchemaName(own))
      BY <1>1, <2>2, <2>4, <2>6, <2>9, OthersSame
    <3> QED
      BY <2>9, <3>1, SameSettled
  <2>11. m + 1 >= N - 1 => TypeIdsOf(ix, v) \subseteq c[m + 1].typeIds
    <3>1. st.kind = "type_ids" <=> m + 1 = N - 1
      BY <1>1, <2>1, StatementKind
    <3>2. TypesStep(c[m], c[m + 1], ix, v, st)
      BY <2>2, <2>6, ExecutedIs
    <3>3. m >= N - 1 => TypeIdsOf(ix, v) \subseteq c[m].typeIds
      BY <2>3
    <3> HIDE DEF st, N
    <3>4. CASE m + 1 = N - 1
      BY <3>1, <3>2, <3>4 DEF TypesStep
    <3>5. CASE m + 1 # N - 1
      BY <1>1, <2>1, <3>2, <3>3, <3>5 DEF TypesStep
    <3> QED
      BY <3>4, <3>5
  <2>10. Good(c[m + 1], m + 1)
    BY <2>3, <2>5, <2>7, <2>8, <2>9, <2>11
  <2> HIDE DEF Good
  <2> QED
    BY <2>1, <2>10
<1>6. Good(new, K)
  <2> HIDE DEF N, P, Good
  <2>1. \A m \in 0 .. K : m < K /\ m \in P => m + 1 \in P
    BY <1>5
  <2>2. \A m \in 0 .. K : m \in P
    BY <1>4, <1>10, <2>1, CountUp
  <2> QED
    BY <1>3, <1>10, <2>2 DEF P
<1>7. ASSUME Settled(cat, sn), K = N
      PROVE  Settled(new, sn)
  <2>1. UnderWay(new, registration.owners, ix, v, N)
    BY <1>6, <1>7
  <2>2. Has(new, registration.owners, ix, v, N)
    BY <1>1, <2>1 DEF UnderWay
  <2> QED
    BY <1>1, <2>2 DEF Settled
<1>8. K = N => TypeIdsOf(ix, v) \subseteq new.typeIds
  BY <1>1, <1>6
<1>9. ASSUME NEW own \in registration.owners, Settled(cat, SchemaName(own)), SchemaName(own) = sn => K = N
      PROVE  Settled(new, SchemaName(own))
  <2>1. CASE SchemaName(own) = sn
    BY <1>7, <1>9, <2>1
  <2>2. CASE SchemaName(own) # sn
    BY <1>6, <1>9, <2>2
  <2> QED
    BY <2>1, <2>2
<1>11. new.roots \in Seq(RootSet)
  BY <1>6
<1> HIDE DEF Good
<1> QED
  BY <1>8, <1>9, <1>11 DEF N, sn

-----------------------------------------------------------------------------
(* What a settled Postgres schema holds.                                    *)

LEMMA WholeVersion ==
    ASSUME RegistryAssumption, registration \in Registrations, NEW cat, OwnedTypes(cat),
           NEW t \in cat.typeIds, Settled(cat, SchemaName(t.indexer))
    PROVE  /\ t.indexer \in registration.owners /\ t.version \in Versions
           /\ Has(cat, registration.owners, t.indexer, t.version, Len(Statements(t.version)))
<1>1. t.indexer \in registration.owners /\ t.version \in Versions
  BY DEF OwnedTypes
<1>2. PICK own \in registration.owners, w \in Versions :
         SchemaName(own) = SchemaName(t.indexer) /\ Has(cat, registration.owners, own, w, Len(Statements(w)))
  BY DEF Settled, Untouched
<1>3. w \in GraphqlSchema
  BY VersionsAre
<1>4. Len(Statements(w)) \in Nat
  BY <1>3, StatementsAre
<1>5. TypeIdsOf(own, w) \subseteq cat.typeIds
  BY <1>2, <1>4 DEF Has, TypesAre
<1>6. PICK m \in TypeIdsOf(own, w) : m.indexer = own /\ m.version = w
  BY MetadataId
<1>7. m \in cat.typeIds /\ SchemaName(m.indexer) = SchemaName(t.indexer)
  BY <1>2, <1>5, <1>6
<1>8. m.indexer = t.indexer /\ m.version = t.version
  BY <1>7, OneSchema
<1> QED
  BY <1>1, <1>2, <1>6, <1>8

LEMMA AllRan ==
    ASSUME NEW v \in GraphqlSchema, NEW s \in TableStatements(v)
    PROVE  Ran(v, Len(Statements(v)), s)
<1>1. Len(Statements(v)) \in Nat /\ \E n \in 3 .. Len(Statements(v)) - 2 : Statements(v)[n] = s
  BY StatementsAre
<1>2. PICK n \in 3 .. Len(Statements(v)) - 2 : Statements(v)[n] = s
  BY <1>1
<1>3. n \in 1 .. Len(Statements(v))
  BY <1>1
<1> QED
  BY <1>2, <1>3 DEF Ran

LEMMA NamesDistinct ==
    ASSUME NEW v \in GraphqlSchema, CaseDistinct(v),
           NEW t \in Range(v.types), NEW u \in Range(v.types), Lower[t.name] = Lower[u.name]
    PROVE  t = u
BY DEF CaseDistinct, Range

(* Every entity has its table and its columns' registration.                *)
LEMMA TableOf ==
    ASSUME NEW cat, NEW ix, ~SharesSchema(ix), NEW v \in GraphqlSchema, CaseDistinct(v),
           Has(cat, registration.owners, ix, v, Len(Statements(v))), NEW e \in EntitySet(v)
    PROVE  /\ TableExists(cat, ix, Lower[e.name])
           /\ Table(cat, ix, Lower[e.name]) = Columns(v, e)
           /\ TypeId(ix, e.name) \in DOMAIN cat.columns
           /\ cat.columns[TypeId(ix, e.name)] = Columns(v, e)
<1> DEFINE key == <<PgSchema(ix), Lower[e.name]>>
           L == Len(Statements(v))
<1>0. TablesAre(cat, PgSchema(ix), v, L)
  BY SharedIs DEF Has
<1>1. EntitySet(v) \subseteq Range(v.types)
  BY EntitiesAre
<1>2. key \in DOMAIN cat.tables
  <2>1. Statement("table", e) \in TableStatements(v)
    BY DEF TableStatements
  <2>2. Ran(v, L, Statement("table", e))
    BY <2>1, AllRan
  <2> QED
    BY <1>0, <2>2 DEF TablesAre
<1>3. cat.tables[key] = Columns(v, e)
  <2>1. key[1] = PgSchema(ix)
    OBVIOUS
  <2>2. PICK t \in EntitySet(v) : key = <<PgSchema(ix), Lower[t.name]>> /\ cat.tables[key] = Columns(v, t)
    BY <1>0, <1>2, <2>1 DEF TablesAre
  <2>3. Lower[t.name] = Lower[e.name]
    BY <2>2
  <2>4. t = e
    BY <1>1, <2>3, NamesDistinct
  <2> QED
    BY <2>2, <2>4
<1>4. TypeNamed(v, e.name) = e
  <2>1. PICK i \in DOMAIN v.types : v.types[i] = e
    BY <1>1 DEF Range
  <2> DEFINE k == CHOOSE i1 \in DOMAIN v.types : v.types[i1].name = e.name
  <2>2. k \in DOMAIN v.types /\ v.types[k].name = e.name
    BY <2>1
  <2>3. TypeNamed(v, e.name) = v.types[k]
    BY DEF TypeNamed
  <2> HIDE DEF k
  <2>4. v.types[k] \in Range(v.types) /\ e \in Range(v.types)
    BY <1>1, <2>2 DEF Range
  <2> QED
    BY <2>2, <2>3, <2>4, NamesDistinct
<1>5. /\ TypeId(ix, e.name) \in DOMAIN cat.columns
      /\ cat.columns[TypeId(ix, e.name)] = Columns(v, e)
  <2>1. PICK t : t = [id |-> TypeId(ix, e.name), indexer |-> ix, version |-> v, name |-> e.name, table |-> Lower[e.name]]
    OBVIOUS
  <2>2. t \in TypeIdsOf(ix, v) /\ t.id = TypeId(ix, e.name) /\ t.name = e.name
    BY <2>1 DEF TypeIdsOf, EntitySet
  <2>3. L \in Nat
    BY StatementsAre
  <2>4. t.id \in DOMAIN cat.columns /\ cat.columns[t.id] = Columns(v, TypeNamed(v, t.name))
    BY <2>2, <2>3 DEF Has, ColumnsAre
  <2> QED
    BY <1>4, <2>2, <2>4
<1> QED
  BY <1>2, <1>3, <1>5 DEF TableExists, Table

-----------------------------------------------------------------------------
(* The rows of compiled entities.                                           *)

LEMMA ScalarsFit == \A x \in EntityScalars \ Oversized : Holds(SqlType(x), Literal(x))
<1> SUFFICES ASSUME NEW x \in EntityScalars \ Oversized PROVE Holds(SqlType(x), Literal(x))
  OBVIOUS
<1>1. CASE x \in {"ID", "UInt8", "UInt16", "Int16"}
  <2>1. Digits[64] = 20 /\ Digits[128] = 39
    BY SMT DEF Digits
  <2>2. CASE x \in {"ID", "UInt8"}
    <3>1. SqlType(x) = [kind |-> "numeric", size |-> 20] /\ Literal(x) = [kind |-> "unsigned", size |-> 64]
      BY <2>2, SMT DEF SqlType, Literal
    <3> QED
      BY <2>1, <3>1, SMT DEF Holds
  <2>3. CASE x = "UInt16"
    <3>1. SqlType(x) = [kind |-> "numeric", size |-> 39] /\ Literal(x) = [kind |-> "unsigned", size |-> 128]
      BY <2>3, SMT DEF SqlType, Literal
    <3> QED
      BY <2>1, <3>1, SMT DEF Holds
  <2>4. CASE x = "Int16"
    <3>1. SqlType(x) = [kind |-> "numeric", size |-> 39] /\ Literal(x) = [kind |-> "signed", size |-> 128]
      BY <2>4, SMT DEF SqlType, Literal
    <3> QED
      BY <2>1, <3>1, SMT DEF Holds
  <2> QED
    BY <1>1, <2>2, <2>3, <2>4
<1>2. CASE x \in {"Int4", "Int8"}
  <2>1. CASE x = "Int4"
    <3>1. SqlType(x) = [kind |-> "integer", size |-> 32] /\ Literal(x) = [kind |-> "signed", size |-> 32]
      BY <2>1, SMT DEF SqlType, Literal
    <3> QED
      BY <3>1, SMT DEF Holds
  <2>2. CASE x = "Int8"
    <3>1. SqlType(x) = [kind |-> "integer", size |-> 64] /\ Literal(x) = [kind |-> "signed", size |-> 64]
      BY <2>2, SMT DEF SqlType, Literal
    <3> QED
      BY <3>1, SMT DEF Holds
  <2> QED
    BY <1>2, <2>1, <2>2
<1>3. CASE x \in {"Bytes4", "Bytes8", "Address", "AssetId", "Bytes32", "ContractId", "Salt", "MessageId", "Identity"}
  <2>1. CASE x = "Bytes4"
    <3>1. SqlType(x) = [kind |-> "varchar", size |-> 8] /\ Literal(x) = [kind |-> "text", size |-> 8]
      BY <2>1, SMT DEF SqlType, Literal
    <3> QED
      BY <3>1, SMT DEF Holds
  <2>2. CASE x = "Bytes8"
    <3>1. SqlType(x) = [kind |-> "varchar", size |-> 16] /\ Literal(x) = [kind |-> "text", size |-> 16]
      BY <2>2, SMT DEF SqlType, Literal
    <3> QED
      BY <3>1, SMT DEF Holds
  <2>3. CASE x = "Identity"
    <3>1. SqlType(x) = [kind |-> "varchar", size |-> 66] /\ Literal(x) = [kind |-> "text", size |-> 64]
      BY <2>3, SMT DEF SqlType, Literal
    <3> QED
      BY <3>1, SMT DEF Holds
  <2>4. CASE x \in {"Address", "AssetId", "Bytes32", "ContractId", "Salt", "MessageId"}
    <3>1. SqlType(x) = [kind |-> "varchar", size |-> 64] /\ Literal(x) = [kind |-> "text", size |-> 64]
      BY <2>4, SMT DEF SqlType, Literal
    <3> QED
      BY <3>1, SMT DEF Holds
  <2> QED
    BY <1>3, <2>1, <2>2, <2>3, <2>4
<1>4. CASE x \in {"Json", "Boolean"}
  <2>1. SqlType(x) = [kind |-> x, size |-> 0] /\ Literal(x) = [kind |-> x, size |-> 0]
    BY <1>4, SMT DEF SqlType, Literal
  <2> QED
    BY <1>4, <2>1, SMT DEF Holds
<1> QED
  BY <1>1, <1>2, <1>3, <1>4 DEF EntityScalars, ColumnTypes, BaseTypes, Oversized

LEMMA ColumnsOf ==
    ASSUME NEW v, NEW e \in GraphqlType
    PROVE  /\ Len(e.fields) \in Nat /\ DOMAIN e.fields = 1 .. Len(e.fields)
           /\ DOMAIN Columns(v, e) = 1 .. Len(e.fields) + 1 /\ Len(Columns(v, e)) = Len(e.fields) + 1
           /\ DOMAIN Row(v, e) = 1 .. Len(e.fields) /\ Len(Row(v, e)) = Len(e.fields)
           /\ \A j \in 1 .. Len(e.fields) :
                 /\ Columns(v, e)[j] = Column(v, e.fields[j])
                 /\ Row(v, e)[j] = Column(v, e.fields[j]).type
           /\ Columns(v, e)[Len(e.fields) + 1] = ObjectColumn
<1> DEFINE c == [j \in DOMAIN e.fields |-> Column(v, e.fields[j])]
           S == {Column(v, e.fields[j]) : j \in DOMAIN e.fields} \cup {ObjectColumn}
<1>1. Len(e.fields) \in Nat /\ DOMAIN e.fields = 1 .. Len(e.fields)
  BY DEF GraphqlType
<1>2. c \in Seq(S) /\ Len(c) = Len(e.fields) /\ ObjectColumn \in S
  BY <1>1
<1>3. Columns(v, e) = Append(c, ObjectColumn)
  BY DEF Columns
<1>4. \A j \in 1 .. Len(e.fields) : c[j] = Column(v, e.fields[j])
  BY <1>1
<1> HIDE DEF c, S
<1>5. /\ Append(c, ObjectColumn) \in Seq(S) /\ Len(Append(c, ObjectColumn)) = Len(e.fields) + 1
      /\ \A j \in 1 .. Len(e.fields) : Append(c, ObjectColumn)[j] = c[j]
      /\ Append(c, ObjectColumn)[Len(e.fields) + 1] = ObjectColumn
  BY <1>2
<1>6. DOMAIN Append(c, ObjectColumn) = 1 .. Len(e.fields) + 1
  BY <1>1, <1>5
<1>7. DOMAIN Row(v, e) = 1 .. Len(e.fields) /\ Len(Row(v, e)) = Len(e.fields)
  BY <1>1 DEF Row
<1>8. \A j \in 1 .. Len(e.fields) : Row(v, e)[j] = Column(v, e.fields[j]).type
  BY <1>1 DEF Row, Column
<1> QED
  BY <1>1, <1>3, <1>4, <1>5, <1>6, <1>7, <1>8

(* The ways an entity can be unfit for its table: CompiledEntitiesStored's.  *)
IsKeyField(v, type, j) == HasDirective(type.fields[j], "unique") \/ Row(v, type)[j] = "ID"

Unfit(v, type) ==
    \/ ~CaseDistinct(v)
    \/ Len(type.fields) = 1
    \/ \A j \in DOMAIN type.fields : Fold(type.fields[j].name) = "id" => ~IsKeyField(v, type, j)
    \/ \E j \in DOMAIN type.fields : Fold(type.fields[j].name) # "id" /\ IsKeyField(v, type, j)
    \/ \E j \in DOMAIN type.fields : Row(v, type)[j] \in Oversized \cup Unescaped

LEMMA CompiledRow ==
    ASSUME NEW v \in GraphqlSchema, EntitiesCompile(v), NEW e \in EntitySet(v), NEW j \in 1 .. Len(e.fields)
    PROVE  Row(v, e)[j] \in EntityScalars
<1>1. PICK i \in DOMAIN Entities(v) : Entities(v)[i] = e
  BY DEF EntitySet
<1>2. e \in GraphqlType
  BY EntitiesAre
<1>3. j \in DOMAIN e.fields
  BY <1>2, ColumnsOf
<1> DEFINE field == e.fields[j]
           earlier == {Entities(v)[k].name : k \in 1 .. i - 1}
<1>4. IF IsForeignKey(field) THEN ReferenceFieldCompiles(v, earlier, field) ELSE ScalarFieldCompiles(field)
  BY <1>1, <1>3 DEF EntitiesCompile
<1>5. Row(v, e)[j] = IF IsForeignKey(field) THEN ReferencedType(v, field) ELSE field.type
  BY <1>3 DEF Row
<1> HIDE DEF field, earlier
<1>6. CASE IsForeignKey(field)
  BY <1>4, <1>5, <1>6 DEF ReferenceFieldCompiles
<1>7. CASE ~IsForeignKey(field)
  <2>1. field.type \in IF field.nullable THEN CopyScalars ELSE EntityScalars
    BY <1>4, <1>7 DEF ScalarFieldCompiles
  <2>2. field.type \in EntityScalars
    BY <2>1 DEF CopyScalars
  <2> QED
    BY <1>5, <1>7, <2>2
<1> QED
  BY <1>6, <1>7

(* A fit entity's row fits, and none of its values is refused.              *)
LEMMA FitIsStored ==
    ASSUME CaseAssumption, NEW cat, NEW ix, ~SharesSchema(ix), NEW v \in GraphqlSchema,
           Has(cat, registration.owners, ix, v, Len(Statements(v))),
           EntitiesCompile(v), NEW e \in EntitySet(v), ~Unfit(v, e),
           NEW tid, tid.id = TypeId(ix, e.name), tid.table = Lower[e.name]
    PROVE  RowFits(cat, ix, tid, Row(v, e)) /\ ~MayBeRefused(cat, ix, tid, Row(v, e))
<1> DEFINE n == Len(e.fields)
           row == Row(v, e)
           cols == Columns(v, e)
<1>1. e \in GraphqlType /\ CaseDistinct(v)
  BY EntitiesAre DEF Unfit
<1>2. /\ n \in Nat /\ DOMAIN e.fields = 1 .. n /\ DOMAIN cols = 1 .. n + 1 /\ Len(cols) = n + 1
      /\ DOMAIN row = 1 .. n /\ Len(row) = n
      /\ \A j \in 1 .. n : cols[j] = Column(v, e.fields[j]) /\ row[j] = Column(v, e.fields[j]).type
      /\ cols[n + 1] = ObjectColumn
  BY <1>1, ColumnsOf
<1>3. /\ TableExists(cat, ix, tid.table) /\ Table(cat, ix, tid.table) = cols
      /\ cat.columns[tid.id] = cols
  <2>1. /\ TableExists(cat, ix, Lower[e.name]) /\ Table(cat, ix, Lower[e.name]) = cols
        /\ cat.columns[TypeId(ix, e.name)] = cols
    BY <1>1, TableOf
  <2> HIDE DEF cols
  <2> QED
    BY <2>1
<1>4. PICK i \in 1 .. n : Fold(e.fields[i].name) = "id" /\ IsKeyField(v, e, i)
  BY <1>2 DEF Unfit
<1>5. /\ n # 1
      /\ \A j \in 1 .. n : row[j] \notin Oversized /\ row[j] \notin Unescaped
      /\ \A j \in 1 .. n : IsKeyField(v, e, j) => Fold(e.fields[j].name) = "id"
  BY <1>2 DEF Unfit
<1>6. \A j \in 1 .. n : Holds(SqlType(row[j]), Literal(row[j]))
  BY <1>5, CompiledRow, ScalarsFit
<1>7. /\ \A f : Column(v, f).name = f.name
      /\ \A f : Column(v, f).unique = HasDirective(f, "unique")
  BY DEF Column
<1>8. Fold("id") = "id"
  BY DEF CaseAssumption, Fold
<1>9. \A j \in 1 .. n : /\ IsKeyColumn(cols[j]) <=> IsKeyField(v, e, j)
                        /\ IsNamed(cols[j], "id") <=> Fold(e.fields[j].name) = "id"
  BY <1>2, <1>7, <1>8 DEF IsKeyColumn, IsKeyField, IsNamed
<1>10. ~IsKeyColumn(cols[n + 1])
  BY <1>2 DEF IsKeyColumn, ObjectColumn
<1> HIDE DEF row, cols, n
<1>11. n > 1
  BY <1>2, <1>5
<1>12. HasUniqueColumn(cat, ix, tid.table, "id")
  <2>1. i \in DOMAIN cols /\ IsKeyColumn(cols[i]) /\ IsNamed(cols[i], "id")
    BY <1>2, <1>4, <1>9
  <2> QED
    BY <1>3, <2>1 DEF HasUniqueColumn
<1>13. ASSUME NEW j \in DOMAIN row
       PROVE  IsNamed(cols[j], cols[j].name) /\ Holds(SqlType(cols[j].type), Literal(row[j]))
  BY <1>2, <1>6 DEF IsNamed
<1>14. RowFits(cat, ix, tid, row)
  BY <1>2, <1>3, <1>11, <1>12, <1>13 DEF RowFits
<1>15. ~MayBeRefused(cat, ix, tid, row)
  <2>1. ASSUME NEW j \in DOMAIN cols PROVE ~(IsKeyColumn(cols[j]) /\ ~IsNamed(cols[j], "id"))
    <3>1. j \in 1 .. n \/ j = n + 1
      BY <1>2
    <3> QED
      BY <1>5, <1>9, <1>10, <3>1
  <2>2. \A j \in DOMAIN row : row[j] \notin Unescaped
    BY <1>2, <1>5
  <2> QED
    BY <1>3, <2>1, <2>2 DEF MayBeRefused
<1> QED
  BY <1>14, <1>15 DEF row

-----------------------------------------------------------------------------
(* What the web API loads.                                                  *)

LEMMA WebApiLoads ==
    ASSUME NEW v \in GraphqlSchema, CaseDistinct(v), v.query \in TypeNames(v), ~BuildPanics(v),
           Lower[v.query] = "queryroot"
    PROVE  ~LoadPanics(v) /\ LoadedForeignKeys(v) = AllKeys(v)
<1>1. PICK q \in Range(v.types) : q.name = v.query
  BY DEF TypeNames, Range
<1>2. \A t \in Range(v.types) : IsQueryRoot(t) <=> t \notin EntitySet(v)
  <2> TAKE t \in Range(v.types)
  <2>1. t \in EntitySet(v) <=> t.name # v.query
    BY EntitiesAre
  <2>2. CASE t.name = v.query
    BY <2>1, <2>2 DEF IsQueryRoot
  <2>3. CASE t.name # v.query
    <3>1. Lower[t.name] # Lower[q.name]
      BY <1>1, <2>3, NamesDistinct
    <3> QED
      BY <1>1, <2>1, <2>3, <3>1 DEF IsQueryRoot
  <2> QED
    BY <2>2, <2>3
<1>3. EntitySet(v) \subseteq Range(v.types)
  BY EntitiesAre
<1>4. LoadedForeignKeys(v) = AllKeys(v)
  <2>1. LoadedForeignKeys(v) = UNION {ForeignKeys(v, t) : t \in {u \in Range(v.types) : ~IsQueryRoot(u)}}
    BY DEF LoadedForeignKeys, Range
  <2>2. {u \in Range(v.types) : ~IsQueryRoot(u)} = EntitySet(v)
    BY <1>2, <1>3
  <2> QED
    BY <2>1, <2>2 DEF AllKeys
<1>5. ~LoadPanics(v)
  <2> SUFFICES ASSUME LoadPanics(v) PROVE FALSE
    OBVIOUS
  <2>1. PICK i \in DOMAIN v.types : ~IsQueryRoot(v.types[i]) /\
           \E j \in DOMAIN v.types[i].fields :
              LET field == v.types[i].fields[j]
              IN  \/ field.list
                  \/ IsForeignKey(field) /\ JoinPanics(v, field)
                  \/ ~IsForeignKey(field) /\ field.type \notin ColumnTypes
    BY DEF LoadPanics
  <2> DEFINE t == v.types[i]
  <2>2. t \in EntitySet(v)
    BY <1>2, <2>1 DEF Range
  <2>3. PICK j \in DOMAIN t.fields : FieldPanics(v, t.fields[j])
    BY <2>1 DEF FieldPanics
  <2> HIDE DEF t
  <2>4. PICK k \in DOMAIN Entities(v) : Entities(v)[k] = t
    BY <2>2 DEF EntitySet
  <2> QED
    BY <2>3, <2>4 DEF BuildPanics
<1> QED
  BY <1>4, <1>5

-----------------------------------------------------------------------------
(* The invariant of the tables, the modules and what they save.             *)

(* A part of a version may be registered under the name.                    *)
Unsettled(ix) ==
    \/ PgSchema(ix) \in interrupted
    \/ starting # Nothing /\ SchemaName(starting.indexer) = SchemaName(ix)

LEMMA UnsettledIs == \A ix : Unsettled(ix) => Disturbed(ix)
BY SharedIs DEF Unsettled, Disturbed

(* What is registered under a name is settled unless a start or a deploy was *)
(* interrupted in its Postgres schema or a start is under way.               *)
TablesInv ==
    /\ catalog.roots \in Seq(RootSet)
    /\ \A ix \in registration.owners : ~Unsettled(ix) => Settled(catalog, SchemaName(ix))
    /\ starting # Nothing /\ PgSchema(starting.indexer) \notin interrupted =>
          UnderWay(catalog, registration.owners, starting.indexer, starting.schema, starting.done)

ModulesInv ==
    \A ix \in registration.owners : module[ix] # Nothing =>
        /\ module[ix] \in Versions /\ EntitiesCompile(module[ix])
        /\ Registered(catalog, ix) # {}

SavedInv ==
    saved # Nothing =>
        /\ saved.indexer \in registration.owners
        /\ Registered(catalog, saved.indexer) # {}
        /\ saved.outcome = "dropped" => \/ PgSchema(saved.indexer) \in interrupted
                                        \/ ~SchemaExists(catalog, saved.indexer, saved.version)
        /\ saved.outcome = "panic" => \/ PgSchema(saved.indexer) \in interrupted
                                      \/ SharesSchema(saved.indexer)
                                      \/ Unfit(saved.version, saved.type)

RegistryInv == OwnedInv /\ TablesInv /\ ModulesInv /\ SavedInv

LEMMA RegistryInvInit == RegistryInit => RegistryInv
<1> SUFFICES ASSUME RegistryInit PROVE RegistryInv
  OBVIOUS
<1>1. OwnedInv
  BY OwnedInit
<1>2. /\ EmptyCatalog.roots = <<>> /\ DOMAIN EmptyCatalog.roots = {} /\ EmptyCatalog.typeIds = {} /\ EmptyCatalog.foreignKeys = {}
      /\ DOMAIN EmptyCatalog.tables = {} /\ DOMAIN EmptyCatalog.columns = {}
  BY DEF EmptyCatalog
<1>3. \A sn : Untouched(EmptyCatalog, registration.owners, sn)
  BY <1>2 DEF Untouched
<1>4. EmptyCatalog.roots \in Seq(RootSet)
  BY <1>2
<1>5. TablesInv
  BY <1>3, <1>4 DEF RegistryInit, TablesInv, Settled
<1> QED
  BY <1>1, <1>5 DEF RegistryInit, RegistryInv, ModulesInv, SavedInv

(* What was saved stays as it was: the version that its indexer has is the   *)
(* same ever after.                                                         *)
LEMMA SavedStays ==
    ASSUME SavedInv, Forever, UNCHANGED <<registration, saved>>, interrupted \subseteq interrupted'
    PROVE  SavedInv'
<1> SUFFICES ASSUME saved # Nothing
             PROVE  /\ saved.indexer \in registration.owners
                    /\ Registered(catalog', saved.indexer) # {}
                    /\ saved.outcome = "dropped" => \/ PgSchema(saved.indexer) \in interrupted'
                                                    \/ ~SchemaExists(catalog', saved.indexer, saved.version)
                    /\ saved.outcome = "panic" => \/ PgSchema(saved.indexer) \in interrupted'
                                                  \/ SharesSchema(saved.indexer)
                                                  \/ Unfit(saved.version, saved.type)
  BY DEF SavedInv, SharesSchema
<1>1. Registered(catalog', saved.indexer) = Registered(catalog, saved.indexer) /\ saved.indexer \in registration.owners
  BY DEF SavedInv, Forever
<1>2. \A cat : SchemaExists(cat, saved.indexer, saved.version) <=>
                  \E t \in Registered(cat, saved.indexer) : t.version = saved.version
  BY DEF SchemaExists, Registered
<1> QED
  BY <1>1, <1>2 DEF SavedInv

LEMMA DeployTables ==
    ASSUME RegistryAssumption, RegistryInv, NEW ix \in registration.owners,
           NEW schema \in registration.schemas, NEW compiled \in registration.schemas,
           DeploySchema(ix, schema, compiled), Forever
    PROVE  TablesInv' /\ ModulesInv' /\ SavedInv'
<1> DEFINE v == Version(schema)
           w == Version(compiled)
<1>1. v \in Versions /\ w \in Versions /\ registration \in Registrations /\ OwnedTypes(catalog)
  BY DEF Versions, RegistryInv, OwnedInv
<1>2. /\ starting = Nothing /\ UNCHANGED <<registration, starting, interrupted, saved>>
      /\ module' = [module EXCEPT ![ix] = w] /\ EntitiesCompile(w)
  BY DEF DeploySchema
<1>3. \/ SchemaExists(catalog, ix, v) /\ UNCHANGED catalog
      \/ CommitMetadata(catalog, ix, v).ok /\ catalog' = CommitMetadata(catalog, ix, v).catalog
  BY DEF DeploySchema
<1> HIDE DEF v, w
<1>4. /\ catalog'.roots \in Seq(RootSet)
      /\ Registered(catalog', ix) # {}
      /\ \A own \in registration.owners :
            Settled(catalog, SchemaName(own)) => Settled(catalog', SchemaName(own))
  <2>1. CASE SchemaExists(catalog, ix, v) /\ UNCHANGED catalog
    BY <2>1 DEF RegistryInv, TablesInv, SchemaExists, Registered
  <2>2. CASE CommitMetadata(catalog, ix, v).ok /\ catalog' = CommitMetadata(catalog, ix, v).catalog
    <3>1. /\ catalog'.roots \in Seq(RootSet) /\ TypeIdsOf(ix, v) \subseteq catalog'.typeIds
          /\ \A own \in registration.owners :
                Settled(catalog, SchemaName(own)) => Settled(catalog', SchemaName(own))
      <4>1. Len(Statements(v)) \in 0 .. Len(Statements(v))
        BY <1>1, VersionsAre, StatementsAre
      <4> QED
        BY <1>1, <2>2, <4>1, PrefixSettled DEF RegistryInv, TablesInv, CommitMetadata
    <3>2. \E t \in TypeIdsOf(ix, v) : t.indexer = ix
      BY <1>1, MetadataId
    <3> QED
      BY <3>1, <3>2 DEF Registered
  <2> QED
    BY <1>3, <2>1, <2>2
<1>5. Versions' = Versions /\ RootSet' = RootSet
  BY <1>2 DEF Versions, RootSet
<1>6. TablesInv'
  <2>1. \A own \in registration.owners : Unsettled(own)' <=> Unsettled(own)
    BY <1>2 DEF Unsettled
  <2>2. \A own \in registration.owners : ~Unsettled(own) => Settled(catalog', SchemaName(own))
    BY <1>4 DEF RegistryInv, TablesInv
  <2>3. \A own \in registration.owners : ~Unsettled(own)' => Settled(catalog, SchemaName(own))'
    BY <1>2, <1>5, <2>1, <2>2 DEF Settled
  <2> QED
    BY <1>2, <1>4, <1>5, <2>3 DEF TablesInv
<1>7. ModulesInv'
  <2> SUFFICES ASSUME NEW own \in registration.owners, module'[own] # Nothing
               PROVE  /\ module'[own] \in Versions /\ EntitiesCompile(module'[own])
                      /\ Registered(catalog', own) # {}
    BY <1>2, <1>5 DEF ModulesInv
  <2>1. own \in DOMAIN module
    BY DEF RegistryInv, OwnedInv
  <2>2. CASE own = ix
    BY <1>1, <1>2, <1>4, <2>1, <2>2
  <2>3. CASE own # ix
    BY <1>2, <2>1, <2>3 DEF RegistryInv, ModulesInv, Forever
  <2> QED
    BY <2>2, <2>3
<1>8. SavedInv'
  BY <1>2, SavedStays DEF RegistryInv
<1> QED
  BY <1>6, <1>7, <1>8

LEMMA CutTables ==
    ASSUME RegistryAssumption, RegistryInv, NEW ix \in registration.owners,
           NEW schema \in registration.schemas, DeployCutShort(ix, schema), Forever
    PROVE  TablesInv' /\ ModulesInv' /\ SavedInv'
<1> DEFINE v == Version(schema)
<1>1. v \in Versions /\ registration \in Registrations /\ OwnedTypes(catalog) /\ catalog.roots \in Seq(RootSet)
  BY DEF Versions, RegistryInv, OwnedInv, TablesInv
<1>2. /\ starting = Nothing /\ UNCHANGED <<registration, starting, module, saved>>
      /\ interrupted' = interrupted \cup {PgSchema(ix)}
  BY DEF DeployCutShort
<1> HIDE DEF v
<1>3. PICK n \in 1 .. Len(Statements(v)) :
         StatementsRun(catalog, ix, v)[n].ok /\ catalog' = StatementsRun(catalog, ix, v)[n].catalog
  BY DEF DeployCutShort, v
<1>4. n \in 0 .. Len(Statements(v))
  BY <1>1, VersionsAre, StatementsAre
<1>5. /\ catalog'.roots \in Seq(RootSet)
      /\ \A own \in registration.owners : SchemaName(own) # SchemaName(ix) /\ Settled(catalog, SchemaName(own))
            => Settled(catalog', SchemaName(own))
  BY <1>1, <1>3, <1>4, PrefixSettled
<1>6. Versions' = Versions /\ RootSet' = RootSet
  BY <1>2 DEF Versions, RootSet
<1>7. TablesInv'
  <2>1. ASSUME NEW own \in registration.owners, ~Unsettled(own)' PROVE Settled(catalog, SchemaName(own))'
    <3>1. PgSchema(own) # PgSchema(ix) /\ ~Unsettled(own)
      BY <1>2, <2>1 DEF Unsettled
    <3>2. SchemaName(own) # SchemaName(ix) /\ Settled(catalog, SchemaName(own))
      BY <3>1, SharedIs DEF RegistryInv, TablesInv
    <3>3. Settled(catalog', SchemaName(own))
      BY <1>5, <3>2
    <3> QED
      BY <1>2, <1>6, <3>3 DEF Settled
  <2> QED
    BY <1>2, <1>5, <1>6, <2>1 DEF TablesInv
<1>8. ModulesInv'
  BY <1>2, <1>6 DEF RegistryInv, ModulesInv, Forever
<1>9. SavedInv'
  BY <1>2, SavedStays DEF RegistryInv
<1> QED
  BY <1>7, <1>8, <1>9

LEMMA StartTables ==
    ASSUME RegistryAssumption, RegistryInv, NEW ix \in registration.owners,
           NEW schema \in registration.schemas, StartRegistration(ix, schema), Forever
    PROVE  TablesInv' /\ ModulesInv' /\ SavedInv'
<1> DEFINE v == Version(schema)
<1>1. v \in Versions /\ registration \in Registrations
  BY DEF Versions, RegistryInv, OwnedInv
<1>2. /\ starting = Nothing /\ starting' = [indexer |-> ix, schema |-> v, done |-> 0]
      /\ UNCHANGED <<registration, catalog, interrupted, module, saved>> /\ ~BuildPanics(v)
  BY DEF StartRegistration
<1> HIDE DEF v
<1>3. Versions' = Versions /\ RootSet' = RootSet
  BY <1>2 DEF Versions, RootSet
<1>4. starting'.indexer = ix /\ starting'.schema = v /\ starting'.done = 0
  BY <1>2
<1>5. PgSchema(ix) \notin interrupted => UnderWay(catalog, registration.owners, ix, v, 0)
  <2>1. PgSchema(ix) \notin interrupted => Settled(catalog, SchemaName(ix))
    BY <1>2 DEF RegistryInv, TablesInv, Unsettled
  <2> QED
    BY <1>1, <1>2, <2>1, BeginsUnderWay
<1>6. TablesInv'
  <2>1. \A own \in registration.owners : ~Unsettled(own)' => ~Unsettled(own)
    BY <1>2 DEF Unsettled
  <2>2. \A own \in registration.owners : ~Unsettled(own)' => Settled(catalog, SchemaName(own))'
    BY <1>2, <1>3, <2>1 DEF RegistryInv, TablesInv, Settled
  <2>3. PgSchema(starting'.indexer) \notin interrupted' =>
           UnderWay(catalog', registration.owners, starting'.indexer, starting'.schema, starting'.done)
    BY <1>2, <1>4, <1>5
  <2> QED
    BY <1>2, <1>3, <2>2, <2>3 DEF RegistryInv, TablesInv
<1>7. ModulesInv'
  BY <1>2, <1>3 DEF RegistryInv, ModulesInv
<1>8. SavedInv'
  BY <1>2, SavedStays DEF RegistryInv
<1> QED
  BY <1>6, <1>7, <1>8

LEMMA StatementTables ==
    ASSUME RegistryAssumption, RegistryInv, RunStatement, Forever
    PROVE  TablesInv' /\ ModulesInv' /\ SavedInv'
<1>1. PICK ix \in registration.owners, v \in Versions, n \in Nat :
         starting = [indexer |-> ix, schema |-> v, done |-> n]
  BY DEF RegistryInv, OwnedInv, StartInv, RunStatement
<1> DEFINE st == Statements(v)[n + 1]
           L == Len(Statements(v))
<1>2. /\ registration \in Registrations /\ OwnedTypes(catalog) /\ v \in GraphqlSchema
      /\ IsCatalog(catalog) /\ catalog.roots \in Seq(RootSet)
      /\ [indexer |-> ix, version |-> v] \in RootSet
  BY VersionsAre DEF RegistryInv, OwnedInv, OwnedTypes, TablesInv, RootSet
<1>3. /\ n < L /\ ~Refused(catalog, ix, v, st) /\ catalog' = Executed(catalog, ix, v, st)
      /\ starting' = [indexer |-> ix, schema |-> v, done |-> n + 1]
      /\ UNCHANGED <<registration, interrupted, module, saved>>
  BY <1>1 DEF RunStatement, NextStatement
<1>4. Versions' = Versions /\ RootSet' = RootSet
  BY <1>3 DEF Versions, RootSet
<1>5. starting # Nothing /\ starting.indexer = ix /\ starting.schema = v /\ starting.done = n
  BY <1>1 DEF RunStatement
<1>6. starting'.indexer = ix /\ starting'.schema = v /\ starting'.done = n + 1
  BY <1>3
<1>7. catalog'.roots \in Seq(RootSet)
  <2> HIDE DEF st
  <2> QED
    BY <1>2, <1>3, RootsNext
<1>8. PgSchema(ix) \notin interrupted => UnderWay(catalog', registration.owners, ix, v, n + 1)
  <2>1. PgSchema(ix) \notin interrupted => UnderWay(catalog, registration.owners, ix, v, n)
    BY <1>5 DEF RegistryInv, TablesInv
  <2> QED
    BY <1>2, <1>3, <2>1, UnderWayNext
<1>9. ASSUME NEW own \in registration.owners, SchemaName(own) # SchemaName(ix), PgSchema(own) \notin interrupted
      PROVE  Settled(catalog', SchemaName(own))
  <2> HIDE DEF st
  <2>1. Same(catalog, catalog', registration.owners, SchemaName(own))
    BY <1>2, <1>3, <1>9, OthersSame
  <2>2. Settled(catalog, SchemaName(own))
    BY <1>5, <1>9 DEF RegistryInv, TablesInv, Unsettled
  <2> QED
    BY <1>2, <2>1, <2>2, SameSettled
<1> HIDE DEF st, L
<1>10. TablesInv'
  <2>1. ASSUME NEW own \in registration.owners, ~Unsettled(own)'
        PROVE  Settled(catalog, SchemaName(own))'
    <3>0. starting' # Nothing
      <4>1. starting' \in [indexer : Indexers, schema : GraphqlSchema, done : Nat]
        BY <1>2, <1>3, RegistryAssumption DEF RegistryAssumption
      <4> QED
        BY <4>1 DEF RegistryAssumption
    <3>1. SchemaName(own) # SchemaName(ix) /\ PgSchema(own) \notin interrupted
      BY <1>3, <1>6, <2>1, <3>0 DEF Unsettled
    <3>2. Settled(catalog', SchemaName(own))
      BY <1>9, <3>1
    <3> QED
      BY <1>3, <1>4, <3>2 DEF Settled
  <2>2. PgSchema(starting'.indexer) \notin interrupted' =>
           UnderWay(catalog', registration.owners, starting'.indexer, starting'.schema, starting'.done)
    BY <1>3, <1>6, <1>8
  <2> QED
    BY <1>3, <1>4, <1>7, <2>1, <2>2 DEF TablesInv
<1>11. ModulesInv'
  BY <1>3, <1>4 DEF RegistryInv, ModulesInv, Forever
<1>12. SavedInv'
  BY <1>3, SavedStays DEF RegistryInv
<1> QED
  BY <1>10, <1>11, <1>12

LEMMA InterruptTables ==
    ASSUME RegistryAssumption, RegistryInv, InterruptRegistration, Forever
    PROVE  TablesInv' /\ ModulesInv' /\ SavedInv'
<1>1. /\ UNCHANGED <<registration, catalog, saved>> /\ starting' = Nothing
      /\ interrupted' = interrupted \cup {PgSchema(starting.indexer)}
      /\ module' = [ix \in registration.owners |-> Nothing]
  BY DEF InterruptRegistration
<1>2. Versions' = Versions /\ RootSet' = RootSet
  BY <1>1 DEF Versions, RootSet
<1>3. TablesInv'
  <2>1. \A own \in registration.owners : ~Unsettled(own)' => ~Unsettled(own)
    BY <1>1, SharedIs DEF Unsettled
  <2>2. \A own \in registration.owners : ~Unsettled(own)' => Settled(catalog, SchemaName(own))'
    BY <1>1, <1>2, <2>1 DEF RegistryInv, TablesInv, Settled
  <2> QED
    BY <1>1, <1>2, <2>2 DEF RegistryInv, TablesInv
<1>4. ModulesInv'
  BY <1>1 DEF ModulesInv
<1>5. SavedInv'
  BY <1>1, SavedStays DEF RegistryInv
<1> QED
  BY <1>3, <1>4, <1>5

LEMMA FinishTables ==
    ASSUME RegistryAssumption, RegistryInv, FinishRegistration, Forever
    PROVE  TablesInv' /\ ModulesInv' /\ SavedInv'
<1>1. PICK ix \in registration.owners, v \in Versions, n \in Nat :
         starting = [indexer |-> ix, schema |-> v, done |-> n]
  BY DEF RegistryInv, OwnedInv, StartInv, FinishRegistration
<1>2. /\ starting # Nothing /\ starting.indexer = ix /\ starting.schema = v /\ starting.done = n
      /\ n = Len(Statements(v)) /\ starting' = Nothing /\ module' = [module EXCEPT ![ix] = v]
      /\ UNCHANGED <<registration, catalog, interrupted, saved>>
  BY <1>1 DEF FinishRegistration
<1>3. Versions' = Versions /\ RootSet' = RootSet
  BY <1>2 DEF Versions, RootSet
<1>4. PgSchema(ix) \notin interrupted => Settled(catalog, SchemaName(ix))
  <2>1. PgSchema(ix) \notin interrupted => UnderWay(catalog, registration.owners, ix, v, n)
    BY <1>2 DEF RegistryInv, TablesInv
  <2>2. PgSchema(ix) \notin interrupted => Has(catalog, registration.owners, ix, v, n)
    BY <1>2, <2>1 DEF UnderWay
  <2> QED
    BY <1>2, <2>2 DEF Settled
<1>5. TablesInv'
  <2>1. ASSUME NEW own \in registration.owners, ~Unsettled(own)' PROVE Settled(catalog, SchemaName(own))
    <3>1. PgSchema(own) \notin interrupted
      BY <1>2, <2>1 DEF Unsettled
    <3>2. CASE SchemaName(own) = SchemaName(ix)
      BY <1>4, <3>1, <3>2, SharedIs
    <3>3. CASE SchemaName(own) # SchemaName(ix)
      BY <1>2, <3>1, <3>3 DEF RegistryInv, TablesInv, Unsettled
    <3> QED
      BY <3>2, <3>3
  <2>2. \A own \in registration.owners : ~Unsettled(own)' => Settled(catalog, SchemaName(own))'
    BY <1>2, <1>3, <2>1 DEF Settled
  <2> QED
    BY <1>2, <1>3, <2>2 DEF RegistryInv, TablesInv
<1>6. ModulesInv'
  <2>1. EntitiesCompile(v)
    BY <1>2 DEF RegistryInv, OwnedInv, StartInv
  <2>2. Registered(catalog, ix) # {}
    <3>1. v \in GraphqlSchema /\ registration \in Registrations
      BY VersionsAre DEF RegistryInv, OwnedInv
    <3>2. TypeIdsOf(ix, v) \subseteq catalog.typeIds
      BY <1>2, <3>1, StatementsAre DEF RegistryInv, OwnedInv, StartInv
    <3>3. \E t \in TypeIdsOf(ix, v) : t.indexer = ix
      BY <3>1, MetadataId
    <3> QED
      BY <3>2, <3>3 DEF Registered
  <2>3. DOMAIN module = registration.owners
    BY DEF RegistryInv, OwnedInv
  <2> SUFFICES ASSUME NEW own \in registration.owners, module'[own] # Nothing
               PROVE  /\ module'[own] \in Versions /\ EntitiesCompile(module'[own])
                      /\ Registered(catalog, own) # {}
    BY <1>2, <1>3 DEF ModulesInv, Registered
  <2>4. CASE own = ix
    BY <1>2, <2>1, <2>2, <2>3, <2>4
  <2>5. CASE own # ix
    BY <1>2, <2>3, <2>5 DEF RegistryInv, ModulesInv
  <2> QED
    BY <2>4, <2>5
<1>7. SavedInv'
  BY <1>2, SavedStays DEF RegistryInv
<1> QED
  BY <1>5, <1>6, <1>7

LEMMA RemoveTables ==
    ASSUME RegistryAssumption, RegistryInv, NEW ix \in registration.owners, RemoveIndexer(ix), Forever
    PROVE  TablesInv' /\ ModulesInv' /\ SavedInv'
<1>1. UNCHANGED <<registration, catalog, starting, interrupted, saved>> /\ module' = [module EXCEPT ![ix] = Nothing]
  BY DEF RemoveIndexer
<1>2. Versions' = Versions /\ RootSet' = RootSet
  BY <1>1 DEF Versions, RootSet
<1>3. TablesInv'
  BY <1>1, <1>2 DEF RegistryInv, TablesInv, Unsettled, Settled
<1>4. ModulesInv'
  <2>1. DOMAIN module = registration.owners
    BY DEF RegistryInv, OwnedInv
  <2>2. \A own \in registration.owners : module'[own] = Nothing \/ module'[own] = module[own]
    BY <1>1, <2>1
  <2> QED
    BY <1>1, <1>2, <2>2 DEF RegistryInv, ModulesInv, Registered
<1>5. SavedInv'
  BY <1>1, SavedStays DEF RegistryInv
<1> QED
  BY <1>3, <1>4, <1>5

LEMMA SaveTables ==
    ASSUME RegistryAssumption, RegistryInv, NEW ix \in registration.owners, SaveEntityOf(ix)
    PROVE  TablesInv' /\ ModulesInv' /\ SavedInv'
<1> DEFINE v == module[ix]
           pg == PgSchema(ix)
           KnownAs(type) == {t \in KnownTables(catalog, ix, v) : t.id = TypeId(ix, type.name)}
           Refusable(type) == \E t \in KnownAs(type) : \/ ~RowFits(catalog, ix, t, Row(v, type))
                                                       \/ MayBeRefused(catalog, ix, t, Row(v, type))
<1>1. PICK i \in DOMAIN Entities(v) : \E outcome \in SaveOutcomes(ix, Entities(v)[i]) :
         saved' = [indexer |-> ix, version |-> v, type |-> Entities(v)[i], outcome |-> outcome]
  BY DEF SaveEntityOf
<1>0. PICK type \in EntitySet(v) : \E outcome \in SaveOutcomes(ix, type) :
         saved' = [indexer |-> ix, version |-> v, type |-> type, outcome |-> outcome]
  BY <1>1 DEF EntitySet
<1>2. PICK outcome \in SaveOutcomes(ix, type) :
         saved' = [indexer |-> ix, version |-> v, type |-> type, outcome |-> outcome]
  BY <1>0
<1>14. /\ outcome = "dropped" => KnownAs(type) = {}
       /\ outcome = "panic" => KnownAs(type) # {} /\ Refusable(type)
  BY <1>2 DEF SaveOutcomes
<1>3. /\ starting = Nothing /\ v # Nothing
      /\ UNCHANGED <<registration, catalog, starting, interrupted, module>>
  BY DEF SaveEntityOf
<1> HIDE DEF KnownAs, Refusable
<1>4. /\ registration \in Registrations /\ OwnedTypes(catalog)
      /\ v \in Versions /\ EntitiesCompile(v) /\ Registered(catalog, ix) # {}
  BY <1>3 DEF RegistryInv, OwnedInv, ModulesInv
<1>5. v \in GraphqlSchema /\ EntitySet(v) \subseteq GraphqlType
  BY <1>4, VersionsAre
<1>6. pg \notin interrupted => Settled(catalog, SchemaName(ix))
  BY <1>3 DEF RegistryInv, TablesInv, Unsettled
<1>7. ASSUME pg \notin interrupted, SchemaExists(catalog, ix, v)
      PROVE  Has(catalog, registration.owners, ix, v, Len(Statements(v)))
  <2>1. PICK t \in catalog.typeIds : t.indexer = ix /\ t.version = v
    BY <1>7 DEF SchemaExists
  <2>2. Settled(catalog, SchemaName(t.indexer))
    BY <1>6, <1>7, <2>1
  <2> HIDE DEF v
  <2> QED
    BY <1>4, <2>1, <2>2, WholeVersion
<1>8. ASSUME pg \notin interrupted, SchemaExists(catalog, ix, v)
      PROVE  KnownAs(type) # {}
  <2>1. Has(catalog, registration.owners, ix, v, Len(Statements(v)))
    BY <1>7, <1>8
  <2>2. Len(Statements(v)) \in Nat
    BY <1>5, StatementsAre
  <2>3. PICK t : t = [id |-> TypeId(ix, type.name), indexer |-> ix, version |-> v, name |-> type.name,
                      table |-> Lower[type.name]]
    OBVIOUS
  <2>4. t \in TypeIdsOf(ix, v) /\ t.id = TypeId(ix, type.name) /\ t.indexer = ix /\ t.version = v
    BY <1>2, <2>3 DEF TypeIdsOf, EntitySet
  <2> HIDE DEF v
  <2>5. t \in catalog.typeIds /\ t.id \in DOMAIN catalog.columns
    BY <2>1, <2>2, <2>4 DEF Has, TypesAre, ColumnsAre
  <2> QED
    BY <2>4, <2>5 DEF KnownAs, KnownTables
<1>9. ASSUME pg \notin interrupted, ~SharesSchema(ix), KnownAs(type) # {}, Refusable(type)
      PROVE  Unfit(v, type)
  <2>1. PICK t \in KnownAs(type) : \/ ~RowFits(catalog, ix, t, Row(v, type))
                                   \/ MayBeRefused(catalog, ix, t, Row(v, type))
    BY <1>9 DEF Refusable
  <2>2. t \in catalog.typeIds /\ t.indexer = ix /\ t.version = v /\ t.id = TypeId(ix, type.name)
    BY <2>1 DEF KnownAs, KnownTables
  <2> HIDE DEF v
  <2>3. Has(catalog, registration.owners, ix, v, Len(Statements(v)))
    BY <1>7, <1>9, <2>2 DEF SchemaExists
  <2>4. t \in TypeIdsOf(ix, v)
    BY <1>4, <2>2 DEF OwnedTypes
  <2>5. PICK e \in EntitySet(v) : t = [id |-> TypeId(ix, e.name), indexer |-> ix, version |-> v,
                                      name |-> e.name, table |-> Lower[e.name]]
    BY <2>4 DEF TypeIdsOf, EntitySet
  <2>6. e.name = type.name
    BY <2>2, <2>5 DEF TypeId
  <2>7. t.table = Lower[type.name]
    BY <2>5, <2>6
  <2> QED
    BY <1>2, <1>4, <1>5, <1>9, <2>1, <2>2, <2>3, <2>7, FitIsStored, CaseAssumption
<1>10. SavedInv'
  <2>1. saved'.indexer = ix /\ saved'.version = v /\ saved'.type = type /\ saved'.outcome = outcome
    BY <1>2
  <2>2. outcome = "dropped" => pg \in interrupted \/ ~SchemaExists(catalog, ix, v)
    BY <1>8, <1>14
  <2>3. outcome = "panic" => pg \in interrupted \/ SharesSchema(ix) \/ Unfit(v, type)
    BY <1>9, <1>14
  <2> HIDE DEF v
  <2>4. Registered(catalog, ix)' # {} /\ (SchemaExists(catalog, ix, v) <=> SchemaExists(catalog', ix, v))
    BY <1>3, <1>4 DEF Registered
  <2>5. /\ PgSchema(saved'.indexer) = pg
        /\ Registered(catalog', saved'.indexer) # {}
        /\ SchemaExists(catalog', saved'.indexer, saved'.version) <=> SchemaExists(catalog, ix, v)
        /\ Unfit(saved'.version, saved'.type) <=> Unfit(v, type)
    BY <1>3, <1>4, <2>1, <2>4
  <2>6. SharesSchema(ix)' <=> SharesSchema(ix)
    BY <1>3 DEF SharesSchema
  <2> QED
    BY <1>3, <2>1, <2>2, <2>3, <2>5, <2>6 DEF SavedInv, SharesSchema
<1>11. Versions' = Versions /\ RootSet' = RootSet
  BY <1>3 DEF Versions, RootSet
<1>12. TablesInv'
  BY <1>3, <1>11 DEF RegistryInv, TablesInv, Unsettled, Settled
<1>13. ModulesInv'
  BY <1>3, <1>11 DEF RegistryInv, ModulesInv, Registered
<1> QED
  BY <1>10, <1>12, <1>13

LEMMA StutterTables ==
    ASSUME RegistryInv, UNCHANGED registryVars, Forever
    PROVE  TablesInv' /\ ModulesInv' /\ SavedInv'
<1>1. UNCHANGED <<registration, catalog, starting, interrupted, module, saved>>
  BY DEF registryVars
<1>2. Versions' = Versions /\ RootSet' = RootSet
  BY <1>1 DEF Versions, RootSet
<1>3. TablesInv'
  BY <1>1, <1>2 DEF RegistryInv, TablesInv, Unsettled, Settled
<1>4. ModulesInv'
  BY <1>1, <1>2 DEF RegistryInv, ModulesInv, Registered
<1>5. SavedInv'
  BY <1>1, SavedStays DEF RegistryInv
<1> QED
  BY <1>3, <1>4, <1>5

LEMMA RegistryInvNext == RegistryInv /\ [RegistryNext]_registryVars => RegistryInv'
<1> SUFFICES ASSUME RegistryInv, [RegistryNext]_registryVars PROVE RegistryInv'
  OBVIOUS
<1>1. RegistryAssumption
  BY RegistryAssumption
<1>2. OwnedInv' /\ Forever
  BY <1>1, OwnedNext DEF RegistryInv
<1>3. TablesInv' /\ ModulesInv' /\ SavedInv'
  <2>1. CASE \E ix \in registration.owners : \E schema, compiled \in registration.schemas :
               DeploySchema(ix, schema, compiled)
    BY <1>1, <1>2, <2>1, DeployTables
  <2>2. CASE \E ix \in registration.owners : \E schema \in registration.schemas : StartRegistration(ix, schema)
    BY <1>1, <1>2, <2>2, StartTables
  <2>3. CASE \E ix \in registration.owners : RemoveIndexer(ix)
    BY <1>1, <1>2, <2>3, RemoveTables
  <2>4. CASE \E ix \in registration.owners : SaveEntityOf(ix)
    BY <1>1, <2>4, SaveTables
  <2>5. CASE RunStatement
    BY <1>1, <1>2, <2>5, StatementTables
  <2>6. CASE InterruptRegistration
    BY <1>1, <1>2, <2>6, InterruptTables
  <2>7. CASE FinishRegistration
    BY <1>1, <1>2, <2>7, FinishTables
  <2>8. CASE UNCHANGED registryVars
    BY <1>2, <2>8, StutterTables
  <2>9. CASE \E ix \in registration.owners : \E schema \in registration.schemas : DeployCutShort(ix, schema)
    BY <1>1, <1>2, <2>9, CutTables
  <2> QED
    BY <2>1, <2>2, <2>3, <2>4, <2>5, <2>6, <2>7, <2>8, <2>9 DEF RegistryNext
<1> QED
  BY <1>2, <1>3 DEF RegistryInv

LEMMA RegistryInvariant == RegistrySpec => []RegistryInv
BY RegistryInvInit, RegistryInvNext, PTL DEF RegistrySpec

-----------------------------------------------------------------------------
(* What follows from it.                                                    *)

(* What the registry says of a table's columns is what the table has, unless *)
(* a start or a deploy was interrupted in its Postgres schema, or a start is *)
(* under way there, or another indexer's name differs in case only.          *)
THEOREM RegistryIsRight == RegistrySpec => []RegistryMatchesTables
<1>1. RegistryInv => RegistryMatchesTables
  <2> SUFFICES ASSUME RegistryInv, NEW t \in catalog.typeIds,
                      ~Disturbed(t.indexer), ~SharesSchema(t.indexer), CaseDistinct(t.version)
               PROVE  /\ TableExists(catalog, t.indexer, t.table)
                      /\ t.id \in DOMAIN catalog.columns
                      /\ catalog.columns[t.id] = Table(catalog, t.indexer, t.table)
    BY DEF RegistryMatchesTables
  <2>1. RegistryAssumption /\ registration \in Registrations /\ OwnedTypes(catalog)
    BY RegistryAssumption DEF RegistryInv, OwnedInv
  <2>2. /\ t.indexer \in registration.owners /\ t.version \in Versions
        /\ t \in TypeIdsOf(t.indexer, t.version)
    BY <2>1 DEF OwnedTypes
  <2>3. Settled(catalog, SchemaName(t.indexer))
    BY <2>2, UnsettledIs DEF RegistryInv, TablesInv
  <2>4. Has(catalog, registration.owners, t.indexer, t.version, Len(Statements(t.version)))
    BY <2>1, <2>3, WholeVersion
  <2>5. t.version \in GraphqlSchema
    BY <2>1, <2>2, VersionsAre
  <2>6. PICK e \in EntitySet(t.version) : t.id = TypeId(t.indexer, e.name) /\ t.table = Lower[e.name]
    BY <2>2 DEF TypeIdsOf, EntitySet
  <2>7. /\ TableExists(catalog, t.indexer, Lower[e.name])
        /\ Table(catalog, t.indexer, Lower[e.name]) = Columns(t.version, e)
        /\ TypeId(t.indexer, e.name) \in DOMAIN catalog.columns
        /\ catalog.columns[TypeId(t.indexer, e.name)] = Columns(t.version, e)
    BY <2>4, <2>5, TableOf
  <2> QED
    BY <2>6, <2>7
<1> QED
  BY <1>1, RegistryInvariant, PTL

(* The web API finds types for the root it loads, loads it without a panic,  *)
(* and takes from it the foreign keys that Postgres has, unless a start or a *)
(* deploy was interrupted in the Postgres schema, or a start is under way    *)
(* there, or another indexer's name differs in case only.                    *)
THEOREM WebApiIsServed == RegistrySpec => []WebApiServesTables
<1>1. RegistryInv => WebApiServesTables
  <2> SUFFICES ASSUME RegistryInv, NEW root \in LatestRoots,
                      ~Disturbed(root.indexer), ~SharesSchema(root.indexer),
                      CaseDistinct(root.version), Lower[root.version.query] = "queryroot"
               PROVE  /\ SchemaExists(catalog, root.indexer, root.version)
                      /\ ~LoadPanics(root.version)
                      /\ LoadedForeignKeys(root.version) =
                            {k[2] : k \in {f \in catalog.foreignKeys : f[1] = PgSchema(root.indexer)}}
    BY DEF WebApiServesTables
  <2>1. registration \in Registrations /\ OwnedTypes(catalog) /\ catalog.roots \in Seq(RootSet)
    BY DEF RegistryInv, OwnedInv, TablesInv
  <2>2. PICK n \in DOMAIN catalog.roots : root = catalog.roots[n]
    BY DEF LatestRoots
  <2>3. root \in RootSet
    BY <2>1, <2>2
  <2>4. root.indexer \in registration.owners /\ root.version \in Versions
    BY <2>3 DEF RootSet
  <2> DEFINE sn == SchemaName(root.indexer)
  <2>5. Settled(catalog, sn)
    BY <2>4, UnsettledIs DEF RegistryInv, TablesInv
  <2>6. PICK ix \in registration.owners, v \in Versions :
           SchemaName(ix) = sn /\ Has(catalog, registration.owners, ix, v, Len(Statements(v)))
    BY <2>2, <2>5 DEF Settled, Untouched
  <2>7. root = [indexer |-> ix, version |-> v]
    BY <2>2, <2>6 DEF Has, RootsAre
  <2>8. root.indexer = ix /\ root.version = v
    BY <2>7
  <2>9. v \in GraphqlSchema
    BY <2>1, RegistryAssumption, VersionsAre
  <2>10. Len(Statements(v)) \in Nat /\ Len(Statements(v)) >= 4
    BY <2>9, StatementsAre
  <2>11. SchemaExists(catalog, ix, v)
    <3>1. \E t \in TypeIdsOf(ix, v) : t.indexer = ix /\ t.version = v
      BY <2>1, RegistryAssumption, MetadataId
    <3>2. TypeIdsOf(ix, v) \subseteq catalog.typeIds
      BY <2>6, <2>10 DEF Has, TypesAre
    <3> QED
      BY <3>1, <3>2 DEF SchemaExists
  <2>12. ~LoadPanics(v) /\ LoadedForeignKeys(v) = AllKeys(v)
    BY <2>6, <2>8, <2>9, <2>10, WebApiLoads DEF Has
  <2> DEFINE pg == PgSchema(root.indexer)
  <2>14. KeysAre(catalog, pg, v, Len(Statements(v)))
    BY <2>6, <2>8, SharedIs DEF Has
  <2>13. AllKeys(v) = {k[2] : k \in {f \in catalog.foreignKeys : f[1] = pg}}
    <3>1. \A f \in catalog.foreignKeys : f[1] = pg => \E k \in AllKeys(v) : f = <<pg, k>>
      BY <2>14 DEF KeysAre
    <3>2. ASSUME NEW k \in AllKeys(v) PROVE <<pg, k>> \in catalog.foreignKeys
      <4>1. Statement("foreign_key", k) \in TableStatements(v)
        BY DEF TableStatements
      <4>2. Ran(v, Len(Statements(v)), Statement("foreign_key", k))
        BY <2>9, <4>1, AllRan
      <4> QED
        BY <2>14, <4>2 DEF KeysAre
    <3>3. \A k : <<pg, k>>[1] = pg /\ <<pg, k>>[2] = k
      OBVIOUS
    <3> HIDE DEF pg
    <3>4. ASSUME NEW k \in AllKeys(v) PROVE \E f \in {f \in catalog.foreignKeys : f[1] = pg} : f[2] = k
      <4>1. <<pg, k>> \in {f \in catalog.foreignKeys : f[1] = pg}
        BY <3>2, <3>3, Zenon
      <4> QED
        BY <3>3, <4>1, Zenon
    <3>5. ASSUME NEW f \in {f \in catalog.foreignKeys : f[1] = pg} PROVE f[2] \in AllKeys(v)
      <4>1. PICK k \in AllKeys(v) : f = <<pg, k>>
        BY <3>1, Zenon
      <4> QED
        BY <3>3, <4>1, Zenon
    <3> QED
      BY <3>4, <3>5, Zenon
  <2> QED
    BY <2>8, <2>11, <2>12, <2>13
<1> QED
  BY <1>1, RegistryInvariant, PTL

(* put_object drops a row only when the module was not built from the schema *)
(* that is registered, or a start or a deploy was interrupted.               *)
THEOREM DropsAreMismatches == RegistrySpec => []DroppedOnlyOnMismatch
<1>1. RegistryInv => DroppedOnlyOnMismatch
  BY DEF RegistryInv, SavedInv, DroppedOnlyOnMismatch, Disturbed
<1> QED
  BY <1>1, RegistryInvariant, PTL

(* The host panics on an entity of a compiled module only when the entity    *)
(* has no unique id, another key, or nothing but an id, when its fields can   *)
(* hold what their columns refuse, when a start or a deploy was interrupted,  *)
(* or when another indexer's name differs in case only.                       *)
THEOREM CompiledIsStored == RegistrySpec => []CompiledEntitiesStored
<1>1. RegistryInv => CompiledEntitiesStored
  BY DEF RegistryInv, SavedInv, CompiledEntitiesStored, Disturbed, Unfit, IsKeyField
<1> QED
  BY <1>1, RegistryInvariant, PTL

=============================================================================

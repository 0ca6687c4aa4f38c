---------------------------- MODULE MCComponents -----------------------------
(* Event dispatch, the schema registry, the web API's authentication and its   *)
(* queries, and GraphQL texts share no state: each behaviour is one of them at  *)
(* work and the others at rest.                                                *)
EXTENDS MCEventDispatch, SchemaRegistry, WebApiAuth, MCGraphql, MCDocuments

VARIABLE focus    \* the component at work

(* Schemas.                                                                    *)
Field(n, t) == [name |-> n, type |-> t, list |-> FALSE, nullable |-> FALSE, directives |-> <<>>]
Nullable(f) == [f EXCEPT !.nullable = TRUE]
With(f, d, on) == [f EXCEPT !.directives = <<[name |-> d, on |-> on]>>]
Type(n, fs) == [name |-> n, fields |-> fs]
Rooted(root, ts) == [query |-> root, types |-> <<Type(root, <<Field("foo", "Foo")>>)>> \o ts]
Schema(ts) == Rooted("QueryRoot", ts)

MCLower ==
    [t \in {"Foo", "foo", "Bar", "QueryRoot", "Query", "IndexMetadataEntity"} |->
        CASE t \in {"Foo", "foo"} -> "foo" [] t = "Bar" -> "bar" [] t = "QueryRoot" -> "queryroot"
          [] t = "Query" -> "query" [] OTHER -> "indexmetadataentity"]
MCCaseFolds == [n \in {"X", "V"} |-> IF n = "X" THEN "x" ELSE "v"]

(* One type refers to another: every kind of id and of value, and every kind of *)
(* reference, before and after the type referred to.                            *)
Ids == {<<>>, <<Field("id", "ID")>>, <<Field("id", "UInt8")>>, <<With(Field("id", "UInt8"), "unique", "")>>}
ValueFields ==
    {<<>>, <<With(Field("v", "Bytes32"), "unique", "")>>, <<With(Field("v", "Charfield"), "indexed", "")>>,
     <<With(Field("v", "Json"), "indexed", "")>>, <<Nullable(Field("v", "UInt16"))>>,
     <<Nullable(Field("v", "Charfield"))>>, <<Field("v", "UInt4")>>, <<Field("v", "Timestamp")>>,
     <<Field("v", "Color")>>, <<Field("object", "UInt8")>>}
References ==
    {Field("r", "Foo"), With(Field("r", "Foo"), "join", "id"), With(Field("r", "Foo"), "join", "v"),
     With(Field("r", "Foo"), "unique", ""), Nullable(Field("r", "Foo")),
     [Field("r", "Foo") EXCEPT !.list = TRUE], Field("r", "QueryRoot"), Field("r", "Int16")}
ReferringLast ==
    {<<Type("Foo", i \o v), Type("Bar", j \o <<r>>)>> :
        i \in Ids, v \in ValueFields, j \in {<<Field("id", "ID")>>, <<>>}, r \in References}
ReferringFirst ==
    {<<Type("Bar", <<Field("id", "ID"), r>>), Type("Foo", <<Field("id", "ID"), Field("v", "UInt8")>>)>> :
        r \in References}
Bodies == ReferringLast \cup ReferringFirst

(* Names that make the same Postgres schema, and schemas that compete for it.  *)
AB_C == [namespace |-> <<"a", "b">>, identifier |-> <<"c">>]
A_BC == [namespace |-> <<"a">>, identifier |-> <<"b", "c">>]
X_Y == [namespace |-> <<"x">>, identifier |-> <<"y">>]
Capital == [namespace |-> <<"X">>, identifier |-> <<"y">>]
MCIndexers == {AB_C, A_BC, X_Y, Capital}

S1 == Schema(<<Type("Foo", <<Field("id", "ID"), Field("v", "UInt8")>>)>>)
S2 == Schema(<<Type("foo", <<Field("id", "ID"), Field("w", "UInt16")>>)>>)
S3 == Schema(<<Type("Foo", <<Field("id", "ID"), Field("w", "UInt16")>>)>>)
S4 == Schema(<<Type("Foo", <<Field("id", "ID"), Field("v", "UInt8")>>),
               Type("Bar", <<Field("id", "ID"), With(Field("r", "Foo"), "join", "v")>>)>>)

S5 == Schema(<<Type("Foo", <<Field("id", "ID"), Field("v", "UInt8"), Field("V", "UInt8")>>)>>)

Registration(owners, schemas) == [owners |-> owners, schemas |-> schemas, manifests |-> FALSE, cuts |-> FALSE]
MCRegistrations ==
    {Registration({X_Y}, {Schema(b)}) : b \in Bodies}
    \cup {Registration({X_Y}, {Rooted("Query", b)}) : b \in ReferringFirst}
    \cup {Registration({AB_C, A_BC, X_Y}, {S1, S2}),
          Registration({X_Y, Capital}, {S1, S3}), Registration({X_Y}, {S3, S5}),
          [Registration({AB_C, A_BC}, {S1, S2}) EXCEPT !.manifests = TRUE],
          [Registration({X_Y}, {S1, S4}) EXCEPT !.cuts = TRUE],
          [Registration({X_Y}, {S1, S3, S4}) EXCEPT !.manifests = TRUE]}

(* Authentication.                                                             *)
MCAuthConfigs == {[enabled |-> TRUE, strategy |-> "JWT"], [enabled |-> TRUE, strategy |-> "none"],
                  [enabled |-> FALSE, strategy |-> "none"]}

MCInit ==
    /\ focus \in {"dispatch", "registry", "auth", "graphql", "documents"}
    /\ scenario \in IF focus = "dispatch" THEN Scenarios ELSE {CHOOSE sc \in Scenarios : TRUE}
    /\ registration \in IF focus = "registry" THEN Registrations
                        ELSE {CHOOSE r \in Registrations : r.schemas = {S1, S3, S4}}
    /\ authentication \in {a \in AuthConfigs : focus = "auth" \/ ~a.enabled}
    /\ focus # "graphql" => work = "query"
    /\ document \in IF focus = "graphql" THEN Documents ELSE {CHOOSE d \in Documents : TRUE}
    /\ source \in IF focus = "documents" THEN Sources ELSE {CHOOSE s \in Sources : TRUE}
    /\ Init /\ RegistryInit /\ AuthInit /\ GraphqlInit /\ DocumentsInit

MCNext ==
    /\ UNCHANGED focus
    /\ \/ focus = "dispatch" /\ Next /\ UNCHANGED <<registryVars, authVars, graphqlVars, documentVars>>
       \/ focus = "registry" /\ RegistryNext /\ UNCHANGED <<vars, authVars, graphqlVars, documentVars>>
       \/ focus = "auth" /\ AuthNext /\ UNCHANGED <<vars, registryVars, graphqlVars, documentVars>>
       \/ focus = "graphql" /\ GraphqlNext /\ UNCHANGED <<vars, registryVars, authVars, documentVars>>
       \/ focus = "documents" /\ DocumentsNext /\ UNCHANGED <<vars, registryVars, authVars, graphqlVars>>

MCSpec == MCInit /\ [][MCNext]_<<focus, vars, registryVars, authVars, graphqlVars, documentVars>>
=============================================================================

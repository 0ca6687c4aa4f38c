------------------------ MODULE IndexerService_proofs ------------------------
(* Proofs about IndexerService: its types, and that the service keeps every *)
(* executor it started within reach.                                        *)
EXTENDS IndexerService, FiniteSetTheorems, WellFoundedInduction, NaturalsInduction, TLAPS

-----------------------------------------------------------------------------
(* The rows of the registry.                                                *)

(* The indexers that somebody may call about.                               *)
Named == {op[2] : op \in scenario}

(* Rows have ids of their table's sequence, and manifests name an indexer.  *)
GoodRow(a) ==
    /\ a \in Asset /\ a.id < nextId[a.table]
    /\ a.table = "wasm" => a.bytes \in Wasm
    /\ a.table = "manifest" => a.bytes \in Named

GoodRows(as) == IsFiniteSet(as) /\ \A a \in as : GoodRow(a)

NamedIds(f) == f \in [Uid -> Nat] /\ \A u \in Uid : f[u] # 0 => u \in Named

RegistryInv ==
    /\ RegistryTypeOK
    /\ GoodRows(assets)
    /\ NamedIds(ids)
    /\ \A c \in Conn : GoodRows(pending[c].assets) /\ NamedIds(pending[c].ids)

(* A set of numbers that has a bound has a greatest element.                *)
LEMMA Greatest ==
    ASSUME NEW S \in SUBSET Nat, S # {}, NEW n \in Nat, \A s \in S : s < n
    PROVE  \E s \in S : \A r \in S : r <= s
<1> DEFINE Down2 == {n - s : s \in S}
<1>1. Down2 \subseteq Nat /\ Down2 # {}
  <2>1. \A s \in S : n - s \in Nat
    OBVIOUS
  <2> QED
    BY <2>1
<1>2. PICK m \in Down2 : \A k \in Down2 : ~(<<k, m>> \in OpToRel(<, Nat))
  BY <1>1, WFMin, NatLessThanWellFounded, Zenon
<1>3. \A k \in Down2 : ~(k < m)
  BY <1>1, <1>2, Zenon DEF OpToRel
<1>4. PICK s \in S : m = n - s
  OBVIOUS
<1>5. \A r \in S : ~(n - r < n - s)
  BY <1>3, <1>4
<1>6. \A r \in S : r <= s
  BY <1>5
<1> QED
  BY <1>4, <1>6

(* ORDER BY id DESC LIMIT 1 finds one of the rows, where there is one.      *)
LEMMA NewestIsOne ==
    ASSUME RegistryTypeOK, NEW t \in Table, NEW as, as # {},
           \A a \in as : GoodRow(a) /\ a.table = t
    PROVE  Newest(as) \in as
<1> DEFINE S == {a.id : a \in as}
<1>1. nextId[t] \in Nat
  BY DEF RegistryTypeOK
<1>2. S \in SUBSET Nat /\ S # {} /\ \A s \in S : s < nextId[t]
  BY DEF GoodRow, Asset
<1>3. PICK s \in S : \A r \in S : r <= s
  BY <1>1, <1>2, Greatest
<1>4. PICK a \in as : a.id = s
  BY <1>3
<1>5. \A b \in as : b.id <= a.id
  BY <1>3, <1>4
<1> QED
  BY <1>4, <1>5 DEF Newest

(* What a session sees of the assets of an indexer.                         *)
LEMMA RowsOf ==
    ASSUME RegistryInv, NEW c \in Conn, NEW t \in Table, NEW i
    PROVE  /\ IsFiniteSet(AssetsOf(c, t, i))
           /\ \A a \in AssetsOf(c, t, i) : GoodRow(a) /\ a.table = t /\ a.index = i
<1>1. IsFiniteSet(assets \cup pending[c].assets)
  BY FS_Union DEF RegistryInv, GoodRows
<1>2. AssetsOf(c, t, i) \in SUBSET (assets \cup pending[c].assets)
  BY DEF AssetsOf
<1>3. IsFiniteSet(AssetsOf(c, t, i))
  BY <1>1, <1>2, FS_Subset
<1> QED
  BY <1>3 DEF AssetsOf, RegistryInv, GoodRows

(* latest_asset_for_index returns a row of the table it was asked for.      *)
LEMMA LatestIsGood ==
    ASSUME RegistryInv, NEW c \in Conn, NEW t \in Table, NEW i, AssetsOf(c, t, i) # {}
    PROVE  GoodRow(LatestAsset(c, t, i)) /\ LatestAsset(c, t, i).table = t
<1>1. LatestAsset(c, t, i) \in AssetsOf(c, t, i)
  BY RowsOf, NewestIsOne DEF LatestAsset, RegistryInv
<1> QED
  BY <1>1, RowsOf

(* So does penultimate_asset_for_index.                                     *)
LEMMA PenultimateIsGood ==
    ASSUME RegistryInv, NEW c \in Conn, NEW t \in Table, NEW i, HasPenultimate(c, t, i)
    PROVE  GoodRow(PenultimateAsset(c, t, i)) /\ PenultimateAsset(c, t, i).table = t
<1> DEFINE as == AssetsOf(c, t, i)
           a == LatestAsset(c, t, i)
<1>1. IsFiniteSet(as) /\ \A b \in as : GoodRow(b) /\ b.table = t
  BY RowsOf
<1>2. as \ {a} # {}
  <2>1. CASE as = {}
    BY <2>1, FS_EmptySet DEF HasPenultimate
  <2>2. CASE as = {a}
    BY <2>2, FS_Singleton DEF HasPenultimate
  <2> QED
    BY <2>1, <2>2
<1>3. PenultimateAsset(c, t, i) \in as \ {a}
  BY <1>1, <1>2, NewestIsOne DEF PenultimateAsset, RegistryInv
<1> QED
  BY <1>1, <1>3

-----------------------------------------------------------------------------
(* What statements do to the registry.                                      *)

(* A transaction that has written nothing has written only good rows.       *)
LEMMA NoWritesGood ==
    /\ NoWrites \in Writes
    /\ GoodRows(NoWrites.assets) /\ NamedIds(NoWrites.ids)
  BY FS_EmptySet DEF NoWrites, Writes, GoodRows, NamedIds

(* A session changes, and its transaction is as it was or gone.             *)
LEMMA SessionsChange ==
    ASSUME RegistryInv, scenario' = scenario, UNCHANGED <<ids, assets, nextId>>,
           session' \in [Conn -> SessionState],
           pending' \in [Conn -> Writes],
           \A c \in Conn : pending'[c] \in {pending[c], NoWrites}
    PROVE  RegistryInv'
<1>1. Named' = Named
  BY DEF Named
<1>2. RegistryTypeOK /\ RegistryTypeOK'
  BY DEF RegistryInv, RegistryTypeOK
<1>5. \A c \in Conn : GoodRows(pending'[c].assets) /\ NamedIds(pending'[c].ids)
  BY NoWritesGood DEF RegistryInv
<1>6. \A c \in Conn : GoodRows(pending[c].assets)' /\ NamedIds(pending[c].ids)'
  BY <1>1, <1>5 DEF GoodRows, GoodRow, NamedIds
<1>7. GoodRows(assets)' /\ NamedIds(ids)'
  BY <1>1 DEF RegistryInv, GoodRows, GoodRow, NamedIds
<1> QED
  BY <1>2, <1>6, <1>7 DEF RegistryInv

(* BEGIN, ROLLBACK, a failed statement and a connection that is closed      *)
(* leave the committed rows alone.                                          *)
LEMMA SessionStatements ==
    ASSUME RegistryInv, scenario' = scenario
    PROVE  /\ \A c \in Conn : BeginOn(c) /\ UNCHANGED <<ids, assets, nextId, pending>> => RegistryInv'
           /\ \A c \in Conn : OpenOn(c) => RegistryInv'
           /\ \A c \in Conn : AbortOn(c) => RegistryInv'
           /\ \A c \in Conn : RollbackOn(c) => RegistryInv'
           /\ \A cs : CloseOn(cs) => RegistryInv'
<1>1. session \in [Conn -> SessionState] /\ pending \in [Conn -> Writes] /\ NoWrites \in Writes
  BY NoWritesGood DEF RegistryInv, RegistryTypeOK
<1>2. ASSUME NEW c \in Conn, BeginOn(c), UNCHANGED <<ids, assets, nextId, pending>> PROVE RegistryInv'
  BY <1>1, <1>2, SessionsChange DEF BeginOn, SessionState
<1>3. ASSUME NEW c \in Conn, OpenOn(c) PROVE RegistryInv'
  BY <1>1, <1>3, SessionsChange DEF OpenOn, SessionState
<1>4. ASSUME NEW c \in Conn, AbortOn(c) PROVE RegistryInv'
  BY <1>1, <1>4, SessionsChange DEF AbortOn, SessionState
<1>5. ASSUME NEW c \in Conn, RollbackOn(c) PROVE RegistryInv'
  BY <1>1, <1>5, SessionsChange DEF RollbackOn, SessionState
<1>6. ASSUME NEW cs, CloseOn(cs) PROVE RegistryInv'
  BY <1>1, <1>6, SessionsChange DEF CloseOn, SessionState
<1> QED
  BY <1>2, <1>3, <1>4, <1>5, <1>6

(* The row that register_index inserts is named by the call.                *)
LEMMA InsertIndexKeeps ==
    ASSUME RegistryInv, scenario' = scenario, NEW c \in Conn, NEW u \in Named \cap Uid,
           InsertIndex(c, u)
    PROVE  RegistryInv'
<1>1. Named' = Named
  BY DEF Named
<1>2. /\ nextId \in [Table \cup {"index"} -> Nat] /\ nextId' \in [Table \cup {"index"} -> Nat]
      /\ \A t \in Table : nextId'[t] = nextId[t]
  BY DEF RegistryInv, RegistryTypeOK, InsertIndex, Table
<1>3. nextId["index"] \in Nat
  BY <1>2
<1>4. \A d \in Conn : /\ pending[d] \in Writes /\ pending'[d].assets = pending[d].assets
                      /\ pending'[d].ids \in [Uid -> Nat]
                      /\ \A v \in Uid : d # c \/ v # u => pending'[d].ids[v] = pending[d].ids[v]
                      /\ pending'[d] \in Writes
  BY <1>3 DEF RegistryInv, RegistryTypeOK, InsertIndex, Writes
<1>5. pending' \in [Conn -> Writes]
  BY <1>4 DEF RegistryInv, RegistryTypeOK, InsertIndex
<1>6. RegistryTypeOK'
  BY <1>2, <1>5 DEF RegistryInv, RegistryTypeOK, InsertIndex
<1>7. \A a : GoodRow(a) => GoodRow(a)'
  BY <1>1, <1>2 DEF GoodRow, Asset
<1>8. GoodRows(assets)' /\ NamedIds(ids)'
  BY <1>1, <1>2 DEF RegistryInv, GoodRows, GoodRow, NamedIds, InsertIndex, Asset
<1>9. ASSUME NEW d \in Conn PROVE GoodRows(pending[d].assets)'
  <2>1. GoodRows(pending[d].assets)
    BY DEF RegistryInv
  <2> QED
    BY <1>1, <1>2, <1>4, <2>1 DEF GoodRows, GoodRow, Asset
<1>10. ASSUME NEW d \in Conn PROVE NamedIds(pending[d].ids)'
  <2>1. NamedIds(pending[d].ids)
    BY DEF RegistryInv
  <2> QED
    BY <1>1, <1>4, <2>1 DEF NamedIds
<1> QED
  BY <1>6, <1>8, <1>9, <1>10 DEF RegistryInv

(* A row of register_index_asset takes the next id of its table.            *)
LEMMA RegisterAssetKeeps ==
    ASSUME RegistryInv, scenario' = scenario, NEW c \in Conn, NEW u \in Uid, NEW t \in Table,
           NEW bytes \in Uid \cup Wasm, t = "wasm" => bytes \in Wasm,
           t = "manifest" => bytes \in Named,
           RegisterIndexAsset(c, u, t, bytes)
    PROVE  RegistryInv'
<1> DEFINE i   == IndexId(c, u)
           old == AssetsOf(c, t, i)
           new == [table |-> t, id |-> nextId[t], index |-> i,
                   version |-> Cardinality(old) + 1, bytes |-> bytes]
<1>1. CASE UNCHANGED <<pending, nextId>>
  <2>1. UNCHANGED <<ids, assets, session>>
    BY DEF RegisterIndexAsset
  <2> QED
    BY <1>1, <2>1, SessionsChange DEF RegistryInv, RegistryTypeOK
<1>2. CASE /\ pending' = [pending EXCEPT ![c].assets = @ \cup {new}]
           /\ nextId' = [nextId EXCEPT ![t] = @ + 1]
  <2>1. Named' = Named /\ UNCHANGED <<ids, assets, session>>
    BY DEF Named, RegisterIndexAsset
  <2>2. /\ nextId \in [Table \cup {"index"} -> Nat] /\ nextId' \in [Table \cup {"index"} -> Nat]
        /\ \A s \in Table : nextId[s] \in Nat /\ nextId'[s] \in Nat /\ nextId[s] <= nextId'[s]
        /\ nextId'[t] = nextId[t] + 1
    BY <1>2 DEF RegistryInv, RegistryTypeOK
  <2>3. i \in Nat /\ Cardinality(old) + 1 \in Nat
    <3>1. Cardinality(old) \in Nat
      BY RowsOf, FS_CardinalityType
    <3>2. i \in Nat
      BY DEF RegistryInv, NamedIds, IndexId
    <3> QED
      BY <3>1, <3>2
  <2> HIDE DEF i, old
  <2> PICK row : row = new
    OBVIOUS
  <2>4. row \in Asset
    BY <2>2, <2>3 DEF Asset
  <2>5. GoodRow(row)'
    BY <2>1, <2>2, <2>4 DEF GoodRow
  <2> HIDE DEF new
  <2>6. ASSUME NEW d \in Conn
        PROVE  /\ pending[d] \in Writes /\ pending'[d] \in Writes
               /\ pending'[d].ids = pending[d].ids
               /\ pending'[d].assets = pending[d].assets \/
                  pending'[d].assets = pending[d].assets \cup {row}
    BY <1>2, <2>4 DEF RegistryInv, RegistryTypeOK, Writes
  <2>7. pending' \in [Conn -> Writes]
    BY <1>2, <2>6 DEF RegistryInv, RegistryTypeOK
  <2>8. RegistryTypeOK'
    BY <2>1, <2>2, <2>7 DEF RegistryInv, RegistryTypeOK
  <2>9. ASSUME NEW a, GoodRow(a) PROVE GoodRow(a)'
    <3>1. a.table \in Table /\ a.id \in Nat
      BY <2>9 DEF GoodRow, Asset
    <3>2. a.id < nextId'[a.table]
      BY <2>2, <2>9, <3>1 DEF GoodRow
    <3> QED
      BY <2>1, <2>9, <3>2 DEF GoodRow
  <2>10. GoodRows(assets)' /\ NamedIds(ids)'
    BY <2>1, <2>9 DEF RegistryInv, GoodRows, NamedIds
  <2>11. ASSUME NEW d \in Conn PROVE GoodRows(pending[d].assets)' /\ NamedIds(pending[d].ids)'
    <3>1. GoodRows(pending[d].assets) /\ NamedIds(pending[d].ids)
      BY DEF RegistryInv
    <3>2. IsFiniteSet(pending'[d].assets)
      <4>1. IsFiniteSet(pending[d].assets)
        BY <3>1 DEF GoodRows
      <4>2. IsFiniteSet(pending[d].assets \cup {row})
        BY <4>1, FS_AddElement
      <4> QED
        BY <2>6, <4>1, <4>2
    <3>3. \A a \in pending'[d].assets : GoodRow(a)'
      <4> SUFFICES ASSUME NEW a \in pending'[d].assets PROVE GoodRow(a)'
        OBVIOUS
      <4>1. CASE a = row
        BY <2>5, <4>1
      <4>2. CASE a \in pending[d].assets
        BY <2>9, <3>1, <4>2 DEF GoodRows
      <4> QED
        BY <2>6, <4>1, <4>2
    <3> QED
      BY <2>1, <2>6, <3>1, <3>2, <3>3 DEF GoodRows, NamedIds
  <2> QED
    BY <2>8, <2>10, <2>11 DEF RegistryInv
<1> QED
  BY <1>1, <1>2 DEF RegisterIndexAsset

(* What a session commits was good while it was pending.                    *)
LEMMA CommitKeeps ==
    ASSUME RegistryInv, scenario' = scenario, NEW c \in Conn, NEW gone, NEW goneId,
           CommitOn(c, gone, goneId)
    PROVE  RegistryInv'
<1>1. Named' = Named /\ nextId' = nextId
  BY DEF Named, CommitOn
<1>2. /\ pending[c] \in Writes /\ pending' \in [Conn -> Writes] /\ session' \in [Conn -> SessionState]
      /\ \A d \in Conn : pending'[d] \in {pending[d], NoWrites}
  BY NoWritesGood DEF RegistryInv, RegistryTypeOK, CommitOn, SessionState
<1>3. NamedIds(ids')
  BY DEF RegistryInv, NamedIds, CommitOn, CommittedIds, IndexId
<1>4. GoodRows(assets')
  <2>1. IsFiniteSet(assets \cup pending[c].assets)
    BY FS_Union DEF RegistryInv, GoodRows
  <2>2. assets' \in SUBSET (assets \cup pending[c].assets)
    BY DEF CommitOn, CommittedAssets
  <2>3. IsFiniteSet(assets')
    BY <2>1, <2>2, FS_Subset
  <2> QED
    BY <2>2, <2>3 DEF RegistryInv, GoodRows
<1>5. \A d \in Conn : GoodRows(pending'[d].assets) /\ NamedIds(pending'[d].ids)
  BY <1>2, NoWritesGood DEF RegistryInv
<1>6. RegistryTypeOK'
  <2>1. assets' \subseteq Asset /\ ids' \in [Uid -> Nat]
    BY <1>3, <1>4 DEF GoodRows, GoodRow, NamedIds
  <2> QED
    BY <1>1, <1>2, <2>1 DEF RegistryInv, RegistryTypeOK
<1>7. GoodRows(assets)' /\ NamedIds(ids)'
  BY <1>1, <1>3, <1>4 DEF GoodRows, GoodRow, NamedIds
<1>8. \A d \in Conn : GoodRows(pending[d].assets)' /\ NamedIds(pending[d].ids)'
  BY <1>1, <1>5 DEF GoodRows, GoodRow, NamedIds
<1> QED
  BY <1>6, <1>7, <1>8 DEF RegistryInv

-----------------------------------------------------------------------------
(* The invariant: who is named where, and what every variable may hold.     *)

CallInv ==
    /\ call \in [Client -> CallState]
    /\ \A cl \in Client : call[cl] # NoCall => <<call[cl].op, call[cl].uid>> \in scenario

NamedRequests ==
    {r \in Request : r.uid \in Named /\ (r.op = "revert" => <<"revert", r.uid>> \in scenario)}

ServiceNamed ==
    /\ service.pc = "acquire" => service.request \in NamedRequests
    /\ service.pc = "create" =>
          /\ service.uid \in Named
          /\ service.op = "revert" => \E u : <<"revert", u>> \in scenario

ServiceInv ==
    /\ channel \in Seq(NamedRequests) /\ Len(channel) <= ChannelSize
    /\ service \in ServiceState /\ ServiceNamed

ExecutorInv ==
    /\ executors \subseteq [uid : Uid, n : Nat, wasm : Wasm, kill : BOOLEAN]
    /\ \A e \in executors : e.uid \in Named
    /\ killers \in [Uid -> Nat] /\ spawned \in [Uid -> Nat]
    /\ \A u \in Uid : killers[u] <= spawned[u]

BoundsInv ==
    /\ missed \subseteq Uid
    /\ scenario \in Scenarios
    /\ calls \in 0 .. MaxCalls /\ faults \in 0 .. MaxFaults

Inv == RegistryInv /\ CallInv /\ ServiceInv /\ ExecutorInv /\ BoundsInv

(* A call names an indexer of the scenario.                                 *)
LEMMA Calls ==
    ASSUME BoundsInv
    PROVE  /\ scenario \subseteq {"deploy", "stop", "revert"} \X Uid
           /\ Named \subseteq Uid
           /\ \A op, u : <<op, u>> \in scenario => u \in Named
<1>1. scenario \subseteq {"deploy", "stop", "revert"} \X Uid
  BY ServiceAssumption DEF BoundsInv
<1> QED
  BY <1>1 DEF Named

(* The scenario is chosen once.                                             *)
LEMMA ScenarioFixed == [Next]_vars => scenario' = scenario
<1> USE DEF boundVars
<1>1. ASSUME NEW cl \in Client, Call(cl) \/ ClientStep(cl) PROVE scenario' = scenario
  BY <1>1 DEF Call, ClientStep, Refused, BeginDeploy, RegisterAsset, InsertIndexer, CommitDeploy,
              RemoveIndexer, FindPenultimate, Send
<1>2. CASE ServiceStep
  BY <1>2 DEF ServiceStep, StopExecutor, TakeReload, TakeRevert, TakeRequest, FindIndexer, LoadAssets,
              RevertAssets, CreateExecutor
<1>3. CASE Failure
  BY <1>3 DEF Failure, Disconnect, SchemaFails, AcquireTimesOut, ServiceTimesOut, RemoveFails,
              CreateFails, ExecutorEnds, Restart
<1>4. CASE ExecutorStops \/ ReapConnection \/ UNCHANGED vars
  BY <1>4 DEF ExecutorStops, ReapConnection, vars
<1> QED
  BY <1>1, <1>2, <1>3, <1>4 DEF Next

(* An empty registry, no calls and no executors.                            *)
LEMMA InvInit == Init => Inv
<1> SUFFICES ASSUME Init PROVE Inv
  OBVIOUS
<1>1. RegistryTypeOK
  BY NoWritesGood DEF Init, RegistryInit, RegistryTypeOK, SessionState, Table
<1>2. RegistryInv
  BY <1>1, NoWritesGood, FS_EmptySet DEF Init, RegistryInit, RegistryInv, GoodRows, NamedIds
<1>3. CallInv
  BY DEF Init, CallInv, CallState
<1>4. ServiceInv
  BY ServiceAssumption DEF Init, ServiceInv, ServiceState, ServiceNamed, Polling
<1>5. ExecutorInv
  BY DEF Init, ExecutorInv
<1>6. BoundsInv
  BY ServiceAssumption DEF Init, BoundsInv
<1> QED
  BY <1>2, <1>3, <1>4, <1>5, <1>6 DEF Inv

(* The calls and the failures that are left.                                *)
LEMMA BoundsNext ==
    ASSUME Inv, [Next]_vars
    PROVE  BoundsInv'
<1> USE ServiceAssumption DEF BoundsInv, boundVars
<1>1. BoundsInv /\ scenario' = scenario
  BY ScenarioFixed DEF Inv
<1>2. ASSUME NEW cl \in Client, Call(cl) \/ ClientStep(cl) PROVE BoundsInv'
  BY <1>1, <1>2 DEF Call, ClientStep, Refused, BeginDeploy, RegisterAsset, InsertIndexer, CommitDeploy,
              RemoveIndexer, FindPenultimate, Send
<1>3. CASE ServiceStep
  <2>1. CASE FindIndexer
    <3>1. service \in ServiceState /\ service.pc = "acquire"
      BY <2>1 DEF FindIndexer, Serving, Inv, ServiceInv
    <3>2. service.request.uid \in Uid
      BY <3>1 DEF ServiceState, Request, Polling, Dead, Down
    <3> QED
      BY <1>1, <2>1, <3>2 DEF FindIndexer
  <2> QED
    BY <1>1, <1>3, <2>1 DEF ServiceStep, StopExecutor, TakeReload, TakeRevert, TakeRequest, LoadAssets,
              RevertAssets, CreateExecutor
<1>4. CASE Failure
  <2>1. ASSUME NEW cl \in Client, Disconnect(cl) PROVE BoundsInv'
    <3>1. call[cl].uid \in Uid
      BY <2>1 DEF Disconnect, Inv, CallInv, CallState
    <3> QED
      BY <1>1, <2>1, <3>1 DEF Disconnect, SpendFault
  <2>2. \A f : SpendFault(f) => faults' \in 0 .. MaxFaults
    BY <1>1 DEF SpendFault
  <2>3. ASSUME NEW cl \in Client, SchemaFails(cl) \/ AcquireTimesOut(cl) PROVE BoundsInv'
    BY <1>1, <2>2, <2>3 DEF SchemaFails, AcquireTimesOut
  <2>4. CASE ServiceTimesOut \/ RemoveFails \/ CreateFails \/ ExecutorEnds
    BY <1>1, <2>2, <2>4 DEF ServiceTimesOut, RemoveFails, CreateFails, ExecutorEnds
  <2>5. CASE Restart
    BY <1>1, <2>2, <2>5 DEF Restart
  <2> QED
    BY <1>4, <2>1, <2>3, <2>4, <2>5 DEF Failure
<1>5. CASE ExecutorStops \/ ReapConnection \/ UNCHANGED vars
  BY <1>1, <1>5 DEF ExecutorStops, ReapConnection, vars
<1> QED
  BY <1>2, <1>3, <1>4, <1>5 DEF Next

-----------------------------------------------------------------------------
(* The calls of the API.                                                    *)

(* One handler goes on.                                                     *)
LEMMA CallGoesOn ==
    ASSUME CallInv, scenario' = scenario, NEW cl \in Client, NEW x \in CallState,
           x # NoCall => <<x.op, x.uid>> \in scenario,
           call' = [call EXCEPT ![cl] = x]
    PROVE  CallInv'
  BY DEF CallInv

(* What is known of a handler by where it is.                               *)
LEMMA CallShape ==
    ASSUME CallInv, BoundsInv, NEW cl \in Client
    PROVE  /\ call[cl] # NoCall =>
                 call[cl].uid \in Named /\ call[cl].uid \in Uid
                 /\ <<call[cl].op, call[cl].uid>> \in scenario
           /\ call[cl].pc \in {"assets", "insert"} =>
                 /\ call[cl] \in [pc : {"assets", "insert", "send"}, op : {"deploy"}, uid : Uid,
                                  wasm : Wasm, conn : Conn, done : 0 .. Len(Tables)]
                 /\ call[cl] # NoCall
           /\ call[cl].pc = "acquire" =>
                 /\ call[cl] \in [pc : {"acquire"}, op : {"deploy", "stop", "revert"}, uid : Uid,
                                  wasm : Wasm, conn : {NoConn}]
                 /\ call[cl] # NoCall
           /\ call[cl].pc = "send" => call[cl] # NoCall /\ call[cl].conn \in Conn
<1>1. call[cl] # NoCall => call[cl].uid \in Named /\ <<call[cl].op, call[cl].uid>> \in scenario
  BY Calls DEF CallInv
<1>2. call[cl] # NoCall => call[cl].uid \in Uid
  BY <1>1, Calls
<1>3. call[cl] \in CallState
  BY DEF CallInv
<1> QED
  BY <1>1, <1>2, <1>3 DEF CallState, NoCall

(* A handler keeps to the shape of the operation that it serves.            *)
LEMMA CallNext ==
    ASSUME Inv, [Next]_vars
    PROVE  CallInv'
<1>1. CallInv /\ BoundsInv /\ RegistryInv /\ scenario' = scenario /\ call \in [Client -> CallState]
  BY ScenarioFixed DEF Inv, CallInv
<1>2. ASSUME call' = call PROVE CallInv'
  BY <1>1, <1>2 DEF CallInv
<1>3. ASSUME NEW cl \in Client, Return(cl) PROVE CallInv'
  BY <1>1, <1>3, CallGoesOn DEF Return, CallState
<1>4. ASSUME NEW cl \in Client, Call(cl) PROVE CallInv'
  <2>1. PICK op \in scenario, w \in Wasm :
            call' = [call EXCEPT ![cl] = [pc |-> "acquire", op |-> op[1], uid |-> op[2],
                                          wasm |-> w, conn |-> NoConn]]
    BY <1>4 DEF Call
  <2>2. op[1] \in {"deploy", "stop", "revert"} /\ op[2] \in Uid /\ op = <<op[1], op[2]>>
    BY <1>1, Calls
  <2> DEFINE x == [pc |-> "acquire", op |-> op[1], uid |-> op[2], wasm |-> w, conn |-> NoConn]
  <2>3. x \in CallState /\ <<x.op, x.uid>> \in scenario
    BY <2>2 DEF CallState
  <2> QED
    BY <1>1, <2>1, <2>3, CallGoesOn
<1>5. ASSUME NEW cl \in Client, BeginDeploy(cl) PROVE CallInv'
  <2>1. PICK c \in Conn : call' = [call EXCEPT ![cl] =
            [pc |-> "assets", op |-> "deploy", uid |-> call[cl].uid, wasm |-> call[cl].wasm,
             conn |-> c, done |-> 0]]
    BY <1>1, <1>5 DEF BeginDeploy
  <2>2. /\ call[cl].op = "deploy" /\ call[cl].uid \in Uid /\ call[cl].wasm \in Wasm
        /\ <<"deploy", call[cl].uid>> \in scenario
    BY <1>1, <1>5, CallShape DEF BeginDeploy, At
  <2> PICK x : x = [pc |-> "assets", op |-> "deploy", uid |-> call[cl].uid, wasm |-> call[cl].wasm,
                     conn |-> c, done |-> 0]
    OBVIOUS
  <2>3. x \in CallState /\ <<x.op, x.uid>> \in scenario
    BY <2>2 DEF CallState, Tables
  <2> QED
    BY <1>1, <2>1, <2>3, CallGoesOn
<1>6. ASSUME NEW cl \in Client, call[cl].pc \in {"assets", "insert"},
             NEW x, call' = [call EXCEPT ![cl] = x],
             \/ \E pc \in {"assets", "insert", "send"} : x = [call[cl] EXCEPT !.pc = pc]
             \/ x = [call[cl] EXCEPT !.done = @ + 1] /\ call[cl].done < Len(Tables)
      PROVE  CallInv'
  <2>1. /\ call[cl] \in [pc : {"assets", "insert", "send"}, op : {"deploy"}, uid : Uid,
                         wasm : Wasm, conn : Conn, done : 0 .. 3]
        /\ <<"deploy", call[cl].uid>> \in scenario
    BY <1>1, <1>6, CallShape DEF Tables
  <2>2. /\ x \in [pc : {"assets", "insert", "send"}, op : {"deploy"}, uid : Uid,
                  wasm : Wasm, conn : Conn, done : 0 .. 3]
        /\ x.uid = call[cl].uid
    BY <1>6, <2>1 DEF Tables
  <2>3. x \in CallState /\ <<x.op, x.uid>> \in scenario
    BY <2>1, <2>2 DEF CallState, Tables
  <2> QED
    BY <1>1, <1>6, <2>3, CallGoesOn
<1>7. ASSUME NEW cl \in Client, RegisterAsset(cl) PROVE CallInv'
  <2>1. call[cl].pc = "assets" /\ call[cl].done < Len(Tables)
    BY <1>7 DEF RegisterAsset
  <2>2. CASE call' = [call EXCEPT ![cl].done = @ + 1]
    BY <1>6, <2>1, <2>2
  <2>3. CASE GoTo(cl, "insert")
    BY <1>6, <2>1, <2>3 DEF GoTo
  <2> QED
    BY <1>7, <2>2, <2>3 DEF RegisterAsset
<1>8. ASSUME NEW cl \in Client, InsertIndexer(cl) PROVE CallInv'
  BY <1>3, <1>6, <1>8 DEF InsertIndexer, GoTo
<1>9. ASSUME NEW cl \in Client, CommitDeploy(cl) PROVE CallInv'
  BY <1>3, <1>6, <1>9 DEF CommitDeploy, GoTo
<1>10. ASSUME NEW cl \in Client, RemoveIndexer(cl) PROVE CallInv'
  <2>1. CASE Return(cl)
    BY <1>3, <2>1
  <2>2. ASSUME NEW c \in Conn, call' = [call EXCEPT ![cl] =
                  [pc |-> "send", op |-> "stop", uid |-> call[cl].uid, conn |-> c]]
        PROVE  CallInv'
    <3>1. call[cl].uid \in Uid /\ <<"stop", call[cl].uid>> \in scenario
      BY <1>1, <1>10, CallShape DEF RemoveIndexer, At
    <3> PICK x : x = [pc |-> "send", op |-> "stop", uid |-> call[cl].uid, conn |-> c]
      OBVIOUS
    <3>2. x \in CallState /\ <<x.op, x.uid>> \in scenario
      BY <3>1 DEF CallState
    <3> QED
      BY <1>1, <2>2, <3>2, CallGoesOn
  <2> QED
    BY <1>1, <1>10, <2>1, <2>2 DEF RemoveIndexer
<1>11. ASSUME NEW cl \in Client, FindPenultimate(cl) PROVE CallInv'
  <2>1. CASE Return(cl)
    BY <1>3, <2>1
  <2>2. ASSUME NEW c \in Conn, NEW i, HasPenultimate(c, "wasm", i),
               call' = [call EXCEPT ![cl] =
                  [pc |-> "send", op |-> "revert", uid |-> call[cl].uid, conn |-> c,
                   asset |-> PenultimateAsset(c, "wasm", i)]]
        PROVE  CallInv'
    <3>1. call[cl].uid \in Uid /\ <<"revert", call[cl].uid>> \in scenario
      BY <1>1, <1>11, CallShape DEF FindPenultimate, At
    <3>2. PenultimateAsset(c, "wasm", i) \in Module
      BY <1>1, <2>2, PenultimateIsGood DEF GoodRow, Asset, Module, Table
    <3> PICK x : x = [pc |-> "send", op |-> "revert", uid |-> call[cl].uid, conn |-> c,
                       asset |-> PenultimateAsset(c, "wasm", i)]
      OBVIOUS
    <3>3. x \in CallState /\ <<x.op, x.uid>> \in scenario
      BY <3>1, <3>2 DEF CallState
    <3> QED
      BY <1>1, <2>2, <3>3, CallGoesOn
  <2> QED
    BY <1>1, <1>11, <2>1, <2>2 DEF FindPenultimate
<1>12. ASSUME NEW cl \in Client, Refused(cl) \/ Send(cl) PROVE CallInv'
  BY <1>3, <1>12 DEF Refused, Send
<1>13. CASE ServiceStep
  BY <1>2, <1>13 DEF ServiceStep, StopExecutor, TakeReload, TakeRevert, TakeRequest, FindIndexer,
                     LoadAssets, RevertAssets, CreateExecutor
<1>14. ASSUME NEW cl \in Client, Disconnect(cl) \/ SchemaFails(cl) \/ AcquireTimesOut(cl) PROVE CallInv'
  BY <1>3, <1>14 DEF Disconnect, SchemaFails, AcquireTimesOut
<1>15. CASE Restart
  BY <1>15 DEF Restart, CallInv, CallState
<1>16. CASE ServiceTimesOut \/ RemoveFails \/ CreateFails \/ ExecutorEnds
  BY <1>2, <1>16 DEF ServiceTimesOut, RemoveFails, CreateFails, ExecutorEnds
<1>17. CASE ExecutorStops \/ ReapConnection \/ UNCHANGED vars
  BY <1>2, <1>17 DEF ExecutorStops, ReapConnection, vars
<1> QED
  BY <1>4, <1>5, <1>7, <1>8, <1>9, <1>10, <1>11, <1>12, <1>13, <1>14, <1>15, <1>16, <1>17
  DEF Next, ClientStep, Failure

(* The registry, whatever statements the handlers and the service send.     *)
LEMMA RegistryNext ==
    ASSUME Inv, [Next]_vars
    PROVE  RegistryInv'
<1>1. CallInv /\ BoundsInv /\ RegistryInv /\ ServiceInv /\ scenario' = scenario
  BY ScenarioFixed DEF Inv
<1>2. ASSUME UNCHANGED registryVars PROVE RegistryInv'
  BY <1>1, <1>2, SessionsChange DEF registryVars, RegistryInv, RegistryTypeOK
<1>3. ASSUME NEW cl \in Client, Call(cl) \/ Refused(cl) \/ Send(cl) PROVE RegistryInv'
  BY <1>2, <1>3 DEF Call, Refused, Send
<1>4. ASSUME NEW cl \in Client, BeginDeploy(cl) PROVE RegistryInv'
  <2>1. PICK c \in Conn : BeginOn(c) /\ UNCHANGED <<ids, assets, nextId, pending>>
    BY <1>4 DEF BeginDeploy, BeginOn
  <2> QED
    BY <1>1, <2>1, SessionStatements
<1>5. ASSUME NEW cl \in Client, RegisterAsset(cl) PROVE RegistryInv'
  <2>1. CASE UNCHANGED registryVars
    BY <1>2, <2>1
  <2>2. CASE RegisterIndexAsset(call[cl].conn, call[cl].uid, NextTable(cl), Bytes(cl))
    <3>0. call[cl].pc = "assets" /\ call[cl].done < Len(Tables)
      BY <1>5 DEF RegisterAsset
    <3>1. /\ call[cl].conn \in Conn /\ call[cl].uid \in Uid /\ call[cl].uid \in Named
          /\ call[cl].wasm \in Wasm /\ call[cl].done \in 0 .. 2
      <4>1. /\ call[cl] \in [pc : {"assets", "insert", "send"}, op : {"deploy"}, uid : Uid,
                             wasm : Wasm, conn : Conn, done : 0 .. Len(Tables)]
            /\ call[cl].uid \in Named
        BY <1>1, <3>0, CallShape
      <4> QED
        BY <3>0, <4>1 DEF Tables
    <3>2. NextTable(cl) \in Table
      BY <3>1 DEF NextTable, Tables, Table
    <3>3. /\ Bytes(cl) \in Uid \cup Wasm
          /\ NextTable(cl) = "wasm" => Bytes(cl) \in Wasm
          /\ NextTable(cl) = "manifest" => Bytes(cl) \in Named
      BY <3>1 DEF Bytes
    <3> QED
      BY <1>1, <2>2, <3>1, <3>2, <3>3, RegisterAssetKeeps
  <2> QED
    BY <1>5, <2>1, <2>2 DEF RegisterAsset
<1>6. ASSUME NEW cl \in Client, InsertIndexer(cl) PROVE RegistryInv'
  <2>1. call[cl].conn \in Conn /\ call[cl].uid \in Named \cap Uid
    BY <1>1, <1>6, CallShape DEF InsertIndexer
  <2>2. CASE InsertIndex(call[cl].conn, call[cl].uid)
    BY <1>1, <2>1, <2>2, InsertIndexKeeps
  <2>3. CASE AbortOn(call[cl].conn)
    BY <1>1, <2>1, <2>3, SessionStatements
  <2> QED
    BY <1>6, <2>2, <2>3 DEF InsertIndexer
<1>7. ASSUME NEW cl \in Client, CommitDeploy(cl) PROVE RegistryInv'
  <2>1. call[cl].conn \in Conn
    BY <1>1, <1>7, CallShape DEF CommitDeploy
  <2> QED
    BY <1>1, <1>7, <2>1, CommitKeeps, SessionStatements DEF CommitDeploy
<1>8. ASSUME NEW cl \in Client, RemoveIndexer(cl) PROVE RegistryInv'
  BY <1>1, <1>8, CommitKeeps, SessionStatements DEF RemoveIndexer
<1>9. ASSUME NEW cl \in Client, FindPenultimate(cl) PROVE RegistryInv'
  BY <1>1, <1>9, SessionStatements DEF FindPenultimate
<1>10. CASE StopExecutor \/ TakeReload \/ TakeRevert \/ LoadAssets \/ CreateExecutor
  BY <1>2, <1>10 DEF StopExecutor, TakeReload, TakeRevert, TakeRequest, LoadAssets, CreateExecutor
<1>11. CASE FindIndexer
  BY <1>1, <1>11, SessionStatements DEF FindIndexer
<1>12. CASE RevertAssets
  <2>1. PICK c \in Conn :
            \/ UNCHANGED registryVars
            \/ BeginOn(c) /\ UNCHANGED <<ids, assets, nextId, pending>>
            \/ RollbackOn(c)
            \/ CommitOn(c, RemovedByRevert(c, service.request.asset.id), 0)
    BY <1>12 DEF RevertAssets
  <2> QED
    BY <1>1, <1>2, <2>1, CommitKeeps, SessionStatements
<1>13. ASSUME NEW cl \in Client, Disconnect(cl) \/ AcquireTimesOut(cl) PROVE RegistryInv'
  BY <1>2, <1>13 DEF Disconnect, AcquireTimesOut
<1>14. ASSUME NEW cl \in Client, SchemaFails(cl) PROVE RegistryInv'
  <2>1. call[cl].conn \in Conn
    BY <1>1, <1>14, CallShape DEF SchemaFails
  <2> QED
    BY <1>1, <1>14, <2>1, SessionStatements DEF SchemaFails
<1>15. CASE Restart
  BY <1>1, <1>15, SessionStatements DEF Restart
<1>16. CASE RemoveFails
  BY <1>1, <1>16, SessionStatements DEF RemoveFails
<1>17. CASE ServiceTimesOut \/ CreateFails \/ ExecutorEnds \/ ExecutorStops
  BY <1>2, <1>17 DEF ServiceTimesOut, CreateFails, ExecutorEnds, ExecutorStops
<1>18. CASE ReapConnection
  BY <1>1, <1>18, SessionStatements DEF ReapConnection
<1>19. CASE UNCHANGED vars
  BY <1>2, <1>19 DEF vars
<1> QED
  BY <1>3, <1>4, <1>5, <1>6, <1>7, <1>8, <1>9, <1>10, <1>11, <1>12, <1>13, <1>14, <1>15, <1>16,
     <1>17, <1>18, <1>19 DEF Next, ClientStep, ServiceStep, Failure

-----------------------------------------------------------------------------
(* The service task.                                                        *)

(* What is known of the service by what it does.                            *)
LEMMA ServiceShape ==
    ASSUME ServiceInv
    PROVE  /\ service.pc = "acquire" => service.request \in NamedRequests
           /\ service.pc = "load" => service.conn \in Conn
           /\ service.pc = "create" =>
                 /\ service.op \in {"reload", "revert"}
                 /\ service.uid \in Uid /\ service.uid \in Named /\ service.wasm \in Wasm
                 /\ service.op = "revert" => \E u : <<"revert", u>> \in scenario
<1>1. service \in ServiceState /\ ServiceNamed
  BY DEF ServiceInv
<1> QED
  BY <1>1 DEF ServiceState, ServiceNamed, Polling, Dead, Down

(* The executor of a reload or a revert is one of a manifest's indexer.     *)
LEMMA CreatedIsNamed ==
    ASSUME RegistryInv, BoundsInv, NEW c \in Conn, NEW i, HasAssets(c, i)
    PROVE  /\ LatestAsset(c, "manifest", i).bytes \in Named
           /\ LatestAsset(c, "manifest", i).bytes \in Uid
           /\ LatestAsset(c, "wasm", i).bytes \in Wasm
<1>1. "manifest" \in Table /\ "wasm" \in Table
  BY DEF Table
<1>2. AssetsOf(c, "manifest", i) # {} /\ AssetsOf(c, "wasm", i) # {}
  BY <1>1 DEF HasAssets
<1>3. /\ GoodRow(LatestAsset(c, "manifest", i)) /\ LatestAsset(c, "manifest", i).table = "manifest"
      /\ GoodRow(LatestAsset(c, "wasm", i)) /\ LatestAsset(c, "wasm", i).table = "wasm"
  BY <1>1, <1>2, LatestIsGood
<1> QED
  BY <1>3, Calls DEF GoodRow

(* The service asks only for indexers that a request or a manifest names.   *)
LEMMA ServiceNext ==
    ASSUME Inv, [Next]_vars
    PROVE  ServiceInv'
<1>1. /\ CallInv /\ BoundsInv /\ RegistryInv /\ ServiceInv /\ scenario' = scenario
      /\ channel \in Seq(NamedRequests) /\ Len(channel) <= ChannelSize
  BY ScenarioFixed DEF Inv, ServiceInv
<1>2. Named' = Named /\ NamedRequests' = NamedRequests
  BY <1>1 DEF Named, NamedRequests
<1>3. ASSUME service' = service, channel' \in Seq(NamedRequests), Len(channel') <= ChannelSize
      PROVE  ServiceInv'
  BY <1>1, <1>2, <1>3 DEF ServiceInv, ServiceNamed
<1>4. ASSUME service' \in {Polling, Dead, Down} \cup [pc : {"load"}, conn : Conn, id : Nat],
             channel' = channel \/ channel' = <<>>
      PROVE  ServiceInv'
  <2>1. service' \in ServiceState /\ service'.pc \notin {"acquire", "create"}
    BY <1>4 DEF ServiceState, Polling, Dead, Down
  <2>2. CASE channel' = channel
    <3>1. channel' \in Seq(NamedRequests) /\ Len(channel') <= ChannelSize
      BY <1>1, <2>2
    <3> QED
      BY <1>2, <2>1, <3>1 DEF ServiceInv, ServiceNamed
  <2>3. CASE channel' = <<>>
    <3>1. channel' \in Seq(NamedRequests)
      BY <2>3
    <3>2. Len(channel') = 0
      BY <2>3
    <3>3. Len(channel') <= ChannelSize
      BY <3>2, ServiceAssumption
    <3> QED
      BY <1>2, <2>1, <3>1, <3>3 DEF ServiceInv, ServiceNamed
  <2> QED
    BY <1>4, <2>2, <2>3
<1>5. ASSUME ServiceDies PROVE ServiceInv'
  BY <1>4, <1>5 DEF ServiceDies
<1>6. ASSUME NEW r, TakeRequest(r)
      PROVE  /\ r \in NamedRequests
             /\ channel' \in Seq(NamedRequests) /\ Len(channel') <= ChannelSize
  <2>1. channel # <<>> /\ r = Head(channel) /\ channel' = Tail(channel)
    BY <1>6 DEF TakeRequest
  <2> QED
    BY <1>1, <2>1, ServiceAssumption
<1>7. ASSUME NEW r \in NamedRequests, channel' \in Seq(NamedRequests), Len(channel') <= ChannelSize,
             service' = [pc |-> "acquire", conn |-> NoConn, request |-> r]
      PROVE  ServiceInv'
  <2>1. service' \in ServiceState
    BY <1>7 DEF ServiceState, NamedRequests
  <2> QED
    BY <1>2, <1>7, <2>1 DEF ServiceInv, ServiceNamed
<1>8. ASSUME NEW c \in Conn, NEW op \in {"reload", "revert"}, NEW u \in Named \cap Uid, NEW w \in Wasm,
             op = "revert" => \E v : <<"revert", v>> \in scenario,
             service' = [pc |-> "create", conn |-> c, op |-> op, uid |-> u, wasm |-> w],
             channel' = channel
      PROVE  ServiceInv'
  <2>1. service' \in ServiceState
    BY <1>8 DEF ServiceState
  <2> QED
    BY <1>1, <1>2, <1>8, <2>1 DEF ServiceInv, ServiceNamed
<1>9. ASSUME NEW cl \in Client, Send(cl) PROVE ServiceInv'
  <2>1. service' = service
    BY <1>9 DEF Send
  <2>2. CASE channel' = channel
    BY <1>1, <1>3, <2>1, <2>2
  <2>3. CASE Len(channel) < ChannelSize /\ channel' = Append(channel, RequestOf(call[cl]))
    <3>1. call[cl].pc = "send" /\ call[cl] \in CallState /\ call[cl] # NoCall
      BY <1>1, <1>9, CallShape DEF Send, CallInv
    <3>2. call[cl].uid \in Named /\ call[cl].uid \in Uid /\ <<call[cl].op, call[cl].uid>> \in scenario
      BY <1>1, <3>1, CallShape
    <3>3. RequestOf(call[cl]) \in Request
      BY <3>1, <3>2 DEF RequestOf, Request, CallState, NoCall
    <3>4. RequestOf(call[cl]) \in NamedRequests
      BY <3>2, <3>3 DEF RequestOf, NamedRequests
    <3>5. channel' \in Seq(NamedRequests) /\ Len(channel') = Len(channel) + 1
      BY <1>1, <2>3, <3>4
    <3> QED
      BY <1>1, <1>3, <2>1, <2>3, <3>5, ServiceAssumption
  <2> QED
    BY <1>9, <2>2, <2>3 DEF Send
<1>10. ASSUME NEW cl \in Client, Call(cl) \/ (ClientStep(cl) /\ ~Send(cl)) PROVE ServiceInv'
  BY <1>1, <1>3, <1>10 DEF Call, ClientStep, Refused, BeginDeploy, RegisterAsset, InsertIndexer,
                    CommitDeploy, RemoveIndexer, FindPenultimate, serviceVars
<1>11. CASE StopExecutor
  BY <1>3, <1>6, <1>11 DEF StopExecutor
<1>12. CASE TakeReload \/ TakeRevert
  BY <1>6, <1>7, <1>12 DEF TakeReload, TakeRevert
<1>13. CASE FindIndexer
  <2>1. PICK c \in Conn : \/ service' = Polling
                          \/ service' = [pc |-> "load", conn |-> c, id |-> IndexId(c, service.request.uid)]
    BY <1>13 DEF FindIndexer
  <2>2. service.request.uid \in Uid
    BY <1>1, <1>13, ServiceShape, Calls DEF FindIndexer, Serving, NamedRequests
  <2>3. IndexId(c, service.request.uid) \in Nat
    BY <1>1, <2>2 DEF IndexId, RegistryInv, NamedIds
  <2>4. channel' = channel
    BY <1>13 DEF FindIndexer
  <2> QED
    BY <1>4, <2>1, <2>3, <2>4
<1>14. CASE LoadAssets
  <2>1. CASE ServiceDies
    BY <1>5, <2>1
  <2>2. CASE ~ServiceDies
    <3> DEFINE u == LatestAsset(service.conn, "manifest", service.id).bytes
               w == LatestAsset(service.conn, "wasm", service.id).bytes
    <3>1. /\ HasAssets(service.conn, service.id) /\ service.pc = "load" /\ channel' = channel
          /\ service' = [pc |-> "create", conn |-> service.conn, op |-> "reload", uid |-> u, wasm |-> w]
      BY <1>14, <2>2 DEF LoadAssets
    <3>2. service.conn \in Conn
      BY <1>1, <3>1, ServiceShape
    <3>3. u \in Named \cap Uid /\ w \in Wasm
      BY <1>1, <3>1, <3>2, CreatedIsNamed
    <3> HIDE DEF u, w
    <3> QED
      BY <1>8, <3>1, <3>2, <3>3
  <2> QED
    BY <2>1, <2>2
<1>15. ASSUME Serving("revert"), NEW c \in Conn, HasAssets(c, service.request.asset.id),
              service' = Reverted(c, service.request.asset.id), channel' = channel
       PROVE  ServiceInv'
  <2> DEFINE u == LatestAsset(c, "manifest", service.request.asset.id).bytes
             w == service.request.asset.bytes
  <2>1. service.request \in NamedRequests /\ service.request.op = "revert"
    BY <1>1, <1>15, ServiceShape DEF Serving
  <2>2. w \in Wasm /\ <<"revert", service.request.uid>> \in scenario
    BY <2>1 DEF NamedRequests, Request, Module
  <2>3. u \in Named \cap Uid
    BY <1>1, <1>15, CreatedIsNamed
  <2>4. service' = [pc |-> "create", conn |-> c, op |-> "revert", uid |-> u, wasm |-> w]
    BY <1>15 DEF Reverted
  <2> HIDE DEF u, w
  <2> QED
    BY <1>8, <1>15, <2>2, <2>3, <2>4
<1>16. CASE RevertAssets
  <2>1. CASE ServiceDies
    BY <1>5, <2>1
  <2>2. CASE ~ServiceDies
    BY <1>15, <1>16, <2>2 DEF RevertAssets
  <2> QED
    BY <2>1, <2>2
<1>17. CASE RemoveFails
  BY <1>15, <1>17 DEF RemoveFails
<1>18. CASE CreateExecutor
  BY <1>4, <1>18 DEF CreateExecutor
<1>19. CASE ServiceTimesOut \/ CreateFails
  BY <1>5, <1>19 DEF ServiceTimesOut, CreateFails
<1>20. CASE Restart
  BY <1>4, <1>20 DEF Restart
<1>21. ASSUME NEW cl \in Client, Disconnect(cl) \/ SchemaFails(cl) \/ AcquireTimesOut(cl) PROVE ServiceInv'
  BY <1>1, <1>3, <1>21 DEF Disconnect, SchemaFails, AcquireTimesOut, serviceVars
<1>22. CASE ExecutorEnds \/ ExecutorStops \/ ReapConnection \/ UNCHANGED vars
  BY <1>1, <1>3, <1>22 DEF ExecutorEnds, ExecutorStops, ReapConnection, vars, serviceVars
<1> QED
  BY <1>9, <1>10, <1>11, <1>12, <1>13, <1>14, <1>16, <1>17, <1>18, <1>19, <1>20, <1>21, <1>22
  DEF Next, ServiceStep, Failure

-----------------------------------------------------------------------------
(* The executors.                                                           *)

(* A kill switch changes neither which executor it is nor its indexer.      *)
LEMMA KilledAreTyped ==
    ASSUME ExecutorInv, NEW u
    PROVE  /\ KillExecutor(u) \subseteq [uid : Uid, n : Nat, wasm : Wasm, kill : BOOLEAN]
           /\ \A e \in KillExecutor(u) : e.uid \in Named
  BY DEF KillExecutor, ExecutorInv

(* Executors have numbers, and a killer is of one that was started.         *)
LEMMA ExecutorNext ==
    ASSUME Inv, [Next]_vars
    PROVE  ExecutorInv'
<1>1. /\ ServiceInv /\ ExecutorInv /\ BoundsInv /\ RegistryInv /\ scenario' = scenario /\ Named' = Named
  BY ScenarioFixed DEF Inv, Named
<1>2. ASSUME executors' \subseteq executors, spawned' = spawned,
             killers' = killers \/ killers' = [u \in Uid |-> 0]
      PROVE  ExecutorInv'
  BY <1>1, <1>2 DEF ExecutorInv
<1>3. ASSUME NEW cl \in Client, Call(cl) \/ ClientStep(cl) PROVE ExecutorInv'
  BY <1>2, <1>3 DEF Call, ClientStep, Refused, BeginDeploy, RegisterAsset, InsertIndexer,
                    CommitDeploy, RemoveIndexer, FindPenultimate, Send, serviceVars
<1>4. CASE StopExecutor
  <2>1. PICK u : executors' = KillExecutor(u) /\ killers' = [killers EXCEPT ![u] = 0] /\ spawned' = spawned
    BY <1>4 DEF StopExecutor, TakeRequest
  <2>2. killers' \in [Uid -> Nat] /\ \A v \in Uid : killers'[v] <= spawned[v]
    <3>1. killers \in [Uid -> Nat] /\ spawned \in [Uid -> Nat]
          /\ \A v \in Uid : killers[v] <= spawned[v]
      BY <1>1 DEF ExecutorInv
    <3>2. killers' \in [Uid -> Nat]
      BY <2>1, <3>1
    <3>3. ASSUME NEW v \in Uid PROVE killers'[v] <= spawned[v]
      <4>1. killers'[v] = killers[v] \/ killers'[v] = 0
        BY <2>1, <3>1
      <4>2. spawned[v] \in Nat /\ killers[v] <= spawned[v]
        BY <3>1
      <4> QED
        BY <4>1, <4>2
    <3> QED
      BY <3>2, <3>3
  <2> QED
    BY <1>1, <2>1, <2>2, KilledAreTyped DEF ExecutorInv
<1>5. CASE TakeReload \/ FindIndexer \/ LoadAssets \/ RevertAssets \/ RemoveFails \/ ServiceTimesOut
           \/ CreateFails
  BY <1>2, <1>5 DEF TakeReload, TakeRequest, FindIndexer, LoadAssets, RevertAssets, RemoveFails,
                    ServiceTimesOut, CreateFails, ServiceDies
<1>6. CASE TakeRevert
  <2>1. PICK u : executors' = KillExecutor(u) /\ killers' = killers /\ spawned' = spawned
    BY <1>6 DEF TakeRevert, TakeRequest
  <2> QED
    BY <1>1, <2>1, KilledAreTyped DEF ExecutorInv
<1>7. CASE CreateExecutor
  <2> DEFINE u == service.uid
             n == spawned[u] + 1
             old == IF service.op = "reload" THEN KillExecutor(u) ELSE executors
             new == [uid |-> u, n |-> n, wasm |-> service.wasm, kill |-> FALSE]
  <2>1. u \in Uid /\ u \in Named /\ service.wasm \in Wasm
    BY <1>1, <1>7, ServiceShape DEF CreateExecutor
  <2>2. n \in Nat /\ spawned[u] \in Nat
    BY <1>1, <2>1 DEF ExecutorInv
  <2>3. /\ executors' = old \cup {new}
        /\ killers' = [killers EXCEPT ![u] = n] /\ spawned' = [spawned EXCEPT ![u] = n]
    BY <1>7 DEF CreateExecutor
  <2>4. /\ old \subseteq [uid : Uid, n : Nat, wasm : Wasm, kill : BOOLEAN]
        /\ \A e \in old : e.uid \in Named
    BY <1>1, KilledAreTyped DEF ExecutorInv
  <2>5. new \in [uid : Uid, n : Nat, wasm : Wasm, kill : BOOLEAN] /\ new.uid \in Named
    BY <2>1, <2>2
  <2> HIDE DEF u, n, old, new
  <2>6. /\ killers' \in [Uid -> Nat] /\ spawned' \in [Uid -> Nat]
        /\ \A v \in Uid : killers'[v] <= spawned'[v]
    BY <1>1, <2>1, <2>2, <2>3 DEF ExecutorInv
  <2> QED
    BY <1>1, <2>3, <2>4, <2>5, <2>6 DEF ExecutorInv
<1>8. CASE Restart
  <2>1. PICK new \in SUBSET Registered :
            /\ executors' = {[uid |-> u, n |-> 1, kill |-> FALSE,
                              wasm |-> Newest(AssetRows(u, "wasm")).bytes] : u \in new}
            /\ killers' = [u \in Uid |-> IF u \in new THEN 1 ELSE 0]
            /\ spawned' = [u \in Uid |-> IF u \in new THEN 1 ELSE 0]
            /\ \A u \in new : AssetRows(u, "wasm") # {}
    <3>1. PICK created \in BOOLEAN :
            LET starts == created /\ \A u \in Registered, t \in Table : AssetRows(u, t) # {}
                new == IF starts THEN Registered ELSE {}
            IN  /\ executors' = {[uid |-> u, n |-> 1, kill |-> FALSE,
                              wasm |-> Newest(AssetRows(u, "wasm")).bytes] : u \in new}
                /\ killers' = [u \in Uid |-> IF u \in new THEN 1 ELSE 0]
                /\ spawned' = [u \in Uid |-> IF u \in new THEN 1 ELSE 0]
      BY <1>8 DEF Restart
    <3>2. CASE created /\ \A u \in Registered, t \in Table : AssetRows(u, t) # {}
      BY <3>1, <3>2 DEF Table
    <3>3. CASE ~(created /\ \A u \in Registered, t \in Table : AssetRows(u, t) # {})
      BY <3>1, <3>3
    <3> QED
      BY <3>2, <3>3
  <2>2. ASSUME NEW u \in new
        PROVE  u \in Uid /\ u \in Named /\ Newest(AssetRows(u, "wasm")).bytes \in Wasm
    <3>1. u \in Uid /\ u \in Named
      BY <1>1 DEF Registered, RegistryInv, NamedIds
    <3>2. \A a \in AssetRows(u, "wasm") : GoodRow(a) /\ a.table = "wasm"
      BY <1>1 DEF AssetRows, RegistryInv, GoodRows
    <3>3. Newest(AssetRows(u, "wasm")) \in AssetRows(u, "wasm")
      BY <1>1, <2>1, <3>2, NewestIsOne DEF RegistryInv, Table
    <3> QED
      BY <3>1, <3>2, <3>3 DEF GoodRow
  <2>3. /\ executors' \subseteq [uid : Uid, n : Nat, wasm : Wasm, kill : BOOLEAN]
        /\ \A e \in executors' : e.uid \in Named
    <3>1. ASSUME NEW e \in executors'
          PROVE  e \in [uid : Uid, n : Nat, wasm : Wasm, kill : BOOLEAN] /\ e.uid \in Named
      <4>1. PICK u \in new : e = [uid |-> u, n |-> 1, kill |-> FALSE,
                                 wasm |-> Newest(AssetRows(u, "wasm")).bytes]
        BY <2>1
      <4>2. u \in Uid /\ u \in Named /\ Newest(AssetRows(u, "wasm")).bytes \in Wasm
        BY <2>2
      <4> QED
        BY <4>1, <4>2
    <3> QED
      BY <3>1
  <2>4. /\ killers' \in [Uid -> Nat] /\ spawned' \in [Uid -> Nat]
        /\ \A v \in Uid : killers'[v] <= spawned'[v]
    BY <2>1
  <2> QED
    BY <1>1, <2>3, <2>4 DEF ExecutorInv
<1>9. ASSUME NEW cl \in Client, Disconnect(cl) \/ SchemaFails(cl) \/ AcquireTimesOut(cl) PROVE ExecutorInv'
  BY <1>2, <1>9 DEF Disconnect, SchemaFails, AcquireTimesOut, serviceVars
<1>10. CASE ExecutorEnds \/ ExecutorStops \/ ReapConnection \/ UNCHANGED vars
  BY <1>2, <1>10 DEF ExecutorEnds, ExecutorStops, ReapConnection, vars, serviceVars
<1> QED
  BY <1>3, <1>4, <1>5, <1>6, <1>7, <1>8, <1>9, <1>10 DEF Next, ServiceStep, Failure

(* Every step keeps the invariant.                                          *)
LEMMA InvNext == Inv /\ [Next]_vars => Inv'
  BY CallNext, RegistryNext, ServiceNext, ExecutorNext, BoundsNext DEF Inv

(* The invariant is stronger than the types.                                *)
LEMMA InvTypes == Inv => TypeOK
<1> SUFFICES ASSUME Inv PROVE TypeOK
  OBVIOUS
<1>1. channel \in Seq(Request)
  <2>1. NamedRequests \subseteq Request
    BY DEF NamedRequests
  <2> QED
    BY <2>1 DEF Inv, ServiceInv
<1> QED
  BY <1>1 DEF Inv, TypeOK, RegistryInv, CallInv, ServiceInv, ExecutorInv, BoundsInv

(* Whatever the clients call and whatever fails, the registry, the channel, *)
(* the handlers, the service and its executors stay in their types.         *)
THEOREM ServiceTypeCorrect == Spec => []TypeOK
  BY InvInit, InvNext, InvTypes, PTL DEF Spec

-----------------------------------------------------------------------------
(* Every executor can be stopped.                                           *)

(* A revert has told every executor to stop before it starts another.       *)
Reverting ==
    \/ service.pc = "acquire" /\ service.request.op = "revert"
    \/ service.pc = "create" /\ service.op = "revert"

RevertKilledFirst ==
    Reverting /\ RevertsAlone => \A e \in executors : e.kill

ControlInv == Controllable /\ RevertKilledFirst

(* Where one indexer is reverted, it is the only one there is.              *)
LEMMA OneIndexer ==
    ASSUME RevertsAlone, NEW u, <<"revert", u>> \in scenario, NEW v \in Named
    PROVE  v = u
  BY DEF RevertsAlone, Named

(* Every step keeps the executors within reach: what a killer no longer     *)
(* reaches has been told to stop before.                                    *)
LEMMA ControlNext ==
    ASSUME Inv, ControlInv, [Next]_vars
    PROVE  ControlInv'
<1>1. /\ ServiceInv /\ ExecutorInv /\ BoundsInv /\ RegistryInv /\ scenario' = scenario
      /\ Named' = Named /\ RevertsAlone' = RevertsAlone
  BY ScenarioFixed DEF Inv, Named, RevertsAlone
<1>2. ASSUME ServiceDies PROVE ControlInv'
  BY <1>2 DEF ServiceDies, Dead, ControlInv, Controllable, RevertKilledFirst, Reverting, Alive
<1>3. ASSUME executors' \subseteq executors, killers' = killers,
             Alive' => Alive, Reverting' => Reverting
      PROVE  ControlInv'
  BY <1>1, <1>3 DEF ControlInv, Controllable, RevertKilledFirst
<1>4. ASSUME executors' \subseteq executors, killers' = killers, service' = service
      PROVE  ControlInv'
  BY <1>3, <1>4 DEF Alive, Reverting
<1>5. ASSUME NEW cl \in Client, Call(cl) \/ ClientStep(cl) PROVE ControlInv'
  BY <1>4, <1>5 DEF Call, ClientStep, Refused, BeginDeploy, RegisterAsset, InsertIndexer,
                    CommitDeploy, RemoveIndexer, FindPenultimate, Send, serviceVars
<1>6. ASSUME Alive, RevertsAlone, NEW u, NEW e \in KillExecutor(u), e.uid = u
      PROVE  e.kill
  BY <1>1, <1>6 DEF KillExecutor, ControlInv, Controllable, ExecutorInv
<1>7. ASSUME Alive, RevertsAlone, NEW u, NEW e \in KillExecutor(u), e.uid # u
      PROVE  e \in executors /\ (~e.kill => killers[e.uid] = e.n)
  BY <1>1, <1>7 DEF KillExecutor, ControlInv, Controllable, ExecutorInv
<1>8. CASE StopExecutor
  <2>1. PICK u : /\ executors' = KillExecutor(u) /\ killers' = [killers EXCEPT ![u] = 0]
                 /\ service = Polling /\ service' = service
    BY <1>8 DEF StopExecutor, TakeRequest
  <2>2. Alive /\ ~Reverting'
    BY <2>1 DEF Alive, Reverting, Polling
  <2>3. ASSUME RevertsAlone, NEW e \in executors', ~e.kill PROVE killers'[e.uid] = e.n
    BY <1>1, <1>6, <1>7, <2>1, <2>2, <2>3, KilledAreTyped DEF ExecutorInv
  <2> QED
    BY <1>1, <2>2, <2>3 DEF ControlInv, Controllable, RevertKilledFirst
<1>9. CASE TakeReload
  <2>1. PICK r : /\ r.op = "reload" /\ executors' = executors /\ killers' = killers /\ service = Polling
                 /\ service' = [pc |-> "acquire", conn |-> NoConn, request |-> r]
    BY <1>9 DEF TakeReload, TakeRequest
  <2> QED
    BY <1>3, <2>1 DEF Alive, Reverting, Polling
<1>10. CASE TakeRevert
  <2>1. PICK r : /\ r.op = "revert" /\ executors' = KillExecutor(r.uid) /\ killers' = killers
                 /\ service = Polling /\ r \in NamedRequests
                 /\ service' = [pc |-> "acquire", conn |-> NoConn, request |-> r]
    BY <1>1, <1>10 DEF TakeRevert, TakeRequest, ServiceInv
  <2>2. Alive
    BY <2>1 DEF Alive, Polling
  <2>3. ASSUME RevertsAlone, NEW e \in executors' PROVE e.kill
    <3>1. e.uid = r.uid
      BY <1>1, <2>1, <2>3, OneIndexer, KilledAreTyped DEF NamedRequests
    <3> QED
      BY <1>6, <2>1, <2>2, <2>3, <3>1
  <2> QED
    BY <1>1, <2>3 DEF ControlInv, Controllable, RevertKilledFirst
<1>11. CASE FindIndexer
  <2>1. /\ executors' = executors /\ killers' = killers /\ Serving("reload")
        /\ service' = Polling \/ service'.pc = "load"
    BY <1>11 DEF FindIndexer
  <2> QED
    BY <1>3, <2>1 DEF Serving, Alive, Reverting, Polling
<1>12. CASE LoadAssets
  <2>1. CASE ~ServiceDies
    <3>1. /\ executors' = executors /\ killers' = killers /\ service.pc = "load"
          /\ service'.pc = "create" /\ service'.op = "reload"
      BY <1>12, <2>1 DEF LoadAssets
    <3> QED
      BY <1>3, <3>1 DEF Alive, Reverting
  <2> QED
    BY <1>2, <2>1
<1>13. CASE RevertAssets \/ RemoveFails
  <2>1. CASE ~ServiceDies
    <3>1. /\ executors' = executors /\ killers' = killers /\ Serving("revert")
          /\ service'.pc = "create" /\ service'.op = "revert"
      BY <1>13, <2>1 DEF RevertAssets, RemoveFails, Reverted
    <3> QED
      BY <1>3, <3>1 DEF Serving, Alive, Reverting
  <2> QED
    BY <1>2, <2>1
<1>14. CASE CreateExecutor
  <2> DEFINE u == service.uid
             n == spawned[u] + 1
             new == [uid |-> u, n |-> n, wasm |-> service.wasm, kill |-> FALSE]
  <2>1. u \in Uid /\ u \in Named /\ service.pc = "create" /\ service.op \in {"reload", "revert"}
    BY <1>1, <1>14, ServiceShape DEF CreateExecutor
  <2>2. /\ executors' = (IF service.op = "reload" THEN KillExecutor(u) ELSE executors) \cup {new}
        /\ killers' = [killers EXCEPT ![u] = n] /\ service' = Polling
    BY <1>14 DEF CreateExecutor
  <2>3. Alive /\ ~Reverting'
    BY <2>1, <2>2 DEF Alive, Reverting, Polling
  <2>4. new.uid = u /\ new.n = n /\ killers'[u] = n /\ \A v \in Uid : v # u => killers'[v] = killers[v]
    BY <1>1, <2>1, <2>2 DEF ExecutorInv
  <2>5. ASSUME RevertsAlone, NEW e \in executors', ~e.kill PROVE killers'[e.uid] = e.n
    <3>1. CASE e = new
      BY <2>4, <3>1
    <3>2. CASE e # new /\ service.op = "reload"
      <4>1. e \in KillExecutor(u)
        BY <2>2, <3>2
      <4>2. e.uid # u /\ e.uid \in Uid /\ killers[e.uid] = e.n
        BY <1>1, <1>6, <1>7, <2>3, <2>5, <4>1, KilledAreTyped
      <4> QED
        BY <2>4, <4>2
    <3>3. CASE e # new /\ service.op = "revert"
      BY <2>1, <2>2, <2>5, <3>3 DEF ControlInv, RevertKilledFirst, Reverting
    <3> QED
      BY <2>1, <3>1, <3>2, <3>3
  <2> HIDE DEF new
  <2> QED
    BY <1>1, <2>3, <2>5 DEF ControlInv, Controllable, RevertKilledFirst
<1>15. CASE ServiceTimesOut \/ CreateFails
  BY <1>2, <1>15 DEF ServiceTimesOut, CreateFails
<1>16. CASE Restart
  <2>1. service' \in {Polling, Down} /\ \A e \in executors' : killers'[e.uid] = e.n
    <3>1. PICK created \in BOOLEAN :
            LET starts == created /\ \A u \in Registered, t \in Table : AssetRows(u, t) # {}
                new == IF starts THEN Registered ELSE {}
            IN  /\ service' = IF starts THEN Polling ELSE Down
                /\ executors' = {[uid |-> u, n |-> 1, kill |-> FALSE,
                                  wasm |-> Newest(AssetRows(u, "wasm")).bytes] : u \in new}
                /\ killers' = [u \in Uid |-> IF u \in new THEN 1 ELSE 0]
      BY <1>16 DEF Restart
    <3>2. CASE created /\ \A u \in Registered, t \in Table : AssetRows(u, t) # {}
      <4>1. ASSUME NEW e \in executors' PROVE killers'[e.uid] = e.n
        <5>1. PICK u \in Registered : e = [uid |-> u, n |-> 1, kill |-> FALSE,
                                           wasm |-> Newest(AssetRows(u, "wasm")).bytes]
          BY <3>1, <3>2
        <5>2. killers' = [v \in Uid |-> IF v \in Registered THEN 1 ELSE 0]
          BY <3>1, <3>2
        <5> QED
          BY <5>1, <5>2 DEF Registered
      <4> QED
        BY <3>1, <3>2, <4>1
    <3>3. CASE ~(created /\ \A u \in Registered, t \in Table : AssetRows(u, t) # {})
      <4>1. executors' = {}
        BY <3>1, <3>3
      <4> QED
        BY <3>1, <3>3, <4>1
    <3> QED
      BY <3>2, <3>3
  <2> QED
    BY <2>1 DEF ControlInv, Controllable, RevertKilledFirst, Reverting, Polling, Down
<1>17. ASSUME NEW cl \in Client, Disconnect(cl) \/ SchemaFails(cl) \/ AcquireTimesOut(cl) PROVE ControlInv'
  BY <1>4, <1>17 DEF Disconnect, SchemaFails, AcquireTimesOut, serviceVars
<1>18. CASE ExecutorEnds \/ ExecutorStops \/ ReapConnection \/ UNCHANGED vars
  BY <1>4, <1>18 DEF ExecutorEnds, ExecutorStops, ReapConnection, vars, serviceVars
<1> QED
  BY <1>5, <1>8, <1>9, <1>10, <1>11, <1>12, <1>13, <1>14, <1>15, <1>16, <1>17, <1>18
  DEF Next, ServiceStep, Failure

(* While the service task lives, every executor that was not told to stop   *)
(* is the one that its indexer's kill switch reaches.                       *)
THEOREM ExecutorsControllable == Spec => []Controllable
<1>1. Init => Inv /\ ControlInv
  <2>1. Init => ControlInv
    BY DEF Init, ControlInv, Controllable, RevertKilledFirst
  <2> QED
    BY <2>1, InvInit
<1>2. Inv /\ ControlInv /\ [Next]_vars => Inv' /\ ControlInv'
  BY InvNext, ControlNext
<1>3. ControlInv => Controllable
  BY DEF ControlInv
<1> QED
  BY <1>1, <1>2, <1>3, PTL DEF Spec

=============================================================================

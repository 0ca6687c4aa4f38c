---------------------- MODULE IndexerServiceNews_proofs ----------------------
(* Proofs about IndexerService: what the registry commits reaches the       *)
(* executors, unless the news of it is lost.                                *)
EXTENDS IndexerService_proofs

-----------------------------------------------------------------------------
(* Who writes to the registry.                                              *)

(* A connection is in one hand at a time.                                   *)
Exclusive ==
    \A cl \in Client : call[cl].conn # NoConn =>
        /\ call[cl].conn # service.conn
        /\ \A other \in Client \ {cl} : call[other].conn # call[cl].conn

(* A deploy of u is in its transaction on c.                                *)
Deploying(c, u) ==
    \E cl \in Client : /\ call[cl].pc \in {"assets", "insert"}
                       /\ call[cl].conn = c /\ call[cl].uid = u

DeploysAreOpen ==
    \A cl \in Client : call[cl].pc \in {"assets", "insert"} => session[call[cl].conn] = "open"

(* What is pending for u on c was written by a deploy that is under way or  *)
(* by one whose client went away.                                           *)
Known(c, u) == u \in missed \/ Deploying(c, u)

(* No two indexers have one id, whether committed or pending.               *)
IdsAreKeys ==
    /\ nextId["index"] > 0
    /\ \A u \in Uid : ids[u] < nextId["index"]
    /\ \A u, v \in Uid : ids[u] # 0 /\ ids[u] = ids[v] => u = v
    /\ \A c \in Conn, u \in Uid : pending[c].ids[u] # 0 =>
          /\ pending[c].ids[u] < nextId["index"]
          /\ ids[u] = 0
          /\ session[c] = "open"
          /\ Known(c, u)
          /\ \A v \in Uid : ids[v] # pending[c].ids[u]
          /\ \A d \in Conn, v \in Uid : pending[d].ids[v] = pending[c].ids[u] => d = c /\ v = u
          /\ \A d \in Conn \ {c} : pending[d].ids[u] = 0

(* Committed rows are those of a registered indexer, named by its manifest. *)
RowsHaveIndexers ==
    \A a \in assets :
        /\ a.index # 0
        /\ \E u \in Uid : ids[u] = a.index /\ (a.table = "manifest" => a.bytes = u)

(* Pending rows too, unless their indexer was removed meanwhile.            *)
PendingRows ==
    \A c \in Conn : \A a \in pending[c].assets :
        /\ a.index # 0 /\ a.index < nextId["index"]
        /\ a.table = "manifest" => Known(c, a.bytes)
        /\ \A u \in Uid : IndexId(c, u) = a.index =>
              Known(c, u) /\ (a.table = "manifest" => a.bytes = u)
        /\ \A d \in Conn \ {c}, u \in Uid : pending[d].ids[u] # a.index

KeysInv == IdsAreKeys /\ RowsHaveIndexers /\ PendingRows

HandsInv == Exclusive /\ DeploysAreOpen

(* A session that writes nothing, or that forgets what it wrote.            *)
LEMMA SessionsForget ==
    ASSUME RegistryInv, KeysInv, UNCHANGED <<ids, assets, nextId>>,
           \A c \in Conn :
               \/ pending'[c] = NoWrites
               \/ /\ pending'[c] = pending[c] /\ (session[c] = "open" => session'[c] = "open")
                  /\ \A u : Known(c, u) => Known(c, u)'
    PROVE  KeysInv'
<1>1. \A u : NoWrites.ids[u] = 0 \/ u \notin Uid
  BY DEF NoWrites
<1>2. NoWrites.assets = {}
  BY DEF NoWrites
<1>3. IdsAreKeys'
  BY <1>1 DEF KeysInv, IdsAreKeys
<1>4. RowsHaveIndexers'
  BY DEF KeysInv, RowsHaveIndexers
<1>5. PendingRows'
  <2> SUFFICES ASSUME NEW c \in Conn, NEW a \in pending'[c].assets
               PROVE  /\ a.index # 0 /\ a.index < nextId'["index"]
                      /\ a.table = "manifest" => Known(c, a.bytes)'
                      /\ \A u \in Uid : IndexId(c, u)' = a.index =>
                            Known(c, u)' /\ (a.table = "manifest" => a.bytes = u)
                      /\ \A d \in Conn \ {c}, u \in Uid : pending'[d].ids[u] # a.index
    BY DEF PendingRows
  <2>1. pending'[c] = pending[c] /\ \A u : Known(c, u) => Known(c, u)'
    BY <1>2
  <2>2. \A u : IndexId(c, u)' = IndexId(c, u)
    BY <2>1 DEF IndexId
  <2>3. \A d \in Conn \ {c}, u \in Uid : pending'[d].ids[u] # a.index
    BY <1>1, <2>1 DEF KeysInv, PendingRows
  <2> QED
    BY <2>1, <2>2, <2>3 DEF KeysInv, PendingRows
<1> QED
  BY <1>3, <1>4, <1>5 DEF KeysInv

(* A handler that goes on keeps what is known of the other sessions.        *)
LEMMA KnownStays ==
    ASSUME CallInv, NEW cl \in Client, NEW x, call' = [call EXCEPT ![cl] = x],
           missed \subseteq missed', NEW c, NEW u, Known(c, u),
           \/ call[cl].pc \notin {"assets", "insert"}
           \/ call[cl].conn # c
           \/ call[cl].uid \in missed'
           \/ x.pc \in {"assets", "insert"} /\ x.conn = call[cl].conn /\ x.uid = call[cl].uid
    PROVE  Known(c, u)'
<1>1. /\ call \in [Client -> CallState] /\ call'[cl] = x
      /\ \A other \in Client \ {cl} : call'[other] = call[other]
  BY DEF CallInv
<1>2. CASE u \in missed
  BY <1>2 DEF Known
<1>3. ASSUME NEW k \in Client, call[k].pc \in {"assets", "insert"}, call[k].conn = c, call[k].uid = u
      PROVE  Known(c, u)'
  <2>1. CASE k = cl
    BY <1>1, <1>3, <2>1 DEF Known, Deploying
  <2>2. CASE k # cl
    BY <1>1, <1>3, <2>2 DEF Known, Deploying
  <2> QED
    BY <2>1, <2>2
<1> QED
  BY <1>2, <1>3 DEF Known, Deploying

-----------------------------------------------------------------------------
(* Statements that write.                                                   *)

(* register_index: the next id is nobody's yet.                             *)
LEMMA InsertedIdIsNew ==
    ASSUME RegistryInv, KeysInv, NEW c \in Conn, NEW u \in Uid, ids[u] = 0,
           session[c] = "open", Deploying(c, u), ~InsertWaits(c, u), InsertIndex(c, u),
           \A d \in Conn : \A v : Known(d, v) => Known(d, v)'
    PROVE  KeysInv'
<1> DEFINE n == nextId["index"]
<1>1. n \in Nat /\ n > 0 /\ nextId' = [nextId EXCEPT !["index"] = n + 1] /\ nextId'["index"] = n + 1
      /\ UNCHANGED <<ids, assets, session>>
  BY DEF RegistryInv, RegistryTypeOK, KeysInv, IdsAreKeys, InsertIndex
<1>2. \A d \in Conn : pending[d] \in Writes /\ pending[d].ids \in [Uid -> Nat]
  BY DEF RegistryInv, RegistryTypeOK, Writes
<1>3. /\ pending'[c].ids[u] = n
      /\ \A d \in Conn : pending'[d].assets = pending[d].assets
      /\ \A d \in Conn, v \in Uid : d # c \/ v # u => pending'[d].ids[v] = pending[d].ids[v]
  BY <1>2 DEF RegistryInv, RegistryTypeOK, InsertIndex
<1>4. \A d \in Conn \ {c} : pending[d].ids[u] = 0
  BY <1>2 DEF InsertWaits, KeysInv, IdsAreKeys
<1>5. /\ \A d \in Conn, v \in Uid : pending[d].ids[v] # n /\ pending[d].ids[v] < n /\ pending[d].ids[v] \in Nat
      /\ \A v \in Uid : ids[v] \in Nat /\ ids[v] < n
  <2>1. \A d \in Conn, v \in Uid : pending[d].ids[v] \in Nat
    BY <1>2
  <2>2. \A v \in Uid : ids[v] \in Nat
    BY DEF RegistryInv, RegistryTypeOK
  <2> QED
    BY <1>1, <2>1, <2>2 DEF KeysInv, IdsAreKeys
<1> HIDE DEF n
<1>6. IdsAreKeys'
  <2>1. ASSUME NEW d \in Conn, NEW v \in Uid, pending'[d].ids[v] # 0
        PROVE  /\ pending'[d].ids[v] < n + 1
               /\ ids[v] = 0
               /\ session[d] = "open"
               /\ Known(d, v)'
               /\ \A w \in Uid : ids[w] # pending'[d].ids[v]
               /\ \A e \in Conn, w \in Uid : pending'[e].ids[w] = pending'[d].ids[v] => e = d /\ w = v
               /\ \A e \in Conn \ {d} : pending'[e].ids[v] = 0
    <3>1. CASE d = c /\ v = u
      BY <1>1, <1>3, <1>4, <1>5, <3>1 DEF Known
    <3>2. CASE ~(d = c /\ v = u)
      <4>1. pending'[d].ids[v] = pending[d].ids[v]
        BY <1>3, <3>2
      <4>2. v # u
        BY <1>4, <2>1, <3>2, <4>1
      <4>3. \A e \in Conn \ {d} : pending'[e].ids[v] = 0
        BY <1>3, <2>1, <4>1, <4>2 DEF KeysInv, IdsAreKeys
      <4>4. \A e \in Conn, w \in Uid : pending'[e].ids[w] = pending'[d].ids[v] => e = d /\ w = v
        BY <1>3, <1>5, <2>1, <4>1 DEF KeysInv, IdsAreKeys
      <4> QED
        BY <1>1, <1>5, <2>1, <4>1, <4>3, <4>4 DEF KeysInv, IdsAreKeys
    <3> QED
      BY <3>1, <3>2
  <2>2. \A v \in Uid : ids[v] < n + 1
    BY <1>1, <1>5
  <2>3. \A v, w \in Uid : ids[v] # 0 /\ ids[v] = ids[w] => v = w
    BY DEF KeysInv, IdsAreKeys
  <2> QED
    BY <1>1, <2>1, <2>2, <2>3 DEF IdsAreKeys
<1>7. RowsHaveIndexers'
  BY <1>1 DEF KeysInv, RowsHaveIndexers
<1>8. PendingRows'
  <2> SUFFICES ASSUME NEW d \in Conn, NEW a \in pending[d].assets
               PROVE  /\ a.index # 0 /\ a.index < n + 1
                      /\ a.table = "manifest" => Known(d, a.bytes)'
                      /\ \A v \in Uid : IndexId(d, v)' = a.index =>
                            Known(d, v)' /\ (a.table = "manifest" => a.bytes = v)
                      /\ \A e \in Conn \ {d}, v \in Uid : pending'[e].ids[v] # a.index
    BY <1>1, <1>3 DEF PendingRows
  <2>1. a.index # 0 /\ a.index < n /\ a.index \in Nat
    BY DEF KeysInv, PendingRows, n, RegistryInv, GoodRows, GoodRow, Asset
  <2>2. ASSUME NEW v \in Uid, IndexId(d, v)' = a.index PROVE IndexId(d, v) = a.index
    BY <1>1, <1>3, <1>5, <2>1, <2>2 DEF IndexId
  <2>3. \A e \in Conn \ {d}, v \in Uid : pending'[e].ids[v] # a.index
    BY <1>3, <2>1 DEF KeysInv, PendingRows
  <2> QED
    BY <1>1, <2>1, <2>2, <2>3 DEF KeysInv, PendingRows
<1> QED
  BY <1>6, <1>7, <1>8 DEF KeysInv

(* register_index_asset: a row of the indexer that is deployed.             *)
LEMMA RegisteredRowIsKnown ==
    ASSUME RegistryInv, KeysInv, NEW c \in Conn, NEW u \in Uid, NEW t \in Table, NEW bytes,
           IndexId(c, u) # 0, Deploying(c, u), t = "manifest" => bytes = u,
           RegisterIndexAsset(c, u, t, bytes),
           \A d \in Conn : \A v : Known(d, v) => Known(d, v)'
    PROVE  KeysInv'
<1> DEFINE i   == IndexId(c, u)
           new == [table |-> t, id |-> nextId[t], index |-> i,
                   version |-> Cardinality(AssetsOf(c, t, i)) + 1, bytes |-> bytes]
<1>1. UNCHANGED <<ids, assets, session>>
  BY DEF RegisterIndexAsset
<1>2. CASE UNCHANGED <<pending, nextId>>
  BY <1>1, <1>2, SessionsForget
<1>3. CASE /\ pending' = [pending EXCEPT ![c].assets = @ \cup {new}]
           /\ nextId' = [nextId EXCEPT ![t] = @ + 1]
  <2>1. nextId'["index"] = nextId["index"]
    BY <1>3 DEF RegistryInv, RegistryTypeOK, Table
  <2>2. /\ \A d \in Conn : pending'[d].ids = pending[d].ids
        /\ \A d \in Conn \ {c} : pending'[d].assets = pending[d].assets
        /\ pending'[c].assets = pending[c].assets \cup {new}
    BY <1>3 DEF RegistryInv, RegistryTypeOK, Writes
  <2>3. \A d \in Conn : \A v : IndexId(d, v)' = IndexId(d, v)
    BY <1>1, <2>2 DEF IndexId
  <2>4. IdsAreKeys' /\ RowsHaveIndexers'
    BY <1>1, <2>1, <2>2 DEF KeysInv, IdsAreKeys, RowsHaveIndexers
  <2>5. i < nextId["index"] /\ \A v \in Uid : IndexId(c, v) = i => v = u
    BY DEF IndexId, KeysInv, IdsAreKeys
  <2>6. \A d \in Conn \ {c}, v \in Uid : pending[d].ids[v] # i
    BY DEF IndexId, KeysInv, IdsAreKeys
  <2>7. new.index = i /\ new.table = t /\ new.bytes = bytes
    OBVIOUS
  <2> HIDE DEF i, new
  <2>8. ASSUME NEW d \in Conn, NEW a \in pending'[d].assets
        PROVE  /\ a.index # 0 /\ a.index < nextId["index"]
               /\ a.table = "manifest" => Known(d, a.bytes)
               /\ \A v \in Uid : IndexId(d, v) = a.index =>
                     Known(d, v) /\ (a.table = "manifest" => a.bytes = v)
               /\ \A e \in Conn \ {d}, v \in Uid : pending[e].ids[v] # a.index
    <3>1. CASE a \in pending[d].assets
      BY <3>1 DEF KeysInv, PendingRows
    <3>2. CASE d = c /\ a = new
      BY <2>5, <2>6, <2>7, <3>2 DEF Known, i
    <3> QED
      BY <2>2, <2>8, <3>1, <3>2
  <2>9. PendingRows'
    BY <2>1, <2>2, <2>3, <2>8 DEF PendingRows
  <2> QED
    BY <2>4, <2>9 DEF KeysInv
<1> QED
  BY <1>2, <1>3 DEF RegisterIndexAsset

(* COMMIT: what was pending on c is what it looked like from there.         *)
LEMMA CommittedKeysHold ==
    ASSUME RegistryInv, RegistryInv', KeysInv, NEW c \in Conn, NEW gone, NEW goneId, CommitOn(c, gone, goneId),
           \A d \in Conn \ {c} : \A u : Known(d, u) => Known(d, u)'
    PROVE  KeysInv'
<1>1. /\ nextId' = nextId /\ KeysHold(c, goneId)
      /\ \A u \in Uid : ids'[u] = IF IndexId(c, u) = goneId THEN 0 ELSE IndexId(c, u)
      /\ assets' = {a \in assets \cup pending[c].assets : a \notin gone /\ a.index # goneId}
      /\ pending'[c] = NoWrites /\ \A d \in Conn \ {c} : pending'[d] = pending[d] /\ session'[d] = session[d]
  BY DEF CommitOn, CommittedIds, CommittedAssets, RegistryInv, RegistryTypeOK
<1>2. NoWrites.assets = {} /\ \A u \in Uid : NoWrites.ids[u] = 0
  BY DEF NoWrites
<1>3. \A u \in Uid : /\ IndexId(c, u) < nextId["index"]
                     /\ pending[c].ids[u] # 0 => ids[u] = 0
                     /\ ids'[u] # 0 => ids'[u] = IndexId(c, u) /\ ids'[u] # goneId
  BY <1>1 DEF IndexId, KeysInv, IdsAreKeys
<1>4. \A u, v \in Uid : IndexId(c, u) # 0 /\ IndexId(c, u) = IndexId(c, v) => u = v
  BY DEF IndexId, KeysInv, IdsAreKeys
<1>5. IdsAreKeys'
  <2>1. ASSUME NEW d \in Conn, NEW u \in Uid, pending'[d].ids[u] # 0
        PROVE  /\ pending'[d].ids[u] < nextId["index"]
               /\ ids'[u] = 0
               /\ session'[d] = "open"
               /\ Known(d, u)'
               /\ \A v \in Uid : ids'[v] # pending'[d].ids[u]
               /\ \A e \in Conn, v \in Uid : pending'[e].ids[v] = pending'[d].ids[u] => e = d /\ v = u
               /\ \A e \in Conn \ {d} : pending'[e].ids[u] = 0
    <3>1. d # c /\ pending'[d] = pending[d] /\ session'[d] = session[d]
      BY <1>1, <1>2, <2>1
    <3>2. pending[d].ids[u] # 0 /\ pending[c].ids[u] = 0 /\ ids[u] = 0
      BY <2>1, <3>1 DEF KeysInv, IdsAreKeys
    <3>3. ids'[u] = 0
      BY <1>1, <3>2 DEF IndexId
    <3>4. \A v \in Uid : IndexId(c, v) # pending[d].ids[u]
      BY <3>1, <3>2 DEF IndexId, KeysInv, IdsAreKeys
    <3>5. \A v \in Uid : ids'[v] # pending'[d].ids[u]
      BY <1>3, <3>1, <3>2, <3>4
    <3>6. \A e \in Conn, v \in Uid : pending'[e].ids[v] = pending'[d].ids[u] => e = d /\ v = u
      BY <1>1, <1>2, <3>1, <3>2 DEF KeysInv, IdsAreKeys
    <3>7. \A e \in Conn \ {d} : pending'[e].ids[u] = 0
      BY <1>1, <1>2, <3>1, <3>2 DEF KeysInv, IdsAreKeys
    <3> QED
      BY <3>1, <3>2, <3>3, <3>5, <3>6, <3>7 DEF KeysInv, IdsAreKeys
  <2>2. \A u \in Uid : ids'[u] < nextId["index"]
    BY <1>3, <1>1 DEF KeysInv, IdsAreKeys
  <2>3. \A u, v \in Uid : ids'[u] # 0 /\ ids'[u] = ids'[v] => u = v
    BY <1>3, <1>4
  <2> QED
    BY <1>1, <2>1, <2>2, <2>3 DEF IdsAreKeys, KeysInv
<1>6. RowsHaveIndexers'
  <2> SUFFICES ASSUME NEW a \in assets'
               PROVE  a.index # 0 /\ \E u \in Uid : ids'[u] = a.index /\ (a.table = "manifest" => a.bytes = u)
    BY DEF RowsHaveIndexers
  <2>1. a.index # goneId
    BY <1>1
  <2>2. CASE a \in assets
    <3>1. PICK u \in Uid : ids[u] = a.index /\ (a.table = "manifest" => a.bytes = u)
      BY <2>2 DEF KeysInv, RowsHaveIndexers
    <3>2. a.index # 0
      BY <2>2 DEF KeysInv, RowsHaveIndexers
    <3>3. IndexId(c, u) = a.index
      BY <1>3, <3>1, <3>2 DEF IndexId
    <3> QED
      BY <1>1, <2>1, <3>1, <3>2, <3>3
  <2>3. CASE a \in pending[c].assets
    <3>1. a.index # 0
      BY <2>3 DEF KeysInv, PendingRows
    <3>2. PICK u \in Uid : CommittedIds(c, goneId)[u] = a.index
      BY <1>1, <2>1, <2>3 DEF KeysHold
    <3>3. IndexId(c, u) = a.index /\ ids'[u] = a.index
      BY <1>1, <3>1, <3>2 DEF CommittedIds
    <3> QED
      BY <2>3, <3>1, <3>3 DEF KeysInv, PendingRows
  <2> QED
    BY <1>1, <2>2, <2>3
<1>7. PendingRows'
  <2> SUFFICES ASSUME NEW d \in Conn, NEW a \in pending'[d].assets
               PROVE  /\ a.index # 0 /\ a.index < nextId["index"]
                      /\ a.table = "manifest" => Known(d, a.bytes)'
                      /\ \A u \in Uid : IndexId(d, u)' = a.index =>
                            Known(d, u)' /\ (a.table = "manifest" => a.bytes = u)
                      /\ \A e \in Conn \ {d}, u \in Uid : pending'[e].ids[u] # a.index
    BY <1>1 DEF PendingRows
  <2>1. d # c /\ pending'[d] = pending[d] /\ \A u : Known(d, u) => Known(d, u)'
    BY <1>1, <1>2
  <2>2. a.index # 0 /\ \A e \in Conn \ {d}, u \in Uid : pending[e].ids[u] # a.index
    BY <2>1 DEF KeysInv, PendingRows
  <2>3. ASSUME NEW u \in Uid, IndexId(d, u)' = a.index PROVE IndexId(d, u) = a.index
    <3>1. CASE pending[d].ids[u] # 0
      BY <2>1, <2>3, <3>1 DEF IndexId
    <3>2. CASE pending[d].ids[u] = 0
      <4>1. ids'[u] = a.index /\ IndexId(c, u) = a.index
        BY <1>3, <2>1, <2>2, <2>3, <3>2 DEF IndexId
      <4>2. ids[u] = a.index
        BY <2>1, <2>2, <4>1 DEF IndexId
      <4> QED
        BY <3>2, <4>2 DEF IndexId
    <3> QED
      BY <3>1, <3>2
  <2>4. \A e \in Conn \ {d}, u \in Uid : pending'[e].ids[u] # a.index
    BY <1>1, <1>2, <2>2
  <2> QED
    BY <2>1, <2>2, <2>3, <2>4 DEF KeysInv, PendingRows
<1> QED
  BY <1>5, <1>6, <1>7 DEF KeysInv

(* A commit changes what readers see of an indexer only if somebody knows.  *)
LEMMA CommitIsKnown ==
    ASSUME RegistryInv, KeysInv, NEW c \in Conn, NEW goneId, CommitOn(c, {}, goneId),
           NEW u \in Uid, ids'[u] # 0, ~Known(c, u), NEW t
    PROVE  ids'[u] = ids[u] /\ AssetRows(u, t)' = AssetRows(u, t)
<1>1. /\ ids'[u] = IndexId(c, u) /\ ids'[u] # goneId
      /\ assets' = {a \in assets \cup pending[c].assets : a.index # goneId}
  BY DEF CommitOn, CommittedIds, CommittedAssets
<1>2. pending[c].ids[u] = 0
  BY DEF KeysInv, IdsAreKeys
<1>3. ids'[u] = ids[u]
  BY <1>1, <1>2 DEF IndexId
<1>4. \A a \in pending[c].assets : a.index # ids[u]
  BY <1>2, <1>3 DEF KeysInv, PendingRows, IndexId
<1>5. \A a : a \in AssetRows(u, t)' <=> a \in AssetRows(u, t)
  BY <1>1, <1>3, <1>4 DEF AssetRows
<1> QED
  BY <1>3, <1>5 DEF AssetRows

(* Only the indexer with the id that is deleted is gone after a commit.     *)
LEMMA CommitRemovesOne ==
    ASSUME KeysInv, NEW c \in Conn, NEW gone, NEW goneId, CommitOn(c, gone, goneId),
           NEW u \in Uid, ids[u] # 0, ids'[u] = 0
    PROVE  IndexId(c, u) = goneId /\ goneId # 0
  BY DEF CommitOn, CommittedIds, IndexId, KeysInv, IdsAreKeys

-----------------------------------------------------------------------------
(* Every step keeps the connections apart and the keys in order.            *)

(* A handler goes on: it takes a connection that nobody has, keeps its own  *)
(* or returns it, and no other handler's session changes.                   *)
LEMMA HandlerMoves ==
    ASSUME Inv, HandsInv, NEW cl \in Client, NEW x, call' = [call EXCEPT ![cl] = x],
           service'.conn = service.conn,
           x.conn \in {NoConn, call[cl].conn} \/ x.conn \notin Held,
           \A c \in Conn : session'[c] = session[c] \/ c \notin Held \/ c = call[cl].conn,
           x.pc \in {"assets", "insert"} => session'[x.conn] = "open"
    PROVE  HandsInv'
<1>1. /\ call \in [Client -> CallState] /\ call'[cl] = x
      /\ \A k \in Client \ {cl} : call'[k] = call[k]
  BY DEF Inv, CallInv
<1>2. \A k \in Client : call[k].conn \in Held
  BY DEF Held
<1>3. service.conn \in Held
  BY DEF Held
<1>4. Exclusive'
  BY <1>1, <1>2, <1>3 DEF HandsInv, Exclusive
<1>5. ASSUME NEW k \in Client, call'[k].pc \in {"assets", "insert"} PROVE session'[call'[k].conn] = "open"
  <2>1. CASE k = cl
    BY <1>1, <1>5, <2>1
  <2>2. CASE k # cl
    <3>1. call[k].pc \in {"assets", "insert"} /\ call[k].conn \in Conn /\ call[k].conn # NoConn
      BY <1>1, <1>5, <2>2, CallShape, ServiceAssumption DEF Inv
    <3>2. call[k].conn # call[cl].conn
      BY <2>2, <3>1 DEF HandsInv, Exclusive
    <3>3. session'[call[k].conn] = session[call[k].conn]
      BY <1>2, <3>1, <3>2
    <3> QED
      BY <1>1, <2>2, <3>1, <3>3 DEF HandsInv, DeploysAreOpen
  <2> QED
    BY <2>1, <2>2
<1> QED
  BY <1>4, <1>5 DEF HandsInv, DeploysAreOpen

(* The service goes on, or the pool closes what is idle.                    *)
LEMMA ServiceMoves ==
    ASSUME Inv, HandsInv, call' = call,
           service'.conn \in {NoConn, service.conn} \/ service'.conn \notin Held,
           \A c \in Conn : session'[c] = session[c] \/ c \notin Held \/ c = service.conn
    PROVE  HandsInv'
<1>1. \A k \in Client : call[k].conn \in Held
  BY DEF Held
<1>2. Exclusive'
  BY <1>1 DEF HandsInv, Exclusive
<1>3. ASSUME NEW k \in Client, call[k].pc \in {"assets", "insert"} PROVE session'[call[k].conn] = "open"
  <2>1. call[k].conn \in Conn /\ call[k].conn # NoConn
    BY <1>3, CallShape, ServiceAssumption DEF Inv
  <2>2. call[k].conn # service.conn
    BY <2>1 DEF HandsInv, Exclusive
  <2> QED
    BY <1>1, <1>3, <2>1, <2>2 DEF HandsInv, DeploysAreOpen
<1> QED
  BY <1>2, <1>3 DEF HandsInv, DeploysAreOpen

(* Statements of a session change that session only.                        *)
LEMMA OneSession ==
    ASSUME RegistryInv, NEW c \in Conn, NEW d \in Conn, d # c
    PROVE  /\ BeginOn(c) => session'[d] = session[d]
           /\ OpenOn(c) => session'[d] = session[d]
           /\ AbortOn(c) => session'[d] = session[d]
           /\ RollbackOn(c) => session'[d] = session[d]
           /\ \A gone, goneId : CommitOn(c, gone, goneId) => session'[d] = session[d]
           /\ CloseOn({c}) => session'[d] = session[d]
  BY DEF RegistryInv, RegistryTypeOK, BeginOn, OpenOn, AbortOn, RollbackOn, CommitOn, CloseOn

(* A step of a client's handler keeps the connections apart.                *)
LEMMA ClientHands ==
    ASSUME Inv, HandsInv, NEW cl \in Client, Call(cl) \/ ClientStep(cl)
    PROVE  HandsInv'
<1>1. RegistryInv /\ CallInv /\ BoundsInv /\ call \in [Client -> CallState] /\ NoCall.conn = NoConn
      /\ NoCall.pc = "idle"
  BY DEF Inv, CallInv, NoCall
<1>2. ASSUME Return(cl), service'.conn = service.conn,
             \A c \in Conn : session'[c] = session[c] \/ c \notin Held \/ c = call[cl].conn
      PROVE  HandsInv'
  BY <1>1, <1>2, HandlerMoves DEF Return
<1>3. \A c \in Conn : Acquirable(c) => c \notin Held
  BY DEF Acquirable
<1>4. CASE Call(cl)
  <2>1. PICK x : x.conn = NoConn /\ x.pc = "acquire" /\ call' = [call EXCEPT ![cl] = x]
    BY <1>4 DEF Call
  <2> QED
    BY <1>4, <2>1, HandlerMoves DEF Call, registryVars, serviceVars
<1>5. CASE Refused(cl) \/ Send(cl)
  BY <1>2, <1>5 DEF Refused, Send, registryVars, serviceVars
<1>6. CASE BeginDeploy(cl)
  <2>1. PICK c \in Conn : /\ Acquirable(c) /\ session' = [session EXCEPT ![c] = "open"]
                          /\ call' = [call EXCEPT ![cl] =
                                [pc |-> "assets", op |-> "deploy", uid |-> call[cl].uid,
                                 wasm |-> call[cl].wasm, conn |-> c, done |-> 0]]
    BY <1>6 DEF BeginDeploy
  <2>2. session'[c] = "open" /\ \A d \in Conn : d # c => session'[d] = session[d]
    BY <1>1, <2>1 DEF RegistryInv, RegistryTypeOK
  <2> PICK x : x = [pc |-> "assets", op |-> "deploy", uid |-> call[cl].uid,
                    wasm |-> call[cl].wasm, conn |-> c, done |-> 0]
    OBVIOUS
  <2>3. x.conn = c /\ call' = [call EXCEPT ![cl] = x] /\ service' = service /\ c \notin Held
    BY <1>3, <1>6, <2>1 DEF BeginDeploy, serviceVars
  <2> QED
    BY <2>2, <2>3, HandlerMoves
<1>7. ASSUME call[cl].pc \in {"assets", "insert"}, NEW x, call' = [call EXCEPT ![cl] = x],
             x.conn = call[cl].conn, service' = service,
             \/ session' = session
             \/ x.pc = "send" /\ \E gone, goneId : CommitOn(call[cl].conn, gone, goneId)
      PROVE  HandsInv'
  <2>1. call[cl].conn \in Conn /\ session[call[cl].conn] = "open"
    BY <1>1, <1>7, CallShape DEF HandsInv, DeploysAreOpen
  <2> QED
    BY <1>1, <1>7, <2>1, HandlerMoves, OneSession
<1>8. CASE RegisterAsset(cl)
  <2>1. call[cl].pc = "assets" /\ session' = session /\ service' = service /\ call[cl] \in CallState
    BY <1>1, <1>8 DEF RegisterAsset, RegisterIndexAsset, registryVars, serviceVars
  <2>2. PICK x : x.conn = call[cl].conn /\ call' = [call EXCEPT ![cl] = x]
    <3>1. CASE call' = [call EXCEPT ![cl] = [call[cl] EXCEPT !.done = @ + 1]]
      BY <2>1, <3>1, CallShape, <1>1
    <3>2. CASE call' = [call EXCEPT ![cl] = [call[cl] EXCEPT !.pc = "insert"]]
      BY <2>1, <3>2, CallShape, <1>1
    <3> QED
      BY <1>8, <3>1, <3>2 DEF RegisterAsset, GoTo
  <2> QED
    BY <1>7, <2>1, <2>2
<1>9. CASE InsertIndexer(cl)
  <2>1. call[cl].pc = "insert" /\ service' = service /\ call[cl].conn \in Conn
    BY <1>1, <1>9, CallShape DEF InsertIndexer, serviceVars
  <2>2. CASE InsertIndex(call[cl].conn, call[cl].uid) /\ GoTo(cl, "assets")
    <3>1. PICK x : x = [call[cl] EXCEPT !.pc = "assets"]
      OBVIOUS
    <3>2. x.conn = call[cl].conn
      BY <1>1, <2>1, <3>1, CallShape
    <3> QED
      BY <1>7, <2>1, <2>2, <3>1, <3>2 DEF InsertIndex, GoTo
  <2>3. CASE AbortOn(call[cl].conn) /\ Return(cl)
    BY <1>1, <1>2, <2>1, <2>3, OneSession
  <2> QED
    BY <1>9, <2>2, <2>3 DEF InsertIndexer
<1>10. CASE CommitDeploy(cl)
  <2>1. call[cl].pc = "assets" /\ service' = service /\ call[cl].conn \in Conn
    BY <1>1, <1>10, CallShape DEF CommitDeploy, serviceVars
  <2>2. CASE CommitOn(call[cl].conn, {}, 0) /\ GoTo(cl, "send")
    <3>1. PICK x : x = [call[cl] EXCEPT !.pc = "send"]
      OBVIOUS
    <3>2. x.conn = call[cl].conn /\ x.pc = "send"
      BY <1>1, <2>1, <3>1, CallShape
    <3> QED
      BY <1>7, <2>1, <2>2, <3>1, <3>2 DEF GoTo
  <2>3. CASE RollbackOn(call[cl].conn) /\ Return(cl)
    BY <1>1, <1>2, <2>1, <2>3, OneSession
  <2> QED
    BY <1>10, <2>2, <2>3 DEF CommitDeploy
<1>11. CASE RemoveIndexer(cl)
  <2>1. service' = service
    BY <1>11 DEF RemoveIndexer, serviceVars
  <2>2. PICK c \in Conn :
            /\ c \notin Held
            /\ \/ RollbackOn(c) /\ Return(cl)
               \/ /\ \E goneId : CommitOn(c, {}, goneId)
                  /\ call' = [call EXCEPT ![cl] =
                        [pc |-> "send", op |-> "stop", uid |-> call[cl].uid, conn |-> c]]
    BY <1>3, <1>11 DEF RemoveIndexer
  <2>3. \A d \in Conn : session'[d] = session[d] \/ d \notin Held
    BY <1>1, <2>2, OneSession
  <2> QED
    BY <1>2, <2>1, <2>2, <2>3, HandlerMoves
<1>12. CASE FindPenultimate(cl)
  <2>1. service' = service
    BY <1>12 DEF FindPenultimate, serviceVars
  <2>2. PICK c \in Conn :
            /\ c \notin Held /\ OpenOn(c)
            /\ \/ Return(cl)
               \/ \E x : x.conn = c /\ x.pc = "send" /\ call' = [call EXCEPT ![cl] = x]
    <3>1. PICK c \in Conn :
            /\ Acquirable(c) /\ OpenOn(c)
            /\ \/ Return(cl)
               \/ call' = [call EXCEPT ![cl] =
                         [pc |-> "send", op |-> "revert", uid |-> call[cl].uid, conn |-> c,
                          asset |-> PenultimateAsset(c, "wasm", IndexId(c, call[cl].uid))]]
      BY <1>12 DEF FindPenultimate
    <3>2. \A a : [pc |-> "send", op |-> "revert", uid |-> call[cl].uid, conn |-> c, asset |-> a].conn = c
                 /\ [pc |-> "send", op |-> "revert", uid |-> call[cl].uid, conn |-> c, asset |-> a].pc = "send"
      OBVIOUS
    <3> QED
      BY <1>3, <3>1, <3>2
  <2>3. \A d \in Conn : session'[d] = session[d] \/ d \notin Held
    BY <1>1, <2>2, OneSession
  <2> QED
    BY <1>2, <2>1, <2>2, <2>3, HandlerMoves
<1> QED
  BY <1>4, <1>5, <1>6, <1>8, <1>9, <1>10, <1>11, <1>12 DEF ClientStep

(* No step puts a connection in two hands, or takes a deploy's transaction  *)
(* away from it.                                                            *)
LEMMA HandsNext ==
    ASSUME Inv, HandsInv, [Next]_vars
    PROVE  HandsInv'
<1>1. RegistryInv /\ CallInv /\ BoundsInv /\ call \in [Client -> CallState] /\ NoCall.conn = NoConn
      /\ NoCall.pc = "idle" /\ Polling.conn = NoConn /\ Dead.conn = NoConn /\ Down.conn = NoConn
  BY DEF Inv, CallInv, NoCall, Polling, Dead, Down
<1>2. ASSUME NEW cl \in Client, Return(cl), service' = service, session' = session PROVE HandsInv'
  BY <1>1, <1>2, HandlerMoves DEF Return
<1>3. \A c \in Conn : Acquirable(c) \/ c \in Idle => c \notin Held
  BY DEF Acquirable, Idle
<1>4. ASSUME call' = call, session' = session,
             service' = service \/ service'.conn \in {NoConn, service.conn}
      PROVE  HandsInv'
  BY <1>4, ServiceMoves
<1>5. ASSUME call' = call, NEW c \in Conn, c \notin Held, service'.conn \in {NoConn, c},
             \A d \in Conn : d # c => session'[d] = session[d]
      PROVE  HandsInv'
  BY <1>5, ServiceMoves
<1>6. CASE StopExecutor \/ TakeReload \/ TakeRevert
  BY <1>4, <1>6 DEF StopExecutor, TakeReload, TakeRevert, TakeRequest, registryVars
<1>7. CASE FindIndexer
  <2>1. PICK c \in Conn : c \notin Held /\ OpenOn(c) /\ service'.conn \in {NoConn, c}
    BY <1>1, <1>3, <1>7 DEF FindIndexer
  <2> QED
    BY <1>1, <1>5, <1>7, <2>1, OneSession DEF FindIndexer
<1>8. CASE LoadAssets \/ CreateExecutor \/ ServiceTimesOut \/ CreateFails
  BY <1>1, <1>4, <1>8 DEF LoadAssets, CreateExecutor, ServiceTimesOut, CreateFails, ServiceDies, registryVars
<1>9. CASE RevertAssets
  <2>1. PICK c \in Conn :
            /\ c \notin Held
            /\ \/ ServiceDies /\ UNCHANGED registryVars
               \/ ServiceDies /\ BeginOn(c)
               \/ ServiceDies /\ RollbackOn(c)
               \/ /\ CommitOn(c, RemovedByRevert(c, service.request.asset.id), 0)
                  /\ service' = Reverted(c, service.request.asset.id)
    BY <1>3, <1>9 DEF RevertAssets
  <2>2. service'.conn \in {NoConn, c}
    BY <1>1, <2>1 DEF ServiceDies, Reverted
  <2>3. \A d \in Conn : d # c => session'[d] = session[d]
    BY <1>1, <2>1, OneSession DEF registryVars
  <2> QED
    BY <1>5, <1>9, <2>1, <2>2, <2>3 DEF RevertAssets
<1>10. CASE RemoveFails
  <2>1. PICK c \in Conn : c \notin Held /\ RollbackOn(c) /\ service'.conn = c
    BY <1>3, <1>10 DEF RemoveFails, Reverted
  <2> QED
    BY <1>1, <1>5, <1>10, <2>1, OneSession DEF RemoveFails
<1>11. ASSUME NEW cl \in Client, Disconnect(cl) \/ AcquireTimesOut(cl) PROVE HandsInv'
  BY <1>2, <1>11 DEF Disconnect, AcquireTimesOut, registryVars, serviceVars
<1>12. ASSUME NEW cl \in Client, SchemaFails(cl) PROVE HandsInv'
  <2>1. AbortOn(call[cl].conn) /\ Return(cl) /\ service' = service /\ call[cl].conn \in Conn
    BY <1>1, <1>12, CallShape DEF SchemaFails, serviceVars
  <2>2. \A d \in Conn : session'[d] = session[d] \/ d = call[cl].conn
    BY <1>1, <2>1, OneSession
  <2> QED
    BY <1>1, <2>1, <2>2, HandlerMoves DEF Return
<1>13. CASE Restart
  BY <1>1, <1>13 DEF Restart, HandsInv, Exclusive, DeploysAreOpen
<1>14. CASE ExecutorEnds \/ ExecutorStops \/ UNCHANGED vars
  BY <1>4, <1>14 DEF ExecutorEnds, ExecutorStops, vars, registryVars, serviceVars
<1>15. CASE ReapConnection
  <2>1. PICK c \in Conn : c \notin Held /\ CloseOn({c})
    BY <1>3, <1>15 DEF ReapConnection, Idle
  <2>2. \A d \in Conn : session'[d] = session[d] \/ d \notin Held
    BY <1>1, <2>1, OneSession
  <2> QED
    BY <1>15, <2>2, ServiceMoves DEF ReapConnection, serviceVars
<1> QED
  BY <1>6, <1>7, <1>8, <1>9, <1>10, <1>11, <1>12, <1>13, <1>14, <1>15, ClientHands
  DEF Next, ServiceStep, Failure

(* A session that nobody holds has no deploy in it.                         *)
LEMMA FreeSessions ==
    ASSUME NEW c, c \notin Held, NEW u PROVE ~Deploying(c, u)
  BY DEF Held, Deploying

(* A deploy is alone in its session.                                        *)
LEMMA DeploysAlone ==
    ASSUME Inv, HandsInv, NEW cl \in Client, call[cl].pc \in {"assets", "insert"}, NEW u
    PROVE  /\ Deploying(call[cl].conn, u) <=> u = call[cl].uid
           /\ call[cl].conn \in Conn /\ call[cl].uid \in Uid /\ call[cl].op = "deploy"
           /\ session[call[cl].conn] = "open"
<1>1. call[cl].conn \in Conn /\ call[cl].uid \in Uid /\ call[cl].conn # NoConn /\ call[cl].op = "deploy"
  BY CallShape, ServiceAssumption DEF Inv
<1> QED
  BY <1>1 DEF HandsInv, Exclusive, DeploysAreOpen, Deploying

(* Steps that write nothing keep the keys in order.                         *)
LEMMA SessionsKeep ==
    ASSUME RegistryInv, KeysInv, \A c \in Conn : \A u : Known(c, u) => Known(c, u)' \/ pending'[c] = NoWrites
    PROVE  /\ UNCHANGED registryVars => KeysInv'
           /\ \A c \in Conn : BeginOn(c) /\ UNCHANGED <<ids, assets, nextId, pending>> => KeysInv'
           /\ \A c \in Conn : OpenOn(c) => KeysInv'
           /\ \A c \in Conn : AbortOn(c) => KeysInv'
           /\ \A c \in Conn : RollbackOn(c) => KeysInv'
           /\ \A cs : CloseOn(cs) => KeysInv'
<1>1. session \in [Conn -> SessionState] /\ pending \in [Conn -> Writes]
  BY DEF RegistryInv, RegistryTypeOK
<1>2. ASSUME UNCHANGED registryVars PROVE KeysInv'
  BY <1>2, SessionsForget DEF registryVars
<1>3. ASSUME NEW c \in Conn, BeginOn(c), UNCHANGED <<ids, assets, nextId, pending>> PROVE KeysInv'
  BY <1>1, <1>3, SessionsForget DEF BeginOn
<1>4. ASSUME NEW c \in Conn, OpenOn(c) PROVE KeysInv'
  BY <1>1, <1>4, SessionsForget DEF OpenOn
<1>5. ASSUME NEW c \in Conn, AbortOn(c) PROVE KeysInv'
  BY <1>1, <1>5, SessionsForget DEF AbortOn
<1>6. ASSUME NEW c \in Conn, RollbackOn(c) PROVE KeysInv'
  BY <1>1, <1>6, SessionsForget DEF RollbackOn
<1>7. ASSUME NEW cs, CloseOn(cs) PROVE KeysInv'
  BY <1>1, <1>7, SessionsForget DEF CloseOn
<1> QED
  BY <1>2, <1>3, <1>4, <1>5, <1>6, <1>7

(* A step of a handler that is not in a deploy's transaction.               *)
LEMMA OthersKnown ==
    ASSUME CallInv, NEW cl \in Client, call[cl].pc \notin {"assets", "insert"}, NEW x,
           call' = [call EXCEPT ![cl] = x], missed \subseteq missed'
    PROVE  \A c, u : Known(c, u) => Known(c, u)'
  BY KnownStays

(* A step of a client's handler keeps the keys in order.                    *)
LEMMA ClientKeys ==
    ASSUME Inv, Inv', KeysInv, HandsInv, NEW cl \in Client, Call(cl) \/ ClientStep(cl)
    PROVE  KeysInv'
<1>1. /\ RegistryInv /\ RegistryInv' /\ CallInv /\ BoundsInv /\ call \in [Client -> CallState]
      /\ missed \subseteq missed'
  <2>1. missed' = missed
    BY DEF Call, ClientStep, Refused, BeginDeploy, RegisterAsset, InsertIndexer, CommitDeploy,
           RemoveIndexer, FindPenultimate, Send
  <2> QED
    BY <2>1 DEF Inv, CallInv
<1>2. \A c \in Conn : Acquirable(c) => c \notin Held
  BY DEF Acquirable
<1>3. CASE Call(cl) \/ Refused(cl) \/ Send(cl)
  <2>1. UNCHANGED registryVars /\ call[cl].pc \notin {"assets", "insert"}
    BY <1>3 DEF Call, Refused, Send, NoCall
  <2>2. PICK x : call' = [call EXCEPT ![cl] = x]
    BY <1>3 DEF Call, Refused, Send, Return
  <2> QED
    BY <1>1, <2>1, <2>2, OthersKnown, SessionsKeep
<1>4. CASE BeginDeploy(cl)
  <2>1. call[cl].pc \notin {"assets", "insert"}
    BY <1>4 DEF BeginDeploy, At
  <2>2. PICK c, x : /\ c \in Conn
                    /\ BeginOn(c) /\ UNCHANGED <<ids, assets, nextId, pending>>
                    /\ call' = [call EXCEPT ![cl] = x]
    BY <1>4 DEF BeginDeploy, BeginOn
  <2> QED
    BY <1>1, <2>1, <2>2, OthersKnown, SessionsKeep
<1>5. ASSUME call[cl].pc \in {"assets", "insert"}, NEW x, call' = [call EXCEPT ![cl] = x],
             x.pc \in {"assets", "insert"}, x.conn = call[cl].conn, x.uid = call[cl].uid
      PROVE  \A c, u : Known(c, u) => Known(c, u)'
  BY <1>1, <1>5, KnownStays
<1>6. ASSUME call[cl].pc \in {"assets", "insert"}, NEW x, call' = [call EXCEPT ![cl] = x]
      PROVE  \A c, u : c # call[cl].conn /\ Known(c, u) => Known(c, u)'
  BY <1>1, <1>6, KnownStays
<1>7. CASE RegisterAsset(cl)
  <2> DEFINE c == call[cl].conn
             u == call[cl].uid
  <2>1. /\ call[cl].pc = "assets" /\ call[cl].done < Len(Tables) /\ c \in Conn /\ u \in Uid /\ Deploying(c, u)
        /\ call[cl] \in [pc : {"assets", "insert", "send"}, op : {"deploy"}, uid : Uid,
                         wasm : Wasm, conn : Conn, done : 0 .. Len(Tables)]
    BY <1>1, <1>7, DeploysAlone, CallShape DEF RegisterAsset
  <2>2. CASE IndexId(c, u) # 0
    <3>1. /\ RegisterIndexAsset(c, u, NextTable(cl), Bytes(cl))
          /\ call' = [call EXCEPT ![cl] = [call[cl] EXCEPT !.done = @ + 1]]
      BY <1>7, <2>2 DEF RegisterAsset
    <3>2. \A d, v : Known(d, v) => Known(d, v)'
      <4>1. PICK x : x = [call[cl] EXCEPT !.done = @ + 1]
        OBVIOUS
      <4>2. x.pc = "assets" /\ x.conn = c /\ x.uid = u
        BY <2>1, <4>1
      <4> QED
        BY <1>5, <2>1, <3>1, <4>1, <4>2
    <3>3. NextTable(cl) \in Table
      <4>1. call[cl].done \in 0 .. 2
        BY <2>1 DEF Tables
      <4> QED
        BY <4>1 DEF NextTable, Tables, Table
    <3>4. NextTable(cl) = "manifest" => Bytes(cl) = u
      BY DEF Bytes
    <3> HIDE DEF c, u
    <3> QED
      BY <1>1, <2>1, <2>2, <3>1, <3>2, <3>3, <3>4, RegisteredRowIsKnown
  <2>3. CASE IndexId(c, u) = 0
    <3>1. UNCHANGED registryVars /\ call' = [call EXCEPT ![cl] = [call[cl] EXCEPT !.pc = "insert"]]
      BY <1>7, <2>3 DEF RegisterAsset, GoTo
    <3>2. PICK x : x = [call[cl] EXCEPT !.pc = "insert"]
      OBVIOUS
    <3>3. x.pc = "insert" /\ x.conn = c /\ x.uid = u
      BY <2>1, <3>2
    <3> QED
      BY <1>1, <1>5, <2>1, <3>1, <3>2, <3>3, SessionsKeep
  <2> QED
    BY <2>2, <2>3
<1>8. CASE InsertIndexer(cl)
  <2> DEFINE c == call[cl].conn
             u == call[cl].uid
  <2>1. /\ call[cl].pc = "insert" /\ c \in Conn /\ u \in Uid /\ Deploying(c, u) /\ session[c] = "open"
        /\ call[cl] \in [pc : {"assets", "insert", "send"}, op : {"deploy"}, uid : Uid,
                         wasm : Wasm, conn : Conn, done : 0 .. Len(Tables)]
    BY <1>1, <1>8, DeploysAlone, CallShape DEF InsertIndexer
  <2>2. CASE ids[u] = 0
    <3>1. InsertIndex(c, u) /\ call' = [call EXCEPT ![cl] = [call[cl] EXCEPT !.pc = "assets"]]
          /\ ~InsertWaits(c, u)
      BY <1>8, <2>2 DEF InsertIndexer, GoTo
    <3>2. PICK x : x = [call[cl] EXCEPT !.pc = "assets"]
      OBVIOUS
    <3>3. x.pc = "assets" /\ x.conn = c /\ x.uid = u
      BY <2>1, <3>2
    <3>4. \A d, v : Known(d, v) => Known(d, v)'
      BY <1>5, <2>1, <3>1, <3>2, <3>3
    <3> HIDE DEF c, u
    <3> QED
      BY <1>1, <2>1, <2>2, <3>1, <3>4, InsertedIdIsNew
  <2>3. CASE ids[u] # 0
    <3>1. AbortOn(c) /\ call' = [call EXCEPT ![cl] = NoCall]
      BY <1>8, <2>3 DEF InsertIndexer, Return
    <3>2. pending'[c] = NoWrites
      BY <1>1, <2>1, <3>1 DEF AbortOn, RegistryInv, RegistryTypeOK
    <3> QED
      BY <1>1, <1>6, <2>1, <3>1, <3>2, SessionsKeep
  <2> QED
    BY <2>2, <2>3
<1>9. CASE CommitDeploy(cl)
  <2> DEFINE c == call[cl].conn
  <2>1. call[cl].pc = "assets" /\ c \in Conn
    BY <1>1, <1>9, CallShape DEF CommitDeploy
  <2>2. PICK x : /\ call' = [call EXCEPT ![cl] = x]
                 /\ CommitOn(c, {}, 0) \/ RollbackOn(c)
    BY <1>9 DEF CommitDeploy, GoTo, Return
  <2>3. \A d, v : d # c /\ Known(d, v) => Known(d, v)'
    BY <1>6, <2>1, <2>2
  <2>4. RollbackOn(c) => pending'[c] = NoWrites
    BY <1>1, <2>1 DEF RollbackOn, RegistryInv, RegistryTypeOK
  <2> HIDE DEF c
  <2> QED
    BY <1>1, <2>1, <2>2, <2>3, <2>4, SessionsKeep, CommittedKeysHold
<1>10. CASE RemoveIndexer(cl)
  <2>1. call[cl].pc \notin {"assets", "insert"}
    BY <1>10 DEF RemoveIndexer, At
  <2>2. PICK c, x : /\ c \in Conn
                    /\ call' = [call EXCEPT ![cl] = x]
                    /\ RollbackOn(c) \/ \E goneId : CommitOn(c, {}, goneId)
    BY <1>10 DEF RemoveIndexer, Return
  <2>3. \A d, v : Known(d, v) => Known(d, v)'
    BY <1>1, <2>1, <2>2, OthersKnown
  <2> QED
    BY <1>1, <2>2, <2>3, SessionsKeep, CommittedKeysHold
<1>11. CASE FindPenultimate(cl)
  <2>1. call[cl].pc \notin {"assets", "insert"}
    BY <1>11 DEF FindPenultimate, At
  <2>2. PICK c, x : c \in Conn /\ OpenOn(c) /\ call' = [call EXCEPT ![cl] = x]
    BY <1>11 DEF FindPenultimate, Return
  <2>3. \A d, v : Known(d, v) => Known(d, v)'
    BY <1>1, <2>1, <2>2, OthersKnown
  <2> QED
    BY <1>1, <2>2, <2>3, SessionsKeep
<1> QED
  BY <1>3, <1>4, <1>7, <1>8, <1>9, <1>10, <1>11 DEF ClientStep

(* No step gives two indexers one id, or a row to a removed indexer.        *)
LEMMA KeysNext ==
    ASSUME Inv, Inv', KeysInv, HandsInv, [Next]_vars
    PROVE  KeysInv'
<1>1. RegistryInv /\ RegistryInv' /\ CallInv /\ BoundsInv /\ call \in [Client -> CallState]
  BY DEF Inv, CallInv
<1>2. ASSUME call' = call, missed \subseteq missed' PROVE \A c, u : Known(c, u) => Known(c, u)'
  BY <1>2 DEF Known, Deploying
<1>3. ASSUME call' = call, missed \subseteq missed', UNCHANGED registryVars PROVE KeysInv'
  BY <1>1, <1>2, <1>3, SessionsKeep
<1>4. CASE StopExecutor \/ TakeReload \/ TakeRevert \/ LoadAssets \/ CreateExecutor \/ ServiceTimesOut
           \/ CreateFails \/ ExecutorEnds \/ ExecutorStops \/ UNCHANGED vars
  BY <1>3, <1>4 DEF StopExecutor, TakeReload, TakeRevert, TakeRequest, LoadAssets, CreateExecutor,
                    ServiceTimesOut, CreateFails, ExecutorEnds, ExecutorStops, vars
<1>5. CASE FindIndexer
  <2>1. call' = call /\ missed \subseteq missed' /\ \E c \in Conn : OpenOn(c)
    BY <1>5 DEF FindIndexer
  <2> QED
    BY <1>1, <1>2, <2>1, SessionsKeep
<1>6. CASE RevertAssets
  <2>1. PICK c \in Conn :
            \/ UNCHANGED registryVars
            \/ BeginOn(c) /\ UNCHANGED <<ids, assets, nextId, pending>>
            \/ RollbackOn(c)
            \/ CommitOn(c, RemovedByRevert(c, service.request.asset.id), 0)
    BY <1>6 DEF RevertAssets
  <2>2. call' = call /\ missed' = missed
    BY <1>6 DEF RevertAssets
  <2> QED
    BY <1>1, <1>2, <2>1, <2>2, SessionsKeep, CommittedKeysHold
<1>7. CASE RemoveFails
  <2>1. call' = call /\ missed' = missed /\ \E c \in Conn : RollbackOn(c)
    BY <1>7 DEF RemoveFails
  <2> QED
    BY <1>1, <1>2, <2>1, SessionsKeep
<1>8. ASSUME NEW cl \in Client, Disconnect(cl) PROVE KeysInv'
  <2>1. /\ UNCHANGED registryVars /\ call' = [call EXCEPT ![cl] = NoCall] /\ missed \subseteq missed'
        /\ call[cl].conn # NoConn => call[cl].uid \in missed'
    BY <1>8 DEF Disconnect, Return
  <2>2. call[cl].pc \in {"assets", "insert"} => call[cl].uid \in missed'
    BY <1>1, <2>1, CallShape, ServiceAssumption
  <2>3. \A c, u : Known(c, u) => Known(c, u)'
    BY <1>1, <2>1, <2>2, KnownStays
  <2> QED
    BY <1>1, <2>1, <2>3, SessionsKeep
<1>9. ASSUME NEW cl \in Client, AcquireTimesOut(cl) PROVE KeysInv'
  <2>1. UNCHANGED registryVars /\ call' = [call EXCEPT ![cl] = NoCall] /\ missed' = missed
        /\ call[cl].pc = "acquire"
    BY <1>9 DEF AcquireTimesOut, Return
  <2> QED
    BY <1>1, <2>1, OthersKnown, SessionsKeep
<1>10. ASSUME NEW cl \in Client, SchemaFails(cl) PROVE KeysInv'
  <2> DEFINE c == call[cl].conn
  <2>1. AbortOn(c) /\ call' = [call EXCEPT ![cl] = NoCall] /\ missed' = missed /\ c \in Conn
    BY <1>1, <1>10, CallShape DEF SchemaFails, Return
  <2>2. pending'[c] = NoWrites
    BY <1>1, <2>1 DEF AbortOn, RegistryInv, RegistryTypeOK
  <2>3. \A d, v : d # c /\ Known(d, v) => Known(d, v)'
    BY <1>1, <2>1, KnownStays
  <2> HIDE DEF c
  <2> QED
    BY <1>1, <2>1, <2>2, <2>3, SessionsKeep
<1>11. CASE Restart
  <2>1. CloseOn(Conn)
    BY <1>11 DEF Restart
  <2>2. \A c \in Conn : pending'[c] = NoWrites
    BY <2>1 DEF CloseOn
  <2> QED
    BY <1>1, <2>1, <2>2, SessionsKeep
<1>12. CASE ReapConnection
  <2>1. call' = call /\ missed' = missed /\ \E cs : CloseOn(cs)
    BY <1>12 DEF ReapConnection
  <2> QED
    BY <1>1, <1>2, <2>1, SessionsKeep
<1> QED
  BY <1>4, <1>5, <1>6, <1>7, <1>8, <1>9, <1>10, <1>11, <1>12, ClientKeys DEF Next, ServiceStep, Failure

-----------------------------------------------------------------------------
(* News on its way to the service.                                          *)

Told(op) == IF op = "deploy" THEN "reload" ELSE op

(* A handler that has committed one of ops for u is about to tell the       *)
(* service, or the request is in the channel.                               *)
Coming(u, ops) ==
    \/ \E cl \in Client : At(cl, "send", ops) /\ call[cl].uid = u
    \/ \E i \in DOMAIN channel :
          channel[i].uid = u /\ \E op \in ops : channel[i].op = Told(op)

(* What can be said of the service and its executors after a step.          *)
ServiceActs ==
    \/ StopExecutor \/ TakeReload \/ TakeRevert \/ FindIndexer \/ LoadAssets
    \/ RevertAssets \/ RemoveFails \/ CreateExecutor

(* Only the service's own steps change what it does and start executors.    *)
LEMMA ServiceStays ==
    ASSUME [Next]_vars, ~Restart, Alive'
    PROVE  Alive /\ (ServiceActs \/ (service' = service /\ executors' \subseteq executors))
<1>1. ASSUME NEW cl \in Client, Call(cl) \/ ClientStep(cl)
      PROVE  service' = service /\ executors' \subseteq executors
  BY <1>1 DEF Call, ClientStep, Refused, BeginDeploy, RegisterAsset, InsertIndexer, CommitDeploy,
              RemoveIndexer, FindPenultimate, Send, serviceVars
<1>2. ~ServiceDies
  BY DEF ServiceDies, Alive, Dead
<1>3. ASSUME NEW cl \in Client, Disconnect(cl) \/ SchemaFails(cl) \/ AcquireTimesOut(cl)
      PROVE  service' = service /\ executors' \subseteq executors
  BY <1>3 DEF Disconnect, SchemaFails, AcquireTimesOut, serviceVars
<1>4. CASE ExecutorEnds \/ ExecutorStops \/ ReapConnection \/ UNCHANGED vars
  BY <1>4 DEF ExecutorEnds, ExecutorStops, ReapConnection, vars, serviceVars, Alive
<1>5. CASE ServiceActs
  BY <1>5 DEF ServiceActs, StopExecutor, TakeReload, TakeRevert, TakeRequest, FindIndexer, LoadAssets,
              RevertAssets, RemoveFails, CreateExecutor, Serving, Alive, Polling
<1> QED
  BY <1>1, <1>2, <1>3, <1>4, <1>5
  DEF Next, ServiceStep, Failure, ServiceActs, ServiceTimesOut, CreateFails, Alive

(* News that was lost stays lost until the process starts again.            *)
LEMMA MissedGrows ==
    ASSUME [Next]_vars, ~Restart
    PROVE  missed \subseteq missed'
<1>1. ASSUME NEW cl \in Client, Call(cl) \/ ClientStep(cl) PROVE missed' = missed
  BY <1>1 DEF Call, ClientStep, Refused, BeginDeploy, RegisterAsset, InsertIndexer, CommitDeploy,
              RemoveIndexer, FindPenultimate, Send
<1>2. CASE ServiceStep
  BY <1>2 DEF ServiceStep, StopExecutor, TakeReload, TakeRevert, TakeRequest, FindIndexer, LoadAssets,
              RevertAssets, CreateExecutor
<1>3. CASE Failure
  BY <1>3 DEF Failure, Disconnect, SchemaFails, AcquireTimesOut, ServiceTimesOut, RemoveFails,
              CreateFails, ExecutorEnds
<1>4. CASE ExecutorStops \/ ReapConnection \/ UNCHANGED vars
  BY <1>4 DEF ExecutorStops, ReapConnection, vars
<1> QED
  BY <1>1, <1>2, <1>3, <1>4 DEF Next

(* A request that is taken leaves the others in the channel.                *)
LEMMA TailKeeps ==
    ASSUME NEW S, NEW s \in Seq(S), s # <<>>, NEW i \in DOMAIN s
    PROVE  s[i] = Head(s) \/ \E j \in DOMAIN Tail(s) : Tail(s)[j] = s[i]
<1>1. Len(s) \in Nat /\ DOMAIN s = 1 .. Len(s) /\ i \in 1 .. Len(s) /\ Head(s) = s[1]
  OBVIOUS
<1>2. DOMAIN Tail(s) = 1 .. Len(s) - 1 /\ \A j \in 1 .. Len(s) - 1 : Tail(s)[j] = s[j + 1]
  OBVIOUS
<1>3. CASE i = 1
  BY <1>1, <1>3
<1>4. CASE i # 1
  <2>1. i - 1 \in 1 .. Len(s) - 1 /\ (i - 1) + 1 = i
    BY <1>1, <1>4
  <2>2. Tail(s)[i - 1] = s[i]
    BY <1>2, <2>1
  <2> QED
    BY <1>2, <2>1, <2>2
<1> QED
  BY <1>3, <1>4

(* The service takes a request about one of ops for u.                      *)
Taken(u, ops) ==
    /\ StopExecutor \/ TakeReload
    /\ channel # <<>> /\ Head(channel).uid = u
    /\ \E op \in ops : Head(channel).op = Told(op)

(* News arrives in the channel, is taken by the service or is lost.         *)
LEMMA ComingNext ==
    ASSUME Inv, [Next]_vars, ~Restart, Alive', NEW u, NEW ops \in SUBSET {"deploy", "stop"}, Coming(u, ops)
    PROVE  Coming(u, ops)' \/ u \in missed' \/ Taken(u, ops)
<1>1. /\ RegistryInv /\ CallInv /\ BoundsInv /\ call \in [Client -> CallState]
      /\ channel \in Seq(NamedRequests) /\ Alive
  BY ServiceStays DEF Inv, CallInv, ServiceInv
<1>2. ASSUME call' = call, channel' = channel PROVE Coming(u, ops)'
  BY <1>2 DEF Coming, At
<1>3. ASSUME NEW cl \in Client, NEW x, call' = [call EXCEPT ![cl] = x], channel' = channel,
             ~(At(cl, "send", ops) /\ call[cl].uid = u)
      PROVE  Coming(u, ops)'
  <2>1. \A k \in Client \ {cl} : call'[k] = call[k]
    BY <1>1, <1>3
  <2> QED
    BY <1>3, <2>1 DEF Coming, At
<1>4. ASSUME NEW cl \in Client, Call(cl) \/ (ClientStep(cl) /\ ~Send(cl)) PROVE Coming(u, ops)'
  <2>1. channel' = channel
    BY <1>4 DEF Call, ClientStep, Refused, BeginDeploy, RegisterAsset, InsertIndexer, CommitDeploy,
                RemoveIndexer, FindPenultimate, serviceVars
  <2>2. call[cl].pc # "send"
    BY <1>4 DEF Call, ClientStep, Refused, BeginDeploy, RegisterAsset, InsertIndexer, CommitDeploy,
                RemoveIndexer, FindPenultimate, At, NoCall
  <2>3. PICK x : call' = [call EXCEPT ![cl] = x]
    BY <1>4 DEF Call, ClientStep, Refused, BeginDeploy, RegisterAsset, InsertIndexer, CommitDeploy,
                RemoveIndexer, FindPenultimate, Return, GoTo
  <2> QED
    BY <1>3, <2>1, <2>2, <2>3 DEF At
<1>5. ASSUME NEW cl \in Client, Send(cl) PROVE Coming(u, ops)'
  <2>1. /\ channel' = Append(channel, RequestOf(call[cl])) /\ call' = [call EXCEPT ![cl] = NoCall]
        /\ call[cl].pc = "send"
    BY <1>1, <1>5 DEF Send, Return
  <2>2. /\ \A i \in DOMAIN channel : i \in DOMAIN channel' /\ channel'[i] = channel[i]
        /\ Len(channel') \in DOMAIN channel' /\ channel'[Len(channel')] = RequestOf(call[cl])
    <3>1. PICK r : r = RequestOf(call[cl])
      OBVIOUS
    <3>2. channel \in Seq(NamedRequests \cup {r}) /\ channel' = Append(channel, r)
      BY <1>1, <2>1, <3>1
    <3> QED
      BY <3>1, <3>2
  <2>3. CASE At(cl, "send", ops) /\ call[cl].uid = u
    <3>1. RequestOf(call[cl]).uid = u /\ RequestOf(call[cl]).op = Told(call[cl].op)
      BY <2>3 DEF RequestOf, Told, At
    <3> QED
      BY <2>2, <2>3, <3>1 DEF Coming, At
  <2>4. CASE ~(At(cl, "send", ops) /\ call[cl].uid = u)
    <3>1. \A k \in Client \ {cl} : call'[k] = call[k]
      BY <1>1, <2>1
    <3> QED
      BY <2>2, <2>4, <3>1 DEF Coming, At
  <2> QED
    BY <2>3, <2>4
<1>6. CASE StopExecutor \/ TakeReload \/ TakeRevert
  <2>1. /\ call' = call /\ channel # <<>> /\ channel' = Tail(channel)
        /\ StopExecutor \/ TakeReload \/ Head(channel).op = "revert"
    BY <1>6 DEF StopExecutor, TakeReload, TakeRevert, TakeRequest
  <2>2. CASE \E cl \in Client : At(cl, "send", ops) /\ call[cl].uid = u
    BY <2>1, <2>2 DEF Coming, At
  <2>3. ASSUME NEW i \in DOMAIN channel, channel[i].uid = u, NEW op \in ops, channel[i].op = Told(op)
        PROVE  Coming(u, ops)' \/ Taken(u, ops)
    <3>1. CASE channel[i] = Head(channel)
      <4>1. Head(channel).op # "revert"
        BY <2>3, <3>1 DEF Told
      <4> QED
        BY <2>1, <2>3, <3>1, <4>1 DEF Taken
    <3>2. CASE \E j \in DOMAIN Tail(channel) : Tail(channel)[j] = channel[i]
      BY <2>1, <2>3, <3>2 DEF Coming
    <3> QED
      BY <1>1, <2>1, <3>1, <3>2, TailKeeps
  <2> QED
    BY <2>2, <2>3 DEF Coming
<1>7. CASE FindIndexer \/ LoadAssets \/ RevertAssets \/ CreateExecutor \/ ServiceTimesOut
           \/ RemoveFails \/ CreateFails \/ ExecutorEnds \/ ExecutorStops \/ ReapConnection \/ UNCHANGED vars
  <2>1. ~ServiceDies
    BY DEF ServiceDies, Alive, Dead
  <2> QED
    BY <1>2, <1>7, <2>1 DEF FindIndexer, LoadAssets, RevertAssets, CreateExecutor, ServiceTimesOut,
              RemoveFails, CreateFails, ExecutorEnds, ExecutorStops, ReapConnection, vars, serviceVars
<1>8. ASSUME NEW cl \in Client, Disconnect(cl) PROVE Coming(u, ops)' \/ u \in missed'
  <2>1. /\ channel' = channel /\ call' = [call EXCEPT ![cl] = NoCall]
        /\ call[cl].conn # NoConn => call[cl].uid \in missed'
    BY <1>8 DEF Disconnect, Return, serviceVars
  <2>2. call[cl].pc = "send" => call[cl].conn # NoConn
    BY <1>1, CallShape, ServiceAssumption
  <2> QED
    BY <1>3, <2>1, <2>2 DEF At
<1>9. ASSUME NEW cl \in Client, SchemaFails(cl) \/ AcquireTimesOut(cl) PROVE Coming(u, ops)'
  <2>1. /\ channel' = channel /\ call' = [call EXCEPT ![cl] = NoCall]
        /\ call[cl].pc \in {"assets", "acquire"}
    BY <1>9 DEF SchemaFails, AcquireTimesOut, Return, serviceVars
  <2> QED
    BY <1>3, <2>1 DEF At
<1> QED
  BY <1>4, <1>5, <1>6, <1>7, <1>8, <1>9 DEF Next, ClientStep, ServiceStep, Failure

-----------------------------------------------------------------------------
(* Executors of indexers that were removed.                                 *)

(* An indexer that is registered, or whose removal will be heard of.        *)
Accounted(u) == ids[u] # 0 \/ u \in missed \/ Coming(u, {"stop"})

RemovedInv ==
    Alive /\ RevertsAlone =>
        /\ \A e \in executors : e.kill \/ Accounted(e.uid)
        /\ service.pc = "create" => Accounted(service.uid)

(* What the registry commits in a step, and for whom.                       *)
LEMMA RegistrySteps ==
    ASSUME Inv, [Next]_vars
    PROVE  \/ UNCHANGED <<ids, assets>>
           \/ \E cl \in Client : /\ CommitDeploy(cl) /\ call[cl].pc = "assets"
                                 /\ CommitOn(call[cl].conn, {}, 0) /\ GoTo(cl, "send")
           \/ \E cl \in Client, c \in Conn :
                 /\ RemoveIndexer(cl) /\ c \notin Held
                 /\ IndexId(c, call[cl].uid) # 0 /\ CommitOn(c, {}, IndexId(c, call[cl].uid))
                 /\ call' = [call EXCEPT ![cl] =
                               [pc |-> "send", op |-> "stop", uid |-> call[cl].uid, conn |-> c]]
           \/ /\ RevertAssets
              /\ \E c \in Conn : c \notin Held /\ \E gone : CommitOn(c, gone, 0)
<1>1. ASSUME NEW cl \in Client, RegisterAsset(cl) \/ InsertIndexer(cl) PROVE UNCHANGED <<ids, assets>>
  BY <1>1 DEF RegisterAsset, RegisterIndexAsset, InsertIndexer, InsertIndex, AbortOn, registryVars
<1>2. ASSUME NEW cl \in Client, Call(cl) \/ Refused(cl) \/ BeginDeploy(cl) \/ Send(cl) \/ FindPenultimate(cl)
      PROVE  UNCHANGED <<ids, assets>>
  BY <1>2 DEF Call, Refused, BeginDeploy, Send, FindPenultimate, OpenOn, registryVars
<1>3. ASSUME NEW cl \in Client, CommitDeploy(cl)
      PROVE  \/ UNCHANGED <<ids, assets>>
             \/ call[cl].pc = "assets" /\ CommitOn(call[cl].conn, {}, 0) /\ GoTo(cl, "send")
  BY <1>3 DEF CommitDeploy, RollbackOn
<1>4. ASSUME NEW cl \in Client, RemoveIndexer(cl)
      PROVE  \/ UNCHANGED <<ids, assets>>
             \/ \E c \in Conn :
                 /\ c \notin Held
                 /\ IndexId(c, call[cl].uid) # 0 /\ CommitOn(c, {}, IndexId(c, call[cl].uid))
                 /\ call' = [call EXCEPT ![cl] =
                               [pc |-> "send", op |-> "stop", uid |-> call[cl].uid, conn |-> c]]
  BY <1>4 DEF RemoveIndexer, RollbackOn, Acquirable
<1>5. CASE RevertAssets
  BY <1>5 DEF RevertAssets, registryVars, BeginOn, RollbackOn, Acquirable
<1>6. CASE StopExecutor \/ TakeReload \/ TakeRevert \/ FindIndexer \/ LoadAssets \/ CreateExecutor
           \/ ServiceTimesOut \/ RemoveFails \/ CreateFails \/ ExecutorEnds \/ Restart
           \/ ExecutorStops \/ ReapConnection \/ UNCHANGED vars
  BY <1>6 DEF StopExecutor, TakeReload, TakeRevert, TakeRequest, FindIndexer, LoadAssets, CreateExecutor,
              ServiceTimesOut, RemoveFails, CreateFails, ExecutorEnds, Restart, ExecutorStops,
              ReapConnection, vars, registryVars, OpenOn, RollbackOn, CloseOn
<1>7. ASSUME NEW cl \in Client, Disconnect(cl) \/ SchemaFails(cl) \/ AcquireTimesOut(cl)
      PROVE  UNCHANGED <<ids, assets>>
  BY <1>7 DEF Disconnect, SchemaFails, AcquireTimesOut, registryVars, AbortOn
<1> QED
  BY <1>1, <1>2, <1>3, <1>4, <1>5, <1>6, <1>7 DEF Next, ClientStep, ServiceStep, Failure

(* An indexer is removed by a handler that tells the service afterwards.    *)
LEMMA AccountedNext ==
    ASSUME Inv, KeysInv, [Next]_vars, ~Restart, Alive', NEW u \in Uid, Accounted(u)
    PROVE  Accounted(u)' \/ Taken(u, {"stop"})
<1>1. CASE u \in missed
  BY <1>1, MissedGrows DEF Accounted
<1>2. CASE Coming(u, {"stop"})
  BY <1>2, ComingNext DEF Accounted
<1>3. CASE ids[u] # 0 /\ ids'[u] = 0
  <2>1. ASSUME NEW c \in Conn, NEW gone, CommitOn(c, gone, 0) PROVE FALSE
    BY <1>3, <2>1, CommitRemovesOne
  <2>2. ASSUME NEW cl \in Client, NEW c \in Conn, IndexId(c, call[cl].uid) # 0,
               RemoveIndexer(cl), CommitOn(c, {}, IndexId(c, call[cl].uid)),
               call' = [call EXCEPT ![cl] =
                           [pc |-> "send", op |-> "stop", uid |-> call[cl].uid, conn |-> c]]
        PROVE  Accounted(u)'
    <3>1. call[cl].uid \in Uid
      BY <2>2, CallShape DEF Inv, RemoveIndexer, At
    <3>2. IndexId(c, u) = IndexId(c, call[cl].uid)
      BY <1>3, <2>2, CommitRemovesOne
    <3>3. u = call[cl].uid
      BY <2>2, <3>1, <3>2 DEF IndexId, KeysInv, IdsAreKeys
    <3>4. call'[cl].pc = "send" /\ call'[cl].op = "stop" /\ call'[cl].uid = u
      BY <2>2, <3>3 DEF Inv, CallInv
    <3> QED
      BY <3>4 DEF Accounted, Coming, At
  <2>3. ASSUME NEW cl \in Client, CommitDeploy(cl) PROVE call[cl].conn \in Conn
    BY <2>3, CallShape DEF CommitDeploy, Inv
  <2> QED
    BY <1>3, <2>1, <2>2, <2>3, RegistrySteps
<1>4. CASE ids'[u] # 0
  BY <1>4 DEF Accounted
<1> QED
  BY <1>1, <1>2, <1>3, <1>4 DEF Accounted

(* The manifest of a row names a registered indexer or one that is known.   *)
LEMMA ManifestIsKnown ==
    ASSUME Inv, HandsInv, KeysInv, NEW c \in Conn, c \notin {call[cl].conn : cl \in Client},
           NEW i, HasAssets(c, i), NEW u, u = LatestAsset(c, "manifest", i).bytes
    PROVE  /\ u \in missed \/ (ids[u] = i /\ ids[u] # 0)
           /\ u \in Uid
           /\ \A v \in Uid : ids[v] = i /\ ids[v] # 0 => v = u
<1> PICK a : a = LatestAsset(c, "manifest", i)
  OBVIOUS
<1>1. RegistryInv /\ "manifest" \in Table
  BY DEF Inv, Table
<1>2. a \in AssetsOf(c, "manifest", i)
  BY <1>1, RowsOf, NewestIsOne DEF HasAssets, LatestAsset, RegistryInv
<1>3. a \in assets \cup pending[c].assets /\ a.table = "manifest" /\ a.index = i
  BY <1>2 DEF AssetsOf
<1>4. GoodRow(a)
  BY <1>1, <1>3 DEF RegistryInv, GoodRows
<1>5. u \in Uid
  BY <1>3, <1>4, Calls DEF GoodRow, Inv
<1>6. ASSUME a \in assets
      PROVE  ids[u] = i /\ ids[u] # 0 /\ \A v \in Uid : ids[v] = i => v = u
  BY <1>3, <1>6 DEF KeysInv, RowsHaveIndexers, IdsAreKeys
<1>7. ASSUME a \in pending[c].assets
      PROVE  u \in missed /\ \A v \in Uid : ids[v] = i /\ ids[v] # 0 => v = u
  <2>1. ~Deploying(c, u)
    BY DEF Deploying
  <2>2. u \in missed
    BY <1>3, <1>7, <2>1 DEF KeysInv, PendingRows, Known
  <2>3. ASSUME NEW v \in Uid, ids[v] = i, ids[v] # 0 PROVE v = u
    <3>1. IndexId(c, v) = i
      BY <2>3 DEF IndexId, KeysInv, IdsAreKeys
    <3> QED
      BY <1>3, <1>7, <3>1 DEF KeysInv, PendingRows
  <2> QED
    BY <2>2, <2>3
<1> QED
  BY <1>3, <1>5, <1>6, <1>7

(* What the service is about to start is accounted for.                     *)
LEMMA CreatedIsAccounted ==
    ASSUME Inv, Inv', HandsInv, KeysInv, KeysInv', [Next]_vars, ~Restart,
           LoadAssets \/ RevertAssets \/ RemoveFails, service'.pc = "create"
    PROVE  ids'[service'.uid] # 0 \/ service'.uid \in missed'
<1>1. missed' = missed
  BY DEF LoadAssets, RevertAssets, RemoveFails
<1>2. ~ServiceDies
  BY DEF ServiceDies, Dead
<1>3. CASE LoadAssets
  <2>1. /\ service.pc = "load" /\ HasAssets(service.conn, service.id) /\ ids' = ids
        /\ service'.uid = LatestAsset(service.conn, "manifest", service.id).bytes
    BY <1>2, <1>3 DEF LoadAssets, registryVars
  <2>2. service.conn \in Conn
    BY <2>1, ServiceShape DEF Inv
  <2>3. service.conn \notin {call[cl].conn : cl \in Client}
    BY <2>2, ServiceAssumption DEF HandsInv, Exclusive
  <2> QED
    BY <1>1, <2>1, <2>2, <2>3, ManifestIsKnown
<1>4. CASE RevertAssets \/ RemoveFails
  <2>1. PICK c, i :
            /\ c \in Conn
            /\ c \notin Held /\ HasAssets(c, i)
            /\ service'.uid = LatestAsset(c, "manifest", i).bytes
            /\ RollbackOn(c) \/ \E gone : CommitOn(c, gone, 0)
    BY <1>2, <1>4 DEF RevertAssets, RemoveFails, Acquirable, Reverted
  <2>2. c \notin {call[cl].conn : cl \in Client}
    BY <2>1 DEF Held
  <2> PICK u : u = service'.uid
    OBVIOUS
  <2>3. u \in missed \/ (ids[u] = i /\ ids[u] # 0)
    BY <2>1, <2>2, ManifestIsKnown
  <2>4. u \in Uid
    BY <2>1, <2>2, ManifestIsKnown
  <2>5. ASSUME NEW gone, CommitOn(c, gone, 0), ids[u] # 0 PROVE ids'[u] # 0
    BY <2>1, <2>4, <2>5, CommitRemovesOne
  <2>6. RollbackOn(c) => ids' = ids
    BY DEF RollbackOn
  <2> QED
    BY <1>1, <2>1, <2>3, <2>5, <2>6
<1> QED
  BY <1>3, <1>4


(* What the kill switch of an indexer leaves running is not its executor.   *)
LEMMA KillReaches ==
    ASSUME ExecutorInv, Controllable, Alive, RevertsAlone,
           NEW u, NEW e \in KillExecutor(u), ~e.kill
    PROVE  e.uid # u /\ e \in executors
  BY KilledAreTyped DEF KillExecutor, Controllable, ExecutorInv

(* The service takes a request only when it has nothing else to do.         *)
LEMMA TakenWhenPolling ==
    ASSUME NEW u, NEW ops, Taken(u, ops)
    PROVE  service = Polling /\ (StopExecutor \/ Head(channel).op = "reload")
  BY DEF Taken, StopExecutor, TakeReload, TakeRequest

(* An executor goes on for a removed indexer only as long as the service    *)
(* has yet to hear of the removal.                                          *)
LEMMA RemovedNext ==
    ASSUME Inv, Inv', HandsInv, KeysInv, KeysInv', ControlInv, RemovedInv, [Next]_vars
    PROVE  RemovedInv'
<1>1. /\ scenario' = scenario /\ RevertsAlone' = RevertsAlone
      /\ ExecutorInv /\ ServiceInv /\ ExecutorInv' /\ ServiceInv' /\ Controllable
  BY ScenarioFixed DEF Inv, RevertsAlone, ControlInv
<1>2. CASE Restart
  <2>1. PICK new : /\ new \subseteq Registered /\ service' \in {Polling, Down}
                   /\ executors' = {[uid |-> u, n |-> 1, kill |-> FALSE,
                                     wasm |-> Newest(AssetRows(u, "wasm")).bytes] : u \in new}
    BY <1>2 DEF Restart
  <2>2. \A e \in executors' : e.uid \in Registered /\ ids' = ids
    BY <1>2, <2>1 DEF Restart, CloseOn
  <2> QED
    BY <2>1, <2>2 DEF RemovedInv, Accounted, Registered, Polling, Down
<1>3. CASE ~Restart
  <2> SUFFICES ASSUME Alive', RevertsAlone
               PROVE  /\ \A e \in executors' : e.kill \/ Accounted(e.uid)'
                      /\ (service.pc = "create" => Accounted(service.uid))'
    BY <1>1 DEF RemovedInv
  <2>1. Alive /\ (ServiceActs \/ (service' = service /\ executors' \subseteq executors))
    BY <1>3, ServiceStays
  <2>2. ASSUME NEW e \in executors, ~e.kill, ~Taken(e.uid, {"stop"}) PROVE Accounted(e.uid)'
    BY <1>1, <1>3, <2>1, <2>2, AccountedNext DEF RemovedInv, ExecutorInv
  <2>3. ASSUME service.pc = "create", NEW u, u = service.uid PROVE Accounted(u)'
    <3>1. u \in Uid /\ service # Polling
      BY <1>1, <2>3, ServiceShape DEF Polling
    <3> QED
      BY <1>3, <2>1, <2>3, <3>1, AccountedNext, TakenWhenPolling DEF RemovedInv
  <2>4. ASSUME NEW u, service # Polling \/ ~(StopExecutor \/ TakeReload \/ TakeRevert)
        PROVE  ~Taken(u, {"stop"})
    BY <2>4, TakenWhenPolling DEF Taken
  <2>5. CASE StopExecutor \/ TakeRevert
    <3>1. PICK r : /\ r = Head(channel) /\ executors' = KillExecutor(r.uid) /\ service = Polling
                   /\ service' \in {Polling, [pc |-> "acquire", conn |-> NoConn, request |-> r]}
                   /\ r.op = "stop" \/ (TakeRevert /\ r.op = "revert")
      BY <2>5 DEF StopExecutor, TakeRevert, TakeRequest
    <3>2. ASSUME NEW e \in executors', ~e.kill PROVE Accounted(e.uid)'
      <4>1. e \in executors /\ e.uid # r.uid
        BY <1>1, <2>1, <3>1, <3>2, KillReaches
      <4>2. ~Taken(e.uid, {"stop"})
        BY <3>1, <4>1 DEF Taken
      <4> QED
        BY <2>2, <3>2, <4>1, <4>2
    <3> QED
      BY <3>1, <3>2 DEF Polling
  <2>6. CASE TakeReload
    <3>1. /\ Head(channel).op = "reload" /\ executors' = executors /\ service'.pc = "acquire"
      BY <2>6 DEF TakeReload, TakeRequest
    <3>2. \A u : ~Taken(u, {"stop"})
      BY <3>1 DEF Taken, Told
    <3> QED
      BY <2>2, <3>1, <3>2
  <2>7. CASE FindIndexer
    <3>1. /\ executors' = executors /\ service # Polling
          /\ service' = Polling \/ service'.pc = "load"
      BY <2>7 DEF FindIndexer, Serving, Polling
    <3> QED
      BY <2>2, <2>4, <3>1 DEF Polling
  <2>8. CASE LoadAssets \/ RevertAssets \/ RemoveFails
    <3>1. executors' = executors /\ service # Polling
      <4>1. ~ServiceDies
        BY DEF ServiceDies, Alive, Dead
      <4> QED
        BY <2>8, <4>1 DEF LoadAssets, RevertAssets, RemoveFails, Serving, Polling
    <3>2. (service.pc = "create" => Accounted(service.uid))'
      BY <1>3, <2>8, CreatedIsAccounted DEF Accounted
    <3> QED
      BY <2>2, <2>4, <3>1, <3>2
  <2>9. CASE CreateExecutor
    <3> DEFINE new == [uid |-> service.uid, n |-> spawned[service.uid] + 1,
                       wasm |-> service.wasm, kill |-> FALSE]
    <3>1. /\ executors' \subseteq KillExecutor(service.uid) \cup executors \cup {new}
          /\ service' = Polling /\ service.pc = "create" /\ service # Polling
      BY <2>9 DEF CreateExecutor, Polling
    <3>2. ASSUME NEW e \in executors', ~e.kill PROVE Accounted(e.uid)'
      <4>1. CASE e = new
        <5>1. e.uid = service.uid
          BY <4>1
        <5> QED
          BY <2>3, <3>1, <5>1
      <4>2. CASE e # new
        <5>1. e \in executors
          BY <1>1, <2>1, <3>1, <3>2, <4>2, KillReaches
        <5> QED
          BY <2>2, <2>4, <3>1, <3>2, <5>1
      <4> QED
        BY <4>1, <4>2
    <3> QED
      BY <3>1, <3>2 DEF Polling
  <2>10. CASE service' = service /\ executors' \subseteq executors /\ ~ServiceActs
    <3>1. \A u : ~Taken(u, {"stop"})
      BY <2>10 DEF Taken, ServiceActs
    <3>2. service.pc = "create" => \A u : u = service.uid => Accounted(u)'
      BY <2>3
    <3>3. (service.pc = "create" => Accounted(service.uid))'
      BY <2>10, <3>2
    <3> QED
      BY <2>2, <2>10, <3>1, <3>3
  <2> QED
    BY <2>1, <2>5, <2>6, <2>7, <2>8, <2>9, <2>10 DEF ServiceActs
<1> QED
  BY <1>2, <1>3


-----------------------------------------------------------------------------
(* Executors of modules that were replaced.                                 *)

NoReverts == \A op \in scenario : op[1] # "revert"

(* The news of the last change of u is under way or lost, or u is removed.  *)
Informed(u) == ids[u] = 0 \/ u \in missed \/ Coming(u, {"deploy", "stop"})

(* The service is about to start u anew.                                    *)
Reloading(u) ==
    \/ service.pc = "acquire" /\ service.request.uid = u
    \/ service.pc = "load" /\ service.id = ids[u]
    \/ service.pc = "create" /\ service.uid = u

LastWasm(u) == Newest(AssetRows(u, "wasm")).bytes

LatestInv ==
    Alive /\ NoReverts =>
        /\ \A e \in executors :
              e.kill \/ Informed(e.uid) \/ Reloading(e.uid) \/ e.wasm = LastWasm(e.uid)
        /\ service.pc = "create" =>
              Informed(service.uid) \/ service.wasm = LastWasm(service.uid)

(* Nobody reverts: the service is never asked to.                           *)
LEMMA NobodyReverts ==
    ASSUME ServiceInv, NoReverts
    PROVE  /\ ~TakeRevert /\ ~RevertAssets /\ ~RemoveFails /\ RevertsAlone
           /\ service.pc = "create" => service.op = "reload"
<1>1. /\ channel \in Seq(NamedRequests) /\ ServiceNamed
      /\ \A r \in NamedRequests : r.op # "revert"
      /\ \A u : <<"revert", u>> \notin scenario
  BY DEF ServiceInv, NamedRequests, NoReverts
<1>2. ~TakeRevert
  <2>1. TakeRevert => \E i \in DOMAIN channel : channel[i].op = "revert"
    BY DEF TakeRevert
  <2> QED
    BY <1>1, <2>1
<1>3. ~RevertAssets /\ ~RemoveFails
  BY <1>1 DEF RevertAssets, RemoveFails, Serving, ServiceNamed
<1>4. service.pc = "create" => service.op = "reload"
  BY <1>1, ServiceShape
<1> QED
  BY <1>2, <1>3, <1>4 DEF NoReverts, RevertsAlone

(* Whoever changes an indexer tells the service afterwards.                 *)
LEMMA ChangesAreNews ==
    ASSUME Inv, KeysInv, HandsInv, [Next]_vars, ~Restart, NoReverts,
           NEW u \in Uid, ~Informed(u)'
    PROVE  ids'[u] = ids[u] /\ AssetRows(u, "wasm")' = AssetRows(u, "wasm")
<1>1. RegistryInv /\ ServiceInv /\ CallInv /\ ids'[u] # 0 /\ u \notin missed
  BY MissedGrows DEF Informed, Inv
<1>2. ASSUME NEW c \in Conn, NEW goneId, CommitOn(c, {}, goneId), ~Deploying(c, u)
      PROVE  ids'[u] = ids[u] /\ AssetRows(u, "wasm")' = AssetRows(u, "wasm")
  BY <1>1, <1>2, CommitIsKnown DEF Known
<1>3. ASSUME NEW cl \in Client, CommitDeploy(cl), call[cl].pc = "assets",
             CommitOn(call[cl].conn, {}, 0), GoTo(cl, "send")
      PROVE  ids'[u] = ids[u] /\ AssetRows(u, "wasm")' = AssetRows(u, "wasm")
  <2>1. /\ Deploying(call[cl].conn, u) <=> u = call[cl].uid
        /\ call[cl].conn \in Conn /\ call[cl].op = "deploy"
    BY <1>3, DeploysAlone
  <2>2. u # call[cl].uid
    <3>1. PICK x : x = [call[cl] EXCEPT !.pc = "send"]
      OBVIOUS
    <3>2. x.pc = "send" /\ x.op = "deploy" /\ x.uid = call[cl].uid
      BY <1>1, <1>3, <2>1, <3>1, CallShape
    <3>3. call'[cl] = x
      BY <1>1, <1>3, <3>1 DEF GoTo, CallInv
    <3>4. u = call[cl].uid => Coming(u, {"deploy", "stop"})'
      BY <3>2, <3>3 DEF Coming, At
    <3> QED
      BY <3>4 DEF Informed
  <2> QED
    BY <1>2, <1>3, <2>1, <2>2
<1>4. ASSUME NEW cl \in Client, NEW c \in Conn, c \notin Held, CommitOn(c, {}, IndexId(c, call[cl].uid))
      PROVE  ids'[u] = ids[u] /\ AssetRows(u, "wasm")' = AssetRows(u, "wasm")
  BY <1>2, <1>4, FreeSessions
<1>5. CASE UNCHANGED <<ids, assets>>
  BY <1>5 DEF AssetRows
<1> QED
  BY <1>1, <1>3, <1>4, <1>5, NobodyReverts, RegistrySteps

(* News under way stays under way until the service takes it.               *)
LEMMA NewsNext ==
    ASSUME Inv, KeysInv, HandsInv, [Next]_vars, ~Restart, Alive', NoReverts, NEW u \in Uid
    PROVE  \/ Informed(u)'
           \/ /\ ids'[u] = ids[u] /\ LastWasm(u)' = LastWasm(u)
              /\ Informed(u) => Taken(u, {"deploy", "stop"})
<1> SUFFICES ASSUME ~Informed(u)'
             PROVE  /\ ids'[u] = ids[u] /\ LastWasm(u)' = LastWasm(u)
                    /\ Informed(u) => Taken(u, {"deploy", "stop"})
  OBVIOUS
<1>1. ids'[u] = ids[u] /\ LastWasm(u)' = LastWasm(u)
  BY ChangesAreNews DEF LastWasm
<1>2. Coming(u, {"deploy", "stop"}) => Taken(u, {"deploy", "stop"})
  BY ComingNext DEF Informed
<1>3. u \notin missed
  BY MissedGrows DEF Informed
<1> QED
  BY <1>1, <1>2, <1>3 DEF Informed

(* What a reload finds is what the registry has last, unless somebody knows *)
(* better.                                                                  *)
LEMMA LoadedIsLast ==
    ASSUME Inv, HandsInv, KeysInv, NEW c \in Conn, c \notin {call[cl].conn : cl \in Client},
           NEW u \in Uid, u \notin missed, ids[u] # 0
    PROVE  LatestAsset(c, "wasm", ids[u]).bytes = LastWasm(u)
<1>1. ~Known(c, u)
  BY DEF Known, Deploying
<1>2. IndexId(c, u) = ids[u]
  BY DEF IndexId, KeysInv, IdsAreKeys
<1>3. \A a \in pending[c].assets : a.index # ids[u]
  BY <1>1, <1>2 DEF KeysInv, PendingRows
<1>4. AssetsOf(c, "wasm", ids[u]) = AssetRows(u, "wasm")
  BY <1>3 DEF AssetsOf, AssetRows
<1> QED
  BY <1>4 DEF LatestAsset, LastWasm


(* An executor goes on with a module that was replaced only as long as the  *)
(* service has yet to hear of the change, or to finish what it heard of.    *)
LEMMA LatestNext ==
    ASSUME Inv, Inv', HandsInv, KeysInv, ControlInv, LatestInv, [Next]_vars
    PROVE  LatestInv'
<1>1. /\ scenario' = scenario /\ NoReverts' = NoReverts /\ RegistryInv
      /\ ExecutorInv /\ ServiceInv /\ ExecutorInv' /\ ServiceInv' /\ Controllable
  BY ScenarioFixed DEF Inv, NoReverts, ControlInv
<1>2. CASE Restart
  <2>1. PICK new : /\ new \subseteq Registered /\ service' \in {Polling, Down}
                   /\ executors' = {[uid |-> u, n |-> 1, kill |-> FALSE,
                                     wasm |-> Newest(AssetRows(u, "wasm")).bytes] : u \in new}
    BY <1>2 DEF Restart
  <2>2. \A u : LastWasm(u)' = LastWasm(u)
    BY <1>2 DEF Restart, CloseOn, LastWasm, AssetRows
  <2>3. \A e \in executors' : e.wasm = LastWasm(e.uid)
    BY <2>1 DEF LastWasm
  <2> QED
    BY <2>1, <2>2, <2>3 DEF LatestInv, Polling, Down
<1>3. CASE ~Restart
  <2> SUFFICES ASSUME Alive', NoReverts
               PROVE  /\ \A e \in executors' : \/ e.kill \/ Informed(e.uid)' \/ Reloading(e.uid)'
                                               \/ e.wasm = LastWasm(e.uid)'
                      /\ (service.pc = "create" =>
                             Informed(service.uid) \/ service.wasm = LastWasm(service.uid))'
    BY <1>1 DEF LatestInv
  <2>1. Alive /\ (ServiceActs \/ (service' = service /\ executors' \subseteq executors))
    BY <1>3, ServiceStays
  <2>2. ~TakeRevert /\ ~RevertAssets /\ ~RemoveFails /\ RevertsAlone /\ ~ServiceDies
    BY <1>1, NobodyReverts DEF ServiceDies, Alive, Dead
  <2>3. ASSUME NEW e \in executors, ~e.kill, ~Taken(e.uid, {"deploy", "stop"}), ~Informed(e.uid)'
        PROVE  /\ Reloading(e.uid) \/ e.wasm = LastWasm(e.uid)'
               /\ ids'[e.uid] = ids[e.uid] /\ ids[e.uid] # 0 /\ e.uid \in Uid /\ e.uid \notin missed
    <3>1. e.uid \in Uid /\ (Informed(e.uid) \/ Reloading(e.uid) \/ e.wasm = LastWasm(e.uid))
      BY <1>1, <2>1, <2>3 DEF LatestInv, ExecutorInv
    <3>2. ids'[e.uid] = ids[e.uid] /\ LastWasm(e.uid)' = LastWasm(e.uid) /\ ~Informed(e.uid)
      BY <1>3, <2>3, <3>1, NewsNext
    <3> QED
      BY <3>1, <3>2 DEF Informed
  <2>4. ASSUME service.pc = "create", NEW u, u = service.uid
        PROVE  Informed(u)' \/ service.wasm = LastWasm(u)'
    <3>1. u \in Uid /\ service # Polling
      BY <1>1, <2>4, ServiceShape DEF Polling
    <3> QED
      BY <1>3, <2>1, <2>4, <3>1, NewsNext, TakenWhenPolling DEF LatestInv
  <2>5. CASE StopExecutor
    <3>1. PICK r : /\ r = Head(channel) /\ executors' = KillExecutor(r.uid)
                   /\ service = Polling /\ service' = service
      BY <2>5 DEF StopExecutor, TakeRequest
    <3>2. ASSUME NEW e \in executors', ~e.kill, ~Informed(e.uid)' PROVE e.wasm = LastWasm(e.uid)'
      <4>1. e \in executors /\ e.uid # r.uid
        BY <1>1, <2>1, <2>2, <3>1, <3>2, KillReaches
      <4>2. ~Taken(e.uid, {"deploy", "stop"}) /\ ~Reloading(e.uid)
        BY <3>1, <4>1 DEF Taken, Reloading, Polling
      <4> QED
        BY <2>3, <3>2, <4>1, <4>2
    <3> QED
      BY <3>1, <3>2 DEF Polling
  <2>6. CASE TakeReload
    <3>1. PICK r : /\ r = Head(channel) /\ executors' = executors /\ service = Polling
                   /\ service' = [pc |-> "acquire", conn |-> NoConn, request |-> r]
      BY <2>6 DEF TakeReload, TakeRequest
    <3>2. ASSUME NEW e \in executors, ~e.kill, ~Informed(e.uid)', e.uid # r.uid
          PROVE  e.wasm = LastWasm(e.uid)'
      <4>1. ~Taken(e.uid, {"deploy", "stop"}) /\ ~Reloading(e.uid)
        BY <3>1, <3>2 DEF Taken, Reloading, Polling
      <4> QED
        BY <2>3, <3>2, <4>1
    <3>3. \A e \in executors : e.uid = r.uid => Reloading(e.uid)'
      BY <3>1 DEF Reloading
    <3> QED
      BY <3>1, <3>2, <3>3
  <2>7. ASSUME service # Polling, NEW u PROVE ~Taken(u, {"deploy", "stop"})
    BY <2>7, TakenWhenPolling
  <2>8. CASE FindIndexer
    <3>1. PICK c \in Conn :
             /\ c \notin Held /\ service.pc = "acquire" /\ service # Polling
             /\ executors' = executors /\ OpenOn(c)
             /\ \/ /\ session[c] # "aborted" /\ IndexId(c, service.request.uid) # 0
                   /\ service' = [pc |-> "load", conn |-> c, id |-> IndexId(c, service.request.uid)]
                \/ /\ session[c] # "aborted" => IndexId(c, service.request.uid) = 0
                   /\ service' = Polling
                   /\ session[c] = "aborted" => missed' = missed \cup {service.request.uid}
      BY <2>8 DEF FindIndexer, Serving, Acquirable, Polling
    <3>2. ASSUME NEW e \in executors, ~e.kill, ~Informed(e.uid)', ~(e.wasm = LastWasm(e.uid)')
          PROVE  Reloading(e.uid)'
      <4>1. /\ Reloading(e.uid) /\ e.uid \in Uid
            /\ ids'[e.uid] = ids[e.uid] /\ ids[e.uid] # 0 /\ e.uid \notin missed
        BY <2>3, <2>7, <3>1, <3>2
      <4>2. e.uid = service.request.uid
        BY <3>1, <4>1 DEF Reloading
      <4>3. pending[c].ids[e.uid] = 0
        BY <3>1, <4>1, FreeSessions DEF KeysInv, IdsAreKeys, Known
      <4>4. IndexId(c, e.uid) = ids[e.uid]
        BY <4>3 DEF IndexId
      <4>5. e.uid \notin missed'
        BY <3>2 DEF Informed
      <4>6. service' = [pc |-> "load", conn |-> c, id |-> ids[e.uid]]
        BY <3>1, <4>1, <4>2, <4>4, <4>5
      <4> QED
        BY <4>1, <4>6 DEF Reloading
    <3> QED
      BY <3>1, <3>2 DEF Polling
  <2>9. CASE LoadAssets
    <3> DEFINE c == service.conn
               i == service.id
    <3>1. /\ service.pc = "load" /\ service # Polling /\ HasAssets(c, i)
          /\ executors' = executors /\ UNCHANGED <<ids, assets, missed>>
          /\ service' = [pc   |-> "create", conn |-> c, op |-> "reload",
                         uid  |-> LatestAsset(c, "manifest", i).bytes,
                         wasm |-> LatestAsset(c, "wasm", i).bytes]
      BY <2>2, <2>9 DEF LoadAssets, registryVars, Polling
    <3>2. c \in Conn /\ c \notin {call[cl].conn : cl \in Client}
      BY <1>1, <3>1, ServiceShape, ServiceAssumption DEF HandsInv, Exclusive
    <3>3. PICK v : v = LatestAsset(c, "manifest", i).bytes
      OBVIOUS
    <3>4. /\ v \in missed \/ (ids[v] = i /\ ids[v] # 0)
          /\ v \in Uid /\ \A u \in Uid : ids[u] = i /\ ids[u] # 0 => u = v
      BY <3>1, <3>2, <3>3, ManifestIsKnown
    <3> HIDE DEF c, i
    <3>5. ASSUME NEW e \in executors, ~e.kill, ~Informed(e.uid)', ~(e.wasm = LastWasm(e.uid)')
          PROVE  Reloading(e.uid)'
      <4>1. /\ Reloading(e.uid) /\ e.uid \in Uid /\ ids[e.uid] # 0
        BY <2>3, <2>7, <3>1, <3>5
      <4>2. ids[e.uid] = i
        BY <3>1, <4>1 DEF Reloading, i
      <4>3. service'.pc = "create" /\ service'.uid = e.uid
        BY <3>1, <3>3, <3>4, <4>1, <4>2
      <4> QED
        BY <4>3 DEF Reloading
    <3>6. v \notin missed => service'.wasm = LastWasm(v)
      BY <3>1, <3>2, <3>4, LoadedIsLast
    <3>7. LastWasm(v)' = LastWasm(v) /\ (v \in missed => Informed(v)')
      BY <3>1 DEF LastWasm, AssetRows, Informed
    <3>8. service'.uid = v
      BY <3>1, <3>3
    <3>9. (service.pc = "create" => Informed(service.uid) \/ service.wasm = LastWasm(service.uid))'
      BY <3>6, <3>7, <3>8
    <3> QED
      BY <3>1, <3>5, <3>9
  <2>10. CASE CreateExecutor
    <3> DEFINE new == [uid |-> service.uid, n |-> spawned[service.uid] + 1,
                       wasm |-> service.wasm, kill |-> FALSE]
    <3>1. /\ service.pc = "create" /\ service.op = "reload" /\ service' = Polling /\ service # Polling
          /\ executors' = KillExecutor(service.uid) \cup {new}
      BY <1>1, <2>10, NobodyReverts DEF CreateExecutor, Polling
    <3>2. new.uid = service.uid /\ new.wasm = service.wasm
      OBVIOUS
    <3> HIDE DEF new
    <3>3. ASSUME NEW e \in executors', ~e.kill, ~Informed(e.uid)' PROVE e.wasm = LastWasm(e.uid)'
      <4>1. CASE e = new
        BY <2>4, <3>1, <3>2, <3>3, <4>1
      <4>2. CASE e # new
        <5>1. e \in executors /\ e.uid # service.uid
          BY <1>1, <2>1, <2>2, <3>1, <3>3, <4>2, KillReaches
        <5>2. ~Reloading(e.uid)
          BY <3>1, <5>1 DEF Reloading
        <5> QED
          BY <2>3, <2>7, <3>1, <3>3, <5>1, <5>2
      <4> QED
        BY <4>1, <4>2
    <3> QED
      BY <3>1, <3>3 DEF Polling
  <2>11. CASE service' = service /\ executors' \subseteq executors /\ ~ServiceActs
    <3>1. \A u : ~Taken(u, {"deploy", "stop"})
      BY <2>11 DEF Taken, ServiceActs
    <3>2. ASSUME NEW e \in executors', ~e.kill, ~Informed(e.uid)', ~(e.wasm = LastWasm(e.uid)')
          PROVE  Reloading(e.uid)'
      <4>1. Reloading(e.uid) /\ ids'[e.uid] = ids[e.uid]
        BY <2>3, <2>11, <3>1, <3>2
      <4> QED
        BY <2>11, <4>1 DEF Reloading
    <3>3. service.pc = "create" =>
             \A u : u = service.uid => Informed(u)' \/ service.wasm = LastWasm(u)'
      BY <2>4
    <3>4. (service.pc = "create" => Informed(service.uid) \/ service.wasm = LastWasm(service.uid))'
      BY <2>11, <3>3
    <3> QED
      BY <3>2, <3>4
  <2> QED
    BY <2>1, <2>2, <2>5, <2>6, <2>8, <2>9, <2>10, <2>11 DEF ServiceActs
<1> QED
  BY <1>2, <1>3

-----------------------------------------------------------------------------
(* The theorems.                                                            *)

NewsInv == Inv /\ ControlInv /\ HandsInv /\ KeysInv /\ RemovedInv /\ LatestInv

(* Before the first call the registry is empty and nobody has a connection. *)
LEMMA NewsInit == Init => NewsInv
<1> SUFFICES ASSUME Init PROVE NewsInv
  OBVIOUS
<1>1. Inv /\ executors = {} /\ service = Polling /\ \A cl \in Client : call[cl] = NoCall
  BY InvInit DEF Init
<1>2. ControlInv /\ RemovedInv /\ LatestInv
  BY <1>1 DEF ControlInv, Controllable, RevertKilledFirst, RemovedInv, LatestInv, Polling
<1>3. HandsInv
  BY <1>1 DEF HandsInv, Exclusive, DeploysAreOpen, NoCall
<1>4. KeysInv
  BY DEF Init, RegistryInit, KeysInv, IdsAreKeys, RowsHaveIndexers, PendingRows, NoWrites
<1> QED
  BY <1>1, <1>2, <1>3, <1>4 DEF NewsInv

(* Every step keeps it.                                                     *)
LEMMA NewsInvNext == NewsInv /\ [Next]_vars => NewsInv'
<1> SUFFICES ASSUME NewsInv, [Next]_vars PROVE NewsInv'
  OBVIOUS
<1>1. Inv' /\ ControlInv'
  BY InvNext, ControlNext DEF NewsInv
<1>2. HandsInv'
  BY HandsNext DEF NewsInv
<1>3. KeysInv'
  BY <1>1, KeysNext DEF NewsInv
<1> QED
  BY <1>1, <1>2, <1>3, RemovedNext, LatestNext DEF NewsInv

(* When everything has been dealt with, no executor goes on for an indexer  *)
(* that was removed, unless the news of its removal was lost.               *)
THEOREM RemovedIndexersStop == Spec => []RemovedStops
<1>1. NewsInv => RemovedStops
  <2> SUFFICES ASSUME NewsInv, Quiescent, Alive, RevertsAlone, NEW e \in executors
               PROVE  e.kill \/ ids[e.uid] # 0 \/ e.uid \in missed
    BY DEF RemovedStops
  <2>1. ~Coming(e.uid, {"stop"})
    BY DEF Quiescent, Coming, At, NoCall
  <2> QED
    BY <2>1 DEF NewsInv, RemovedInv, Accounted
<1> QED
  BY <1>1, NewsInit, NewsInvNext, PTL DEF Spec

(* When everything has been dealt with, and nobody reverts, every executor  *)
(* runs the module the registry has last.                                   *)
THEOREM LatestModulesRun == Spec => []LatestRuns
<1>1. NewsInv => LatestRuns
  <2> SUFFICES ASSUME NewsInv, Quiescent, Alive, NoReverts, NEW e \in executors
               PROVE  \/ e.kill \/ e.uid \in missed \/ ids[e.uid] = 0
                      \/ e.wasm = Newest(AssetRows(e.uid, "wasm")).bytes
    BY DEF LatestRuns, NoReverts
  <2>1. ~Coming(e.uid, {"deploy", "stop"})
    BY DEF Quiescent, Coming, At, NoCall
  <2>2. ~Reloading(e.uid)
    BY DEF Quiescent, Reloading, Polling, Dead, Down
  <2> QED
    BY <2>1, <2>2 DEF NewsInv, LatestInv, Informed, LastWasm
<1> QED
  BY <1>1, NewsInit, NewsInvNext, PTL DEF Spec

=============================================================================

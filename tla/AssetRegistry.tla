----------------------------- MODULE AssetRegistry -----------------------------
(***************************************************************************)
(* The registry of indexers and of their assets (index_registry and the    *)
(* index_asset_registry_* tables), as the web API and the indexer service  *)
(* use it through the queries of fuel-indexer-database, over the pool of   *)
(* connections they share.                                                 *)
(*                                                                         *)
(* Transactions are BEGIN, COMMIT and ROLLBACK sent as plain statements on *)
(* a pooled connection.  A handler that returns early gives a connection   *)
(* back in the middle of its transaction, and the next handler goes on     *)
(* with it: every session is part of the state.                            *)
(***************************************************************************)
EXTENDS Integers, FiniteSets, TLC

CONSTANTS
    Conn,       \* connections the pool may open
    Uid,        \* indexers: namespace and identifier
    Wasm        \* modules that may be deployed

(* In the order of the form that `forc index deploy` sends.                *)
Tables == <<"manifest", "schema", "wasm">>
Table == {"manifest", "schema", "wasm"}

VARIABLES
    ids,        \* [Uid -> Nat]: index_registry, 0 for an unregistered indexer
    assets,     \* the committed rows of the three asset tables
    nextId,     \* [Table \cup {"index"} -> Nat]: the sequences of the row ids
    session,    \* [Conn -> SessionState], as in ExecutorDatabase
    pending     \* [Conn -> Writes]: what the open transaction of a session wrote

registryVars == <<ids, assets, nextId, session, pending>>

SessionState == {"closed", "clean", "open", "aborted"}

Asset == [table : Table, id : Nat, index : Nat, version : Nat, bytes : Uid \cup Wasm]

Writes == [ids : [Uid -> Nat], assets : SUBSET Asset]
NoWrites == [ids |-> [u \in Uid |-> 0], assets |-> {}]

RegistryTypeOK ==
    /\ ids \in [Uid -> Nat]
    /\ assets \subseteq Asset
    /\ nextId \in [Table \cup {"index"} -> Nat]
    /\ session \in [Conn -> SessionState]
    /\ pending \in [Conn -> Writes]

RegistryInit ==
    /\ ids = [u \in Uid |-> 0]
    /\ assets = {}
    /\ nextId = [t \in Table \cup {"index"} |-> 1]
    /\ session = [c \in Conn |-> "closed"]
    /\ pending = [c \in Conn |-> NoWrites]

-----------------------------------------------------------------------------
(* Queries: what a statement on connection c returns.                      *)

(* index_id_for, index_is_registered                                       *)
IndexId(c, u) == IF pending[c].ids[u] # 0 THEN pending[c].ids[u] ELSE ids[u]

AssetsOf(c, t, i) ==
    {a \in assets \cup pending[c].assets : a.table = t /\ a.index = i}

Newest(as) == CHOOSE a \in as : \A b \in as : b.id <= a.id

(* Mutant: the oldest row is taken for the latest.                         *)
OldestAsset(c, t, i) ==
    CHOOSE a \in AssetsOf(c, t, i) : \A b \in AssetsOf(c, t, i) : a.id <= b.id

(* ORDER BY id DESC LIMIT 1                                                *)
LatestAsset(c, t, i) == Newest(AssetsOf(c, t, i))

(* latest_assets_for_index finds a row in every table.                     *)
HasAssets(c, i) == \A t \in Table : AssetsOf(c, t, i) # {}

(* ORDER BY id DESC LIMIT 1 OFFSET 1                                       *)
HasPenultimate(c, t, i) == Cardinality(AssetsOf(c, t, i)) > 1
PenultimateAsset(c, t, i) ==
    Newest(AssetsOf(c, t, i) \ {LatestAsset(c, t, i)})

(* Another transaction has inserted indexer u and has not ended: an INSERT *)
(* of u waits for it, because (namespace, identifier) is UNIQUE.           *)
InsertWaits(c, u) ==
    \E d \in Conn \ {c} : session[d] = "open" /\ pending[d].ids[u] # 0

-----------------------------------------------------------------------------
(* Statements on connection c.                                             *)

BeginOn(c) == session' = [session EXCEPT ![c] = "open"]

InsertIndex(c, u) ==
    /\ pending' = [pending EXCEPT ![c].ids[u] = nextId["index"]]
    /\ nextId' = [nextId EXCEPT !["index"] = @ + 1]
    /\ UNCHANGED <<ids, assets, session>>

(* A statement fails inside a transaction.                                 *)
AbortOn(c) ==
    /\ session' = [session EXCEPT ![c] = "aborted"]
    /\ pending' = [pending EXCEPT ![c] = NoWrites]
    /\ UNCHANGED <<ids, assets, nextId>>

(* register_index_asset for a registered indexer: an asset whose digest is *)
(* known is left as it is, another one is numbered by the count of the rows plus 1.           *)
RegisterIndexAsset(c, u, t, bytes) ==
    LET i   == IndexId(c, u)
        old == AssetsOf(c, t, i)
        new == [table |-> t, id |-> nextId[t], index |-> i,
                version |-> Cardinality(old) + 1, bytes |-> bytes]
    IN  /\ IF \E a \in old : a.bytes = bytes
           THEN UNCHANGED <<pending, nextId>>
           ELSE /\ pending' = [pending EXCEPT ![c].assets = @ \cup {new}]
                /\ nextId' = [nextId EXCEPT ![t] = @ + 1]
        /\ UNCHANGED <<ids, assets, session>>

(* COMMIT of the open transaction of c, after its deletions of the assets  *)
(* `gone` and of the indexer `goneId` (0 for none), whose assets cascade.  *)
(* The foreign keys of the assets are checked now.                         *)
CommittedIds(c, goneId) ==
    [u \in Uid |-> IF IndexId(c, u) = goneId THEN 0 ELSE IndexId(c, u)]
CommittedAssets(c, gone, goneId) ==
    {a \in assets \cup pending[c].assets : a \notin gone /\ a.index # goneId}

(* Mutant: the foreign keys are not checked.                               *)
KeysUnchecked(c, goneId) == TRUE

KeysHold(c, goneId) ==
    \A a \in pending[c].assets :
        a.index # goneId => \E u \in Uid : CommittedIds(c, goneId)[u] = a.index

CommitOn(c, gone, goneId) ==
    /\ KeysHold(c, goneId)
    /\ ids' = CommittedIds(c, goneId)
    /\ assets' = CommittedAssets(c, gone, goneId)
    /\ session' = [session EXCEPT ![c] = "clean"]
    /\ pending' = [pending EXCEPT ![c] = NoWrites]
    /\ UNCHANGED nextId

(* ROLLBACK, or a COMMIT that was refused.                                 *)
RollbackOn(c) ==
    /\ session' = [session EXCEPT ![c] = "clean"]
    /\ pending' = [pending EXCEPT ![c] = NoWrites]
    /\ UNCHANGED <<ids, assets, nextId>>

(* The pool closes a connection, or Postgres all of them.                  *)
CloseOn(cs) ==
    /\ session' = [c \in Conn |-> IF c \in cs THEN "closed" ELSE session[c]]
    /\ pending' = [c \in Conn |-> IF c \in cs THEN NoWrites ELSE pending[c]]
    /\ UNCHANGED <<ids, assets, nextId>>

=============================================================================

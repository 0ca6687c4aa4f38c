--------------------------- MODULE ExecutorDatabase ---------------------------
(***************************************************************************)
(* The database handle of one executor: `Database` of                      *)
(* packages/fuel-indexer/src/database.rs, over the connection pool that    *)
(* `IndexerConnectionPool::connect` opens for it and the Postgres sessions *)
(* at the other end of the connections.                                    *)
(*                                                                         *)
(* BEGIN, COMMIT and ROLLBACK are sent as plain statements.  The pool does *)
(* not know about them: a connection that is dropped in the middle of a    *)
(* transaction goes back to the pool and keeps its session as it is, which *)
(* is why the state of every session is part of the model and not only the *)
(* one behind the stashed connection.                                      *)
(***************************************************************************)
EXTENDS Naturals

CONSTANTS
    Conn,       \* connections the pool may open
    NoConn,     \* `stashed: None`
    Key         \* rows a handler may upsert: (table, id) pairs

ASSUME ConnAssumption == NoConn \notin Conn

VARIABLES
    session,    \* [Conn -> SessionState]: the Postgres session of a connection
    pending,    \* [Conn -> [Key -> Nat]]: rows written by its open transaction
    stashed,    \* the connection that `Database.stashed` holds, or NoConn
    rows        \* [Key -> Nat]: the committed rows, 0 for a row that is absent

dbVars == <<session, pending, stashed, rows>>

(* "closed" connections are the ones the pool has not opened (or has       *)
(* closed); an "aborted" session has seen a statement fail inside its      *)
(* transaction and rejects every statement but COMMIT and ROLLBACK.        *)
SessionState == {"closed", "clean", "open", "aborted"}

NoRows == [k \in Key |-> 0]

DbTypeOK ==
    /\ session \in [Conn -> SessionState]
    /\ pending \in [Conn -> [Key -> Nat]]
    /\ stashed \in Conn \cup {NoConn}
    /\ rows \in [Key -> Nat]

DbInit ==
    /\ session = [c \in Conn |-> "closed"]
    /\ pending = [c \in Conn |-> NoRows]
    /\ stashed = NoConn
    /\ rows = NoRows

-----------------------------------------------------------------------------
(* The pool.  Every open connection but the stashed one is idle in it.     *)

Idle == {c \in Conn \ {stashed} : session[c] # "closed"}

(* `pool.acquire()` hands out an idle connection, and opens one when none  *)
(* is idle.                                                                *)
Acquirable(c) ==
    /\ c \in Conn \ {stashed}
    /\ Idle # {} => c \in Idle

(* Mutant: connections that hold a transaction are never closed.           *)
ReapCleanOnly(c) ==
    /\ c \in Idle /\ session[c] = "clean"
    /\ session' = [session EXCEPT ![c] = "closed"]
    /\ UNCHANGED <<pending, stashed, rows>>

(* The pool closes a connection that was idle for too long; Postgres rolls *)
(* back what its session had not committed and frees its row locks.        *)
ReapIdle(c) ==
    /\ c \in Idle
    /\ session' = [session EXCEPT ![c] = "closed"]
    /\ pending' = [pending EXCEPT ![c] = NoRows]
    /\ UNCHANGED <<stashed, rows>>

(* The `Database` is dropped and its pool with it.                         *)
DropDatabase ==
    /\ session' = [c \in Conn |-> "closed"]
    /\ pending' = [c \in Conn |-> NoRows]
    /\ stashed' = NoConn
    /\ UNCHANGED rows

-----------------------------------------------------------------------------
(* The operations of `Database`.                                           *)

(* A BEGIN inside a transaction is only a warning to Postgres: the session *)
(* keeps what it had written.  A connection stashed before is dropped.     *)
StartTransaction(c) ==
    /\ Acquirable(c)
    /\ session[c] # "aborted"
    /\ session' = [session EXCEPT ![c] = "open"]
    /\ stashed' = c
    /\ UNCHANGED <<pending, rows>>

(* No connection within the pool's timeout, or BEGIN refused by an aborted *)
(* session: the error leaves before `stashed` is assigned.                 *)
StartTransactionFails ==
    UNCHANGED dbVars

(* What a SELECT on the stashed connection returns for row k.              *)
Visible(k) ==
    IF pending[stashed][k] > 0 THEN pending[stashed][k] ELSE rows[k]

(* What `get_object` loads of row k.  A row's value is that of its columns; *)
(* its `object`, which is what is loaded, is no column of the module's, so *)
(* ON CONFLICT updates all but it and it stays as the first save wrote it, *)
(* which is 1.                                                             *)
Loaded(k) == IF Visible(k) > 0 THEN 1 ELSE 0

(* Another transaction that wrote row k and has not ended makes an upsert  *)
(* of k wait.                                                              *)
Locked(k) ==
    \E c \in Conn \ {stashed} : session[c] = "open" /\ pending[c][k] > 0

(* INSERT ... ON CONFLICT(id) DO UPDATE on the stashed connection.         *)
PutObject(k, value) ==
    /\ stashed \in Conn /\ session[stashed] = "open"
    /\ ~Locked(k)
    /\ pending' = [pending EXCEPT ![stashed][k] = value]
    /\ UNCHANGED <<session, stashed, rows>>

(* A statement that fails on the stashed connection aborts its transaction.*)
(* `get_object` returns None then and the handler goes on; `put_object`    *)
(* panics.                                                                 *)
StatementFails ==
    /\ stashed \in Conn
    /\ session' = [session EXCEPT ![stashed] = "aborted"]
    /\ pending' = [pending EXCEPT ![stashed] = NoRows]
    /\ UNCHANGED <<stashed, rows>>

(* `stashed.take()`, then COMMIT: on an aborted session Postgres rolls     *)
(* back and reports no error.                                              *)
CommitTransaction ==
    /\ stashed \in Conn
    /\ rows' = [k \in Key |-> Visible(k)]
    /\ pending' = [pending EXCEPT ![stashed] = NoRows]
    /\ session' = [session EXCEPT ![stashed] = "clean"]
    /\ stashed' = NoConn

(* COMMIT fails with the connection: before Postgres ran it, or after it   *)
(* ran it and before the reply arrived.                                    *)
CommitTransactionFails ==
    /\ stashed \in Conn
    /\ \/ UNCHANGED rows
       \/ rows' = [k \in Key |-> Visible(k)]
    /\ pending' = [pending EXCEPT ![stashed] = NoRows]
    /\ session' = [session EXCEPT ![stashed] = "closed"]
    /\ stashed' = NoConn

(* `stashed.take()`, then ROLLBACK.                                        *)
RevertTransaction ==
    /\ stashed \in Conn
    /\ pending' = [pending EXCEPT ![stashed] = NoRows]
    /\ session' = [session EXCEPT ![stashed] = "clean"]
    /\ stashed' = NoConn
    /\ UNCHANGED rows

=============================================================================

------------------------- MODULE ExecutorBatch_proofs -------------------------
(* Proofs about the batches of Executor: what is committed together, and    *)
(* that a batch which is tried again is not applied again.                  *)
EXTENDS Executor_proofs

-----------------------------------------------------------------------------
(* A transaction is left open by a host panic only.                         *)

Undisturbed == faults = MaxFaults \/ "panic" \notin Faults

(* Until a host panics nothing is written outside the running handler.      *)
SessionsQuiet ==
    Undisturbed =>
        \A c \in Conn : pc # "handle" \/ c # stashed => pending[c] = NoRows

HandlerHasConnection == pc = "handle" => stashed \in Conn

EntitySavedInPage == entitySaved => StartBlock <= at /\ at <= pageEnd

BatchInv ==
    TypeInv /\ OnlyOpenSessionsWrite /\ SessionsQuiet /\ HandlerHasConnection /\ EntitySavedInPage

(* A `Database` starts without a transaction.                               *)
LEMMA BatchInit == Init => BatchInv
  BY TypeInit DEF Init, DbInit, BatchInv, OnlyOpenSessionsWrite, SessionsQuiet,
                  HandlerHasConnection, EntitySavedInPage

(* Sessions that are not in a transaction have written nothing.             *)
LEMMA OnlyOpenStays ==
    ASSUME TypeOK, OnlyOpenSessionsWrite
    PROVE  /\ \A c \in Conn : ReapIdle(c) => OnlyOpenSessionsWrite'
           /\ DropDatabase => OnlyOpenSessionsWrite'
           /\ \A c \in Conn : StartTransaction(c) => OnlyOpenSessionsWrite'
           /\ \A k, v : PutObject(k, v) => OnlyOpenSessionsWrite'
           /\ StatementFails => OnlyOpenSessionsWrite'
           /\ CommitTransaction => OnlyOpenSessionsWrite'
           /\ CommitTransactionFails => OnlyOpenSessionsWrite'
           /\ RevertTransaction => OnlyOpenSessionsWrite'
<1> USE DEF TypeOK, DbTypeOK, OnlyOpenSessionsWrite
<1>1. \A c \in Conn : ReapIdle(c) => OnlyOpenSessionsWrite'
  BY DEF ReapIdle
<1>2. DropDatabase => OnlyOpenSessionsWrite'
  BY DEF DropDatabase
<1>3. \A c \in Conn : StartTransaction(c) => OnlyOpenSessionsWrite'
  BY DEF StartTransaction
<1>4. \A k, v : PutObject(k, v) => OnlyOpenSessionsWrite'
  BY DEF PutObject
<1>5. StatementFails => OnlyOpenSessionsWrite'
  BY DEF StatementFails
<1>6. CommitTransaction => OnlyOpenSessionsWrite'
  BY DEF CommitTransaction
<1>7. CommitTransactionFails => OnlyOpenSessionsWrite'
  BY DEF CommitTransactionFails
<1>8. RevertTransaction => OnlyOpenSessionsWrite'
  BY DEF RevertTransaction
<1> QED
  BY <1>1, <1>2, <1>3, <1>4, <1>5, <1>6, <1>7, <1>8

(* Only a commit at the end of a page changes what is committed.            *)
CommitsPage ==
    /\ pc = "handle" /\ at > pageEnd
    /\ CommitsWrites
    /\ UNCHANGED <<loopVars, pageVars, config, tip>>
    /\ \/ pc' = "check" /\ faults' = faults
       \/ pc' = "failed" /\ faults' = faults - 1

LEMMA RowsChange ==
    ASSUME TypeOK, [Next]_vars
    PROVE  rows' = rows \/ CommitsPage
<1> USE DEF loopVars, pageVars, envVars
<1>1. UNCHANGED dbVars => rows' = rows
  BY DEF dbVars
<1>2. DropDatabase => rows' = rows
  BY DEF DropDatabase
<1>3. CASE UNCHANGED vars
  BY <1>1, <1>3 DEF vars
<1>4. CASE ProduceBlock \/ Kill \/ FetchPage \/ FetchFails \/ BeginFails \/ SkipBlock
           \/ HandlerSkips \/ RetryBatch
  BY <1>1, <1>4
  DEF ProduceBlock, Kill, FetchPage, FetchFails, Fetched, BeginFails, StartTransactionFails,
      SkipBlock, HandlerSkips, RetryBatch
<1>5. CASE ReapConnection \/ BeginTransaction \/ LoadFails \/ HandlerTraps
  BY <1>5
  DEF ReapConnection, ReapIdle, BeginTransaction, StartTransaction, LoadFails,
      StatementFails, HandlerTraps, RevertTransaction
<1>6. CASE SaveEntity \/ SaveMetadata
  BY <1>1, <1>6 DEF SaveEntity, SaveMetadata, PutObject
<1>7. CASE PutPanics \/ PanicInHost
  BY <1>1, <1>2, <1>7 DEF PutPanics, PanicInHost, HostPanics
<1>8. CASE GiveUp \/ FinishBatch \/ Restart
  BY <1>1, <1>2, <1>8 DEF GiveUp, FinishBatch, Restart
<1>9. CASE CommitBatch
  BY <1>9 DEF CommitBatch, CommitTransaction, CommitsPage, CommitsWrites, TypeOK, DbTypeOK
<1>10. CASE CommitFails
  BY <1>10 DEF CommitFails, SpendFault, CommitTransactionFails, CommitsPage, CommitsWrites,
               TypeOK, DbTypeOK
<1> QED
  BY <1>3, <1>4, <1>5, <1>6, <1>7, <1>8, <1>9, <1>10 DEF Next, Step, Failure

(* What a step that leads into the handler, or stays in it, does to the      *)
(* handler's own transaction.                                                *)
StaysInHandler ==
    /\ pc = "handle" /\ stashed' = stashed /\ pending'[stashed] = pending[stashed]
    /\ UNCHANGED <<rows, pageEnd, at, entitySaved>>

LEMMA HandlerSteps ==
    ASSUME BatchInv, [Next]_vars, pc' = "handle"
    PROVE  \/ StaysInHandler
           \/ BeginTransaction \/ SkipBlock \/ SaveEntity \/ SaveMetadata
           \/ LoadFails \/ HandlerSkips
<1> USE DEF pageVars, loopVars, envVars
<1>1. CASE UNCHANGED vars
  BY <1>1 DEF vars, dbVars, StaysInHandler
<1>2. CASE ProduceBlock \/ Kill
  BY <1>2 DEF ProduceBlock, Kill, dbVars, StaysInHandler
<1>3. CASE ReapConnection
  <2>1. pc = "handle" /\ stashed \in Conn
    BY <1>3 DEF ReapConnection, BatchInv, HandlerHasConnection
  <2> QED
    BY <1>3, <2>1 DEF ReapConnection, ReapIdle, Idle, StaysInHandler, BatchInv, TypeInv, TypeOK, DbTypeOK
<1>4. ~(FetchPage \/ FetchFails \/ BeginFails \/ HandlerTraps \/ PutPanics \/ PanicInHost)
  BY DEF FetchPage, FetchFails, Fetched, BeginFails, HandlerTraps, PutPanics, PanicInHost, HostPanics
<1>5. ~(CommitBatch \/ CommitFails \/ RetryBatch \/ GiveUp \/ FinishBatch \/ Restart)
  BY DEF CommitBatch, CommitFails, RetryBatch, GiveUp, FinishBatch, Restart
<1> QED
  BY <1>1, <1>2, <1>3, <1>4, <1>5 DEF Next, Step, Failure

(* Every operation of `Database`, and every failure, keeps transactions     *)
(* apart.                                                                   *)
LEMMA BatchNext == BatchInv /\ [Next]_vars => BatchInv'
<1> SUFFICES ASSUME BatchInv, [Next]_vars PROVE BatchInv'
  OBVIOUS
<1> USE DEF loopVars, pageVars, envVars
<1>1. /\ TypeInv /\ TypeInv' /\ TypeOK /\ TypeOK' /\ OnlyOpenSessionsWrite /\ SessionsQuiet
      /\ HandlerHasConnection /\ EntitySavedInPage
  BY TypeNext DEF BatchInv, TypeInv
<1>2. UNCHANGED dbVars => OnlyOpenSessionsWrite'
  BY <1>1 DEF dbVars, OnlyOpenSessionsWrite
<1>3. DropDatabase => OnlyOpenSessionsWrite' /\ SessionsQuiet'
  BY <1>1, OnlyOpenStays DEF DropDatabase, SessionsQuiet
<1>4. HandlerHasConnection'
  <2> SUFFICES ASSUME pc' = "handle" PROVE stashed' \in Conn
    BY DEF HandlerHasConnection
  <2>1. CASE StaysInHandler
    BY <1>1, <2>1 DEF StaysInHandler, HandlerHasConnection
  <2>2. CASE BeginTransaction
    BY <2>2 DEF BeginTransaction, StartTransaction
  <2>3. CASE SkipBlock \/ SaveEntity \/ SaveMetadata \/ LoadFails \/ HandlerSkips
    BY <1>1, <2>3 DEF SkipBlock, SaveEntity, SaveMetadata, LoadFails, HandlerSkips, Handling,
       InHandler, PutObject, StatementFails, dbVars, HandlerHasConnection
  <2> QED
    BY <2>1, <2>2, <2>3, HandlerSteps
<1>5. CASE UNCHANGED vars
  BY <1>1, <1>2, <1>4, <1>5
  DEF vars, dbVars, BatchInv, SessionsQuiet, Undisturbed, EntitySavedInPage, StartBlock
<1>6. CASE ProduceBlock \/ Kill
  BY <1>1, <1>2, <1>4, <1>6
  DEF ProduceBlock, Kill, dbVars, BatchInv, SessionsQuiet, Undisturbed, EntitySavedInPage, StartBlock
<1>7. CASE ReapConnection
  <2>1. PICK c \in Conn : ReapIdle(c)
    BY <1>7 DEF ReapConnection
  <2>2. OnlyOpenSessionsWrite'
    BY <1>1, <2>1, OnlyOpenStays
  <2>3. SessionsQuiet'
    BY <1>1, <1>7, <2>1 DEF ReapConnection, ReapIdle, SessionsQuiet, Undisturbed, TypeOK, DbTypeOK
  <2> QED
    BY <1>1, <1>4, <1>7, <2>2, <2>3 DEF ReapConnection, BatchInv, EntitySavedInPage, StartBlock
<1>8. CASE FetchPage \/ FetchFails
  <2>1. PICK end, missing : Fetched(end, missing)
    BY <1>8 DEF FetchPage, FetchFails
  <2> QED
    BY <1>1, <1>2, <1>4, <2>1
    DEF Fetched, dbVars, BatchInv, SessionsQuiet, Undisturbed, EntitySavedInPage, StartBlock
<1>9. CASE BeginTransaction
  <2>1. PICK c \in Conn : StartTransaction(c)
    BY <1>9 DEF BeginTransaction
  <2>2. OnlyOpenSessionsWrite'
    BY <1>1, <2>1, OnlyOpenStays
  <2> QED
    BY <1>1, <1>4, <1>9, <2>1, <2>2
    DEF BeginTransaction, StartTransaction, BatchInv, SessionsQuiet, Undisturbed,
        EntitySavedInPage, StartBlock
<1>10. CASE BeginFails \/ RetryBatch
  BY <1>1, <1>2, <1>4, <1>10
  DEF BeginFails, StartTransactionFails, RetryBatch, dbVars, BatchInv, SessionsQuiet, Undisturbed,
      EntitySavedInPage, StartBlock
<1>11. CASE SkipBlock \/ HandlerSkips
  <2>1. ~entitySaved /\ ~entitySaved'
    <3>1. StartBlock \in Int /\ at \in Int
      BY <1>1, ConfigFields DEF TypeOK
    <3> QED
      BY <1>1, <1>11, <3>1 DEF SkipBlock, HandlerSkips, EntitySavedInPage
  <2> QED
    BY <1>1, <1>2, <1>4, <1>11, <2>1
    DEF SkipBlock, HandlerSkips, Handling, dbVars, BatchInv, SessionsQuiet, Undisturbed,
        EntitySavedInPage
<1>12. ASSUME NEW k, NEW v, PutObject(k, v), pc = "handle", pc' = pc, faults' = faults
       PROVE  OnlyOpenSessionsWrite' /\ SessionsQuiet'
  BY <1>1, <1>12, OnlyOpenStays DEF PutObject, SessionsQuiet, Undisturbed, TypeOK, DbTypeOK
<1>13. CASE SaveEntity
  <2>1. OnlyOpenSessionsWrite' /\ SessionsQuiet'
    <3>1. CASE at \in lost
      BY <1>1, <1>2, <1>13, <3>1 DEF SaveEntity, dbVars, SessionsQuiet, Undisturbed
    <3>2. CASE at \notin lost
      BY <1>12, <1>13, <3>2 DEF SaveEntity, Handling
    <3> QED
      BY <3>1, <3>2
  <2>2. EntitySavedInPage'
    BY <1>13 DEF SaveEntity, Handling, EntitySavedInPage, StartBlock
  <2> QED
    BY <1>1, <1>4, <2>1, <2>2 DEF BatchInv
<1>14. CASE SaveMetadata
  BY <1>1, <1>4, <1>12, <1>14 DEF SaveMetadata, Handling, BatchInv, EntitySavedInPage
<1>15. CASE LoadFails
  <2>1. OnlyOpenSessionsWrite'
    BY <1>1, <1>15, OnlyOpenStays DEF LoadFails
  <2> QED
    BY <1>1, <1>4, <1>15, <2>1
    DEF LoadFails, StatementFails, InHandler, Handling, BatchInv, SessionsQuiet, Undisturbed,
        EntitySavedInPage, StartBlock, TypeOK, DbTypeOK
<1>16. ASSUME pc = "handle", pending' = [pending EXCEPT ![stashed] = NoRows],
              faults' = faults \/ faults' = faults - 1
       PROVE  SessionsQuiet'
  <2>1. Undisturbed' => Undisturbed
    BY <1>1, <1>16, ExecutorAssumption DEF Undisturbed, TypeOK
  <2>2. stashed \in Conn
    BY <1>1, <1>16 DEF HandlerHasConnection
  <2> QED
    BY <1>1, <1>16, <2>1, <2>2 DEF SessionsQuiet, TypeOK, DbTypeOK
<1>17. CASE HandlerTraps
  <2>1. OnlyOpenSessionsWrite' /\ SessionsQuiet'
    BY <1>1, <1>16, <1>17, OnlyOpenStays DEF HandlerTraps, RevertTransaction, Handling
  <2> QED
    BY <1>1, <1>4, <1>17, <2>1 DEF HandlerTraps, BatchInv, EntitySavedInPage, StartBlock
<1>18. CASE PutPanics
  <2>1. /\ pc = "handle" /\ session[stashed] = "aborted" /\ HostPanics
        /\ UNCHANGED <<loopVars, pageVars, envVars>>
    BY <1>18 DEF PutPanics, InHandler, Handling
  <2>2. pending[stashed] = NoRows /\ stashed \in Conn
    BY <1>1, <2>1 DEF OnlyOpenSessionsWrite, HandlerHasConnection
  <2>3. OnlyOpenSessionsWrite' /\ SessionsQuiet'
    <3>1. CASE UNCHANGED dbVars
      BY <1>1, <1>2, <2>1, <2>2, <3>1 DEF dbVars, SessionsQuiet, Undisturbed
    <3> QED
      BY <1>3, <2>1, <3>1 DEF HostPanics
  <2> QED
    BY <1>1, <1>4, <2>1, <2>3 DEF BatchInv, EntitySavedInPage, StartBlock
<1>19. CASE PanicInHost
  <2>1. HostPanics /\ UNCHANGED <<loopVars, pageVars, config, tip, killSwitch>>
    BY <1>19 DEF PanicInHost
  <2>2. ~Undisturbed'
    BY <1>1, <1>19, ExecutorAssumption DEF PanicInHost, SpendFault, Undisturbed, TypeOK
  <2>3. OnlyOpenSessionsWrite' /\ SessionsQuiet'
    BY <1>2, <1>3, <2>1, <2>2 DEF HostPanics, SessionsQuiet
  <2> QED
    BY <1>1, <1>4, <2>1, <2>3 DEF BatchInv, EntitySavedInPage, StartBlock
<1>20. CASE CommitBatch
  <2>1. OnlyOpenSessionsWrite' /\ SessionsQuiet'
    BY <1>1, <1>16, <1>20, OnlyOpenStays DEF CommitBatch, CommitTransaction
  <2> QED
    BY <1>1, <1>4, <1>20, <2>1 DEF CommitBatch, BatchInv, EntitySavedInPage, StartBlock
<1>21. CASE CommitFails
  <2>1. OnlyOpenSessionsWrite' /\ SessionsQuiet'
    BY <1>1, <1>16, <1>21, OnlyOpenStays DEF CommitFails, CommitTransactionFails, SpendFault
  <2> QED
    BY <1>1, <1>4, <1>21, <2>1 DEF CommitFails, BatchInv, EntitySavedInPage, StartBlock
<1>22. CASE GiveUp
  BY <1>1, <1>3, <1>4, <1>22 DEF GiveUp, BatchInv, EntitySavedInPage, StartBlock
<1>23. CASE FinishBatch
  <2>1. OnlyOpenSessionsWrite' /\ SessionsQuiet'
    <3>1. CASE UNCHANGED dbVars
      BY <1>1, <1>2, <1>23, <3>1 DEF FinishBatch, dbVars, SessionsQuiet, Undisturbed
    <3> QED
      BY <1>3, <1>23, <3>1 DEF FinishBatch
  <2>2. ~entitySaved'
    BY <1>23 DEF FinishBatch
  <2> QED
    BY <1>1, <1>4, <2>1, <2>2 DEF BatchInv, EntitySavedInPage
<1>24. CASE Restart
  BY <1>1, <1>3, <1>4, <1>24 DEF Restart, BatchInv, EntitySavedInPage
<1> QED
  BY <1>5, <1>6, <1>7, <1>8, <1>9, <1>10, <1>11, <1>13, <1>14, <1>15, <1>17, <1>18, <1>19,
     <1>20, <1>21, <1>22, <1>23, <1>24 DEF Next, Step, Failure

-----------------------------------------------------------------------------
(* A batch commits the entities of a block with its metadata.               *)

(* In a transaction the entity rows of a block are followed by its           *)
(* metadata row, unless the handler is in that very block.                   *)
EntitiesFollowed ==
    pc = "handle" =>
        \A h \in Height :
            pending[stashed][Entity(h)] > 0 => SeesBlock(stashed, h) \/ (h = at /\ entitySaved)

AtomicInv == BatchInv /\ EntitiesFollowed /\ EntityWithMeta

(* An upsert touches one row of the handler's own transaction.               *)
LEMMA PutTouchesOneRow ==
    ASSUME TypeOK, NEW k \in Key, NEW v, PutObject(k, v)
    PROVE  /\ stashed \in Conn /\ stashed' = stashed /\ rows' = rows
           /\ pending'[stashed][k] = v
           /\ \A c \in Conn, j \in Key :
                 c # stashed \/ j # k => pending'[c][j] = pending[c][j]
  BY DEF PutObject, TypeOK, DbTypeOK

(* The handler works on a block of the page it was given.                   *)
LEMMA HandledBlock ==
    ASSUME TypeInv, Handling
    PROVE  at \in Height /\ nextCursor < at
  BY ExecutorAssumption DEF Handling, TypeInv, TypeOK, Height, NoCursor

(* An index without rows is a whole one.                                    *)
LEMMA AtomicInit == Init => AtomicInv
<1> SUFFICES ASSUME Init PROVE AtomicInv
  OBVIOUS
<1>1. rows = NoRows /\ pc = "fetch"
  BY DEF Init, DbInit
<1>2. EntityWithMeta
  BY <1>1, BlockKeys, NoRowsWritten DEF EntityWithMeta
<1> QED
  BY <1>1, <1>2, BatchInit DEF AtomicInv, EntitiesFollowed

(* handle_events commits when the handler is past its page, which is when   *)
(* no block is half written.                                                *)
LEMMA AtomicNext ==
    ASSUME "panic" \notin Faults, AtomicInv, [Next]_vars
    PROVE  AtomicInv'
<1>1. BatchInv /\ BatchInv' /\ TypeInv /\ TypeOK /\ EntitiesFollowed /\ EntityWithMeta
  BY BatchNext DEF AtomicInv, BatchInv, TypeInv
<1>2. EntityWithMeta'
  <2>1. CASE rows' = rows
    BY <1>1, <2>1 DEF EntityWithMeta, Indexed
  <2>2. CASE CommitsPage
    <3> SUFFICES ASSUME NEW h \in Height, rows'[Entity(h)] > 0 PROVE rows'[Meta(h)] > 0
      BY DEF EntityWithMeta, Indexed
    <3>1. at > pageEnd /\ pc = "handle" /\ CommitsWrites /\ at \in Int /\ pageEnd \in Int
      BY <1>1, <2>2 DEF CommitsPage, TypeOK
    <3>2. ~entitySaved
      BY <1>1, <3>1 DEF BatchInv, EntitySavedInPage
    <3>3. pending[stashed][Entity(h)] > 0 \/ rows[Entity(h)] > 0
      BY <3>1, BlockKeys DEF CommitsWrites, Visible
    <3>4. SeesBlock(stashed, h)
      BY <1>1, <3>1, <3>2, <3>3 DEF EntitiesFollowed, EntityWithMeta, Indexed, SeesBlock
    <3> QED
      BY <3>1, <3>4, BlockKeys DEF CommitsWrites, Visible, SeesBlock
  <2> QED
    BY <1>1, <2>1, <2>2, RowsChange
<1>3. EntitiesFollowed'
  <2> SUFFICES ASSUME pc' = "handle", NEW h \in Height, pending'[stashed'][Entity(h)] > 0
               PROVE  SeesBlock(stashed, h)' \/ (h = at' /\ entitySaved')
    BY DEF EntitiesFollowed
  <2>1. Meta(h) \in Key /\ Entity(h) \in Key
    BY BlockKeys
  <2>2. CASE StaysInHandler
    BY <1>1, <2>2 DEF StaysInHandler, EntitiesFollowed, SeesBlock
  <2>3. CASE BeginTransaction
    <3>1. stashed' \in Conn /\ pending' = pending /\ pc = "start"
      BY <2>3 DEF BeginTransaction, StartTransaction
    <3>2. pending[stashed'] = NoRows
      BY <1>1, <3>1 DEF BatchInv, SessionsQuiet, Undisturbed
    <3> QED
      BY <2>1, <3>1, <3>2, NoRowsWritten
  <2>4. CASE SkipBlock \/ HandlerSkips
    <3>1. ~entitySaved
      <4>1. StartBlock \in Int /\ at \in Int
        BY <1>1, ConfigFields DEF TypeOK
      <4> QED
        BY <1>1, <2>4, <4>1 DEF SkipBlock, HandlerSkips, BatchInv, EntitySavedInPage
    <3> QED
      BY <1>1, <2>4, <3>1
      DEF SkipBlock, HandlerSkips, Handling, dbVars, EntitiesFollowed, SeesBlock
  <2>5. CASE LoadFails
    BY <1>1, <2>1, <2>5, NoRowsWritten DEF LoadFails, StatementFails, TypeOK, DbTypeOK
  <2>6. CASE SaveEntity
    <3>1. pc = "handle" /\ ~entitySaved /\ entitySaved' /\ at' = at
      BY <2>6 DEF SaveEntity, Handling
    <3>2. CASE h = at
      BY <3>1, <3>2
    <3>3. CASE h # at
      <4>1. /\ stashed' = stashed /\ rows' = rows
            /\ pending'[stashed][Entity(h)] = pending[stashed][Entity(h)]
            /\ pending'[stashed][Meta(h)] = pending[stashed][Meta(h)]
        <5>1. CASE at \in lost
          BY <2>6, <5>1 DEF SaveEntity, dbVars
        <5>2. CASE at \notin lost
          <6>1. PutObject(Entity(at), Loaded(Entity(at)) + 1) /\ at \in Height
            BY <1>1, <2>6, <5>2, HandledBlock DEF SaveEntity
          <6>2. Entity(at) \in Key /\ Entity(h) # Entity(at) /\ Meta(h) # Entity(at)
            BY <3>3, <6>1, BlockKeys DEF Entity
          <6> QED
            BY <1>1, <2>1, <6>1, <6>2, PutTouchesOneRow
        <5> QED
          BY <5>1, <5>2
      <4> QED
        BY <1>1, <3>1, <4>1 DEF EntitiesFollowed, SeesBlock
    <3> QED
      BY <3>2, <3>3
  <2>7. CASE SaveMetadata
    <3>1. PutObject(Meta(at), 1) /\ pc = "handle" /\ entitySaved
      BY <2>7 DEF SaveMetadata, Handling
    <3>2. CASE h = at
      <4>1. pending'[stashed'][Meta(h)] = 1
        BY <1>1, <2>1, <3>1, <3>2 DEF PutObject, TypeOK, DbTypeOK
      <4> QED
        BY <4>1 DEF SeesBlock
    <3>3. CASE h # at
      <4>1. /\ stashed' = stashed /\ rows' = rows
            /\ pending'[stashed][Entity(h)] = pending[stashed][Entity(h)]
            /\ pending'[stashed][Meta(h)] = pending[stashed][Meta(h)]
        <5>1. at \in Height
          BY <1>1, <2>7, HandledBlock DEF SaveMetadata
        <5>2. Meta(at) \in Key /\ Meta(h) # Meta(at) /\ Entity(h) # Meta(at)
          BY <3>3, <5>1, BlockKeys
        <5> QED
          BY <1>1, <2>1, <3>1, <5>2, PutTouchesOneRow
      <4> QED
        BY <1>1, <3>1, <3>3, <4>1 DEF EntitiesFollowed, SeesBlock
    <3> QED
      BY <3>2, <3>3
  <2> QED
    BY <1>1, <2>2, <2>3, <2>4, <2>5, <2>6, <2>7, HandlerSteps
<1> QED
  BY <1>1, <1>2, <1>3 DEF AtomicInv

(* Unless a host panics, the entity rows a handler saves for a block are     *)
(* committed only together with the block's IndexMetadataEntity.             *)
THEOREM EntitiesHaveMeta ==
    ASSUME "panic" \notin Faults
    PROVE  Spec => []EntityWithMeta
<1>1. Init => AtomicInv
  BY AtomicInit
<1>2. AtomicInv /\ [Next]_vars => AtomicInv'
  BY AtomicNext
<1>3. AtomicInv => EntityWithMeta
  BY DEF AtomicInv
<1> QED
  BY <1>1, <1>2, <1>3, PTL DEF Spec

-----------------------------------------------------------------------------
(* A commit is all of a page or none of it.                                 *)

(* The handler is past its page when its transaction commits, and has saved *)
(* the metadata of every block of it.                                       *)
LEMMA CommitsWholePage ==
    ASSUME IInv, [Next]_vars, rows' # rows, NEW h \in Page, h >= StartBlock
    PROVE  h \in Indexed'
<1>1. TypeOK /\ CommitsPage
  BY RowsChange DEF IInv
<1>2. h \in Height /\ nextCursor < h /\ h <= pageEnd /\ h < at
  BY <1>1, ExecutorAssumption DEF CommitsPage, Page, TypeOK, Height, NoCursor
<1>3. session[stashed] = "open"
  BY <1>1, <1>2 DEF CommitsPage, IInv, HandlerHasTransaction, InHandler, Handling, TypeOK
<1>4. SeesBlock(stashed, h)
  <2>1. StartBlock \in Int
    BY <1>1, ConfigFields DEF TypeOK
  <2> QED
    BY <1>1, <1>2, <1>3, <2>1 DEF CommitsPage, IInv, HandledBlocksSeen, Height
<1> QED
  BY <1>1, <1>2, <1>4, CommittingKeepsDbInv
  DEF CommitsPage, IInv, DbInv, loopVars

(* Unless a module may return without handling its page, a commit that       *)
(* writes anything, or one whose reply was lost, indexes the whole page that *)
(* handle_events was given.                                                  *)
THEOREM PagesAreWhole ==
    ASSUME "skip" \notin Faults
    PROVE  Spec => WholePages
<1>1. IInv /\ [Next]_vars => [rows' # rows => \A h \in Page : h >= StartBlock => h \in Indexed']_vars
  BY CommitsWholePage
<1> QED
  BY <1>1, Invariance, PTL DEF Spec, WholePages

-----------------------------------------------------------------------------
(* A page that is tried again is not applied again.                         *)

(* A handler saves 1 or, where it finds its own row, 2: put_object does not  *)
(* update the object get_object loads.                                       *)
AtMostTwice ==
    \A h \in Height :
        rows[Entity(h)] <= 2 /\ \A c \in Conn : pending[c][Entity(h)] <= 2

(* As long as no failure repeated a write, the entity rows committed are     *)
(* those of pages that are done.                                             *)
CommittedOnce ==
    faults = MaxFaults =>
        \A h \in Height :
            /\ rows[Entity(h)] <= 1
            /\ rows[Entity(h)] > 0 => h <= nextCursor \/ (pc = "check" /\ h <= pageEnd)

(* And those of the transaction at hand are of blocks of the page that the   *)
(* handler has been in.                                                      *)
WrittenOnce ==
    faults = MaxFaults /\ pc = "handle" =>
        \A h \in Height :
            /\ pending[stashed][Entity(h)] <= 1
            /\ pending[stashed][Entity(h)] > 0 =>
                   h <= pageEnd /\ (h < at \/ (h = at /\ entitySaved))

OnceInv == BatchInv /\ AtMostTwice /\ CommittedOnce /\ WrittenOnce

(* Nothing is applied before the first page.                                *)
LEMMA OnceInit == Init => OnceInv
<1> SUFFICES ASSUME Init PROVE OnceInv
  OBVIOUS
<1>1. /\ rows = NoRows /\ pc = "fetch" /\ \A c \in Conn : pending[c] = NoRows
  BY DEF Init, DbInit
<1>2. \A h \in Height : NoRows[Entity(h)] = 0
  BY BlockKeys DEF NoRows
<1> QED
  BY <1>1, <1>2, BatchInit DEF OnceInv, AtMostTwice, CommittedOnce, WrittenOnce

(* Only the saves of the handler write to a transaction.                    *)
LEMMA PendingChange ==
    ASSUME TypeOK, [Next]_vars
    PROVE  \/ \A c \in Conn : pending'[c] \in {pending[c], NoRows}
           \/ SaveEntity /\ at \notin lost
           \/ SaveMetadata
<1> USE DEF TypeOK, DbTypeOK
<1>1. UNCHANGED dbVars => \A c \in Conn : pending'[c] \in {pending[c], NoRows}
  BY DEF dbVars
<1>2. DropDatabase => \A c \in Conn : pending'[c] \in {pending[c], NoRows}
  BY DEF DropDatabase
<1>3. CASE UNCHANGED vars \/ ProduceBlock \/ Kill \/ FetchPage \/ FetchFails \/ BeginFails
  BY <1>1, <1>3 DEF vars, ProduceBlock, Kill, FetchPage, FetchFails, Fetched, BeginFails,
                    StartTransactionFails
<1>4. CASE SkipBlock \/ HandlerSkips \/ RetryBatch \/ (SaveEntity /\ at \in lost)
  BY <1>1, <1>4 DEF SkipBlock, HandlerSkips, RetryBatch, SaveEntity
<1>5. CASE ReapConnection \/ BeginTransaction
  BY <1>5 DEF ReapConnection, ReapIdle, BeginTransaction, StartTransaction
<1>6. CASE LoadFails \/ HandlerTraps
  BY <1>6 DEF LoadFails, StatementFails, HandlerTraps, RevertTransaction
<1>7. CASE CommitBatch \/ CommitFails
  BY <1>7 DEF CommitBatch, CommitTransaction, CommitFails, CommitTransactionFails
<1>8. CASE PutPanics \/ PanicInHost
  BY <1>1, <1>2, <1>8 DEF PutPanics, PanicInHost, HostPanics
<1>9. CASE GiveUp \/ FinishBatch \/ Restart
  BY <1>1, <1>2, <1>9 DEF GiveUp, FinishBatch, Restart
<1> QED
  BY <1>3, <1>4, <1>5, <1>6, <1>7, <1>8, <1>9 DEF Next, Step, Failure

(* While failures are left over, the cursor only moves past pages that       *)
(* committed.                                                                *)
LEMMA CursorChange ==
    ASSUME TypeOK, [Next]_vars, faults' = MaxFaults
    PROVE  /\ faults = MaxFaults
           /\ nextCursor <= nextCursor'
           /\ pc = "check" => (pc' = "check" /\ pageEnd' = pageEnd) \/ pageEnd <= nextCursor'
<1> USE DEF loopVars, pageVars, envVars
<1>1. /\ faults \in Int /\ MaxFaults \in Int /\ faults <= MaxFaults
      /\ nextCursor \in Int /\ pageEnd \in Int /\ nextCursor <= pageEnd
  BY ExecutorAssumption DEF TypeOK
<1>2. ~Restart /\ ~PanicInHost /\ ~CommitFails
  BY <1>1 DEF Restart, PanicInHost, CommitFails, SpendFault
<1>3. CASE FinishBatch
  BY <1>1, <1>3 DEF FinishBatch, Advance, EmptyPage
<1>4. CASE UNCHANGED vars \/ ProduceBlock \/ Kill \/ ReapConnection
  BY <1>1, <1>4 DEF vars, ProduceBlock, Kill, ReapConnection
<1>5. CASE FetchPage \/ FetchFails \/ BeginTransaction \/ BeginFails
  BY <1>1, <1>5 DEF FetchPage, FetchFails, Fetched, BeginTransaction, BeginFails
<1>6. CASE SkipBlock \/ SaveEntity \/ SaveMetadata \/ LoadFails \/ HandlerSkips
  BY <1>1, <1>6 DEF SkipBlock, SaveEntity, SaveMetadata, LoadFails, HandlerSkips, InHandler, Handling
<1>7. CASE HandlerTraps \/ PutPanics \/ CommitBatch \/ RetryBatch \/ GiveUp
  BY <1>1, <1>7 DEF HandlerTraps, PutPanics, InHandler, Handling, CommitBatch, RetryBatch, GiveUp
<1> QED
  BY <1>2, <1>3, <1>4, <1>5, <1>6, <1>7 DEF Next, Step, Failure

(* No transaction, and so no commit, takes a row past 2.                    *)
LEMMA TwiceNext ==
    ASSUME BatchInv, AtMostTwice, [Next]_vars
    PROVE  AtMostTwice'
<1>1. TypeInv /\ TypeOK
  BY DEF BatchInv, TypeInv
<1> SUFFICES ASSUME NEW h \in Height
             PROVE  rows'[Entity(h)] <= 2 /\ \A c \in Conn : pending'[c][Entity(h)] <= 2
  BY DEF AtMostTwice
<1>2. Entity(h) \in Key /\ NoRows[Entity(h)] = 0
  BY BlockKeys DEF NoRows
<1>3. rows'[Entity(h)] <= 2
  <2>1. CASE rows' = rows
    BY <2>1 DEF AtMostTwice
  <2>2. CASE CommitsPage
    BY <1>2, <2>2 DEF CommitsPage, CommitsWrites, Visible, AtMostTwice
  <2> QED
    BY <1>1, <2>1, <2>2, RowsChange
<1>4. ASSUME NEW c \in Conn PROVE pending'[c][Entity(h)] <= 2
  <2>1. CASE \A d \in Conn : pending'[d] \in {pending[d], NoRows}
    BY <1>2, <2>1 DEF AtMostTwice
  <2>2. CASE SaveEntity /\ at \notin lost
    <3>1. PutObject(Entity(at), Loaded(Entity(at)) + 1) /\ Entity(at) \in Key
      BY <1>1, <2>2, HandledBlock, BlockKeys DEF SaveEntity
    <3>2. Loaded(Entity(at)) + 1 <= 2
      BY DEF Loaded
    <3> QED
      BY <1>1, <1>2, <3>1, <3>2, PutTouchesOneRow DEF AtMostTwice
  <2>3. CASE SaveMetadata
    <3>1. PutObject(Meta(at), 1) /\ Meta(at) \in Key /\ Entity(h) # Meta(at)
      BY <1>1, <2>3, HandledBlock, BlockKeys DEF SaveMetadata
    <3> QED
      BY <1>1, <1>2, <3>1, PutTouchesOneRow DEF AtMostTwice
  <2> QED
    BY <1>1, <2>1, <2>2, <2>3, PendingChange
<1> QED
  BY <1>3, <1>4

(* What is committed was written by the transaction at hand.                *)
LEMMA CommittedOnceNext ==
    ASSUME OnceInv, [Next]_vars
    PROVE  CommittedOnce'
<1> SUFFICES ASSUME faults' = MaxFaults, NEW h \in Height
             PROVE  /\ rows'[Entity(h)] <= 1
                    /\ rows'[Entity(h)] > 0 =>
                          h <= nextCursor' \/ (pc' = "check" /\ h <= pageEnd')
  BY DEF CommittedOnce
<1>1. /\ TypeOK /\ TypeOK' /\ CommittedOnce /\ WrittenOnce
      /\ faults = MaxFaults /\ h \in Int /\ faults \in Int
  BY CursorChange, TypeNext, ExecutorAssumption DEF OnceInv, BatchInv, TypeInv, TypeOK, Height
<1>2. /\ nextCursor \in Int /\ nextCursor' \in Int /\ nextCursor <= nextCursor'
      /\ pageEnd \in Int /\ pageEnd' \in Int
  BY <1>1, CursorChange DEF TypeOK
<1>3. CASE rows' = rows
  BY <1>1, <1>2, <1>3, CursorChange DEF CommittedOnce
<1>4. CASE CommitsPage
  <2>1. /\ pc = "handle" /\ CommitsWrites /\ nextCursor' = nextCursor
        /\ pageEnd' = pageEnd /\ pc' = "check"
    BY <1>1, <1>4 DEF CommitsPage, loopVars, pageVars
  <2>2. rows'[Entity(h)] = Visible(Entity(h))
    BY <2>1, BlockKeys DEF CommitsWrites
  <2>3. CASE pending[stashed][Entity(h)] > 0
    BY <1>1, <2>1, <2>2, <2>3 DEF Visible, WrittenOnce
  <2>4. CASE ~(pending[stashed][Entity(h)] > 0)
    BY <1>1, <2>1, <2>2, <2>4 DEF Visible, CommittedOnce
  <2> QED
    BY <2>3, <2>4
<1> QED
  BY <1>1, <1>3, <1>4, RowsChange

(* A handler finds no row of its own in a page that is tried again.         *)
LEMMA WrittenOnceNext ==
    ASSUME OnceInv, [Next]_vars
    PROVE  WrittenOnce'
<1> DEFINE Fine(p, end, a, saved, h) ==
        p <= 1 /\ (p > 0 => h <= end /\ (h < a \/ (h = a /\ saved)))
<1> SUFFICES ASSUME faults' = MaxFaults, pc' = "handle", NEW h \in Height
             PROVE  Fine(pending'[stashed'][Entity(h)], pageEnd', at', entitySaved', h)
  BY DEF WrittenOnce
<1>1. /\ BatchInv /\ TypeInv /\ TypeOK /\ CommittedOnce /\ WrittenOnce /\ faults = MaxFaults
  BY CursorChange DEF OnceInv, BatchInv, TypeInv
<1>2. /\ h \in Int /\ at \in Int /\ pageEnd \in Int /\ nextCursor \in Int /\ StartBlock \in Int
      /\ nextCursor < at /\ nextCursor <= pageEnd
  BY <1>1, ConfigFields, ExecutorAssumption DEF TypeInv, TypeOK, Height
<1>3. pc = "handle" => Fine(pending[stashed][Entity(h)], pageEnd, at, entitySaved, h)
  BY <1>1 DEF WrittenOnce
<1>4. Meta(h) \in Key /\ Entity(h) \in Key /\ NoRows[Entity(h)] = 0
  BY BlockKeys DEF NoRows
<1>5. CASE StaysInHandler
  BY <1>3, <1>5 DEF StaysInHandler
<1>6. CASE BeginTransaction
  <2>1. stashed' \in Conn /\ pending' = pending /\ pc = "start"
    BY <1>6 DEF BeginTransaction, StartTransaction
  <2>2. pending[stashed'] = NoRows
    BY <1>1, <2>1 DEF BatchInv, SessionsQuiet, Undisturbed
  <2> QED
    BY <1>4, <2>1, <2>2
<1>7. CASE SkipBlock \/ HandlerSkips
  <2>1. /\ pc = "handle" /\ stashed' = stashed /\ pending' = pending
        /\ pageEnd' = pageEnd /\ entitySaved' = entitySaved
        /\ at' = at + 1 \/ (at' = pageEnd + 1 /\ at <= pageEnd)
    BY <1>7 DEF SkipBlock, HandlerSkips, Handling, dbVars
  <2>2. ~entitySaved
    BY <1>1, <1>2, <1>7 DEF SkipBlock, HandlerSkips, BatchInv, EntitySavedInPage
  <2> QED
    BY <1>2, <1>3, <2>1, <2>2
<1>8. CASE LoadFails
  BY <1>1, <1>4, <1>8 DEF LoadFails, StatementFails, TypeOK, DbTypeOK
<1>9. CASE SaveEntity
  <2>1. /\ pc = "handle" /\ at <= pageEnd /\ ~entitySaved /\ entitySaved'
        /\ at' = at /\ pageEnd' = pageEnd
    BY <1>9 DEF SaveEntity, Handling
  <2>2. CASE at \in lost
    BY <1>2, <1>3, <1>9, <2>1, <2>2 DEF SaveEntity, dbVars
  <2>3. CASE at \notin lost
    <3>1. PutObject(Entity(at), Loaded(Entity(at)) + 1) /\ at \in Height /\ Entity(at) \in Key
      BY <1>1, <1>9, <2>3, HandledBlock, BlockKeys DEF SaveEntity
    <3>2. stashed' = stashed
      BY <1>1, <3>1, PutTouchesOneRow
    <3>3. CASE h = at
      <4>1. ~(pending[stashed][Entity(h)] > 0)
        BY <1>2, <1>3, <2>1, <3>3
      <4>2. ~(rows[Entity(h)] > 0)
        BY <1>1, <1>2, <2>1, <3>3 DEF CommittedOnce
      <4>3. pending'[stashed][Entity(h)] = 1
        BY <1>1, <3>1, <3>3, <4>1, <4>2, PutTouchesOneRow DEF Loaded, Visible
      <4> QED
        BY <2>1, <3>2, <3>3, <4>3
    <3>4. CASE h # at
      <4>1. Entity(h) # Entity(at)
        BY <3>4 DEF Entity
      <4>2. pending'[stashed][Entity(h)] = pending[stashed][Entity(h)]
        BY <1>1, <1>4, <3>1, <4>1, PutTouchesOneRow
      <4> QED
        BY <1>2, <1>3, <2>1, <3>2, <4>2
    <3> QED
      BY <3>3, <3>4
  <2> QED
    BY <2>2, <2>3
<1>10. CASE SaveMetadata
  <2>1. /\ PutObject(Meta(at), 1) /\ Meta(at) \in Key /\ Entity(h) # Meta(at)
        /\ pc = "handle" /\ at' = at + 1 /\ pageEnd' = pageEnd
    BY <1>1, <1>10, HandledBlock, BlockKeys DEF SaveMetadata, Handling
  <2>2. stashed' = stashed /\ pending'[stashed][Entity(h)] = pending[stashed][Entity(h)]
    BY <1>1, <1>4, <2>1, PutTouchesOneRow
  <2> QED
    BY <1>2, <1>3, <2>1, <2>2
<1> QED
  BY <1>1, <1>5, <1>6, <1>7, <1>8, <1>9, <1>10, HandlerSteps

(* However often a page is fetched, begun and reverted again, an entity that *)
(* a handler loads, increments and saves is incremented once; a host panic,  *)
(* a commit without a reply or a crash can make it twice.                    *)
THEOREM AppliedAtMostOnce == Spec => []AppliedOnce
<1>1. Init => OnceInv
  BY OnceInit
<1>2. OnceInv /\ [Next]_vars => OnceInv'
  BY BatchNext, TwiceNext, CommittedOnceNext, WrittenOnceNext DEF OnceInv
<1>3. OnceInv => AppliedOnce
  <2> SUFFICES ASSUME OnceInv, NEW h \in Height
               PROVE  rows[Entity(h)] <= 1 + (MaxFaults - faults)
    BY DEF AppliedOnce
  <2>1. /\ rows[Entity(h)] \in Nat /\ rows[Entity(h)] <= 2
        /\ faults = MaxFaults => rows[Entity(h)] <= 1
    BY BlockKeys DEF OnceInv, BatchInv, TypeInv, TypeOK, DbTypeOK, AtMostTwice, CommittedOnce
  <2>2. faults \in Nat /\ MaxFaults \in Nat /\ faults <= MaxFaults
    BY ExecutorAssumption DEF OnceInv, BatchInv, TypeInv, TypeOK
  <2> QED
    BY <2>1, <2>2
<1> QED
  BY <1>1, <1>2, <1>3, PTL DEF Spec

=============================================================================

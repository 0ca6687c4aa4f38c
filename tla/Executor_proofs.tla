---------------------------- MODULE Executor_proofs ----------------------------
(* Proofs about Executor, for every number of connections, chain length,   *)
(* page size, retry limit, manifest and combination of failures.           *)
EXTENDS Executor, TLAPS

-----------------------------------------------------------------------------
(* Lemmas about keys, cursors and pages.                                   *)

(* The rows a block writes: each has its own key.                          *)
LEMMA BlockKeys ==
    ASSUME NEW h \in Height
    PROVE  /\ Meta(h) \in Key /\ Entity(h) \in Key
           /\ \A g \in Height : /\ Meta(h) # Entity(g)
                                /\ Meta(h) = Meta(g) => h = g
  BY ExecutorAssumption DEF Meta, Entity

(* The manifest's fields have the types the manifest parser gives them.    *)
LEMMA ConfigFields ==
    ASSUME config \in Configs
    PROVE  /\ StartBlock \in Nat
           /\ config.native \in BOOLEAN /\ config.stop_idle_indexers \in BOOLEAN
  BY ExecutorAssumption DEF Config, StartBlock

(* An executor never starts past its start block, nor before the chain.    *)
LEMMA FirstCursor ==
    ASSUME config \in Configs
    PROVE  /\ CursorFor(GetStartBlock) \in Int
           /\ CursorFor(GetStartBlock) >= NoCursor
           /\ \A h \in Height : ~(StartBlock <= h /\ h <= CursorFor(GetStartBlock))
<1>1. StartBlock \in Nat
  BY ConfigFields
<1>2. LastBlockHeight = 1
  BY DEF LastBlockHeight, IdColumnType
<1>3. GetStartBlock \in {1, StartBlock}
  BY <1>2 DEF GetStartBlock
<1> QED
  BY <1>1, <1>3, ExecutorAssumption DEF CursorFor, NoCursor, Height

LEMMA Successor == \A i \in Int : i < i + 1
  OBVIOUS

(* A page reaches at most PageSize blocks, and never past the node's tip.  *)
LEMMA PageEnd ==
    ASSUME TypeOK
    PROVE  /\ LastOfPage \in Int
           /\ nextCursor <= LastOfPage /\ LastOfPage <= nextCursor + PageSize
           /\ LastOfPage > nextCursor => LastOfPage <= tip
           /\ nextCursor + 1 .. LastOfPage \subseteq Height
  BY ExecutorAssumption DEF TypeOK, LastOfPage, Height, NoCursor

-----------------------------------------------------------------------------
(* Type correctness.                                                       *)

TypeInv == TypeOK /\ CountsBelowLimits /\ nextCursor < at

LEMMA TypeInit == Init => TypeInv
<1> SUFFICES ASSUME Init PROVE TypeInv
  OBVIOUS
<1>1. config \in Configs /\ nextCursor \in Int /\ nextCursor >= NoCursor
  BY FirstCursor DEF Init
<1>2. DbTypeOK
  BY DEF Init, DbInit, DbTypeOK, SessionState, NoRows
<1>3. /\ tip \in Height /\ retryCount \in 0 .. FailedCalls /\ retryCount < FailedCalls
      /\ numEmpty \in 0 .. MaxEmpty /\ numEmpty < MaxEmpty
      /\ faults \in 0 .. MaxFaults
  BY ExecutorAssumption DEF Init, Height
<1>4. pageEnd \in Int /\ pageEnd = nextCursor /\ at \in Int /\ nextCursor < at
  BY <1>1 DEF Init
<1>5. entitySaved \in BOOLEAN /\ killSwitch \in BOOLEAN
  BY DEF Init
<1>6. lost \subseteq Height /\ pc = "fetch"
  BY DEF Init
<1> QED
  BY <1>1, <1>2, <1>3, <1>4, <1>5, <1>6 DEF Init, TypeInv, TypeOK, CountsBelowLimits

(* Every operation of the database handle keeps its state well typed.      *)
LEMMA DbTypes ==
    ASSUME DbTypeOK
    PROVE  /\ \A c \in Conn : ReapIdle(c) => DbTypeOK'
           /\ DropDatabase => DbTypeOK'
           /\ \A c \in Conn : StartTransaction(c) => DbTypeOK'
           /\ \A k \in Key, v \in Nat : PutObject(k, v) => DbTypeOK'
           /\ StatementFails => DbTypeOK'
           /\ CommitTransaction => DbTypeOK'
           /\ CommitTransactionFails => DbTypeOK'
           /\ RevertTransaction => DbTypeOK'
<1>1. NoRows \in [Key -> Nat]
  BY DEF NoRows
<1>2. stashed \in Conn => [k \in Key |-> Visible(k)] \in [Key -> Nat]
  BY DEF DbTypeOK, Visible
<1>3. \A c \in Conn : ReapIdle(c) => DbTypeOK'
  BY <1>1 DEF DbTypeOK, SessionState, ReapIdle
<1>4. DropDatabase => DbTypeOK'
  BY <1>1 DEF DbTypeOK, SessionState, DropDatabase
<1>5. \A c \in Conn : StartTransaction(c) => DbTypeOK'
  BY DEF DbTypeOK, SessionState, StartTransaction, Acquirable
<1>6. \A k \in Key, v \in Nat : PutObject(k, v) => DbTypeOK'
  BY DEF DbTypeOK, PutObject
<1>7. StatementFails => DbTypeOK'
  BY <1>1 DEF DbTypeOK, SessionState, StatementFails
<1>8. CommitTransaction => DbTypeOK'
  BY <1>1, <1>2 DEF DbTypeOK, SessionState, CommitTransaction
<1>9. CommitTransactionFails => DbTypeOK'
  BY <1>1, <1>2 DEF DbTypeOK, SessionState, CommitTransactionFails
<1>10. RevertTransaction => DbTypeOK'
  BY <1>1 DEF DbTypeOK, SessionState, RevertTransaction
<1> QED
  BY <1>3, <1>4, <1>5, <1>6, <1>7, <1>8, <1>9, <1>10

(* Only these change the database; the other actions leave dbVars alone.   *)
LEMMA TypeNext == TypeInv /\ [Next]_vars => TypeInv'
<1> SUFFICES ASSUME TypeInv, [Next]_vars PROVE TypeInv'
  OBVIOUS
<1> USE DEF TypeInv, CountsBelowLimits, TypeOK, loopVars, pageVars, envVars
<1>0. UNCHANGED dbVars => DbTypeOK'
  BY DEF dbVars, DbTypeOK
<1>1. CASE UNCHANGED vars
  BY <1>0, <1>1 DEF vars
<1>2. CASE ProduceBlock
  BY <1>0, <1>2, ExecutorAssumption DEF ProduceBlock, Height
<1>3. CASE Kill
  BY <1>0, <1>3 DEF Kill
<1>4. CASE ReapConnection
  BY <1>4, DbTypes DEF ReapConnection
<1>5. ASSUME NEW end \in Int, NEW missing, Fetched(end, missing),
             missing \subseteq Height, end >= nextCursor,
             end > nextCursor => end <= tip
      PROVE  TypeInv'
  <2>1. entitySaved' \in BOOLEAN /\ killSwitch' \in BOOLEAN
    BY <1>5 DEF Fetched
  <2> QED
    BY <1>0, <1>5, <2>1 DEF Fetched
<1>6. CASE FetchPage
  BY <1>5, <1>6, PageEnd DEF FetchPage
<1>7. CASE FetchFails
  BY <1>5, <1>7 DEF FetchFails
<1>8. CASE BeginTransaction
  BY <1>8, DbTypes DEF BeginTransaction
<1>9. CASE BeginFails
  BY <1>0, <1>9 DEF BeginFails, StartTransactionFails
<1>10. CASE SkipBlock
  BY <1>0, <1>10 DEF SkipBlock, Handling
<1>10a. Handling => at \in Height
  BY ExecutorAssumption DEF Handling, Height, NoCursor
<1>11. CASE SaveEntity
  <2>1. Handling /\ at \in Height
    BY <1>10a, <1>11 DEF SaveEntity
  <2>2. CASE at \in lost
    BY <1>0, <1>11, <2>2 DEF SaveEntity
  <2>3. CASE at \notin lost
    <3>1. stashed \in Conn /\ PutObject(Entity(at), Loaded(Entity(at)) + 1)
      BY <1>11, <2>3 DEF SaveEntity, PutObject
    <3>2. Entity(at) \in Key /\ Loaded(Entity(at)) + 1 \in Nat
      BY <2>1, <3>1, BlockKeys DEF Loaded
    <3>3. DbTypeOK'
      BY <3>1, <3>2, DbTypes
    <3> QED
      BY <1>11, <3>3 DEF SaveEntity
  <2> QED
    BY <2>2, <2>3
<1>12. CASE SaveMetadata
  <2>1. Handling /\ at \in Height /\ PutObject(Meta(at), 1)
    BY <1>10a, <1>12 DEF SaveMetadata
  <2>2. DbTypeOK'
    BY <2>1, BlockKeys, DbTypes
  <2>3. at' = at + 1 /\ entitySaved' \in BOOLEAN
    BY <1>12 DEF SaveMetadata
  <2> QED
    BY <1>12, <2>2, <2>3 DEF SaveMetadata
<1>13. CASE LoadFails
  BY <1>13, DbTypes DEF LoadFails
<1>14. CASE HandlerSkips
  BY <1>0, <1>14 DEF HandlerSkips, Handling
<1>15. CASE HandlerTraps
  BY <1>15, DbTypes DEF HandlerTraps, Handling
<1>16. HostPanics /\ pc # "stopped" => DbTypeOK' /\ pc' \in {"failed", "stopped"}
  BY <1>0, DbTypes DEF HostPanics
<1>17. CASE PutPanics
  BY <1>16, <1>17 DEF PutPanics, InHandler, Handling
<1>18. CASE PanicInHost
  <2>1. DbTypeOK' /\ pc' \in {"failed", "stopped"} /\ pc = "handle"
    BY <1>16, <1>18 DEF PanicInHost, InHandler, Handling
  <2>2. faults' \in 0 .. MaxFaults
    BY <1>18, ExecutorAssumption DEF PanicInHost, SpendFault
  <2> QED
    BY <1>18, <2>1, <2>2 DEF PanicInHost
<1>19. CASE CommitBatch
  BY <1>19, DbTypes DEF CommitBatch
<1>20. CASE CommitFails
  <2>1. DbTypeOK'
    BY <1>20, DbTypes DEF CommitFails
  <2>2. faults' \in 0 .. MaxFaults
    BY <1>20, ExecutorAssumption DEF CommitFails, SpendFault
  <2> QED
    BY <1>20, <2>1, <2>2 DEF CommitFails
<1>21. CASE RetryBatch
  <2>1. retryCount' \in 0 .. FailedCalls /\ retryCount' < FailedCalls
    BY <1>21, ExecutorAssumption DEF RetryBatch
  <2> QED
    BY <1>0, <1>21, <2>1 DEF RetryBatch
<1>22. CASE GiveUp
  BY <1>22, DbTypes, ExecutorAssumption DEF GiveUp
<1>23. CASE FinishBatch
  <2>1. DbTypeOK' /\ pc' \in {"fetch", "stopped"}
    BY <1>0, <1>23, DbTypes DEF FinishBatch
  <2>2. nextCursor' \in Int /\ nextCursor' >= NoCursor
    <3>1. nextCursor' \in {nextCursor, pageEnd}
      BY <1>23 DEF FinishBatch, Advance
    <3> QED
      BY <3>1, ExecutorAssumption DEF NoCursor
  <2>3. pageEnd' = nextCursor' /\ at' = nextCursor' + 1 /\ lost' = {}
    BY <1>23 DEF FinishBatch
  <2>4. entitySaved' \in BOOLEAN /\ killSwitch' \in BOOLEAN
    BY <1>23 DEF FinishBatch
  <2>5. numEmpty' \in 0 .. MaxEmpty /\ (pc' # "stopped" => numEmpty' < MaxEmpty)
    BY <1>23, ExecutorAssumption DEF FinishBatch, Advance
  <2>6. retryCount' \in 0 .. FailedCalls /\ (pc' # "stopped" => retryCount' < FailedCalls)
    BY <1>23, ExecutorAssumption DEF FinishBatch
  <2>7. config' = config /\ tip' = tip /\ faults' = faults
    BY <1>23 DEF FinishBatch
  <2>8. TypeOK'
    BY <2>1, <2>2, <2>3, <2>4, <2>5, <2>6, <2>7
  <2>9. CountsBelowLimits'
    BY <2>5, <2>6
  <2>10. (nextCursor < at)'
    BY <2>2, <2>3, Successor
  <2> QED
    BY <2>8, <2>9, <2>10
<1>24. CASE Restart
  <2>1. DbTypeOK'
    BY <1>24, DbTypes DEF Restart
  <2>2. nextCursor' \in Int /\ nextCursor' >= NoCursor
    BY <1>24, FirstCursor DEF Restart
  <2>3. pageEnd' = nextCursor' /\ at' = nextCursor' + 1 /\ lost' = {}
    BY <1>24 DEF Restart
  <2>4. entitySaved' \in BOOLEAN /\ killSwitch' \in BOOLEAN
    BY <1>24 DEF Restart
  <2>5. /\ numEmpty' \in 0 .. MaxEmpty /\ numEmpty' < MaxEmpty
        /\ retryCount' \in 0 .. FailedCalls /\ retryCount' < FailedCalls
        /\ faults' \in 0 .. MaxFaults
    BY <1>24, ExecutorAssumption DEF Restart, SpendFault
  <2> QED
    BY <1>24, <2>1, <2>2, <2>3, <2>4, <2>5 DEF Restart
<1> QED
  BY <1>1, <1>2, <1>3, <1>4, <1>6, <1>7, <1>8, <1>9, <1>10, <1>11, <1>12,
     <1>13, <1>14, <1>15, <1>17, <1>18, <1>19, <1>20, <1>21, <1>22, <1>23, <1>24
  DEF Next, Step, Failure

(* The reader's and writer's types, invariant in every reachable state.    *)
THEOREM TypeCorrect == Spec => []TypeOK
<1>1. Init => TypeInv
  BY TypeInit
<1>2. TypeInv /\ [Next]_vars => TypeInv'
  BY TypeNext
<1>3. TypeInv => TypeOK
  BY DEF TypeInv
<1> QED
  BY <1>1, <1>2, <1>3, PTL DEF Spec

-----------------------------------------------------------------------------
(* What the operations of the database do to the invariant.                *)

DbInv ==
    /\ OnlyOpenSessionsWrite
    /\ SeesNoHoles
    /\ WritesInBounds
    /\ Contiguous

(* Nothing is committed; a transaction goes on or all its writes are gone. *)
ForgetsWrites ==
    /\ rows' = rows
    /\ \A c \in Conn :
          \/ pending'[c] = NoRows
          \/ /\ pending'[c] = pending[c]
             /\ session[c] = "open" => session'[c] = "open"
             /\ nextCursor <= nextCursor'

LEMMA Shift == \A h, i, j, n \in Int : h <= i + n /\ i <= j => h <= j + n
  OBVIOUS

LEMMA NoRowsWritten == \A k \in Key : ~(NoRows[k] > 0)
  BY DEF NoRows

(* Operations that commit nothing keep the index and every transaction     *)
(* unbroken.                                                               *)
LEMMA ForgettingKeepsDbInv ==
    ASSUME TypeOK, TypeOK', DbInv, ForgetsWrites, config' = config, tip <= tip'
    PROVE  DbInv'
<1> USE DEF DbInv
<1>1. StartBlock' = StartBlock
  BY DEF StartBlock
<1>2. Indexed' = Indexed
  BY DEF ForgetsWrites, Indexed
<1>3. OnlyOpenSessionsWrite'
  BY DEF ForgetsWrites, OnlyOpenSessionsWrite
<1>4. Contiguous'
  BY <1>1, <1>2 DEF Contiguous
<1>5. ASSUME NEW c \in Conn, NEW h \in Height, NEW g \in Height,
             SeesBlock(c, h)', StartBlock <= g, g <= h
      PROVE  SeesBlock(c, g)'
  <2>1. Meta(h) \in Key /\ Meta(g) \in Key
    BY BlockKeys
  <2>2. CASE pending'[c] = NoRows
    <3>1. h \in Indexed
      BY <1>5, <2>1, <2>2, NoRowsWritten DEF SeesBlock, ForgetsWrites, Indexed
    <3>2. g \in Indexed
      BY <1>5, <3>1 DEF Contiguous
    <3> QED
      BY <3>2 DEF SeesBlock, ForgetsWrites, Indexed
  <2>3. CASE pending'[c] = pending[c]
    BY <1>5, <2>3 DEF SeesNoHoles, SeesBlock, ForgetsWrites
  <2> QED
    BY <2>2, <2>3 DEF ForgetsWrites
<1>6. SeesNoHoles'
  BY <1>1, <1>5 DEF SeesNoHoles
<1>7. ASSUME NEW c \in Conn, NEW h \in Height, pending'[c][Meta(h)] > 0
      PROVE  StartBlock <= h /\ h <= tip' /\ h <= nextCursor' + PageSize
  <2>1. pending'[c] = pending[c] /\ nextCursor <= nextCursor'
    BY <1>7, BlockKeys, NoRowsWritten DEF ForgetsWrites
  <2>2. StartBlock <= h /\ h <= tip /\ h <= nextCursor + PageSize
    BY <1>7, <2>1 DEF WritesInBounds
  <2>3. h \in Int /\ tip \in Int /\ tip' \in Int /\ PageSize \in Int
    BY ExecutorAssumption DEF TypeOK, Height
  <2>4. nextCursor \in Int /\ nextCursor' \in Int
    BY DEF TypeOK
  <2>5. h <= tip'
    BY <2>2, <2>3
  <2>6. h <= nextCursor' + PageSize
    BY <2>1, <2>2, <2>3, <2>4, Shift
  <2> QED
    BY <2>2, <2>5, <2>6
<1>8. \A h \in Indexed : StartBlock <= h /\ h <= tip'
  BY ExecutorAssumption DEF WritesInBounds, Indexed, TypeOK, Height
<1>9. WritesInBounds'
  BY <1>1, <1>2, <1>7, <1>8 DEF WritesInBounds
<1> QED
  BY <1>3, <1>4, <1>6, <1>9

(* ROLLBACK, a dropped pool, a failed statement and BEGIN commit nothing.  *)
LEMMA OperationsThatForget ==
    ASSUME TypeOK
    PROVE  /\ DropDatabase => ForgetsWrites
           /\ nextCursor <= nextCursor' =>
                 /\ RevertTransaction => ForgetsWrites
                 /\ StatementFails => ForgetsWrites
                 /\ \A c \in Conn : StartTransaction(c) => ForgetsWrites
<1>1. DropDatabase => ForgetsWrites
  BY DEF DropDatabase, ForgetsWrites
<1>2. ASSUME nextCursor <= nextCursor', RevertTransaction PROVE ForgetsWrites
  BY <1>2 DEF RevertTransaction, ForgetsWrites, TypeOK, DbTypeOK
<1>3. ASSUME nextCursor <= nextCursor', StatementFails PROVE ForgetsWrites
  BY <1>3 DEF StatementFails, ForgetsWrites, TypeOK, DbTypeOK
<1>4. ASSUME nextCursor <= nextCursor', NEW c \in Conn, StartTransaction(c)
      PROVE  ForgetsWrites
  BY <1>4 DEF StartTransaction, ForgetsWrites, TypeOK, DbTypeOK
<1> QED
  BY <1>1, <1>2, <1>3, <1>4

(* COMMIT on the stashed connection, also one whose reply is lost.         *)
CommitsWrites ==
    /\ stashed \in Conn
    /\ rows' = [k \in Key |-> Visible(k)]
    /\ pending' = [pending EXCEPT ![stashed] = NoRows]
    /\ \A c \in Conn \ {stashed} : session'[c] = session[c]

(* A commit makes readers see what its transaction saw, and leaves the     *)
(* index and the transactions still open unbroken.                         *)
LEMMA CommittingKeepsDbInv ==
    ASSUME TypeOK, DbInv, CommitsWrites,
           config' = config, tip' = tip, nextCursor' = nextCursor
    PROVE  /\ DbInv'
           /\ \A h \in Height : h \in Indexed' <=> SeesBlock(stashed, h)
<1> USE DEF DbInv
<1>1. StartBlock' = StartBlock
  BY DEF StartBlock
<1>2. \A h \in Height : rows'[Meta(h)] > 0 <=> SeesBlock(stashed, h)
  BY BlockKeys DEF CommitsWrites, Visible, SeesBlock
<1>3. \A h \in Height : h \in Indexed' <=> SeesBlock(stashed, h)
  BY <1>2 DEF Indexed
<1>4. pending'[stashed] = NoRows /\ \A c \in Conn \ {stashed} : pending'[c] = pending[c]
  BY DEF CommitsWrites, TypeOK, DbTypeOK
<1>5. OnlyOpenSessionsWrite'
  BY <1>4 DEF CommitsWrites, OnlyOpenSessionsWrite
<1>6. Contiguous'
  <2> SUFFICES ASSUME NEW h \in Indexed', NEW g \in Height, StartBlock <= g, g <= h
               PROVE  g \in Indexed'
    BY <1>1 DEF Contiguous
  <2>1. h \in Height /\ SeesBlock(stashed, h)
    BY <1>3 DEF Indexed
  <2> QED
    BY <1>3, <2>1 DEF SeesNoHoles, CommitsWrites
<1>7. SeesNoHoles'
  <2> SUFFICES ASSUME NEW c \in Conn, NEW h \in Height, NEW g \in Height,
                      SeesBlock(c, h)', StartBlock <= g, g <= h
               PROVE  SeesBlock(c, g)'
    BY <1>1 DEF SeesNoHoles
  <2>1. CASE rows'[Meta(h)] > 0
    <3>1. SeesBlock(stashed, g)
      BY <1>2, <2>1 DEF SeesNoHoles, CommitsWrites
    <3> QED
      BY <1>2, <3>1 DEF SeesBlock
  <2>2. CASE pending'[c][Meta(h)] > 0
    <3>1. c # stashed /\ pending'[c] = pending[c]
      BY <1>4, <2>2, BlockKeys, NoRowsWritten
    <3>2. SeesBlock(c, g)
      BY <2>2, <3>1 DEF SeesBlock, SeesNoHoles
    <3>3. rows[Meta(g)] > 0 => rows'[Meta(g)] > 0
      BY <1>2 DEF SeesBlock
    <3> QED
      BY <3>1, <3>2, <3>3 DEF SeesBlock
  <2> QED
    BY <2>1, <2>2 DEF SeesBlock
<1>8. WritesInBounds'
  <2>1. ASSUME NEW h \in Indexed' PROVE StartBlock <= h /\ h <= tip
    <3>1. h \in Height /\ SeesBlock(stashed, h)
      BY <1>3, <2>1 DEF Indexed
    <3> QED
      BY <3>1 DEF WritesInBounds, SeesBlock, Indexed, CommitsWrites
  <2>2. ASSUME NEW c \in Conn, NEW h \in Height, pending'[c][Meta(h)] > 0
        PROVE  StartBlock <= h /\ h <= tip /\ h <= nextCursor + PageSize
    <3>1. pending'[c] = pending[c]
      BY <1>4, <2>2, BlockKeys, NoRowsWritten
    <3> QED
      BY <2>2, <3>1 DEF WritesInBounds
  <2> QED
    BY <1>1, <2>1, <2>2 DEF WritesInBounds
<1> QED
  BY <1>3, <1>5, <1>6, <1>7, <1>8

(* Saving an entity row does not change which blocks anybody sees.         *)
LEMMA SavingEntityKeepsDbInv ==
    ASSUME TypeOK, DbInv, NEW b \in Height, NEW v, PutObject(Entity(b), v),
           config' = config, tip' = tip, nextCursor' = nextCursor
    PROVE  /\ DbInv'
           /\ \A c \in Conn, h \in Height : SeesBlock(c, h)' <=> SeesBlock(c, h)
<1> USE DEF DbInv
<1>1. StartBlock' = StartBlock
  BY DEF StartBlock
<1>2. \A c \in Conn, h \in Height : pending'[c][Meta(h)] = pending[c][Meta(h)]
  BY BlockKeys DEF PutObject, TypeOK, DbTypeOK
<1>3. rows' = rows /\ Indexed' = Indexed
  BY DEF PutObject, Indexed
<1>4. OnlyOpenSessionsWrite'
  BY DEF PutObject, OnlyOpenSessionsWrite, TypeOK, DbTypeOK
<1>5. \A c \in Conn, h \in Height : SeesBlock(c, h)' <=> SeesBlock(c, h)
  BY <1>2, <1>3 DEF SeesBlock
<1>6. SeesNoHoles'
  BY <1>1, <1>5 DEF SeesNoHoles
<1>7. WritesInBounds' /\ Contiguous'
  BY <1>1, <1>2, <1>3 DEF WritesInBounds, Contiguous
<1> QED
  BY <1>4, <1>5, <1>6, <1>7

(* Saving the metadata of a block of the page at hand, when every earlier  *)
(* block is seen by the transaction.                                       *)
LEMMA SavingMetadataKeepsDbInv ==
    ASSUME TypeOK, DbInv, NEW b \in Height, PutObject(Meta(b), 1),
           StartBlock <= b, b <= tip, b <= nextCursor + PageSize,
           \A g \in Height : StartBlock <= g /\ g < b => SeesBlock(stashed, g),
           config' = config, tip' = tip, nextCursor' = nextCursor
    PROVE  /\ DbInv'
           /\ SeesBlock(stashed, b)'
           /\ \A c \in Conn, h \in Height : SeesBlock(c, h) => SeesBlock(c, h)'
<1> USE DEF DbInv
<1>1. StartBlock' = StartBlock /\ StartBlock \in Nat
  BY ConfigFields DEF StartBlock, TypeOK
<1>2. /\ stashed \in Conn /\ stashed' = stashed
      /\ pending'[stashed][Meta(b)] > 0
  BY BlockKeys DEF PutObject, TypeOK, DbTypeOK
<1>3. \A c \in Conn, h \in Height :
          c # stashed \/ h # b => pending'[c][Meta(h)] = pending[c][Meta(h)]
  BY BlockKeys DEF PutObject, TypeOK, DbTypeOK
<1>4. rows' = rows /\ Indexed' = Indexed
  BY DEF PutObject, Indexed
<1>5. OnlyOpenSessionsWrite'
  BY DEF PutObject, OnlyOpenSessionsWrite, TypeOK, DbTypeOK
<1>6. \A c \in Conn, h \in Height : SeesBlock(c, h) => SeesBlock(c, h)'
  BY <1>2, <1>3, <1>4 DEF SeesBlock
<1>7. SeesNoHoles'
  <2> SUFFICES ASSUME NEW c \in Conn, NEW h \in Height, NEW g \in Height,
                      SeesBlock(c, h)', StartBlock <= g, g <= h
               PROVE  SeesBlock(c, g)'
    BY <1>1 DEF SeesNoHoles
  <2>1. CASE c = stashed /\ h = b
    <3>1. g = b \/ g < b
      BY <2>1, ExecutorAssumption DEF Height
    <3> QED
      BY <1>2, <1>6, <2>1, <3>1 DEF SeesBlock
  <2>2. CASE c # stashed \/ h # b
    BY <1>3, <1>4, <1>6, <2>2 DEF SeesBlock, SeesNoHoles
  <2> QED
    BY <2>1, <2>2
<1>8. ASSUME NEW c \in Conn, NEW h \in Height, pending'[c][Meta(h)] > 0
      PROVE  StartBlock <= h /\ h <= tip /\ h <= nextCursor + PageSize
  BY <1>3, <1>8 DEF WritesInBounds
<1>9. WritesInBounds' /\ Contiguous'
  BY <1>1, <1>4, <1>8 DEF WritesInBounds, Contiguous
<1> QED
  BY <1>2, <1>5, <1>6, <1>7, <1>9 DEF SeesBlock

-----------------------------------------------------------------------------
(* The inductive invariant.                                                *)

LEMMA InvInit == Init => IInv
<1> SUFFICES ASSUME Init PROVE IInv
  OBVIOUS
<1>1. TypeInv
  BY TypeInit
<1>2. \A h \in Height : ~(rows[Meta(h)] > 0)
  BY BlockKeys, NoRowsWritten DEF Init, DbInit
<1>3. \A c \in Conn : pending[c] = NoRows
  BY DEF Init, DbInit
<1>4. \A c \in Conn, h \in Height : ~(pending[c][Meta(h)] > 0)
  BY <1>3, BlockKeys, NoRowsWritten
<1>5. PageInBounds
  BY <1>1, ExecutorAssumption DEF PageInBounds, Init, TypeInv, TypeOK
<1>6. OnlyOpenSessionsWrite /\ HandlerHasTransaction /\ HandledBlocksSeen
      /\ CommittedPageIndexed
  BY <1>3 DEF OnlyOpenSessionsWrite, HandlerHasTransaction, HandledBlocksSeen,
              CommittedPageIndexed, Init
<1>7. SeesNoHoles /\ WritesInBounds /\ Contiguous
  BY <1>2, <1>4 DEF SeesNoHoles, SeesBlock, WritesInBounds, Contiguous, Indexed
<1>8. CursorCovered
  BY FirstCursor DEF Init, CursorCovered
<1> QED
  BY <1>1, <1>5, <1>6, <1>7, <1>8 DEF IInv, TypeInv

(* The task is not in a transaction after the step, and kept its page.     *)
LeavesBatch ==
    /\ pc' \in {"fetch", "failed", "stopped"}
    /\ config' = config /\ nextCursor' = nextCursor
    /\ pageEnd' = pageEnd /\ at' = at /\ entitySaved' = entitySaved

(* An index that covers the cursor covers it when it has grown.            *)
LEMMA CoveredStays ==
    ASSUME CursorCovered, Indexed \subseteq Indexed',
           config' = config, nextCursor' = nextCursor
    PROVE  CursorCovered'
  BY DEF CursorCovered, StartBlock

LEMMA LeavingBatch ==
    ASSUME IInv, TypeInv', DbInv', Indexed \subseteq Indexed', LeavesBatch
    PROVE  IInv'
<1>1. PageInBounds'
  BY DEF LeavesBatch, IInv, PageInBounds, StartBlock
<1>2. HandlerHasTransaction' /\ HandledBlocksSeen' /\ CommittedPageIndexed'
  BY DEF LeavesBatch, HandlerHasTransaction, HandledBlocksSeen, CommittedPageIndexed
<1>3. CursorCovered'
  BY CoveredStays DEF IInv, LeavesBatch
<1> QED
  BY <1>1, <1>2, <1>3 DEF IInv, DbInv, TypeInv

(* Every step keeps the invariant, unless a module may end a batch without *)
(* having handled it.                                                      *)
LEMMA InvNext ==
    ASSUME "skip" \notin Faults, IInv, [Next]_vars
    PROVE  IInv'
<1> DEFINE KeepsPage == nextCursor' = nextCursor /\ pageEnd' = pageEnd /\ config' = config
<1>1. /\ TypeInv /\ TypeInv' /\ TypeOK /\ TypeOK' /\ DbInv
      /\ PageInBounds /\ HandlerHasTransaction /\ HandledBlocksSeen
      /\ CommittedPageIndexed /\ CursorCovered
  BY TypeNext DEF IInv, TypeInv, DbInv, PageInBounds
<1>2. nextCursor \in Int /\ at \in Int /\ pageEnd \in Int /\ tip \in Int /\ StartBlock \in Nat
  BY <1>1, ConfigFields, ExecutorAssumption DEF TypeOK, Height
<1>3. UNCHANGED dbVars /\ nextCursor <= nextCursor' => ForgetsWrites /\ Indexed' = Indexed
  BY DEF dbVars, ForgetsWrites, Indexed
<1>4. ForgetsWrites => Indexed' = Indexed
  BY DEF ForgetsWrites, Indexed
<1>5. UNCHANGED <<dbVars, pc, at, entitySaved, lost>> /\ KeepsPage /\ tip <= tip' => IInv'
  <2> SUFFICES ASSUME UNCHANGED <<dbVars, pc, at, entitySaved, lost>>, KeepsPage, tip <= tip'
               PROVE  IInv'
    OBVIOUS
  <2>1. ForgetsWrites /\ Indexed' = Indexed
    BY <1>2, <1>3
  <2>2. DbInv'
    BY <1>1, <2>1, ForgettingKeepsDbInv
  <2>3. PageInBounds'
    BY <1>1 DEF PageInBounds, StartBlock
  <2>4. HandlerHasTransaction'
    BY <1>1 DEF HandlerHasTransaction, InHandler, Handling, StartBlock, dbVars
  <2>5. HandledBlocksSeen'
    BY <1>1 DEF HandledBlocksSeen, SeesBlock, StartBlock, dbVars
  <2>6. CommittedPageIndexed' /\ CursorCovered'
    BY <1>1, <2>1 DEF CommittedPageIndexed, CursorCovered, StartBlock
  <2> QED
    BY <1>1, <2>2, <2>3, <2>4, <2>5, <2>6 DEF IInv, DbInv, TypeInv
<1>6. CASE UNCHANGED vars
  BY <1>2, <1>5, <1>6 DEF vars, loopVars, pageVars, envVars
<1>7. CASE ProduceBlock
  <2>1. tip <= tip'
    BY <1>2, <1>7 DEF ProduceBlock
  <2> QED
    BY <1>5, <1>7, <2>1 DEF ProduceBlock, loopVars, pageVars
<1>8. CASE Kill
  BY <1>2, <1>5, <1>8 DEF Kill, loopVars, pageVars
<1>9. CASE ReapConnection
  <2>1. PICK c \in Conn : ReapIdle(c)
    BY <1>9 DEF ReapConnection
  <2>2. c # stashed /\ rows' = rows /\ stashed' = stashed
        /\ UNCHANGED <<pc, loopVars, pageVars, envVars>>
    BY <1>9, <2>1 DEF ReapConnection, ReapIdle, Idle
  <2>3. /\ pending'[c] = NoRows
        /\ \A d \in Conn \ {c} : pending'[d] = pending[d] /\ session'[d] = session[d]
    BY <1>1, <2>1 DEF ReapIdle, TypeOK, DbTypeOK
  <2>4. ForgetsWrites
    BY <1>2, <2>2, <2>3 DEF ForgetsWrites, loopVars
  <2>5. DbInv' /\ Indexed' = Indexed
    BY <1>1, <1>2, <1>4, <2>2, <2>4, ForgettingKeepsDbInv DEF envVars
  <2>6. PageInBounds'
    BY <1>1, <2>2 DEF PageInBounds, StartBlock, loopVars, pageVars, envVars
  <2>7. HandlerHasTransaction'
    BY <1>1, <2>2, <2>3
    DEF HandlerHasTransaction, InHandler, Handling, StartBlock, pageVars, envVars
  <2>8. HandledBlocksSeen'
    BY <1>1, <2>2, <2>3
    DEF HandlerHasTransaction, HandledBlocksSeen, SeesBlock, StartBlock,
        loopVars, pageVars, envVars
  <2>9. CommittedPageIndexed' /\ CursorCovered'
    BY <1>1, <2>2, <2>5 DEF CommittedPageIndexed, CursorCovered, StartBlock,
                            loopVars, pageVars, envVars
  <2> QED
    BY <1>1, <2>5, <2>6, <2>7, <2>8, <2>9 DEF IInv, DbInv, TypeInv
<1>10. ASSUME NEW end \in Int, NEW missing, Fetched(end, missing),
              end <= nextCursor + PageSize
       PROVE  IInv'
  <2>1. UNCHANGED <<dbVars, nextCursor, config, tip>> /\ pc' = "start"
        /\ pageEnd' = end /\ at' = nextCursor + 1
    BY <1>10 DEF Fetched, loopVars, envVars
  <2>2. ~entitySaved'
    BY <1>10 DEF Fetched
  <2>3. ForgetsWrites /\ Indexed' = Indexed
    BY <1>2, <1>3, <2>1
  <2>4. DbInv'
    BY <1>1, <1>2, <2>1, <2>3, ForgettingKeepsDbInv
  <2>5. PageInBounds'
    BY <1>1, <1>2, <1>10, <2>1, <2>2, Successor DEF PageInBounds
  <2>6. HandlerHasTransaction' /\ HandledBlocksSeen' /\ CommittedPageIndexed'
    BY <2>1 DEF HandlerHasTransaction, HandledBlocksSeen, CommittedPageIndexed
  <2>7. CursorCovered'
    BY <1>1, <2>1, <2>3, CoveredStays
  <2> QED
    BY <1>1, <2>4, <2>5, <2>6, <2>7 DEF IInv, DbInv, TypeInv
<1>11. CASE FetchPage
  BY <1>1, <1>10, <1>11, PageEnd DEF FetchPage
<1>12. CASE FetchFails
  BY <1>2, <1>10, <1>12, ExecutorAssumption DEF FetchFails
<1>13. CASE BeginTransaction
  <2>1. PICK c \in Conn : StartTransaction(c)
    BY <1>13 DEF BeginTransaction
  <2>2. UNCHANGED <<loopVars, pageVars, envVars>> /\ pc = "start" /\ pc' = "handle"
    BY <1>13 DEF BeginTransaction
  <2>3. stashed' = c /\ session'[c] = "open"
    BY <1>1, <2>1 DEF StartTransaction, TypeOK, DbTypeOK
  <2>4. ForgetsWrites /\ Indexed' = Indexed
    BY <1>1, <1>2, <1>4, <2>1, <2>2, OperationsThatForget DEF loopVars
  <2>5. DbInv'
    BY <1>1, <1>2, <2>2, <2>4, ForgettingKeepsDbInv DEF envVars
  <2>6. PageInBounds'
    BY <1>1, <2>2 DEF PageInBounds, StartBlock, loopVars, pageVars, envVars
  <2>7. HandlerHasTransaction' /\ CommittedPageIndexed'
    BY <2>2, <2>3 DEF HandlerHasTransaction, CommittedPageIndexed
  <2>8. HandledBlocksSeen'
    <3>1. at' = nextCursor + 1 /\ nextCursor' = nextCursor
      BY <1>1, <2>2 DEF PageInBounds, loopVars, pageVars
    <3>2. \A h \in Height : ~(nextCursor < h /\ h < nextCursor + 1)
      BY <1>2, ExecutorAssumption DEF Height
    <3> QED
      BY <3>1, <3>2 DEF HandledBlocksSeen
  <2>9. CursorCovered'
    BY <1>1, <2>2, <2>4, CoveredStays DEF loopVars, envVars
  <2> QED
    BY <1>1, <2>5, <2>6, <2>7, <2>8, <2>9 DEF IInv, DbInv, TypeInv
<1>14. ASSUME LeavesBatch, ForgetsWrites, tip' = tip PROVE IInv'
  BY <1>1, <1>2, <1>4, <1>14, ForgettingKeepsDbInv, LeavingBatch DEF LeavesBatch
<1>15. CASE BeginFails
  BY <1>2, <1>3, <1>14, <1>15
  DEF BeginFails, StartTransactionFails, LeavesBatch, loopVars, pageVars, envVars
<1>16. CASE SkipBlock
  <2>1. /\ UNCHANGED <<dbVars, pc, loopVars, pageEnd, lost, entitySaved, envVars>>
        /\ Handling /\ at < StartBlock /\ at' = at + 1
    BY <1>16 DEF SkipBlock
  <2>2. ForgetsWrites /\ Indexed' = Indexed
    BY <1>2, <1>3, <2>1 DEF loopVars
  <2>3. DbInv'
    BY <1>1, <1>2, <2>1, <2>2, ForgettingKeepsDbInv DEF envVars
  <2>4. ~entitySaved
    BY <1>1, <1>2, <2>1 DEF PageInBounds
  <2>5. PageInBounds'
    <3>1. pc' # "start" /\ ~entitySaved'
      BY <2>1, <2>4 DEF Handling
    <3>2. (nextCursor < at)'
      BY <1>1 DEF TypeInv
    <3> QED
      BY <1>1, <2>1, <3>1, <3>2 DEF PageInBounds, loopVars
  <2>6. session[stashed] = "open"
    BY <1>1, <1>2, <2>1 DEF HandlerHasTransaction, InHandler, Handling
  <2>7. HandlerHasTransaction' /\ CommittedPageIndexed'
    BY <1>1, <2>1, <2>6 DEF HandlerHasTransaction, CommittedPageIndexed, Handling, dbVars
  <2>8. HandledBlocksSeen'
    <3>1. \A h \in Height : h < at + 1 /\ StartBlock <= h => h < at
      BY <1>2, <2>1, ExecutorAssumption DEF Height
    <3> QED
      BY <1>1, <2>1, <2>6, <3>1
      DEF HandledBlocksSeen, SeesBlock, StartBlock, Handling, dbVars, loopVars, envVars
  <2>9. CursorCovered'
    BY <1>1, <2>1, <2>2, CoveredStays DEF loopVars, envVars
  <2> QED
    BY <1>1, <2>3, <2>5, <2>7, <2>8, <2>9 DEF IInv, DbInv, TypeInv
<1>17. Handling => at \in Height /\ at <= tip /\ at <= nextCursor + PageSize
  BY <1>1, <1>2, ExecutorAssumption
  DEF Handling, PageInBounds, TypeOK, Height, NoCursor
<1>18. CASE SaveEntity
  <2>1. /\ UNCHANGED <<pc, loopVars, pageEnd, lost, at, envVars>>
        /\ Handling /\ at >= StartBlock /\ ~entitySaved /\ entitySaved'
    BY <1>18 DEF SaveEntity
  <2>2. session[stashed] = "open" /\ session' = session /\ stashed' = stashed
    BY <1>1, <1>18, <2>1
    DEF SaveEntity, PutObject, dbVars, HandlerHasTransaction, InHandler, Handling
  <2>3. /\ DbInv' /\ Indexed' = Indexed
        /\ \A c \in Conn, h \in Height : SeesBlock(c, h) => SeesBlock(c, h)'
    <3>1. CASE at \in lost
      <4>1. UNCHANGED dbVars
        BY <1>18, <3>1 DEF SaveEntity
      <4>2. ForgetsWrites /\ Indexed' = Indexed
        BY <1>2, <1>3, <2>1, <4>1 DEF loopVars
      <4> QED
        BY <1>1, <1>2, <2>1, <4>1, <4>2, ForgettingKeepsDbInv
        DEF envVars, dbVars, SeesBlock
    <3>2. CASE at \notin lost
      <4>1. PutObject(Entity(at), Loaded(Entity(at)) + 1)
        BY <1>18, <3>2 DEF SaveEntity
      <4>2. Indexed' = Indexed
        BY <4>1 DEF PutObject, Indexed
      <4> QED
        BY <1>1, <1>17, <2>1, <4>1, <4>2, SavingEntityKeepsDbInv DEF loopVars, envVars
    <3> QED
      BY <3>1, <3>2
  <2>4. PageInBounds'
    BY <1>1, <2>1 DEF PageInBounds, StartBlock, Handling, loopVars, envVars
  <2>5. HandlerHasTransaction' /\ CommittedPageIndexed'
    BY <1>1, <2>1, <2>2 DEF HandlerHasTransaction, CommittedPageIndexed, Handling
  <2>6. HandledBlocksSeen'
    BY <1>1, <2>1, <2>2, <2>3
    DEF HandlerHasTransaction, HandledBlocksSeen, StartBlock, Handling, loopVars, envVars
  <2>7. CursorCovered'
    BY <1>1, <2>1, <2>3, CoveredStays DEF loopVars, envVars
  <2> QED
    BY <1>1, <2>3, <2>4, <2>5, <2>6, <2>7 DEF IInv, DbInv, TypeInv
<1>19. CASE SaveMetadata
  <2>1. /\ UNCHANGED <<pc, loopVars, pageEnd, lost, envVars>>
        /\ Handling /\ entitySaved /\ ~entitySaved' /\ at' = at + 1
        /\ PutObject(Meta(at), 1)
    BY <1>19 DEF SaveMetadata
  <2>2. session[stashed] = "open" /\ session' = session /\ stashed' = stashed
        /\ stashed \in Conn /\ StartBlock <= at /\ Indexed' = Indexed
    BY <1>1, <2>1 DEF PutObject, PageInBounds, Indexed
  <2>3. \A g \in Height : StartBlock <= g /\ g < at => SeesBlock(stashed, g)
    <3> SUFFICES ASSUME NEW g \in Height, StartBlock <= g, g < at
                 PROVE  SeesBlock(stashed, g)
      OBVIOUS
    <3>1. CASE nextCursor < g
      BY <1>1, <2>1, <2>2, <3>1 DEF HandledBlocksSeen, Handling
    <3>2. CASE g <= nextCursor
      BY <1>1, <3>2 DEF CursorCovered, Indexed, SeesBlock
    <3> QED
      BY <1>2, <3>1, <3>2, ExecutorAssumption DEF Height
  <2>4. PICK b \in Height : b = at
    BY <1>17, <2>1
  <2>5. /\ DbInv' /\ SeesBlock(stashed, b)'
        /\ \A c \in Conn, h \in Height : SeesBlock(c, h) => SeesBlock(c, h)'
    <3>1. nextCursor' = nextCursor /\ config' = config /\ tip' = tip
      BY <2>1 DEF loopVars, envVars
    <3>2. b <= tip /\ b <= nextCursor + PageSize /\ StartBlock <= b /\ PutObject(Meta(b), 1)
      BY <1>17, <2>1, <2>2, <2>4
    <3>3. \A g \in Height : StartBlock <= g /\ g < b => SeesBlock(stashed, g)
      BY <2>3, <2>4
    <3> QED
      BY <1>1, <3>1, <3>2, <3>3, SavingMetadataKeepsDbInv
  <2>6. PageInBounds'
    <3>1. (nextCursor < at)'
      BY <1>1 DEF TypeInv
    <3> QED
      BY <1>1, <2>1, <3>1 DEF PageInBounds, Handling, loopVars
  <2>7. HandlerHasTransaction' /\ CommittedPageIndexed'
    BY <1>1, <2>1, <2>2 DEF HandlerHasTransaction, CommittedPageIndexed, Handling
  <2>8. HandledBlocksSeen'
    <3> SUFFICES ASSUME NEW h \in Height, StartBlock <= h, h < at + 1
                 PROVE  SeesBlock(stashed, h)'
      BY <2>1 DEF HandledBlocksSeen, StartBlock, envVars
    <3>1. CASE h = b
      BY <2>5, <3>1
    <3>2. CASE h < at
      <4>1. SeesBlock(stashed, h)
        BY <2>3, <3>2
      <4>2. SeesBlock(stashed, h) => pending'[stashed][Meta(h)] > 0 \/ rows'[Meta(h)] > 0
        BY <2>2, <2>5 DEF SeesBlock
      <4> QED
        BY <2>2, <4>1, <4>2 DEF SeesBlock
    <3> QED
      BY <1>2, <2>4, <3>1, <3>2, ExecutorAssumption DEF Height
  <2>9. CursorCovered'
    BY <1>1, <2>1, <2>2, CoveredStays DEF loopVars, envVars
  <2> QED
    BY <1>1, <2>5, <2>6, <2>7, <2>8, <2>9 DEF IInv, DbInv, TypeInv
<1>20. CASE LoadFails
  <2>1. /\ InHandler /\ ~entitySaved /\ StatementFails
        /\ UNCHANGED <<pc, loopVars, pageVars, envVars>>
    BY <1>20 DEF LoadFails
  <2>2. ForgetsWrites /\ Indexed' = Indexed
    BY <1>1, <1>2, <1>4, <2>1, OperationsThatForget DEF loopVars
  <2>3. DbInv'
    BY <1>1, <1>2, <2>1, <2>2, ForgettingKeepsDbInv DEF envVars
  <2>4. session'[stashed] = "aborted" /\ stashed' = stashed /\ stashed \in Conn
    BY <1>1, <2>1 DEF StatementFails, TypeOK, DbTypeOK
  <2>5. PageInBounds'
    BY <1>1, <2>1 DEF PageInBounds, StartBlock, loopVars, pageVars, envVars
  <2>6. HandlerHasTransaction' /\ HandledBlocksSeen' /\ CommittedPageIndexed'
    BY <2>1, <2>4
    DEF HandlerHasTransaction, HandledBlocksSeen, CommittedPageIndexed, InHandler,
        Handling, StartBlock, pageVars, envVars
  <2>7. CursorCovered'
    BY <1>1, <2>1, <2>2, CoveredStays DEF loopVars, envVars
  <2> QED
    BY <1>1, <2>3, <2>5, <2>6, <2>7 DEF IInv, DbInv, TypeInv
<1>21. CASE HandlerSkips
  BY <1>21 DEF HandlerSkips
<1>22. CASE HandlerTraps
  BY <1>1, <1>2, <1>14, <1>22, OperationsThatForget
  DEF HandlerTraps, LeavesBatch, loopVars, pageVars, envVars
<1>23. HostPanics /\ nextCursor' = nextCursor => ForgetsWrites /\ pc' \in {"failed", "stopped"}
  BY <1>1, <1>2, <1>3, OperationsThatForget DEF HostPanics
<1>24. CASE PutPanics
  BY <1>14, <1>23, <1>24 DEF PutPanics, LeavesBatch, loopVars, pageVars, envVars
<1>25. CASE PanicInHost
  BY <1>14, <1>23, <1>25 DEF PanicInHost, LeavesBatch, loopVars, pageVars
<1>26. ASSUME CommitsWrites, UNCHANGED <<loopVars, pageVars, config, tip>>
       PROVE  /\ DbInv' /\ Indexed \subseteq Indexed'
              /\ \A h \in Height : h \in Indexed' <=> SeesBlock(stashed, h)
  <2>1. /\ DbInv'
        /\ \A h \in Height : h \in Indexed' <=> SeesBlock(stashed, h)
    BY <1>1, <1>26, CommittingKeepsDbInv DEF loopVars
  <2> QED
    BY <2>1 DEF Indexed, SeesBlock
<1>27. CASE CommitBatch
  <2>1. /\ pc = "handle" /\ at > pageEnd /\ pc' = "check"
        /\ UNCHANGED <<loopVars, pageVars, envVars>>
    BY <1>27 DEF CommitBatch
  <2>2. CommitsWrites
    BY <1>1, <1>27 DEF CommitBatch, CommitTransaction, CommitsWrites, TypeOK, DbTypeOK
  <2>3. /\ DbInv' /\ Indexed \subseteq Indexed'
        /\ \A h \in Height : h \in Indexed' <=> SeesBlock(stashed, h)
    BY <1>26, <2>1, <2>2 DEF envVars
  <2>4. session[stashed] = "open"
    BY <1>1, <1>2, <2>1 DEF HandlerHasTransaction, InHandler, Handling
  <2>5. \A h \in Height : StartBlock <= h /\ h <= pageEnd => h \in Indexed'
    <3> SUFFICES ASSUME NEW h \in Height, StartBlock <= h, h <= pageEnd
                 PROVE  h \in Indexed'
      OBVIOUS
    <3>1. CASE nextCursor < h
      BY <1>1, <1>2, <2>1, <2>3, <2>4, <3>1, ExecutorAssumption
      DEF HandledBlocksSeen, Height
    <3>2. CASE h <= nextCursor
      BY <1>1, <2>3, <3>2 DEF CursorCovered
    <3> QED
      BY <1>2, <3>1, <3>2, ExecutorAssumption DEF Height
  <2>6. CommittedPageIndexed'
    BY <2>1, <2>5 DEF CommittedPageIndexed, StartBlock, pageVars, envVars
  <2>7. PageInBounds'
    BY <1>1, <2>1 DEF PageInBounds, StartBlock, loopVars, pageVars, envVars
  <2>8. HandlerHasTransaction' /\ HandledBlocksSeen'
    BY <2>1 DEF HandlerHasTransaction, HandledBlocksSeen
  <2>9. CursorCovered'
    BY <1>1, <2>1, <2>3, CoveredStays DEF loopVars, envVars
  <2> QED
    BY <1>1, <2>3, <2>6, <2>7, <2>8, <2>9 DEF IInv, DbInv, TypeInv
<1>28. CASE CommitFails
  <2>1. /\ pc' = "failed" /\ CommitTransactionFails
        /\ UNCHANGED <<loopVars, pageVars, config, tip, killSwitch>>
    BY <1>28 DEF CommitFails
  <2>2. LeavesBatch /\ tip' = tip
    BY <2>1 DEF LeavesBatch, loopVars, pageVars
  <2>3. CASE rows' = rows
    <3>1. ForgetsWrites
      BY <1>1, <1>2, <2>1, <2>3
      DEF CommitTransactionFails, ForgetsWrites, TypeOK, DbTypeOK, loopVars
    <3> QED
      BY <1>14, <2>2, <3>1
  <2>4. CASE rows' = [k \in Key |-> Visible(k)]
    <3>1. CommitsWrites
      BY <1>1, <2>1, <2>4
      DEF CommitTransactionFails, CommitsWrites, TypeOK, DbTypeOK
    <3> QED
      BY <1>1, <1>26, <2>1, <2>2, <3>1, LeavingBatch
  <2> QED
    BY <2>1, <2>3, <2>4 DEF CommitTransactionFails
<1>29. CASE RetryBatch
  BY <1>2, <1>3, <1>14, <1>29 DEF RetryBatch, LeavesBatch, pageVars, envVars
<1>30. CASE GiveUp
  BY <1>1, <1>14, <1>30, OperationsThatForget DEF GiveUp, LeavesBatch, pageVars, envVars
<1>31. ASSUME ForgetsWrites, config' = config, tip' = tip, pc' \in {"fetch", "stopped"},
              pageEnd' = nextCursor', at' = nextCursor' + 1, ~entitySaved',
              CursorCovered'
       PROVE  IInv'
  <2>1. DbInv'
    BY <1>1, <1>2, <1>31, ForgettingKeepsDbInv
  <2>2. PageInBounds'
    <3>1. (nextCursor < at)' /\ nextCursor' \in Int
      BY <1>1 DEF TypeInv, TypeOK
    <3>2. \A i \in Int : i <= i + PageSize
      BY ExecutorAssumption
    <3> QED
      BY <1>31, <3>1, <3>2 DEF PageInBounds
  <2>3. HandlerHasTransaction' /\ HandledBlocksSeen' /\ CommittedPageIndexed'
    BY <1>31 DEF HandlerHasTransaction, HandledBlocksSeen, CommittedPageIndexed
  <2> QED
    BY <1>1, <1>31, <2>1, <2>2, <2>3 DEF IInv, DbInv, TypeInv
<1>32. CASE FinishBatch
  <2>1. /\ pc = "check" /\ pc' \in {"fetch", "stopped"} /\ UNCHANGED envVars
        /\ pageEnd' = nextCursor' /\ at' = nextCursor' + 1
    BY <1>32 DEF FinishBatch
  <2>2. ~entitySaved'
    BY <1>32 DEF FinishBatch
  <2>3. nextCursor' \in {nextCursor, pageEnd}
    BY <1>32 DEF FinishBatch, Advance
  <2>4. nextCursor <= nextCursor'
    BY <1>1, <1>2, <2>3 DEF TypeOK
  <2>5. ForgetsWrites /\ Indexed' = Indexed
    BY <1>1, <1>3, <1>4, <1>32, <2>4, OperationsThatForget DEF FinishBatch
  <2>6. CursorCovered'
    BY <1>1, <2>1, <2>3, <2>5 DEF CursorCovered, CommittedPageIndexed, StartBlock, envVars
  <2> QED
    BY <1>31, <2>1, <2>2, <2>5, <2>6 DEF envVars
<1>33. CASE Restart
  <2>1. /\ DropDatabase /\ pc' = "fetch" /\ UNCHANGED <<config, tip>>
        /\ pageEnd' = nextCursor' /\ at' = nextCursor' + 1
        /\ nextCursor' = CursorFor(GetStartBlock)
    BY <1>33 DEF Restart
  <2>2. ~entitySaved'
    BY <1>33 DEF Restart
  <2>3. CursorCovered'
    BY <1>1, <2>1, FirstCursor DEF CursorCovered, StartBlock, TypeOK
  <2> QED
    BY <1>1, <1>31, <2>1, <2>2, <2>3, OperationsThatForget
<1> QED
  BY <1>6, <1>7, <1>8, <1>9, <1>11, <1>12, <1>13, <1>15, <1>16, <1>18, <1>19, <1>20,
     <1>21, <1>22, <1>24, <1>25, <1>27, <1>28, <1>29, <1>30, <1>32, <1>33
  DEF Next, Step, Failure

(* IInv holds in every state a module without that defect can lead to.     *)
THEOREM Invariance ==
    ASSUME "skip" \notin Faults
    PROVE  Spec => []IInv
<1>1. Init => IInv
  BY InvInit
<1>2. IInv /\ [Next]_vars => IInv'
  BY InvNext
<1> QED
  BY <1>1, <1>2, PTL DEF Spec

(* The cursor never runs ahead of the committed index.                     *)
THEOREM CursorIsCovered ==
    ASSUME "skip" \notin Faults
    PROVE  Spec => []CursorCovered
<1>1. IInv => CursorCovered
  BY DEF IInv
<1> QED
  BY <1>1, Invariance, PTL

(* The committed index has no holes.                                       *)
THEOREM IndexIsContiguous ==
    ASSUME "skip" \notin Faults
    PROVE  Spec => []Contiguous
<1>1. IInv => Contiguous
  BY DEF IInv
<1> QED
  BY <1>1, Invariance, PTL

-----------------------------------------------------------------------------
(* Refinement.                                                             *)

(* Only a new block of the node and a commit are visible to the readers.   *)
LEMMA VisibleSteps ==
    ASSUME IInv, [Next]_vars
    PROVE  \/ UNCHANGED <<config, tip, Indexed>>
           \/ ProduceBlock /\ UNCHANGED <<config, Indexed>>
           \/ CommitsWrites /\ UNCHANGED <<loopVars, config, tip>>
<1> USE DEF loopVars, envVars
<1>1. rows' = rows => Indexed' = Indexed
  BY DEF Indexed
<1>2. UNCHANGED dbVars => rows' = rows
  BY DEF dbVars
<1>3. DropDatabase => rows' = rows
  BY DEF DropDatabase
<1>4. CASE UNCHANGED vars
  BY <1>1, <1>2, <1>4 DEF vars
<1>5. CASE ProduceBlock
  BY <1>1, <1>2, <1>5 DEF ProduceBlock
<1>6. CASE Kill \/ FetchPage \/ FetchFails \/ BeginFails \/ SkipBlock \/ HandlerSkips \/ RetryBatch
  BY <1>1, <1>2, <1>6
  DEF Kill, FetchPage, FetchFails, Fetched, BeginFails, StartTransactionFails,
      SkipBlock, HandlerSkips, RetryBatch
<1>7. CASE ReapConnection \/ BeginTransaction \/ LoadFails \/ HandlerTraps
  BY <1>1, <1>7
  DEF ReapConnection, ReapIdle, BeginTransaction, StartTransaction, LoadFails,
      StatementFails, HandlerTraps, RevertTransaction
<1>8. CASE SaveEntity \/ SaveMetadata
  BY <1>1, <1>2, <1>8 DEF SaveEntity, SaveMetadata, PutObject
<1>9. CASE PutPanics \/ PanicInHost
  BY <1>1, <1>2, <1>3, <1>9 DEF PutPanics, PanicInHost, HostPanics
<1>10. CASE GiveUp \/ FinishBatch \/ Restart
  BY <1>1, <1>2, <1>3, <1>10 DEF GiveUp, FinishBatch, Restart
<1>11. CASE CommitBatch
  BY <1>11
  DEF CommitBatch, CommitTransaction, CommitsWrites, IInv, TypeOK, DbTypeOK
<1>12. CASE CommitFails
  <2>1. CommitTransactionFails /\ UNCHANGED <<loopVars, config, tip>>
    BY <1>12 DEF CommitFails
  <2> QED
    BY <1>1, <2>1
    DEF CommitTransactionFails, CommitsWrites, IInv, TypeOK, DbTypeOK
<1> QED
  BY <1>4, <1>5, <1>6, <1>7, <1>8, <1>9, <1>10, <1>11, <1>12 DEF Next, Step, Failure

(* A commit extends the index by blocks that are at most a page ahead of   *)
(* the cursor, whichever batch its transaction was opened for.             *)
LEMMA CommitExtends ==
    ASSUME IInv, IInv', CommitsWrites, UNCHANGED <<loopVars, config, tip>>
    PROVE  Abstract!Extend
<1> DEFINE g == IF nextCursor <= tip THEN nextCursor ELSE tip
           more == {h \in Height : pending[stashed][Meta(h)] > 0}
<1>1. nextCursor \in Int /\ nextCursor >= Genesis - 1 /\ tip \in Height
      /\ StartBlock \in Nat /\ stashed \in Conn
  BY ConfigFields DEF IInv, TypeOK, NoCursor, CommitsWrites
<1>2. g \in Genesis - 1 .. tip /\ g <= nextCursor
  BY <1>1, ExecutorAssumption DEF Height
<1>3. \A h \in more : StartBlock <= h /\ h <= tip /\ h <= nextCursor + PageSize
  BY <1>1 DEF IInv, WritesInBounds
<1>4. more \in SUBSET Abstract!UpTo(tip)
  BY <1>3 DEF Abstract!UpTo, Height
<1>5. Abstract!UpTo(g) \subseteq Indexed
  BY <1>1, <1>2, ExecutorAssumption DEF Abstract!UpTo, IInv, CursorCovered, Height
<1>6. more \subseteq Abstract!UpTo(g + PageSize)
  BY <1>1, <1>3, ExecutorAssumption DEF Abstract!UpTo, Height
<1>7. Indexed' = Indexed \cup more
  <2>1. \A h \in Height : h \in Indexed' <=> SeesBlock(stashed, h)
    BY CommittingKeepsDbInv DEF IInv, DbInv, loopVars
  <2> QED
    BY <2>1 DEF SeesBlock, Indexed
<1>8. Abstract!Unbroken(Indexed')
  BY <1>1 DEF IInv, Contiguous, Abstract!Unbroken, Abstract!UpTo, StartBlock, Height
<1>9. UNCHANGED <<StartBlock, tip>>
  BY DEF StartBlock
<1> HIDE DEF g, more
<1> QED
  BY <1>2, <1>4, <1>5, <1>6, <1>7, <1>8, <1>9 DEF Abstract!Extend

(* Readers of the database see a BlockIndex.                               *)
THEOREM Refinement ==
    ASSUME "skip" \notin Faults
    PROVE  Spec => ImplementsBlockIndex
<1>1. Init => Abstract!Init
  <2> SUFFICES ASSUME Init PROVE Abstract!Init
    OBVIOUS
  <2>1. Indexed = {}
    BY BlockKeys, NoRowsWritten DEF Init, DbInit, Indexed
  <2> QED
    BY <2>1, ConfigFields DEF Init, Abstract!Init
<1>2. IInv /\ IInv' /\ [Next]_vars => [Abstract!Next]_(Abstract!vars)
  <2> SUFFICES ASSUME IInv, IInv', [Next]_vars PROVE [Abstract!Next]_(Abstract!vars)
    OBVIOUS
  <2>1. CASE UNCHANGED <<config, tip, Indexed>>
    BY <2>1 DEF Abstract!vars, StartBlock
  <2>2. CASE ProduceBlock /\ UNCHANGED <<config, Indexed>>
    BY <2>2 DEF ProduceBlock, Abstract!ProduceBlock, Abstract!Next, StartBlock
  <2>3. CASE CommitsWrites /\ UNCHANGED <<loopVars, config, tip>>
    BY <2>3, CommitExtends DEF Abstract!Next
  <2> QED
    BY <2>1, <2>2, <2>3, VisibleSteps
<1> QED
  BY <1>1, <1>2, Invariance, PTL DEF Spec, Abstract!Spec, ImplementsBlockIndex

=============================================================================

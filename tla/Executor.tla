------------------------------- MODULE Executor -------------------------------
(***************************************************************************)
(* One executor task, `run_executor` of packages/fuel-indexer/src/         *)
(* executor.rs: it pages through the blocks of a Fuel node, hands every    *)
(* page to the indexer module inside one database transaction, retries a   *)
(* page that failed and moves its cursor past a page that committed.       *)
(*                                                                         *)
(* The module is the one the `#[indexer]` macro generates: for every block *)
(* it runs the handlers (abstracted to one handler that loads an entity,   *)
(* increments it and saves it) and then saves the IndexMetadataEntity of   *)
(* the block.  Every block carries one transaction.                        *)
(***************************************************************************)
EXTENDS Integers, FiniteSets, ExecutorDatabase

CONSTANTS
    Genesis,        \* height of the node's first block
    MaxHeight,      \* bound: the node's chain stops growing here
    PageSize,       \* NODE_GRAPHQL_PAGE_SIZE
    FailedCalls,    \* INDEX_FAILED_CALLS
    MaxEmpty,       \* MAX_EMPTY_BLOCK_REQUESTS
    Configs,        \* the manifests and service configurations to consider
    Faults,         \* the failures the environment may cause
    MaxFaults       \* bound on the failures that can repeat a write

Height == Genesis .. MaxHeight

(* start_block is 0 and resumable "none" when the manifest has no such     *)
(* field.                                                                  *)
Config == [start_block : Nat, resumable : {"none", "false", "true"},
           native : BOOLEAN, stop_idle_indexers : BOOLEAN]

Fault == {"fetch", "lostTx", "trap", "begin", "load", "skip",
          "commit", "panic", "crash"}

ASSUME ExecutorAssumption ==
    /\ Genesis \in {0, 1} /\ MaxHeight \in Nat /\ Genesis <= MaxHeight
    /\ PageSize \in Nat \ {0} /\ FailedCalls \in Nat \ {0}
    /\ MaxEmpty \in Nat \ {0} /\ MaxFaults \in Nat
    /\ Configs \subseteq Config
    /\ Faults \subseteq Fault
    /\ Key = {"entity", "meta"} \X Height

VARIABLES
    config,         \* member of Configs, fixed by the manifest and the service
    tip,            \* height of the node's latest block
    pc,             \* where the task is in its loop
    nextCursor,     \* `next_cursor`: the last block of the last page done
    pageEnd,        \* last block of the page at hand, nextCursor if empty
    lost,           \* blocks of the page whose transaction was not fetched
    at,             \* the block the handler is in
    entitySaved,    \* the handlers of that block have run
    retryCount,     \* `retry_count`
    numEmpty,       \* `num_empty_block_reqs`
    killSwitch,     \* `kill_switch`
    faults          \* failures left to the environment

loopVars == <<nextCursor, retryCount, numEmpty>>
pageVars == <<pageEnd, lost, at, entitySaved>>
envVars  == <<config, tip, killSwitch, faults>>
vars     == <<dbVars, pc, loopVars, pageVars, envVars>>

StartBlock == config.start_block

Entity(h) == <<"entity", h>>
Meta(h)   == <<"meta", h>>

(* Blocks the index has: their metadata row is committed.                  *)
Indexed == {h \in Height : rows[Meta(h)] > 0}

(* The cursor None stands before the first block of the chain.             *)
NoCursor == Genesis - 1

(* Mutant: the cursor is the start block itself, not the one before it.    *)
CursorAtStart(start) == IF start >= 1 THEN start ELSE NoCursor

(* First block asked for by an executor whose manifest says `start`.       *)
CursorFor(start) == IF start > 1 THEN start - 1 ELSE NoCursor

Page == nextCursor + 1 .. pageEnd

TypeOK ==
    /\ DbTypeOK
    /\ config \in Configs
    /\ tip \in Height
    /\ pc \in {"fetch", "start", "handle", "failed", "check", "stopped"}
    /\ nextCursor \in Int /\ nextCursor >= NoCursor
    /\ pageEnd \in Int /\ pageEnd >= nextCursor
    /\ pageEnd > nextCursor => pageEnd <= tip
    /\ lost \subseteq Height
    /\ at \in Int
    /\ entitySaved \in BOOLEAN
    /\ retryCount \in 0 .. FailedCalls
    /\ numEmpty \in 0 .. MaxEmpty
    /\ killSwitch \in BOOLEAN
    /\ faults \in 0 .. MaxFaults

-----------------------------------------------------------------------------
(* The environment: the node, the service that stops executors, the faults.*)

ProduceBlock ==
    /\ tip < MaxHeight
    /\ tip' = tip + 1
    /\ UNCHANGED <<dbVars, pc, loopVars, pageVars, config, killSwitch, faults>>

(* The service stores TRUE in the kill switch of this executor.            *)
Kill ==
    /\ pc # "stopped" /\ ~killSwitch
    /\ killSwitch' = TRUE
    /\ UNCHANGED <<dbVars, pc, loopVars, pageVars, config, tip, faults>>

ReapConnection ==
    /\ \E c \in Conn : ReapIdle(c)
    /\ UNCHANGED <<pc, loopVars, pageVars, envVars>>

(* A failure that the environment can cause only MaxFaults times.          *)
SpendFault(f) ==
    /\ f \in Faults
    /\ faults > 0
    /\ faults' = faults - 1

-----------------------------------------------------------------------------
(* Fetching a page.                                                        *)

(* Mutant: the request does not limit the page.                            *)
UnlimitedPage == IF tip > nextCursor THEN tip ELSE nextCursor

LastOfPage == IF tip > nextCursor + PageSize THEN nextCursor + PageSize
              ELSE IF tip > nextCursor THEN tip ELSE nextCursor

Fetched(end, missing) ==
    /\ pc = "fetch"
    /\ pageEnd' = end
    /\ lost' = missing
    /\ at' = nextCursor + 1
    /\ entitySaved' = FALSE
    /\ pc' = "start"
    /\ UNCHANGED <<dbVars, loopVars, envVars>>

(* A transaction whose request fails, or that the node does not know, is   *)
(* left out of its block.                                                  *)
FetchPage ==
    \E missing \in SUBSET (nextCursor + 1 .. LastOfPage) :
        /\ missing # {} => "lostTx" \in Faults
        /\ Fetched(LastOfPage, missing)

(* A page that cannot be fetched becomes an empty page without cursor: it  *)
(* cannot be told from the end of the chain.                               *)
FetchFails ==
    /\ "fetch" \in Faults
    /\ LastOfPage > nextCursor
    /\ Fetched(nextCursor, {})

-----------------------------------------------------------------------------
(* handle_events: one transaction around the indexer module's handler.     *)

BeginTransaction ==
    /\ pc = "start"
    /\ \E c \in Conn : StartTransaction(c)
    /\ pc' = "handle"
    /\ UNCHANGED <<loopVars, pageVars, envVars>>

BeginFails ==
    /\ pc = "start"
    /\ "begin" \in Faults \/ \E c \in Conn : Acquirable(c) /\ session[c] = "aborted"
    /\ StartTransactionFails
    /\ pc' = "failed"
    /\ UNCHANGED <<loopVars, pageVars, envVars>>

Handling == pc = "handle" /\ at <= pageEnd

(* `if block.height < start_block { continue; }` of the generated handler. *)
SkipBlock ==
    /\ Handling
    /\ at < StartBlock
    /\ at' = at + 1
    /\ UNCHANGED <<dbVars, pc, loopVars, pageEnd, lost, entitySaved, envVars>>

(* The module is about to touch the database for block `at`.               *)
InHandler ==
    Handling /\ at >= StartBlock /\ (entitySaved \/ at \notin lost)

(* The handlers of a block: load an entity, increment it, save it.  A      *)
(* block that lost its transaction dispatches to no handler.               *)
SaveEntity ==
    /\ Handling /\ at >= StartBlock /\ ~entitySaved
    /\ IF at \in lost
       THEN UNCHANGED dbVars
       ELSE PutObject(Entity(at), Loaded(Entity(at)) + 1)
    /\ entitySaved' = TRUE
    /\ UNCHANGED <<pc, loopVars, pageEnd, lost, at, envVars>>

(* `IndexMetadataEntity{ id: block.height, .. }.save()` ends a block.      *)
SaveMetadata ==
    /\ Handling /\ entitySaved
    /\ PutObject(Meta(at), 1)
    /\ at' = at + 1
    /\ entitySaved' = FALSE
    /\ UNCHANGED <<pc, loopVars, pageEnd, lost, envVars>>

(* A load inside a handler fails in Postgres.  `get_object` turns that     *)
(* into None and the handler goes on in an aborted transaction.            *)
LoadFails ==
    /\ InHandler /\ ~entitySaved
    /\ "load" \in Faults
    /\ StatementFails
    /\ UNCHANGED <<pc, loopVars, pageVars, envVars>>

(* The module returns as if it were done: it could not deserialize the     *)
(* blocks it was given, which it only logs.                                *)
HandlerSkips ==
    /\ Handling /\ at = nextCursor + 1 /\ ~entitySaved
    /\ "skip" \in Faults
    /\ at' = pageEnd + 1
    /\ UNCHANGED <<dbVars, pc, loopVars, pageEnd, lost, entitySaved, envVars>>

(* Mutant: a failed handler's transaction is committed.                    *)
CommitOnTrap ==
    /\ Handling
    /\ "trap" \in Faults
    /\ CommitTransaction
    /\ pc' = "failed"
    /\ UNCHANGED <<loopVars, pageVars, envVars>>

(* The handler traps (or, if native, returns an error): ROLLBACK.          *)
HandlerTraps ==
    /\ Handling
    /\ "trap" \in Faults
    /\ RevertTransaction
    /\ pc' = "failed"
    /\ UNCHANGED <<loopVars, pageVars, envVars>>

(* A panic in code the host runs for the handler: `expect` on a failed     *)
(* statement or on what the module passed in.  For a WASM module it is the *)
(* JoinError of `spawn_blocking`, and `?` leaves handle_events before the  *)
(* transaction is reverted.  A native module unwinds the executor's task.  *)
HostPanics ==
    IF config.native
    THEN pc' = "stopped" /\ DropDatabase
    ELSE pc' = "failed" /\ UNCHANGED dbVars

PutPanics ==
    /\ InHandler
    /\ session[stashed] = "aborted"
    /\ HostPanics
    /\ UNCHANGED <<loopVars, pageVars, envVars>>

PanicInHost ==
    /\ InHandler /\ session[stashed] = "open"
    /\ SpendFault("panic")
    /\ HostPanics
    /\ UNCHANGED <<loopVars, pageVars, config, tip, killSwitch>>

(* Mutant: the transaction is committed between the blocks of a page.      *)
CommitBetweenBlocks ==
    /\ pc = "handle" /\ ~entitySaved
    /\ CommitTransaction
    /\ pc' = "check"
    /\ UNCHANGED <<loopVars, pageVars, envVars>>

CommitBatch ==
    /\ pc = "handle" /\ at > pageEnd
    /\ CommitTransaction
    /\ pc' = "check"
    /\ UNCHANGED <<loopVars, pageVars, envVars>>

CommitFails ==
    /\ pc = "handle" /\ at > pageEnd
    /\ SpendFault("commit")
    /\ CommitTransactionFails
    /\ pc' = "failed"
    /\ UNCHANGED <<loopVars, pageVars, config, tip, killSwitch>>

-----------------------------------------------------------------------------
(* The end of an iteration of the loop.                                    *)

(* Mutant: one retry too many.                                             *)
RetryOnceMore ==
    /\ pc = "failed"
    /\ retryCount <= FailedCalls
    /\ retryCount' = retryCount + 1
    /\ pc' = "fetch"
    /\ UNCHANGED <<dbVars, nextCursor, numEmpty, pageVars, envVars>>

(* Mutant: a page that failed is given up, not retried.                    *)
RetryNextPage ==
    /\ pc = "failed"
    /\ retryCount + 1 < FailedCalls
    /\ retryCount' = retryCount + 1
    /\ nextCursor' = pageEnd
    /\ pc' = "fetch"
    /\ UNCHANGED <<dbVars, numEmpty, pageVars, envVars>>

(* Mutant: a failed batch counts as activity.                              *)
RetryResetsIdleCount ==
    /\ pc = "failed"
    /\ retryCount + 1 < FailedCalls
    /\ retryCount' = retryCount + 1
    /\ numEmpty' = 0
    /\ pc' = "fetch"
    /\ UNCHANGED <<dbVars, nextCursor, pageVars, envVars>>

(* The error branch: the same cursor again, and the kill switch not looked *)
(* at, until the calls that failed in a row are too many.                  *)
RetryBatch ==
    /\ pc = "failed"
    /\ retryCount + 1 < FailedCalls
    /\ retryCount' = retryCount + 1
    /\ pc' = "fetch"
    /\ UNCHANGED <<dbVars, nextCursor, numEmpty, pageVars, envVars>>

GiveUp ==
    /\ pc = "failed"
    /\ retryCount + 1 >= FailedCalls
    /\ retryCount' = retryCount + 1
    /\ pc' = "stopped"
    /\ DropDatabase
    /\ UNCHANGED <<nextCursor, numEmpty, pageVars, envVars>>

(* Count the empty page or move the cursor.  Without stop_idle_indexers    *)
(* the limit is usize::MAX and the count is left out.                      *)
EmptyPage == pageEnd = nextCursor

Advance ==
    IF EmptyPage
    THEN /\ numEmpty' = IF config.stop_idle_indexers THEN numEmpty + 1 ELSE numEmpty
         /\ UNCHANGED nextCursor
    ELSE /\ nextCursor' = pageEnd
         /\ numEmpty' = 0

(* Mutant: the kill switch is not looked at after an empty page.           *)
KillNotChecked ==
    /\ pc = "check"
    /\ Advance
    /\ IF ~EmptyPage /\ killSwitch
       THEN pc' = "stopped" /\ DropDatabase /\ UNCHANGED retryCount
       ELSE pc' = "fetch" /\ retryCount' = 0 /\ UNCHANGED dbVars
    /\ pageEnd' = nextCursor' /\ lost' = {}
    /\ at' = nextCursor' + 1 /\ entitySaved' = FALSE
    /\ UNCHANGED envVars

FinishBatch ==
    /\ pc = "check"
    /\ Advance
    /\ IF killSwitch \/ (EmptyPage /\ config.stop_idle_indexers /\ numEmpty + 1 = MaxEmpty)
       THEN /\ pc' = "stopped"
            /\ DropDatabase
            /\ UNCHANGED retryCount
       ELSE /\ pc' = "fetch"
            /\ retryCount' = 0
            /\ UNCHANGED dbVars
    /\ pageEnd' = nextCursor' /\ lost' = {}
    /\ at' = nextCursor' + 1 /\ entitySaved' = FALSE
    /\ UNCHANGED envVars

-----------------------------------------------------------------------------
(* The service's process dies and is started again.                        *)

(* The id column of indexmetadataentity.                                   *)
IdColumnType == "numeric(20, 0)"

HighestIndexed == CHOOSE h \in Indexed : \A g \in Indexed : g <= h

(* `SELECT MAX(id)`, decoded as an i64, which only a bigint can be; an     *)
(* error in decoding (and MAX over no rows, which is NULL) counts as 1.    *)
LastBlockHeight ==
    IF IdColumnType = "bigint" /\ Indexed # {} THEN HighestIndexed ELSE 1

(* Some(_) matches a resumable of false as well.                           *)
GetStartBlock ==
    IF config.resumable # "none" THEN LastBlockHeight ELSE StartBlock

Restart ==
    /\ SpendFault("crash")
    /\ DropDatabase
    /\ pc' = "fetch"
    /\ nextCursor' = CursorFor(GetStartBlock)
    /\ pageEnd' = nextCursor' /\ lost' = {}
    /\ at' = nextCursor' + 1 /\ entitySaved' = FALSE
    /\ retryCount' = 0 /\ numEmpty' = 0
    /\ killSwitch' = FALSE
    /\ UNCHANGED <<config, tip>>

-----------------------------------------------------------------------------

Init ==
    /\ DbInit
    /\ config \in Configs
    /\ tip = Genesis
    /\ pc = "fetch"
    /\ nextCursor = CursorFor(GetStartBlock)
    /\ pageEnd = nextCursor /\ lost = {}
    /\ at = nextCursor + 1 /\ entitySaved = FALSE
    /\ retryCount = 0 /\ numEmpty = 0
    /\ killSwitch = FALSE
    /\ faults = MaxFaults

(* What the task does by itself when nothing fails.                        *)
Step ==
    \/ FetchPage \/ BeginTransaction
    \/ SkipBlock \/ SaveEntity \/ SaveMetadata \/ PutPanics
    \/ CommitBatch \/ FinishBatch
    \/ RetryBatch \/ GiveUp

Failure ==
    \/ FetchFails \/ BeginFails
    \/ LoadFails \/ HandlerSkips \/ HandlerTraps \/ PanicInHost
    \/ CommitFails

Next ==
    \/ Step \/ Failure
    \/ ProduceBlock \/ Kill \/ ReapConnection \/ Restart

Spec == Init /\ [][Next]_vars

(* The tokio runtime keeps polling the task, and whatever it waits for (the*)
(* node, Postgres, the module) answers or fails.  A handler that waits for *)
(* a row lock gets it only when the pool's reaper, which runs too, has     *)
(* closed the session that holds it.  Nothing makes the node produce       *)
(* blocks, the service kill or faults occur.                               *)
FairSpec ==
    /\ Spec
    /\ WF_vars(Step)
    /\ WF_vars(ReapConnection)

-----------------------------------------------------------------------------
(* Safety.                                                                 *)

(* The cursor never runs ahead of the database: every block from the       *)
(* start block up to next_cursor has its metadata row committed, whatever  *)
(* fetches, statements, handlers and commits failed on the way.            *)
CursorCovered ==
    \A h \in Height : StartBlock <= h /\ h <= nextCursor => h \in Indexed

(* The index has no holes: with a block it has every earlier one from the  *)
(* start block on, so that MAX(id) tells how far it is.                    *)
Contiguous ==
    \A h \in Indexed : \A g \in Height : StartBlock <= g /\ g <= h => g \in Indexed

(* What a batch writes becomes visible together: the entity rows of a      *)
(* block are committed only with its metadata row.                         *)
EntityWithMeta ==
    \A h \in Height : rows[Entity(h)] > 0 => h \in Indexed

(* A handler that loads, increments and saves an entity leaves 1 in it,    *)
(* however often its page was retried; only a panic, a commit whose        *)
(* outcome is unknown or a crash can make it find its own row.             *)
AppliedOnce ==
    \A h \in Height : rows[Entity(h)] <= 1 + (MaxFaults - faults)

(* A commit is all of a page or none of it.                                *)
WholePages ==
    [][rows' # rows => \A h \in Page : h >= StartBlock => h \in Indexed']_vars

(* The invariant that is inductive: CursorCovered and Contiguous hold      *)
(* because every transaction, the one at hand and any that a panic left    *)
(* open, sees an unbroken index, and the one at hand sees every block      *)
(* between the cursor and the block its handler is in.                     *)
SeesBlock(c, h) == pending[c][Meta(h)] > 0 \/ rows[Meta(h)] > 0

CountsBelowLimits ==
    pc # "stopped" => retryCount < FailedCalls /\ numEmpty < MaxEmpty

PageInBounds ==
    /\ nextCursor < at
    /\ pageEnd <= nextCursor + PageSize
    /\ pc = "start" => at = nextCursor + 1
    /\ entitySaved => at >= StartBlock

OnlyOpenSessionsWrite ==
    \A c \in Conn : session[c] # "open" => pending[c] = NoRows

HandlerHasTransaction ==
    pc = "handle" =>
        /\ stashed \in Conn
        /\ session[stashed] \in {"open", "aborted"}
        /\ session[stashed] = "aborted" => InHandler /\ ~entitySaved

HandledBlocksSeen ==
    pc = "handle" /\ session[stashed] = "open" =>
        \A h \in Height :
            StartBlock <= h /\ nextCursor < h /\ h < at => SeesBlock(stashed, h)

CommittedPageIndexed ==
    pc = "check" => \A h \in Height : StartBlock <= h /\ h <= pageEnd => h \in Indexed

SeesNoHoles ==
    \A c \in Conn : \A h, g \in Height :
        SeesBlock(c, h) /\ StartBlock <= g /\ g <= h => SeesBlock(c, g)

WritesInBounds ==
    /\ \A h \in Indexed : StartBlock <= h /\ h <= tip
    /\ \A c \in Conn : \A h \in Height :
          pending[c][Meta(h)] > 0 =>
              StartBlock <= h /\ h <= tip /\ h <= nextCursor + PageSize

IInv ==
    /\ TypeOK
    /\ CountsBelowLimits
    /\ PageInBounds
    /\ OnlyOpenSessionsWrite
    /\ HandlerHasTransaction
    /\ HandledBlocksSeen
    /\ CommittedPageIndexed
    /\ SeesNoHoles
    /\ WritesInBounds
    /\ CursorCovered
    /\ Contiguous

(* The executor implements the abstract index.                             *)
Abstract == INSTANCE BlockIndex WITH indexed <- Indexed, start <- StartBlock

ImplementsBlockIndex == Abstract!Spec

-----------------------------------------------------------------------------
(* Liveness.                                                               *)

(* An executor that was told to stop stops, although it looks at its kill  *)
(* switch only after a batch that succeeded.                               *)
KillStops == killSwitch ~> (pc = "stopped" \/ ~killSwitch)

(* Once failures cease, the cursor passes every block the node produces,   *)
(* unless the task has ended; CursorCovered says what that is worth.       *)
Progress ==
    <>[][~Failure]_vars =>
        \A h \in Height :
            h <= tip ~> (h <= nextCursor \/ pc = "stopped")

(* With stop_idle_indexers an executor whose node stops producing blocks   *)
(* stops, although failed batches may fall between the empty pages.        *)
IdleStops == config.stop_idle_indexers => []<>(pc = "stopped")

-----------------------------------------------------------------------------
(* What the documentation promises and the code does not keep.             *)

(* "When a specific event type is found, an indexer executes the           *)
(* corresponding handler": a block that is indexed was handled.            *)
NoLostTransactions ==
    \A h \in Indexed : rows[Entity(h)] > 0

(* "the indexer should synchronise with the latest block if it has fallen  *)
(* out of sync": a resumed executor starts at the last block it has.       *)
ResumesAtLast ==
    [][Restart /\ config.resumable = "true" /\ Indexed # {} =>
            nextCursor' = CursorFor(HighestIndexed)]_vars

=============================================================================

# A verification project for the Fuel indexer

TLA+ models of the Fuel indexer (`src/packages`, `src/plugins`), checked with
TLC on small instances, and proofs about them checked with TLAPS. Source paths
below leave out `src/packages/`.

## The system

The indexer is one process. A *web API* takes calls from `forc index`, a
*service task* starts and stops *executors*, and every executor pages through
the blocks of a Fuel node and runs a user's *module* (WASM or native) on them.
All of them store what they know in one Postgres database.

| part | state | operations | talks to | hard behaviour |
|---|---|---|---|---|
| executor (`fuel-indexer/src/executor.rs`) | `next_cursor`, `retry_count`, `num_empty_block_reqs`, `kill_switch` | fetch a page, `handle_events`, retry, give up, stop | node (GraphQL), its `Database`, the module | retries of half-done work, failures of every call, kill between batches, restarts |
| executor's `Database` (`database.rs`) | `stashed` connection, its own pool, the table names | `start_transaction`, `commit_transaction`, `revert_transaction`, `get_object`, `put_object`, `load_schema` | Postgres | transactions that outlive an early return, statement errors swallowed |
| host functions (`ffi.rs`) | none | `get_object`, `put_object`, `log_data` for WASM modules | `Database` | panics inside `spawn_blocking` |
| macro (`fuel-indexer-macros`) | the decoder of a block | generated `handle_events`: guard, decode, dispatch, save the metadata row | module, host functions | events dispatched again, receipts in an order the decoder does not expect |
| service (`service.rs`) | `killers`, `handles`, `rx` | asset reload, index stop, index revert; start from the registry or from a manifest | channel, registry, executors | reads that are stale when used, any error ends the task |
| web API (`fuel-indexer-api-server/src/uses.rs`) | none of its own | deploy, stop, revert, nonce, signature, query, health | registry, schema manager, channel | concurrent calls, early returns inside a transaction, requests sent after the commit |
| asset registry (`fuel-indexer-database`) | `index_registry`, `index_asset_registry_*`, `nonce` | queries of `postgres/src/lib.rs` | Postgres | unique index, deferred foreign keys, versions by count |
| pool | open connections and their sessions | acquire, reap | | a session returned in mid-transaction |
| schema registry (`fuel-indexer-schema/src/db`) | `graph_registry_*`, a Postgres schema per indexer | `new_schema`, `load_schema` | Postgres | upgrades, type ids that are hashes |
| authentication (`uses.rs`, `middleware/auth.rs`) | the table `nonce`, the tokens clients hold | give out a nonce, take a signature for a token, check a token | registry, the `/index` handlers | two requests with one nonce, expiry between two queries |
| GraphQL builder (`fuel-indexer-graphql/src`) | none between queries | arguments to filters, fragments and selections to objects and joins, pages | the parser, Postgres | nested objects, joins in the order of a `HashMap`, pages while rows are committed |
| GraphQL parser (`fuel-indexer-graphql/parser`) | none | parse, print and minify queries and schemas | schema registry, macro, builder | a grammar with one token of lookahead, a printer written apart from it |
| library, types, metrics, plugins | constants, manifests | parsing, command lines | | I/O |

What makes each of them correct: an executor's cursor never passes a block that
is not in the database, and the index has no holes (readers and `MAX(id)` rely
on it); a batch is all or nothing; a service request is never lost and every
executor can be stopped; the registry never holds half an indexer; a nonce
that bought a token buys none later, and a token is what opens the `/index` routes; a schema that is read back
is the schema that was written, and a compiled entity fits its table; every event is
decoded as the type it was emitted with and reaches the handlers of that type; a query
selects what it says, where it says it, and a document that is printed is read as
itself.

## Modules

| module | models | state ↔ code |
|---|---|---|
| `ExecutorDatabase` | `Database` and the sessions behind its pool | `stashed` is the field; `session`, `pending` are what Postgres keeps for a connection, `rows` what is committed |
| `Executor` | `run_executor`, both `handle_events`, the generated loop, `get_start_block` | `nextCursor`, `retryCount`, `numEmpty`, `killSwitch` are the local variables; `pageEnd`, `lost` the page at hand; `at`, `entitySaved` the position of the generated loop |
| `BlockIndex` | no code: what an executor promises its readers | `indexed` is the set of blocks whose metadata row is committed |
| `AssetRegistry` | the registry's tables and queries on a pooled session | `ids`, `assets` the committed rows, `pending` a session's own |
| `IndexerService` | API handlers, channel, service task, executors as kill switches | `call` the handlers, `channel`, `service`, `killers` as in the code, `executors` the tasks |
| `EventDispatch` | the body of the generated `handle_events`: guard, decoders, dispatch; what the macro rejects | `decoded` the vectors of `Decoders`, `returnTypes` and `callees` the local variables, `handlers` what the macro was given; `frames` are the VM's |
| `SchemaBuilder` | `SchemaBuilder::build`, the column types, the structs of the macro, the foreign keys that are loaded: functions of a parsed schema | no state |
| `SchemaRegistry` | `new_schema`, `commit_metadata`, `load_schema`, `put_object` on tables and registry rows | `catalog` the committed tables and rows, `interrupted` the Postgres schemas where only a part of a schema was committed, `starting` a start from a manifest between two statements, `module` what the running module was compiled with |
| `WebApiAuth` | `get_nonce`, `verify_signature`, the middleware and the check of claims | `nonces` the table, `request` where each handler is, `tokens` what was answered, `authentication` the configuration |
| `GraphqlArguments` | `arguments.rs`: `QueryParams`, filters, their inverse and their SQL as a function from rows to true, false and unknown | no state |
| `GraphqlQuery` | `Selections`, fragments, `Operation::parse` | `fragments` and `pending` the two maps of `process_fragments`, `walk` the local variables of `parse` |
| `GraphqlJoins` | the graph of joins that `Operation::parse` builds, its sort, the clauses of `to_sql` | `joins` the field of `UserQuery`, `startNodes` and `sorted` the local variables of `get_topologically_sorted_joins` |
| `GraphqlPages` | a page with its `page_info`, and a client that reads all of them | `rows` the committed rows and the values they are sorted by, `offset`, `got` the client's |
| `GraphqlTokens` | the tokenizer's errors (brackets, recursion), strings, quoting, the gaps of `minify_query` | no state |
| `GraphqlSyntax` | the rules of both languages' common part and of queries, an interpreter for rules, the query printer | no state |
| `GraphqlSchemaSyntax` | the rules and the printer of schemas | no state |
| `GraphqlDocuments` | a text that is parsed, printed, or minified | `tree`, `printed`, `spaces` the results |
| `MCExecutor`, `MCIndexerService`, `MCEventDispatch`, `MCGraphql`, `MCDocuments`, `MCComponents` | values for the constants; the last puts the components side by side | |
| `Executor_proofs`, `ExecutorBatch_proofs`, `IndexerService_proofs`, `IndexerServiceNews_proofs`, `WebApiAuth_proofs`, `EventDispatch_proofs`, `SchemaRegistry_proofs`, `Graphql_proofs` | the theorems about `Executor`, `IndexerService`, `WebApiAuth`, `EventDispatch`, `SchemaRegistry`, `GraphqlPages` and `GraphqlJoins` | |

`Executor` extends `ExecutorDatabase` and implements `BlockIndex` (with
`indexed <- Indexed, start <- StartBlock`). `IndexerService` extends
`AssetRegistry`; in it an executor is only a module, a number and a kill switch,
and `Kill` and `Restart` of `Executor` are the other side of that interface.
`SchemaRegistry` extends `SchemaBuilder`; `GraphqlQuery` extends `GraphqlArguments` and
`GraphqlJoins`, whose specification, `JoinsSpec`, it implements: its steps add a foreign
key to the graph, start and take the steps of the sort, or leave the joins alone;
`GraphqlDocuments` extends `GraphqlSchemaSyntax`, `GraphqlSyntax` and `GraphqlTokens`.

### What an action stands for

*Executor.* One action per await point: a page fetched (with any subset of its
transactions missing), BEGIN, every load-change-save of an entity, the metadata
row, COMMIT, and the end of an iteration. Each `Err` and each `?` has an action
of its own: a failed fetch becomes an empty page, a failed BEGIN, COMMIT, trap or
host panic the error branch. A host panic under WASM leaves `handle_events`
before ROLLBACK, so its transaction stays open on the stashed connection, which
the next BEGIN drops into the pool; a later BEGIN may continue it. This is why
sessions are modelled at all.

*Service.* BEGIN, each asset of a deploy (with the lookup and the insert of a
new indexer apart, so that two deploys can race), COMMIT and the send are
actions; a stop's transaction is one step, since other sessions see only its
commit. The service task takes a request, looks up, loads and starts in steps of
their own. A connection stays with a handler until it returns, and keeps its
session when it goes back.

*Event dispatch.* The VM decides what the next receipt is (a call, a return, a log,
a transfer, a message, a panic) and the module's code for that receipt is the same
action, since the receipts of a transaction are fixed before the module runs and are
read in order. A contract has the ABI of the module or another one (`AbiContracts`); what
the others log, return and send carries a type of its own (`ForeignTypes`), since log
ids, selectors and message ids are looked up whatever contract they come from. A Create
or Mint transaction is one without receipts. `BeginTransaction`, `Dispatch` and `SaveMetadata` are the statements
between two receipts. A decode that fails panics the module, which stops for good.

*Schemas.* `DeploySchema` is a deploy's `new_schema`, in one transaction. A start from
a manifest has none, so each of its statements is a step (`RunStatement`) and the
process may end between two (`InterruptRegistration`). A deploy that panics or is dropped
with its client gives its session back in mid-transaction, and whoever commits it next
publishes the statements it had run: `DeployCutShort` has them published at once, since
nobody sees or passes them before. Names are without quotes, so Postgres folds them
(`Fold`, `PgSchema`), while a type id hashes them as they are written. `SaveEntityOf` is a module that
saves any of its entities: the row the macro's struct makes, against the columns that
`put_object` finds; some values of a row that fits may still be refused
(`MayBeRefused`: a key other than the id, a text with a quote). `Refused` says which
statement of a schema Postgres would not accept.

*Authentication.* Every query of a handler is a step: `ReadNonce`, then `ReturnToken`,
`RejectSignature` or `DeleteNonceFails`, with other requests in between. `Tick` is the
clock, in seconds.

*Pages.* A commit is an upsert by id: `SaveRow` adds a row anywhere in the order or moves
one, `LoseRow` changes one that the filter no longer keeps. Nothing deletes rows.

*GraphQL.* A query's way is a sequence of steps, because the code iterates over
`HashMap`s in no order: reading fragments, passes over those with unresolved spreads,
one step per element of the walk, one step per join that is placed. Arguments are
functions. The parser is a function too: rules are data (`Tok`, `Opt`, `Many`,
`Choice` ...), the grammar is a set of rules, one for each parser of the code, and
`Parse` runs them as `combine` does: a choice that has consumed a token is not left for
another.

### Abstractions

Blocks are heights with one transaction, and a handler is a load, a change and a
save of one entity per block: enough to tell lost, repeated and partial work
apart. Modules and manifests are model values; a manifest names its indexer, as
`forc index` sends it. Digests are the bytes they are taken of. Statements
that no other session can see are merged. `usize::MAX` (no idle stop) is the
absence of the limit. Which idle connection the pool hands out is left open.
Calls without a valid token, and forms without assets, are refused before they
change anything and are left out.

In `EventDispatch` a value is the type it was emitted as and where it came from; bytes of
another type fail to decode or give a value of that other type. In `SchemaBuilder` a
schema is what the parser makes of it, with `Lower` for lower-case names and `Holds` for
what Postgres accepts of a literal; a version, which is a hash, is the schema. In
`WebApiAuth` a signature is good or not; uids are random, hence new. A value of a
GraphQL filter is a number; SQL is three-valued, and only what a clause keeps matters.
Texts are sequences of words: names and punctuators are themselves, numbers are in
classes that the parser and the printer tell apart (negative, beyond 64 bits, a float
that is printed as it was or not), strings are sequences of characters and escapes.
White space, commas, comments and indentation outside block strings are left out;
`minify_query` is about the spaces only, so it is modelled by where it leaves one.

## Runs

| run | question | states |
|---|---|---|
| `executor_safety` | does the cursor, the index and the abstract specification survive every failure, host panics included? | 260 thousand |
| `executor_atomic` | without host panics, is a page all or nothing? (dropped transactions included) | 560 thousand |
| `executor_live` | kill, catch up, idle stop | 55 thousand |
| `executor_lost` | is an indexed block handled? no, see below | |
| `executor_resume` | does a resumable indexer resume? no, see below | |
| `service_safety` | can every executor be stopped, does a removed one stop, is the latest module the one that runs? | 620 thousand |
| `service_live` | does every call and request come to an end? | 130 thousand |
| `service_deploy` | does a deployed indexer run? no, see below | |
| `service_revert` | does a revert restore the previous version? no, see below | |
| `components` | the components that share no state, each alone: is every event decoded and dispatched as it was emitted, do tables, registry and compiled modules agree, is a nonce spent by its token, does a query select, join, filter and page as written, is a printed document the one that was parsed? | 800 thousand |
| `dispatch_every` | does a handler see every event of its type? no, see below | |
| `graphql_filters` | do `and`, `or` and `not` combine and invert what they are given? no, see below | |

Bounds. Three blocks and pages of two give a full page, a partial page and an
empty one, and a page that straddles the start block. Two failed calls and two
empty pages reach both limits and the step before them. Two connections are the
stashed one and one that was left behind. Failures that could repeat a write for
ever (panic, lost commit, crash) are bounded by `MaxFaults`, the others are not.
Two clients, two connections and the service task compete for connections; two
modules tell the latest from an older one (three in `service_revert`, because the
fault needs a third row). Three calls (four in the live and revert runs) are a
deploy, a second version and a stop that overlap. `service_safety` has one
failure per behaviour. Symmetry is used for connections, clients and modules, in
runs without liveness.

`components` starts in any one of five components and leaves the others at rest
(`focus`), so that its states are the sum of theirs. *Dispatch*: calls that nest three
deep and return in every way, two transactions in a block, every kind of receipt, and
two or three blocks around the start block, with six receipts at most, from contracts
with the ABI and without, under every kind of filter in the manifest; a module with
handlers of one and two parameters, and five that do not compile. *Registry*: every
kind of id, value and reference in two types, in both orders, in one deploy; three
schemas of one indexer, and three indexers of which two have the same schema name, in
any order of deploys, starts and interruptions; deploys that are cut short after each of
their statements; and indexers whose names differ in case. *Authentication*: three requests (one
may create, two may race), two nonces, seven seconds, lifetimes of one and two, every
configuration. *GraphQL*: joins of three tables, objects in the first, a middle and the
last place, fragments forwards, backwards, in a circle and missing; all pairs of
comparisons under `and`, `or` and `not`; three rows (enough for a full page, a last one and a row that moves between the two)
with four values of the field sorted by (one before and behind the rows already got), in
either order, read in pages of none to three, with ties, while rows are added, moved and
lost. *Documents*: every value in every place a value can be,
every kind of operation and definition with and without each optional part, one query
with every kind of selection, and that query with each word missing and cut after each
word; a recursion limit of four, which some values and types exceed.

Every cfg switches deadlock checking off: executors end, and calls are bounded.
That nothing gets stuck is what `KillStops`, `Progress`, `IdleStops` and
`Settles` say.

Fairness. In `Executor`, weak fairness of the task's own steps (the runtime polls
it, and node, Postgres and module answer or fail; a trap or a failed commit is an
answer as well and needs no fairness) and of the pool's reaper (sqlx closes idle
connections by default). In `IndexerService`, the same for handlers, service task
and reaper, and for sqlx's acquire timeout. Nobody is assumed to call, kill or
produce blocks. `Settles` needs the timeout: with a full channel, handlers can hold
all connections while the service waits for one to take the next request on. The
timeout then ends the service task.

### What the runs found

* `executor_lost`: `client.transaction` failing drops the transaction from its
  block (`executor.rs:203`), and the block is recorded as indexed.
* `executor_resume`: `MAX(id)` of a `numeric(20, 0)` column is read as `i64`
  (`postgres/src/lib.rs:677`); the error counts as block 1, so a resumable indexer
  starts again from 1. (It also does so for `resumable: false`, and ignores
  `start_block` then.)
* `service_deploy`: two overlapping first deploys of an indexer; the loser returns
  an aborted session to the shared pool, the service looks the indexer up on it and
  takes the error for an unknown indexer.
* `service_revert`: `latest_assets_for_index` is given the id of a module row
  (`service.rs:298`), which is an indexer's id only by accident.
* `dispatch_every`: a handler gets the first element of its type's vector
  (`indexer.rs:350`), at every dispatch of the block, and never the second.
* `graphql_filters`: a range is inverted to `field < min AND field > max`
  (`arguments.rs:309`), which no row is; `and` and `or` keep their operator when
  both of their sides are inverted (`:356`); and of an object's sorted keys only the first
  is parsed, so that an operator behind a key that sorts before it is dropped (`:470`).

Weaker properties than one might want, because the code does not keep the stronger
ones: `LatestRuns` and `RemovedStops` speak of a living service task, leave out
indexers in `missed` (a client that went away in mid-call, a lookup on an aborted
session), and `LatestRuns` allows that no executor runs, since a stop's request can
arrive after the reload of a later deploy and kill the newer executor.
`Controllable` and `RemovedStops` speak of reverts where there is one indexer only
(`RevertsAlone`): a revert that starts another one's manifest replaces its killer and
leaves its old executor beyond control, also of a later stop.

In the other components:

* `StackIsCalls` and `MistypedOnlyAfterReturn` stop at a call that ends with a plain
  `Return`, which leaves its return type on the stack, so that later data is read as
  another type. `MistypedOnlyAfterReturn` exempts what contracts without the ABI log and
  return where the manifest lets the module hear one (without `contract_id`, all), and
  their messages everywhere: `indexer.rs:514` has no filter, and the first eight bytes of a
  message are looked up whoever sent it.
* `RegistryMatchesTables`, `WebApiServesTables`, `DroppedOnlyOnMismatch` and
  `CompiledEntitiesStored` leave out a Postgres schema in which a start was interrupted or
  a deploy's session leaked, since nothing repairs it. All of these but
  `DroppedOnlyOnMismatch` leave out types that differ in case only, which share a table,
  and indexers whose names do (`Fuel.index1`, `fuel.index1`), which share a Postgres schema
  under different type ids; so does `TablesHaveOneOwner`.
  `CompiledEntitiesStored` also names the types whose values may not fit their column or
  hold a quote, which the code does not escape (`fuel-indexer-schema/src/lib.rs:236`), and
  keys other than the id: the upsert has `ON CONFLICT(id)` only.
* `ObjectsNest` and `JoinsInOrder` name the shapes of a query that the walk gets wrong: two
  objects that end at once, a table within itself, two keys to one table. A page's columns
  are named without quotes, so a field such as `toBlock` comes out of a page as `toblock`:
  `ObjectsNest` asks for the keys of a page only where none has a capital. `JoinsInOrder`
  leaves out foreign keys with a capital: they are stored as written and looked up in
  lower case (`graphql.rs:333`), so the query selects from a table it never joins, although
  `docs/src/reference-guide/components/graphql/queries/index.md:68` promises foreign
  keys in nested queries.
* `SpreadsExpanded` leaves out documents with two fragments of one name, of which the code
  keeps the last. A root field of type `Tx!` gives its selections the condition `Tx!`,
  which no fragment has.
* `NotInverts` is about filters other than ranges, combinations and several columns, and
  `OperatorsCombine` about an operator that comes before the key beside it; what becomes of
  the others is the run `graphql_filters`.
* `PagesCoverRows` speaks of a client none of whose rows is saved again, behind which all
  rows saved come, and that meets no ties. Any other commit shifts the offsets, and the
  client misses rows or gets them twice.
* `RoundTrips` leaves out floats that are printed with other digits, control characters
  (escaped in decimal, read in hexadecimal), strings of several lines that a block does not
  keep (a carriage return before a newline among them: `str::lines` drops it), the
  variables of a subscription without a name, and a directive without locations, whose
  `on` is not printed.

 `SchemaIsForever` is what the code does rather than what one would
want: a second version of a schema cannot be registered, because the metadata entity
that every version has keeps its type id.

## Proofs

`Executor_proofs` proves, for every page size, retry limit, number of connections
and faults, and every chain (`ExecutorAssumption`, `ConnAssumption`):

* `TypeCorrect`: `Spec => []TypeOK`, with every failure;
* `Invariance`, `CursorIsCovered`, `IndexIsContiguous`, `Refinement`:
  `Spec => []IInv`, `[]CursorCovered`, `[]Contiguous` and `ImplementsBlockIndex`, for
  `"skip" \notin Faults`, that is for modules that can deserialize their blocks. A
  module that cannot logs this and returns, the empty batch commits and the cursor
  passes blocks that were never indexed.

`CursorCovered` is not inductive: COMMIT makes visible whatever its session holds,
which may include writes of an earlier batch that panicked. `IInv` says what every
session sees (its own writes over the committed rows): no session, the abandoned
ones included, sees a block without all earlier ones (`SeesNoHoles`), none has
written beyond the page at hand or the node's tip (`WritesInBounds`), and the
session of the running handler sees every block between the cursor and the block it
is in (`HandledBlocksSeen`). Hence a COMMIT at the end of a page closes the page,
and a COMMIT of anything else leaves no hole. The lemmas follow the operations of
`Database`: those that write no row, those that forget a session's writes, COMMIT,
and the two saves. `Refinement` adds that the rows only ever grow, and by at most a
page beyond a block that is covered (`CommitExtends`).

`ExecutorBatch_proofs` is about what one batch commits:

* `PagesAreWhole`: `[]`-action property `WholePages` for `"skip" \notin Faults`, from
  `IInv`: a commit happens with the handler past its page, in a session that is open
  and so sees every block of it;
* `EntitiesHaveMeta`: `EntityWithMeta` for `"panic" \notin Faults`, because then nothing
  is pending outside the running handler (`SessionsQuiet`) and in it only the block that
  is half written has an entity row without metadata (`EntitiesFollowed`);
* `AppliedAtMostOnce`: `AppliedOnce` with every failure. While no failure was spent,
  committed entity rows belong to pages behind the cursor (`CommittedOnce`) and pending
  ones to blocks the handler has been in (`WrittenOnce`), so that a handler never finds
  its own row; after that a row is 2 at most, since `put_object` leaves the `object` that
  `get_object` loads as it was (`AtMostTwice`).

`IndexerService_proofs` proves, for any clients, connections, indexers, scenarios, calls
and failures (`ServiceAssumption`):

* `ServiceTypeCorrect`: `TypeOK`. The types of the service are not inductive, since what
  it starts comes out of the registry: `Inv` adds that a row's id is below its table's
  sequence, that the rows of manifests (pending ones too) and the indexers with an id are
  ones that somebody calls about (`RegistryInv`), and so are the requests in the channel,
  the service's and the executors'. One lemma per part of `Inv`; those about the registry
  go through its statements (BEGIN, INSERT, COMMIT, ROLLBACK) and need that `ORDER BY id
  DESC LIMIT 1` finds a row where there is one, which is that a bounded set of numbers has
  a greatest element;
* `ExecutorsControllable`: `Controllable`, with every failure. A revert starts an executor
  without telling the one before it to stop, so the invariant adds that it was told when
  the request was taken (`RevertKilledFirst`). `RevertsAlone` is needed exactly there.

`IndexerServiceNews_proofs` proves, under the same assumption, that what the registry
commits reaches the executors: `RemovedIndexersStop` (`RemovedStops`) and
`LatestModulesRun` (`LatestRuns`). Both speak of the moment when nothing is under way, so
the invariant says what is under way otherwise: an executor that was not told to stop is of
a registered indexer, or the news of the removal was lost or is in a handler about to send
or in the channel (`Accounted`, `RemovedInv`); it runs the registry's last module, or the
news of the change is under way (`Informed`) or the service is serving a reload of it
(`Reloading`, `LatestInv`). That only the handlers that send news change an indexer is the
hard part, because the pool's sessions outlive their handlers. It rests on two invariants:
a connection is in one hand at a time and a deploy's session stays open (`HandsInv`); and
ids are keys, of committed and pending indexers alike, so that whatever a session holds for
an indexer was written by the deploy in it or by one whose client went away (`Known`,
`KeysInv`). Hence a COMMIT that changes an indexer is followed by its request or the news
counts as lost (`CommitIsKnown`, `ChangesAreNews`), what is committed stays until the
service took the request (`ComingNext`), and what a reload then loads is what the registry
has last (`LoadedIsLast`), for the indexer that was asked for (`ManifestIsKnown`).

`WebApiAuth_proofs` proves `AuthTypeCorrect`, `NoncesAreSpent` and `TokensServe`, that is
`AuthTypeOK`, `NonceIsSpent` and `ServedWithToken`, for any requests, uids, lifetimes and
configurations (`AuthAssumption`). `NonceIsSpent` is not inductive: that no later request
gets a token from a spent nonce needs that a request between its two queries read the
nonce before any token of it was returned (`ReadersAreEarly`), and that a spent uid is
not given out again because the request that spent it is still known by it
(`TokensKnown`, `RequestsBegin`). One lemma per action; the four ways for a request to end
without a token share `DonePreserves`.

`EventDispatch_proofs` proves all invariants of `EventDispatch`, for any ABI, module,
manifest and chain (`AbiAssumption`): `DispatchTypeCorrect` (`TypeOK`), `StackNeverEmpty`
(`NeverEmpty`), `StackFollowsCalls` (`StackIsCalls`), `EventsKeepTypes`
(`MistypedOnlyAfterReturn`), `HandlersRepeat` (`RepeatsFirstEvents`) and
`HandlersComplete` (`HandledWhenSaved`). The invariant, `DispatchInv`, adds to them that
the contracts of open subscribed calls are among `callees` (so their data is popped:
without that a call could close and leave its selector), that a decoded event is never of
a later transaction and only mistyped as the property allows, and that the calls already made are what a dispatch would make again
(`CallsRepeat`). Two facts carry it. `ReturnCloses`: the place on top is the last of the
open calls, so the selector that a subscribed call's data pops is its own, and counting
the others gives the same depths. `GrownVectors`: a receipt at most appends to a vector,
so the first events never change. The script's own return is handled like a call's, and
only `Script \notin Contracts` keeps it from popping (`LastReceipts`).

`SchemaRegistry_proofs` proves all properties of `SchemaRegistry`, for any indexers,
names, schemas and interruptions (`RegistryAssumption`): `RegistryIsTyped`
(`RegistryTypeOK`), `TablesAreOwned` (`TablesHaveOneOwner`), `SchemasAreForever`
(`SchemaIsForever`), `RegistryIsRight` (`RegistryMatchesTables`), `WebApiIsServed`
(`WebApiServesTables`), `DropsAreMismatches` (`DroppedOnlyOnMismatch`) and
`CompiledIsStored` (`CompiledEntitiesStored`). The key is the entity that
`inject_native_entities_into_schema` appends to every schema: its type id depends on the
Postgres schema's name (as it is written) only and `type_ids` is keyed by it, so a second
registration under a name is refused (`SecondRefused`) whoever makes it, and all type ids
there are of one indexer and one version (`OwnedTypes`, `OneSchema`). `SchemaIsForever` says then
that INSERTs of type ids are followed by no others. For a deploy, which runs all its
statements or none unless it is cut short, the invariant says that a Postgres schema in
which nothing was interrupted is untouched or holds exactly one version with all its
columns and, unless names in another case share it, tables and foreign keys (`Settled`); for a start, whose statements are steps, that it has done
exactly its first statements there, or that somebody else's type ids are there and it is
not yet where it will be refused (`UnderWay`). `Has` is the common measure: what is in a
Postgres schema after the first `n` statements of a version, and `HasNext` one statement
more. `StatementsAre` says which statements a version has and in which order, `TableOf`
that the last two of them make the columns, `FitIsStored` that a row of the macro's struct
that fits them is stored. The induction that these need, over the places of a sequence,
is over sets (`CountUp`, from `WFMin`), since the library's induction theorems cannot be
used. `RegistryAssumption` says that schemas are GraphQL schemas and that a query root is
not called `IndexMetadataEntity`: the name is reserved for the injected entity, and a
query root of that name would keep it from getting a table.

`Graphql_proofs` proves `PagesAreComplete`, that is `PagesCoverRows`, for any finite set
of rows, integer keys, page sizes, either order and any commits in between
(`PagesAssumption`); what a commit must not do is in the property (`disturbed`). What the
client has is always a *start* of the rows: in order, and before all others (`IsStart`).
Without ties ORDER BY leaves Postgres one order, so that two starts agree (`StartsAgree`,
from the least place at which they would differ, `LeastNumber`) and a page that begins
where a start ends continues it (`NextStart`). A commit that does not disturb leaves the
start one (`StillStart`). The invariant `ReadInOrder` adds that the offset is a multiple
of the limit and, after the first page, below the number of rows unless some left: without
that the division of `page_info` would not count the requests (`PagesUpTo`).

`Graphql_proofs` also proves `JoinsAreSorted`, that is `JoinsSorted` for `JoinsSpec`: for
any foreign keys, in any number and added in any order, and any order in which the
`HashMap`s are iterated. That the query builder implements `JoinsSpec` is checked by the
run `components` (as a property), since `GraphqlQuery` itself is out of the prover's reach.
The invariant, `JoinsInv`, says that on the walk the two ends of every condition know it
(`IsGraph`), which is all that inserting into two maps of two nodes has to keep
(`JoinIs`, also where a table refers to itself). In the sort a table is *done* when it
has no dependency left and is not among `startNodes`: a step makes exactly the table it
takes done, takes it out of all dependencies (`SortGraph`), and starts the tables that
depended on nothing else, each once (`SortQueue`). What is sorted is the conditions to
tables that are done (`Placed`), each once, those to one table next to each other, and
none that refers to a table behind a condition of that table's own (`SortOrder`,
`AppendedSorted`). `ClausesAre` is the loop of `to_sql`: neighbours with one primary table
share a clause, hence, with the conditions of a table together, no table has two.
`AllDone` is where the graph must be acyclic: tables that are not done when nothing is left
to start from refer to one another. On a cycle the code drops their joins.

Only model-checked: liveness, which is out of the prover's reach (as is ENABLED), that of
the sort included, and what recursive operators over GraphQL's documents compute.
`GraphqlArguments`, `GraphqlQuery`, `GraphqlSyntax`, `GraphqlSchemaSyntax` and
`GraphqlDocuments` are made of them, and what they give for every document is an induction
over data, which the prover cannot do. `ObjectsNest`, `SpreadsExpanded`, `NotInverts`,
`OperatorsCombine`, `RoundTrips`, `MinifiedMeansSame`, `JoinsInOrder` (the one property of the
joins that speaks of a document) and the refinement `JoinsSpec`, which carries the theorem
about the joins over to the query builder, are therefore checked only.

## Not modelled, and why

* Manifests, configuration files, environment variables and command lines (`forc index`,
  `forc postgres`): text in, records out, and processes that are started and stopped.
* Metrics, health checks, logging, the playground and the embedded database: nothing
  reads them back.
* WASM memory and the marshalling of bytes: a host function works or panics.
* Characters of GraphQL texts, positions and error messages: the tokenizer's scan is a
  regular language. Strings are sequences of ASCII characters: of the white space that
  `str::trim` takes off, the blanks beyond ASCII are left out. `consume_definition` and the conversions to static types are unused by
  the indexer.
* The wording of SQL: a statement is the clauses, joins and objects it is made of.
* A native executor's choice of its schema version, and how a module's own handlers change
  what they load.
* The start with a manifest file in `IndexerService`: it happens alone, before the API
  answers (its schema is in `SchemaRegistry`).
* A stop's BEGIN, DELETEs and COMMIT (`uses.rs:132`) are one step of `IndexerService`, and
  so are the three SELECTs that load an indexer's assets: what comes between them is not
  seen, nor is a stop that returns in the middle.
* A configuration without `jwt_secret`, whose tokens are signed with the empty secret
  (`uses.rs:336`, `middleware/auth.rs:74`): a token is one that the secret verifies.
* Two executors on one set of rows, which overlap between a reload and the end of the old
  one's batch.

## Plan

1. *Done*: `ExecutorDatabase`, `Executor`, `BlockIndex`, `AssetRegistry`,
   `IndexerService`; the theorems about `Executor`.
2. *Done*: `EventDispatch`, `SchemaBuilder`, `SchemaRegistry`, `WebApiAuth`,
   `GraphqlArguments`, `GraphqlQuery`, `GraphqlPages`, `GraphqlTokens`, `GraphqlSyntax`,
   `GraphqlSchemaSyntax`, `GraphqlDocuments`; the theorems about `WebApiAuth`,
   `IndexerService`, `EventDispatch`, `SchemaRegistry` and `GraphqlPages`.
3. An abstract specification of the service (which module runs for which
   indexer), implemented by `IndexerService`.
4. Two `Executor`s on one set of rows, and the version numbers of modules.
5. *Done*: the sort of the joins as a module of its own without recursive operators,
   `GraphqlJoins`, and the theorem about it.

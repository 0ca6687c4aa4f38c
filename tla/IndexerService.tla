----------------------------- MODULE IndexerService -----------------------------
(***************************************************************************)
(* The indexer service and the web API that commands it.  Calls of the API *)
(* (deploy, stop and revert, packages/fuel-indexer-api-server/src/uses.rs) *)
(* change the registry in a transaction of their own and then send a       *)
(* request over a bounded channel; the service task (packages/fuel-indexer *)
(* /src/service.rs) takes the requests one by one and starts and stops     *)
(* executors.  An executor is only its kill switch here: module Executor   *)
(* is what happens inside it.                                              *)
(***************************************************************************)
EXTENDS AssetRegistry, Sequences

CONSTANTS
    Client,         \* callers of the API, each with one call at a time
    NoConn,
    ChannelSize,    \* SERVICE_REQUEST_CHANNEL_SIZE
    Scenarios,      \* sets of (operation, indexer) pairs that are called
    MaxCalls,       \* bound on the calls of a behaviour
    Faults,         \* the failures the environment may cause
    MaxFaults       \* bound on them

Fault == {"disconnect", "schema", "timeout", "remove", "create", "end", "crash"}

ASSUME ServiceAssumption ==
    /\ NoConn \notin Conn
    /\ ChannelSize \in Nat \ {0}
    /\ Scenarios \subseteq SUBSET ({"deploy", "stop", "revert"} \X Uid)
    /\ MaxCalls \in Nat /\ MaxFaults \in Nat
    /\ Faults \subseteq Fault

VARIABLES
    call,       \* [Client -> CallState]: the handler that runs for a client
    channel,    \* the requests sent and not yet taken
    service,    \* what create_service_task is doing
    executors,  \* the executor tasks that run
    killers,    \* `killers`: [Uid -> Nat], the number of an executor or 0
    spawned,    \* [Uid -> Nat]: executors started for an indexer
    missed,     \* indexers with a notification lost on the way to the service
    scenario,   \* member of Scenarios
    calls,      \* calls left
    faults      \* failures left

serviceVars == <<channel, service, executors, killers, spawned>>
boundVars   == <<scenario, calls, faults>>
vars == <<registryVars, call, serviceVars, missed, boundVars>>

NoCall  == [pc |-> "idle", conn |-> NoConn]
Polling == [pc |-> "polling", conn |-> NoConn]
Dead    == [pc |-> "dead", conn |-> NoConn]     \* the service task has ended
Down    == [pc |-> "down", conn |-> NoConn]     \* so has the process

Alive == service.pc \notin {"dead", "down"}

Module == [table : {"wasm"}, id : Nat, index : Nat, version : Nat, bytes : Wasm]

Request ==
    [op : {"reload", "stop"}, uid : Uid] \cup
    [op : {"revert"}, uid : Uid, asset : Module]

(* A handler: before it has a connection, in a deploy's transaction, with  *)
(* its request to send.                                                    *)
CallState ==
    {NoCall} \cup
    [pc : {"acquire"}, op : {"deploy", "stop", "revert"}, uid : Uid, wasm : Wasm,
     conn : {NoConn}] \cup
    [pc : {"assets", "insert", "send"}, op : {"deploy"}, uid : Uid, wasm : Wasm,
     conn : Conn, done : 0 .. Len(Tables)] \cup
    [pc : {"send"}, op : {"stop"}, uid : Uid, conn : Conn] \cup
    [pc : {"send"}, op : {"revert"}, uid : Uid, conn : Conn, asset : Module]

(* The service task: idle or ended, with a request to serve, with the id   *)
(* of an indexer to load, with an executor to create.                      *)
ServiceState ==
    {Polling, Dead, Down} \cup
    [pc : {"acquire"}, conn : {NoConn}, request : Request] \cup
    [pc : {"load"}, conn : Conn, id : Nat] \cup
    [pc : {"create"}, conn : Conn, op : {"reload", "revert"}, uid : Uid, wasm : Wasm]

TypeOK ==
    /\ RegistryTypeOK
    /\ call \in [Client -> CallState]
    /\ channel \in Seq(Request) /\ Len(channel) <= ChannelSize
    /\ service \in ServiceState
    /\ executors \subseteq [uid : Uid, n : Nat, wasm : Wasm, kill : BOOLEAN]
    /\ killers \in [Uid -> Nat] /\ spawned \in [Uid -> Nat]
    /\ \A u \in Uid : killers[u] <= spawned[u]
    /\ missed \subseteq Uid
    /\ calls \in 0 .. MaxCalls /\ faults \in 0 .. MaxFaults

-----------------------------------------------------------------------------
(* The pool of connections that the API and the service share.             *)

Held == {call[cl].conn : cl \in Client} \cup {service.conn}

Idle == {c \in Conn \ Held : session[c] # "closed"}

Acquirable(c) ==
    /\ c \in Conn \ Held
    /\ Idle # {} => c \in Idle

(* An acquired connection that is used without a transaction.              *)
OpenOn(c) ==
    /\ session' = [session EXCEPT ![c] = IF @ = "closed" THEN "clean" ELSE @]
    /\ UNCHANGED <<ids, assets, nextId, pending>>

(* The pool's reaper closes a connection that nobody has used for long.    *)
ReapConnection ==
    /\ \E c \in Idle : CloseOn({c})
    /\ UNCHANGED <<call, serviceVars, missed, boundVars>>

SpendFault(f) ==
    /\ f \in Faults
    /\ faults > 0
    /\ faults' = faults - 1

-----------------------------------------------------------------------------
(* Calls of the API.                                                       *)

Call(cl) ==
    /\ call[cl] = NoCall
    /\ service # Down
    /\ calls > 0 /\ calls' = calls - 1
    /\ \E op \in scenario, w \in Wasm :
          call' = [call EXCEPT ![cl] =
                     [pc |-> "acquire", op |-> op[1], uid |-> op[2],
                      wasm |-> w, conn |-> NoConn]]
    /\ UNCHANGED <<registryVars, serviceVars, missed, scenario, faults>>

At(cl, pc, ops) == call[cl].pc = pc /\ call[cl].op \in ops

(* The handler returns, and its connection goes back to the pool as it is. *)
Return(cl) == call' = [call EXCEPT ![cl] = NoCall]

GoTo(cl, pc) == call' = [call EXCEPT ![cl].pc = pc]

(* The handler got a connection whose session is aborted: its first        *)
(* statement fails.                                                        *)
Refused(cl) ==
    /\ call[cl].pc = "acquire"
    /\ \E c \in Conn : Acquirable(c) /\ session[c] = "aborted"
    /\ Return(cl)
    /\ UNCHANGED <<registryVars, serviceVars, missed, boundVars>>

(* register_indexer_assets: a transaction, then the assets in the order of *)
(* the form.                                                               *)
BeginDeploy(cl) ==
    /\ At(cl, "acquire", {"deploy"})
    /\ \E c \in Conn :
          /\ Acquirable(c) /\ session[c] # "aborted"
          /\ session' = [session EXCEPT ![c] = "open"]
          /\ call' = [call EXCEPT ![cl] =
                        [pc |-> "assets", op |-> "deploy", uid |-> @.uid, wasm |-> @.wasm,
                         conn |-> c, done |-> 0]]
    /\ UNCHANGED <<ids, assets, nextId, pending, serviceVars, missed, boundVars>>

NextTable(cl) == Tables[call[cl].done + 1]

Bytes(cl) == IF NextTable(cl) = "wasm" THEN call[cl].wasm ELSE call[cl].uid

RegisterAsset(cl) ==
    /\ call[cl].pc = "assets" /\ call[cl].done < Len(Tables)
    /\ IF IndexId(call[cl].conn, call[cl].uid) # 0
       THEN /\ RegisterIndexAsset(call[cl].conn, call[cl].uid, NextTable(cl), Bytes(cl))
            /\ call' = [call EXCEPT ![cl].done = @ + 1]
       ELSE /\ GoTo(cl, "insert")
            /\ UNCHANGED registryVars
    /\ UNCHANGED <<serviceVars, missed, boundVars>>

(* register_index, after index_is_registered has found nothing: the row is *)
(* inserted, unless another call has meanwhile committed it.               *)
InsertIndexer(cl) ==
    /\ call[cl].pc = "insert"
    /\ ~InsertWaits(call[cl].conn, call[cl].uid)
    /\ IF ids[call[cl].uid] = 0
       THEN InsertIndex(call[cl].conn, call[cl].uid) /\ GoTo(cl, "assets")
       ELSE AbortOn(call[cl].conn) /\ Return(cl)
    /\ UNCHANGED <<serviceVars, missed, boundVars>>

CommitDeploy(cl) ==
    /\ call[cl].pc = "assets" /\ call[cl].done = Len(Tables)
    /\ IF KeysHold(call[cl].conn, 0)
       THEN CommitOn(call[cl].conn, {}, 0) /\ GoTo(cl, "send")
       ELSE RollbackOn(call[cl].conn) /\ Return(cl)
    /\ UNCHANGED <<serviceVars, missed, boundVars>>

(* stop_indexer: BEGIN, the deletions and COMMIT or ROLLBACK, which other  *)
(* sessions cannot tell apart from one step.                               *)
RemoveIndexer(cl) ==
    /\ At(cl, "acquire", {"stop"})
    /\ \E c \in Conn :
          /\ Acquirable(c) /\ session[c] # "aborted"
          /\ LET i == IndexId(c, call[cl].uid)
             IN  IF i # 0 /\ KeysHold(c, i)
                 THEN /\ CommitOn(c, {}, i)
                      /\ call' = [call EXCEPT ![cl] =
                            [pc |-> "send", op |-> "stop", uid |-> @.uid, conn |-> c]]
                 ELSE /\ RollbackOn(c)
                      /\ Return(cl)
    /\ UNCHANGED <<serviceVars, missed, boundVars>>

(* revert_indexer: the penultimate module goes into the request.           *)
FindPenultimate(cl) ==
    /\ At(cl, "acquire", {"revert"})
    /\ \E c \in Conn :
          /\ Acquirable(c) /\ session[c] # "aborted"
          /\ OpenOn(c)
          /\ LET i == IndexId(c, call[cl].uid)
             IN  IF i # 0 /\ HasPenultimate(c, "wasm", i)
                 THEN call' = [call EXCEPT ![cl] =
                         [pc |-> "send", op |-> "revert", uid |-> @.uid, conn |-> c,
                          asset |-> PenultimateAsset(c, "wasm", i)]]
                 ELSE Return(cl)
    /\ UNCHANGED <<serviceVars, missed, boundVars>>

RequestOf(c) ==
    IF c.op = "revert"
    THEN [op |-> "revert", uid |-> c.uid, asset |-> c.asset]
    ELSE [op |-> IF c.op = "deploy" THEN "reload" ELSE "stop", uid |-> c.uid]

(* Mutant: the request is queued whether or not there is room.             *)
SendAtOnce(cl) ==
    /\ call[cl].pc = "send"
    /\ channel' = IF Alive THEN Append(channel, RequestOf(call[cl])) ELSE channel
    /\ Return(cl)
    /\ UNCHANGED <<registryVars, service, executors, killers, spawned, missed, boundVars>>

(* `tx.send(..).await`: waits for room, fails once the receiver is gone.   *)
(* The connection is kept until the handler returns.                       *)
Send(cl) ==
    /\ call[cl].pc = "send"
    /\ IF Alive
       THEN /\ Len(channel) < ChannelSize
            /\ channel' = Append(channel, RequestOf(call[cl]))
       ELSE UNCHANGED channel
    /\ Return(cl)
    /\ UNCHANGED <<registryVars, service, executors, killers, spawned, missed, boundVars>>

-----------------------------------------------------------------------------
(* create_service_task.                                                    *)

(* `?`: the task ends.  The receiver and the kill switches go with it.     *)
ServiceDies ==
    /\ service' = Dead
    /\ channel' = <<>>
    /\ killers' = [u \in Uid |-> 0]
    /\ UNCHANGED <<executors, spawned>>

(* The executors with the one of u that its killer reaches told to stop.   *)
KillExecutor(u) ==
    {IF e.uid = u /\ e.n = killers[u] THEN [e EXCEPT !.kill = TRUE] ELSE e :
        e \in executors}

TakeRequest(request) ==
    /\ service = Polling
    /\ channel # <<>> /\ request = Head(channel)
    /\ channel' = Tail(channel)
    /\ UNCHANGED <<registryVars, call, spawned, missed, boundVars>>

(* Mutant: the executor's killer is dropped, but not used.                 *)
ForgetExecutor ==
    \E request \in {channel[i] : i \in DOMAIN channel} :
        /\ request.op = "stop" /\ TakeRequest(request)
        /\ killers' = [killers EXCEPT ![request.uid] = 0]
        /\ UNCHANGED <<executors, service>>

(* ServiceRequest::IndexStop                                               *)
StopExecutor ==
    \E request \in {channel[i] : i \in DOMAIN channel} :
        /\ request.op = "stop" /\ TakeRequest(request)
        /\ executors' = KillExecutor(request.uid)
        /\ killers' = [killers EXCEPT ![request.uid] = 0]
        /\ UNCHANGED service

(* ServiceRequest::AssetReload                                             *)
TakeReload ==
    \E request \in {channel[i] : i \in DOMAIN channel} :
        /\ request.op = "reload" /\ TakeRequest(request)
        /\ service' = [pc |-> "acquire", conn |-> NoConn, request |-> request]
        /\ UNCHANGED <<executors, killers>>

(* ServiceRequest::IndexRevert, which kills before it does anything else.  *)
TakeRevert ==
    \E request \in {channel[i] : i \in DOMAIN channel} :
        /\ request.op = "revert" /\ TakeRequest(request)
        /\ executors' = KillExecutor(request.uid)
        /\ service' = [pc |-> "acquire", conn |-> NoConn, request |-> request]
        /\ UNCHANGED killers

Serving(op) == service.pc = "acquire" /\ service.request.op = op

(* Mutant: an indexer that is not found is looked for again.               *)
FindIndexerAgain ==
    /\ Serving("reload")
    /\ \E c \in Conn :
          /\ Acquirable(c) /\ OpenOn(c)
          /\ LET i == IndexId(c, service.request.uid)
             IN  service' = IF session[c] # "aborted" /\ i # 0
                            THEN [pc |-> "load", conn |-> c, id |-> i]
                            ELSE service
    /\ UNCHANGED <<call, channel, executors, killers, spawned, missed, boundVars>>

(* index_id_for; an indexer that is not there, or a session that refuses   *)
(* the query, is logged and the request is over.                           *)
FindIndexer ==
    /\ Serving("reload")
    /\ \E c \in Conn :
          /\ Acquirable(c) /\ OpenOn(c)
          /\ LET u == service.request.uid
                 i == IndexId(c, u)
             IN  IF session[c] # "aborted" /\ i # 0
                 THEN /\ service' = [pc |-> "load", conn |-> c, id |-> i]
                      /\ UNCHANGED missed
                 ELSE /\ service' = Polling
                      /\ missed' = IF session[c] = "aborted" THEN missed \cup {u} ELSE missed
    /\ UNCHANGED <<call, channel, executors, killers, spawned, boundVars>>

(* latest_assets_for_index: the manifest names the indexer.                *)
LoadAssets ==
    /\ service.pc = "load"
    /\ IF HasAssets(service.conn, service.id)
       THEN /\ service' = [pc   |-> "create", conn |-> service.conn, op |-> "reload",
                           uid  |-> LatestAsset(service.conn, "manifest", service.id).bytes,
                           wasm |-> LatestAsset(service.conn, "wasm", service.id).bytes]
            /\ UNCHANGED <<channel, executors, killers, spawned>>
       ELSE ServiceDies
    /\ UNCHANGED <<registryVars, call, missed, boundVars>>

(* The wasm rows that remove_asset_by_version deletes: the id it is given  *)
(* as the indexer's is the manifest row's.                                 *)
RemovedByRevert(c, i) ==
    {a \in assets \cup pending[c].assets :
        /\ a.table = "wasm"
        /\ a.index = LatestAsset(c, "manifest", i).id
        /\ a.version = LatestAsset(c, "wasm", i).version}

(* What a revert starts: the module of the request, as the manifest of i.  *)
Reverted(c, i) ==
    [pc |-> "create", conn |-> c, op |-> "revert",
     uid |-> LatestAsset(c, "manifest", i).bytes, wasm |-> service.request.asset.bytes]

(* The revert's transaction.  It looks up the assets of the indexer whose  *)
(* id is the id of the penultimate module's row.                           *)
RevertAssets ==
    /\ Serving("revert")
    /\ \E c \in Conn :
          /\ Acquirable(c)
          /\ LET i == service.request.asset.id
             IN  IF session[c] = "aborted"
                 THEN ServiceDies /\ UNCHANGED registryVars
                 ELSE IF ~HasAssets(c, i)
                 THEN ServiceDies /\ BeginOn(c) /\ UNCHANGED <<ids, assets, nextId, pending>>
                 ELSE IF ~KeysHold(c, 0)
                 THEN ServiceDies /\ RollbackOn(c)
                 ELSE /\ CommitOn(c, RemovedByRevert(c, i), 0)
                      /\ service' = Reverted(c, i)
                      /\ UNCHANGED <<channel, executors, killers, spawned>>
    /\ UNCHANGED <<call, missed, boundVars>>

(* Mutant: the executor that is replaced is not told to stop.              *)
CreateBeside ==
    /\ service.pc = "create"
    /\ LET u == service.uid
           n == spawned[u] + 1
       IN  /\ executors' = executors \cup
                  {[uid |-> u, n |-> n, wasm |-> service.wasm, kill |-> FALSE]}
           /\ killers' = [killers EXCEPT ![u] = n]
           /\ spawned' = [spawned EXCEPT ![u] = n]
    /\ service' = Polling
    /\ UNCHANGED <<registryVars, call, channel, missed, boundVars>>

(* The deletion fails: ROLLBACK, and the revert goes on all the same.      *)
RemoveFails ==
    /\ Serving("revert")
    /\ SpendFault("remove")
    /\ \E c \in Conn :
          /\ Acquirable(c) /\ session[c] # "aborted"
          /\ HasAssets(c, service.request.asset.id)
          /\ RollbackOn(c)
          /\ service' = Reverted(c, service.request.asset.id)
    /\ UNCHANGED <<call, channel, executors, killers, spawned, missed, scenario, calls>>

(* WasmIndexExecutor::create, and the new killer takes the place of the    *)
(* old one, which only a reload uses before it is gone.                    *)
CreateExecutor ==
    /\ service.pc = "create"
    /\ LET u == service.uid
           n == spawned[u] + 1
           old == IF service.op = "reload" THEN KillExecutor(u) ELSE executors
       IN  /\ executors' = old \cup {[uid |-> u, n |-> n, wasm |-> service.wasm, kill |-> FALSE]}
           /\ killers' = [killers EXCEPT ![u] = n]
           /\ spawned' = [spawned EXCEPT ![u] = n]
    /\ service' = Polling
    /\ UNCHANGED <<registryVars, call, channel, missed, boundVars>>

-----------------------------------------------------------------------------
(* Executors, failures and restarts.                                       *)

ExecutorStops ==
    /\ \E e \in executors : e.kill /\ executors' = executors \ {e}
    /\ UNCHANGED <<registryVars, call, channel, service, killers, spawned, missed, boundVars>>

(* An executor gives up, or its task panics.  Nobody is told.              *)
ExecutorEnds ==
    /\ SpendFault("end")
    /\ \E e \in executors : executors' = executors \ {e}
    /\ UNCHANGED <<registryVars, call, channel, service, killers, spawned, missed, scenario, calls>>

(* The client goes away, and its handler with it, or the handler panics on *)
(* the form.  What it was doing is left as it is.                          *)
Disconnect(cl) ==
    /\ call[cl] # NoCall
    /\ SpendFault("disconnect")
    /\ missed' = IF call[cl].conn # NoConn THEN missed \cup {call[cl].uid} ELSE missed
    /\ Return(cl)
    /\ UNCHANGED <<registryVars, serviceVars, scenario, calls>>

(* A statement of new_schema fails after the schema's row was inserted.    *)
SchemaFails(cl) ==
    /\ call[cl].pc = "assets" /\ call[cl].done = 2
    /\ SpendFault("schema")
    /\ AbortOn(call[cl].conn)
    /\ Return(cl)
    /\ UNCHANGED <<serviceVars, missed, scenario, calls>>

(* `pool.acquire()` gives up.                                              *)
Exhausted == "timeout" \in Faults /\ Conn \subseteq Held

AcquireTimesOut(cl) ==
    /\ call[cl].pc = "acquire" /\ Exhausted
    /\ Return(cl)
    /\ UNCHANGED <<registryVars, serviceVars, missed, boundVars>>

ServiceTimesOut ==
    /\ service.pc = "acquire" /\ Exhausted
    /\ ServiceDies
    /\ UNCHANGED <<registryVars, call, missed, boundVars>>

(* The start block cannot be read, the module does not load, or its own    *)
(* connection to the database is refused.                                  *)
CreateFails ==
    /\ service.pc = "create"
    /\ SpendFault("create")
    /\ ServiceDies
    /\ UNCHANGED <<registryVars, call, missed, scenario, calls>>

(* The process dies and starts again: register_indices_from_registry. An   *)
(* indexer without all its assets, or one that cannot be created, ends it. *)
Registered == {u \in Uid : ids[u] # 0}

AssetRows(u, t) == {a \in assets : a.index = ids[u] /\ a.table = t}

Restart ==
    /\ SpendFault("crash")
    /\ CloseOn(Conn)
    /\ call' = [cl \in Client |-> NoCall]
    /\ channel' = <<>>
    /\ missed' = {}
    /\ \E created \in IF "create" \in Faults THEN BOOLEAN ELSE {TRUE} :
       LET starts == created /\ \A u \in Registered, t \in Table : AssetRows(u, t) # {}
           new == IF starts THEN Registered ELSE {}
       IN  /\ service' = IF starts THEN Polling ELSE Down
           /\ executors' = {[uid |-> u, n |-> 1, kill |-> FALSE,
                             wasm |-> Newest(AssetRows(u, "wasm")).bytes] : u \in new}
           /\ killers' = [u \in Uid |-> IF u \in new THEN 1 ELSE 0]
           /\ spawned' = [u \in Uid |-> IF u \in new THEN 1 ELSE 0]
    /\ UNCHANGED <<scenario, calls>>

-----------------------------------------------------------------------------

Init ==
    /\ RegistryInit
    /\ call = [cl \in Client |-> NoCall]
    /\ channel = <<>>
    /\ service = Polling
    /\ executors = {}
    /\ killers = [u \in Uid |-> 0]
    /\ spawned = [u \in Uid |-> 0]
    /\ missed = {}
    /\ scenario \in Scenarios
    /\ calls = MaxCalls /\ faults = MaxFaults

ClientStep(cl) ==
    \/ Refused(cl)
    \/ BeginDeploy(cl) \/ RegisterAsset(cl) \/ InsertIndexer(cl) \/ CommitDeploy(cl)
    \/ RemoveIndexer(cl) \/ FindPenultimate(cl)
    \/ Send(cl)

ServiceStep ==
    \/ StopExecutor \/ TakeReload \/ TakeRevert
    \/ FindIndexer \/ LoadAssets \/ RevertAssets \/ CreateExecutor

Failure ==
    \/ \E cl \in Client : Disconnect(cl) \/ SchemaFails(cl) \/ AcquireTimesOut(cl)
    \/ ServiceTimesOut \/ RemoveFails \/ CreateFails \/ ExecutorEnds \/ Restart

Next ==
    \/ \E cl \in Client : Call(cl) \/ ClientStep(cl)
    \/ ServiceStep
    \/ ExecutorStops \/ ReapConnection
    \/ Failure

Spec == Init /\ [][Next]_vars

(* Handlers and the service task are polled by the runtime and their       *)
(* queries are answered; the pool's reaper runs, and its acquire timeout   *)
(* ends a wait for a connection that nobody gives back.  Nobody has to     *)
(* call.                                                                   *)
FairSpec ==
    /\ Spec
    /\ \A cl \in Client : WF_vars(ClientStep(cl)) /\ WF_vars(AcquireTimesOut(cl))
    /\ WF_vars(ServiceStep) /\ WF_vars(ServiceTimesOut)
    /\ WF_vars(ExecutorStops)
    /\ WF_vars(ReapConnection)

-----------------------------------------------------------------------------
(* Properties.                                                             *)

(* No call and no request is under way.                                    *)
Quiescent ==
    /\ \A cl \in Client : call[cl] = NoCall
    /\ service \in {Polling, Dead, Down}
    /\ channel = <<>>

(* A revert may start the manifest of another indexer than the one it      *)
(* told to stop (see RevertRestoresPrevious), unless there is only one.    *)
RevertsAlone ==
    \A a, b \in scenario : a[1] = "revert" => a[2] = b[2]

(* While the service task lives, an executor that has not been told to     *)
(* stop can still be told: it is the one its indexer's killer reaches,     *)
(* however reloads, stops and reverts of that indexer follow each other.   *)
Controllable ==
    Alive /\ RevertsAlone => \A e \in executors : ~e.kill => killers[e.uid] = e.n

(* When everything has been dealt with, no executor goes on for an indexer *)
(* that was removed, unless the news of it was lost or a revert put its    *)
(* executor beyond control (see Controllable).                             *)
RemovedStops ==
    Quiescent /\ Alive /\ RevertsAlone =>
        \A e \in executors : e.kill \/ ids[e.uid] # 0 \/ e.uid \in missed

(* When everything has been dealt with, no executor runs a module older    *)
(* than the one the registry has last (reverts aside, which race with it). *)
LatestRuns ==
    Quiescent /\ Alive /\ (\A op \in scenario : op[1] # "revert") =>
        \A e \in executors :
            e.kill \/ e.uid \in missed \/ ids[e.uid] = 0
            \/ e.wasm = Newest(AssetRows(e.uid, "wasm")).bytes

(* Every call returns and every request is dealt with: handlers that keep  *)
(* their connections while the channel is full, and a service that needs   *)
(* one to go on, do not wait for each other for ever.                      *)
Settles == []<>Quiescent

(* What the documentation promises and the code does not keep.             *)

(* "With our indexer deployed, we should be able to query for newly        *)
(* indexed data after a few seconds": a deployed indexer has an executor.  *)
DeployedRuns ==
    Quiescent => \A u \in Registered :
        \E e \in executors : e.uid = u /\ ~e.kill

(* "Revert the running indexer to the previous version": the service goes  *)
(* on to start the module that the API found to be the previous one, for   *)
(* the indexer that was named.                                             *)
RevertRestoresPrevious ==
    [][Serving("revert") /\ service'.pc # "acquire" =>
        /\ service'.pc = "create"
        /\ service'.uid = service.request.uid
        /\ service'.wasm = service.request.asset.bytes]_vars

=============================================================================

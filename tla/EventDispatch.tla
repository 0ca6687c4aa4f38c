---------------------------- MODULE EventDispatch ----------------------------
(***************************************************************************)
(* The body of handle_events that the indexer macro generates              *)
(* (fuel-indexer-macros/src/indexer.rs): the loop over blocks, transactions *)
(* and receipts, the decoding of each receipt into typed events, and the    *)
(* dispatch of the decoded events to the handler functions of the module.   *)
(*                                                                          *)
(* A transaction is executed by the Fuel VM (external): it opens and closes *)
(* call frames and emits receipts. The receipts of a transaction are fixed  *)
(* before the module sees them and the module reads them in order, so the   *)
(* emission of a receipt and its handling are one step.                     *)
(***************************************************************************)
EXTENDS Integers, Sequences, FiniteSets

CONSTANTS
    Contracts,      \* contracts on the chain
    AbiContracts,   \* those built from the ABI the module is given
    Script,         \* the id that receipts of the script itself carry
    AbiTypes,       \* types of the contract's JSON ABI
    Kind,           \* AbiTypes -> "struct", "primitive", "generic" or "tuple"
    Functions,      \* selectors of the functions of the ABI
    Output,         \* Functions -> AbiTypes
    OtherSelector,  \* a selector the ABI does not know
    LogIds,         \* log ids of the ABI
    Logged,         \* LogIds -> AbiTypes
    MessageIds,     \* message ids of the ABI
    Message,        \* MessageIds -> AbiTypes
    OtherId,        \* a log or message id the ABI does not know
    Modules,        \* module bodies the macro is given: sequences of items
    StartBlock,     \* manifest.start_block
    Scenarios       \* manifest.contract_id ([kind, ids]; single without an id is no
                    \* filter) and bounds: blocks, and a block's transactions,
                    \* receipts and kinds of receipts

VARIABLES
    scenario,    \* the manifest's contracts and what the chain's blocks hold
    handlers,    \* the handler functions: sequences of parameter types
    height,      \* block.height
    pc,          \* "block", "dispatched", "receipts", "result", "dispatch" or "saved"
    panicked,    \* why the module panicked: "no", "empty", "decode" (data of a
                 \* contract with the ABI) or what it could not decode
    tx,          \* transactions of this block begun
    receipts,    \* receipts of this block (bound)
    frames,      \* the VM's open calls: [to, selector]
    returnTypes, \* return_types: selectors of calls
    callees,     \* callees: contracts called in this transaction
    decoded,     \* the vectors of struct Decoders
    calls,       \* handler calls made for this block
    wordReturned \* history: a subscribed call of this transaction ended with Return

vars == <<scenario, handlers, height, pc, panicked, tx, receipts, frames, returnTypes, callees,
          decoded, calls, wordReturned>>

ReceiptTypes == {"Call", "Log", "MessageOut", "Return", "ScriptResult",
                 "Transfer", "TransferOut", "Panic", "Revert"}
\* LogData is a reserved name too, but its receipts are decoded to logged types.
FUEL_PRIMITIVES == ReceiptTypes \cup {"BlockData", "LogData"}

\* Types of what a contract without the ABI (or the script) emits: log and call
\* data, and messages. No type has a name with a blank.
ForeignTypes == {"foreign data", "foreign message"}

ASSUME AbiAssumption ==
    /\ AbiContracts \subseteq Contracts
    /\ Script \notin Contracts
    /\ AbiTypes \cap (FUEL_PRIMITIVES \cup ForeignTypes \cup {"unknown"}) = {}
    /\ Output \in [Functions -> AbiTypes]
    /\ OtherSelector \notin Functions
    /\ Logged \in [LogIds -> AbiTypes] /\ Message \in [MessageIds -> AbiTypes]
    /\ \A s \in Scenarios : /\ s.blocks \in Nat \ {0}
                            /\ {s.receipts, s.transactions} \subseteq Nat
                            /\ s.contract_id.kind \in {"single", "multiple"}
                            /\ s.contract_id.ids \subseteq Contracts

(***************************************************************************)
(* What the macro makes of the ABI and of the module body.                  *)
(***************************************************************************)
\* Generic types and tuples get neither a decoder nor a field.
IsNonDecodable(t) == Kind[t] \in {"generic", "tuple"}

\* The keys of type_ids, which a handler's parameters must be among.
TypeIds == FUEL_PRIMITIVES \cup {t \in AbiTypes : ~IsNonDecodable(t)}

\* The fields of struct Decoders.
DecodedTypes == TypeIds

\* What makes the macro abort.
Compiles(items) ==
    /\ items # <<>>
    /\ \A i \in DOMAIN items :
        /\ items[i].item = "fn"
        /\ \A j \in DOMAIN items[i].args : /\ items[i].args[j].arg = "path"
                                           /\ items[i].args[j].type \in TypeIds

HandlerTypes(items) ==
    [i \in DOMAIN items |-> [j \in DOMAIN items[i].args |-> items[i].args[j].type]]

\* The check put in front of the receipts that name a contract.
IsSubscribed(id) ==
    \/ scenario.contract_id = [kind |-> "single", ids |-> {}]
    \/ id \in scenario.contract_id.ids

\* selector_to_type_id: a type, or usize::MAX, which no type has.
SelectorToType(sel) == IF sel \in Functions THEN {Output[sel]} ELSE {}

(***************************************************************************)
(* decode_type. What is decoded is an event: the type it was emitted with   *)
(* and its place in the block. A Rust primitive is skipped, an unknown type *)
(* is warned about. Bytes of one type decoded as another may give a value   *)
(* of that type or panic. The module looks types up by the ids of its ABI,  *)
(* whichever contract uses the id: another contract's data is foreign.      *)
(***************************************************************************)
Event(type) == [type |-> type, tx |-> tx, at |-> receipts]

HasDecoder(t) == t \in DecodedTypes /\ (t \in AbiTypes => Kind[t] = "struct")

Push(t, e) == [decoded EXCEPT ![t] = Append(@, e)]

DataOf(contract, type) == IF contract \in AbiContracts THEN type ELSE "foreign data"

Panicked(e) == IF e.type \in ForeignTypes THEN e.type ELSE "decode"

DecodeType(t, e) ==
    IF HasDecoder(t)
    THEN \/ decoded' = Push(t, e) /\ UNCHANGED panicked
         \/ e.type # t /\ panicked' = Panicked(e) /\ UNCHANGED decoded
    ELSE UNCHANGED <<decoded, panicked>>

DecodeNothing == UNCHANGED <<decoded, panicked>>

\* decode_return_type, decode_logdata and decode_messagedata: the id is looked
\* up first.
DecodeReturn(sel, e) ==
    \/ \E t \in SelectorToType(sel) : DecodeType(t, e)
    \/ SelectorToType(sel) = {} /\ DecodeNothing

(***************************************************************************)
(* The loops.                                                               *)
(***************************************************************************)
Init ==
    /\ scenario \in Scenarios
    /\ handlers \in {HandlerTypes(m) : m \in {b \in Modules : Compiles(b)}}
    /\ height = 1
    /\ pc = "block"
    /\ panicked = "no"
    /\ tx = 0
    /\ receipts = 0
    /\ frames = <<>>
    /\ returnTypes = <<>>
    /\ callees = {}
    /\ decoded = [t \in DecodedTypes |-> <<>>]
    /\ calls = <<>>
    /\ wordReturned = FALSE

\* `continue` for a block below the manifest's start block: no metadata row.
SkipBlock ==
    /\ pc = "block"
    /\ height < StartBlock
    /\ height < scenario.blocks
    /\ height' = height + 1
    /\ UNCHANGED <<scenario, handlers, pc, panicked, tx, receipts, frames, returnTypes,
                   callees, decoded, calls, wordReturned>>

\* A fresh struct Decoders per block, which all its transactions share; the
\* block itself is the first event.
BeginBlock ==
    /\ pc = "block"
    /\ height >= StartBlock
    /\ decoded' = [t \in DecodedTypes |->
                     IF t = "BlockData"
                     THEN <<[type |-> t, tx |-> 0, at |-> 0]>> ELSE <<>>]
    /\ tx' = 0
    /\ receipts' = 0
    /\ calls' = <<>>
    /\ pc' = "dispatched"
    /\ UNCHANGED <<scenario, handlers, height, panicked, frames, returnTypes, callees, wordReturned>>

\* Mutant: the events of a transaction are forgotten before the next.
BeginTransactionAfresh ==
    /\ pc = "dispatched"
    /\ tx < scenario.transactions
    /\ tx' = tx + 1
    /\ decoded' = [t \in DecodedTypes |-> <<>>]
    /\ returnTypes' = <<>>
    /\ callees' = {}
    /\ frames' = <<>>
    /\ wordReturned' = FALSE
    /\ pc' = "receipts"
    /\ UNCHANGED <<scenario, handlers, height, panicked, receipts, calls>>

\* A Create or a Mint has no receipts: what is decoded is dispatched again.
BeginTransaction ==
    /\ pc = "dispatched"
    /\ tx < scenario.transactions
    /\ tx' = tx + 1
    /\ returnTypes' = <<>>
    /\ callees' = {}
    /\ frames' = <<>>
    /\ wordReturned' = FALSE
    /\ pc' \in {"receipts", "dispatch"}
    /\ UNCHANGED <<scenario, handlers, height, panicked, receipts, decoded, calls>>

(***************************************************************************)
(* Receipts. The VM emits them from the context that runs: the innermost    *)
(* open call, or the script.                                                *)
(***************************************************************************)
Running == IF frames = <<>> THEN Script ELSE frames[Len(frames)].to

\* A call's way of returning: a word is a Return, anything else a ReturnData.
\* What a function of another contract returns is not known.
OfAbi(call) == call.to \in AbiContracts /\ call.selector \in Functions
ReturnsWord(call) == OfAbi(call) => Kind[Output[call.selector]] \in {"primitive", "tuple"}
ReturnsData(call) == OfAbi(call) => Kind[Output[call.selector]] \in {"struct", "generic"}

Receive(kind) ==
    /\ pc = "receipts"
    /\ panicked = "no"
    /\ kind \in scenario.kinds
    /\ receipts < scenario.receipts
    /\ receipts' = receipts + 1
    /\ UNCHANGED <<scenario, handlers, height, tx, calls>>

\* A receipt that names contract id and is decoded to the type of the receipt:
\* skipped by `continue` unless the module subscribed to the contract.
DecodeReceipt(id, type) ==
    IF IsSubscribed(id) THEN DecodeType(type, Event(type)) ELSE DecodeNothing

\* Mutant: the caller is taken for the callee.
CallReceiptOfCaller(to, sel) ==
    /\ Receive("Call")
    /\ frames' = Append(frames, [to |-> to, selector |-> sel])
    /\ DecodeReceipt(Running, "Call")
    /\ IF IsSubscribed(Running)
       THEN /\ returnTypes' = Append(returnTypes, sel)
            /\ callees' = callees \cup {Running}
       ELSE UNCHANGED <<returnTypes, callees>>
    /\ UNCHANGED <<pc, wordReturned>>

\* Mutant: the selector is pushed before the filter.
CallReceiptPushedFirst(to, sel) ==
    /\ Receive("Call")
    /\ frames' = Append(frames, [to |-> to, selector |-> sel])
    /\ DecodeReceipt(to, "Call")
    /\ returnTypes' = Append(returnTypes, sel)
    /\ callees' = IF IsSubscribed(to) THEN callees \cup {to} ELSE callees
    /\ UNCHANGED <<pc, wordReturned>>

\* The filter looks at the callee, which Call names `to`.
CallReceipt(to, sel) ==
    /\ Receive("Call")
    /\ frames' = Append(frames, [to |-> to, selector |-> sel])
    /\ DecodeReceipt(to, "Call")
    /\ IF IsSubscribed(to)
       THEN /\ returnTypes' = Append(returnTypes, sel)
            /\ callees' = callees \cup {to}
       ELSE UNCHANGED <<returnTypes, callees>>
    /\ UNCHANGED <<pc, wordReturned>>

LogReceipt ==
    /\ Receive("Log")
    /\ DecodeReceipt(Running, "Log")
    /\ UNCHANGED <<pc, frames, returnTypes, callees, wordReturned>>

LogDataReceipt(rb) ==
    /\ Receive("LogData")
    /\ IF IsSubscribed(Running) /\ rb \in LogIds
       THEN DecodeType(Logged[rb], Event(DataOf(Running, Logged[rb])))
       ELSE DecodeNothing
    /\ UNCHANGED <<pc, frames, returnTypes, callees, wordReturned>>

TransferReceipt ==
    /\ Receive("Transfer")
    /\ DecodeReceipt(Running, "Transfer")
    /\ UNCHANGED <<pc, frames, returnTypes, callees, wordReturned>>

TransferOutReceipt ==
    /\ Receive("TransferOut")
    /\ DecodeReceipt(Running, "TransferOut")
    /\ UNCHANGED <<pc, frames, returnTypes, callees, wordReturned>>

\* The id of a message's type is its first eight bytes; a shorter message has
\* none and decodes to nothing. No filter: the sender may be any contract, or the
\* script; only one with the ABI sends data of the type its id names. The data is
\* decoded before the receipt itself.
MessageOutReceipt(id) ==
    /\ Receive("MessageOut")
    /\ LET sent == Push("MessageOut", Event("MessageOut"))
           type == Message[id]
           e == Event(IF Running \in AbiContracts THEN type ELSE "foreign message")
       IN  IF id \in MessageIds /\ HasDecoder(type)
           THEN \/ decoded' = [sent EXCEPT ![type] = Append(@, e)] /\ UNCHANGED panicked
                \/ e.type # type /\ panicked' = Panicked(e) /\ UNCHANGED decoded
           ELSE decoded' = sent /\ UNCHANGED panicked
    /\ UNCHANGED <<pc, frames, returnTypes, callees, wordReturned>>

\* Return leaves return_types alone.
ReturnReceipt ==
    /\ Receive("Return")
    /\ frames # <<>>
    /\ ReturnsWord(frames[Len(frames)])
    /\ IF Running \in callees THEN DecodeReceipt(Running, "Return") ELSE DecodeNothing
    /\ wordReturned' = (wordReturned \/ IsSubscribed(Running))
    /\ frames' = SubSeq(frames, 1, Len(frames) - 1)
    /\ UNCHANGED <<pc, returnTypes, callees>>

\* Mutant: the last selector is read and left on the stack.
ReturnDataPeeks(id, type) ==
    IF IsSubscribed(id) /\ id \in callees
    THEN IF returnTypes = <<>>
         THEN panicked' = "empty" /\ UNCHANGED <<decoded, returnTypes>>
         ELSE /\ DecodeReturn(returnTypes[Len(returnTypes)], Event(type))
              /\ UNCHANGED returnTypes
    ELSE DecodeNothing /\ UNCHANGED returnTypes

\* `return_types.pop().expect(..)`: with nothing to pop the module panics.
ReturnDataReceipt(id, type) ==
    IF IsSubscribed(id) /\ id \in callees
    THEN IF returnTypes = <<>>
         THEN panicked' = "empty" /\ UNCHANGED <<decoded, returnTypes>>
         ELSE /\ DecodeReturn(returnTypes[Len(returnTypes)], Event(type))
              /\ returnTypes' = SubSeq(returnTypes, 1, Len(returnTypes) - 1)
    ELSE DecodeNothing /\ UNCHANGED returnTypes

\* The type an unknown function returns is not known either.
ReturnedType(call) ==
    DataOf(call.to, IF call.selector \in Functions THEN Output[call.selector] ELSE "unknown")

CallReturnsData ==
    /\ Receive("ReturnData")
    /\ frames # <<>>
    /\ ReturnsData(frames[Len(frames)])
    /\ ReturnDataReceipt(Running, ReturnedType(frames[Len(frames)]))
    /\ frames' = SubSeq(frames, 1, Len(frames) - 1)
    /\ UNCHANGED <<pc, callees, wordReturned>>

\* The script itself returns a word or data, which ends the transaction. Its
\* receipt is handled like a call's; that its id is among the callees of no
\* transaction is all that keeps it from popping a selector.
ScriptReturns ==
    /\ Receive("Return")
    /\ frames = <<>>
    /\ pc' = "result"
    /\ \/ /\ IF Script \in callees THEN DecodeReceipt(Script, "Return") ELSE DecodeNothing
          /\ UNCHANGED returnTypes
       \/ ReturnDataReceipt(Script, DataOf(Script, "unknown"))
    /\ UNCHANGED <<frames, callees, wordReturned>>

\* A panic or a revert in any context ends the transaction.
Aborted(type) ==
    /\ Receive(type)
    /\ pc' = "result"
    /\ decoded' = IF IsSubscribed(Running) THEN Push(type, Event(type)) ELSE decoded
    /\ UNCHANGED <<panicked, frames, returnTypes, callees, wordReturned>>

PanicReceipt == Aborted("Panic")
RevertReceipt == Aborted("Revert")

\* The last receipt of every transaction, after which the loop over receipts ends.
ScriptResultReceipt ==
    /\ pc = "result"
    /\ panicked = "no"
    /\ decoded' = Push("ScriptResult", Event("ScriptResult"))
    /\ pc' = "dispatch"
    /\ UNCHANGED <<scenario, handlers, height, panicked, tx, receipts, frames, returnTypes,
                   callees, calls, wordReturned>>

(***************************************************************************)
(* dispatch: each handler, in the order of the module, is called with the   *)
(* first element of the vectors of its parameter types if none is empty.    *)
(***************************************************************************)
HasArguments(h) == \A j \in DOMAIN h : decoded[h[j]] # <<>>

Arguments(h) == [j \in DOMAIN h |-> decoded[h[j]][1]]

\* Mutant: the first handler without its arguments ends the dispatch.
DispatchUntilMissing ==
    /\ pc = "dispatch"
    /\ LET called == {i \in DOMAIN handlers : \A k \in 1 .. i : HasArguments(handlers[k])}
       IN  calls' = Append(calls, [i \in called |-> Arguments(handlers[i])])
    /\ pc' = "dispatched"
    /\ UNCHANGED <<scenario, handlers, height, panicked, tx, receipts, frames, returnTypes,
                   callees, decoded, wordReturned>>

Dispatch ==
    /\ pc = "dispatch"
    /\ LET called == {i \in DOMAIN handlers : HasArguments(handlers[i])}
       IN  calls' = Append(calls, [i \in called |-> Arguments(handlers[i])])
    /\ pc' = "dispatched"
    /\ UNCHANGED <<scenario, handlers, height, panicked, tx, receipts, frames, returnTypes,
                   callees, decoded, wordReturned>>

\* After the last transaction: metadata.save().
SaveMetadata ==
    /\ pc = "dispatched"
    /\ pc' = "saved"
    /\ UNCHANGED <<scenario, handlers, height, panicked, tx, receipts, frames, returnTypes,
                   callees, decoded, calls, wordReturned>>

NextBlock ==
    /\ pc = "saved"
    /\ height < scenario.blocks
    /\ height' = height + 1
    /\ pc' = "block"
    /\ UNCHANGED <<scenario, handlers, panicked, tx, receipts, frames, returnTypes, callees,
                   decoded, calls, wordReturned>>

Next ==
    \/ SkipBlock \/ BeginBlock \/ BeginTransaction
    \/ \E to \in Contracts, sel \in Functions \cup {OtherSelector} : CallReceipt(to, sel)
    \/ LogReceipt
    \/ \E rb \in LogIds \cup {OtherId} : LogDataReceipt(rb)
    \/ TransferReceipt \/ TransferOutReceipt
    \/ \E id \in MessageIds \cup {OtherId} : MessageOutReceipt(id)
    \/ ReturnReceipt \/ CallReturnsData \/ ScriptReturns
    \/ PanicReceipt \/ RevertReceipt \/ ScriptResultReceipt
    \/ Dispatch \/ SaveMetadata \/ NextBlock

Spec == Init /\ [][Next]_vars

(***************************************************************************)
(* Properties.                                                              *)
(***************************************************************************)
\* The open calls to contracts the module subscribed to, by their place on the
\* VM's stack, and how many of them are open up to a place.
OpenCalls == {i \in DOMAIN frames : IsSubscribed(frames[i].to)}

Depth(i) == Cardinality({j \in OpenCalls : j <= i})

\* The state of the generated code and of the VM has its type.
TypeOK ==
    /\ pc \in {"block", "dispatched", "receipts", "result", "dispatch", "saved"}
    /\ panicked \in {"no", "empty", "decode"} \cup ForeignTypes
    /\ height \in 1 .. scenario.blocks
    /\ tx \in 0 .. scenario.transactions
    /\ receipts \in 0 .. scenario.receipts
    /\ frames \in Seq([to : Contracts, selector : Functions \cup {OtherSelector}])
    /\ returnTypes \in Seq(Functions \cup {OtherSelector})
    /\ callees \subseteq Contracts
    /\ DOMAIN decoded = DecodedTypes
    /\ wordReturned \in BOOLEAN

\* `.expect("No return type available")` never fires: each open call to a
\* subscribed contract has pushed a selector of its own that is still there, so
\* the stack of return_types is never shorter than the open calls, whatever the
\* mix of Return, ReturnData and contracts the module did not subscribe to.
NeverEmpty ==
    /\ panicked # "empty"
    /\ pc = "receipts" /\ panicked = "no" => Len(returnTypes) >= Cardinality(OpenCalls)

\* As long as no subscribed call of the transaction ended with Return, which
\* leaves its selector on the stack, return_types is the stack of the open
\* calls and every ReturnData is decoded as the type its own function returns.
StackIsCalls ==
    pc = "receipts" /\ panicked = "no" /\ ~wordReturned =>
        /\ Len(returnTypes) = Cardinality(OpenCalls)
        /\ \A i \in OpenCalls : returnTypes[Depth(i)] = frames[i].selector

\* The contracts without the ABI that the module listens to: none, if the
\* manifest names contracts of the ABI only.
ForeignHeard == {c \in (Contracts \cup {Script}) \ AbiContracts : IsSubscribed(c)}

\* What a contract with the ABI emits keeps its type, and its decoding never
\* panics, until a subscribed call of the transaction ended with such a Return;
\* log, message and function ids are never confused. What other contracts log or
\* return is decoded as a type of the ABI, or panics, only where the manifest lets
\* the module listen to one (no contract_id: to all). Their messages are, whatever
\* the manifest names: no filter guards them.
MistypedOnlyAfterReturn ==
    /\ panicked = "decode" => wordReturned
    /\ panicked = "foreign data" => ForeignHeard # {}
    /\ pc = "receipts" =>
          \A t \in DecodedTypes : \A i \in DOMAIN decoded[t] :
             LET e == decoded[t][i]
             IN  e.tx = tx /\ e.type # t =>
                    \/ e.type = "foreign message"
                    \/ e.type = "foreign data" /\ ForeignHeard # {}
                    \/ e.type \notin ForeignTypes /\ wordReturned

\* Handlers are called again for every later transaction of the block, with the
\* same first events: what they save must be idempotent.
RepeatsFirstEvents ==
    \A i, j \in DOMAIN calls : i < j =>
        \A h \in DOMAIN calls[i] : h \in DOMAIN calls[j] /\ calls[j][h] = calls[i][h]

\* When a block's metadata is saved, no handler whose types the block's receipts
\* all decoded to was left uncalled, and the last dispatch had every type.
HandledWhenSaved ==
    pc = "saved" /\ tx > 0 =>
        \A h \in DOMAIN handlers :
            (\A j \in DOMAIN handlers[h] : decoded[handlers[h][j]] # <<>>)
                <=> h \in DOMAIN calls[Len(calls)]

\* What docs/src/reference-guide/components/assets/module.md says of a handler
\* with one parameter: it handles every receipt with data of that type. The
\* code hands it the first event of a block only.
HandlesEveryEvent ==
    pc = "saved" /\ tx > 0 =>
        \A h \in DOMAIN handlers : Len(handlers[h]) = 1 =>
            \A i \in DOMAIN decoded[handlers[h][1]] :
                \E c \in DOMAIN calls :
                    /\ h \in DOMAIN calls[c]
                    /\ calls[c][h][1] = decoded[handlers[h][1]][i]
=============================================================================

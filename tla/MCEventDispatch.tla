--------------------------- MODULE MCEventDispatch ---------------------------
(* Finite values for the constants of EventDispatch. *)
EXTENDS EventDispatch

(* An ABI with two structs, a word and a type the macro makes no decoder for. *)
MCKind == [Foo |-> "struct", Bar |-> "struct", u64 |-> "primitive", Vec |-> "generic"]
MCOutput == [foo |-> "Foo", bar |-> "Bar", word |-> "u64"]
MCLogged == [l1 |-> "Foo", l2 |-> "Vec"]
MCMessage == [m1 |-> "Bar"]

Arg(t) == [arg |-> "path", type |-> t]
Handler(ts) == [item |-> "fn", args |-> [i \in DOMAIN ts |-> Arg(ts[i])]]

(* A module with a handler per kind of event and one that joins two; and five
   that the macro rejects. *)
MCModules == {
    <<Handler(<<"Foo">>), Handler(<<"Bar", "ScriptResult">>), Handler(<<"u64">>),
      Handler(<<"Return">>)>>,
    <<>>,
    <<[item |-> "struct"]>>,
    <<[item |-> "fn", args |-> <<[arg |-> "self"]>>]>>,
    <<Handler(<<"Baz">>)>>,
    <<Handler(<<"Vec">>)>> }

(* Calls that nest three deep and return in every way; calls, returns and logs *)
(* in two transactions of one block; every kind of receipt; and two blocks.    *)
OneContract == [kind |-> "multiple", ids |-> {"c1"}]
AnyContract == [kind |-> "single", ids |-> {}]
NoContract == [kind |-> "multiple", ids |-> {}]
MCScenarios == {
    [contract_id |-> OneContract, blocks |-> 2, transactions |-> 1, receipts |-> 6,
     kinds |-> {"Call", "Return", "ReturnData", "Revert"}],
    [contract_id |-> OneContract, blocks |-> 2, transactions |-> 2, receipts |-> 4,
     kinds |-> {"Call", "Return", "ReturnData", "LogData", "Log"}],
    [contract_id |-> AnyContract, blocks |-> 2, transactions |-> 2, receipts |-> 3,
     kinds |-> ReceiptTypes \cup {"LogData", "ReturnData"}],
    [contract_id |-> NoContract, blocks |-> 3, transactions |-> 1, receipts |-> 2,
     kinds |-> {"Call", "Return", "MessageOut"}],
    [contract_id |-> OneContract, blocks |-> 3, transactions |-> 1, receipts |-> 2,
     kinds |-> {"Call", "ReturnData", "LogData", "Panic"}]}
=============================================================================

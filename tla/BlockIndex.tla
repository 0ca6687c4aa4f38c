------------------------------ MODULE BlockIndex ------------------------------
(***************************************************************************)
(* What the executor promises to the readers of its database, without      *)
(* cursors, retries or transactions: the index covers an unbroken run of   *)
(* blocks from the start block on, it only ever grows, by at most a page   *)
(* at a time, and it never holds a block that the node does not have.      *)
(***************************************************************************)
EXTENDS Integers

CONSTANTS Genesis, MaxHeight, PageSize

VARIABLES
    start,      \* the start block, which never changes
    tip,        \* the node's latest block
    indexed     \* the blocks a reader of the database finds

vars == <<start, tip, indexed>>

(* The blocks from the start block up to h.                                *)
UpTo(h) == {g \in Genesis .. MaxHeight : start <= g /\ g <= h}

Unbroken(blocks) == \A h \in blocks : UpTo(h) \subseteq blocks

Init ==
    /\ start \in Nat
    /\ tip = Genesis
    /\ indexed = {}

ProduceBlock ==
    /\ tip < MaxHeight
    /\ tip' = tip + 1
    /\ UNCHANGED <<start, indexed>>

(* The new blocks are at most a page ahead of a block that the index       *)
(* already covers.                                                         *)
Extend ==
    /\ \E g \in Genesis - 1 .. tip : \E more \in SUBSET UpTo(tip) :
          /\ UpTo(g) \subseteq indexed
          /\ more \subseteq UpTo(g + PageSize)
          /\ indexed' = indexed \cup more
    /\ Unbroken(indexed')
    /\ UNCHANGED <<start, tip>>

Next == ProduceBlock \/ Extend

Spec == Init /\ [][Next]_vars

=============================================================================

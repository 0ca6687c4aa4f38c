------------------------ MODULE EventDispatch_proofs -------------------------
(* Proofs about EventDispatch: what the generated handle_events pops, decodes *)
(* and hands to the handlers, for every ABI, module, chain and manifest.      *)
EXTENDS EventDispatch, FiniteSetTheorems, SequenceTheorems, TLAPS

-----------------------------------------------------------------------------
(* Events and the vectors they are pushed to.                               *)

EventTypes == DecodedTypes \cup AbiTypes \cup ForeignTypes \cup {"unknown"}

Events == [type : EventTypes, tx : Nat, at : Nat]

Vectors == [DecodedTypes -> Seq(Events)]

(* Which events may be decoded as another type.                             *)
Excused(type, mistyped) ==
    \/ type = "foreign message"
    \/ type = "foreign data" /\ ForeignHeard # {}
    \/ type \notin ForeignTypes /\ mistyped

(* A receipt leaves each vector as it is or pushes an event of the          *)
(* transaction; one of another type than the vector's only if it may.       *)
Grows(after, mistyped) ==
    /\ after \in Vectors
    /\ \A t \in DecodedTypes :
          \/ after[t] = decoded[t]
          \/ \E e \in Events : /\ e.tx = tx /\ (e.type = t \/ Excused(e.type, mistyped))
                               /\ after[t] = Append(decoded[t], e)

(* And over which the module may panic.                                     *)
Panics(mistyped) ==
    /\ panicked' \in {"no", "decode"} \cup ForeignTypes
    /\ panicked' = "decode" => mistyped
    /\ panicked' = "foreign data" => ForeignHeard # {}

Typed ==
    /\ TypeOK
    /\ scenario \in Scenarios
    /\ decoded \in Vectors
    /\ \A h \in DOMAIN handlers : \A j \in DOMAIN handlers[h] : handlers[h][j] \in DecodedTypes
    /\ \E S : calls \in Seq(S)

Selectors == Functions \cup {OtherSelector}

(* The types of receipts and of the ABI have vectors or are of the ABI.     *)
LEMMA FuelTypes ==
    /\ ReceiptTypes \subseteq DecodedTypes
    /\ \A t \in ReceiptTypes : HasDecoder(t)
    /\ "BlockData" \in DecodedTypes
    /\ \A t : HasDecoder(t) => t \in DecodedTypes
  BY AbiAssumption DEF ReceiptTypes, FUEL_PRIMITIVES, DecodedTypes, TypeIds, HasDecoder

(* An event carries the transaction it was emitted in.                       *)
LEMMA EventsAreTyped ==
    ASSUME Typed, NEW t \in EventTypes
    PROVE  Event(t) \in Events /\ Event(t).tx = tx /\ Event(t).type = t
<1>1. tx \in Nat /\ receipts \in Nat
  BY AbiAssumption DEF Typed, TypeOK
<1> QED
  BY <1>1 DEF Event, Events

(* Pushing an event of the transaction is such growth.                       *)
LEMMA PushGrows ==
    ASSUME Typed, NEW t \in DecodedTypes, NEW e \in Events, e.tx = tx, NEW mistyped,
           e.type = t \/ Excused(e.type, mistyped)
    PROVE  Grows(Push(t, e), mistyped)
<1>1. decoded \in [DecodedTypes -> Seq(Events)]
  BY DEF Typed, Vectors
<1>2. decoded[t] \in Seq(Events) /\ Append(decoded[t], e) \in Seq(Events)
  BY <1>1
<1>3. Push(t, e) \in Vectors
  BY <1>1, <1>2 DEF Push, Vectors
<1>4. \A u \in DecodedTypes :
          Push(t, e)[u] = IF u = t THEN Append(decoded[t], e) ELSE decoded[u]
  BY <1>1 DEF Push
<1> QED
  BY <1>3, <1>4 DEF Grows

(* So is leaving the vectors alone.                                          *)
LEMMA NothingGrows ==
    ASSUME Typed, NEW mistyped PROVE Grows(decoded, mistyped)
  BY DEF Typed, Grows

(* What a contract with the ABI emits is of its type; another's is foreign,  *)
(* and listened to.                                                          *)
LEMMA DataIsExcused ==
    ASSUME Typed, NEW c \in Contracts \cup {Script}, IsSubscribed(c), NEW t \in AbiTypes \cup {"unknown"},
           NEW mistyped
    PROVE  /\ DataOf(c, t) \in EventTypes
           /\ DataOf(c, t) = t \/ Excused(DataOf(c, t), mistyped)
  BY DEF DataOf, EventTypes, ForeignTypes, Excused, ForeignHeard

(* The contract that runs is a contract, or the script.                      *)
LEMMA RunningIsContract == Typed => Running \in Contracts \cup {Script}
<1> SUFFICES ASSUME Typed, frames # <<>> PROVE frames[Len(frames)].to \in Contracts
  BY DEF Running
<1>1. frames \in Seq([to : Contracts, selector : Functions \cup {OtherSelector}])
  BY DEF Typed, TypeOK
<1>2. \A S : \A s \in Seq(S) : s # <<>> => s[Len(s)] \in S
  OBVIOUS
<1>3. frames[Len(frames)] \in [to : Contracts, selector : Functions \cup {OtherSelector}]
  BY <1>1, <1>2
<1> QED
  BY <1>3

(* decode_type panics only over bytes of another type.                      *)
LEMMA DecodeTypeGrows ==
    ASSUME Typed, panicked = "no", NEW t, NEW e \in Events, e.tx = tx, DecodeType(t, e),
           NEW mistyped, e.type = t \/ Excused(e.type, mistyped)
    PROVE  /\ Grows(decoded', mistyped)
           /\ e.type = t => panicked' = panicked
           /\ Panics(mistyped)
<1>1. CASE HasDecoder(t) /\ decoded' = Push(t, e) /\ panicked' = panicked
  <2>1. Grows(Push(t, e), mistyped)
    BY <1>1, PushGrows, FuelTypes
  <2> QED
    BY <1>1, <2>1 DEF Panics, ForeignTypes
<1>2. CASE HasDecoder(t) /\ e.type # t /\ decoded' = decoded /\ panicked' = Panicked(e)
  BY <1>2, NothingGrows DEF Panics, Panicked, Excused, ForeignTypes
<1>3. CASE UNCHANGED <<decoded, panicked>>
  BY <1>3, NothingGrows DEF Panics, ForeignTypes
<1> QED
  BY <1>1, <1>2, <1>3 DEF DecodeType

(* A receipt decoded to its own type is never mistyped and never panics.     *)
LEMMA DecodeReceiptGrows ==
    ASSUME Typed, panicked = "no", NEW id, NEW t \in ReceiptTypes, DecodeReceipt(id, t)
    PROVE  Grows(decoded', FALSE) /\ panicked' = panicked
<1>1. Event(t) \in Events /\ Event(t).tx = tx /\ Event(t).type = t
  BY EventsAreTyped, FuelTypes DEF EventTypes
<1>2. CASE IsSubscribed(id)
  <2>1. DecodeType(t, Event(t))
    BY <1>2 DEF DecodeReceipt
  <2> QED
    BY <1>1, <2>1, DecodeTypeGrows
<1>3. CASE ~IsSubscribed(id)
  BY <1>3, NothingGrows DEF DecodeReceipt, DecodeNothing
<1> QED
  BY <1>2, <1>3

-----------------------------------------------------------------------------
(* The stack of the open calls.                                             *)

Frames == [to : Contracts, selector : Selectors]

(* A sequence without its last element.                                     *)
LEMMA Popped ==
    ASSUME NEW S, NEW s \in Seq(S), s # <<>>
    PROVE  /\ Len(s) \in Nat \ {0} /\ Len(s) \in DOMAIN s /\ s[Len(s)] \in S
           /\ SubSeq(s, 1, Len(s) - 1) \in Seq(S)
           /\ Len(SubSeq(s, 1, Len(s) - 1)) = Len(s) - 1
           /\ \A i \in 1 .. Len(s) - 1 : SubSeq(s, 1, Len(s) - 1)[i] = s[i]
<1>1. Len(s) \in Nat \ {0} /\ Len(s) \in DOMAIN s /\ s[Len(s)] \in S
  OBVIOUS
<1> DEFINE n == Len(s) - 1
<1>2. n \in Nat /\ \A i \in 1 .. n : s[i] \in S
  BY <1>1
<1> HIDE DEF n
<1>3. /\ SubSeq(s, 1, n) \in Seq(S)
      /\ Len(SubSeq(s, 1, n)) = IF 1 <= n THEN n - 1 + 1 ELSE 0
      /\ \A i \in 1 .. n - 1 + 1 : SubSeq(s, 1, n)[i] = s[1 + i - 1]
  BY <1>2, SubSeqProperties
<1>4. Len(SubSeq(s, 1, n)) = n /\ \A i \in 1 .. n : SubSeq(s, 1, n)[i] = s[i]
  BY <1>2, <1>3
<1> QED
  BY <1>1, <1>3, <1>4 DEF n

(* Open calls are places of a finite stack, counted from its bottom.         *)
LEMMA OpenAreFinite ==
    ASSUME Typed
    PROVE  /\ frames \in Seq(Frames) /\ returnTypes \in Seq(Selectors)
           /\ OpenCalls \subseteq 1 .. Len(frames)
           /\ IsFiniteSet(OpenCalls) /\ Cardinality(OpenCalls) \in Nat
           /\ \A i \in OpenCalls : Depth(i) \in 1 .. Cardinality(OpenCalls)
<1>1. frames \in Seq(Frames) /\ returnTypes \in Seq(Selectors)
  BY DEF Typed, TypeOK, Frames, Selectors
<1>2. OpenCalls \in SUBSET (1 .. Len(frames)) /\ Len(frames) \in Nat
  BY <1>1 DEF OpenCalls
<1>3. IsFiniteSet(OpenCalls) /\ Cardinality(OpenCalls) \in Nat
  <2>1. IsFiniteSet(1 .. Len(frames))
    BY <1>2, FS_Interval
  <2>2. IsFiniteSet(OpenCalls)
    BY <1>2, <2>1, FS_Subset
  <2> QED
    BY <2>2, FS_CardinalityType
<1>4. ASSUME NEW i \in OpenCalls PROVE Depth(i) \in 1 .. Cardinality(OpenCalls)
  <2> DEFINE S == {j \in OpenCalls : j <= i}
  <2>1. S \in SUBSET OpenCalls /\ i \in S
    BY <1>2, <1>4
  <2>2. IsFiniteSet(S) /\ Cardinality(S) <= Cardinality(OpenCalls) /\ S # {}
    BY <1>3, <2>1, FS_Subset
  <2>3. Cardinality(S) \in Nat /\ Cardinality(S) # 0
    BY <2>2, FS_CardinalityType, FS_EmptySet
  <2> QED
    BY <1>3, <2>2, <2>3 DEF Depth
<1> QED
  BY <1>1, <1>2, <1>3, <1>4

(* A call opens a place above all others.                                   *)
LEMMA CallOpens ==
    ASSUME Typed, NEW f \in Frames, frames' = Append(frames, f), scenario' = scenario,
           NEW n, n = Len(frames) + 1
    PROVE  /\ \A i \in OpenCalls : frames'[i] = frames[i] /\ Depth(i)' = Depth(i)
           /\ ~IsSubscribed(f.to) => OpenCalls' = OpenCalls
           /\ IsSubscribed(f.to) =>
                /\ OpenCalls' = OpenCalls \cup {n}
                /\ n \notin OpenCalls
                /\ Cardinality(OpenCalls') = Cardinality(OpenCalls) + 1
                /\ Depth(n)' = Cardinality(OpenCalls) + 1
                /\ frames'[n] = f
<1>1. /\ frames \in Seq(Frames) /\ OpenCalls \subseteq 1 .. Len(frames)
      /\ IsFiniteSet(OpenCalls)
  BY OpenAreFinite
<1>2. /\ DOMAIN frames' = 1 .. n /\ DOMAIN frames = 1 .. Len(frames)
      /\ frames'[n] = f /\ \A i \in 1 .. Len(frames) : frames'[i] = frames[i]
  BY <1>1
<1>3. \A c : IsSubscribed(c)' = IsSubscribed(c)
  BY DEF IsSubscribed
<1>4. n \notin OpenCalls /\ Len(frames) \in Nat
  BY <1>1
<1>5. OpenCalls' = {i \in 1 .. n : IsSubscribed(frames'[i].to)}
  BY <1>2, <1>3 DEF OpenCalls
<1>6. OpenCalls = {i \in 1 .. Len(frames) : IsSubscribed(frames[i].to)}
  BY <1>2 DEF OpenCalls
<1>7. OpenCalls' = IF IsSubscribed(f.to) THEN OpenCalls \cup {n} ELSE OpenCalls
  <2>1. \A i : i \in 1 .. n <=> i \in 1 .. Len(frames) \/ i = n
    BY <1>4
  <2> QED
    BY <1>2, <1>4, <1>5, <1>6, <2>1
<1>8. ASSUME NEW i \in OpenCalls PROVE frames'[i] = frames[i] /\ Depth(i)' = Depth(i)
  <2>1. {j \in OpenCalls : j <= i}' = {j \in OpenCalls : j <= i}
    BY <1>1, <1>4, <1>7, <1>8
  <2> QED
    BY <1>1, <1>2, <1>8, <2>1 DEF Depth
<1>9. ASSUME IsSubscribed(f.to)
      PROVE  /\ Cardinality(OpenCalls') = Cardinality(OpenCalls) + 1
             /\ Depth(n)' = Cardinality(OpenCalls) + 1
  <2>1. OpenCalls' = OpenCalls \cup {n}
    BY <1>7, <1>9
  <2>0. \A j \in OpenCalls' : j <= n
    BY <1>1, <1>4, <2>1
  <2>2. {j \in OpenCalls : j <= n}' = OpenCalls'
    BY <2>0
  <2>3. Cardinality(OpenCalls') = Cardinality(OpenCalls) + 1
    BY <1>1, <1>4, <2>1, FS_AddElement
  <2> QED
    BY <2>2, <2>3 DEF Depth
<1> QED
  BY <1>2, <1>4, <1>7, <1>8, <1>9

(* A return closes the place on top.                                        *)
LEMMA ReturnCloses ==
    ASSUME Typed, frames # <<>>, frames' = SubSeq(frames, 1, Len(frames) - 1),
           scenario' = scenario
    PROVE  /\ frames' \in Seq(Frames)
           /\ OpenCalls' = OpenCalls \ {Len(frames)}
           /\ \A i \in OpenCalls' : frames'[i] = frames[i] /\ Depth(i)' = Depth(i)
           /\ Len(frames) \in OpenCalls =>
                /\ Depth(Len(frames)) = Cardinality(OpenCalls)
                /\ Cardinality(OpenCalls') = Cardinality(OpenCalls) - 1
                /\ \A i \in OpenCalls' : Depth(i) \in 1 .. Cardinality(OpenCalls) - 1
<1> DEFINE n == Len(frames)
<1>1. /\ frames \in Seq(Frames) /\ OpenCalls \subseteq 1 .. Len(frames)
      /\ IsFiniteSet(OpenCalls) /\ Cardinality(OpenCalls) \in Nat
  BY OpenAreFinite
<1>2. n \in Nat /\ n > 0
  BY <1>1
<1>3. /\ DOMAIN frames' = 1 .. n - 1 /\ DOMAIN frames = 1 .. n /\ frames' \in Seq(Frames)
      /\ \A i \in 1 .. n - 1 : frames'[i] = frames[i]
  BY <1>1, <1>2
<1>4. \A c : IsSubscribed(c)' = IsSubscribed(c)
  BY DEF IsSubscribed
<1>5. OpenCalls' = {i \in 1 .. n - 1 : IsSubscribed(frames'[i].to)}
  BY <1>3, <1>4 DEF OpenCalls
<1>6. OpenCalls = {i \in 1 .. n : IsSubscribed(frames[i].to)}
  BY <1>3 DEF OpenCalls
<1>7. OpenCalls' = OpenCalls \ {n}
  <2>1. \A i : i \in 1 .. n <=> i \in 1 .. n - 1 \/ i = n
    BY <1>2
  <2>2. n \notin 1 .. n - 1
    BY <1>2
  <2> QED
    BY <1>3, <1>5, <1>6, <2>1, <2>2
<1>8. ASSUME NEW i \in OpenCalls' PROVE frames'[i] = frames[i] /\ Depth(i)' = Depth(i)
  <2>1. i \in 1 .. n - 1 /\ i \in Int /\ i < n
    BY <1>5, <1>8
  <2>2. {j \in OpenCalls : j <= i}' = {j \in OpenCalls : j <= i}
    BY <1>1, <1>2, <1>7, <2>1
  <2> QED
    BY <1>3, <2>1, <2>2 DEF Depth
<1>9. ASSUME n \in OpenCalls
      PROVE  /\ Depth(n) = Cardinality(OpenCalls)
             /\ Cardinality(OpenCalls') = Cardinality(OpenCalls) - 1
  <2>0. \A j \in OpenCalls : j <= n
    BY <1>1, <1>2
  <2>1. {j \in OpenCalls : j <= n} = OpenCalls
    BY <2>0
  <2>2. Cardinality(OpenCalls') = Cardinality(OpenCalls) - 1
    BY <1>1, <1>7, <1>9, FS_RemoveElement
  <2> QED
    BY <2>1, <2>2 DEF Depth
<1>10. ASSUME n \in OpenCalls, NEW i \in OpenCalls'
       PROVE  Depth(i) \in 1 .. Cardinality(OpenCalls) - 1
  <2> DEFINE S == {j \in OpenCalls : j <= i}
  <2>1. i \in 1 .. n - 1
    BY <1>5, <1>10
  <2>2. S \in SUBSET OpenCalls' /\ i \in S
    BY <1>1, <1>2, <1>7, <1>10, <2>1
  <2>3. IsFiniteSet(OpenCalls') /\ IsFiniteSet(S)
    BY <1>1, <1>7, <2>2, FS_RemoveElement, FS_Subset
  <2>4. Cardinality(S) <= Cardinality(OpenCalls') /\ Cardinality(S) \in Nat /\ Cardinality(S) # 0
    BY <2>2, <2>3, FS_Subset, FS_CardinalityType, FS_EmptySet
  <2> QED
    BY <1>1, <1>9, <1>10, <2>4 DEF Depth
<1> QED
  BY <1>3, <1>7, <1>8, <1>9, <1>10

-----------------------------------------------------------------------------
(* Receipts.                                                                *)

(* The selectors of the open calls are on the stack of return_types, and    *)
(* nothing else is until a call returns a word; their contracts are among   *)
(* the callees of the transaction.                                          *)
StackHeld ==
    pc = "receipts" =>
        /\ Len(returnTypes) >= Cardinality(OpenCalls)
        /\ \A i \in OpenCalls : frames[i].to \in callees
        /\ ~wordReturned =>
              /\ Len(returnTypes) = Cardinality(OpenCalls)
              /\ \A i \in OpenCalls : returnTypes[Depth(i)] = frames[i].selector

(* What the handling of a receipt does to everything but the stack.         *)
ReceiptHandled ==
    /\ pc = "receipts" /\ pc' \in {"receipts", "result"}
    /\ UNCHANGED <<scenario, handlers, height, tx, calls>>
    /\ receipts' \in 0 .. scenario.receipts
    /\ Panics(wordReturned)
    /\ Grows(decoded', wordReturned)
    /\ wordReturned' \in BOOLEAN /\ (wordReturned => wordReturned')
    /\ frames' \in Seq(Frames) /\ returnTypes' \in Seq(Selectors) /\ callees' \subseteq Contracts

(* A received receipt leaves what does not depend on it.                     *)
LEMMA ReceivedIsCounted ==
    ASSUME Typed, NEW k, Receive(k)
    PROVE  /\ pc = "receipts" /\ panicked = "no" /\ receipts' \in 0 .. scenario.receipts
           /\ UNCHANGED <<scenario, handlers, height, tx, calls>>
<1>1. receipts \in 0 .. scenario.receipts /\ scenario.receipts \in Nat
  BY AbiAssumption DEF Typed, TypeOK
<1> QED
  BY <1>1 DEF Receive

(* Growth without mistyped events is growth.                                 *)
LEMMA WordsMayMistype ==
    ASSUME Typed, NEW after, Grows(after, FALSE) PROVE Grows(after, wordReturned)
  BY DEF Grows, Excused

(* Receipts that leave the stack alone.                                     *)
LEMMA StackUnchanged ==
    ASSUME StackHeld, UNCHANGED <<scenario, pc, frames, returnTypes, callees, wordReturned>>
    PROVE  StackHeld'
<1>1. OpenCalls' = OpenCalls
  BY DEF OpenCalls, IsSubscribed
<1>2. ASSUME NEW i PROVE Depth(i)' = Depth(i)
  BY <1>1 DEF Depth
<1> QED
  BY <1>1, <1>2 DEF StackHeld

(* Receipts that neither open nor close a call keep the stack and the types. *)
LEMMA PlainReceipts ==
    ASSUME Typed, StackHeld,
           \/ LogReceipt \/ TransferReceipt \/ TransferOutReceipt
           \/ \E rb \in LogIds \cup {OtherId} : LogDataReceipt(rb)
           \/ \E id \in MessageIds \cup {OtherId} : MessageOutReceipt(id)
    PROVE  ReceiptHandled /\ StackHeld'
<1>1. /\ frames \in Seq(Frames) /\ returnTypes \in Seq(Selectors) /\ callees \subseteq Contracts
      /\ wordReturned \in BOOLEAN
  BY OpenAreFinite DEF Typed, TypeOK
<1>2. ASSUME NEW k, Receive(k), UNCHANGED <<pc, frames, returnTypes, callees, wordReturned>>,
             Grows(decoded', FALSE), Panics(FALSE)
      PROVE  ReceiptHandled /\ StackHeld'
  <2>1. Panics(wordReturned) /\ Grows(decoded', wordReturned)
    BY <1>2, WordsMayMistype DEF Panics
  <2> QED
    BY <1>1, <1>2, <2>1, ReceivedIsCounted, StackUnchanged DEF ReceiptHandled
<1>0. ASSUME NEW k, Receive(k) PROVE panicked = "no" /\ (panicked' = panicked => Panics(FALSE))
  BY <1>0 DEF Receive, Panics
<1>3. CASE LogReceipt
  BY <1>0, <1>2, <1>3, DecodeReceiptGrows DEF LogReceipt, ReceiptTypes
<1>4. CASE TransferReceipt
  BY <1>0, <1>2, <1>4, DecodeReceiptGrows DEF TransferReceipt, ReceiptTypes
<1>5. CASE TransferOutReceipt
  BY <1>0, <1>2, <1>5, DecodeReceiptGrows DEF TransferOutReceipt, ReceiptTypes
<1>6. ASSUME NEW rb \in LogIds \cup {OtherId}, LogDataReceipt(rb) PROVE ReceiptHandled /\ StackHeld'
  <2>1. CASE IsSubscribed(Running) /\ rb \in LogIds
    <3> DEFINE type == DataOf(Running, Logged[rb])
               e == Event(type)
    <3>1. type \in EventTypes /\ (type = Logged[rb] \/ Excused(type, FALSE))
      BY <2>1, RunningIsContract, DataIsExcused, AbiAssumption
    <3>2. e \in Events /\ e.tx = tx /\ e.type = type
      BY <3>1, EventsAreTyped
    <3>3. DecodeType(Logged[rb], e) /\ panicked = "no"
      BY <1>0, <1>6, <2>1 DEF LogDataReceipt
    <3>4. Grows(decoded', FALSE) /\ Panics(FALSE)
      <4> HIDE DEF e, type
      <4> QED
        BY <3>1, <3>2, <3>3, DecodeTypeGrows
    <3> QED
      BY <1>2, <1>6, <3>4 DEF LogDataReceipt
  <2>2. CASE ~(IsSubscribed(Running) /\ rb \in LogIds)
    BY <1>0, <1>2, <1>6, <2>2, NothingGrows DEF LogDataReceipt, DecodeNothing
  <2> QED
    BY <2>1, <2>2
<1>7. ASSUME NEW id \in MessageIds \cup {OtherId}, MessageOutReceipt(id)
      PROVE  ReceiptHandled /\ StackHeld'
  <2> DEFINE m == Event("MessageOut")
             t == Message[id]
             type == IF Running \in AbiContracts THEN t ELSE "foreign message"
             e == Event(type)
  <2>1. /\ "MessageOut" \in DecodedTypes /\ "MessageOut" \notin AbiTypes
        /\ m \in Events /\ m.tx = tx /\ m.type = "MessageOut"
    BY FuelTypes, EventsAreTyped, AbiAssumption DEF ReceiptTypes, FUEL_PRIMITIVES, EventTypes
  <2>2. Grows(Push("MessageOut", m), FALSE)
    BY <2>1, PushGrows
  <2>3. CASE decoded' = Push("MessageOut", m) /\ panicked' = panicked
    BY <1>0, <1>2, <1>7, <2>2, <2>3 DEF MessageOutReceipt
  <2>4. CASE id \in MessageIds /\ panicked' = Panicked(e) /\ e.type # t /\ decoded' = decoded
    <3>1. e.type = "foreign message" /\ Panicked(e) = "foreign message"
      BY <2>4 DEF Event, Panicked, ForeignTypes
    <3>2. Panics(FALSE)
      BY <2>4, <3>1 DEF Panics, ForeignTypes
    <3> QED
      BY <1>2, <1>7, <2>4, <3>2, NothingGrows DEF MessageOutReceipt
  <2>5. CASE /\ id \in MessageIds /\ HasDecoder(t)
             /\ decoded' = [Push("MessageOut", m) EXCEPT ![t] = Append(@, e)]
             /\ panicked' = panicked
    <3>1. t \in AbiTypes /\ t \in DecodedTypes /\ t # "MessageOut"
      BY <2>1, <2>5, FuelTypes, AbiAssumption
    <3>0. type \in EventTypes /\ (type = t \/ Excused(type, FALSE))
      BY <3>1 DEF EventTypes, ForeignTypes, Excused
    <3>2. e \in Events /\ e.tx = tx /\ e.type = type
      BY <3>0, EventsAreTyped
    <3>3. decoded \in [DecodedTypes -> Seq(Events)]
      BY DEF Typed, Vectors
    <3> HIDE DEF t, e, m, type
    <3>4. \A u \in DecodedTypes :
              decoded'[u] = IF u = t THEN Append(decoded[t], e)
                            ELSE IF u = "MessageOut" THEN Append(decoded[u], m) ELSE decoded[u]
      BY <2>1, <2>5, <3>1, <3>3 DEF Push
    <3>5. Append(decoded[t], e) \in Seq(Events) /\ Append(decoded["MessageOut"], m) \in Seq(Events)
      BY <2>1, <3>1, <3>2, <3>3
    <3>6. DOMAIN decoded' = DecodedTypes /\ decoded' = [u \in DecodedTypes |-> decoded'[u]]
      BY <2>5, <3>3 DEF Push
    <3>7. decoded' \in Vectors
      BY <3>3, <3>4, <3>5, <3>6 DEF Vectors
    <3>8. Grows(decoded', FALSE)
      BY <2>1, <3>0, <3>2, <3>4, <3>7 DEF Grows
    <3>9. Panics(FALSE) /\ Receive("MessageOut")
          /\ UNCHANGED <<pc, frames, returnTypes, callees, wordReturned>>
      BY <1>0, <1>7, <2>5 DEF MessageOutReceipt
    <3> QED
      BY <1>2, <3>8, <3>9
  <2> QED
    BY <1>7, <2>3, <2>4, <2>5 DEF MessageOutReceipt
<1> QED
  BY <1>3, <1>4, <1>5, <1>6, <1>7

(* A call to a subscribed contract pushes its selector, another call none.   *)
LEMMA CallReceipts ==
    ASSUME Typed, StackHeld, NEW to \in Contracts, NEW sel \in Selectors, CallReceipt(to, sel)
    PROVE  ReceiptHandled /\ StackHeld'
<1> DEFINE f == [to |-> to, selector |-> sel]
           n == Len(frames) + 1
<1>1. /\ frames \in Seq(Frames) /\ returnTypes \in Seq(Selectors) /\ callees \subseteq Contracts
      /\ OpenCalls \subseteq 1 .. Len(frames) /\ Cardinality(OpenCalls) \in Nat
      /\ wordReturned \in BOOLEAN
      /\ \A i \in OpenCalls : Depth(i) \in 1 .. Cardinality(OpenCalls)
  BY OpenAreFinite DEF Typed, TypeOK
<1>2. /\ Receive("Call") /\ f \in Frames /\ frames' = Append(frames, f)
      /\ DecodeReceipt(to, "Call") /\ pc' = pc /\ wordReturned' = wordReturned
  BY DEF CallReceipt, Frames
<1>3. /\ pc = "receipts" /\ panicked = "no" /\ receipts' \in 0 .. scenario.receipts
      /\ UNCHANGED <<scenario, handlers, height, tx, calls>>
  BY <1>2, ReceivedIsCounted
<1>4. Grows(decoded', wordReturned) /\ panicked' = panicked /\ Panics(wordReturned)
  BY <1>2, <1>3, DecodeReceiptGrows, WordsMayMistype DEF ReceiptTypes, Panics
<1>5. CASE IsSubscribed(to)
  <2>1. returnTypes' = Append(returnTypes, sel) /\ callees' = callees \cup {to}
    BY <1>5 DEF CallReceipt
  <2>2. ReceiptHandled
    BY <1>1, <1>2, <1>3, <1>4, <2>1 DEF ReceiptHandled
  <2>3. /\ \A i \in OpenCalls : frames'[i] = frames[i] /\ Depth(i)' = Depth(i)
        /\ OpenCalls' = OpenCalls \cup {n}
        /\ Cardinality(OpenCalls') = Cardinality(OpenCalls) + 1
    BY <1>2, <1>3, <1>5, CallOpens
  <2>4. \A k : k = n => Depth(k)' = Cardinality(OpenCalls) + 1 /\ frames'[k] = f
    <3> TAKE k
    <3> QED
      BY <1>2, <1>3, <1>5, CallOpens
  <2>5. /\ Len(returnTypes') = Len(returnTypes) + 1 /\ Len(returnTypes) \in Nat
        /\ returnTypes'[Len(returnTypes) + 1] = sel
        /\ \A j \in 1 .. Len(returnTypes) : returnTypes'[j] = returnTypes[j]
    BY <1>1, <2>1
  <2>6. \A i \in OpenCalls' : frames'[i].to \in callees'
    BY <1>3, <2>1, <2>3, <2>4 DEF StackHeld
  <2>7. ASSUME ~wordReturned, NEW i \in OpenCalls' PROVE returnTypes'[Depth(i)'] = frames'[i].selector
    <3>1. CASE i = n
      BY <1>1, <1>3, <2>4, <2>5, <2>7, <3>1 DEF StackHeld
    <3>2. CASE i \in OpenCalls
      BY <1>1, <1>3, <2>3, <2>5, <2>7, <3>2 DEF StackHeld
    <3> QED
      BY <2>3, <2>7, <3>1, <3>2
  <2>8. StackHeld'
    BY <1>1, <1>2, <1>3, <2>3, <2>5, <2>6, <2>7 DEF StackHeld
  <2> QED
    BY <2>2, <2>8
<1>6. CASE ~IsSubscribed(to)
  <2>1. returnTypes' = returnTypes /\ callees' = callees
    BY <1>6 DEF CallReceipt
  <2>2. ReceiptHandled
    BY <1>1, <1>2, <1>3, <1>4, <2>1 DEF ReceiptHandled
  <2>3. /\ \A i \in OpenCalls : frames'[i] = frames[i] /\ Depth(i)' = Depth(i)
        /\ OpenCalls' = OpenCalls
    BY <1>2, <1>3, <1>6, CallOpens
  <2>4. StackHeld'
    BY <1>2, <1>3, <2>1, <2>3 DEF StackHeld
  <2> QED
    BY <2>2, <2>4
<1> QED
  BY <1>5, <1>6

(* A word is returned: the place on top is closed, its selector stays.      *)
LEMMA ReturnReceipts ==
    ASSUME Typed, StackHeld, ReturnReceipt
    PROVE  ReceiptHandled /\ StackHeld'
<1>1. /\ frames \in Seq(Frames) /\ returnTypes \in Seq(Selectors) /\ callees \subseteq Contracts
      /\ OpenCalls \subseteq 1 .. Len(frames) /\ Cardinality(OpenCalls) \in Nat
      /\ wordReturned \in BOOLEAN /\ Len(returnTypes) \in Nat
  BY OpenAreFinite DEF Typed, TypeOK
<1>2. /\ Receive("Return") /\ frames # <<>> /\ frames' = SubSeq(frames, 1, Len(frames) - 1)
      /\ pc' = pc /\ returnTypes' = returnTypes /\ callees' = callees
      /\ wordReturned' = (wordReturned \/ IsSubscribed(Running))
  BY DEF ReturnReceipt
<1>3. /\ pc = "receipts" /\ panicked = "no" /\ receipts' \in 0 .. scenario.receipts
      /\ UNCHANGED <<scenario, handlers, height, tx, calls>>
  BY <1>2, ReceivedIsCounted
<1>4. Grows(decoded', wordReturned) /\ panicked' = panicked /\ Panics(wordReturned)
  <2>1. CASE Running \in callees
    BY <1>3, <2>1, DecodeReceiptGrows, WordsMayMistype DEF ReturnReceipt, ReceiptTypes, Panics
  <2>2. CASE Running \notin callees
    BY <1>3, <2>2, NothingGrows DEF ReturnReceipt, DecodeNothing, Panics
  <2> QED
    BY <2>1, <2>2
<1>5. /\ frames' \in Seq(Frames) /\ OpenCalls' = OpenCalls \ {Len(frames)}
      /\ \A i \in OpenCalls' : frames'[i] = frames[i] /\ Depth(i)' = Depth(i)
      /\ Len(frames) \in OpenCalls => Cardinality(OpenCalls') = Cardinality(OpenCalls) - 1
  BY <1>2, <1>3, ReturnCloses
<1>6. ReceiptHandled
  BY <1>1, <1>2, <1>3, <1>4, <1>5 DEF ReceiptHandled
<1>7. CASE IsSubscribed(Running)
  <2>1. Len(frames) \in OpenCalls /\ wordReturned'
    BY <1>1, <1>2, <1>7, Popped DEF OpenCalls, Running
  <2> QED
    BY <1>1, <1>2, <1>3, <1>5, <1>6, <2>1 DEF StackHeld
<1>8. CASE ~IsSubscribed(Running)
  <2>1. Len(frames) \notin OpenCalls /\ wordReturned' = wordReturned
    BY <1>1, <1>2, <1>8 DEF OpenCalls, Running
  <2>2. OpenCalls' = OpenCalls
    BY <1>5, <2>1
  <2> QED
    BY <1>2, <1>3, <1>5, <1>6, <2>1, <2>2 DEF StackHeld
<1> QED
  BY <1>7, <1>8

(* Data is returned: the place on top is closed and its selector popped,    *)
(* which is the one that the data is decoded by.                            *)
LEMMA DataReceipts ==
    ASSUME Typed, StackHeld, CallReturnsData
    PROVE  ReceiptHandled /\ StackHeld'
<1> DEFINE n == Len(frames)
           m == Len(returnTypes)
           sel == returnTypes[m]
           own == frames[n].selector
           type == ReturnedType(frames[n])
           e == Event(type)
<1>1. /\ frames \in Seq(Frames) /\ returnTypes \in Seq(Selectors) /\ callees \subseteq Contracts
      /\ OpenCalls \subseteq 1 .. n /\ Cardinality(OpenCalls) \in Nat
      /\ wordReturned \in BOOLEAN /\ m \in Nat
      /\ \A i \in OpenCalls : Depth(i) \in 1 .. Cardinality(OpenCalls)
  BY OpenAreFinite DEF Typed, TypeOK
<1>2. /\ Receive("ReturnData") /\ frames # <<>> /\ frames' = SubSeq(frames, 1, n - 1)
      /\ ReturnDataReceipt(frames[n].to, type)
      /\ pc' = pc /\ callees' = callees /\ wordReturned' = wordReturned
  BY DEF CallReturnsData, Running
<1>3. /\ pc = "receipts" /\ panicked = "no" /\ receipts' \in 0 .. scenario.receipts
      /\ UNCHANGED <<scenario, handlers, height, tx, calls>>
  BY <1>2, ReceivedIsCounted
<1>4. /\ frames' \in Seq(Frames) /\ OpenCalls' = OpenCalls \ {n}
      /\ \A i \in OpenCalls' : frames'[i] = frames[i] /\ Depth(i)' = Depth(i)
      /\ n \in OpenCalls =>
            /\ Depth(n) = Cardinality(OpenCalls)
            /\ Cardinality(OpenCalls') = Cardinality(OpenCalls) - 1
            /\ \A i \in OpenCalls' : Depth(i) \in 1 .. Cardinality(OpenCalls) - 1
  BY <1>2, <1>3, ReturnCloses
<1>5. n \in 1 .. n /\ own \in Selectors /\ frames[n].to \in Contracts
  <2>1. n \in 1 .. n /\ frames[n] \in Frames
    BY <1>1, <1>2, Popped
  <2> QED
    BY <2>1 DEF Frames
<1>6. CASE IsSubscribed(frames[n].to)
  <2>1. n \in OpenCalls /\ frames[n].to \in callees
    BY <1>1, <1>3, <1>5, <1>6 DEF OpenCalls, StackHeld
  <2>2. m >= Cardinality(OpenCalls) /\ m > 0 /\ returnTypes # <<>>
    <3>1. Cardinality(OpenCalls) > 0
      BY <1>1, <2>1
    <3> QED
      BY <1>1, <1>3, <3>1 DEF StackHeld
  <2>3. DecodeReturn(sel, e) /\ returnTypes' = SubSeq(returnTypes, 1, m - 1)
    BY <1>2, <1>6, <2>1, <2>2 DEF ReturnDataReceipt
  <2>4. sel \in Selectors
    BY <1>1, <2>2
  <2>5. /\ returnTypes' \in Seq(Selectors) /\ Len(returnTypes') = m - 1
        /\ \A j \in 1 .. m - 1 : returnTypes'[j] = returnTypes[j]
    BY <1>1, <2>2, <2>3, Popped
  <2>6. ~wordReturned => sel = own /\ m = Cardinality(OpenCalls)
    BY <1>3, <1>4, <2>1 DEF StackHeld
  <2>7. /\ type = DataOf(frames[n].to, IF own \in Functions THEN Output[own] ELSE "unknown")
        /\ e \in Events /\ e.tx = tx /\ e.type = type
    <3>1. type = DataOf(frames[n].to, IF own \in Functions THEN Output[own] ELSE "unknown")
      BY DEF ReturnedType
    <3>2. type \in EventTypes
      <4>1. own \in Functions => Output[own] \in AbiTypes
        BY AbiAssumption
      <4> HIDE DEF own, type
      <4> QED
        BY <3>1, <4>1 DEF DataOf, EventTypes, ForeignTypes
    <3> QED
      BY <3>1, <3>2, EventsAreTyped
  <2>8. Grows(decoded', wordReturned) /\ Panics(wordReturned)
    <3>1. CASE SelectorToType(sel) = {}
      BY <1>3, <2>3, <3>1, NothingGrows DEF DecodeReturn, DecodeNothing, Panics
    <3>2. CASE SelectorToType(sel) # {}
      <4>1. sel \in Functions /\ DecodeType(Output[sel], e)
        BY <2>3, <3>2 DEF DecodeReturn, SelectorToType
      <4>2. type = Output[sel] \/ Excused(type, wordReturned)
        <5>1. CASE frames[n].to \notin AbiContracts
          BY <1>5, <1>6, <2>7, <5>1 DEF DataOf, Excused, ForeignHeard
        <5>2. CASE frames[n].to \in AbiContracts /\ ~wordReturned
          BY <2>6, <2>7, <4>1, <5>2 DEF DataOf
        <5>3. CASE frames[n].to \in AbiContracts /\ wordReturned
          <6>1. type \in AbiTypes \cup {"unknown"}
            BY <2>7, <5>3, AbiAssumption DEF DataOf
          <6>2. type \notin ForeignTypes
            BY <6>1, AbiAssumption DEF ForeignTypes
          <6> QED
            BY <5>3, <6>2 DEF Excused
        <5> QED
          BY <1>1, <5>1, <5>2, <5>3
      <4> HIDE DEF e, type
      <4> QED
        BY <1>3, <2>7, <4>1, <4>2, DecodeTypeGrows
    <3> QED
      BY <3>1, <3>2
  <2>9. ReceiptHandled
    BY <1>1, <1>2, <1>3, <1>4, <2>5, <2>8 DEF ReceiptHandled
  <2>10. Cardinality(OpenCalls') = Cardinality(OpenCalls) - 1
    BY <1>4, <2>1
  <2>11. Len(returnTypes') >= Cardinality(OpenCalls')
    BY <1>1, <2>2, <2>5, <2>10
  <2>12. \A i \in OpenCalls' : frames'[i].to \in callees'
    BY <1>2, <1>3, <1>4 DEF StackHeld
  <2>13. ASSUME ~wordReturned
         PROVE  /\ Len(returnTypes') = Cardinality(OpenCalls')
                /\ \A i \in OpenCalls' : returnTypes'[Depth(i)'] = frames'[i].selector
    <3>1. Len(returnTypes') = Cardinality(OpenCalls')
      BY <2>5, <2>6, <2>10, <2>13
    <3>2. ASSUME NEW i \in OpenCalls' PROVE returnTypes'[Depth(i)'] = frames'[i].selector
      <4>1. i \in OpenCalls /\ Depth(i) \in 1 .. m - 1
        BY <1>4, <2>1, <2>6, <2>13, <3>2
      <4>2. returnTypes[Depth(i)] = frames[i].selector
        BY <1>3, <2>13, <4>1 DEF StackHeld
      <4> QED
        BY <1>4, <2>5, <3>2, <4>1, <4>2
    <3> QED
      BY <3>1, <3>2
  <2>14. StackHeld'
    BY <1>2, <2>11, <2>12, <2>13 DEF StackHeld
  <2> QED
    BY <2>9, <2>14
<1>7. CASE ~IsSubscribed(frames[n].to)
  <2>1. returnTypes' = returnTypes /\ decoded' = decoded /\ panicked' = panicked
    BY <1>2, <1>7 DEF ReturnDataReceipt, DecodeNothing
  <2>2. ReceiptHandled
    BY <1>1, <1>2, <1>3, <1>4, <2>1, NothingGrows DEF ReceiptHandled, Panics
  <2>3. OpenCalls' = OpenCalls
    BY <1>4, <1>7 DEF OpenCalls
  <2>4. StackHeld'
    BY <1>2, <1>3, <1>4, <2>1, <2>3 DEF StackHeld
  <2> QED
    BY <2>2, <2>4
<1> QED
  BY <1>6, <1>7

(* The script is no contract, so its own return finds no callee.            *)
LEMMA LastReceipts ==
    ASSUME Typed, ScriptReturns \/ PanicReceipt \/ RevertReceipt
    PROVE  ReceiptHandled /\ StackHeld'
<1>1. /\ frames \in Seq(Frames) /\ returnTypes \in Seq(Selectors) /\ callees \subseteq Contracts
      /\ wordReturned \in BOOLEAN
  BY OpenAreFinite DEF Typed, TypeOK
<1>2. ASSUME NEW k, Receive(k), pc' = "result", Grows(decoded', FALSE),
             UNCHANGED <<frames, callees, wordReturned, panicked, returnTypes>>
      PROVE  ReceiptHandled /\ StackHeld'
  BY <1>1, <1>2, ReceivedIsCounted, WordsMayMistype DEF ReceiptHandled, StackHeld, Panics
<1>3. CASE ScriptReturns
  <2>1. Script \notin callees
    BY <1>1, AbiAssumption
  <2>2. decoded' = decoded /\ UNCHANGED <<panicked, returnTypes>>
    BY <1>3, <2>1 DEF ScriptReturns, ReturnDataReceipt, DecodeNothing
  <2> QED
    BY <1>2, <1>3, <2>2, NothingGrows DEF ScriptReturns
<1>4. ASSUME NEW t \in {"Panic", "Revert"}, Aborted(t) PROVE ReceiptHandled /\ StackHeld'
  <2>1. t \in DecodedTypes
    BY FuelTypes DEF ReceiptTypes
  <2>2. Grows(Push(t, Event(t)), FALSE)
    BY <2>1, EventsAreTyped, PushGrows DEF EventTypes
  <2>3. Grows(decoded', FALSE)
    BY <1>4, <2>2, NothingGrows DEF Aborted
  <2> QED
    BY <1>2, <1>4, <2>3 DEF Aborted
<1> QED
  BY <1>3, <1>4 DEF PanicReceipt, RevertReceipt

-----------------------------------------------------------------------------
(* The invariant.                                                           *)

(* No event is of a later transaction, those of this one have the type of   *)
(* their vector, and a module that panicked goes no further.                *)
EventsKept ==
    /\ panicked # "no" => pc \in {"receipts", "result"}
    /\ panicked # "empty"
    /\ panicked = "decode" => wordReturned
    /\ panicked = "foreign data" => ForeignHeard # {}
    /\ \A t \in DecodedTypes : \A i \in DOMAIN decoded[t] : decoded[t][i].tx <= tx
    /\ pc = "receipts" =>
          \A t \in DecodedTypes : \A i \in DOMAIN decoded[t] :
             decoded[t][i].tx = tx =>
                 decoded[t][i].type = t \/ Excused(decoded[t][i].type, wordReturned)

(* Whatever was handed to a handler in this block would be handed to it now.*)
CallsRepeat ==
    /\ \A i \in DOMAIN calls : \A h \in DOMAIN calls[i] :
          /\ h \in DOMAIN handlers
          /\ HasArguments(handlers[h])
          /\ calls[i][h] = Arguments(handlers[h])
    /\ RepeatsFirstEvents

CallsComplete ==
    pc \in {"dispatched", "saved"} /\ tx > 0 =>
        \A h \in DOMAIN handlers : HasArguments(handlers[h]) <=> h \in DOMAIN calls[Len(calls)]

DispatchInv == Typed /\ StackHeld /\ EventsKept /\ CallsRepeat /\ CallsComplete

(* The first state satisfies the invariant.                                  *)
LEMMA DispatchInit == Init => DispatchInv
<1> SUFFICES ASSUME Init PROVE DispatchInv
  OBVIOUS
<1>1. scenario \in Scenarios /\ 1 \in 1 .. scenario.blocks
      /\ 0 \in 0 .. scenario.transactions /\ 0 \in 0 .. scenario.receipts
  BY AbiAssumption DEF Init
<1>2. decoded \in Vectors /\ \A t \in DecodedTypes : decoded[t] = <<>>
  BY DEF Init, Vectors
<1>3. \A h \in DOMAIN handlers : \A j \in DOMAIN handlers[h] : handlers[h][j] \in DecodedTypes
  <2>1. PICK m \in Modules : Compiles(m) /\ handlers = HandlerTypes(m)
    BY DEF Init
  <2> QED
    BY <2>1 DEF Compiles, HandlerTypes, DecodedTypes
<1>4. Typed
  <2>1. calls \in Seq({})
    BY DEF Init
  <2>2. frames \in Seq(Frames) /\ returnTypes \in Seq(Selectors) /\ DOMAIN decoded = DecodedTypes
    BY DEF Init
  <2>3. TypeOK
    BY <1>1, <2>2 DEF Init, TypeOK, Frames, Selectors
  <2> QED
    BY <1>1, <1>2, <1>3, <2>1, <2>3 DEF Typed
<1>5. StackHeld /\ EventsKept /\ CallsRepeat /\ CallsComplete
  BY <1>2 DEF Init, StackHeld, EventsKept, ForeignTypes, CallsRepeat, CallsComplete, RepeatsFirstEvents
<1> QED
  BY <1>4, <1>5 DEF DispatchInv

(* What is pushed behind an event does not change it.                       *)
LEMMA GrownVectors ==
    ASSUME Typed, NEW mistyped, Grows(decoded', mistyped)
    PROVE  \A t \in DecodedTypes :
              /\ Len(decoded[t]) \in Nat /\ DOMAIN decoded[t] = 1 .. Len(decoded[t])
              /\ \A i \in DOMAIN decoded[t] : i \in DOMAIN decoded'[t] /\ decoded'[t][i] = decoded[t][i]
              /\ \A i \in DOMAIN decoded'[t] :
                    \/ i \in DOMAIN decoded[t]
                    \/ decoded'[t][i].tx = tx /\ (decoded'[t][i].type = t \/ Excused(decoded'[t][i].type, mistyped))
              /\ decoded[t] # <<>> => decoded'[t] # <<>> /\ decoded'[t][1] = decoded[t][1]
<1> TAKE t \in DecodedTypes
<1>1. decoded[t] \in Seq(Events) /\ decoded'[t] \in Seq(Events)
  BY DEF Typed, Vectors, Grows
<1>2. CASE decoded'[t] = decoded[t]
  BY <1>1, <1>2
<1>3. ASSUME NEW e \in Events, e.tx = tx, e.type = t \/ Excused(e.type, mistyped),
             decoded'[t] = Append(decoded[t], e)
      PROVE   /\ Len(decoded[t]) \in Nat /\ DOMAIN decoded[t] = 1 .. Len(decoded[t])
              /\ \A i \in DOMAIN decoded[t] : i \in DOMAIN decoded'[t] /\ decoded'[t][i] = decoded[t][i]
              /\ \A i \in DOMAIN decoded'[t] :
                    \/ i \in DOMAIN decoded[t]
                    \/ decoded'[t][i].tx = tx /\ (decoded'[t][i].type = t \/ Excused(decoded'[t][i].type, mistyped))
              /\ decoded[t] # <<>> => decoded'[t] # <<>> /\ decoded'[t][1] = decoded[t][1]
  BY <1>1, <1>3
<1> QED
  BY <1>2, <1>3 DEF Grows

(* A handler's arguments are the first events, which growth leaves in place. *)
LEMMA ArgumentsStay ==
    ASSUME Typed, NEW mistyped, Grows(decoded', mistyped), handlers' = handlers,
           NEW h \in DOMAIN handlers, HasArguments(handlers[h])
    PROVE  HasArguments(handlers[h])' /\ Arguments(handlers[h])' = Arguments(handlers[h])
<1>1. \A j \in DOMAIN handlers[h] : /\ handlers[h][j] \in DecodedTypes
                                    /\ decoded[handlers[h][j]] # <<>>
  BY DEF Typed, HasArguments
<1>2. \A j \in DOMAIN handlers[h] : /\ decoded'[handlers[h][j]] # <<>>
                                    /\ decoded'[handlers[h][j]][1] = decoded[handlers[h][j]][1]
  BY <1>1, GrownVectors
<1> QED
  BY <1>2 DEF HasArguments, Arguments

(* So the calls already made stay those a later dispatch repeats.            *)
LEMMA CallsStay ==
    ASSUME DispatchInv, NEW mistyped, Grows(decoded', mistyped), UNCHANGED <<handlers, calls>>
    PROVE  CallsRepeat'
<1>1. ASSUME NEW i \in DOMAIN calls, NEW h \in DOMAIN calls[i]
      PROVE  /\ h \in DOMAIN handlers
             /\ HasArguments(handlers[h])'
             /\ calls[i][h] = Arguments(handlers[h])'
  BY <1>1, ArgumentsStay DEF DispatchInv, CallsRepeat
<1> QED
  BY <1>1 DEF DispatchInv, CallsRepeat, RepeatsFirstEvents

(* Receipts that keep the stack and the types keep the whole invariant.      *)
LEMMA HandledKeeps ==
    ASSUME DispatchInv, ReceiptHandled, StackHeld'
    PROVE  DispatchInv'
<1>1. Typed' /\ CallsComplete'
  BY DEF DispatchInv, ReceiptHandled, Typed, TypeOK, Grows, Panics, Vectors, Frames, Selectors,
         CallsComplete
<1>2. EventsKept'
  <2>1. \A t \in DecodedTypes : \A i \in DOMAIN decoded'[t] :
            \/ i \in DOMAIN decoded[t] /\ decoded'[t][i] = decoded[t][i]
            \/ /\ decoded'[t][i].tx = tx
               /\ decoded'[t][i].type = t \/ Excused(decoded'[t][i].type, wordReturned)
    BY GrownVectors DEF DispatchInv, ReceiptHandled
  <2>2. tx \in Nat
    BY AbiAssumption DEF DispatchInv, Typed, TypeOK
  <2>3. \A t \in DecodedTypes : \A i \in DOMAIN decoded'[t] : decoded'[t][i].tx <= tx'
    <3>1. tx' = tx /\ \A t \in DecodedTypes : \A i \in DOMAIN decoded[t] : decoded[t][i].tx <= tx
      BY DEF DispatchInv, EventsKept, ReceiptHandled
    <3> QED
      BY <2>1, <2>2, <3>1
  <2>4. ForeignHeard' = ForeignHeard
    BY DEF ReceiptHandled, ForeignHeard, IsSubscribed
  <2>5. ASSUME NEW type, Excused(type, wordReturned) PROVE Excused(type, wordReturned)'
    BY <2>4, <2>5 DEF Excused, ReceiptHandled
  <2>6. ASSUME NEW t \in DecodedTypes, NEW i \in DOMAIN decoded'[t], decoded'[t][i].tx = tx'
        PROVE  decoded'[t][i].type = t \/ Excused(decoded[t][i].type, wordReturned)'
    <3>1. CASE i \in DOMAIN decoded[t] /\ decoded'[t][i] = decoded[t][i]
      BY <2>5, <2>6, <3>1 DEF DispatchInv, EventsKept, ReceiptHandled
    <3>2. CASE decoded'[t][i].type = t \/ Excused(decoded'[t][i].type, wordReturned)
      BY <2>5, <3>2
    <3> QED
      BY <2>1, <2>6, <3>1, <3>2
  <2>7. /\ panicked' # "no" => pc' \in {"receipts", "result"}
        /\ panicked' # "empty"
        /\ panicked' = "decode" => wordReturned'
        /\ panicked' = "foreign data" => ForeignHeard' # {}
    BY <2>4 DEF ReceiptHandled, Panics, ForeignTypes
  <2> QED
    BY <2>3, <2>6, <2>7 DEF EventsKept
<1>3. CallsRepeat'
  BY CallsStay DEF ReceiptHandled
<1> QED
  BY <1>1, <1>2, <1>3 DEF DispatchInv

(* An event that is in the block before any of its receipts.                *)
LEMMA BlockIsTyped ==
    ASSUME DispatchInv, BeginBlock
    PROVE  DispatchInv'
<1> DEFINE e == [type |-> "BlockData", tx |-> 0, at |-> 0]
<1>1. /\ decoded' = [t \in DecodedTypes |-> IF t = "BlockData" THEN <<e>> ELSE <<>>]
      /\ "BlockData" \in DecodedTypes /\ e \in Events
  BY FuelTypes DEF BeginBlock, Events, EventTypes
<1>2. <<e>> \in Seq(Events) /\ <<>> \in Seq(Events)
  BY <1>1
<1>3. decoded' \in Vectors
  BY <1>1, <1>2 DEF Vectors
<1>4. scenario.transactions \in Nat /\ scenario.receipts \in Nat
  BY AbiAssumption DEF DispatchInv, Typed
<1>5. calls' \in Seq({}) /\ \E S : calls' \in Seq(S)
  <2>1. calls' \in Seq({})
    BY DEF BeginBlock
  <2> QED
    BY <2>1
<1>6. TypeOK'
  BY <1>1, <1>4 DEF BeginBlock, DispatchInv, Typed, TypeOK
<1>7. Typed'
  BY <1>3, <1>5, <1>6 DEF BeginBlock, DispatchInv, Typed
<1>8. \A t \in DecodedTypes : \A i \in DOMAIN decoded'[t] : decoded'[t][i].tx <= tx'
  <2>1. tx' = 0
    BY DEF BeginBlock
  <2>2. ASSUME NEW t \in DecodedTypes, NEW i \in DOMAIN decoded'[t] PROVE decoded'[t][i] = e
    BY <1>1, <2>2
  <2> QED
    BY <2>1, <2>2
<1>9. EventsKept' /\ StackHeld'
  BY <1>8 DEF BeginBlock, DispatchInv, EventsKept, StackHeld
<1>10. CallsRepeat' /\ CallsComplete'
  BY DEF BeginBlock, CallsRepeat, RepeatsFirstEvents, CallsComplete
<1> QED
  BY <1>7, <1>9, <1>10 DEF DispatchInv

(* A transaction starts with an empty stack and the events before it.        *)
LEMMA TransactionBegins ==
    ASSUME DispatchInv, BeginTransaction
    PROVE  DispatchInv'
<1>1. tx \in Nat /\ tx + 1 \in 0 .. scenario.transactions
  BY AbiAssumption DEF BeginTransaction, DispatchInv, Typed, TypeOK
<1>2. frames' \in Seq(Frames) /\ returnTypes' \in Seq(Selectors)
  BY DEF BeginTransaction
<1>3. Typed'
  BY <1>1, <1>2 DEF BeginTransaction, DispatchInv, Typed, TypeOK, Frames, Selectors
<1>4. OpenCalls' = {} /\ Len(returnTypes') = 0 /\ Cardinality(OpenCalls') = 0
  <2>1. OpenCalls' = {} /\ Len(returnTypes') = 0
    BY DEF BeginTransaction, OpenCalls
  <2> QED
    BY <2>1, FS_EmptySet
<1>5. StackHeld'
  BY <1>4 DEF StackHeld
<1>6. \A t \in DecodedTypes : \A i \in DOMAIN decoded[t] :
          decoded[t][i].tx <= tx /\ decoded[t][i].tx \in Nat
  <2> SUFFICES ASSUME NEW t \in DecodedTypes, NEW i \in DOMAIN decoded[t]
               PROVE  decoded[t][i].tx <= tx /\ decoded[t][i].tx \in Nat
    OBVIOUS
  <2>1. decoded[t] \in Seq(Events)
    BY DEF DispatchInv, Typed, Vectors
  <2>2. decoded[t][i] \in Events
    BY <2>1
  <2>3. decoded[t][i].tx \in Nat
    BY <2>2 DEF Events
  <2> QED
    BY <2>3 DEF DispatchInv, EventsKept
<1>7. \A t \in DecodedTypes : \A i \in DOMAIN decoded[t] :
          decoded[t][i].tx <= tx + 1 /\ decoded[t][i].tx # tx + 1
  BY <1>1, <1>6
<1>8. EventsKept'
  BY <1>7 DEF BeginTransaction, DispatchInv, EventsKept
<1>9. CallsRepeat' /\ CallsComplete'
  BY NothingGrows, CallsStay DEF BeginTransaction, DispatchInv, CallsComplete
<1> QED
  BY <1>3, <1>5, <1>8, <1>9 DEF DispatchInv

(* The result of a transaction is one more event, after all its calls.       *)
LEMMA ResultIsHandled ==
    ASSUME DispatchInv, ScriptResultReceipt
    PROVE  DispatchInv'
<1>1. Grows(decoded', FALSE)
  BY FuelTypes, EventsAreTyped, PushGrows
     DEF ScriptResultReceipt, DispatchInv, ReceiptTypes, EventTypes
<1>2. Typed' /\ StackHeld' /\ CallsComplete'
  BY <1>1 DEF ScriptResultReceipt, DispatchInv, Typed, TypeOK, Grows, Vectors, StackHeld, CallsComplete
<1>3. EventsKept'
  <2>1. \A t \in DecodedTypes : \A i \in DOMAIN decoded'[t] :
            \/ i \in DOMAIN decoded[t] /\ decoded'[t][i] = decoded[t][i]
            \/ decoded'[t][i].tx = tx
    BY <1>1, GrownVectors DEF DispatchInv
  <2>2. tx \in Nat
    BY AbiAssumption DEF DispatchInv, Typed, TypeOK
  <2>3. \A t \in DecodedTypes : \A i \in DOMAIN decoded'[t] : decoded'[t][i].tx <= tx
    <3>1. \A t \in DecodedTypes : \A i \in DOMAIN decoded[t] : decoded[t][i].tx <= tx
      BY DEF DispatchInv, EventsKept
    <3> QED
      BY <2>1, <2>2, <3>1
  <2> QED
    BY <2>3 DEF ScriptResultReceipt, DispatchInv, EventsKept
<1>4. CallsRepeat'
  BY <1>1, CallsStay DEF ScriptResultReceipt
<1> QED
  BY <1>2, <1>3, <1>4 DEF DispatchInv

(* The handlers that find their arguments are called, and those called      *)
(* before found them too.                                                   *)
LEMMA DispatchCalls ==
    ASSUME DispatchInv, Dispatch
    PROVE  DispatchInv'
<1> DEFINE called == {i \in DOMAIN handlers : HasArguments(handlers[i])}
           new == [i \in called |-> Arguments(handlers[i])]
           n == Len(calls) + 1
<1>1. PICK S : calls \in Seq(S)
  BY DEF DispatchInv, Typed
<1>2. /\ calls' = Append(calls, new) /\ pc = "dispatch" /\ pc' = "dispatched"
      /\ UNCHANGED <<scenario, handlers, height, panicked, tx, receipts, frames, returnTypes,
                     callees, decoded, wordReturned>>
  BY DEF Dispatch
<1> HIDE DEF new
<1>3. /\ calls' \in Seq(S \cup {new}) /\ Len(calls) \in Nat /\ Len(calls') = n
      /\ DOMAIN calls' = 1 .. n /\ DOMAIN calls = 1 .. Len(calls)
      /\ calls'[n] = new /\ \A i \in 1 .. Len(calls) : calls'[i] = calls[i]
  <2>1. calls \in Seq(S \cup {new}) /\ new \in S \cup {new}
    BY <1>1
  <2> QED
    BY <1>2, <2>1
<1>4. \E T : calls' \in Seq(T)
  BY <1>3
<1>5. Typed' /\ StackHeld' /\ EventsKept'
  BY <1>2, <1>4 DEF DispatchInv, Typed, TypeOK, StackHeld, EventsKept
<1>6. ASSUME NEW h PROVE HasArguments(h)' = HasArguments(h) /\ Arguments(h)' = Arguments(h)
  BY <1>2 DEF HasArguments, Arguments
<1>7. DOMAIN new = called /\ \A h \in called : new[h] = Arguments(handlers[h])
  BY DEF new
<1>8. ASSUME NEW i \in DOMAIN calls', NEW h \in DOMAIN calls'[i]
      PROVE  /\ h \in DOMAIN handlers
             /\ HasArguments(handlers[h])
             /\ calls'[i][h] = Arguments(handlers[h])
  <2>1. CASE i = n
    BY <1>3, <1>7, <1>8, <2>1
  <2>2. CASE i # n
    BY <1>3, <1>8, <2>2 DEF DispatchInv, CallsRepeat
  <2> QED
    BY <2>1, <2>2
<1>9. ASSUME NEW i \in DOMAIN calls', NEW j \in DOMAIN calls', i < j, NEW h \in DOMAIN calls'[i]
      PROVE  h \in DOMAIN calls'[j] /\ calls'[j][h] = calls'[i][h]
  <2>1. i \in DOMAIN calls /\ calls'[i] = calls[i]
    BY <1>3, <1>9
  <2>2. CASE j = n
    BY <1>3, <1>7, <1>8, <1>9, <2>2
  <2>3. CASE j # n
    BY <1>3, <1>9, <2>1, <2>3 DEF DispatchInv, CallsRepeat, RepeatsFirstEvents
  <2> QED
    BY <2>2, <2>3
<1>10. CallsRepeat'
  <2>1. RepeatsFirstEvents'
    BY <1>9 DEF RepeatsFirstEvents
  <2> QED
    BY <1>2, <1>6, <1>8, <2>1 DEF CallsRepeat
<1>11. CallsComplete'
  BY <1>2, <1>3, <1>6, <1>7 DEF CallsComplete
<1> QED
  BY <1>5, <1>10, <1>11 DEF DispatchInv

(* Every step keeps the invariant.                                           *)
LEMMA DispatchNext == DispatchInv /\ [Next]_vars => DispatchInv'
<1> SUFFICES ASSUME DispatchInv, [Next]_vars PROVE DispatchInv'
  OBVIOUS
<1>1. Typed /\ StackHeld
  BY DEF DispatchInv
<1>2. ASSUME UNCHANGED <<scenario, handlers, panicked, tx, receipts, frames, returnTypes, callees,
                         decoded, calls, wordReturned>>,
             height' \in 1 .. scenario.blocks,
             pc' = pc \/ (pc \notin {"receipts", "result"} /\ pc' \in {"block", "saved"}),
             pc' = "saved" => pc \in {"dispatched", "saved"}
      PROVE  DispatchInv'
  <2>1. Typed' /\ CallsComplete'
    BY <1>2 DEF DispatchInv, Typed, TypeOK, CallsComplete, HasArguments
  <2>2. StackHeld'
    BY <1>1, <1>2, StackUnchanged DEF StackHeld
  <2>3. EventsKept'
    BY <1>2 DEF DispatchInv, EventsKept, Excused, ForeignHeard, IsSubscribed
  <2>4. CallsRepeat'
    <3>1. Grows(decoded, FALSE) /\ Grows(decoded', FALSE) = Grows(decoded, FALSE)
      BY <1>1, <1>2, NothingGrows
    <3> QED
      BY <1>2, <3>1, CallsStay
  <2> QED
    BY <2>1, <2>2, <2>3, <2>4 DEF DispatchInv
<1>3. height \in 1 .. scenario.blocks /\ scenario.blocks \in Nat
  BY AbiAssumption DEF DispatchInv, Typed, TypeOK
<1>4. CASE SkipBlock \/ SaveMetadata \/ NextBlock \/ UNCHANGED vars
  BY <1>2, <1>3, <1>4 DEF SkipBlock, SaveMetadata, NextBlock, vars
<1>5. CASE BeginBlock
  BY <1>5, BlockIsTyped
<1>6. CASE BeginTransaction
  BY <1>6, TransactionBegins
<1>7. CASE \E to \in Contracts, sel \in Functions \cup {OtherSelector} : CallReceipt(to, sel)
  BY <1>1, <1>7, CallReceipts, HandledKeeps DEF Selectors
<1>8. CASE \/ LogReceipt \/ TransferReceipt \/ TransferOutReceipt
           \/ \E rb \in LogIds \cup {OtherId} : LogDataReceipt(rb)
           \/ \E id \in MessageIds \cup {OtherId} : MessageOutReceipt(id)
  BY <1>1, <1>8, PlainReceipts, HandledKeeps
<1>9. CASE ReturnReceipt \/ CallReturnsData
  BY <1>1, <1>9, ReturnReceipts, DataReceipts, HandledKeeps
<1>10. CASE ScriptReturns \/ PanicReceipt \/ RevertReceipt
  BY <1>1, <1>10, LastReceipts, HandledKeeps
<1>11. CASE ScriptResultReceipt
  BY <1>11, ResultIsHandled
<1>12. CASE Dispatch
  BY <1>12, DispatchCalls
<1> QED
  BY <1>4, <1>5, <1>6, <1>7, <1>8, <1>9, <1>10, <1>11, <1>12 DEF Next

(* The inductive invariant holds in every reachable state.                   *)
LEMMA DispatchInvariant == Spec => []DispatchInv
  BY DispatchInit, DispatchNext, PTL DEF Spec

-----------------------------------------------------------------------------
(* Whatever the chain emits, the generated code's state has its type.       *)
THEOREM DispatchTypeCorrect == Spec => []TypeOK
<1>1. DispatchInv => TypeOK
  BY DEF DispatchInv, Typed
<1> QED
  BY <1>1, DispatchInvariant, PTL

(* `.expect("No return type available")` never fires.                       *)
THEOREM StackNeverEmpty == Spec => []NeverEmpty
<1>1. DispatchInv => NeverEmpty
  BY DEF DispatchInv, EventsKept, StackHeld, NeverEmpty
<1> QED
  BY <1>1, DispatchInvariant, PTL

(* return_types is the stack of the open calls until a call returns a word. *)
THEOREM StackFollowsCalls == Spec => []StackIsCalls
<1>1. DispatchInv => StackIsCalls
  BY DEF DispatchInv, StackHeld, StackIsCalls
<1> QED
  BY <1>1, DispatchInvariant, PTL

(* What contracts with the ABI emit is decoded as its type until then, and   *)
(* other contracts' logs and data only if the manifest listens to one.       *)
THEOREM EventsKeepTypes == Spec => []MistypedOnlyAfterReturn
<1>1. DispatchInv => MistypedOnlyAfterReturn
  BY DEF DispatchInv, EventsKept, MistypedOnlyAfterReturn, Excused
<1> QED
  BY <1>1, DispatchInvariant, PTL

(* A later dispatch of a block repeats the calls of the earlier ones.       *)
THEOREM HandlersRepeat == Spec => []RepeatsFirstEvents
<1>1. DispatchInv => RepeatsFirstEvents
  BY DEF DispatchInv, CallsRepeat
<1> QED
  BY <1>1, DispatchInvariant, PTL

(* The last dispatch of a block called every handler that has its events.   *)
THEOREM HandlersComplete == Spec => []HandledWhenSaved
<1>1. DispatchInv => HandledWhenSaved
  BY DEF DispatchInv, CallsComplete, HandledWhenSaved, HasArguments
<1> QED
  BY <1>1, DispatchInvariant, PTL

=============================================================================

----------------------------- MODULE Ble_proofs -----------------------------
(***************************************************************************)
(* Proofs about what passes between the phone and the device over BLE:     *)
(* BleAssembler, for every size of buffer and packet, every set of texts   *)
(* and any number of requests, and BleResponse, for any number of          *)
(* responses, requests and connections, and whatever may go wrong.         *)
(***************************************************************************)
EXTENDS BleAssembler, BleResponse, FiniteSetTheorems, SequenceTheorems, TLAPS

-----------------------------------------------------------------------------
(* BleAssembler.                                                           *)

\* The types, whatever is cut short: what is collected fits into the buffer, and
\* between two texts nothing is left in it.
AssemblerTypes ==
  /\ attempt \in BOOLEAN
  /\ ble_buffer \in Seq(Byte) /\ Len(ble_buffer) <= Capacity
  /\ depth \in Nat /\ (depth = 0 => ble_buffer = <<>>)
  /\ full \in BOOLEAN
  /\ event_map \subseteq {"CONN", "DISCONN", "WRITE"}
  /\ packet \in Seq(Byte) /\ todo \in Seq(Byte)
  /\ linked \in BOOLEAN /\ rest \in Seq(Byte) /\ waiting \in BOOLEAN
  /\ request \in Texts \cup {<<>>} /\ whole \in BOOLEAN /\ stuck \in BOOLEAN
  /\ begun \in 0 .. MaxRequests
  /\ captured \in Seq(Byte)

\* What was written of the request and is not handled yet.
InHand ==
  IF todo # <<>> THEN todo
  ELSE IF "WRITE" \in event_map /\ waiting THEN packet ELSE <<>>

\* The number of bytes of the request that are dealt with.
Handled == Len(request) - Len(rest) - Len(InHand)

\* The phone waits while a packet is in hand.
Writing ==
  /\ todo # <<>> => "WRITE" \notin event_map
  /\ waiting <=> InHand # <<>>

\* What is in hand and what is still to be written is the end of the request.
InSequence ==
  /\ Handled \in Nat
  /\ \A j \in 1 .. Len(rest) : rest[j] = request[Handled + Len(InHand) + j]
  /\ \A j \in 1 .. Len(InHand) : InHand[j] = request[Handled + j]

\* No more braces are open than were collected, or than are open in the request.
DepthIsBounded ==
  /\ depth <= Len(ble_buffer)
  /\ depth <= Nesting(request, Handled)

\* Up to the size of the buffer, the handler follows the request.
Following ==
  (Sending /\ Handled <= Capacity /\ Handled < Len(request)) =>
    /\ Len(ble_buffer) = Handled
    /\ \A j \in 1 .. Handled : ble_buffer[j] = request[j]
    /\ depth = Nesting(request, Handled)

\* What is collected is the beginning of an object, and what was handled of the request
\* last, from its beginning on or from a place the buffer had no room for.
Begins(b, d) ==
  /\ d = Nesting(b, Len(b))
  /\ \A k \in 1 .. Len(b) : Nesting(b, k) > 0
Stretch(i) ==
  /\ i + Len(ble_buffer) = Handled
  /\ ble_buffer # <<>> => i = 0 \/ i > Capacity
  /\ \A j \in 1 .. Len(ble_buffer) : ble_buffer[j] = request[i + j]
Inside == Begins(ble_buffer, depth) /\ \E i \in Nat : Stretch(i)

Recognised ==
  (Handled = Len(request) /\ Len(request) <= Capacity) => captured = request

\* What holds while a request is sent that is not cut short, behind none that was.
AssemblerInv ==
  attempt /\ Writing /\ InSequence /\ DepthIsBounded /\ Following /\ Inside /\ Recognised

-----------------------------------------------------------------------------
(* Braces.                                                                 *)

\* One more byte is one more place of that byte, and of no other.
LEMMA PlacesStep ==
  \A t, c : \A k \in Nat \ {0} :
    /\ Cardinality(Places(t, c, k - 1)) \in Nat
    /\ t[k] = c => Cardinality(Places(t, c, k)) = Cardinality(Places(t, c, k - 1)) + 1
    /\ t[k] # c => Cardinality(Places(t, c, k)) = Cardinality(Places(t, c, k - 1))
<1> TAKE t, c
<1> TAKE k \in Nat \ {0}
<1> DEFINE S == Places(t, c, k - 1)
<1>1. k - 1 \in Nat
  OBVIOUS
<1>2. IsFiniteSet(1 .. k - 1)
  BY <1>1, FS_Interval, 1 \in Int, k - 1 \in Int
<1>3. S \subseteq 1 .. k - 1
  BY DEF Places
<1>4. IsFiniteSet(S)
  BY <1>2, <1>3, FS_Subset
<1>5. Cardinality(S) \in Nat
  BY <1>4, FS_CardinalityType
<1>6. ASSUME t[k] = c PROVE Cardinality(Places(t, c, k)) = Cardinality(S) + 1
  <2>1. Places(t, c, k) = S \cup {k}
    BY <1>6 DEF Places
  <2>2. k \notin S
    BY <1>3
  <2> QED
    BY <2>1, <2>2, <1>4, FS_AddElement
<1>7. ASSUME t[k] # c PROVE Places(t, c, k) = S
  BY <1>7 DEF Places
<1> QED
  BY <1>5, <1>6, <1>7

\* How a byte changes the nesting.
LEMMA NestingStep ==
  \A t \in Seq(Byte) : \A k \in 1 .. Len(t) :
    /\ Nesting(t, k - 1) \in Int
    /\ t[k] = "open" => Nesting(t, k) = Nesting(t, k - 1) + 1
    /\ t[k] = "close" => Nesting(t, k) = Nesting(t, k - 1) - 1
    /\ t[k] = "other" => Nesting(t, k) = Nesting(t, k - 1)
<1> TAKE t \in Seq(Byte)
<1> TAKE k \in 1 .. Len(t)
<1>1. k \in Nat \ {0}
  OBVIOUS
<1>2. /\ Cardinality(Places(t, "open", k - 1)) \in Nat
      /\ t[k] = "open" =>
           Cardinality(Places(t, "open", k)) = Cardinality(Places(t, "open", k - 1)) + 1
      /\ t[k] # "open" =>
           Cardinality(Places(t, "open", k)) = Cardinality(Places(t, "open", k - 1))
  BY <1>1, PlacesStep
<1>3. /\ Cardinality(Places(t, "close", k - 1)) \in Nat
      /\ t[k] = "close" =>
           Cardinality(Places(t, "close", k)) = Cardinality(Places(t, "close", k - 1)) + 1
      /\ t[k] # "close" =>
           Cardinality(Places(t, "close", k)) = Cardinality(Places(t, "close", k - 1))
  BY <1>1, PlacesStep
<1>4. t[k] \in Byte
  OBVIOUS
<1> QED
  BY <1>2, <1>3, <1>4 DEF Byte, Nesting

\* No brace is open before the first byte.
LEMMA NestingZero == \A t : Nesting(t, 0) = 0
<1> TAKE t
<1>1. Places(t, "open", 0) = {} /\ Places(t, "close", 0) = {}
  BY DEF Places
<1>2. Cardinality({}) = 0
  BY FS_EmptySet
<1> QED
  BY <1>1, <1>2 DEF Nesting

\* A byte more at the end changes nothing before it.
LEMMA NestingAppend ==
  \A b \in Seq(Byte), c \in Byte : \A k \in 0 .. Len(b) :
    Nesting(Append(b, c), k) = Nesting(b, k)
<1> TAKE b \in Seq(Byte), c \in Byte
<1> TAKE k \in 0 .. Len(b)
<1>1. \A j \in 1 .. k : Append(b, c)[j] = b[j]
  BY AppendProperties
<1>2. \A x : Places(Append(b, c), x, k) = Places(b, x, k)
  BY <1>1 DEF Places
<1> QED
  BY <1>2 DEF Nesting

\* A request is a text, in which the last byte closes the first brace.
LEMMA RequestIsObject ==
  ASSUME AssemblerTypes
  PROVE  /\ request \in Seq(Byte) /\ Len(request) \in Nat
         /\ \A k \in 0 .. Len(request) : Nesting(request, k) \in Nat
         /\ \A k \in 1 .. Len(request) - 1 : Nesting(request, k) > 0
         /\ Nesting(request, Len(request)) = 0
         /\ request # <<>> => Len(request) > 1
<1>1. CASE request = <<>>
  BY <1>1, NestingZero
<1>2. CASE request \in Texts
  <2>1. /\ request \in Seq(Byte) /\ Len(request) > 1
        /\ \A k \in 1 .. Len(request) - 1 : Nesting(request, k) > 0
        /\ Nesting(request, Len(request)) = 0
    BY <1>2, TextsAssumption DEF IsObject
  <2>2. Len(request) \in Nat
    BY <2>1
  <2>3. \A k \in 1 .. Len(request) : Nesting(request, k - 1) \in Int
    BY <2>1, NestingStep
  <2>4. \A k \in 0 .. Len(request) - 1 : Nesting(request, k) \in Int
    <3> TAKE k \in 0 .. Len(request) - 1
    <3>1. k + 1 \in 1 .. Len(request) /\ (k + 1) - 1 = k
      BY <2>2
    <3> QED
      BY <3>1, <2>3
  <2>5. \A k \in 0 .. Len(request) : Nesting(request, k) \in Nat
    <3> TAKE k \in 0 .. Len(request)
    <3>1. CASE k = 0
      BY <3>1, NestingZero
    <3>2. CASE k = Len(request)
      BY <3>2, <2>1
    <3>3. CASE k \in 1 .. Len(request) - 1
      BY <3>3, <2>1, <2>4
    <3> QED
      BY <3>1, <3>2, <3>3, <2>2
  <2> QED
    BY <2>1, <2>2, <2>5, Zenon
<1> QED
  BY <1>1, <1>2 DEF AssemblerTypes

-----------------------------------------------------------------------------
(* The steps of the handler.                                               *)

USE DEF assemblerVars, context, peer

\* What a byte does: it opens an object, goes on with one, is skipped outside of
\* any, closes an inner object, or closes the outermost one.
Collects(c) == Len(ble_buffer) < Capacity /\ ble_buffer' = Append(ble_buffer, c)
Opens(c) == c = "open" /\ depth' = depth + 1 /\ Collects(c) /\ captured' = captured
GoesOn(c) ==
  c = "other" /\ depth > 0 /\ depth' = depth /\ Collects(c) /\ captured' = captured
Skips(c) ==
  /\ c # "open" /\ depth = 0 /\ depth' = 0
  /\ ble_buffer = <<>> /\ ble_buffer' = <<>> /\ captured' = captured
ClosesInner(c) ==
  c = "close" /\ depth > 1 /\ depth' = depth - 1 /\ Collects(c) /\ captured' = captured
ClosesOuter(c) ==
  /\ c = "close" /\ depth = 1 /\ depth' = 0
  /\ Len(ble_buffer) < Capacity /\ ble_buffer' = <<>>
  /\ captured' = Append(ble_buffer, c)

\* Whatever byte it is, it does one of these.
LEMMA ByteCases ==
  ASSUME AssemblerTypes, HandleByte
  PROVE  /\ Head(todo) \in Byte /\ Tail(todo) \in Seq(Byte)
         /\ \/ Opens(Head(todo)) \/ GoesOn(Head(todo)) \/ Skips(Head(todo))
            \/ ClosesInner(Head(todo)) \/ ClosesOuter(Head(todo))
<1> DEFINE c == Head(todo)
<1>1. /\ todo \in Seq(Byte) /\ todo # <<>> /\ depth \in Nat
      /\ ble_buffer \in Seq(Byte) /\ (depth = 0 => ble_buffer = <<>>)
      /\ Len(ble_buffer) \in Nat
  BY DEF AssemblerTypes, HandleByte
<1>2. c \in Byte /\ Tail(todo) \in Seq(Byte)
  BY <1>1, HeadTailProperties
<1>3. Kept(c) = ble_buffer
  BY <1>1 DEF Kept
<1>4. /\ Append(ble_buffer, c) # <<>>
      /\ Opened(c) > 0 => Len(ble_buffer) < Capacity
  <2>1. Append(ble_buffer, c) # <<>>
    BY <1>1, <1>2, AppendProperties
  <2>2. Opened(c) > 0 => ~(Len(ble_buffer) >= Capacity)
    BY <1>3 DEF HandleByte, TooLong
  <2> QED
    BY <1>1, <2>1, <2>2, SizesAssumption
<1>5. /\ depth' = IF Complete(c) THEN 0 ELSE Closed(c)
      /\ ble_buffer' = IF Complete(c) THEN <<>> ELSE Collected(c)
      /\ captured' = IF Complete(c) THEN Collected(c) ELSE captured
  BY DEF HandleByte
<1>6. Collected(c) = IF Opened(c) > 0 THEN Append(ble_buffer, c) ELSE ble_buffer
  BY <1>3 DEF Collected
<1>7. CASE c = "open"
  <2>1. Opened(c) = depth + 1 /\ Closed(c) = depth + 1 /\ ~Complete(c)
    BY <1>1, <1>7 DEF Opened, Closed, Complete
  <2> QED
    BY <1>1, <1>4, <1>5, <1>6, <1>7, <2>1 DEF Opens, Collects
<1>8. CASE c = "other" /\ depth > 0
  <2>1. Opened(c) = depth /\ Closed(c) = depth /\ ~Complete(c)
    BY <1>1, <1>8 DEF Opened, Closed, Complete
  <2> QED
    BY <1>1, <1>4, <1>5, <1>6, <1>8, <2>1 DEF GoesOn, Collects
<1>9. CASE c # "open" /\ depth = 0
  <2>1. Opened(c) = 0 /\ Closed(c) = 0 /\ Collected(c) = <<>> /\ ~Complete(c)
    BY <1>1, <1>6, <1>9 DEF Opened, Closed, Complete
  <2> QED
    BY <1>1, <1>5, <1>9, <2>1 DEF Skips
<1>10. CASE c = "close" /\ depth > 1
  <2>1. Opened(c) = depth /\ Closed(c) = depth - 1 /\ ~Complete(c)
    BY <1>1, <1>10 DEF Opened, Closed, Complete
  <2> QED
    BY <1>1, <1>4, <1>5, <1>6, <1>10, <2>1 DEF ClosesInner, Collects
<1>11. CASE c = "close" /\ depth = 1
  <2>1. Opened(c) = depth /\ Closed(c) = 0
    BY <1>1, <1>11 DEF Opened, Closed
  <2>2. Collected(c) = Append(ble_buffer, c)
    BY <1>6, <1>11, <2>1
  <2>3. Complete(c)
    BY <1>4, <1>11, <2>1, <2>2 DEF Complete
  <2> QED
    BY <1>1, <1>4, <1>5, <1>11, <2>1, <2>2, <2>3 DEF ClosesOuter
<1>12. /\ depth = 0 \/ depth = 1 \/ depth > 1
       /\ depth = 0 \/ depth > 0
  BY <1>1
<1> QED
  BY <1>2, <1>7, <1>8, <1>9, <1>10, <1>11, <1>12 DEF Byte

\* A text is given up only when the buffer is full.
LEMMA GiveUpFacts ==
  ASSUME AssemblerTypes, GiveUp
  PROVE  depth > 0 /\ Len(ble_buffer) = Capacity
<1>1. Kept(Head(todo)) = ble_buffer
  BY DEF AssemblerTypes, Kept
<1>2. Opened(Head(todo)) > 0 /\ Len(ble_buffer) >= Capacity
  BY <1>1 DEF GiveUp, TooLong
<1> QED
  BY <1>2, SizesAssumption DEF AssemblerTypes

\* Every step keeps the types.
LEMMA AssemblerTypesStep ==
  ASSUME AssemblerTypes, [AssemblerNext]_assemblerVars
  PROVE  AssemblerTypes'
<1> USE DEF AssemblerTypes
<1>1. CASE HandleByte
  <2>1. /\ Tail(todo) \in Seq(Byte) /\ Head(todo) \in Byte
        /\ depth' \in Nat /\ ble_buffer' \in Seq(Byte) /\ Len(ble_buffer') <= Capacity
        /\ depth' = 0 => ble_buffer' = <<>>
        /\ captured' \in Seq(Byte)
    <3>1. /\ Head(todo) \in Byte /\ Tail(todo) \in Seq(Byte)
          /\ \/ Opens(Head(todo)) \/ GoesOn(Head(todo)) \/ Skips(Head(todo))
             \/ ClosesInner(Head(todo)) \/ ClosesOuter(Head(todo))
      BY <1>1, ByteCases
    <3>2. /\ Append(ble_buffer, Head(todo)) \in Seq(Byte)
          /\ Len(Append(ble_buffer, Head(todo))) = Len(ble_buffer) + 1
      BY <3>1, AppendProperties
    <3>3. Len(<<>>) = 0 /\ Len(ble_buffer) \in Nat /\ <<>> \in Seq(Byte)
      OBVIOUS
    <3>4. CASE Opens(Head(todo)) \/ GoesOn(Head(todo)) \/ ClosesInner(Head(todo))
      <4>1. /\ Len(ble_buffer) < Capacity /\ captured' = captured
            /\ ble_buffer' = Append(ble_buffer, Head(todo))
            /\ depth' \in {depth + 1, depth, depth - 1}
            /\ depth' = depth - 1 => depth > 1
            /\ depth' = depth => depth > 0
        BY <3>4 DEF Opens, GoesOn, ClosesInner, Collects
      <4> QED
        BY <3>1, <3>2, <3>3, <4>1, SizesAssumption
    <3>5. CASE Skips(Head(todo)) \/ ClosesOuter(Head(todo))
      <4>1. /\ depth' = 0 /\ ble_buffer' = <<>>
            /\ captured' = captured \/ captured' = Append(ble_buffer, Head(todo))
        BY <3>5 DEF Skips, ClosesOuter
      <4>2. captured' \in Seq(Byte)
        BY <3>2, <4>1
      <4>3. Len(ble_buffer') <= Capacity /\ ble_buffer' \in Seq(Byte)
        BY <3>3, <4>1, SizesAssumption
      <4> QED
        BY <3>1, <4>1, <4>2, <4>3
    <3> QED
      BY <3>1, <3>4, <3>5
  <2>2. full' \in BOOLEAN
    BY <1>1 DEF HandleByte
  <2>3. waiting' \in BOOLEAN /\ todo' = Tail(todo)
    BY <1>1 DEF HandleByte, Answer
  <2> QED
    BY <1>1, <2>1, <2>2, <2>3 DEF HandleByte
<1>2. CASE GiveUp
  BY <1>2, SizesAssumption DEF GiveUp, Answer
<1>3. CASE HandleConnection
  BY <1>3 DEF HandleConnection
<1>4. CASE HandleWrite
  BY <1>4 DEF HandleWrite
<1>5. CASE AttemptBegins \/ AttemptEnds
  <2>1. ble_buffer' = <<>> /\ Len(<<>>) <= Capacity
    BY <1>5, SizesAssumption DEF AttemptBegins, AttemptEnds
  <2>2. /\ attempt' \in BOOLEAN /\ full' \in BOOLEAN /\ whole' \in BOOLEAN
        /\ event_map' \subseteq {"CONN", "DISCONN", "WRITE"}
    BY <1>5 DEF AttemptBegins, AttemptEnds
  <2>3. /\ linked' \in {linked, TRUE, FALSE} /\ waiting' \in {waiting, FALSE}
        /\ rest' \in {rest, <<>>}
    BY <1>5 DEF AttemptBegins, AttemptEnds
  <2>4. UNCHANGED <<depth, packet, todo, request, begun, stuck, captured>>
    BY <1>5 DEF AttemptBegins, AttemptEnds
  <2>5. linked' \in BOOLEAN /\ waiting' \in BOOLEAN /\ rest' \in Seq(Byte)
    <3>1. linked \in BOOLEAN /\ waiting \in BOOLEAN /\ rest \in Seq(Byte)
      BY Zenon
    <3>2. <<>> \in Seq(Byte)
      OBVIOUS
    <3> QED
      BY <2>3, <3>1, <3>2, Zenon
  <2> QED
    BY <2>1, <2>2, <2>3, <2>4, <2>5
<1>6. CASE PhoneConnect \/ PhoneDisconnect
  <2>1. event_map' \subseteq {"CONN", "DISCONN", "WRITE"}
    BY <1>6 DEF PhoneConnect, PhoneDisconnect
  <2>2. /\ linked' \in {linked, TRUE, FALSE} /\ waiting' \in {waiting, FALSE}
        /\ rest' \in {rest, <<>>}
    BY <1>6 DEF PhoneConnect, PhoneDisconnect
  <2>3. whole' \in BOOLEAN
    BY <1>6 DEF PhoneConnect, PhoneDisconnect
  <2>4. UNCHANGED <<context, depth, packet, todo, request, begun, stuck, captured>>
    BY <1>6 DEF PhoneConnect, PhoneDisconnect
  <2>5. linked' \in BOOLEAN /\ waiting' \in BOOLEAN /\ rest' \in Seq(Byte)
    <3>1. linked \in BOOLEAN /\ waiting \in BOOLEAN /\ rest \in Seq(Byte)
      BY Zenon
    <3>2. <<>> \in Seq(Byte)
      OBVIOUS
    <3> QED
      BY <2>2, <3>1, <3>2, Zenon
  <2> QED
    BY <2>1, <2>2, <2>3, <2>4, <2>5
<1>7. ASSUME NEW text \in Texts, PhoneBegin(text) PROVE AssemblerTypes'
  <2>1. text \in Seq(Byte)
    BY TextsAssumption DEF IsObject
  <2> QED
    BY <1>7, <2>1, MaxRequestsAssumption DEF PhoneBegin
<1>8. ASSUME NEW size \in 1 .. PacketSize, PhoneWrite(size) PROVE AssemblerTypes'
  <2>1. packet' \in Seq(Byte) /\ rest' \in Seq(Byte)
    BY <1>8, SubSeqProperties, SizesAssumption DEF PhoneWrite
  <2> QED
    BY <1>8, <2>1 DEF PhoneWrite
<1>9. CASE UNCHANGED assemblerVars
  BY <1>9
<1> QED
  BY <1>1, <1>2, <1>3, <1>4, <1>5, <1>6, <1>7, <1>8, <1>9 DEF AssemblerNext

-----------------------------------------------------------------------------
(* When no request is cut short: where the bytes of the request are.       *)

\* What InHand and Handled are made of.
LEMMA HandledType ==
  ASSUME AssemblerTypes, InSequence
  PROVE  /\ InHand \in Seq(Byte) /\ Len(InHand) \in Nat /\ Len(rest) \in Nat
         /\ Handled \in 0 .. Len(request)
         /\ Handled + Len(InHand) + Len(rest) = Len(request)
<1>1. InHand \in Seq(Byte) /\ rest \in Seq(Byte)
  BY DEF AssemblerTypes, InHand
<1>2. request \in Seq(Byte)
  BY RequestIsObject
<1>3. Len(InHand) \in Nat /\ Len(rest) \in Nat /\ Len(request) \in Nat
  BY <1>1, <1>2
<1> QED
  BY <1>1, <1>3 DEF InSequence, Handled

\* The handler takes one byte of the packet, or drops what is left of it.
LEMMA TakeStep ==
  ASSUME AssemblerTypes, Writing, InSequence, todo # <<>>,
         todo' = Tail(todo) \/ todo' = <<>>, Answer,
         UNCHANGED <<attempt, event_map, packet, rest, request>>
  PROVE  /\ Writing' /\ InSequence'
         /\ Handled' \in Handled + 1 .. Len(request)
         /\ todo' = Tail(todo) => Handled' = Handled + 1
         /\ Head(todo) = request[Handled + 1]
         /\ Sending
<1>1. /\ todo \in Seq(Byte) /\ InHand = todo /\ "WRITE" \notin event_map
      /\ waiting /\ rest \in Seq(Byte)
  BY DEF AssemblerTypes, Writing, InHand
<1>2. /\ Len(todo) \in Nat \ {0} /\ Len(rest) \in Nat
      /\ Head(todo) = todo[1]
      /\ Tail(todo) \in Seq(Byte) /\ Len(Tail(todo)) = Len(todo) - 1
      /\ \A j \in 1 .. Len(todo) - 1 : Tail(todo)[j] = todo[j + 1]
  BY <1>1, HeadTailProperties, EmptySeq
<1>3. InHand' = todo'
  BY <1>1 DEF InHand
<1>4. /\ Handled \in 0 .. Len(request) /\ Handled + Len(todo) + Len(rest) = Len(request)
      /\ Len(request) \in Nat
  BY <1>1, HandledType, RequestIsObject
<1>5. /\ Handled' = Len(request) - Len(rest) - Len(todo')
      /\ Handled = Len(request) - Len(rest) - Len(todo)
  BY <1>1, <1>3 DEF Handled
<1>6. /\ \A j \in 1 .. Len(todo) : todo[j] = request[Handled + j]
      /\ \A j \in 1 .. Len(rest) : rest[j] = request[Handled + Len(todo) + j]
  BY <1>1 DEF InSequence
<1>7. Head(todo) = request[Handled + 1]
  BY <1>2, <1>6
<1>8. Writing'
  BY <1>1, <1>3 DEF Writing, Answer
<1>9. CASE todo' = Tail(todo)
  <2>1. Handled' = Handled + 1 /\ Len(todo') = Len(todo) - 1
    BY <1>2, <1>4, <1>5, <1>9
  <2>2. Handled' + Len(todo') = Handled + Len(todo)
    BY <1>2, <1>4, <2>1
  <2>3. \A j \in 1 .. Len(todo') : todo'[j] = request[Handled' + j]
    <3> TAKE j \in 1 .. Len(todo')
    <3>1. j \in 1 .. Len(todo) - 1 /\ j + 1 \in 1 .. Len(todo)
      BY <1>2, <2>1
    <3>2. todo'[j] = request[Handled + (j + 1)]
      BY <1>2, <1>6, <1>9, <3>1
    <3>3. Handled + (j + 1) = Handled' + j
      BY <1>4, <2>1, <3>1
    <3> QED
      BY <3>2, <3>3
  <2>4. InSequence'
    <3>1. \A j \in 1 .. Len(rest) : rest'[j] = request'[Handled' + Len(InHand') + j]
      BY <1>3, <1>6, <2>2
    <3>2. \A j \in 1 .. Len(InHand') : InHand'[j] = request'[Handled' + j]
      BY <1>3, <2>3
    <3>3. Handled' \in Nat
      BY <1>4, <2>1
    <3> QED
      BY <3>1, <3>2, <3>3 DEF InSequence
  <2> QED
    BY <1>1, <1>2, <1>4, <1>7, <1>8, <2>1, <2>4 DEF Sending
<1>10. CASE todo' = <<>> /\ todo' # Tail(todo)
  <2>1. Handled' = Handled + Len(todo) /\ Len(todo') = 0
    BY <1>2, <1>4, <1>5, <1>10
  <2>2. InSequence'
    BY <1>2, <1>3, <1>4, <1>6, <2>1 DEF InSequence
  <2> QED
    BY <1>1, <1>2, <1>4, <1>7, <1>8, <1>10, <2>1, <2>2 DEF Sending
<1> QED
  BY <1>9, <1>10

\* A step that touches neither the text nor what is left of the request.
LEMMA UnmovedStep ==
  ASSUME AssemblerTypes, AssemblerInv, Writing', InHand' = InHand,
         UNCHANGED <<attempt, depth, ble_buffer, rest, request, waiting, captured>>
  PROVE  AssemblerInv' /\ Handled' = Handled
<1>1. Handled' = Handled
  BY DEF Handled
<1>2. Sending' <=> Sending
  BY DEF Sending
<1>3. InSequence' /\ DepthIsBounded' /\ Following' /\ Recognised'
  BY <1>1, <1>2
  DEF AssemblerInv, InSequence, DepthIsBounded, Following, Recognised
<1>4. Inside'
  BY <1>1 DEF AssemblerInv, Inside, Begins, Stretch
<1> QED
  BY <1>1, <1>3, <1>4 DEF AssemblerInv

\* While nothing is sent, the request is dealt with and no brace is open.
LEMMA QuietFacts ==
  ASSUME AssemblerTypes, AssemblerInv, ~Sending
  PROVE  /\ InHand = <<>> /\ rest = <<>> /\ ~waiting /\ Handled = Len(request)
         /\ depth = 0 /\ ble_buffer = <<>>
<1>1. InHand = <<>> /\ rest = <<>> /\ ~waiting
  BY DEF Sending, AssemblerInv, Writing
<1>3. Handled = Len(request)
  BY <1>1, RequestIsObject DEF Handled
<1>4. Nesting(request, Len(request)) = 0
  BY RequestIsObject
<1>5. depth = 0
  BY <1>3, <1>4 DEF AssemblerInv, DepthIsBounded, AssemblerTypes
<1> QED
  BY <1>1, <1>3, <1>5 DEF AssemblerTypes

\* The byte that closes the outermost object, where the handler follows the request,
\* is its last one, and what is captured is the request.
LEMMA LastByte ==
  ASSUME AssemblerTypes, Following, Sending, ClosesOuter(Head(todo)),
         Handled \in Nat, Handled <= Capacity, Handled < Len(request),
         Head(todo) = request[Handled + 1]
  PROVE  Handled + 1 = Len(request) /\ captured' = request
<1>1. /\ request \in Seq(Byte) /\ Len(request) \in Nat
      /\ \A k \in 1 .. Len(request) - 1 : Nesting(request, k) > 0
  BY RequestIsObject
<1>2. /\ Len(ble_buffer) = Handled
      /\ \A j \in 1 .. Handled : ble_buffer[j] = request[j]
      /\ Nesting(request, Handled) = 1
  BY DEF Following, ClosesOuter
<1>3. Nesting(request, Handled + 1) = 0
  <2>1. /\ Handled + 1 \in 1 .. Len(request) /\ (Handled + 1) - 1 = Handled
        /\ request[Handled + 1] = "close"
    BY <1>1 DEF ClosesOuter
  <2>2. Nesting(request, Handled + 1) = Nesting(request, (Handled + 1) - 1) - 1
    BY <1>1, <2>1, NestingStep
  <2> QED
    BY <1>2, <2>1, <2>2
<1>4. Handled + 1 = Len(request)
  <2> SUFFICES ASSUME Handled + 1 # Len(request) PROVE FALSE
    OBVIOUS
  <2>1. Handled + 1 \in 1 .. Len(request) - 1
    BY <1>1
  <2>2. Nesting(request, Handled + 1) > 0
    BY <1>1, <2>1
  <2> QED
    BY <1>3, <2>2
<1>5. captured' = Append(ble_buffer, Head(todo))
  BY DEF ClosesOuter
<1>6. captured' = request
  <2>1. ble_buffer \in Seq(Byte) /\ Head(todo) \in Byte
    BY DEF AssemblerTypes, ClosesOuter, Byte
  <2>2. /\ captured' \in Seq(Byte) /\ Len(captured') = Len(request)
        /\ \A j \in 1 .. Len(ble_buffer) : captured'[j] = ble_buffer[j]
        /\ captured'[Len(ble_buffer) + 1] = Head(todo)
    BY <1>2, <1>4, <1>5, <2>1, AppendProperties
  <2>3. \A j \in 1 .. Len(request) : captured'[j] = request[j]
    BY <1>2, <1>4, <2>2
  <2> QED
    BY <1>1, <2>2, <2>3, SeqEqual
<1> QED
  BY <1>4, <1>6

\* How a byte changes the nesting of the request.
LEMMA NestingOfByte ==
  ASSUME AssemblerTypes, Handled \in Nat, Handled < Len(request)
  PROVE  /\ Nesting(request, Handled) \in Nat /\ Nesting(request, Handled + 1) \in Nat
         /\ request[Handled + 1] = "open" =>
              Nesting(request, Handled + 1) = Nesting(request, Handled) + 1
         /\ request[Handled + 1] = "close" =>
              Nesting(request, Handled + 1) = Nesting(request, Handled) - 1
         /\ request[Handled + 1] = "other" =>
              Nesting(request, Handled + 1) = Nesting(request, Handled)
         /\ Handled + 1 < Len(request) => Nesting(request, Handled + 1) > 0
         /\ Handled + 1 = Len(request) => Nesting(request, Handled + 1) = 0
<1>1. /\ request \in Seq(Byte) /\ Len(request) \in Nat
      /\ \A k \in 0 .. Len(request) : Nesting(request, k) \in Nat
      /\ \A k \in 1 .. Len(request) - 1 : Nesting(request, k) > 0
      /\ Nesting(request, Len(request)) = 0
  BY RequestIsObject
<1>2. Handled + 1 \in 1 .. Len(request) /\ Handled \in 0 .. Len(request)
  BY <1>1
<1>3. \A k \in 1 .. Len(request) :
        /\ request[k] = "open" => Nesting(request, k) = Nesting(request, k - 1) + 1
        /\ request[k] = "close" => Nesting(request, k) = Nesting(request, k - 1) - 1
        /\ request[k] = "other" => Nesting(request, k) = Nesting(request, k - 1)
  BY <1>1, NestingStep
<1>4. (Handled + 1) - 1 = Handled
  OBVIOUS
<1>5. /\ request[Handled + 1] = "open" =>
           Nesting(request, Handled + 1) = Nesting(request, Handled) + 1
      /\ request[Handled + 1] = "close" =>
           Nesting(request, Handled + 1) = Nesting(request, Handled) - 1
      /\ request[Handled + 1] = "other" =>
           Nesting(request, Handled + 1) = Nesting(request, Handled)
  BY <1>2, <1>3, <1>4
<1>6. Nesting(request, Handled) \in Nat /\ Nesting(request, Handled + 1) \in Nat
  BY <1>1, <1>2
<1>7. Handled + 1 < Len(request) => Nesting(request, Handled + 1) > 0
  BY <1>1, <1>2
<1>8. Handled + 1 = Len(request) => Nesting(request, Handled + 1) = 0
  BY <1>1
<1> QED
  BY <1>5, <1>6, <1>7, <1>8

\* A byte more, and what is collected is still the beginning of an object.
LEMMA BeginsByte ==
  ASSUME AssemblerTypes, Begins(ble_buffer, depth), NEW c \in Byte,
         Opens(c) \/ GoesOn(c) \/ Skips(c) \/ ClosesInner(c) \/ ClosesOuter(c)
  PROVE  Begins(ble_buffer, depth)'
<1>1. ble_buffer \in Seq(Byte) /\ Len(ble_buffer) \in Nat /\ depth \in Nat
  BY DEF AssemblerTypes
<1>2. CASE Skips(c) \/ ClosesOuter(c)
  <2>1. ble_buffer' = <<>> /\ depth' = 0 /\ Len(<<>>) = 0
    BY <1>2 DEF Skips, ClosesOuter
  <2> QED
    BY <2>1, NestingZero DEF Begins
<1>3. CASE Opens(c) \/ GoesOn(c) \/ ClosesInner(c)
  <2> DEFINE b == ble_buffer
  <2> DEFINE a == Append(ble_buffer, c)
  <2>1. /\ ble_buffer' = a /\ depth' > 0
        /\ c = "open" => depth' = depth + 1
        /\ c = "close" => depth' = depth - 1
        /\ c = "other" => depth' = depth
    BY <1>1, <1>3 DEF Opens, GoesOn, ClosesInner, Collects
  <2>2. /\ a \in Seq(Byte) /\ Len(a) = Len(b) + 1 /\ a[Len(b) + 1] = c
    BY <1>1, AppendProperties
  <2>3. \A k \in 0 .. Len(b) : Nesting(a, k) = Nesting(b, k)
    BY <1>1, NestingAppend
  <2>4. /\ Nesting(a, Len(b)) = depth
        /\ \A k \in 1 .. Len(b) : Nesting(a, k) > 0
    BY <1>1, <2>3 DEF Begins
  <2>5. Nesting(a, Len(b) + 1) = depth'
    <3>1. Len(b) + 1 \in 1 .. Len(a) /\ (Len(b) + 1) - 1 = Len(b)
      BY <1>1, <2>2
    <3>2. /\ c = "open" => Nesting(a, Len(b) + 1) = Nesting(a, Len(b)) + 1
          /\ c = "close" => Nesting(a, Len(b) + 1) = Nesting(a, Len(b)) - 1
          /\ c = "other" => Nesting(a, Len(b) + 1) = Nesting(a, Len(b))
      BY <2>2, <3>1, NestingStep
    <3> QED
      BY <2>1, <2>4, <3>2 DEF Byte
  <2>6. \A k \in 1 .. Len(b) + 1 : k \in 1 .. Len(b) \/ k = Len(b) + 1
    BY <1>1
  <2> QED
    BY <1>1, <2>1, <2>2, <2>4, <2>5, <2>6 DEF Begins
<1> QED
  BY <1>2, <1>3

\* It goes on being a stretch of the request, and begins anew only where the text does
\* or behind a byte there was no room for.
LEMMA StretchByte ==
  ASSUME AssemblerTypes, AssemblerInv, NEW c \in Byte, Sending,
         Handled < Len(request), c = request[Handled + 1],
         request' = request, Handled' = Handled + 1,
         Opens(c) \/ GoesOn(c) \/ Skips(c) \/ ClosesInner(c) \/ ClosesOuter(c)
  PROVE  \E i \in Nat : Stretch(i)'
<1>1. /\ ble_buffer \in Seq(Byte) /\ Len(ble_buffer) \in Nat /\ depth \in Nat
      /\ Handled \in Nat /\ Len(request) \in Nat
  BY RequestIsObject DEF AssemblerTypes, AssemblerInv, InSequence
<1>2. CASE Skips(c) \/ ClosesOuter(c)
  <2>1. ble_buffer' = <<>> /\ Len(<<>>) = 0
    BY <1>2 DEF Skips, ClosesOuter
  <2>2. PICK h \in Nat : h = Handled + 1
    BY <1>1
  <2>3. Stretch(h)'
    BY <2>1, <2>2 DEF Stretch
  <2> QED
    BY <2>3
<1>3. CASE Opens(c) \/ GoesOn(c) \/ ClosesInner(c)
  <2> DEFINE b == ble_buffer
  <2> DEFINE a == Append(ble_buffer, c)
  <2>1. ble_buffer' = a
    BY <1>3 DEF Opens, GoesOn, ClosesInner, Collects
  <2>2. /\ a \in Seq(Byte) /\ Len(a) = Len(b) + 1 /\ a[Len(b) + 1] = c
        /\ \A j \in 1 .. Len(b) : a[j] = b[j]
    BY <1>1, AppendProperties
  <2>3. PICK i \in Nat : Stretch(i)
    BY DEF AssemblerInv, Inside
  <2>4. /\ i + Len(b) = Handled /\ (b # <<>> => i = 0 \/ i > Capacity)
        /\ \A j \in 1 .. Len(b) : b[j] = request[i + j]
    BY <2>3 DEF Stretch
  <2>5. i = 0 \/ i > Capacity
    <3> SUFFICES ASSUME b = <<>> PROVE i = 0 \/ i > Capacity
      BY <2>4
    <3>1. Len(b) = 0
      OBVIOUS
    <3>2. Handled <= Capacity => Len(b) = Handled
      BY DEF AssemblerInv, Following
    <3> QED
      BY <1>1, <2>4, <3>1, <3>2, SizesAssumption
  <2>6. \A j \in 1 .. Len(b) + 1 : a[j] = request[i + j]
    <3> TAKE j \in 1 .. Len(b) + 1
    <3>1. j \in 1 .. Len(b) \/ (j = Len(b) + 1 /\ i + j = Handled + 1)
      BY <1>1, <2>4
    <3> QED
      BY <2>2, <2>4, <3>1
  <2>7. i + Len(a) = Handled + 1
    BY <1>1, <2>2, <2>3, <2>4
  <2>8. Stretch(i)'
    BY <2>1, <2>2, <2>5, <2>6, <2>7 DEF Stretch
  <2> QED
    BY <2>8
<1> QED
  BY <1>2, <1>3

\* A byte keeps the invariant.
LEMMA ByteInv ==
  ASSUME AssemblerTypes, AssemblerInv, HandleByte
  PROVE  AssemblerInv'
<1> USE DEF AssemblerInv
<1>1. UNCHANGED <<attempt, event_map, packet, rest, request>>
  BY DEF HandleByte
<1>2. /\ Writing' /\ InSequence'
      /\ Handled' = Handled + 1 /\ Handled + 1 <= Len(request)
      /\ Head(todo) = request[Handled + 1] /\ Sending
  <2>1. todo # <<>> /\ todo' = Tail(todo) /\ Answer
    BY DEF HandleByte
  <2>2. /\ Writing' /\ InSequence'
        /\ Handled' \in Handled + 1 .. Len(request)
        /\ todo' = Tail(todo) => Handled' = Handled + 1
        /\ Head(todo) = request[Handled + 1]
        /\ Sending
    BY <1>1, <2>1, TakeStep
  <2> QED
    BY <2>1, <2>2, RequestIsObject DEF InSequence
<1>3. PICK n \in Nat, m \in Nat, l \in Nat :
        n = Nesting(request, Handled) /\ m = Nesting(request, Handled + 1) /\ l = Handled
  BY <1>2, NestingOfByte, RequestIsObject DEF InSequence
<1>4. /\ request[l + 1] = "open" => m = n + 1
      /\ request[l + 1] = "close" => m = n - 1
      /\ request[l + 1] = "other" => m = n
      /\ l + 1 < Len(request) => m > 0
      /\ l + 1 = Len(request) => m = 0
      /\ Len(request) \in Nat /\ l + 1 <= Len(request) /\ Head(todo) = request[l + 1]
  BY <1>2, <1>3, NestingOfByte, RequestIsObject
<1>5. /\ Head(todo) \in Byte
      /\ \/ Opens(Head(todo)) \/ GoesOn(Head(todo)) \/ Skips(Head(todo))
         \/ ClosesInner(Head(todo)) \/ ClosesOuter(Head(todo))
  BY ByteCases
<1>6. /\ ble_buffer \in Seq(Byte) /\ Len(ble_buffer) \in Nat /\ depth \in Nat
      /\ depth <= n /\ depth <= Len(ble_buffer)
  BY <1>2, <1>3 DEF AssemblerTypes, DepthIsBounded
<1>7. /\ Append(ble_buffer, Head(todo)) \in Seq(Byte)
      /\ Len(Append(ble_buffer, Head(todo))) = Len(ble_buffer) + 1
      /\ \A j \in 1 .. Len(ble_buffer) : Append(ble_buffer, Head(todo))[j] = ble_buffer[j]
      /\ Append(ble_buffer, Head(todo))[Len(ble_buffer) + 1] = Head(todo)
  BY <1>5, <1>6, AppendProperties
<1>8. (l <= Capacity /\ l < Len(request)) =>
        Len(ble_buffer) = l /\ (\A j \in 1 .. l : ble_buffer[j] = request[j]) /\ depth = n
  BY <1>2, <1>3 DEF Following
<1>9. DepthIsBounded'
  <2>1. depth' <= Len(ble_buffer')
    BY <1>5, <1>6, <1>7 DEF Opens, GoesOn, Skips, ClosesInner, ClosesOuter, Collects
  <2>2. depth' <= m
    BY <1>4, <1>5, <1>6 DEF Opens, GoesOn, Skips, ClosesInner, ClosesOuter, Byte
  <2>3. m = Nesting(request, Handled)'
    BY <1>1, <1>2, <1>3
  <2> QED
    BY <1>1, <1>2, <2>1, <2>2, <2>3 DEF DepthIsBounded
<1>10. Inside'
  <2>1. Handled < Len(request)
    BY <1>3, <1>4
  <2>2. Begins(ble_buffer, depth)'
    BY <1>5, BeginsByte DEF Inside
  <2>3. \E i \in Nat : Stretch(i)'
    BY <1>1, <1>2, <1>5, <2>1, StretchByte
  <2> QED
    BY <2>2, <2>3 DEF Inside
<1>11. Following'
  <2> SUFFICES ASSUME l + 1 <= Capacity, l + 1 < Len(request)
               PROVE  /\ Len(ble_buffer') = l + 1
                      /\ \A j \in 1 .. l + 1 : ble_buffer'[j] = request[j]
                      /\ depth' = m
    BY <1>1, <1>2, <1>3 DEF Following
  <2>1. Len(ble_buffer) = l /\ (\A j \in 1 .. l : ble_buffer[j] = request[j]) /\ depth = n
    BY <1>8, SizesAssumption
  <2>2. m > 0
    BY <1>4
  <2>3. ~Skips(Head(todo)) /\ ~ClosesOuter(Head(todo))
    BY <1>4, <1>5, <2>1, <2>2 DEF Skips, ClosesOuter, Byte
  <2>4. ble_buffer' = Append(ble_buffer, Head(todo)) /\ depth' = m
    BY <1>4, <1>5, <2>1, <2>3 DEF Opens, GoesOn, ClosesInner, Collects
  <2>5. \A j \in 1 .. l + 1 : j \in 1 .. l \/ j = l + 1
    OBVIOUS
  <2> QED
    BY <1>4, <1>7, <2>1, <2>4, <2>5
<1>12. Recognised'
  <2> SUFFICES ASSUME l + 1 = Len(request), Len(request) <= Capacity
               PROVE  captured' = request
    BY <1>1, <1>2, <1>3 DEF Recognised
  <2>1. m = 0 /\ depth = n
    BY <1>4, <1>8, SizesAssumption
  <2>2. n > 0
    <3>1. Len(request) > 1 /\ l \in 1 .. Len(request) - 1
      BY <1>4, RequestIsObject
    <3>2. Nesting(request, l) > 0
      BY <3>1, RequestIsObject
    <3> QED
      BY <1>3, <3>2
  <2>3. ClosesOuter(Head(todo))
    BY <1>4, <1>5, <2>1, <2>2 DEF Opens, GoesOn, Skips, ClosesInner, Byte
  <2>4. Handled \in Nat /\ Handled <= Capacity /\ Handled < Len(request)
    BY <1>3, <1>4, SizesAssumption
  <2> QED
    BY <1>2, <2>3, <2>4, LastByte
<1> QED
  BY <1>1, <1>2, <1>9, <1>10, <1>11, <1>12

\* A text that is given up keeps the invariant: it is too long for the buffer.
LEMMA GiveUpInv ==
  ASSUME AssemblerTypes, AssemblerInv, GiveUp
  PROVE  AssemblerInv'
<1> USE DEF AssemblerInv
<1>1. UNCHANGED <<attempt, event_map, packet, rest, request, captured>>
  BY DEF GiveUp
<1>2. todo # <<>> /\ todo' = <<>> /\ Answer /\ depth' = 0 /\ ble_buffer' = <<>>
  BY DEF GiveUp
<1>3. /\ Writing' /\ InSequence'
      /\ Handled' \in Handled + 1 .. Len(request)
      /\ Sending
  BY <1>1, <1>2, TakeStep
<1>4. Len(ble_buffer) = Capacity
  BY GiveUpFacts
<1>5. Handled \in Nat /\ Len(request) \in Nat /\ Capacity \in Nat
  BY RequestIsObject, SizesAssumption DEF InSequence
<1>6. Handled >= Capacity \/ Handled = Len(request)
  BY <1>3, <1>4, <1>5 DEF Following
<1>7. Handled' > Capacity
  BY <1>3, <1>5, <1>6
<1>8. DepthIsBounded'
  <2>1. Handled' \in 0 .. Len(request)
    BY <1>3, <1>5
  <2>2. Nesting(request, Handled)' \in Nat
    BY <1>1, <2>1, RequestIsObject
  <2>3. Len(ble_buffer') = 0
    BY <1>2
  <2> QED
    BY <1>2, <2>2, <2>3 DEF DepthIsBounded
<1>9. Inside'
  <2>1. Len(<<>>) = 0 /\ Handled' \in Nat
    BY <1>3, <1>5
  <2>2. Begins(ble_buffer, depth)'
    BY <1>2, <2>1, NestingZero DEF Begins
  <2>3. ASSUME NEW h \in Nat, Handled' = h
        PROVE  Stretch(h)'
    <3>1. Len(ble_buffer') = 0 /\ ble_buffer' = <<>>
      BY <1>2, <2>1
    <3>2. h + 0 = h
      OBVIOUS
    <3>3. h + Len(ble_buffer') = Handled'
      BY <2>3, <3>1, <3>2, Zenon
    <3>4. \A j \in 1 .. Len(ble_buffer') : ble_buffer'[j] = request'[h + j]
      BY <3>1
    <3> QED
      BY <3>1, <3>3, <3>4 DEF Stretch
  <2> QED
    BY <2>1, <2>2, <2>3 DEF Inside
<1>10. Following' /\ Recognised'
  BY <1>1, <1>3, <1>5, <1>7 DEF Following, Recognised
<1> QED
  BY <1>1, <1>3, <1>8, <1>9, <1>10

\* The other steps of the device keep the invariant, as long as the attempt lasts and no
\* packet of an earlier request is handled.
LEMMA DeviceInv ==
  ASSUME AssemblerTypes, AssemblerInv, todo = <<>>, whole', ~stuck',
         HandleConnection \/ HandleWrite \/ AttemptBegins \/ AttemptEnds
  PROVE  AssemblerInv'
<1>1. CASE HandleConnection
  <2>1. "WRITE" \in event_map' <=> "WRITE" \in event_map
    BY <1>1 DEF HandleConnection
  <2>2. InHand' = InHand
    BY <1>1, <2>1 DEF HandleConnection, InHand
  <2>3. Writing'
    BY <1>1, <2>1, <2>2 DEF HandleConnection, AssemblerInv, Writing
  <2> QED
    BY <1>1, <2>2, <2>3, UnmovedStep DEF HandleConnection
<1>2. CASE HandleWrite
  <2>1. /\ event_map = {"WRITE"} /\ event_map' = {} /\ todo' = packet
        /\ waiting /\ waiting' = waiting
    BY <1>2 DEF HandleWrite, AssemblerTypes, AssemblerInv
  <2>2. InHand' = InHand /\ InHand = packet /\ packet # <<>>
    BY <2>1 DEF InHand, AssemblerInv, Writing
  <2>3. Writing'
    BY <1>2, <2>1, <2>2 DEF HandleWrite, AssemblerInv, Writing
  <2> QED
    BY <1>2, <2>1, <2>2, <2>3, UnmovedStep DEF HandleWrite
<1>3. CASE AttemptBegins \/ AttemptEnds
  BY <1>3 DEF AttemptBegins, AttemptEnds, AssemblerInv
<1> QED
  BY <1>1, <1>2, <1>3

\* A packet is the next part of what is to be written.
LEMMA PhoneWriteFacts ==
  ASSUME AssemblerTypes, AssemblerInv, todo = <<>>,
         NEW size \in 1 .. PacketSize, PhoneWrite(size)
  PROVE  /\ waiting' /\ size \in Nat \ {0} /\ size <= Len(rest) /\ rest # <<>>
         /\ UNCHANGED <<attempt, depth, ble_buffer, todo, request, captured>>
         /\ Len(rest) \in Nat /\ Len(rest') = Len(rest) - size
         /\ packet' # <<>> /\ \A j \in 1 .. size : packet'[j] = rest[j]
         /\ \A j \in 1 .. Len(rest) - size : rest'[j] = rest[size + j]
         /\ InHand' = packet' /\ Len(InHand') = size
         /\ Handled \in Nat /\ Handled + Len(rest) = Len(request) /\ Len(request) \in Nat
         /\ \A j \in 1 .. Len(rest) : rest[j] = request[Handled + j]
         /\ Handled' = Handled
<1>1. /\ rest # <<>> /\ ~waiting /\ size \in Nat \ {0} /\ size <= Len(rest)
      /\ packet' = SubSeq(rest, 1, size) /\ rest' = SubSeq(rest, size + 1, Len(rest))
      /\ waiting' /\ "WRITE" \in event_map'
      /\ UNCHANGED <<attempt, depth, ble_buffer, todo, request, captured>>
  BY SizesAssumption DEF PhoneWrite
<1>2. InHand = <<>> /\ rest \in Seq(Byte)
  BY <1>1 DEF AssemblerInv, Writing, InHand, AssemblerTypes
<1>3. /\ Len(rest) \in Nat
      /\ packet' \in Seq(Byte) /\ Len(packet') = size
      /\ \A j \in 1 .. size : packet'[j] = rest[j]
      /\ Len(rest') = Len(rest) - size
      /\ \A j \in 1 .. Len(rest) - size : rest'[j] = rest[size + j]
  <2>1. /\ Len(rest) \in Nat /\ 1 \in 1 .. Len(rest) + 1 /\ size \in 0 .. Len(rest)
    BY <1>1, <1>2
  <2>2. /\ packet' \in Seq(Byte) /\ Len(packet') = size
        /\ \A j \in 1 .. size : packet'[j] = rest[j]
    BY <1>1, <1>2, <2>1, SubSeqProperties
  <2>3. /\ Len(rest') = Len(rest) - size
        /\ \A j \in 1 .. Len(rest) - size : rest'[j] = rest[size + j]
    BY <1>1, <1>2, <2>1, SubSeqProperties
  <2> QED
    BY <2>1, <2>2, <2>3
<1>4. packet' # <<>>
  BY <1>1, <1>3
<1>5. InHand' = packet' /\ Len(InHand) = 0 /\ Len(InHand') = size
  BY <1>1, <1>2, <1>3 DEF InHand
<1>6. /\ Handled \in Nat /\ Handled + Len(rest) = Len(request) /\ Len(request) \in Nat
      /\ \A j \in 1 .. Len(rest) : rest[j] = request[Handled + j]
  <2>1. \A j \in 1 .. Len(rest) : rest[j] = request[Handled + Len(InHand) + j]
    BY DEF AssemblerInv, InSequence
  <2>2. /\ Handled \in 0 .. Len(request) /\ Len(request) \in Nat
        /\ Handled + Len(InHand) + Len(rest) = Len(request)
    BY HandledType, RequestIsObject DEF AssemblerInv
  <2> QED
    BY <1>3, <1>5, <2>1, <2>2
<1>7. Handled' = Handled
  <2>1. Handled' = Len(request) - Len(rest') - Len(InHand')
    BY <1>1 DEF Handled
  <2>2. Handled' = Len(request) - (Len(rest) - size) - size
    BY <1>3, <1>5, <2>1
  <2>3. \A h, a, b, c \in Nat : h + b = a => a - (b - c) - c = h
    OBVIOUS
  <2>4. /\ Handled \in Nat /\ Len(request) \in Nat /\ Len(rest) \in Nat /\ size \in Nat
        /\ Handled + Len(rest) = Len(request)
    BY <1>1, <1>3, <1>6
  <2>5. Len(request) - (Len(rest) - size) - size = Handled
    BY <2>3, <2>4
  <2> QED
    BY <2>2, <2>5, Zenon
<1> QED
  BY <1>1, <1>3, <1>4, <1>5, <1>6, <1>7

\* A request that begins with the count at zero establishes the invariant.
LEMMA BeginInv ==
  ASSUME AssemblerTypes, todo = <<>>, NEW text \in Texts, PhoneBegin(text),
         whole', ~stuck'
  PROVE  AssemblerInv'
<1>1. /\ ~waiting /\ todo = <<>> /\ depth = 0 /\ ble_buffer = <<>> /\ attempt
  BY DEF PhoneBegin, Sending, AssemblerTypes
<1>2. /\ request' = text /\ rest' = text
      /\ UNCHANGED <<attempt, depth, ble_buffer, event_map, todo, waiting>>
  BY DEF PhoneBegin
<1>3. text \in Seq(Byte) /\ Len(text) > 1 /\ Len(text) \in Nat
  BY TextsAssumption DEF IsObject
<1>4. InHand' = <<>>
  BY <1>1, <1>2 DEF InHand
<1>5. Handled' = 0 /\ Len(InHand') = 0
  <2>1. Len(InHand') = 0
    BY <1>4
  <2>2. Handled' = Len(text) - Len(text) - Len(InHand')
    BY <1>2 DEF Handled
  <2> QED
    BY <1>3, <2>1, <2>2
<1>6. Writing' /\ InSequence'
  BY <1>1, <1>2, <1>4, <1>5 DEF Writing, InSequence
<1>7. Nesting(text, 0) = 0 /\ Len(ble_buffer') = 0 /\ Len(<<>>) = 0
  BY <1>1, <1>2, NestingZero
<1>8. DepthIsBounded' /\ Following'
  BY <1>1, <1>2, <1>5, <1>7 DEF DepthIsBounded, Following
<1>9. Inside'
  <2>1. Begins(ble_buffer, depth)'
    BY <1>1, <1>2, <1>7, NestingZero DEF Begins
  <2>2. Stretch(0)'
    BY <1>1, <1>2, <1>5, <1>7 DEF Stretch
  <2> QED
    BY <2>1, <2>2 DEF Inside
<1>10. Recognised'
  BY <1>2, <1>3, <1>5 DEF Recognised
<1> QED
  BY <1>1, <1>2, <1>6, <1>8, <1>9, <1>10 DEF AssemblerInv

\* The rest of what the phone does keeps it, as long as it does not cut its request short.
LEMMA PhoneInv ==
  ASSUME AssemblerTypes, AssemblerInv, todo = <<>>, whole',
         \/ PhoneConnect \/ PhoneDisconnect
         \/ \E size \in 1 .. PacketSize : PhoneWrite(size)
  PROVE  AssemblerInv'
<1>1. CASE PhoneConnect \/ PhoneDisconnect
  <2>1. /\ "WRITE" \in event_map' <=> "WRITE" \in event_map
        /\ UNCHANGED <<todo, packet>>
    BY <1>1 DEF PhoneConnect, PhoneDisconnect
  <2>3. UNCHANGED <<attempt, depth, ble_buffer, request, captured>>
    BY <1>1 DEF PhoneConnect, PhoneDisconnect
  <2>4. rest' = rest /\ waiting' = waiting
    <3>1. CASE PhoneConnect
      BY <3>1 DEF PhoneConnect
    <3>2. CASE PhoneDisconnect
      <4>1. ~Sending /\ rest' = <<>> /\ waiting' = FALSE
        BY <3>2 DEF PhoneDisconnect
      <4>2. rest = <<>> /\ waiting = FALSE
        BY <4>1 DEF Sending, AssemblerTypes
      <4> QED
        BY <4>1, <4>2 DEF AssemblerTypes
    <3> QED
      BY <1>1, <3>1, <3>2
  <2>2. InHand' = InHand
    BY <2>1, <2>4 DEF InHand
  <2>5. Writing'
    BY <2>1, <2>2, <2>3, <2>4 DEF AssemblerInv, Writing
  <2> QED
    BY <2>2, <2>3, <2>4, <2>5, UnmovedStep
<1>3. ASSUME NEW size \in 1 .. PacketSize, PhoneWrite(size) PROVE AssemblerInv'
  <2>1. /\ waiting' /\ size \in Nat \ {0} /\ packet' # <<>>
        /\ UNCHANGED <<attempt, depth, ble_buffer, todo, request, captured>>
        /\ rest # <<>>
    BY <1>3, PhoneWriteFacts
  <2>2. /\ Len(rest) \in Nat /\ Len(rest') = Len(rest) - size
        /\ \A j \in 1 .. size : packet'[j] = rest[j]
        /\ \A j \in 1 .. Len(rest) - size : rest'[j] = rest[size + j]
    BY <1>3, PhoneWriteFacts
  <2>3. InHand' = packet' /\ Len(InHand') = size
    BY <1>3, PhoneWriteFacts
  <2>4. /\ Handled \in Nat /\ Handled + Len(rest) = Len(request) /\ Len(request) \in Nat
        /\ \A j \in 1 .. Len(rest) : rest[j] = request[Handled + j]
        /\ size <= Len(rest)
    BY <1>3, PhoneWriteFacts
  <2>5. Handled' = Handled
    BY <1>3, PhoneWriteFacts
  <2>6. InSequence'
    <3>1. \A j \in 1 .. size : InHand'[j] = request[Handled + j]
      BY <2>1, <2>2, <2>3, <2>4
    <3>2. \A j \in 1 .. Len(rest') : rest'[j] = request[Handled + size + j]
      <4> TAKE j \in 1 .. Len(rest')
      <4>1. j \in 1 .. Len(rest) - size /\ size + j \in 1 .. Len(rest)
        BY <2>1, <2>2, <2>4
      <4>2. rest'[j] = request[Handled + (size + j)]
        BY <2>2, <2>4, <4>1
      <4>3. Handled + (size + j) = Handled + size + j
        BY <2>1, <2>4, <4>1
      <4> QED
        BY <4>2, <4>3
    <3> QED
      BY <2>1, <2>3, <2>4, <2>5, <3>1, <3>2 DEF InSequence
  <2>7. Writing'
    BY <2>1, <2>3 DEF Writing
  <2>8. Sending /\ Sending'
    BY <2>1 DEF Sending
  <2>9. DepthIsBounded' /\ Following' /\ Recognised'
    BY <2>1, <2>5, <2>8 DEF AssemblerInv, DepthIsBounded, Following, Recognised
  <2>10. Inside'
    BY <2>1, <2>5 DEF AssemblerInv, Inside, Begins, Stretch
  <2> QED
    BY <2>1, <2>6, <2>7, <2>9, <2>10 DEF AssemblerInv
<1> QED
  BY <1>1, <1>3

\* What is sent in one piece makes its own beginning: only a request that begins does
\* so behind another that was cut short.
LEMMA GoodStaysGood ==
  ASSUME AssemblerTypes, [AssemblerNext]_assemblerVars, whole', ~stuck',
         ~ \E text \in Texts : PhoneBegin(text)
  PROVE  whole /\ ~stuck
<1>1. CASE HandleByte \/ GiveUp \/ HandleConnection \/ PhoneConnect \/ AttemptBegins
           \/ UNCHANGED assemblerVars
  BY <1>1
  DEF HandleByte, GiveUp, HandleConnection, PhoneConnect, AttemptBegins, AssemblerTypes
<1>2. CASE HandleWrite
  BY <1>2 DEF HandleWrite
<1>3. CASE AttemptEnds \/ PhoneDisconnect
  BY <1>3 DEF AttemptEnds, PhoneDisconnect, AssemblerTypes
<1>4. ASSUME NEW size \in 1 .. PacketSize, PhoneWrite(size) PROVE whole /\ ~stuck
  BY <1>4 DEF PhoneWrite
<1> QED
  BY <1>1, <1>2, <1>3, <1>4 DEF AssemblerNext

AssemblerIInv == AssemblerTypes /\ (whole /\ ~stuck => AssemblerInv)

\* The invariant is inductive.
LEMMA AssemblerInvStep ==
  ASSUME AssemblerIInv, [AssemblerNext]_assemblerVars
  PROVE  AssemblerIInv'
<1>1. AssemblerTypes'
  BY AssemblerTypesStep DEF AssemblerIInv
<1> SUFFICES ASSUME whole', ~stuck' PROVE AssemblerInv'
  BY <1>1 DEF AssemblerIInv
<1>2. ASSUME NEW text \in Texts, PhoneBegin(text), todo = <<>> PROVE AssemblerInv'
  BY <1>2, BeginInv DEF AssemblerIInv
<1>3. CASE ~ \E text \in Texts : PhoneBegin(text)
  <2>1. AssemblerTypes /\ AssemblerInv
    BY <1>3, GoodStaysGood DEF AssemblerIInv
  <2>2. CASE AssemblerNext
    BY <1>3, <2>1, <2>2, ByteInv, GiveUpInv, DeviceInv, PhoneInv DEF AssemblerNext
  <2>3. CASE UNCHANGED assemblerVars
    <3>1. InHand' = InHand
      BY <2>3 DEF InHand
    <3>2. Writing'
      BY <2>1, <2>3, <3>1 DEF AssemblerInv, Writing
    <3> QED
      BY <2>1, <2>3, <3>1, <3>2, UnmovedStep
  <2> QED
    BY <2>2, <2>3
<1>4. CASE UNCHANGED assemblerVars /\ \E text \in Texts : PhoneBegin(text)
  <2>1. PICK text \in Texts : PhoneBegin(text)
    BY <1>4
  <2>2. begun' = begun + 1 /\ begun' = begun /\ begun \in Nat
    BY <1>4, <2>1, MaxRequestsAssumption DEF PhoneBegin, AssemblerIInv, AssemblerTypes
  <2> QED
    BY <2>2
<1>5. CASE AssemblerNext /\ \E text \in Texts : PhoneBegin(text)
  <2>1. PICK text \in Texts : PhoneBegin(text)
    BY <1>5
  <2>2. todo = <<>>
    <3> SUFFICES ASSUME HandleByte \/ GiveUp PROVE FALSE
      BY <1>5 DEF AssemblerNext
    <3>1. begun' = begun
      BY DEF HandleByte, GiveUp
    <3>2. begun' = begun + 1 /\ begun \in Nat
      BY <2>1, MaxRequestsAssumption DEF PhoneBegin, AssemblerIInv, AssemblerTypes
    <3> QED
      BY <3>1, <3>2
  <2> QED
    BY <1>2, <2>1, <2>2
<1> QED
  BY <1>3, <1>4, <1>5

\* The initial state satisfies it.
LEMMA AssemblerInitial == AssemblerInit => AssemblerIInv
<1> SUFFICES ASSUME AssemblerInit PROVE AssemblerTypes
  BY DEF AssemblerInit, AssemblerIInv
<1>1. Len(<<>>) = 0 /\ <<>> \in Seq(Byte)
  OBVIOUS
<1>2. /\ attempt \in BOOLEAN /\ full \in BOOLEAN /\ linked \in BOOLEAN
      /\ waiting \in BOOLEAN /\ whole \in BOOLEAN /\ stuck \in BOOLEAN
  BY DEF AssemblerInit
<1>3. /\ ble_buffer = <<>> /\ packet = <<>> /\ todo = <<>> /\ rest = <<>>
      /\ request = <<>> /\ captured = <<>> /\ event_map = {} /\ depth = 0 /\ begun = 0
  BY DEF AssemblerInit
<1>4. begun \in 0 .. MaxRequests /\ Len(ble_buffer) <= Capacity
  BY <1>1, <1>3, SizesAssumption, MaxRequestsAssumption
<1> QED
  BY <1>1, <1>2, <1>3, <1>4 DEF AssemblerTypes

\* The invariant holds in every behaviour.
LEMMA AssemblerInvariance == AssemblerSpec => []AssemblerIInv
<1> QED
  BY AssemblerInitial, AssemblerInvStep, PTL DEF AssemblerSpec

\* Every variable has its type, for every size of buffer and packet, for every set
\* of texts, and whatever is cut short: what is collected fits into the buffer
\* (bluetooth.c:555).
THEOREM AssemblerTypeCorrect == AssemblerSpec => []AssemblerTypeOK
<1>1. AssemblerIInv => AssemblerTypeOK
  BY DEF AssemblerIInv, AssemblerTypes, AssemblerInv, DepthIsBounded, AssemblerTypeOK
<1> QED
  BY AssemblerInvariance, <1>1, PTL

\* A request that was sent from end to end during one attempt is recognised if it fits,
\* and leaves the count at zero, however it is cut into packets and whatever was sent
\* before it, provided that none that was cut short has left open braces or a packet
\* behind (bluetooth.c:544): for every size of buffer and packet, every set of texts
\* and any number of requests.
THEOREM RequestsAreRecognised == AssemblerSpec => []RequestIsRecognised
<1>1. AssemblerIInv => RequestIsRecognised
  <2> SUFFICES ASSUME AssemblerIInv, whole, ~stuck, ~Sending
               PROVE  depth = 0 /\ (Len(request) <= Capacity => captured = request)
    BY DEF RequestIsRecognised
  <2>1. Handled = Len(request) /\ depth = 0
    BY QuietFacts DEF AssemblerIInv
  <2> QED
    BY <2>1 DEF AssemblerIInv, AssemblerInv, Recognised
<1> QED
  BY AssemblerInvariance, <1>1, PTL

-----------------------------------------------------------------------------
(* What is captured.                                                       *)

\* With the byte that closes it, what is collected is an object.
LEMMA ClosedIsObject ==
  ASSUME AssemblerTypes, Begins(ble_buffer, depth), NEW c, ClosesOuter(c)
  PROVE  IsObject(captured') /\ ble_buffer # <<>>
<1> DEFINE b == ble_buffer
<1> DEFINE a == Append(ble_buffer, c)
<1>1. c \in Byte /\ c = "close" /\ captured' = a /\ depth = 1
  BY DEF ClosesOuter, Byte
<1>2. b \in Seq(Byte) /\ Len(b) \in Nat /\ Nesting(b, Len(b)) = 1
  BY <1>1 DEF AssemblerTypes, Begins
<1>3. /\ a \in Seq(Byte) /\ Len(a) = Len(b) + 1 /\ a[Len(b) + 1] = c
  BY <1>1, <1>2, AppendProperties
<1>4. Len(b) # 0
  BY <1>2, NestingZero
<1>5. \A k \in 0 .. Len(b) : Nesting(a, k) = Nesting(b, k)
  BY <1>1, <1>2, NestingAppend
<1>6. \A k \in 1 .. Len(a) - 1 : Nesting(a, k) > 0
  BY <1>2, <1>3, <1>5 DEF Begins
<1>7. Nesting(a, Len(a)) = 0
  <2>1. Len(b) + 1 \in 1 .. Len(a) /\ (Len(b) + 1) - 1 = Len(b)
    BY <1>2, <1>3
  <2>2. Nesting(a, Len(b) + 1) = Nesting(a, Len(b)) - 1
    BY <1>1, <1>3, <2>1, NestingStep
  <2> QED
    BY <1>2, <1>3, <1>5, <2>2
<1> QED
  BY <1>1, <1>2, <1>3, <1>4, <1>6, <1>7 DEF IsObject

\* What is taken for a complete object is the request, however it is cut into packets
\* and whatever was sent before it, or an object in the rest of one that is too long
\* (bluetooth.c:570), provided that none that was cut short has left open braces or a
\* packet behind: for every size of buffer and packet and every set of texts.
THEOREM CapturesAreRequests == AssemblerSpec => CapturedIsRequest
<1>1. ASSUME AssemblerIInv, [AssemblerNext]_assemblerVars,
             captured' # captured, whole, ~stuck
      PROVE  captured' = request \/ InTail(captured', request)
  <2>1. AssemblerTypes /\ AssemblerInv
    BY <1>1 DEF AssemblerIInv
  <2>2. HandleByte
    BY <1>1 DEF AssemblerNext, GiveUp, HandleConnection, HandleWrite, AttemptBegins,
                AttemptEnds, PhoneConnect, PhoneDisconnect, PhoneBegin, PhoneWrite
  <2>3. ClosesOuter(Head(todo))
    BY <1>1, <2>1, <2>2, ByteCases DEF Opens, GoesOn, Skips, ClosesInner
  <2>4. /\ UNCHANGED <<attempt, event_map, packet, rest, request>>
        /\ todo # <<>> /\ todo' = Tail(todo) /\ Answer
    BY <2>2 DEF HandleByte
  <2>5. /\ Handled < Len(request) /\ Handled \in Nat /\ Len(request) \in Nat
        /\ Head(todo) = request[Handled + 1] /\ Sending
    <3>1. /\ Handled' \in Handled + 1 .. Len(request)
          /\ Head(todo) = request[Handled + 1] /\ Sending
      BY <2>1, <2>4, TakeStep DEF AssemblerInv
    <3> QED
      BY <2>1, <3>1, RequestIsObject DEF AssemblerInv, InSequence
  <2>6. IsObject(captured') /\ ble_buffer # <<>>
    BY <2>1, <2>3, ClosedIsObject DEF AssemblerInv, Inside
  <2>7. PICK i \in Nat : Stretch(i)
    BY <2>1 DEF AssemblerInv, Inside
  <2>8. /\ Len(ble_buffer) < Capacity /\ captured' = Append(ble_buffer, Head(todo))
        /\ ble_buffer \in Seq(Byte) /\ Head(todo) \in Byte /\ Len(ble_buffer) \in Nat
    BY <2>1, <2>3 DEF ClosesOuter, AssemblerTypes, Byte
  <2>9. CASE i = 0
    <3>1. Handled <= Capacity
      BY <2>5, <2>7, <2>8, <2>9, SizesAssumption DEF Stretch
    <3> QED
      BY <2>1, <2>3, <2>5, <3>1, LastByte DEF AssemblerInv
  <2>10. CASE i > Capacity
    <3>1. /\ i + Len(ble_buffer) = Handled
          /\ \A j \in 1 .. Len(ble_buffer) : ble_buffer[j] = request[i + j]
      BY <2>7 DEF Stretch
    <3>2. i + 1 \in Capacity + 2 .. Len(request) /\ Handled + 1 \in Capacity + 2 .. Len(request)
      BY <2>5, <2>8, <2>10, <3>1, SizesAssumption
    <3>3. /\ captured' \in Seq(Byte) /\ Len(captured') = Len(ble_buffer) + 1
          /\ \A j \in 1 .. Len(ble_buffer) : captured'[j] = ble_buffer[j]
          /\ captured'[Len(ble_buffer) + 1] = Head(todo)
      BY <2>8, AppendProperties
    <3>4. /\ SubSeq(request, i + 1, Handled + 1) \in Seq(Byte)
          /\ Len(SubSeq(request, i + 1, Handled + 1)) = Len(ble_buffer) + 1
          /\ \A j \in 1 .. Len(ble_buffer) + 1 :
                SubSeq(request, i + 1, Handled + 1)[j] = request[i + j]
      <4>1. /\ request \in Seq(Byte) /\ i + 1 \in 1 .. Len(request) + 1
            /\ Handled + 1 \in i .. Len(request) /\ (Handled + 1) - (i + 1) + 1 = Len(ble_buffer) + 1
        BY <2>1, <2>5, <2>8, <3>1, RequestIsObject
      <4>2. \A j \in 1 .. Len(ble_buffer) + 1 : (i + 1) + j - 1 = i + j
        BY <2>8
      <4> QED
        BY <2>8, <4>1, <4>2, SubSeqProperties
    <3>5. \A j \in 1 .. Len(ble_buffer) + 1 : captured'[j] = request[i + j]
      <4> TAKE j \in 1 .. Len(ble_buffer) + 1
      <4>1. j \in 1 .. Len(ble_buffer) \/ (j = Len(ble_buffer) + 1 /\ i + j = Handled + 1)
        BY <2>8, <3>1
      <4> QED
        BY <2>5, <3>1, <3>3, <4>1
    <3>6. captured' = SubSeq(request, i + 1, Handled + 1)
      BY <3>3, <3>4, <3>5, SeqEqual
    <3> QED
      BY <2>6, <3>2, <3>6 DEF InTail
  <2> QED
    BY <2>6, <2>7, <2>9, <2>10 DEF Stretch
<1>2. AssemblerIInv /\ [AssemblerNext]_assemblerVars
        => [captured' # captured /\ whole /\ ~stuck =>
              captured' = request \/ InTail(captured', request)]_assemblerVars
  BY <1>1
<1> QED
  BY AssemblerInvariance, <1>2, PTL DEF AssemblerSpec, CapturedIsRequest

HIDE DEF assemblerVars, context, peer

-----------------------------------------------------------------------------
(* BleResponse.                                                            *)

\* The types of the event map, of the two threads and of the radio.
ThreadTypes ==
  /\ events \subseteq Event /\ loaded \subseteq Event
  /\ token \in BOOLEAN /\ valid \in BOOLEAN
  /\ bpc \in {"look", "wait", "found", "chosen", "clear", "act", "advertise", "open", "send"}
  /\ window \in BOOLEAN
  /\ event \in Event \cup {"none"}
  /\ apc \in {"idle", "keep", "answer", "send"}
  /\ link \in {"down", "advertising", "up"}

\* The types of the texts and of what becomes of them.
TextTypes ==
  /\ pending \in Response \cup {Nothing, Empty}
  /\ payload \in Response \cup {Nothing, Empty} /\ queued \in BOOLEAN
  /\ owed \in Response \cup {Nothing}
  /\ ok \in [Callers -> BOOLEAN] /\ asked \in BOOLEAN

\* The types of the histories.
HistoryTypes ==
  /\ missed \subseteq Event /\ stale \subseteq Callers
  /\ failed \in BOOLEAN /\ early \in BOOLEAN /\ clash \in BOOLEAN

\* What is counted, and the order of the responses: none is pending or was read
\* before it was handed over, and only the last is owed.
Counts ==
  /\ handed \in 0 .. MaxResponses
  /\ told \in 0 .. handed /\ since \in 0 .. handed
  /\ reads \in 0 .. MaxReads /\ links \in 0 .. MaxLinks
  /\ pending \in Response => pending <= handed
  /\ owed # Nothing => owed = handed

\* The thread has an event in hand but between two of them, and sends what is pending
\* only for a read request.
ThreadPlaces ==
  /\ (event = "none") <=> (bpc \in {"look", "wait", "advertise"})
  /\ window <=> bpc \in {"open", "send"}
  /\ bpc \in {"chosen", "open", "send"} => event = "read"
  /\ queued => event = "read" /\ bpc # "found"
  /\ apc # "idle" => handed # 0

\* Until the thread has dealt with a disconnection the radio is down.
Gone ==
  /\ loaded \subseteq events
  /\ "disconn" \in events \/ event = "disconn" \/ bpc = "advertise" => link = "down"
  /\ bpc = "advertise" \/ (event = "disconn" /\ bpc = "act") => "disconn" \notin events
  /\ event = "disconn" /\ bpc = "clear" => "disconn" \notin loaded

\* Nothing is owed to a phone that is not there, nothing kept for one whose connection
\* is not dealt with.  Unless two answers clash, the thread sends what is pending, and
\* what was taken is not owed any more.
Owing ==
  /\ link # "up" => owed = Nothing
  /\ Unseen /\ owed # Nothing => early
  /\ queued /\ apc = "send" => clash
  /\ queued /\ ~clash => pending = payload
  /\ apc = "send" /\ ok["app"] => owed = Nothing
  /\ bpc = "send" /\ queued /\ ok["ble"] /\ ~clash /\ ~early /\ apc = "idle" => owed = Nothing

IInv ==
  /\ ThreadTypes /\ TextTypes /\ HistoryTypes /\ Counts
  /\ ThreadPlaces /\ Gone /\ Owing /\ NoResponseLost

USE DEF vars, buffer, answer, radio, history, bounds

\* The initial state satisfies the inductive invariant.
LEMMA InitIInv == Init => IInv
<1> SUFFICES ASSUME Init PROVE IInv
  OBVIOUS
<1>1. ThreadTypes /\ TextTypes /\ HistoryTypes
  BY DEF Init, ThreadTypes, TextTypes, HistoryTypes, Callers
<1>2. Counts
  BY BoundsAssumption, TextAssumption DEF Init, Counts, Response
<1>3. ThreadPlaces /\ Gone
  BY DEF Init, ThreadPlaces, Gone
<1>4. Owing /\ NoResponseLost
  BY DEF Init, Owing, NoResponseLost
<1> QED
  BY <1>1, <1>2, <1>3, <1>4 DEF IInv

\* The radio takes a text or refuses it.
LEMMA SendStep ==
  ASSUME NEW c \in Callers, NEW texts, Send(c, texts), TextTypes, HistoryTypes
  PROVE  /\ ok' \in [Callers -> BOOLEAN] /\ asked' \in BOOLEAN /\ failed' \in BOOLEAN
         /\ link' = link
         /\ \A d \in Callers : d # c => ok'[d] = ok[d]
         /\ \E r \in texts :
              /\ told' = IF ok'[c] /\ r # 0 THEN r ELSE told
              /\ owed' = IF ok'[c] /\ r = owed THEN Nothing ELSE owed
<1>1. PICK taken \in {asked, FALSE}, r \in texts :
        /\ ok' = [ok EXCEPT ![c] = taken]
        /\ failed' = (failed \/ taken # asked)
        /\ asked' = (asked /\ ~taken)
        /\ told' = IF taken /\ r # 0 THEN r ELSE told
        /\ owed' = IF taken /\ r = owed THEN Nothing ELSE owed
  BY DEF Send
<1>2. taken \in BOOLEAN
  BY <1>1 DEF TextTypes
<1>3. ok' \in [Callers -> BOOLEAN] /\ ok'[c] = taken
  BY <1>1, <1>2 DEF TextTypes
<1>4. \A d \in Callers : d # c => ok'[d] = ok[d]
  BY <1>1 DEF TextTypes
<1>5. asked' \in BOOLEAN
  BY <1>1
<1>6. failed' \in BOOLEAN
  BY <1>1
<1>7. link' = link
  BY DEF Send
<1> QED
  BY <1>1, <1>3, <1>4, <1>5, <1>6, <1>7

\* What the thread sends is a text it has chosen, or one that has replaced it.
LEMMA AnswerFacts ==
  ASSUME IInv, SendAnswer
  PROVE  /\ bpc = "open" /\ bpc' = "send" /\ event = "read" /\ ok' \in [Callers -> BOOLEAN]
         /\ asked' \in BOOLEAN /\ failed' \in BOOLEAN /\ ok'["app"] = ok["app"]
         /\ UNCHANGED <<events, token, buffer, event, loaded, answer, apc, handed, link,
                        since, missed, stale, early, clash, bounds>>
         /\ owed' \in {owed, Nothing}
         /\ told' = told \/ (queued /\ ok'["ble"] /\ told' = pending /\ pending \in Response)
         /\ queued /\ pending = payload /\ pending = owed /\ ok'["ble"] => owed' = Nothing
<1> USE DEF IInv
<1>1. /\ ok' \in [Callers -> BOOLEAN] /\ asked' \in BOOLEAN /\ failed' \in BOOLEAN
      /\ link' = link /\ ok'["app"] = ok["app"]
      /\ \E r \in Sendable :
           /\ told' = IF ok'["ble"] /\ r # 0 THEN r ELSE told
           /\ owed' = IF ok'["ble"] /\ r = owed THEN Nothing ELSE owed
  BY SendStep DEF SendAnswer, Callers
<1>2. PICK r \in Sendable :
        /\ told' = IF ok'["ble"] /\ r # 0 THEN r ELSE told
        /\ owed' = IF ok'["ble"] /\ r = owed THEN Nothing ELSE owed
  BY <1>1
<1>3. r = 0 \/ (queued /\ r = pending /\ pending \in Response)
  BY <1>2 DEF Sendable
<1>4. queued /\ pending = payload /\ pending \in Response => r = pending
  BY <1>2 DEF Sendable
<1>5. owed # Nothing => owed \in Response
  BY DEF TextTypes
<1>6. queued /\ pending = payload /\ pending = owed /\ ok'["ble"] => owed' = Nothing
  BY <1>2, <1>4, <1>5
<1>7. told' = told \/ (queued /\ ok'["ble"] /\ told' = pending /\ pending \in Response)
  BY <1>2, <1>3
<1> QED
  BY <1>1, <1>2, <1>6, <1>7 DEF SendAnswer, ThreadPlaces

\* What casa_app sends is the response in hand.
LEMMA DirectFacts ==
  ASSUME IInv, AnswerDirectly
  PROVE  /\ apc = "answer" /\ apc' = "send" /\ ok' \in [Callers -> BOOLEAN]
         /\ asked' \in BOOLEAN /\ failed' \in BOOLEAN /\ ok'["ble"] = ok["ble"]
         /\ clash' = queued
         /\ UNCHANGED <<events, token, buffer, bpc, event, loaded, answer, handed, link,
                        since, missed, stale, early, bounds>>
         /\ owed' \in {owed, Nothing}
         /\ ok'["app"] => told' = handed /\ owed' = Nothing
         /\ ~ok'["app"] => told' = told
<1> USE DEF IInv
<1>1. /\ ok' \in [Callers -> BOOLEAN] /\ asked' \in BOOLEAN /\ failed' \in BOOLEAN
      /\ link' = link /\ ok'["ble"] = ok["ble"]
      /\ \E r \in {handed} :
           /\ told' = IF ok'["app"] /\ r # 0 THEN r ELSE told
           /\ owed' = IF ok'["app"] /\ r = owed THEN Nothing ELSE owed
  BY SendStep DEF AnswerDirectly, Callers
<1>2. /\ told' = IF ok'["app"] /\ handed # 0 THEN handed ELSE told
      /\ owed' = IF ok'["app"] /\ handed = owed THEN Nothing ELSE owed
  BY <1>1
<1>3. handed # 0 /\ (owed = Nothing \/ owed = handed)
  BY DEF AnswerDirectly, ThreadPlaces, Counts
<1> QED
  BY <1>1, <1>2, <1>3 DEF AnswerDirectly, Answering

\* Every step keeps the types of the threads.
LEMMA ThreadTypesStep ==
  ASSUME IInv, Next
  PROVE  ThreadTypes'
<1> USE DEF IInv
<1>1. CASE OnConnect
  BY <1>1 DEF OnConnect, SetEvent, ThreadTypes, Event
<1>2. CASE OnDisconnect
  BY <1>2 DEF OnDisconnect, SetEvent, ThreadTypes, Event
<1>3. CASE OnReadReq
  BY <1>3 DEF OnReadReq, SetEvent, ThreadTypes, Event
<1>4. CASE Look
  BY <1>4 DEF Look, ThreadTypes, Lowest, Event
<1>5. CASE Wait
  BY <1>5 DEF Wait, ThreadTypes, Event
<1>6. CASE Choose
  BY <1>6 DEF Choose, ThreadTypes, Event
<1>7. CASE Load
  BY <1>7 DEF Load, ThreadTypes, Cleared, Event
<1>8. CASE Store
  BY <1>8 DEF Store, ThreadTypes, Event
<1>9. CASE Connected
  BY <1>9 DEF Connected, Forget, ThreadTypes, Event
<1>10. CASE Disconnected
  BY <1>10 DEF Disconnected, Forget, ThreadTypes, Event
<1>11. CASE Advertise
  BY <1>11 DEF Advertise, ThreadTypes, Event
<1>12. CASE ReadRequested
  BY <1>12 DEF ReadRequested, ThreadTypes, Event
<1>13. CASE SendAnswer
  BY <1>13, AnswerFacts DEF ThreadTypes, Event
<1>14. CASE ReadAnswered
  BY <1>14 DEF ReadAnswered, AnswerEnds, ThreadTypes, Event
<1>15. CASE Hand
  BY <1>15 DEF Hand, ThreadTypes, Event
<1>16. CASE Keep
  BY <1>16 DEF Keep, ThreadTypes, Event
<1>17. CASE AnswerDirectly
  BY <1>17, DirectFacts, ZenonT(40) DEF ThreadTypes, Event
<1>18. CASE Sent
  BY <1>18 DEF Sent, ThreadTypes, Event
<1> QED
  BY <1>1, <1>2, <1>3, <1>4, <1>5, <1>6, <1>7, <1>8, <1>9, <1>10, <1>11, <1>12, <1>13, <1>14, <1>15, <1>16, <1>17, <1>18
  DEF Next, Callback, BleThread, CasaApp

\* Every step keeps the types of the texts.
LEMMA TextTypesStep ==
  ASSUME IInv, Next
  PROVE  TextTypes'
<1> USE DEF IInv
<1>1. CASE OnConnect
  BY <1>1 DEF OnConnect, SetEvent, TextTypes
<1>2. CASE OnDisconnect
  BY <1>2 DEF OnDisconnect, SetEvent, TextTypes
<1>3. CASE OnReadReq
  BY <1>3 DEF OnReadReq, SetEvent, TextTypes
<1>4. CASE Look
  BY <1>4 DEF Look, TextTypes
<1>5. CASE Wait
  BY <1>5 DEF Wait, TextTypes
<1>6. CASE Choose
  BY <1>6 DEF Choose, TextTypes
<1>7. CASE Load
  BY <1>7 DEF Load, TextTypes
<1>8. CASE Store
  BY <1>8 DEF Store, TextTypes
<1>9. CASE Connected
  BY <1>9 DEF Connected, Forget, TextTypes
<1>10. CASE Disconnected
  BY <1>10 DEF Disconnected, Forget, TextTypes
<1>11. CASE Advertise
  BY <1>11 DEF Advertise, TextTypes
<1>12. CASE ReadRequested
  BY <1>12 DEF ReadRequested, TextTypes
<1>13. CASE SendAnswer
  BY <1>13, AnswerFacts DEF TextTypes
<1>14. CASE ReadAnswered
  BY <1>14 DEF ReadAnswered, AnswerEnds, TextTypes
<1>15. CASE Hand
  BY <1>15, BoundsAssumption DEF Hand, TextTypes, Counts, Response
<1>16. CASE Keep
  BY <1>16, BoundsAssumption DEF Keep, TextTypes, Counts, Response, ThreadPlaces
<1>17. CASE AnswerDirectly
  BY <1>17, DirectFacts DEF TextTypes
<1>18. CASE Sent
  BY <1>18, BoundsAssumption DEF Sent, TextTypes, Counts, Response, ThreadPlaces
<1> QED
  BY <1>1, <1>2, <1>3, <1>4, <1>5, <1>6, <1>7, <1>8, <1>9, <1>10, <1>11, <1>12, <1>13, <1>14, <1>15, <1>16, <1>17, <1>18
  DEF Next, Callback, BleThread, CasaApp

\* Every step keeps the types of the histories.
LEMMA HistoryTypesStep ==
  ASSUME IInv, Next
  PROVE  HistoryTypes'
<1> USE DEF IInv
<1>1. CASE OnConnect
  BY <1>1 DEF OnConnect, SetEvent, HistoryTypes, Lost, Event, Callers
<1>2. CASE OnDisconnect
  BY <1>2 DEF OnDisconnect, SetEvent, HistoryTypes, Lost, Event, Callers
<1>3. CASE OnReadReq
  BY <1>3 DEF OnReadReq, SetEvent, HistoryTypes, Lost, Event, Callers
<1>4. CASE Look
  BY <1>4 DEF Look, HistoryTypes
<1>5. CASE Wait
  BY <1>5 DEF Wait, HistoryTypes
<1>6. CASE Choose
  BY <1>6 DEF Choose, HistoryTypes, TextTypes
<1>7. CASE Load
  BY <1>7 DEF Load, HistoryTypes
<1>8. CASE Store
  BY <1>8 DEF Store, HistoryTypes
<1>9. CASE Connected
  BY <1>9 DEF Connected, Forget, HistoryTypes
<1>10. CASE Disconnected
  BY <1>10 DEF Disconnected, Forget, HistoryTypes
<1>11. CASE Advertise
  BY <1>11 DEF Advertise, HistoryTypes
<1>12. CASE ReadRequested
  BY <1>12 DEF ReadRequested, HistoryTypes
<1>13. CASE SendAnswer
  BY <1>13, AnswerFacts DEF HistoryTypes
<1>14. CASE ReadAnswered
  BY <1>14 DEF ReadAnswered, AnswerEnds, HistoryTypes
<1>15. CASE Hand
  BY <1>15 DEF Hand, HistoryTypes, Unseen
<1>16. CASE Keep
  BY <1>16 DEF Keep, HistoryTypes, Stale, Answering, TextTypes
<1>17. CASE AnswerDirectly
  BY <1>17, DirectFacts DEF HistoryTypes, TextTypes
<1>18. CASE Sent
  BY <1>18 DEF Sent, HistoryTypes, Stale
<1> QED
  BY <1>1, <1>2, <1>3, <1>4, <1>5, <1>6, <1>7, <1>8, <1>9, <1>10, <1>11, <1>12, <1>13, <1>14, <1>15, <1>16, <1>17, <1>18
  DEF Next, Callback, BleThread, CasaApp

\* Every step keeps the order of the responses.
LEMMA CountsStep ==
  ASSUME IInv, Next
  PROVE  Counts'
<1> USE DEF IInv
<1>1. CASE OnConnect
  BY <1>1, BoundsAssumption DEF OnConnect, SetEvent, Counts
<1>2. CASE OnDisconnect
  BY <1>2 DEF OnDisconnect, SetEvent, Counts
<1>3. CASE OnReadReq
  BY <1>3, BoundsAssumption DEF OnReadReq, SetEvent, Counts
<1>4. CASE Look
  BY <1>4 DEF Look, Counts
<1>5. CASE Wait
  BY <1>5 DEF Wait, Counts
<1>6. CASE Choose
  BY <1>6 DEF Choose, Counts
<1>7. CASE Load
  BY <1>7 DEF Load, Counts
<1>8. CASE Store
  BY <1>8 DEF Store, Counts
<1>9. CASE Connected
  BY <1>9, TextAssumption DEF Connected, Forget, Counts, Response
<1>10. CASE Disconnected
  BY <1>10, TextAssumption DEF Disconnected, Forget, Counts, Response
<1>11. CASE Advertise
  BY <1>11 DEF Advertise, Counts
<1>12. CASE ReadRequested
  BY <1>12 DEF ReadRequested, Counts
<1>13. CASE SendAnswer
  BY <1>13, AnswerFacts DEF Counts, Response
<1>14. CASE ReadAnswered
  BY <1>14, TextAssumption DEF ReadAnswered, AnswerEnds, Counts, Response
<1>15. CASE Hand
  BY <1>15, BoundsAssumption DEF Hand, Counts, Response
<1>16. CASE Keep
  BY <1>16 DEF Keep, Counts, Response
<1>17. CASE AnswerDirectly
  BY <1>17, DirectFacts DEF Counts, Response
<1>18. CASE Sent
  BY <1>18, TextAssumption DEF Sent, Counts, Response
<1> QED
  BY <1>1, <1>2, <1>3, <1>4, <1>5, <1>6, <1>7, <1>8, <1>9, <1>10, <1>11, <1>12, <1>13, <1>14, <1>15, <1>16, <1>17, <1>18
  DEF Next, Callback, BleThread, CasaApp

\* Every step keeps the places of the thread.
LEMMA ThreadPlacesStep ==
  ASSUME IInv, Next
  PROVE  ThreadPlaces'
<1> USE DEF IInv
<1>1. CASE OnConnect
  BY <1>1 DEF OnConnect, SetEvent, ThreadPlaces, ThreadTypes
<1>2. CASE OnDisconnect
  BY <1>2 DEF OnDisconnect, SetEvent, ThreadPlaces, ThreadTypes
<1>3. CASE OnReadReq
  BY <1>3 DEF OnReadReq, SetEvent, ThreadPlaces, ThreadTypes
<1>4. CASE Look
  BY <1>4 DEF Look, ThreadPlaces, Lowest, ThreadTypes
<1>5. CASE Wait
  BY <1>5 DEF Wait, ThreadPlaces, ThreadTypes
<1>6. CASE Choose
  BY <1>6 DEF Choose, ThreadPlaces, ThreadTypes
<1>7. CASE Load
  BY <1>7 DEF Load, ThreadPlaces, ThreadTypes
<1>8. CASE Store
  BY <1>8 DEF Store, ThreadPlaces, ThreadTypes
<1>9. CASE Connected
  BY <1>9 DEF Connected, Forget, ThreadPlaces, ThreadTypes
<1>10. CASE Disconnected
  BY <1>10 DEF Disconnected, Forget, ThreadPlaces, ThreadTypes
<1>11. CASE Advertise
  BY <1>11 DEF Advertise, ThreadPlaces, ThreadTypes
<1>12. CASE ReadRequested
  BY <1>12 DEF ReadRequested, ThreadPlaces, ThreadTypes
<1>13. CASE SendAnswer
  BY <1>13, AnswerFacts DEF ThreadPlaces, ThreadTypes
<1>14. CASE ReadAnswered
  BY <1>14 DEF ReadAnswered, AnswerEnds, ThreadPlaces, ThreadTypes
<1>15. CASE Hand
  BY <1>15 DEF Hand, ThreadPlaces, Counts, ThreadTypes
<1>16. CASE Keep
  BY <1>16 DEF Keep, ThreadPlaces, ThreadTypes
<1>17. CASE AnswerDirectly
  BY <1>17, DirectFacts DEF ThreadPlaces, ThreadTypes
<1>18. CASE Sent
  BY <1>18 DEF Sent, ThreadPlaces, ThreadTypes
<1> QED
  BY <1>1, <1>2, <1>3, <1>4, <1>5, <1>6, <1>7, <1>8, <1>9, <1>10, <1>11, <1>12, <1>13, <1>14, <1>15, <1>16, <1>17, <1>18
  DEF Next, Callback, BleThread, CasaApp

\* Every step keeps what is known of a phone that left.
LEMMA GoneStep ==
  ASSUME IInv, Next
  PROVE  Gone'
<1> USE DEF IInv
<1>1. CASE OnConnect
  BY <1>1 DEF OnConnect, SetEvent, Gone, ThreadTypes, ThreadPlaces
<1>2. CASE OnDisconnect
  BY <1>2 DEF OnDisconnect, SetEvent, Gone, ThreadTypes, ThreadPlaces
<1>3. CASE OnReadReq
  BY <1>3 DEF OnReadReq, SetEvent, Gone, ThreadPlaces
<1>4. CASE Look
  BY <1>4 DEF Look, Gone, Lowest, ThreadPlaces
<1>5. CASE Wait
  BY <1>5 DEF Wait, Gone, ThreadPlaces
<1>6. CASE Choose
  BY <1>6 DEF Choose, Gone, ThreadPlaces
<1>7. CASE Load
  BY <1>7 DEF Load, Gone, Cleared, ThreadPlaces
<1>8. CASE Store
  BY <1>8 DEF Store, Gone, ThreadTypes, ThreadPlaces
<1>9. CASE Connected
  BY <1>9 DEF Connected, Forget, Gone, ThreadPlaces
<1>10. CASE Disconnected
  BY <1>10 DEF Disconnected, Forget, Gone, ThreadPlaces
<1>11. CASE Advertise
  BY <1>11 DEF Advertise, Gone, ThreadTypes, ThreadPlaces
<1>12. CASE ReadRequested
  BY <1>12 DEF ReadRequested, Gone, ThreadPlaces
<1>13. CASE SendAnswer
  BY <1>13, AnswerFacts DEF Gone, ThreadPlaces
<1>14. CASE ReadAnswered
  BY <1>14 DEF ReadAnswered, AnswerEnds, Gone, ThreadPlaces
<1>15. CASE Hand
  BY <1>15 DEF Hand, Gone, ThreadPlaces
<1>16. CASE Keep
  BY <1>16 DEF Keep, Gone, ThreadPlaces
<1>17. CASE AnswerDirectly
  BY <1>17, DirectFacts DEF Gone, ThreadPlaces
<1>18. CASE Sent
  BY <1>18 DEF Sent, Gone, ThreadPlaces
<1> QED
  BY <1>1, <1>2, <1>3, <1>4, <1>5, <1>6, <1>7, <1>8, <1>9, <1>10, <1>11, <1>12, <1>13, <1>14, <1>15, <1>16, <1>17, <1>18
  DEF Next, Callback, BleThread, CasaApp

\* Every step keeps what is known of the response that is owed.
LEMMA OwingStep ==
  ASSUME IInv, Next
  PROVE  Owing'
<1> USE DEF IInv
<1>1. CASE OnConnect
  BY <1>1 DEF OnConnect, SetEvent, Owing, Unseen
<1>2. CASE OnDisconnect
  BY <1>2 DEF OnDisconnect, SetEvent, Owing, Unseen
<1>3. CASE OnReadReq
  BY <1>3 DEF OnReadReq, SetEvent, Owing, Unseen
<1>4. CASE Look
  BY <1>4 DEF Look, Owing, Lowest, Unseen
<1>5. CASE Wait
  BY <1>5 DEF Wait, Owing, Unseen
<1>6. CASE Choose
  BY <1>6 DEF Choose, Owing, ThreadPlaces, Unseen
<1>7. CASE Load
  BY <1>7 DEF Load, Owing, Unseen
<1>8. CASE Store
  BY <1>8 DEF Store, Owing, Gone, Unseen
<1>9. CASE Connected
  BY <1>9 DEF Connected, Forget, Owing, ThreadPlaces, Gone, Unseen
<1>10. CASE Disconnected
  BY <1>10 DEF Disconnected, Forget, Owing, ThreadPlaces, Gone, Unseen
<1>11. CASE Advertise
  BY <1>11 DEF Advertise, Owing, Gone, Unseen
<1>12. CASE ReadRequested
  BY <1>12 DEF ReadRequested, Owing, Unseen
<1>13. CASE SendAnswer
  BY <1>13, AnswerFacts DEF Owing, NoResponseLost, ThreadPlaces, Unseen
<1>14. CASE ReadAnswered
  BY <1>14 DEF ReadAnswered, AnswerEnds, Owing, ThreadPlaces, Unseen
<1>15. CASE Hand
  BY <1>15 DEF Hand, Owing, Counts, Unseen
<1>16. CASE Keep
  BY <1>16 DEF Keep, Owing, Answering, ThreadPlaces, Unseen
<1>17. CASE AnswerDirectly
  BY <1>17, DirectFacts DEF Owing, Unseen
<1>18. CASE Sent
  BY <1>18 DEF Sent, Owing, Unseen
<1> QED
  BY <1>1, <1>2, <1>3, <1>4, <1>5, <1>6, <1>7, <1>8, <1>9, <1>10, <1>11, <1>12, <1>13, <1>14, <1>15, <1>16, <1>17, <1>18
  DEF Next, Callback, BleThread, CasaApp

\* Every step keeps the response that is owed.
LEMMA KeptStep ==
  ASSUME IInv, Next
  PROVE  NoResponseLost'
<1> USE DEF IInv
<1>1. CASE OnConnect
  BY <1>1 DEF OnConnect, SetEvent, NoResponseLost, Owing
<1>2. CASE OnDisconnect
  BY <1>2 DEF OnDisconnect, SetEvent, NoResponseLost, Owing
<1>3. CASE OnReadReq
  BY <1>3 DEF OnReadReq, SetEvent, NoResponseLost, Owing
<1>4. CASE Look
  BY <1>4 DEF Look, NoResponseLost, Owing
<1>5. CASE Wait
  BY <1>5 DEF Wait, NoResponseLost, Owing
<1>6. CASE Choose
  BY <1>6 DEF Choose, NoResponseLost, Owing
<1>7. CASE Load
  BY <1>7 DEF Load, NoResponseLost, Owing
<1>8. CASE Store
  BY <1>8 DEF Store, NoResponseLost, Owing
<1>9. CASE Connected
  BY <1>9 DEF Connected, Forget, NoResponseLost, Unseen, Owing
<1>10. CASE Disconnected
  BY <1>10 DEF Disconnected, Forget, NoResponseLost, Gone, Owing
<1>11. CASE Advertise
  BY <1>11 DEF Advertise, NoResponseLost, Owing
<1>12. CASE ReadRequested
  BY <1>12 DEF ReadRequested, NoResponseLost, Owing
<1>13. CASE SendAnswer
  BY <1>13, AnswerFacts DEF NoResponseLost, Owing
<1>14. CASE ReadAnswered
  BY <1>14 DEF ReadAnswered, AnswerEnds, NoResponseLost, TextTypes, Owing
<1>15. CASE Hand
  BY <1>15 DEF Hand, NoResponseLost, Owing
<1>16. CASE Keep
  BY <1>16 DEF Keep, NoResponseLost, Counts, Owing
<1>17. CASE AnswerDirectly
  BY <1>17, DirectFacts DEF NoResponseLost, Owing
<1>18. CASE Sent
  BY <1>18 DEF Sent, NoResponseLost, Counts, Owing
<1> QED
  BY <1>1, <1>2, <1>3, <1>4, <1>5, <1>6, <1>7, <1>8, <1>9, <1>10, <1>11, <1>12, <1>13, <1>14, <1>15, <1>16, <1>17, <1>18
  DEF Next, Callback, BleThread, CasaApp

\* The invariant is inductive.
LEMMA NextIInv == IInv /\ [Next]_vars => IInv'
<1> SUFFICES ASSUME IInv, [Next]_vars PROVE IInv'
  OBVIOUS
<1>1. CASE Next
  BY <1>1, ThreadTypesStep, TextTypesStep, HistoryTypesStep, CountsStep, ThreadPlacesStep, GoneStep,
     OwingStep, KeptStep
  DEF IInv
<1>2. CASE UNCHANGED vars
  <2>1. ThreadTypes' /\ TextTypes' /\ HistoryTypes'
    BY <1>2 DEF IInv, ThreadTypes, TextTypes, HistoryTypes
  <2>2. Counts' /\ ThreadPlaces' /\ Gone'
    BY <1>2 DEF IInv, Counts, ThreadPlaces, Gone
  <2>3. Owing' /\ NoResponseLost'
    BY <1>2 DEF IInv, Owing, Unseen, NoResponseLost
  <2> QED
    BY <2>1, <2>2, <2>3 DEF IInv
<1> QED
  BY <1>1, <1>2

\* The invariant holds in every behaviour.
LEMMA Invariance == Spec => []IInv
  BY InitIInv, NextIInv, PTL DEF Spec

\* Every variable keeps its type, and the window is open exactly while the BLE
\* thread sends (bluetooth.c:593-610), for any number of responses, requests and
\* connections and whatever goes wrong.
THEOREM TypeCorrect == Spec => []TypeOK
<1>1. IInv => TypeOK
  BY DEF IInv, ThreadTypes, TextTypes, HistoryTypes, Counts, ThreadPlaces, TypeOK
<1> QED
  BY Invariance, <1>1, PTL

\* The response handed over last is pending until the phone has read it, through
\* every failure and every lost event: but for one that was handed over before the
\* thread had dealt with the phone's connection, and one that got in the way of the
\* answer with an earlier response or of a failing "{}" (bluetooth.c:181, 191, 495).
THEOREM ResponseIsKept == Spec => []NoResponseLost
<1>1. IInv => NoResponseLost
  BY DEF IInv
<1> QED
  BY Invariance, <1>1, PTL
-----------------------------------------------------------------------------
(* What the phone reads is new, and its own.                               *)

\* Until the thread has seen a connection it deals with no request that it had not
\* found before; once it has, what is pending was handed over for this phone, and so is
\* what casa_app has in hand.
Own ==
  /\ bpc = "clear" /\ event # "conn" /\ "conn" \in events /\ "conn" \notin loaded
       => "conn" \in missed
  /\ "conn" \notin missed /\ "ble" \notin stale /\ event = "read" => "conn" \notin events
  /\ apc # "idle" /\ "app" \notin stale => handed > since
  /\ "conn" \notin missed /\ "app" \notin stale /\ ~Unseen =>
       (pending \in Response => pending > since)

\* What is pending is news, or its answer is under way.
News ==
  /\ apc # "idle" /\ pending \in Response => pending < handed
  /\ apc \in {"keep", "answer"} \/ (apc = "send" /\ ~ok["app"]) => told < handed
  /\ pending \in Response =>
       \/ pending > told
       \/ bpc = "send" /\ queued /\ ok["ble"]
       \/ apc = "send" /\ ok["app"]

Fresh == Own /\ News

\* The initial state satisfies the invariant.
LEMMA InitFresh == Init => Fresh
  BY TextAssumption DEF Init, Fresh, Own, News, Unseen, Response

\* Every step keeps what is pending for this phone.
LEMMA OwnStep ==
  ASSUME IInv, Fresh, Next
  PROVE  Own'
<1> USE DEF IInv, Fresh
<1>1. CASE OnConnect
  BY <1>1 DEF OnConnect, SetEvent, Own, Lost, Event, Unseen, ThreadPlaces
<1>2. CASE OnDisconnect
  BY <1>2 DEF OnDisconnect, SetEvent, Own, Lost, Unseen, ThreadPlaces
<1>3. CASE OnReadReq
  BY <1>3 DEF OnReadReq, SetEvent, Own, Lost, Unseen, ThreadPlaces
<1>4. CASE Look
  BY <1>4 DEF Look, Own, Lowest, Unseen, ThreadPlaces
<1>5. CASE Wait
  BY <1>5 DEF Wait, Own, Unseen, ThreadPlaces
<1>6. CASE Choose
  BY <1>6 DEF Choose, Own, Unseen, ThreadPlaces
<1>7. CASE Load
  BY <1>7 DEF Load, Own, Cleared, Event, ThreadTypes, Unseen, ThreadPlaces
<1>8. CASE Store
  BY <1>8 DEF Store, Own, Gone, Unseen, ThreadPlaces
<1>9. CASE Connected
  BY <1>9, TextAssumption DEF Connected, Forget, Own, Response, Unseen, ThreadPlaces
<1>10. CASE Disconnected
  BY <1>10, TextAssumption DEF Disconnected, Forget, Own, Response, Unseen, ThreadPlaces
<1>11. CASE Advertise
  BY <1>11 DEF Advertise, Own, Unseen, ThreadPlaces
<1>12. CASE ReadRequested
  BY <1>12 DEF ReadRequested, Own, Unseen, ThreadPlaces
<1>13. CASE SendAnswer
  BY <1>13, AnswerFacts DEF Own, Unseen, ThreadPlaces
<1>14. CASE ReadAnswered
  BY <1>14, TextAssumption DEF ReadAnswered, AnswerEnds, Own, Response, Unseen, ThreadPlaces
<1>15. CASE Hand
  BY <1>15 DEF Hand, Own, Counts, Unseen, ThreadPlaces
<1>16. CASE Keep
  BY <1>16 DEF Keep, Own, Stale, Unseen, ThreadPlaces
<1>17. CASE AnswerDirectly
  BY <1>17, DirectFacts DEF Own, Unseen, ThreadPlaces
<1>18. CASE Sent
  BY <1>18, TextAssumption DEF Sent, Own, Stale, Response, Unseen, ThreadPlaces
<1> QED
  BY <1>1, <1>2, <1>3, <1>4, <1>5, <1>6, <1>7, <1>8, <1>9, <1>10, <1>11, <1>12, <1>13, <1>14, <1>15, <1>16, <1>17, <1>18
  DEF Next, Callback, BleThread, CasaApp

\* Every step keeps what is pending news.
LEMMA NewsStep ==
  ASSUME IInv, Fresh, Next
  PROVE  News'
<1> USE DEF IInv, Fresh
<1>1. CASE OnConnect
  BY <1>1 DEF OnConnect, SetEvent, News
<1>2. CASE OnDisconnect
  BY <1>2 DEF OnDisconnect, SetEvent, News
<1>3. CASE OnReadReq
  BY <1>3 DEF OnReadReq, SetEvent, News
<1>4. CASE Look
  BY <1>4 DEF Look, News, ThreadPlaces
<1>5. CASE Wait
  BY <1>5 DEF Wait, News
<1>6. CASE Choose
  BY <1>6 DEF Choose, News, ThreadPlaces
<1>7. CASE Load
  BY <1>7 DEF Load, News, ThreadPlaces
<1>8. CASE Store
  BY <1>8 DEF Store, News, ThreadPlaces
<1>9. CASE Connected
  BY <1>9, TextAssumption DEF Connected, Forget, News, Response, TextTypes
<1>10. CASE Disconnected
  BY <1>10, TextAssumption DEF Disconnected, Forget, News, Response, TextTypes
<1>11. CASE Advertise
  BY <1>11 DEF Advertise, News
<1>12. CASE ReadRequested
  BY <1>12 DEF ReadRequested, News, ThreadPlaces
<1>13. CASE SendAnswer
  BY <1>13, AnswerFacts DEF News, Counts, Response
<1>14. CASE ReadAnswered
  BY <1>14, TextAssumption DEF ReadAnswered, AnswerEnds, News, Response, TextTypes
<1>15. CASE Hand
  BY <1>15 DEF Hand, News, Counts, Response
<1>16. CASE Keep
  BY <1>16, TextAssumption DEF Keep, News, Counts, Response
<1>17. CASE AnswerDirectly
  BY <1>17, DirectFacts DEF News, Counts, Response
<1>18. CASE Sent
  BY <1>18, TextAssumption DEF Sent, News, Counts, Response
<1> QED
  BY <1>1, <1>2, <1>3, <1>4, <1>5, <1>6, <1>7, <1>8, <1>9, <1>10, <1>11, <1>12, <1>13, <1>14, <1>15, <1>16, <1>17, <1>18
  DEF Next, Callback, BleThread, CasaApp

\* What the phone reads of either caller is newer than what it has read, and its own.
LEMMA ReadsNews ==
  ASSUME IInv, Fresh, Next, told' # told, "conn" \notin missed, stale = {}, ~clash
  PROVE  told' > told /\ told' > since
<1> USE DEF IInv, Fresh
<1>1. SendAnswer \/ AnswerDirectly
  BY DEF Next, Callback, BleThread, CasaApp, OnConnect, OnDisconnect, OnReadReq, Look, Wait,
         Choose, Load, Store, Connected, Disconnected, Forget, Advertise, ReadRequested,
         ReadAnswered, AnswerEnds, Hand, Keep, Sent
<1>2. CASE SendAnswer
  <2>1. /\ bpc = "open" /\ event = "read" /\ queued
        /\ told' = pending /\ pending \in Response
    BY <1>2, AnswerFacts
  <2>2. pending > since
    BY <2>1 DEF Own, Unseen
  <2>3. pending > told
    BY <2>1 DEF News, Owing
  <2> QED
    BY <2>1, <2>2, <2>3
<1>3. CASE AnswerDirectly
  <2>1. told' = handed /\ apc = "answer"
    BY <1>3, DirectFacts DEF TextTypes
  <2>2. handed > since
    BY <2>1 DEF Own
  <2>3. handed > told
    BY <2>1 DEF News, Counts
  <2> QED
    BY <2>1, <2>2, <2>3
<1> QED
  BY <1>1, <1>2, <1>3

\* The responses the phone reads come in order and are its own (bluetooth.c:495,
\* 511), for any number of connections, requests and failed answers: unless the event of
\* its connection was lost, an answer or a call of casa_app was under way when it
\* connected, or the last response got in the way of the answer with an earlier one.
THEOREM PhoneReadsNews == Spec => AnswersAreFresh
<1>1. IInv /\ Fresh /\ [Next]_vars => Fresh'
  <2> SUFFICES ASSUME IInv, Fresh, [Next]_vars PROVE Fresh'
    OBVIOUS
  <2>1. CASE Next
    BY <2>1, OwnStep, NewsStep DEF Fresh
  <2>2. CASE UNCHANGED vars
    BY <2>2 DEF Fresh, Own, News, Unseen
  <2> QED
    BY <2>1, <2>2
<1>2. IInv /\ Fresh /\ [Next]_vars =>
        [(told' # told /\ "conn" \notin missed /\ stale = {} /\ ~clash) =>
           told' > told /\ told' > since]_vars
  BY ReadsNews
<1> QED
  BY Invariance, InitFresh, <1>1, <1>2, PTL DEF Spec, AnswersAreFresh
=============================================================================

------------------------- MODULE MqttRxQueue_proofs -------------------------
(***************************************************************************)
(* Proofs about MqttRxQueue for every depth, every number of messages and  *)
(* of closes, and every order of the callback, the thread and casa_app:    *)
(*                                                                         *)
(*   TypeCorrect        Spec => []TypeOK                                   *)
(*   CountNeverWraps    Spec => []CountInRange                             *)
(*   NeverTwice         Spec => []HandledOnce                              *)
(*   RingIsQueue        Spec => ImplementsQueue                            *)
(*   DropsOnlyWhenFull  Spec => DropsOnlyOnOverflow                        *)
(*                                                                         *)
(* The first three rest on invariants that hold as long as casa_app has    *)
(* closed no session, lost updates of the count included; the last two on  *)
(* ones that hold up to the first lost update or interrupted message.      *)
(***************************************************************************)
EXTENDS MqttRxQueue, SequenceTheorems, TLAPS

\* CountInRange is not inductive: an increment relies on the room the callback
\* saw, a decrement on the message the thread saw, and a store on the count
\* loaded, whatever has been stored since.
CountInv ==
  /\ count <= Depth
  /\ cb \in {"copy", "advance", "load"} => count < Depth
  /\ cb = "store" => cbCount < Depth
  /\ th \in {"parse", "wipe", "advance", "load", "store"} => count > 0
  /\ th = "store" => thCount \in 1 .. Depth

\* Where no update was lost, the count itself keeps the room and the message.
CountStrict ==
  /\ count <= Depth
  /\ cb \in {"copy", "advance", "load", "store"} => count < Depth
  /\ th \in {"parse", "wipe", "advance", "load", "store"} => count > 0

IInv == TypeOK /\ (closes = 0 => CountInv) /\ (~raced => CountStrict)

-----------------------------------------------------------------------------

LEMMA ModIndex == \A i \in Index : (i + 1) % Depth \in Index
BY DepthAssumption DEF Index

LEMMA ModWidth ==
  \A c \in 0 .. Width - 1 : /\ (c + 1) % Width \in 0 .. Width - 1
                            /\ (c + Width - 1) % Width \in 0 .. Width - 1
BY WidthAssumption, DepthAssumption

\* Below the width, count++ and count-- do not wrap.
LEMMA NoWrap ==
  \A c \in 0 .. Depth : /\ c < Depth => (c + 1) % Width = c + 1
                        /\ c > 0 => (c + Width - 1) % Width = c - 1
BY WidthAssumption, DepthAssumption

LEMMA TypeStep == TypeOK /\ [Next]_vars => TypeOK'
<1> SUFFICES ASSUME TypeOK, [Next]_vars PROVE TypeOK'
  OBVIOUS
<1> USE DEF TypeOK, CbPc, ThPc, ring, callback, thread, app, history, Between
<1>1. CASE Arrive
  <2>1. sent' \in 0 .. MaxArrivals /\ sent + 1 \in Message
    BY <1>1, BoundsAssumption DEF Arrive, Message
  <2> QED
    BY <1>1, <2>1 DEF Arrive
<1>2. CASE Copy
  BY <1>2 DEF Copy
<1>3. CASE AdvanceHead
  BY <1>3, ModIndex DEF AdvanceHead
<1>4. CASE LoadForIncrement
  BY <1>4 DEF LoadForIncrement
<1>5. CASE StoreIncrement
  BY <1>5, ModWidth DEF StoreIncrement
<1>6. CASE Poll
  BY <1>6 DEF Poll
<1>7. CASE Parse
  <2>1. slots[tail] \in Message \cup {Empty}
    OBVIOUS
  <2>2. handled' \in Seq(Message)
    BY <1>7, <2>1 DEF Parse
  <2> QED
    BY <1>7, <2>2 DEF Parse
<1>8. CASE Wipe
  BY <1>8 DEF Wipe
<1>9. CASE AdvanceTail
  BY <1>9, ModIndex DEF AdvanceTail
<1>10. CASE LoadForDecrement
  BY <1>10 DEF LoadForDecrement
<1>11. CASE StoreDecrement
  BY <1>11, ModWidth DEF StoreDecrement
<1>12. CASE Connect \/ Disconnect \/ Started \/ Replace
  <2>1. replaced' \in 0 .. closes' /\ closes' \in 0 .. MaxCloses
    BY <1>12, BoundsAssumption DEF Connect, Disconnect, Started, Replace
  <2> QED
    BY <1>12, <2>1 DEF Connect, Disconnect, Started, Replace
<1>13. CASE Close
  <2>1. closes' \in 0 .. MaxCloses /\ 0 \in Index /\ 0 \in 0 .. Width - 1
    BY <1>13, BoundsAssumption, DepthAssumption, WidthAssumption
       DEF Close, Index
  <2>2. connected' \in BOOLEAN
    BY <1>13 DEF Close
  <2>3. replaced' \in 0 .. closes'
    BY <1>13, BoundsAssumption DEF Close
  <2> QED
    BY <1>13, <2>1, <2>2, <2>3 DEF Close, ResetQueue
<1>14. CASE UNCHANGED vars
  BY <1>14 DEF vars
<1>15. CASE Reconnect
  <2>1. 0 \in Index /\ 0 \in 0 .. Width - 1
    BY DepthAssumption, WidthAssumption DEF Index
  <2> QED
    BY <1>15, <2>1 DEF Reconnect, ResetQueue
<1> QED
  BY <1>1, <1>2, <1>3, <1>4, <1>5, <1>6, <1>7, <1>8, <1>9, <1>10, <1>11,
     <1>12, <1>13, <1>14, <1>15 DEF Next, Callback, Thread

LEMMA InitType == Init => TypeOK
<1> SUFFICES ASSUME Init PROVE TypeOK
  OBVIOUS
<1>1. 0 \in Index /\ 0 \in 0 .. Width - 1
  BY DepthAssumption, WidthAssumption DEF Index
<1>2. 0 \in 0 .. MaxArrivals /\ 0 \in 0 .. MaxCloses /\ 0 \in 0 .. 0
  BY BoundsAssumption
<1> QED
  BY <1>1, <1>2 DEF Init, TypeOK, CbPc, ThPc

\* Every reachable state is well typed: in particular neither index leaves the
\* arrays, in whatever order the two sides and the closes are interleaved.
THEOREM TypeCorrect == Spec => []TypeOK
<1> QED
  BY InitType, TypeStep, PTL DEF Spec

-----------------------------------------------------------------------------

LEMMA CountStep ==
  ASSUME TypeOK, CountInv, closes = 0, closes' = 0, [Next]_vars
  PROVE  CountInv'
<1> USE DEF CountInv
<1>0. /\ count \in Nat /\ cbCount \in Nat /\ thCount \in Nat
      /\ Depth \in Nat /\ cb \in CbPc /\ th \in ThPc
  BY DepthAssumption, WidthAssumption DEF TypeOK
<1>1. CASE Arrive
  BY <1>0, <1>1 DEF Arrive, ring, thread
<1>2. CASE Copy \/ AdvanceHead
  BY <1>0, <1>2 DEF Copy, AdvanceHead, thread
<1>3. CASE LoadForIncrement
  BY <1>0, <1>3 DEF LoadForIncrement, ring, thread
<1>4. CASE StoreIncrement
  <2>1. count' = cbCount + 1
    BY <1>0, <1>4, NoWrap DEF StoreIncrement
  <2> QED
    BY <1>0, <1>4, <2>1 DEF StoreIncrement, thread
<1>5. CASE Poll \/ Parse
  BY <1>0, <1>5 DEF Poll, Parse, ring, callback
<1>6. CASE Wipe \/ AdvanceTail
  BY <1>0, <1>6 DEF Wipe, AdvanceTail, callback
<1>7. CASE LoadForDecrement
  BY <1>0, <1>7 DEF LoadForDecrement, ring, callback
<1>8. CASE StoreDecrement
  <2>1. count' = thCount - 1
    BY <1>0, <1>8, NoWrap DEF StoreDecrement
  <2> QED
    BY <1>0, <1>8, <2>1 DEF StoreDecrement, callback
<1>9. CASE Connect \/ Disconnect
  BY <1>0, <1>9 DEF Connect, Disconnect, ring, callback, thread
<1>10. CASE Close \/ Replace
  BY <1>10 DEF Close, Replace, TypeOK
<1>11. CASE UNCHANGED vars
  BY <1>0, <1>11 DEF vars, ring, callback, thread
<1>12. CASE Reconnect
  BY <1>0, <1>12, DepthAssumption DEF Reconnect, ResetQueue, callback
<1>13. CASE Started
  BY <1>0, <1>13 DEF Started, ring, callback
<1> QED
  BY <1>1, <1>2, <1>3, <1>4, <1>5, <1>6, <1>7, <1>8, <1>9, <1>10, <1>11,
     <1>12, <1>13
     DEF Next, Callback, Thread

\* Closes are counted, never taken back.
LEMMA ClosesGrow == TypeOK /\ [Next]_vars /\ closes' = 0 => closes = 0
<1> SUFFICES ASSUME TypeOK, [Next]_vars, closes' = 0 PROVE closes = 0
  OBVIOUS
<1>1. CASE Close
  BY <1>1 DEF Close, TypeOK
<1>2. CASE Arrive \/ Callback \/ Connect \/ Disconnect \/ UNCHANGED vars
  BY <1>2
     DEF Arrive, Callback, Copy, AdvanceHead, LoadForIncrement,
         StoreIncrement, Connect, Disconnect, app, vars
<1>3. CASE Thread \/ Reconnect \/ Started \/ Replace
  BY <1>3
     DEF Thread, Poll, Parse, Wipe, AdvanceTail, LoadForDecrement,
         StoreDecrement, Reconnect, Started, Replace, app
<1> QED
  BY <1>1, <1>2, <1>3 DEF Next

\* What was lost stays lost, and an update is lost where it overwrites another.
LEMMA RacedGrows ==
  ASSUME TypeOK, ~raced', [Next]_vars
  PROVE  /\ ~raced
         /\ StoreIncrement => cbCount = count
         /\ StoreDecrement => thCount = count
         /\ Close \/ Replace => Between
<1>1. CASE StoreIncrement \/ StoreDecrement \/ Close \/ Replace
  BY <1>1 DEF StoreIncrement, StoreDecrement, Close, Replace, Between
<1>2. CASE ~(StoreIncrement \/ StoreDecrement \/ Close \/ Replace)
  <2>1. ~raced
    BY <1>2
    DEF Next, Callback, Arrive, Copy, AdvanceHead, LoadForIncrement, Thread, Poll, Parse,
        Wipe, AdvanceTail, LoadForDecrement, Reconnect, Started, Connect, Disconnect,
        history, vars
  <2> QED
    BY <1>2, <2>1
<1> QED
  BY <1>1, <1>2

LEMMA StrictStep ==
  ASSUME TypeOK, CountStrict, ~raced', [Next]_vars
  PROVE  CountStrict'
<1> USE DEF CountStrict
<1>0. /\ count \in Nat /\ cbCount \in Nat /\ thCount \in Nat
      /\ Depth \in Nat /\ cb \in CbPc /\ th \in ThPc
  BY DepthAssumption, WidthAssumption DEF TypeOK
<1>1. CASE Arrive
  BY <1>0, <1>1 DEF Arrive, ring, thread
<1>2. CASE Copy \/ AdvanceHead \/ LoadForIncrement
  BY <1>0, <1>2 DEF Copy, AdvanceHead, LoadForIncrement, ring, thread
<1>4. CASE StoreIncrement
  <2>1. count' = count + 1
    BY <1>0, <1>4, NoWrap, RacedGrows DEF StoreIncrement
  <2> QED
    BY <1>0, <1>4, <2>1 DEF StoreIncrement, thread
<1>5. CASE Poll \/ Parse
  BY <1>0, <1>5 DEF Poll, Parse, ring, callback
<1>6. CASE Wipe \/ AdvanceTail \/ LoadForDecrement
  BY <1>0, <1>6 DEF Wipe, AdvanceTail, LoadForDecrement, ring, callback
<1>8. CASE StoreDecrement
  <2>1. count' = count - 1
    BY <1>0, <1>8, NoWrap, RacedGrows DEF StoreDecrement
  <2> QED
    BY <1>0, <1>8, <2>1 DEF StoreDecrement, callback
<1>9. CASE Connect \/ Disconnect \/ Started
  BY <1>0, <1>9 DEF Connect, Disconnect, Started, ring, callback, thread
<1>10. CASE Close
  <2>1. Between
    BY <1>10, RacedGrows
  <2> QED
    BY <1>0, <1>10, <2>1, DepthAssumption DEF Close, ResetQueue, Between, thread, callback
<1>11. CASE Replace
  BY <1>0, <1>11 DEF Replace, ring, callback
<1>12. CASE Reconnect
  BY <1>0, <1>12, DepthAssumption DEF Reconnect, ResetQueue, callback
<1>13. CASE UNCHANGED vars
  BY <1>0, <1>13 DEF vars, ring, callback, thread
<1> QED
  BY <1>1, <1>2, <1>4, <1>5, <1>6, <1>8, <1>9, <1>10, <1>11, <1>12, <1>13
     DEF Next, Callback, Thread

\* As long as casa_app has closed no session, or no update was lost, the count neither
\* goes below zero nor beyond the depth (mqtt_handler.c:188, 461): in particular not
\* when updates overwrite each other within one session.
THEOREM CountNeverWraps == Spec => []CountInRange
<1>1. Init => IInv
  BY InitType, DepthAssumption DEF Init, IInv, CountInv, CountStrict
<1>2. IInv /\ [Next]_vars => IInv'
  BY TypeStep, CountStep, ClosesGrow, StrictStep, RacedGrows DEF IInv
<1>3. IInv => CountInRange
  BY DEF IInv, CountInv, CountStrict, CountInRange
<1> QED
  BY <1>1, <1>2, <1>3, PTL DEF Spec

-----------------------------------------------------------------------------
(* No message is parsed twice, though the count may be wrong.              *)

\* What has been parsed was sent, and is not what the callback is to store.
Parsed ==
  /\ \A i \in 1 .. Len(handled) :
       handled[i] <= sent /\ (cb = "copy" => handled[i] # sent)
  /\ \A i, j \in 1 .. Len(handled) : i # j => handled[i] # handled[j]

\* No message is in two slots, nor is it in one before the callback stores it.
Stored ==
  \A k \in Index : slots[k] # Empty =>
    /\ slots[k] <= sent /\ (cb = "copy" => slots[k] # sent)
    /\ \A l \in Index : l # k => slots[l] # slots[k]

\* What is in a slot has still to be parsed, but for the slot about to be wiped.
Unparsed ==
  \A k \in Index : slots[k] # Empty /\ ~(th = "wipe" /\ k = tail) =>
    \A i \in 1 .. Len(handled) : handled[i] # slots[k]

Once == Parsed /\ Stored /\ Unparsed

\* The slots and what was parsed are the same, and neither side is where it
\* matters: nothing changes.
LEMMA OnceElsewhere ==
  ASSUME TypeOK, Once, UNCHANGED <<slots, sent, handled>>,
         cb' = "copy" => cb = "copy",
         th = "wipe" => th' = "wipe" /\ UNCHANGED tail
  PROVE  Once'
<1>1. Parsed'
  BY DEF Once, Parsed
<1>2. Stored'
  BY DEF Once, Stored
<1>3. Unparsed'
  BY DEF Once, Unparsed
<1> QED
  BY <1>1, <1>2, <1>3 DEF Once

\* The message that arrives is new.
LEMMA OnceArrive ==
  ASSUME TypeOK, Once, Arrive
  PROVE  Once'
<1>1. /\ sent' = sent + 1 /\ sent \in Nat
      /\ UNCHANGED <<slots, head, tail, th, handled>>
  BY BoundsAssumption DEF Arrive, TypeOK, ring, thread
<1>2. /\ \A i \in 1 .. Len(handled) : handled[i] \in Nat
      /\ \A k \in Index : slots[k] # Empty => slots[k] \in Nat
  <2>1. \A m \in Message : m \in Nat
    BY DEF Message
  <2>2. \A i \in 1 .. Len(handled) : handled[i] \in Message
    BY DEF TypeOK
  <2>3. \A k \in Index : slots[k] \in Message \cup {Empty}
    BY DEF TypeOK
  <2> QED
    BY <2>1, <2>2, <2>3
<1>3. Parsed'
  BY <1>1, <1>2 DEF Once, Parsed
<1>4. Stored'
  BY <1>1, <1>2 DEF Once, Stored
<1>5. Unparsed'
  BY <1>1 DEF Once, Unparsed
<1> QED
  BY <1>3, <1>4, <1>5 DEF Once

\* The callback stores it, maybe over a slot that was about to be wiped.
LEMMA OnceCopy ==
  ASSUME TypeOK, Once, Copy
  PROVE  Once'
<1>1. /\ cb = "copy" /\ cb' = "advance" /\ slots' = [slots EXCEPT ![head] = sent]
      /\ UNCHANGED <<tail, th, sent, handled>>
      /\ head \in Index /\ sent \in Message
  BY DEF Copy, TypeOK, thread, history
<1>2. \A k \in Index : slots'[k] = IF k = head THEN sent ELSE slots[k]
  BY <1>1 DEF TypeOK
<1>3. Parsed'
  BY <1>1 DEF Once, Parsed
<1>4. sent # Empty /\ sent <= sent
  BY <1>1, EmptyAssumption DEF Message
<1>5. Stored'
  <2>1. \A k \in Index : slots[k] # sent
    BY <1>1, <1>4 DEF Once, Stored
  <2> QED
    BY <1>1, <1>2, <1>4, <2>1 DEF Once, Stored
<1>6. Unparsed'
  <2>1. \A i \in 1 .. Len(handled) : handled[i] # sent
    BY <1>1 DEF Once, Parsed
  <2> QED
    BY <1>1, <1>2, <2>1 DEF Once, Unparsed
<1> QED
  BY <1>3, <1>5, <1>6 DEF Once

\* The thread parses what is in the slot at the tail, and is about to wipe it.
LEMMA OnceParse ==
  ASSUME TypeOK, Once, Parse
  PROVE  Once'
<1>1. /\ th = "parse" /\ th' = "wipe" /\ tail \in Index
      /\ UNCHANGED <<slots, tail, cb, sent>>
      /\ handled' = IF slots[tail] = Empty THEN handled ELSE Append(handled, slots[tail])
  BY DEF Parse, TypeOK, ring, callback
<1>2. CASE slots[tail] = Empty
  <2>1. handled' = handled
    BY <1>1, <1>2
  <2> QED
    BY <1>1, <2>1, OnceElsewhere
<1>3. CASE slots[tail] # Empty
  <2> DEFINE m == slots[tail]
  <2>1. /\ m \in Message /\ handled \in Seq(Message) /\ handled' = Append(handled, m)
        /\ m <= sent /\ (cb = "copy" => m # sent)
        /\ \A i \in 1 .. Len(handled) : handled[i] # m
        /\ \A l \in Index : l # tail => slots[l] # m
    BY <1>1, <1>3 DEF TypeOK, Once, Stored, Unparsed
  <2> HIDE DEF m
  <2>2. /\ Len(handled') = Len(handled) + 1 /\ handled'[Len(handled) + 1] = m
        /\ \A i \in 1 .. Len(handled) : handled'[i] = handled[i]
        /\ Len(handled) \in Nat
    BY <2>1
  <2>3. Parsed'
    BY <1>1, <2>1, <2>2 DEF Once, Parsed
  <2>4. Stored'
    BY <1>1 DEF Once, Stored
  <2>5. Unparsed'
    <3> SUFFICES ASSUME NEW k \in Index, slots[k] # Empty, k # tail,
                        NEW i \in 1 .. Len(handled')
                 PROVE  handled'[i] # slots[k]
      BY <1>1 DEF Unparsed
    <3>1. \A n \in 1 .. Len(handled) : handled[n] # slots[k]
      BY <1>1 DEF Once, Unparsed
    <3>2. slots[k] # m
      BY <2>1
    <3> QED
      BY <2>2, <3>1, <3>2
  <2> QED
    BY <2>3, <2>4, <2>5 DEF Once
<1> QED
  BY <1>2, <1>3

\* The slot is wiped before the tail moves on.
LEMMA OnceWipe ==
  ASSUME TypeOK, Once, Wipe
  PROVE  Once'
<1>1. /\ th = "wipe" /\ th' = "advance" /\ slots' = [slots EXCEPT ![tail] = Empty]
      /\ UNCHANGED <<tail, cb, sent, handled>>
  BY DEF Wipe, callback, history
<1>2. \A k \in Index : slots'[k] = IF k = tail THEN Empty ELSE slots[k]
  BY <1>1 DEF TypeOK
<1>3. Parsed'
  BY <1>1 DEF Once, Parsed
<1>4. Stored'
  BY <1>1, <1>2 DEF Once, Stored
<1>5. Unparsed'
  BY <1>1, <1>2 DEF Once, Unparsed
<1> QED
  BY <1>3, <1>4, <1>5 DEF Once

\* Every step keeps the invariant, but for a close that meets the thread in the
\* middle of a message.
LEMMA OnceStep ==
  ASSUME TypeOK, Once, closes' = 0 \/ ~raced', [Next]_vars
  PROVE  Once'
<1>1. CASE AdvanceHead \/ LoadForIncrement \/ StoreIncrement
  BY <1>1, OnceElsewhere
     DEF AdvanceHead, LoadForIncrement, StoreIncrement, ring, thread, history
<1>2. CASE Poll \/ AdvanceTail \/ LoadForDecrement \/ StoreDecrement
  BY <1>2, OnceElsewhere
     DEF Poll, AdvanceTail, LoadForDecrement, StoreDecrement, ring, callback, history
<1>3. CASE Reconnect \/ Started \/ Connect \/ Disconnect
  BY <1>3, OnceElsewhere
     DEF Reconnect, ResetQueue, Started, Connect, Disconnect, ring, callback, thread,
         history
<1>4. CASE Close \/ Replace
  <2>1. Between
    <3>1. closes' # 0
      BY <1>4, BoundsAssumption DEF Close, Replace, TypeOK
    <3> QED
      BY <1>4, <3>1, RacedGrows
  <2> QED
    BY <1>4, <2>1, OnceElsewhere
       DEF Close, Replace, ResetQueue, Between, ring, callback, thread
<1>5. CASE UNCHANGED vars
  BY <1>5, OnceElsewhere DEF vars, ring, callback, thread, history
<1> QED
  BY <1>1, <1>2, <1>3, <1>4, <1>5, OnceArrive, OnceCopy, OnceParse, OnceWipe
  DEF Next, Callback, Thread

\* As long as casa_app has closed no session, or no update was lost, no message is
\* parsed twice (mqtt_handler.c:188, 451-461), for every depth, width and number of
\* messages: in particular not when updates overwrite each other within one session.
THEOREM NeverTwice == Spec => []HandledOnce
<1> DEFINE Inv == TypeOK /\ (closes = 0 \/ ~raced => Once)
<1>1. Init => Inv
  <2> SUFFICES ASSUME Init PROVE Once
    BY InitType
  <2> QED
    BY DEF Init, Once, Parsed, Stored, Unparsed
<1>2. Inv /\ [Next]_vars => Inv'
  BY TypeStep, OnceStep, ClosesGrow, RacedGrows
<1>3. Inv => HandledOnce
  BY DEF Once, Parsed, HandledOnce
<1> QED
  BY <1>1, <1>2, <1>3, PTL DEF Spec

-----------------------------------------------------------------------------
(* The slots as a sequence.                                                *)

\* The slot at a position that may have passed the end of the array once.
Slot(s, x) == s[x % Depth]

\* The n slots from position f on.
Content(s, f, n) == [i \in 1 .. n |-> Slot(s, f + i - 1)]

\* A position wraps at most once.
LEMMA Wrap ==
  \A x \in 0 .. 2 * Depth - 1 : x % Depth = IF x < Depth THEN x ELSE x - Depth
BY DepthAssumption

\* It is a sequence, as long as what it holds are messages.
LEMMA ContentIs ==
  ASSUME NEW s, NEW f \in Nat, NEW n \in Nat,
         \A i \in 1 .. n : Slot(s, f + i - 1) \in Message
  PROVE  /\ Content(s, f, n) \in Seq(Message)
         /\ Len(Content(s, f, n)) = n
         /\ \A i \in 1 .. n : Content(s, f, n)[i] = Slot(s, f + i - 1)
BY DEF Content

\* One slot more is one message more at the end.
LEMMA ContentAppend ==
  ASSUME NEW s, NEW f \in Nat, NEW n \in Nat,
         \A i \in 1 .. n + 1 : Slot(s, f + i - 1) \in Message
  PROVE  Content(s, f, n + 1) = Append(Content(s, f, n), Slot(s, f + n))
<1>1. \A i \in 1 .. n : Slot(s, f + i - 1) \in Message
  OBVIOUS
<1>2. /\ Content(s, f, n) \in Seq(Message) /\ Len(Content(s, f, n)) = n
      /\ \A i \in 1 .. n : Content(s, f, n)[i] = Slot(s, f + i - 1)
  BY <1>1, ContentIs
<1>3. (f + (n + 1)) - 1 = f + n
  OBVIOUS
<1> QED
  BY <1>2, <1>3 DEF Content

\* One slot less at the front is the tail.
LEMMA ContentTail ==
  ASSUME NEW s, NEW f \in Nat, NEW m \in Nat,
         \A i \in 1 .. m + 1 : Slot(s, f + i - 1) \in Message
  PROVE  /\ Content(s, f + 1, m) = Tail(Content(s, f, m + 1))
         /\ Content(s, f, m + 1) # <<>>
         /\ Head(Content(s, f, m + 1)) = Slot(s, f)
<1>1. PICK g \in Nat, n \in Nat : g = f + 1 /\ n = m + 1
  OBVIOUS
<1> DEFINE c == Content(s, f, n)
<1> DEFINE d == Content(s, g, m)
<1>2. /\ c \in Seq(Message) /\ Len(c) = n
      /\ \A i \in 1 .. n : c[i] = Slot(s, f + i - 1)
  BY <1>1, ContentIs, ZenonT(40)
<1>3. \A i \in 1 .. m : g + i - 1 = f + (i + 1) - 1 /\ i + 1 \in 1 .. n
  BY <1>1
<1>4. \A i \in 1 .. m : Slot(s, g + i - 1) \in Message
  <2> TAKE i \in 1 .. m
  <2>1. i + 1 \in 1 .. n /\ g + i - 1 = f + (i + 1) - 1
    BY <1>1
  <2>2. Slot(s, f + (i + 1) - 1) \in Message
    BY <1>1, <2>1
  <2> QED
    BY <2>1, <2>2
<1>5. /\ d \in Seq(Message) /\ Len(d) = m
      /\ \A i \in 1 .. m : d[i] = Slot(s, g + i - 1)
  BY <1>4, ContentIs
<1> HIDE DEF c, d
<1>6. c # <<>>
  BY <1>1, <1>2
<1>7. /\ Tail(c) \in Seq(Message) /\ Len(Tail(c)) = m
      /\ \A i \in 1 .. m : Tail(c)[i] = c[i + 1]
  BY <1>1, <1>2, <1>6, HeadTailProperties
<1>8. \A i \in 1 .. m : d[i] = Tail(c)[i]
  <2> TAKE i \in 1 .. m
  <2>1. Tail(c)[i] = c[i + 1] /\ i + 1 \in 1 .. n /\ g + i - 1 = f + (i + 1) - 1
    BY <1>3, <1>7
  <2>2. c[i + 1] = Slot(s, f + (i + 1) - 1)
    BY <1>2, <2>1
  <2>3. d[i] = Slot(s, g + i - 1)
    BY <1>5
  <2> QED
    BY <2>1, <2>2, <2>3
<1>9. d = Tail(c)
  BY <1>5, <1>7, <1>8, SeqEqual
<1>10. Head(c) = c[1] /\ (f + 1) - 1 = f
  BY <1>1, <1>2, <1>6
<1>11. Head(c) = Slot(s, f)
  BY <1>1, <1>2, <1>10
<1> QED
  BY <1>1, <1>6, <1>9, <1>11 DEF c, d

\* Positions less than Depth apart are different slots.
LEMMA Distinct ==
  ASSUME NEW x \in Nat, NEW y \in Nat, x < y, y < x + Depth, y <= 2 * Depth - 1
  PROVE  x % Depth \in Index /\ y % Depth \in Index /\ x % Depth # y % Depth
<1>1. Depth \in Nat \ {0}
  BY DepthAssumption
<1>2. x % Depth = IF x < Depth THEN x ELSE x - Depth
  BY <1>1, Wrap
<1>3. y % Depth = IF y < Depth THEN y ELSE y - Depth
  BY <1>1, Wrap
<1> QED
  BY <1>1, <1>2, <1>3 DEF Index

\* A front that moves on to the next index wraps with it.
LEMMA FrontMoves ==
  ASSUME NEW f \in Index, NEW g, g = (f + 1) % Depth
  PROVE  /\ g \in Index
         /\ \A j \in 0 .. Depth - 1 : (f + 1 + j) % Depth = (g + j) % Depth
<1>1. Depth \in Nat \ {0} /\ f \in 0 .. Depth - 1
  BY DepthAssumption DEF Index
<1>2. g = IF f + 1 < Depth THEN f + 1 ELSE 0
  BY <1>1, Wrap
<1>3. g \in 0 .. Depth - 1
  BY <1>1, <1>2
<1>4. ASSUME NEW j \in 0 .. Depth - 1
      PROVE  (f + 1 + j) % Depth = (g + j) % Depth
  <2> DEFINE x == f + 1 + j
  <2> DEFINE y == g + j
  <2>1. /\ x \in 0 .. 2 * Depth - 1 /\ y \in 0 .. 2 * Depth - 1
        /\ y = IF f + 1 < Depth THEN x ELSE x - Depth
        /\ f + 1 >= Depth => x >= Depth
        /\ y < Depth \/ f + 1 < Depth
    BY <1>1, <1>2, <1>3
  <2> HIDE DEF x, y
  <2>2. x % Depth = IF x < Depth THEN x ELSE x - Depth
    BY <2>1, Wrap
  <2>3. y % Depth = IF y < Depth THEN y ELSE y - Depth
    BY <2>1, Wrap
  <2>4. x % Depth = y % Depth
    BY <1>1, <2>1, <2>2, <2>3
  <2> QED
    BY <2>4 DEF x, y
<1> QED
  BY <1>3, <1>4 DEF Index

\* An end that moves on by one wraps with its position.
LEMMA EndMoves ==
  ASSUME NEW x \in Nat, x <= 2 * Depth - 2
  PROVE  ((x % Depth) + 1) % Depth = (x + 1) % Depth
<1>1. Depth \in Nat \ {0}
  BY DepthAssumption
<1>2. x % Depth = IF x < Depth THEN x ELSE x - Depth
  BY <1>1, Wrap
<1>3. (x + 1) % Depth = IF x + 1 < Depth THEN x + 1 ELSE x + 1 - Depth
  BY <1>1, Wrap
<1>4. (x % Depth) + 1 \in 0 .. Depth
  BY <1>1, <1>2
<1>5. ((x % Depth) + 1) % Depth =
        IF (x % Depth) + 1 < Depth THEN (x % Depth) + 1 ELSE (x % Depth) + 1 - Depth
  BY <1>1, <1>4, Wrap
<1> QED
  BY <1>1, <1>2, <1>3, <1>5

-----------------------------------------------------------------------------
(* The ring buffer is a queue.                                             *)

\* Where the pending messages begin, and how many there are.
First == IF th \in {"wipe", "advance"} THEN tail + 1 ELSE tail
Held == IF th \in {"wipe", "advance", "load", "store"} THEN count - 1 ELSE count

\* The callback has stored a message that is not counted yet.
Behind == cb \in {"advance", "load", "store"}
Advanced == IF cb \in {"load", "store"} THEN 1 ELSE 0

\* The slots that are counted hold messages, and the next one that of the callback.
Filled ==
  /\ \A i \in 1 .. Held : Slot(slots, First + i - 1) # Empty
  /\ Behind => Slot(slots, First + Held) = sent

\* The head is where the messages end.
Aligned == head = (First + Held + Advanced) % Depth

InOrder == Filled /\ Aligned

LEMMA PendingIs == Pending = Content(slots, First, Held)
BY DEF Pending, Content, Slot, First, Held, Busy

LEMMA PendingWillBe ==
  ASSUME NEW s, NEW f, NEW n, s = slots', f = First', n = Held'
  PROVE  Pending' = Content(s, f, n)
BY DEF Pending, Content, Slot, First, Held, Busy

\* The positions in use wrap at most once.
LEMMA Positions ==
  ASSUME TypeOK, CountStrict
  PROVE  /\ First \in 0 .. Depth /\ Held \in 0 .. Depth /\ First + Held <= 2 * Depth - 1
         /\ First = Depth => Held <= Depth - 1
         /\ th \in {"wipe", "advance", "load", "store"} => Held <= Depth - 1
         /\ cb \in {"copy", "advance", "load", "store"} =>
              Held <= Depth - 1 /\ First + Held <= 2 * Depth - 2
         /\ cb \in {"copy", "advance", "load", "store"} /\ th \in {"wipe", "advance"} =>
              Held <= Depth - 2
         /\ Depth \in Nat \ {0}
BY DepthAssumption, WidthAssumption DEF TypeOK, CountStrict, First, Held, Index

\* What is counted is a message.
LEMMA HeldMessages ==
  ASSUME TypeOK, CountStrict, InOrder
  PROVE  \A i \in 1 .. Held : Slot(slots, First + i - 1) \in Message
<1> TAKE i \in 1 .. Held
<1> DEFINE x == First + i - 1
<1>1. x \in 0 .. 2 * Depth - 1 /\ Depth \in Nat \ {0}
  BY Positions
<1>2. x % Depth = IF x < Depth THEN x ELSE x - Depth
  BY <1>1, Wrap
<1>3. x % Depth \in Index
  BY <1>1, <1>2 DEF Index
<1>4. slots[x % Depth] \in Message \cup {Empty}
  BY <1>3 DEF TypeOK
<1>5. Slot(slots, x) = slots[x % Depth]
  BY DEF Slot
<1>6. Slot(slots, x) # Empty
  BY DEF InOrder, Filled
<1> QED
  BY <1>4, <1>5, <1>6

\* A step that changes no pending message and does not move the ring.
LEMMA Silent ==
  ASSUME InOrder, UNCHANGED <<slots, First, Held, head, Advanced, handled>>,
         Behind' => Behind /\ UNCHANGED sent
  PROVE  InOrder' /\ UNCHANGED <<Pending, handled>>
<1> DEFINE f == First
<1> DEFINE n == Held
<1>1. Filled'
  BY DEF InOrder, Filled, Slot
<1>2. Aligned'
  BY DEF InOrder, Aligned
<1>3. Pending' = Pending
  BY PendingIs, PendingWillBe
<1> QED
  BY <1>1, <1>2, <1>3 DEF InOrder

\* The callback before it has stored anything, and while it loads the count.
LEMMA CallbackSilent ==
  ASSUME TypeOK, CountStrict, InOrder, Arrive \/ LoadForIncrement
  PROVE  InOrder' /\ UNCHANGED <<Pending, handled>>
<1>1. UNCHANGED <<slots, head, tail, count, th, thCount, handled>>
  BY DEF Arrive, LoadForIncrement, ring, thread, history
<1>2. UNCHANGED <<First, Held>>
  BY <1>1 DEF First, Held
<1>3. UNCHANGED Advanced
  BY DEF Arrive, LoadForIncrement, Advanced
<1>4. Behind' => Behind /\ UNCHANGED sent
  BY DEF Arrive, LoadForIncrement, Behind
<1> QED
  BY <1>1, <1>2, <1>3, <1>4, Silent

\* The thread while it sees a message, and loads the count, and the connection.
LEMMA ThreadSilent ==
  ASSUME TypeOK, CountStrict, InOrder,
         Poll \/ LoadForDecrement \/ Started \/ Connect \/ Disconnect \/ UNCHANGED vars
  PROVE  InOrder' /\ UNCHANGED <<Pending, handled>>
<1>1. UNCHANGED <<slots, head, tail, count, cb, cbCount, sent, handled>>
  BY DEF Poll, LoadForDecrement, Started, Connect, Disconnect, ring, callback, history, vars
<1>2. UNCHANGED <<First, Held>>
  BY <1>1 DEF First, Held, Poll, LoadForDecrement, Started, Connect, Disconnect, thread, vars
<1>3. UNCHANGED <<Advanced, Behind>>
  BY <1>1 DEF Advanced, Behind
<1> QED
  BY <1>1, <1>2, <1>3, Silent

\* The callback stores the message in the slot where the messages end.
LEMMA CopySilent ==
  ASSUME TypeOK, CountStrict, InOrder, Copy
  PROVE  InOrder' /\ UNCHANGED <<Pending, handled>>
<1>1. /\ cb = "copy" /\ cb' = "advance" /\ slots' = [slots EXCEPT ![head] = sent]
      /\ UNCHANGED <<head, tail, count, cbCount, th, thCount, sent, handled>>
  BY DEF Copy, thread, history
<1>2. First' = First /\ Held' = Held
  BY <1>1 DEF First, Held
<1>3. Advanced = 0 /\ Advanced' = 0
  BY <1>1 DEF Advanced
<1>4. PICK f, n, s, t, m :
        f = First /\ n = Held /\ s = slots /\ t = slots' /\ m = sent
  OBVIOUS
<1>5. head = (f + n) % Depth
  BY <1>3, <1>4, Positions DEF InOrder, Aligned
<1>6. /\ f \in Nat /\ n \in Nat /\ n < Depth /\ f + n < 2 * Depth
      /\ s \in [Index -> Message \cup {Empty}]
      /\ t = [s EXCEPT ![(f + n) % Depth] = m]
  <2>1. f \in Nat /\ n \in Nat /\ n < Depth /\ f + n < 2 * Depth
    BY <1>1, <1>4, Positions
  <2>2. s \in [Index -> Message \cup {Empty}]
    BY <1>4 DEF TypeOK
  <2>3. t = [s EXCEPT ![(f + n) % Depth] = m]
    BY <1>1, <1>4, <1>5, Zenon
  <2> QED
    BY <2>1, <2>2, <2>3
<1>7. Slot(t, f + n) = m
  <2>1. (f + n) % Depth \in Index
    BY <1>1, <1>4, <1>5 DEF TypeOK
  <2> QED
    BY <1>6, <2>1 DEF Slot
<1>8. \A i \in 1 .. n : Slot(t, f + i - 1) = Slot(s, f + i - 1)
  <2> TAKE i \in 1 .. n
  <2>1. /\ f + i - 1 \in Nat /\ f + n \in Nat /\ f + n <= 2 * Depth - 1
        /\ f + i - 1 < f + n /\ f + n < (f + i - 1) + Depth
    BY <1>6, DepthAssumption
  <2>2. (f + i - 1) % Depth \in Index /\ (f + i - 1) % Depth # (f + n) % Depth
    BY <2>1, Distinct
  <2> QED
    BY <1>6, <2>2 DEF Slot
<1>9. \A i \in 1 .. n : Slot(s, f + i - 1) # Empty
  BY <1>4 DEF InOrder, Filled
<1>10. Filled'
  <2>1. /\ \A i \in 1 .. n : Slot(t, f + i - 1) # Empty
        /\ Slot(t, f + n) = m
    BY <1>7, <1>8, <1>9
  <2> QED
    BY <1>1, <1>2, <1>4, <2>1 DEF Filled
<1>11. Aligned'
  BY <1>1, <1>2, <1>3 DEF InOrder, Aligned
<1>12. Content(t, f, n) = Content(s, f, n)
  BY <1>8 DEF Content
<1>13. Pending' = Pending
  BY <1>2, <1>4, <1>12, PendingIs, PendingWillBe
<1> QED
  BY <1>1, <1>10, <1>11, <1>13 DEF InOrder

\* The head moves on behind the message.
LEMMA HeadSilent ==
  ASSUME TypeOK, CountStrict, InOrder, AdvanceHead
  PROVE  InOrder' /\ UNCHANGED <<Pending, handled>>
<1>1. /\ cb = "advance" /\ cb' = "load" /\ head' = (head + 1) % Depth
      /\ UNCHANGED <<slots, tail, count, cbCount, th, thCount, sent, handled>>
  BY DEF AdvanceHead, thread, history
<1>2. First' = First /\ Held' = Held
  BY <1>1 DEF First, Held
<1>3. Advanced = 0 /\ Advanced' = 1
  BY <1>1 DEF Advanced
<1>4. First + Held \in Nat /\ First + Held <= 2 * Depth - 2
  BY <1>1, Positions
<1>5. head = (First + Held) % Depth
  BY <1>3, <1>4 DEF InOrder, Aligned
<1>6. head' = (First + Held + 1) % Depth
  BY <1>1, <1>4, <1>5, EndMoves
<1>7. Aligned'
  BY <1>2, <1>3, <1>6 DEF Aligned
<1>8. Filled'
  BY <1>1, <1>2 DEF InOrder, Filled, Behind, Slot
<1>9. Pending' = Pending
  BY <1>1, <1>2, PendingIs, PendingWillBe
<1> QED
  BY <1>1, <1>7, <1>8, <1>9 DEF InOrder

\* With the increment the message is accepted.
LEMMA IncrementAccepts ==
  ASSUME TypeOK, CountStrict, InOrder, StoreIncrement, cbCount = count
  PROVE  InOrder' /\ Queue!Accept
<1>1. /\ cb = "store" /\ cb' = "idle" /\ count < Depth
      /\ count' = (cbCount + 1) % Width
      /\ UNCHANGED <<slots, head, tail, th, thCount, sent, refused, forgotten, handled>>
  BY DEF StoreIncrement, CountStrict, thread
<1>2. count \in 0 .. Depth /\ count' = count + 1
  <2>1. count \in 0 .. Depth
    BY DepthAssumption, WidthAssumption DEF TypeOK, CountStrict
  <2> QED
    BY <1>1, <2>1, NoWrap
<1>3. First' = First /\ Held' = Held + 1
  BY <1>1, <1>2 DEF First, Held
<1>4. Advanced = 1 /\ Advanced' = 0 /\ Behind /\ ~Behind'
  BY <1>1 DEF Advanced, Behind
<1>5. PICK f, n, s, m : f = First /\ n = Held /\ s = slots /\ m = sent
  OBVIOUS
<1>6. sent \in Message /\ m \in Message /\ m # Empty
  BY <1>1, <1>5, EmptyAssumption DEF TypeOK
<1>7. f \in Nat /\ n \in Nat /\ Depth \in Nat /\ n < Depth
  <2>1. Held < Depth
    BY <1>1, <1>2, DepthAssumption DEF Held
  <2> QED
    BY <1>5, <2>1, Positions
<1>8. /\ \A i \in 1 .. n : Slot(s, f + i - 1) \in Message
      /\ Slot(s, f + n) = m
  BY <1>4, <1>5, HeldMessages DEF InOrder, Filled
<1>9. \A i \in 1 .. n + 1 : Slot(s, f + i - 1) \in Message
  <2> TAKE i \in 1 .. n + 1
  <2>1. i \in 1 .. n \/ (i = n + 1 /\ f + i - 1 = f + n)
    BY <1>7
  <2> QED
    BY <1>6, <1>8, <2>1
<1>10. Filled'
  <2>1. \A i \in 1 .. n + 1 : Slot(s, f + i - 1) # Empty
    BY <1>9, EmptyAssumption
  <2> QED
    BY <1>1, <1>3, <1>4, <1>5, <2>1 DEF Filled
<1>11. Aligned'
  <2>1. First' + Held' + Advanced' = First + Held + Advanced
    BY <1>3, <1>4, <1>5, <1>7
  <2> QED
    BY <1>1, <2>1 DEF InOrder, Aligned
<1>12. Pending = Content(s, f, n) /\ Pending' = Content(s, f, n + 1)
  BY <1>1, <1>3, <1>5, PendingIs, PendingWillBe
<1>13. Pending' = Append(Pending, sent)
  <2>1. Content(s, f, n + 1) = Append(Content(s, f, n), Slot(s, f + n))
    BY <1>7, <1>9, ContentAppend
  <2> QED
    BY <1>5, <1>8, <1>12, <2>1
<1>14. Len(Pending) = n
  BY <1>7, <1>8, <1>12, ContentIs
<1>15. Queue!Places < Depth
  <2>1. n + (IF Busy THEN 1 ELSE 0) = count
    BY <1>2, <1>5 DEF Held, Busy
  <2> QED
    BY <1>1, <1>14, <2>1 DEF Queue!Places
<1>16. Answered = sent - 1 /\ Answered' = sent /\ Answered + 1 = sent /\ Busy' = Busy
  BY <1>1, <1>6 DEF Answered, Busy, Message
<1> QED
  BY <1>1, <1>6, <1>10, <1>11, <1>13, <1>15, <1>16 DEF InOrder, Queue!Accept

\* Parsing hands the first message over.
LEMMA ParseHandles ==
  ASSUME TypeOK, CountStrict, InOrder, Parse
  PROVE  InOrder' /\ Queue!Handle
<1>1. /\ th = "parse" /\ th' = "wipe" /\ count > 0 /\ tail \in Index /\ count \in Nat
      /\ UNCHANGED <<slots, head, tail, count, cb, cbCount, thCount, sent, refused, forgotten>>
      /\ handled' = IF slots[tail] = Empty THEN handled ELSE Append(handled, slots[tail])
  BY DEF Parse, CountStrict, TypeOK, ring, callback
<1>2. PICK f, n, g, m, s :
        f = First /\ n = Held /\ g = First' /\ m = Held' /\ s = slots
  OBVIOUS
<1>3. /\ f \in Nat /\ n \in Nat /\ g \in Nat /\ m \in Nat
       /\ f = tail /\ g = f + 1 /\ n = m + 1 /\ n > 0
  BY <1>1, <1>2, DepthAssumption DEF First, Held, Index
<1>4. \A i \in 1 .. n : Slot(s, f + i - 1) \in Message
  BY <1>2, HeldMessages
<1>5. Pending = Content(s, f, n) /\ Pending' = Content(s, g, m)
  BY <1>1, <1>2, PendingIs, PendingWillBe
<1>6. /\ Pending' = Tail(Pending) /\ Pending # <<>> /\ Head(Pending) = Slot(s, f)
  <2>1. /\ Content(s, g, m) = Tail(Content(s, f, n))
        /\ Content(s, f, n) # <<>>
        /\ Head(Content(s, f, n)) = Slot(s, f)
    BY <1>3, <1>4, ContentTail, ZenonT(40)
  <2> QED
    BY <1>5, <2>1
<1>7. f % Depth = f
  BY <1>1, <1>3, Wrap, DepthAssumption DEF Index
<1>8. Slot(s, f) = slots[tail]
  BY <1>2, <1>3, <1>7 DEF Slot
<1>9. slots[tail] # Empty
  <2>1. 1 \in 1 .. n /\ f + 1 - 1 = f
    BY <1>3
  <2>2. Slot(s, f + 1 - 1) \in Message
    BY <1>4, <2>1
  <2> QED
    BY <1>8, <2>1, <2>2, EmptyAssumption
<1>10. handled' = Append(handled, Head(Pending))
  BY <1>1, <1>6, <1>8, <1>9
<1>11. Filled'
  <2>1. \A i \in 1 .. m : Slot(s, g + i - 1) # Empty
    <3> TAKE i \in 1 .. m
    <3>1. i + 1 \in 1 .. n /\ g + i - 1 = f + (i + 1) - 1
      BY <1>3
    <3>2. Slot(s, f + (i + 1) - 1) \in Message
      BY <1>4, <3>1
    <3> QED
      BY <3>1, <3>2, EmptyAssumption
  <2>2. g + m = f + n
    BY <1>3
  <2>3. Behind' => Slot(s, g + m) = sent
    BY <1>1, <1>2, <2>2 DEF InOrder, Filled, Behind
  <2> QED
    BY <1>1, <1>2, <2>1, <2>3 DEF Filled
<1>12. Aligned'
  <2>1. Advanced' = Advanced /\ First' + Held' = First + Held
    BY <1>1, <1>2, <1>3 DEF Advanced
  <2> QED
    BY <1>1, <2>1 DEF InOrder, Aligned
<1>13. ~Busy /\ Busy' = TRUE /\ Answered' = Answered
  BY <1>1 DEF Busy, Answered
<1> QED
  BY <1>1, <1>6, <1>10, <1>11, <1>12, <1>13 DEF InOrder, Queue!Handle

\* The slot that is wiped is none of those that hold a message.
LEMMA WipeSilent ==
  ASSUME TypeOK, CountStrict, InOrder, Wipe
  PROVE  InOrder' /\ UNCHANGED <<Pending, handled>>
<1>1. /\ th = "wipe" /\ th' = "advance" /\ tail \in Index
      /\ slots' = [slots EXCEPT ![tail] = Empty]
      /\ UNCHANGED <<head, tail, count, cb, cbCount, thCount, sent, handled>>
  BY DEF Wipe, TypeOK, callback, history
<1>2. First' = First /\ Held' = Held /\ First = tail + 1
  BY <1>1 DEF First, Held
<1>3. PICK f, n, s, t, d :
        f = First /\ n = Held /\ s = slots /\ t = slots' /\ d = tail
  OBVIOUS
<1>4. /\ f \in Nat /\ n \in Nat /\ f = d + 1 /\ n <= Depth - 1 /\ Depth \in Nat
      /\ d \in Nat /\ d \in Index /\ s \in [Index -> Message \cup {Empty}]
      /\ t = [s EXCEPT ![d] = Empty]
  BY <1>1, <1>2, <1>3, Positions DEF Index, TypeOK
<1>5. \A x \in d + 1 .. d + Depth - 1 : Slot(t, x) = Slot(s, x)
  <2> TAKE x \in d + 1 .. d + Depth - 1
  <2>1. x \in Nat /\ d < x /\ x < d + Depth /\ x <= 2 * Depth - 1
    BY <1>4 DEF Index
  <2>2. x % Depth \in Index /\ d % Depth # x % Depth
    BY <1>4, <2>1, Distinct
  <2>3. d % Depth = d
    BY <1>4, Wrap DEF Index
  <2> QED
    BY <1>4, <2>2, <2>3 DEF Slot
<1>6. \A i \in 1 .. n : Slot(t, f + i - 1) = Slot(s, f + i - 1)
  <2> TAKE i \in 1 .. n
  <2>1. f + i - 1 \in d + 1 .. d + Depth - 1
    BY <1>4
  <2> QED
    BY <1>5, <2>1
<1>7. Behind => Slot(t, f + n) = Slot(s, f + n)
  <2> SUFFICES ASSUME Behind PROVE Slot(t, f + n) = Slot(s, f + n)
    OBVIOUS
  <2>1. n <= Depth - 2
    BY <1>1, <1>3, Positions DEF Behind
  <2>2. f + n \in d + 1 .. d + Depth - 1
    BY <1>4, <2>1
  <2> QED
    BY <1>5, <2>2
<1>8. Filled'
  <2>1. /\ \A i \in 1 .. n : Slot(s, f + i - 1) # Empty
        /\ Behind => Slot(s, f + n) = sent
    BY <1>3 DEF InOrder, Filled
  <2>2. /\ \A i \in 1 .. n : Slot(t, f + i - 1) # Empty
        /\ Behind => Slot(t, f + n) = sent
    BY <1>6, <1>7, <2>1
  <2>3. Behind' = Behind
    BY <1>1 DEF Behind
  <2> QED
    BY <1>1, <1>2, <1>3, <2>2, <2>3 DEF Filled
<1>9. Aligned'
  BY <1>1, <1>2 DEF InOrder, Aligned, Advanced
<1>10. Content(t, f, n) = Content(s, f, n)
  BY <1>6 DEF Content
<1>11. Pending' = Pending
  BY <1>2, <1>3, <1>10, PendingIs, PendingWillBe
<1> QED
  BY <1>1, <1>8, <1>9, <1>11 DEF InOrder

\* The tail moves on to where the messages begin already.
LEMMA TailSilent ==
  ASSUME TypeOK, CountStrict, InOrder, AdvanceTail
  PROVE  InOrder' /\ UNCHANGED <<Pending, handled>>
<1>1. /\ th = "advance" /\ th' = "load" /\ tail \in Index
      /\ tail' = (tail + 1) % Depth
      /\ UNCHANGED <<slots, head, count, cb, cbCount, thCount, sent, handled>>
  BY DEF AdvanceTail, TypeOK, callback, history
<1>2. PICK f, n, s, d, e, a :
        f = First /\ n = Held /\ s = slots /\ d = tail /\ e = tail' /\ a = Advanced
  OBVIOUS
<1>3. f \in Nat /\ n \in Nat /\ d \in Index /\ f = d + 1
  BY <1>1, <1>2, Positions DEF First, Index
<1>4. First' = e /\ Held' = n /\ e = (d + 1) % Depth /\ Advanced' = a
  BY <1>1, <1>2 DEF First, Held, Advanced
<1>5. /\ e \in Index
      /\ \A j \in 0 .. Depth - 1 : (d + 1 + j) % Depth = (e + j) % Depth
  BY <1>3, <1>4, FrontMoves
<1>6. n <= Depth - 1 /\ Depth \in Nat /\ d \in Nat /\ e \in Nat
  BY <1>1, <1>2, <1>3, <1>5, Positions DEF Index
<1>7. \A j \in 0 .. Depth - 1 : Slot(s, f + j) = Slot(s, e + j)
  BY <1>3, <1>5 DEF Slot
<1>8. \A i \in 1 .. n : Slot(s, f + i - 1) = Slot(s, e + i - 1)
  <2> TAKE i \in 1 .. n
  <2>1. /\ i - 1 \in 0 .. Depth - 1
        /\ f + i - 1 = f + (i - 1) /\ e + i - 1 = e + (i - 1)
    BY <1>3, <1>6
  <2> QED
    BY <1>7, <2>1
<1>9. Slot(s, f + n) = Slot(s, e + n)
  BY <1>3, <1>6, <1>7
<1>10. Filled'
  <2>1. /\ \A i \in 1 .. n : Slot(s, f + i - 1) # Empty
        /\ Behind => Slot(s, f + n) = sent
    BY <1>2 DEF InOrder, Filled
  <2>2. /\ \A i \in 1 .. n : Slot(s, e + i - 1) # Empty
        /\ Behind => Slot(s, e + n) = sent
    BY <1>8, <1>9, <2>1
  <2>3. Behind' = Behind
    BY <1>1 DEF Behind
  <2> QED
    BY <1>1, <1>2, <1>4, <2>2, <2>3 DEF Filled
<1>11. Aligned'
  <2>1. a \in {0, 1} /\ (a = 1 => n <= Depth - 2)
    BY <1>1, <1>2, Positions DEF Advanced
  <2>2. n + a \in 0 .. Depth - 1
    BY <1>3, <1>6, <2>1
  <2>3. f + n + a = d + 1 + (n + a) /\ e + n + a = e + (n + a)
    BY <1>3, <1>6, <2>1
  <2>4. head = (d + 1 + (n + a)) % Depth
    BY <1>2, <2>3 DEF InOrder, Aligned
  <2>5. head = (e + n + a) % Depth
    BY <1>5, <2>2, <2>3, <2>4
  <2> QED
    BY <1>1, <1>4, <2>5 DEF Aligned
<1>13. Content(s, f, n) = Content(s, e, n)
  BY <1>8 DEF Content
<1>14. Pending' = Pending
  BY <1>1, <1>2, <1>4, <1>13, PendingIs, PendingWillBe
<1> QED
  BY <1>1, <1>10, <1>11, <1>14 DEF InOrder

\* The count follows what is pending.
LEMMA DecrementSilent ==
  ASSUME TypeOK, CountStrict, InOrder, StoreDecrement, thCount = count
  PROVE  InOrder' /\ Queue!Done
<1>1. /\ th = "store" /\ th' = "poll" /\ count > 0
      /\ count' = (thCount + Width - 1) % Width
      /\ UNCHANGED <<slots, head, tail, cb, cbCount, sent, refused, forgotten, handled>>
  BY DEF StoreDecrement, CountStrict, callback
<1>2. count' = count - 1
  BY <1>1, NoWrap DEF TypeOK, CountStrict
<1>3. UNCHANGED <<First, Held, Advanced, Behind>>
  BY <1>1, <1>2 DEF First, Held, Advanced, Behind
<1>4. InOrder' /\ UNCHANGED Pending
  BY <1>1, <1>3, Silent
<1>5. Busy /\ Busy' = FALSE /\ Answered' = Answered
  BY <1>1 DEF Busy, Answered
<1> QED
  BY <1>1, <1>4, <1>5 DEF Queue!Done

\* Whoever closes the session forgets what is pending.
LEMMA CloseCloses ==
  ASSUME TypeOK, Reconnect \/ Close, Between
  PROVE  InOrder' /\ Queue!Close
<1>1. /\ cb = "idle" /\ cb' = "idle" /\ Between' /\ head' = 0 /\ tail' = 0 /\ count' = 0
      /\ forgotten' = sent /\ UNCHANGED <<slots, sent, refused, handled>>
  BY DEF Reconnect, Close, ResetQueue, callback, thread, Between
<1>2. First' = 0 /\ Held' = 0 /\ Advanced' = 0 /\ ~Behind'
  BY <1>1 DEF First, Held, Advanced, Behind, Between
<1>3. 0 % Depth = 0
  BY Wrap, DepthAssumption
<1>4. InOrder'
  BY <1>1, <1>2, <1>3 DEF InOrder, Filled, Aligned
<1>5. PICK s : s = slots'
  OBVIOUS
<1>6. Pending' = Content(s, 0, 0)
  BY <1>2, <1>5, PendingWillBe
<1>7. Content(s, 0, 0) = <<>>
  BY DEF Content
<1>8. ~Busy /\ Busy' = Busy /\ Answered = sent /\ Answered' = Answered
  BY <1>1 DEF Busy, Between, Answered
<1> QED
  BY <1>1, <1>4, <1>6, <1>7, <1>8 DEF Queue!Close

\* A message that is refused finds every place taken.
LEMMA ArriveRefused ==
  ASSUME TypeOK, CountStrict, InOrder, Arrive, count >= Depth
  PROVE  InOrder' /\ Queue!Refuse
<1>1. /\ cb = "idle" /\ cb' = "idle" /\ sent' = sent + 1 /\ sent < MaxArrivals
      /\ refused' = refused \cup {sent + 1}
      /\ UNCHANGED <<ring, thread, forgotten, handled>>
  BY DEF Arrive
<1>2. InOrder' /\ UNCHANGED <<Pending, handled>>
  BY CallbackSilent
<1>3. Depth \in Nat /\ count = Depth
  BY DepthAssumption, WidthAssumption DEF TypeOK, CountStrict
<1>4. Len(Pending) = Held
  <2>1. First \in Nat /\ Held \in Nat
    BY Positions
  <2> QED
    BY <2>1, HeldMessages, PendingIs, ContentIs
<1>5. Queue!Places = Depth
  <2>1. Held + (IF Busy THEN 1 ELSE 0) = count
    BY <1>3 DEF Held, Busy
  <2> QED
    BY <1>3, <1>4, <2>1 DEF Queue!Places
<1>6. Answered = sent /\ Answered' = sent + 1 /\ Busy' = Busy
  BY <1>1 DEF Answered, Busy, thread
<1>7. sent + 1 \in Message
  BY <1>1, BoundsAssumption DEF TypeOK, Message
<1> QED
  BY <1>1, <1>2, <1>5, <1>6, <1>7 DEF Queue!Refuse

\* Every step of the ring buffer is one of the queue or none, up to the first lost
\* update of the count or interrupted message.
LEMMA QueueStep ==
  ASSUME TypeOK, CountStrict, InOrder, ~raced', [Next]_vars
  PROVE  InOrder' /\ [Queue!Works]_(Queue!vars)
<1>0. ~raced /\ raced' = raced
  BY RacedGrows, TypeStep DEF TypeOK
<1>1. CASE StoreIncrement
  BY <1>1, IncrementAccepts, RacedGrows DEF Queue!Works
<1>2. CASE Parse
  BY <1>2, ParseHandles DEF Queue!Works
<1>3. CASE Reconnect \/ Close
  <2>1. Between
    BY <1>3, RacedGrows DEF Reconnect, Between
  <2> QED
    BY <1>3, <2>1, CloseCloses DEF Queue!Works
<1>4. CASE StoreDecrement
  BY <1>4, DecrementSilent, RacedGrows DEF Queue!Works
<1>5. CASE Arrive /\ count >= Depth
  BY <1>5, ArriveRefused DEF Queue!Works
<1>6. CASE Arrive /\ ~(count >= Depth)
  <2>1. InOrder' /\ UNCHANGED <<Pending, handled>>
    BY <1>6, CallbackSilent
  <2>2. /\ UNCHANGED <<th, refused, forgotten>> /\ sent' = sent + 1
        /\ cb = "idle" /\ cb' = "copy" /\ sent \in Nat
    BY <1>6, BoundsAssumption DEF Arrive, thread, TypeOK
  <2>3. UNCHANGED <<Busy, Answered>>
    BY <2>2 DEF Answered, Busy
  <2> QED
    BY <1>0, <2>1, <2>2, <2>3 DEF Queue!vars
<1>7. CASE Replace
  <2>1. Between /\ Between'
    BY <1>7, RacedGrows DEF Replace, Between
  <2>2. UNCHANGED <<slots, head, tail, count, cb, sent, refused, forgotten, handled>>
    BY <1>7 DEF Replace, ring, callback
  <2>3. UNCHANGED <<First, Held, Advanced, Behind, Busy, Answered>>
    BY <2>1, <2>2 DEF Between, First, Held, Advanced, Behind, Busy, Answered
  <2>4. InOrder' /\ UNCHANGED Pending
    BY <2>2, <2>3, Silent
  <2> QED
    BY <1>0, <2>2, <2>3, <2>4 DEF Queue!vars
<1>8. CASE LoadForIncrement \/ Copy \/ AdvanceHead
  <2>1. InOrder' /\ UNCHANGED <<Pending, handled>>
    BY <1>8, CallbackSilent, CopySilent, HeadSilent
  <2>2. UNCHANGED <<Busy, Answered, refused, forgotten>>
    BY <1>8 DEF LoadForIncrement, Copy, AdvanceHead, Busy, Answered, thread, history
  <2> QED
    BY <1>0, <2>1, <2>2 DEF Queue!vars
<1>9. CASE \/ Poll \/ LoadForDecrement \/ Started \/ Connect \/ Disconnect
           \/ Wipe \/ AdvanceTail \/ UNCHANGED vars
  <2>1. InOrder' /\ UNCHANGED <<Pending, handled>>
    BY <1>9, ThreadSilent, WipeSilent, TailSilent
  <2>2. UNCHANGED <<Busy, Answered, refused, forgotten>>
    BY <1>9
    DEF Poll, LoadForDecrement, Started, Connect, Disconnect, Wipe, AdvanceTail, vars,
        Busy, Answered, callback, thread, history
  <2> QED
    BY <1>0, <2>1, <2>2 DEF Queue!vars
<1> QED
  BY <1>1, <1>2, <1>3, <1>4, <1>5, <1>6, <1>7, <1>8, <1>9 DEF Next, Callback, Thread

\* The ring buffer implements the queue: up to the first lost update of the count or
\* interrupted message, every message that arrives is accepted, or refused with every
\* place taken, and every accepted one is handed to the parser once and in order or
\* forgotten by a close (mqtt_handler.c:165-190, 451-466): for every depth, number of
\* messages and of closes, and every order of the three threads.
THEOREM RingIsQueue == Spec => ImplementsQueue
<1> DEFINE Inv == TypeOK /\ (~raced => CountStrict /\ InOrder)
<1>1. Init => Inv /\ Queue!Init
  <2> SUFFICES ASSUME Init PROVE Inv /\ Queue!Init
    OBVIOUS
  <2>1. TypeOK /\ CountStrict
    BY InitType, DepthAssumption DEF Init, CountStrict
  <2>2. First = 0 /\ Held = 0 /\ Advanced = 0 /\ ~Behind
    BY DEF Init, First, Held, Advanced, Behind
  <2>3. 0 % Depth = 0
    BY Wrap, DepthAssumption
  <2>4. InOrder
    BY <2>2, <2>3 DEF Init, InOrder, Filled, Aligned
  <2>5. Pending = <<>>
    BY <2>2, PendingIs DEF Content
  <2>6. Busy = FALSE /\ Answered = 0
    BY DEF Init, Busy, Answered
  <2> QED
    BY <2>1, <2>4, <2>5, <2>6 DEF Init, Queue!Init
<1>2. Inv /\ [Next]_vars => Inv' /\ [Queue!Next]_(Queue!vars)
  <2> SUFFICES ASSUME Inv, [Next]_vars PROVE Inv' /\ [Queue!Next]_(Queue!vars)
    OBVIOUS
  <2>1. TypeOK'
    BY TypeStep
  <2>2. CASE raced'
    BY <2>1, <2>2 DEF Queue!Next, Queue!Breaks
  <2>3. CASE ~raced'
    BY <2>1, <2>3, RacedGrows, StrictStep, QueueStep DEF Queue!Next, Queue!Works
  <2> QED
    BY <2>2, <2>3
<1> QED
  BY <1>1, <1>2, PTL DEF Spec, ImplementsQueue, Queue!Spec

-----------------------------------------------------------------------------
(* What is dropped.                                                        *)

\* What is parsed stays in its slot until it is wiped.
Kept == th = "wipe" => slots[tail] # Empty

LEMMA KeptStep ==
  ASSUME TypeOK, CountStrict, InOrder, Kept, ~raced', [Next]_vars
  PROVE  Kept'
<1>1. CASE Parse
  <2>1. /\ th = "parse" /\ count > 0 /\ count \in Nat /\ tail \in Index
        /\ UNCHANGED <<slots, tail>>
    BY <1>1 DEF Parse, CountStrict, TypeOK, ring
  <2>2. First = tail /\ Held = count
    BY <2>1 DEF First, Held
  <2>3. 1 \in 1 .. Held /\ tail \in Nat /\ tail + 1 - 1 = tail
    BY <2>1, <2>2, DepthAssumption DEF Index
  <2>4. Slot(slots, tail + 1 - 1) # Empty
    BY <2>2, <2>3 DEF InOrder, Filled
  <2>5. tail % Depth = tail
    BY <2>1, Wrap, DepthAssumption DEF Index
  <2>6. slots[tail] # Empty
    BY <2>3, <2>4, <2>5 DEF Slot
  <2> QED
    BY <2>1, <2>6 DEF Kept
<1>2. CASE Copy
  <2>1. /\ UNCHANGED <<th, tail>> /\ slots' = [slots EXCEPT ![head] = sent]
        /\ sent \in Message /\ head \in Index /\ tail \in Index
    BY <1>2 DEF Copy, TypeOK, thread
  <2> QED
    BY <2>1, EmptyAssumption DEF Kept, TypeOK
<1>3. CASE Arrive \/ AdvanceHead \/ LoadForIncrement \/ StoreIncrement
  BY <1>3
  DEF Kept, Arrive, AdvanceHead, LoadForIncrement, StoreIncrement, ring, thread
<1>4. CASE Connect \/ Disconnect \/ UNCHANGED vars
  BY <1>4 DEF Kept, Connect, Disconnect, ring, thread, vars
<1>5. CASE Poll \/ Wipe \/ AdvanceTail \/ LoadForDecrement \/ StoreDecrement
  BY <1>5 DEF Kept, Poll, Wipe, AdvanceTail, LoadForDecrement, StoreDecrement
<1>6. CASE Reconnect \/ Started
  BY <1>6 DEF Kept, Reconnect, Started
<1>7. CASE Close \/ Replace
  BY <1>7, RacedGrows DEF Kept, Close, Replace, Between, thread
<1> QED
  BY <1>1, <1>2, <1>3, <1>4, <1>5, <1>6, <1>7 DEF Next, Callback, Thread

\* Depth positions in a row are all the slots there are.
LEMMA Cover ==
  ASSUME NEW f \in 0 .. Depth, NEW i \in Index
  PROVE  \E k \in 1 .. Depth : (f + k - 1) % Depth = i
<1>1. Depth \in Nat \ {0} /\ i \in 0 .. Depth - 1
  BY DepthAssumption DEF Index
<1>2. CASE f <= i
  <2>1. i - f + 1 \in 1 .. Depth /\ f + (i - f + 1) - 1 = i
    BY <1>1, <1>2
  <2>2. i % Depth = i
    BY <1>1, Wrap
  <2> QED
    BY <2>1, <2>2
<1>3. CASE i < f
  <2>1. /\ i + Depth - f + 1 \in 1 .. Depth
        /\ f + (i + Depth - f + 1) - 1 = i + Depth
        /\ i + Depth \in 0 .. 2 * Depth - 1 /\ ~(i + Depth < Depth)
    BY <1>1, <1>3
  <2>2. (i + Depth) % Depth = (i + Depth) - Depth
    BY <1>1, <2>1, Wrap
  <2>3. (i + Depth) - Depth = i
    BY <1>1
  <2> QED
    BY <2>1, <2>2, <2>3
<1> QED
  BY <1>1, <1>2, <1>3

\* A message is dropped only when every slot is taken, counting the one the thread
\* is giving back (mqtt_handler.c:466), up to the first lost update of the count or
\* interrupted message: for every depth, number of messages and of closes.
THEOREM DropsOnlyWhenFull == Spec => DropsOnlyOnOverflow
<1> DEFINE Inv == TypeOK /\ (~raced => CountStrict /\ InOrder /\ Kept)
<1> DEFINE Full == \A i \in Index : \/ slots[i] # Empty
                                    \/ th = "advance" /\ i = tail
                                    \/ /\ th \in {"load", "store"}
                                       /\ i = (tail + Depth - 1) % Depth
<1>1. Init => Inv
  <2> SUFFICES ASSUME Init PROVE Inv
    OBVIOUS
  <2>1. TypeOK /\ CountStrict /\ Kept
    BY InitType, DepthAssumption DEF Init, CountStrict, Kept
  <2>2. First = 0 /\ Held = 0 /\ Advanced = 0 /\ ~Behind
    BY DEF Init, First, Held, Advanced, Behind
  <2>3. 0 % Depth = 0
    BY Wrap, DepthAssumption
  <2> QED
    BY <2>1, <2>2, <2>3 DEF Init, InOrder, Filled, Aligned
<1>2. Inv /\ [Next]_vars => Inv'
  <2> SUFFICES ASSUME Inv, [Next]_vars PROVE Inv'
    OBVIOUS
  <2>1. TypeOK'
    BY TypeStep
  <2> QED
    BY <2>1, RacedGrows, StrictStep, QueueStep, KeptStep
<1>3. ASSUME Inv, [Next]_vars, refused' # refused, ~raced PROVE Full
  <2>1. Arrive /\ count >= Depth
    <3>1. Arrive
      BY <1>3
      DEF Next, Callback, Copy, AdvanceHead, LoadForIncrement, StoreIncrement,
          Thread, Poll, Parse, Wipe, AdvanceTail, LoadForDecrement, StoreDecrement,
          Reconnect, Started, Close, Replace, ResetQueue, Connect, Disconnect, history, vars
    <3> QED
      BY <1>3, <3>1 DEF Arrive
  <2>2. /\ Depth \in Nat \ {0} /\ count = Depth /\ tail \in Index /\ tail \in Nat
        /\ th \in ThPc
    BY <1>3, <2>1, DepthAssumption, WidthAssumption DEF TypeOK, CountStrict, Index
  <2>3. /\ First \in 0 .. Depth
        /\ \A i \in 1 .. Held : slots[(First + i - 1) % Depth] # Empty
    BY <1>3, Positions DEF InOrder, Filled, Slot
  <2>4. CASE th \in {"poll", "parse", "starting"}
    <3>1. Held = Depth
      BY <2>2, <2>4 DEF Held
    <3> QED
      BY <2>3, <3>1, Cover
  <2>5. CASE th \in {"load", "store"}
    <3>1. Held = Depth - 1 /\ First = tail
      BY <2>2, <2>5 DEF First, Held
    <3>2. \A k \in 1 .. Depth : k \in 1 .. Held \/ k = Depth
      BY <2>2, <3>1
    <3>3. \A i \in Index : slots[i] # Empty \/ i = (tail + Depth - 1) % Depth
      BY <2>3, <3>1, <3>2, Cover
    <3> QED
      BY <2>5, <3>3
  <2>6. CASE th \in {"wipe", "advance"}
    <3>1. Held = Depth - 1 /\ First = tail + 1
      BY <2>2, <2>6 DEF First, Held
    <3>2. \A k \in 1 .. Depth : k \in 1 .. Held \/ k = Depth
      BY <2>2, <3>1
    <3>3. (First + Depth - 1) % Depth = tail
      <4>1. First + Depth - 1 = tail + Depth /\ tail + Depth \in 0 .. 2 * Depth - 1
        BY <2>2, <3>1 DEF Index
      <4>2. (tail + Depth) % Depth = tail + Depth - Depth
        BY <2>2, <4>1, Wrap
      <4> QED
        BY <2>2, <4>1, <4>2
    <3>4. \A i \in Index : slots[i] # Empty \/ i = tail
      BY <2>3, <3>2, <3>3, Cover
    <3>5. th = "wipe" => slots[tail] # Empty
      BY <1>3 DEF Kept
    <3> QED
      BY <2>6, <3>4, <3>5
  <2> QED
    BY <2>1, <2>2, <2>4, <2>5, <2>6 DEF ThPc
<1>4. Inv /\ [Next]_vars => [refused' # refused /\ ~raced => Full]_vars
  BY <1>3
<1> QED
  BY <1>1, <1>2, <1>4, PTL DEF Spec, DropsOnlyOnOverflow
=============================================================================

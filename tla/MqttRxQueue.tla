---------------------------- MODULE MqttRxQueue ----------------------------
(***************************************************************************)
(* The ring buffer of mqtt_handler.c between the MQTT client, which calls  *)
(* mqtt_message_callback() in a thread of its own, and the thread          *)
(* mqtt_reconnection_check(), which parses.  head, tail and count are      *)
(* volatile but not protected: count is loaded, changed and stored by both *)
(* sides, and mqtt_app_close() resets all three: the thread calls it before*)
(* it reconnects, casa_app when a registration starts a session, when it   *)
(* has failed, and when the device is de-registered.                       *)
(***************************************************************************)
EXTENDS Naturals, Sequences

CONSTANTS
  Depth,       \* MQTT_RX_QUEUE_DEPTH
  Width,       \* number of values of the uint8_t count
  Empty,       \* a slot without a message
  MaxArrivals, \* bound: messages the broker sends
  MaxCloses    \* bound: calls of mqtt_app_close() by casa_app

ASSUME DepthAssumption == Depth \in Nat \ {0}
ASSUME WidthAssumption == Width \in Nat /\ Depth < Width
ASSUME BoundsAssumption == MaxArrivals \in Nat /\ MaxCloses \in Nat

\* Messages are numbered in the order the broker sends them.
Message == 1 .. MaxArrivals

ASSUME EmptyAssumption == Empty \notin Message

Index == 0 .. Depth - 1

VARIABLES
  slots,     \* mqtt_rx_parse_queue
  head,      \* mqtt_rx_head
  tail,      \* mqtt_rx_tail
  count,     \* mqtt_rx_count
  connected, \* mqtt_connection_check
  cb,        \* where the callback is, and the value of count it has loaded
  cbCount,
  th,        \* where the thread is, and the value of count it has loaded
  thCount,
  sent,      \* messages the broker has sent
  closes,    \* calls of mqtt_app_close() by casa_app
  replaced,  \* threads casa_app has terminated
  forgotten, \* history: messages sent before the latest mqtt_app_close()
  refused,   \* history: messages dropped
  handled,   \* history: what has been handed to casa_message_parser()
  raced      \* history: an update of count has overwritten another one, or the
             \* thread was in the middle of a message when it was reset

ring == <<slots, head, tail, count>>
callback == <<cb, cbCount>>
thread == <<th, thCount>>
history == <<forgotten, refused, handled, raced>>
app == <<closes, replaced>>
vars == <<ring, connected, callback, thread, sent, app, history>>

Init ==
  /\ slots = [i \in Index |-> Empty]
  /\ head = 0 /\ tail = 0 /\ count = 0
  /\ connected \in BOOLEAN
  /\ cb = "idle" /\ cbCount = 0
  /\ th = "poll" /\ thCount = 0
  /\ sent = 0 /\ closes = 0 /\ replaced = 0
  /\ forgotten = 0 /\ refused = {} /\ handled = <<>> /\ raced = FALSE

\* The thread is between messages.
Between == th \in {"poll", "starting"}

-----------------------------------------------------------------------------
(* mqtt_message_callback()                                                 *)

\* Mutant of Arrive: one message more than there are slots.
Arrive_OneTooMany ==
  /\ cb = "idle" /\ connected
  /\ sent < MaxArrivals
  /\ sent' = sent + 1
  /\ IF count > Depth
       THEN refused' = refused \cup {sent + 1} /\ UNCHANGED cb
       ELSE cb' = "copy" /\ UNCHANGED refused
  /\ UNCHANGED <<ring, connected, cbCount, thread, app, forgotten,
                 handled, raced>>

\* Mutant of Arrive: the last slot is never used.
Arrive_OneTooFew ==
  /\ cb = "idle" /\ connected
  /\ sent < MaxArrivals
  /\ sent' = sent + 1
  /\ IF count >= Depth - 1
       THEN refused' = refused \cup {sent + 1} /\ UNCHANGED cb
       ELSE cb' = "copy" /\ UNCHANGED refused
  /\ UNCHANGED <<ring, connected, cbCount, thread, app, forgotten,
                 handled, raced>>

\* A full queue drops the message.
Arrive ==
  /\ cb = "idle" /\ connected
  /\ sent < MaxArrivals
  /\ sent' = sent + 1
  /\ IF count >= Depth
       THEN refused' = refused \cup {sent + 1} /\ UNCHANGED cb
       ELSE cb' = "copy" /\ UNCHANGED refused
  /\ UNCHANGED <<ring, connected, cbCount, thread, app, forgotten,
                 handled, raced>>

Copy ==
  /\ cb = "copy"
  /\ slots' = [slots EXCEPT ![head] = sent]
  /\ cb' = "advance"
  /\ UNCHANGED <<head, tail, count, connected, cbCount, thread, sent, app,
                 history>>

AdvanceHead ==
  /\ cb = "advance"
  /\ head' = (head + 1) % Depth
  /\ cb' = "load"
  /\ UNCHANGED <<slots, tail, count, connected, cbCount, thread, sent, app,
                 history>>

\* mqtt_rx_count++
LoadForIncrement ==
  /\ cb = "load"
  /\ cbCount' = count
  /\ cb' = "store"
  /\ UNCHANGED <<ring, connected, thread, sent, app, history>>

StoreIncrement ==
  /\ cb = "store"
  /\ count' = (cbCount + 1) % Width
  /\ raced' = (raced \/ cbCount # count)
  /\ cb' = "idle"
  /\ UNCHANGED <<slots, head, tail, connected, cbCount, thread, sent, app,
                 forgotten, refused, handled>>

Callback ==
  \/ Copy \/ AdvanceHead \/ LoadForIncrement \/ StoreIncrement

-----------------------------------------------------------------------------
(* mqtt_reconnection_check()                                               *)

\* Mutant of Poll: the last message is left in the queue.
Poll_LeavesOne ==
  /\ th = "poll"
  /\ connected /\ count > 1
  /\ th' = "parse"
  /\ UNCHANGED <<ring, connected, callback, thCount, sent, app, history>>

Poll ==
  /\ th = "poll"
  /\ connected /\ count > 0
  /\ th' = "parse"
  /\ UNCHANGED <<ring, connected, callback, thCount, sent, app, history>>

\* casa_message_parser() fails on an empty slot, and changes nothing here.
Parse ==
  /\ th = "parse"
  /\ handled' = IF slots[tail] = Empty THEN handled
                ELSE Append(handled, slots[tail])
  /\ th' = "wipe"
  /\ UNCHANGED <<ring, connected, callback, thCount, sent, app, forgotten,
                 refused, raced>>

\* Mutant of Wipe: the slot keeps its message.
Wipe_KeepsSlot ==
  /\ th = "wipe"
  /\ th' = "advance"
  /\ UNCHANGED <<ring, connected, callback, thCount, sent, app, history>>

Wipe ==
  /\ th = "wipe"
  /\ slots' = [slots EXCEPT ![tail] = Empty]
  /\ th' = "advance"
  /\ UNCHANGED <<head, tail, count, connected, callback, thCount, sent,
                 app, history>>

AdvanceTail ==
  /\ th = "advance"
  /\ tail' = (tail + 1) % Depth
  /\ th' = "load"
  /\ UNCHANGED <<slots, head, count, connected, callback, thCount, sent,
                 app, history>>

\* mqtt_rx_count--
LoadForDecrement ==
  /\ th = "load"
  /\ thCount' = count
  /\ th' = "store"
  /\ UNCHANGED <<ring, connected, callback, sent, app, history>>

StoreDecrement ==
  /\ th = "store"
  /\ count' = (thCount + Width - 1) % Width
  /\ raced' = (raced \/ thCount # count)
  /\ th' = "poll"
  /\ UNCHANGED <<slots, head, tail, connected, callback, thCount, sent,
                 app, forgotten, refused, handled>>

Thread ==
  \/ Poll \/ Parse \/ Wipe \/ AdvanceTail \/ LoadForDecrement
  \/ StoreDecrement

-----------------------------------------------------------------------------
(* The connection.                                                         *)

\* mqtt_app_close(), when the client is gone and calls back no more.  The
\* slots keep what they hold.
ResetQueue ==
  /\ cb = "idle"
  /\ head' = 0 /\ tail' = 0 /\ count' = 0
  /\ forgotten' = sent
  /\ UNCHANGED <<slots, callback, refused, handled>>

\* The thread finds the connection lost: mqtt_app_start() begins with
\* mqtt_app_close() ...
Reconnect ==
  /\ th = "poll"
  /\ ~connected
  /\ ResetQueue
  /\ th' = "starting"
  /\ UNCHANGED <<connected, thCount, sent, app, raced>>

\* ... and returns with a connection or without one.
Started ==
  /\ th = "starting"
  /\ th' = "poll"
  /\ UNCHANGED <<ring, connected, callback, thCount, sent, app, history>>

\* casa_app closes the session, wherever the thread is, and may start another.
Close ==
  /\ closes < MaxCloses
  /\ ResetQueue
  /\ raced' = (raced \/ ~Between)
  /\ closes' = closes + 1
  /\ connected' = FALSE
  /\ UNCHANGED <<thread, sent, replaced>>

\* After a close casa_app may terminate the thread, wherever it is; the one it
\* creates later starts from the top.
Replace ==
  /\ replaced < closes
  /\ replaced' = replaced + 1
  /\ th' = "poll"
  /\ raced' = (raced \/ ~Between)
  /\ UNCHANGED <<ring, connected, callback, thCount, sent, closes, forgotten,
                 refused, handled>>

\* mqtt_event_handler(), once somebody has called mqtt_app_start().
Connect ==
  /\ ~connected /\ cb = "idle"
  /\ th = "starting" \/ closes > 0
  /\ connected' = TRUE
  /\ UNCHANGED <<ring, callback, thread, sent, app, history>>

Disconnect ==
  /\ connected
  /\ connected' = FALSE
  /\ UNCHANGED <<ring, callback, thread, sent, app, history>>

Next ==
  \/ Arrive \/ Callback \/ Thread
  \/ Reconnect \/ Started \/ Close \/ Replace \/ Connect \/ Disconnect

Spec == Init /\ [][Next]_vars

(***************************************************************************)
(* Fairness.  Both threads are scheduled; the thread polls every 10 ms for *)
(* as long as there is a connection, and mqtt_app_start() returns.         *)
(***************************************************************************)
FairSpec == Spec /\ WF_vars(Callback) /\ WF_vars(Thread) /\ WF_vars(Started)

-----------------------------------------------------------------------------

CbPc == {"idle", "copy", "advance", "load", "store"}
ThPc == {"poll", "parse", "wipe", "advance", "load", "store", "starting"}

\* Every variable has its type; both indices stay within the arrays.
TypeOK ==
  /\ slots \in [Index -> Message \cup {Empty}]
  /\ head \in Index /\ tail \in Index
  /\ count \in 0 .. Width - 1
  /\ connected \in BOOLEAN
  /\ cb \in CbPc /\ cbCount \in 0 .. Width - 1
  /\ th \in ThPc /\ thCount \in 0 .. Width - 1
  /\ sent \in 0 .. MaxArrivals /\ (cb # "idle" => sent \in Message)
  /\ closes \in 0 .. MaxCloses /\ replaced \in 0 .. closes
  /\ forgotten \in 0 .. MaxArrivals
  /\ refused \subseteq Message
  /\ handled \in Seq(Message) /\ raced \in BOOLEAN

\* The unsigned count never goes below zero or beyond the depth, unless casa_app has
\* reset it under the thread: not even when an update of one side overwrites an
\* update of the other (mqtt_handler.c:188, 461).
CountInRange == closes = 0 \/ ~raced => count <= Depth

\* No message is parsed twice, unless casa_app has reset the indices under the
\* thread: not even when the two sides have lost track of how many there are.
HandledOnce ==
  closes = 0 \/ ~raced =>
    \A i, j \in 1 .. Len(handled) : i # j => handled[i] # handled[j]

\* The thread has a message in hand whose slot is not given back.
Busy == th \in {"wipe", "advance", "load", "store"}

\* The messages accepted and not yet handed to the parser, oldest first.
Pending ==
  LET first == IF th \in {"wipe", "advance"} THEN tail + 1 ELSE tail
      n     == IF Busy THEN count - 1 ELSE count
  IN  [i \in 1 .. n |-> slots[(first + i - 1) % Depth]]

\* The messages of the broker that were accepted or refused.
Answered == IF cb = "idle" THEN sent ELSE sent - 1

\* The ring buffer is a message queue: a message that arrives is accepted, or it is
\* refused and Depth messages are held; an accepted one is handed to the parser once
\* and in order, or forgotten by mqtt_app_close(), which is noted.  That holds up to
\* the first time an update of the count is lost or the thread is cut off in the
\* middle of a message; that it does happen in the end is EveryMessageHandled.
Queue == INSTANCE MessageQueue WITH
           queue <- Pending, busy <- Busy, answered <- Answered, broken <- raced
ImplementsQueue == Queue!Spec

\* A message is dropped only because of an overflow of the queue
\* (mqtt_handler.c:466): every slot is taken, counting the one the thread is giving
\* back, unless an update of the count was lost or the thread was cut off.
DropsOnlyOnOverflow ==
  [][refused' # refused /\ ~raced =>
       \A i \in Index : \/ slots[i] # Empty
                        \/ th = "advance" /\ i = tail
                        \/ /\ th \in {"load", "store"}
                           /\ i = (tail + Depth - 1) % Depth]_vars

\* As long as the session lasts, an accepted message is handed to the parser
\* (mqtt_handler.c:451), unless an update of the count was lost or the thread was cut
\* off in the middle of a message.
Accepted(m) == m <= sent /\ m \notin refused /\ (m = sent => cb = "idle")
WasHandled(m) == \E i \in 1 .. Len(handled) : handled[i] = m
EveryMessageHandled ==
  \A m \in Message :
    Accepted(m) ~> (WasHandled(m) \/ m <= forgotten \/ ~connected \/ raced)
=============================================================================

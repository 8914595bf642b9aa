---------------------------- MODULE BleAssembler ----------------------------
(***************************************************************************)
(* How bluetooth.c puts a registration request together.  The mobile app   *)
(* writes the JSON text in packets, one write request at a time; the BLE   *)
(* thread, casa_ble_process(), collects the bytes in                       *)
(* casa_ctx.registration->ble_buffer and takes the text for complete when  *)
(* every brace is closed.                                                  *)
(*                                                                         *)
(* The depth is a static variable of the write handler: it outlives        *)
(* connections, contexts and the thread itself.  The variable brace_depth  *)
(* that the connection events reset is another one, which the handler's    *)
(* hides; it and the global ble_data_counter have no reader and are left   *)
(* out, and so are the bytes '\n', '\r' and '\t', which are skipped.       *)
(***************************************************************************)
EXTENDS Integers, Sequences, FiniteSets

CONSTANTS
  Capacity,    \* BLE_MAX_REQ_SIZE - 1
  PacketSize,  \* what one write request can carry
  Texts,       \* the texts of requests the phone may send
  MaxRequests  \* bound: requests the phone begins

\* A byte of a text: a brace that opens or closes an object, or anything else.
Byte == {"open", "close", "other"}

\* The places of a byte among the first k of a text.
Places(t, c, k) == {j \in 1 .. k : t[j] = c}
\* How many braces are open after these.
Nesting(t, k) == Cardinality(Places(t, "open", k)) - Cardinality(Places(t, "close", k))
\* A JSON object with no brace in its strings: the last byte closes the first brace.
IsObject(t) ==
  /\ t \in Seq(Byte) /\ Len(t) > 1
  /\ \A k \in 1 .. Len(t) - 1 : Nesting(t, k) > 0
  /\ Nesting(t, Len(t)) = 0

ASSUME SizesAssumption == Capacity \in Nat \ {0} /\ PacketSize \in Nat \ {0}
ASSUME TextsAssumption == \A text \in Texts : IsObject(text)
ASSUME MaxRequestsAssumption == MaxRequests \in Nat

VARIABLES
  attempt,   \* casa_ctx.registration # NULL
  depth,     \* the static brace_depth of the write handler
  ble_buffer, \* of the context, its first ble_data_counter bytes
  full,      \* buffer_status of the context
  event_map, \* ble_app_event_map
  packet,    \* app_ble_write_event
  todo,      \* the bytes of the packet in hand the handler has not seen
  linked,    \* phone and device are connected
  rest,      \* what the phone has still to write of its request
  waiting,   \* the phone waits for a write response
  request,   \* history: the request the phone sends or has sent
  whole,     \* history: one attempt has lasted since the phone began it, and the
             \* phone has not cut it short
  stuck,     \* history: it began behind one that was cut short, whose open braces
             \* were still counted or whose last packet was still to be handled
  begun,     \* history: requests begun
  captured   \* history: what was taken for a complete request last

context == <<attempt, ble_buffer, full>>
peer == <<linked, rest, waiting, request, begun>>
assemblerVars == <<context, depth, event_map, packet, todo, peer, whole, stuck,
                   captured>>

AssemblerInit ==
  /\ attempt = TRUE
  /\ depth = 0
  /\ ble_buffer = <<>> /\ full = FALSE
  /\ event_map = {}
  /\ packet = <<>> /\ todo = <<>>
  /\ linked = FALSE /\ rest = <<>> /\ waiting = FALSE
  /\ request = <<>> /\ whole = FALSE /\ stuck = FALSE /\ begun = 0
  /\ captured = <<>>

-----------------------------------------------------------------------------
(* The BLE thread takes the pending event with the lowest number.          *)

HandleConnection ==
  /\ \/ "CONN" \in event_map /\ event_map' = event_map \ {"CONN"}
     \/ "CONN" \notin event_map /\ "DISCONN" \in event_map
        /\ event_map' = event_map \ {"DISCONN"}
  /\ UNCHANGED <<context, depth, packet, todo, peer, whole, stuck, captured>>

\* Without a context the packet is ignored and its write request is answered.
HandleWrite ==
  /\ event_map = {"WRITE"}
  /\ event_map' = {}
  /\ todo' = IF attempt THEN packet ELSE <<>>
  /\ waiting' = (waiting /\ attempt)
  /\ stuck' = (stuck \/ (attempt /\ ~waiting))
  /\ UNCHANGED <<context, depth, packet, linked, rest, request, begun, whole,
                 captured>>

-----------------------------------------------------------------------------
(* The loop over the bytes of a packet.                                     *)

\* A new object after a complete one that has left a count behind starts afresh.
Kept(c) == IF c = "open" /\ depth = 0 THEN <<>> ELSE ble_buffer
Opened(c) == IF c = "open" THEN depth + 1 ELSE depth
Closed(c) == IF c = "close" /\ Opened(c) > 0 THEN Opened(c) - 1 ELSE Opened(c)
Collected(c) == IF Opened(c) > 0 THEN Append(Kept(c), c) ELSE Kept(c)

\* Mutant of TooLong: no room is left for the NUL.
TooLong_NoRoomForNul(c) == Opened(c) > 0 /\ Len(Kept(c)) > Capacity
TooLong(c) == Opened(c) > 0 /\ Len(Kept(c)) >= Capacity

\* Mutant of Complete: the first closing brace ends the text.
Complete_AtFirstBrace(c) == c = "close" /\ Collected(c) # <<>>
Complete(c) == c = "close" /\ Closed(c) = 0 /\ Collected(c) # <<>>

\* The write request is answered after the last byte.
Answer == waiting' = (waiting /\ todo' # <<>>)

\* Mutant of GiveUp: the depth is left behind.
GiveUp_KeepsDepth ==
  /\ todo # <<>> /\ TooLong(Head(todo))
  /\ ble_buffer' = <<>>
  /\ todo' = <<>> /\ Answer
  /\ UNCHANGED <<attempt, full, depth, event_map, packet, linked, rest, request, begun,
                 whole, stuck, captured>>
\* The text is too long for the buffer: what follows in the packet is ignored.
GiveUp ==
  /\ todo # <<>> /\ TooLong(Head(todo))
  /\ ble_buffer' = <<>> /\ depth' = 0
  /\ todo' = <<>> /\ Answer
  /\ UNCHANGED <<attempt, full, event_map, packet, linked, rest, request, begun, whole,
                 stuck, captured>>

\* The text in the buffer is complete when its last brace is closed.
HandleByte ==
  /\ todo # <<>> /\ ~TooLong(Head(todo))
  /\ LET c == Head(todo)
     IN  /\ depth' = IF Complete(c) THEN 0 ELSE Closed(c)
         /\ ble_buffer' = IF Complete(c) THEN <<>> ELSE Collected(c)
         /\ full' = (full \/ Complete(c))
         /\ captured' = IF Complete(c) THEN Collected(c) ELSE captured
  /\ todo' = Tail(todo) /\ Answer
  /\ UNCHANGED <<attempt, event_map, packet, linked, rest, request, begun, whole,
                 stuck>>

-----------------------------------------------------------------------------
(* casa_registration() makes the context, starts BLE and, sooner or later, *)
(* stops BLE and frees the context.                                        *)

Sending == rest # <<>> \/ waiting

\* casa_ble_init() forgets the events, but not the depth.
AttemptBegins ==
  /\ ~attempt
  /\ attempt' = TRUE
  /\ ble_buffer' = <<>> /\ full' = FALSE
  /\ event_map' = {}
  /\ UNCHANGED <<depth, packet, todo, peer, whole, stuck, captured>>

\* stop_ble_service(): the link stays up when rsi_bt_deinit() fails.
AttemptEnds ==
  /\ attempt
  /\ attempt' = FALSE
  /\ ble_buffer' = <<>> /\ full' = FALSE
  /\ whole' = FALSE
  /\ \/ UNCHANGED <<linked, rest, waiting>>
     \/ linked' = FALSE /\ rest' = <<>> /\ waiting' = FALSE
  /\ UNCHANGED <<depth, event_map, packet, todo, request, begun, stuck, captured>>

-----------------------------------------------------------------------------
(* The mobile app, and the callbacks its requests lead to.  The device     *)
(* advertises, and has its connection callbacks registered, during an      *)
(* attempt only.                                                           *)

PhoneConnect ==
  /\ ~linked /\ attempt
  /\ linked' = TRUE
  /\ event_map' = event_map \cup {"CONN"}
  /\ UNCHANGED <<context, depth, packet, todo, rest, waiting, request, begun,
                 whole, stuck, captured>>

PhoneDisconnect ==
  /\ linked
  /\ linked' = FALSE
  /\ rest' = <<>> /\ waiting' = FALSE
  /\ whole' = (whole /\ ~Sending)
  /\ event_map' = IF attempt THEN event_map \cup {"DISCONN"} ELSE event_map
  /\ UNCHANGED <<context, depth, packet, todo, request, begun, stuck, captured>>

PhoneBegin(text) ==
  /\ linked /\ ~Sending
  /\ begun < MaxRequests
  /\ begun' = begun + 1
  /\ request' = text /\ rest' = text
  /\ whole' = attempt
  /\ stuck' = (depth # 0)
  /\ UNCHANGED <<context, depth, event_map, packet, todo, linked, waiting, captured>>

\* A write request: the next one waits for the response to this one.
PhoneWrite(size) ==
  /\ linked /\ rest # <<>> /\ ~waiting
  /\ size \in 1 .. PacketSize /\ size <= Len(rest)
  /\ packet' = SubSeq(rest, 1, size)
  /\ rest' = SubSeq(rest, size + 1, Len(rest))
  /\ waiting' = TRUE
  /\ event_map' = event_map \cup {"WRITE"}
  /\ UNCHANGED <<context, depth, todo, linked, request, begun, whole, stuck, captured>>

\* Nothing comes between the bytes of a packet.
AssemblerNext ==
  \/ HandleByte \/ GiveUp
  \/ /\ todo = <<>>
     /\ \/ HandleConnection \/ HandleWrite
        \/ AttemptBegins \/ AttemptEnds
        \/ PhoneConnect \/ PhoneDisconnect
        \/ \E text \in Texts : PhoneBegin(text)
        \/ \E size \in 1 .. PacketSize : PhoneWrite(size)

AssemblerSpec == AssemblerInit /\ [][AssemblerNext]_assemblerVars

-----------------------------------------------------------------------------

\* Every variable has its type; what is collected fits into the buffer, with room for
\* the NUL (bluetooth.c:555), and no more braces are open than were collected, unless
\* they are those of a request that was cut short.
AssemblerTypeOK ==
  /\ attempt \in BOOLEAN
  /\ ble_buffer \in Seq(Byte) /\ Len(ble_buffer) <= Capacity
  /\ depth \in Nat /\ (whole /\ ~stuck => depth <= Len(ble_buffer))
  /\ full \in BOOLEAN
  /\ event_map \subseteq {"CONN", "DISCONN", "WRITE"}
  /\ packet \in Seq(Byte) /\ todo \in Seq(Byte)
  /\ linked \in BOOLEAN /\ rest \in Seq(Byte) /\ waiting \in BOOLEAN
  /\ request \in Texts \cup {<<>>} /\ whole \in BOOLEAN /\ stuck \in BOOLEAN
  /\ begun \in 0 .. MaxRequests
  /\ captured \in Seq(Byte)

\* An object that lies in a text behind the byte the buffer had no room for.
InTail(object, text) ==
  /\ IsObject(object)
  /\ \E i, j \in Capacity + 2 .. Len(text) : object = SubSeq(text, i, j)

\* What is taken for a complete JSON object (bluetooth.c:570) is the request the phone
\* sends, however the text was cut into packets and whatever was sent before it, or an
\* object in the rest of one that is too long.  The request must have begun with the
\* count at zero, behind no packet of one that was cut short, and in an attempt that
\* still lasts.
CapturedIsRequest ==
  [][captured' # captured /\ whole /\ ~stuck =>
       captured' = request \/ InTail(captured', request)]_assemblerVars

\* A request that was sent from end to end during one attempt is recognised if it
\* fits, and leaves the count at zero for the next one in any case.  It must itself
\* have begun with the count at zero, behind no packet of one that was cut short: so
\* it takes a request cut short, and nothing else, for one not to be recognised.
RequestIsRecognised ==
  (whole /\ ~stuck /\ ~Sending) =>
    /\ depth = 0
    /\ Len(request) <= Capacity => captured = request

\* "If we see a brace but the counter is stuck from a previous failed attempt, reset"
\* (bluetooth.c:544): a request that fits and was sent from end to end during one
\* attempt is recognised, whatever became of earlier ones.
StuckCounterIsReset ==
  (whole /\ ~Sending /\ Len(request) <= Capacity) => captured = request
=============================================================================

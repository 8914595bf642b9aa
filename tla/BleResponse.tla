----------------------------- MODULE BleResponse -----------------------------
(***************************************************************************)
(* How the answers of a registration reach the phone (bluetooth.c).        *)
(* casa_app hands a response over with rsi_ble_send_json_response(), which *)
(* sends it when the phone waits for one and keeps it in the one buffer    *)
(* pending_ble_response otherwise.  The BLE thread, casa_ble_process(),    *)
(* answers every read request of the phone with what is pending, or with   *)
(* "{}".  The callbacks of the stack tell the thread of connections and    *)
(* requests by the bits of ble_app_event_map; they run above the threads,  *)
(* which do not cut them short.                                            *)
(*                                                                         *)
(* The write requests are in BleAssembler.tla.  A call of the driver that  *)
(* sends a response blocks: the radio takes the text when the call begins, *)
(* and the caller learns what became of it in a later step.                *)
(***************************************************************************)
EXTENDS Naturals

CONSTANTS
  Nothing, Empty, \* an empty pending_ble_response; the text "{}"
  MaxResponses,   \* bound: responses casa_app hands over
  MaxReads,       \* bound: read requests
  MaxLinks        \* bound: connections

ASSUME BoundsAssumption ==
  MaxResponses \in Nat /\ MaxReads \in Nat /\ MaxLinks \in Nat
ASSUME TextAssumption == Nothing # Empty /\ {Nothing, Empty} \cap Nat = {}

Response == 1 .. MaxResponses
Event == {"conn", "disconn", "read"}

VARIABLES
  events,  \* ble_app_event_map
  token,   \* ble_main_task_sem
  valid,   \* app_ble_read_req_valid
  window,  \* app_ble_read_rsp_window_open
  pending, \* pending_ble_response
  bpc,     \* where the BLE thread is
  event,   \* the event it deals with
  loaded,  \* what it will store in the event map
  payload, \* the text it has chosen to send
  queued,  \* payload == pending_ble_response: it sends what is in the buffer by then
  apc,     \* where casa_app is
  ok,      \* what the driver will return to each caller
  link,    \* the radio: "down", "advertising" or "up"
  asked,   \* the phone waits for the answer to a read request
  handed,  \* responses handed over so far; the last is the one in hand
  told,    \* history: the newest response the phone has read
  owed,    \* history: the response the phone has still to get
  since,   \* history: responses handed over before the phone connected
  missed,  \* history: the events of this connection that were lost
  failed,  \* history: an answer failed though the phone waited for it
  stale,   \* history: who was answering already when the phone connected
  early,   \* history: the last response came before its connection was dealt with
  clash,   \* history: the last response got in the way of an answer, see Answering
  reads, links \* bounds

buffer == <<valid, window, pending>>
answer == <<payload, queued>>
radio == <<link, asked, told, owed>>
history == <<since, missed, failed, stale, early, clash>>
Callers == {"ble", "app"}
bounds == <<reads, links>>
vars == <<events, token, buffer, bpc, event, loaded, answer, apc, ok, radio, handed,
          history, bounds>>

Init ==
  /\ events = {} /\ token = FALSE
  /\ valid = FALSE /\ window = FALSE /\ pending = Nothing
  /\ bpc = "look" /\ event = "none" /\ loaded = {} /\ payload = Nothing /\ queued = FALSE
  /\ apc = "idle" /\ ok = [c \in Callers |-> TRUE]
  /\ link = "advertising" /\ asked = FALSE /\ told = 0 /\ owed = Nothing
  /\ handed = 0 /\ since = 0 /\ missed = {} /\ failed = FALSE /\ stale = {}
  /\ early = FALSE /\ clash = FALSE
  /\ reads = 0 /\ links = 0

\* The thread sends what is pending: from the choice to the end of the answer.
Answering == queued

\* The thread has not dealt with the connection yet.
Unseen == "conn" \in events \/ event = "conn"

-----------------------------------------------------------------------------
(* The callbacks of the stack.                                             *)

\* rsi_ble_app_set_event(): lost when the thread is about to store what it has
\* loaded before.
Lost(e) == IF bpc = "clear" THEN {e} ELSE {}

SetEvent(e) ==
  /\ events' = events \cup {e}
  /\ token' = TRUE
  /\ UNCHANGED <<bpc, event, loaded, answer, apc, ok, handed, early, clash>>

OnConnect ==
  /\ link = "advertising" /\ links < MaxLinks
  /\ link' = "up" /\ links' = links + 1
  /\ since' = handed /\ missed' = Lost("conn") /\ failed' = FALSE
  /\ stale' = (IF event = "read" THEN {"ble"} ELSE {})
                 \cup (IF apc # "idle" THEN {"app"} ELSE {})
  /\ SetEvent("conn")
  /\ UNCHANGED <<buffer, asked, told, owed, reads>>

OnDisconnect ==
  /\ link = "up"
  /\ link' = "down" /\ asked' = FALSE /\ owed' = Nothing
  /\ missed' = missed \cup Lost("disconn")
  /\ SetEvent("disconn")
  /\ UNCHANGED <<buffer, told, since, failed, stale, bounds>>

\* The phone has one request in hand at a time.
OnReadReq ==
  /\ link = "up" /\ ~asked /\ reads < MaxReads
  /\ asked' = TRUE /\ reads' = reads + 1
  /\ valid' = TRUE
  /\ missed' = missed \cup Lost("read")
  /\ SetEvent("read")
  /\ UNCHANGED <<window, pending, link, told, owed, since, failed, stale, links>>

-----------------------------------------------------------------------------
(* The radio.                                                              *)

\* The stack takes an answer to a request, and refuses one that nobody asked for; it
\* may fail.  The phone reads one of the texts, 0 being none of interest.
Send(c, texts) ==
  /\ \E taken \in {asked, FALSE}, r \in texts :
       /\ ok' = [ok EXCEPT ![c] = taken]
       /\ failed' = (failed \/ taken # asked)
       /\ asked' = (asked /\ ~taken)
       /\ told' = IF taken /\ r # 0 THEN r ELSE told
       /\ owed' = IF taken /\ r = owed THEN Nothing ELSE owed
  /\ UNCHANGED link

-----------------------------------------------------------------------------
(* casa_ble_process()                                                      *)

\* rsi_ble_app_get_event(): the lowest bit.
Lowest(map) ==
  CASE "conn" \in map -> "conn"
    [] "conn" \notin map /\ "disconn" \in map -> "disconn"
    [] OTHER -> "read"

Look ==
  /\ bpc = "look"
  /\ IF events = {} THEN bpc' = "wait" /\ UNCHANGED event
                    ELSE bpc' = "found" /\ event' = Lowest(events)
  /\ UNCHANGED <<events, token, buffer, loaded, answer, apc, ok, radio, handed, history, bounds>>

Wait ==
  /\ bpc = "wait" /\ token
  /\ token' = FALSE
  /\ bpc' = "look"
  /\ UNCHANGED <<events, buffer, event, loaded, answer, apc, ok, radio, handed, history, bounds>>

\* The text is chosen before the event is cleared.
Choose ==
  /\ bpc = "found" /\ event = "read"
  /\ payload' = IF pending = Nothing THEN Empty ELSE pending
  /\ queued' = (pending # Nothing)
  /\ clash' = (clash \/ (queued' /\ apc = "send"))
  /\ bpc' = "chosen"
  /\ UNCHANGED <<events, token, buffer, event, loaded, apc, ok, radio, handed,
                 since, missed, failed, stale, early, bounds>>

\* Mutant: the whole map is cleared.
Cleared_All(map, e) == {}
\* rsi_ble_app_clear_event(), of what it loads.
Cleared(map, e) == map \ {e}

Load ==
  /\ bpc = IF event = "read" THEN "chosen" ELSE "found"
  /\ loaded' = Cleared(events, event)
  /\ bpc' = "clear"
  /\ UNCHANGED <<events, token, buffer, event, answer, apc, ok, radio, handed, history, bounds>>

Store ==
  /\ bpc = "clear"
  /\ events' = loaded /\ loaded' = {}
  /\ bpc' = "act"
  /\ UNCHANGED <<token, buffer, event, answer, apc, ok, radio, handed, history, bounds>>

\* The connection events forget what was meant for an earlier phone.
Forget ==
  /\ valid' = FALSE /\ window' = FALSE /\ pending' = Nothing
  /\ event' = "none"
  /\ stale' = IF apc = "idle" THEN {} ELSE stale
  /\ UNCHANGED <<events, token, loaded, answer, apc, ok, radio, handed,
                 since, missed, failed, early, clash, bounds>>

\* Mutant: what is pending outlives the new connection.
Connected_KeepsPending ==
  /\ bpc = "act" /\ event = "conn"
  /\ valid' = FALSE /\ window' = FALSE
  /\ event' = "none" /\ bpc' = "look"
  /\ stale' = IF apc = "idle" THEN {} ELSE stale
  /\ UNCHANGED <<events, token, pending, loaded, answer, apc, ok, radio, handed,
                 since, missed, failed, early, clash, bounds>>
Connected ==
  /\ bpc = "act" /\ event = "conn"
  /\ Forget
  /\ bpc' = "look"

Disconnected ==
  /\ bpc = "act" /\ event = "disconn"
  /\ Forget
  /\ bpc' = "advertise"

\* Mutant: one attempt only.
Advertise_Once ==
  /\ bpc = "advertise"
  /\ bpc' = "look"
  /\ link' \in IF link = "down" THEN {"advertising", "down"} ELSE {link}
  /\ UNCHANGED <<events, token, buffer, event, loaded, answer, apc, ok, asked, told, owed,
                 handed, history, bounds>>
\* rsi_ble_start_advertising() is tried until it succeeds, which it cannot while
\* a phone is connected.
Advertise ==
  /\ bpc = "advertise" /\ link # "up"
  /\ link' = "advertising"
  /\ bpc' = "look"
  /\ UNCHANGED <<events, token, buffer, event, loaded, answer, apc, ok, asked, told, owed,
                 handed, history, bounds>>

ReadRequested ==
  /\ bpc = "act" /\ event = "read"
  /\ window' = TRUE /\ valid' = TRUE
  /\ bpc' = "open"
  /\ UNCHANGED <<events, token, pending, event, loaded, answer, apc, ok, radio, handed,
                 history, bounds>>

\* What is in the buffer is sent with the length of the text chosen: a text that has
\* replaced it since may reach the phone in part only, which is of no use to it.
Sendable ==
  CASE ~queued \/ pending \notin Response -> {0}
    [] queued /\ pending \in Response /\ pending = payload -> {pending}
    [] OTHER -> {0, pending}

SendAnswer ==
  /\ bpc = "open"
  /\ Send("ble", Sendable)
  /\ bpc' = "send"
  /\ UNCHANGED <<events, token, buffer, event, loaded, answer, apc, handed,
                 since, missed, stale, early, clash, bounds>>

AnswerEnds ==
  /\ bpc = "send"
  /\ window' = FALSE /\ valid' = FALSE
  /\ payload' = Nothing /\ queued' = FALSE
  /\ event' = "none" /\ bpc' = "look"
  /\ stale' = stale \ {"ble"}
  /\ clash' = (clash \/ (~ok["ble"] /\ ~queued /\ pending \in Response))
  /\ UNCHANGED <<events, token, loaded, apc, ok, radio, handed,
                 since, missed, failed, early, bounds>>

\* Mutant: the buffer is emptied whatever became of the answer.
ReadAnswered_AlwaysClears == AnswerEnds /\ pending' = Nothing
\* The text is told from "{}" by its address.
ReadAnswered ==
  /\ AnswerEnds
  /\ pending' = CASE ok["ble"] /\ queued   -> Nothing
                  [] ~ok["ble"] /\ ~queued -> Empty
                  [] OTHER                 -> pending

-----------------------------------------------------------------------------
(* rsi_ble_send_json_response(), called by casa_app.                       *)

\* It looks at the two flags first.
Hand ==
  /\ apc = "idle" /\ handed < MaxResponses
  /\ handed' = handed + 1
  /\ owed' = IF link = "up" THEN handed' ELSE Nothing
  /\ early' = Unseen
  /\ apc' = IF valid /\ window THEN "answer" ELSE "keep"
  /\ UNCHANGED <<events, token, buffer, bpc, event, loaded, answer, ok, link, asked, told,
                 since, missed, failed, stale, clash, bounds>>

\* What is left of a call that began before the phone connected goes with the next.
Stale == IF handed > since THEN stale \ {"app"} ELSE stale

Keep ==
  /\ apc = "keep"
  /\ pending' = handed
  /\ clash' = Answering
  /\ stale' = Stale
  /\ apc' = "idle"
  /\ UNCHANGED <<events, token, valid, window, bpc, event, loaded, answer, ok, radio, handed,
                 since, missed, failed, early, bounds>>

AnswerDirectly ==
  /\ apc = "answer"
  /\ Send("app", {handed})
  /\ clash' = Answering
  /\ apc' = "send"
  /\ UNCHANGED <<events, token, buffer, bpc, event, loaded, answer, handed,
                 since, missed, stale, early, bounds>>

Sent ==
  /\ apc = "send"
  /\ apc' = "idle"
  /\ pending' = IF ok["app"] THEN Nothing ELSE handed
  /\ valid' = FALSE
  /\ stale' = Stale
  /\ UNCHANGED <<events, token, window, bpc, event, loaded, answer, ok, radio, handed,
                 since, missed, failed, early, clash, bounds>>

-----------------------------------------------------------------------------

Callback == OnConnect \/ OnDisconnect \/ OnReadReq
BleThread ==
  \/ Look \/ Wait \/ Choose \/ Load \/ Store
  \/ Connected \/ Disconnected \/ Advertise
  \/ ReadRequested \/ SendAnswer \/ ReadAnswered
CasaApp == Keep \/ AnswerDirectly \/ Sent

Next == Callback \/ BleThread \/ Hand \/ CasaApp

\* The radio accepts to advertise in the end; the driver's calls return.
Fairness == WF_vars(BleThread) /\ WF_vars(CasaApp)

Spec == Init /\ [][Next]_vars
LiveSpec == Spec /\ Fairness

-----------------------------------------------------------------------------

\* Every variable has its type, and the window is open only while the BLE thread
\* is sending (bluetooth.c:593-610).
TypeOK ==
  /\ events \subseteq Event /\ loaded \subseteq Event
  /\ token \in BOOLEAN /\ valid \in BOOLEAN
  /\ window = (bpc \in {"open", "send"})
  /\ pending \in Response \cup {Nothing, Empty}
  /\ payload \in Response \cup {Nothing, Empty} /\ queued \in BOOLEAN
  /\ bpc \in {"look", "wait", "found", "chosen", "clear", "act", "advertise", "open", "send"}
  /\ event \in Event \cup {"none"}
  /\ (event = "none") <=> (bpc \in {"look", "wait", "advertise"})
  /\ apc \in {"idle", "keep", "answer", "send"} /\ ok \in [Callers -> BOOLEAN]
  /\ link \in {"down", "advertising", "up"} /\ asked \in BOOLEAN
  /\ handed \in 0 .. MaxResponses /\ told \in 0 .. handed /\ since \in 0 .. handed
  /\ owed \in Response \cup {Nothing}
  /\ missed \subseteq Event /\ stale \subseteq Callers
  /\ failed \in BOOLEAN /\ early \in BOOLEAN /\ clash \in BOOLEAN
  /\ reads \in 0 .. MaxReads /\ links \in 0 .. MaxLinks

\* The response casa_app handed over last is pending until the phone has read it,
\* through any failure to send it (bluetooth.c:181, 191, 599) and while "{}" is
\* sent (bluetooth.c:590).  Not so one that was handed over before the thread had
\* dealt with the phone's connection, which discards it (495), and one that got in
\* the way of the answer with an earlier response or of a failing "{}" (600, 604).
NoResponseLost ==
  (owed # Nothing /\ ~early /\ ~clash) => (pending = owed \/ apc # "idle")

\* The phone never reads a response that is older than one it has read, nor one
\* that was meant for the phone of an earlier connection (bluetooth.c:495, 511):
\* unless the event of the connection was lost, or the answer or the call of
\* casa_app was under way when the phone connected (590-596), or the last response
\* got in the way of the answer with an earlier one.
AnswersAreFresh ==
  [][(told' # told /\ "conn" \notin missed /\ stale = {} /\ ~clash) =>
       told' > told /\ told' > since]_vars

\* A phone that asks gets an answer, unless it leaves (bluetooth.c:607), whatever
\* casa_app hands over and when, unless its event was lost or an answer failed.
ReadIsAnswered == asked ~> (~asked \/ "read" \in missed \/ failed)

\* A device whose phone left can be found again (bluetooth.c:514-516), unless the
\* event was lost.
FoundAgain == (link = "down") ~> (link = "advertising" \/ "disconn" \in missed)
=============================================================================

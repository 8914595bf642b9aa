----------------------------- MODULE MqttSession -----------------------------
(***************************************************************************)
(* The MQTT session (mqtt_handler.c): mqtt_app_close() and                 *)
(* mqtt_app_start(), which casa_app runs for an attempt to register and    *)
(* the mqtt thread whenever it finds the connection lost, and the reports  *)
(* the mqtt thread repeats until the cloud has answered.                   *)
(*                                                                         *)
(* The two threads share the client and the credentials without a lock.    *)
(* The receive queue is in MqttRxQueue.tla, switch_interrupts in           *)
(* Registration.tla and Deregistration.tla; mqtt_ssl_connection follows    *)
(* mqtt_connection_check.  The client of the SDK and the network are       *)
(* external.                                                               *)
(***************************************************************************)
EXTENDS Naturals

CONSTANTS
  Tries,       \* attempts to resolve the host: MAX_RETRIES
  Polls,       \* MQTT_CONN_RETRY_LIMIT
  Every,       \* iterations between two reports: 300 / 5
  Wrap,        \* values of device_status_report_counter: 2^16, in steps of 5
  Reports,     \* how often a report is repeated: 3
  MaxFailures, \* bound: calls of the SDK that fail, connections that come late
  MaxChanges   \* bound: attempts, de-registrations, losses of the network

ASSUME LimitsAssumption ==
  /\ {Tries, Polls, Every, Reports} \subseteq Nat \ {0}
  /\ Wrap \in Nat /\ Every < Wrap
ASSUME BoundsAssumption == MaxFailures \in Nat /\ MaxChanges \in Nat

Threads == {"app", "mqtt"}

VARIABLES
  registered,  \* casa_ctx.reg_status is REGISTRATION_DONE
  task,        \* the mqtt thread exists
  purpose,     \* what casa_app closes or starts the session for, or waits for
  pc,          \* where each thread is in mqtt_app_start() or mqtt_app_close()
  tries,       \* dns_retry_count, retry_count of each
  credentials, \* client_credentials: "null", "live", or "freed" and not yet NULL
  connected,   \* mqtt_connection_check
  client,      \* the client of the SDK: "none", "connecting" or "connected"
  subscribed,  \* the broker has the subscription of this connection
  net,         \* the network carries
  internet,    \* internet_status
  report, counter, pubs, \* device_status_report, its counter, status_pub_count
  faults,      \* history: what disturbed the session, see Faults
  failures, changes \* bounds

\* Both threads were at the session at once, which they are too when casa_app
\* terminates the mqtt thread at it; a connection was established after the wait for
\* it had ended; the subscription failed on a connection that lasts.
Faults == {"overlap", "late", "unheard"}

callers == <<purpose, pc, tries>>
session == <<connected, client, subscribed>>
network == <<net, internet>>
reporting == <<report, counter, pubs>>
bounds == <<failures, changes>>
vars == <<registered, task, callers, credentials, session, network, reporting,
          faults, bounds>>

Init ==
  /\ registered \in BOOLEAN /\ task = registered
  /\ purpose = "none" /\ pc = [t \in Threads |-> "out"]
  /\ tries = [t \in Threads |-> 0]
  /\ credentials = "null"
  /\ connected = FALSE /\ client = "none" /\ subscribed = FALSE
  /\ net = registered /\ internet = FALSE
  /\ report = TRUE /\ counter = 0 /\ pubs = 0
  /\ faults = {} /\ failures = 0 /\ changes = 0

Crashed == \E t \in Threads : pc[t] = "crashed"
Fails == failures < MaxFailures /\ failures' = failures + 1
Changes == changes < MaxChanges /\ changes' = changes + 1
Goto(t, where) == pc' = [pc EXCEPT ![t] = where]

\* A thread begins with the session.  Alone, and without credentials that were
\* freed and not forgotten, it makes a new start.
Enter(t) ==
  /\ Goto(t, "close") /\ tries' = [tries EXCEPT ![t] = 0]
  /\ faults' = IF \E u \in Threads \ {t} : pc[u] # "out" THEN faults \cup {"overlap"}
               ELSE IF credentials = "freed" THEN faults
               ELSE {}

-----------------------------------------------------------------------------
(* mqtt_app_close()                                                        *)

\* Closing a client that is connected ends its subscriptions.  A disconnection
\* that fails, or is still in progress, leaves the client as it is: what the calls
\* return is only logged.
Disconnect(t) ==
  /\ pc[t] = "close"
  /\ \/ client' = "none" /\ subscribed' = FALSE /\ UNCHANGED failures
     \/ client # "none" /\ Fails /\ UNCHANGED <<client, subscribed>>
  /\ Goto(t, IF credentials = "null" THEN "reset" ELSE "free")
  /\ UNCHANGED <<registered, task, purpose, tries, credentials, connected, network,
                 reporting, faults, changes>>

\* free(): a second one of the same block is undefined.
Free(t) ==
  /\ pc[t] = "free"
  /\ credentials' = "freed"
  /\ Goto(t, IF credentials = "live" THEN "reset" ELSE "crashed")
  /\ UNCHANGED <<registered, task, purpose, tries, session, network, reporting,
                 faults, bounds>>

\* Mutant: the pointer outlives the block.
Reset_KeepsPointer(t) ==
  /\ pc[t] = "reset"
  /\ connected' = FALSE
  /\ Goto(t, IF t = "app" /\ purpose # "start" THEN "leave" ELSE "load")
  /\ UNCHANGED <<registered, task, purpose, tries, credentials, client, subscribed,
                 network, reporting, faults, bounds>>
\* The caller goes on with mqtt_secure_config() or with closing the Wi-Fi.
Reset(t) ==
  /\ pc[t] = "reset"
  /\ credentials' = "null" /\ connected' = FALSE
  /\ Goto(t, IF t = "app" /\ purpose # "start" THEN "leave" ELSE "load")
  /\ UNCHANGED <<registered, task, purpose, tries, client, subscribed, network,
                 reporting, faults, bounds>>

Close(t) == Disconnect(t) \/ Free(t) \/ Reset(t)

-----------------------------------------------------------------------------
(* mqtt_app_start()                                                        *)

\* Mutant: a reconnection that fails is the last one.
Return_Ends(t, ok) ==
  /\ Goto(t, IF ok THEN IF t = "app" THEN "create" ELSE "out" ELSE "failed")
  /\ report' = (report \/ (t = "mqtt" /\ connected))
\* Returning: casa_app gives the attempt up when there is no connection
\* (registration.c:221-228); the mqtt thread reports a connection that lasts.
Return(t, ok) ==
  /\ Goto(t, IF t = "app" THEN IF ok THEN "create" ELSE "failed" ELSE "out")
  /\ report' = (report \/ (t = "mqtt" /\ connected))

Fail(t) == Fails /\ Return(t, FALSE) /\ UNCHANGED <<tries, credentials>>

\* The certificate is stored, the credentials are allocated and filled in; any of
\* the steps may fail, filling in a block that is not there is undefined.
Load(t) ==
  /\ pc[t] = "load"
  /\ \/ Fail(t)
     \/ /\ credentials' = "live" /\ Goto(t, "fill")
        /\ UNCHANGED <<report, tries, failures>>
  /\ UNCHANGED <<registered, task, purpose, session, network, counter, pubs,
                 faults, changes>>

\* Mutant: a refused set of credentials is freed and not forgotten.
Fill_KeepsPointer(t) ==
  /\ pc[t] = "fill"
  /\ \/ credentials # "live" /\ Goto(t, "crashed")
        /\ UNCHANGED <<credentials, report, failures>>
     \/ credentials = "live" /\ Goto(t, "dns") /\ UNCHANGED <<credentials, report, failures>>
     \/ credentials = "live" /\ Fails /\ Return(t, FALSE) /\ credentials' = "freed"
  /\ UNCHANGED <<registered, task, purpose, tries, session, network, counter, pubs, faults, changes>>
Fill(t) ==
  /\ pc[t] = "fill"
  /\ \/ credentials # "live" /\ Goto(t, "crashed")
        /\ UNCHANGED <<credentials, report, failures>>
     \/ credentials = "live" /\ Goto(t, "dns") /\ UNCHANGED <<credentials, report, failures>>
     \/ credentials = "live" /\ Fails /\ Return(t, FALSE) /\ credentials' = "null"
  /\ UNCHANGED <<registered, task, purpose, tries, session, network, counter, pubs, faults, changes>>

\* The host is resolved, which needs the network, in at most Tries attempts.
Resolve(t) ==
  /\ pc[t] = "dns"
  /\ \/ /\ net /\ Goto(t, "connect") /\ tries' = [tries EXCEPT ![t] = 0]
        /\ UNCHANGED <<report, failures>>
     \/ /\ IF net THEN Fails ELSE UNCHANGED failures
        /\ IF tries[t] + 1 < Tries
           THEN /\ tries' = [tries EXCEPT ![t] = @ + 1]
                /\ UNCHANGED <<pc, report>>
           ELSE Return(t, FALSE) /\ UNCHANGED tries
  /\ UNCHANGED <<registered, task, purpose, credentials, session, network, counter,
                 pubs, faults, changes>>

\* A client that is connected already refuses.
BeginConnect(t) ==
  /\ pc[t] = "connect"
  /\ \/ /\ client # "connected" /\ client' = "connecting" /\ Goto(t, "poll")
        /\ UNCHANGED <<report, failures>>
     \/ /\ IF client = "connected" THEN UNCHANGED failures ELSE Fails
        /\ Return(t, FALSE) /\ UNCHANGED client
  /\ UNCHANGED <<registered, task, purpose, tries, credentials, connected, subscribed,
                 network, counter, pubs, faults, changes>>

\* The last look at mqtt_connection_check: a client that is still connecting has
\* taken too long.
Poll(t) ==
  /\ pc[t] = "poll"
  /\ \/ /\ connected /\ Goto(t, "subscribe")
        /\ UNCHANGED <<tries, report, failures>>
     \/ /\ ~connected /\ tries[t] + 1 < Polls
        /\ tries' = [tries EXCEPT ![t] = @ + 1]
        /\ UNCHANGED <<pc, report, failures>>
     \/ /\ ~connected /\ tries[t] + 1 = Polls
        /\ IF net /\ client = "connecting" THEN Fails ELSE UNCHANGED failures
        /\ Return(t, FALSE) /\ UNCHANGED tries
  /\ UNCHANGED <<registered, task, purpose, credentials, session, network, counter,
                 pubs, faults, changes>>

\* Mutant: the subscription is left to casa_app.
Subscribe_OnlyApp(t) ==
  /\ pc[t] = "subscribe"
  /\ subscribed' = (subscribed \/ (client = "connected" /\ t = "app"))
  /\ UNCHANGED <<faults, failures>>
  /\ Return(t, TRUE)
  /\ UNCHANGED <<registered, task, purpose, tries, credentials, connected, client,
                 network, counter, pubs, changes>>
\* The subscription, and the first report of a registered device, are lost when
\* the connection is.  Whether the call succeeds is not looked at.
Subscribe(t) ==
  /\ pc[t] = "subscribe"
  /\ \/ /\ subscribed' = (subscribed \/ client = "connected")
        /\ UNCHANGED <<faults, failures>>
     \/ /\ client = "connected" /\ Fails
        /\ UNCHANGED subscribed
        /\ faults' = faults \cup {"unheard"}
  /\ Return(t, TRUE)
  /\ UNCHANGED <<registered, task, purpose, tries, credentials, connected, client,
                 network, counter, pubs, changes>>

Start(t) ==
  Load(t) \/ Fill(t) \/ Resolve(t) \/ BeginConnect(t) \/ Poll(t) \/ Subscribe(t)

-----------------------------------------------------------------------------
(* casa_app                                                                *)

Begin(why) == purpose' = why /\ Enter("app")

\* An attempt to register has joined the network, or has not.
AppAttempt ==
  /\ purpose = "none" /\ ~registered /\ Changes
  /\ \/ Begin("start") /\ net' = TRUE
     \/ Begin("fail") /\ UNCHANGED net
  /\ UNCHANGED <<registered, task, credentials, session, internet, reporting, failures>>

\* mqtt_connection_task_create(), unless the connection is lost again.
AppCreate ==
  /\ pc["app"] = "create"
  /\ IF connected
     THEN /\ task' = TRUE /\ pc' = [t \in Threads |-> "out"] /\ purpose' = "share"
          /\ pubs' = 0
     ELSE Goto("app", "failed") /\ UNCHANGED <<task, purpose, pubs>>
  /\ UNCHANGED <<registered, tries, credentials, session, network, report, counter,
                 faults, bounds>>

\* The timer looks at the answer first, and at the connection, which may be lost
\* meanwhile, only if there is none.
AppAccepted ==
  /\ purpose = "accepted"
  /\ registered' = TRUE /\ report' = FALSE /\ purpose' = "none"
  /\ UNCHANGED <<task, pc, tries, credentials, session, network, counter, pubs,
                 faults, bounds>>

\* No answer, another one, or one that comes after the attempt was given up.
AppFailed ==
  /\ purpose \in {"share", "accepted"} \/ pc["app"] = "failed"
  /\ Begin("fail")
  /\ UNCHANGED <<registered, task, credentials, session, network, reporting, bounds>>

\* A de-registration wipes the device.
AppWipe ==
  /\ purpose = "none" /\ registered /\ Changes
  /\ registered' = FALSE
  /\ Begin("wipe")
  /\ UNCHANGED <<task, credentials, session, network, reporting, failures>>

\* wifi_close(), and what follows it in casa_registration() or
\* casa_deregistration(): a wipe ends the mqtt thread too.
AppLeave ==
  /\ pc["app"] = "leave"
  /\ net' = FALSE /\ connected' = FALSE /\ purpose' = "none"
  /\ IF purpose = "wipe"
     THEN /\ report' = FALSE /\ task' = FALSE
          /\ pc' = [t \in Threads |-> "out"]
     ELSE Goto("app", "out") /\ UNCHANGED <<report, task>>
  /\ UNCHANGED <<registered, tries, credentials, client, subscribed, internet,
                 counter, pubs, faults, bounds>>

App == AppAttempt \/ AppCreate \/ AppAccepted \/ AppFailed \/ AppWipe \/ AppLeave

-----------------------------------------------------------------------------
(* The mqtt thread: mqtt_reconnection_check().                             *)

Looping == task /\ pc["mqtt"] = "out"

\* Every five seconds.
MqttReconnect ==
  /\ Looping /\ ~connected /\ internet
  /\ Enter("mqtt")
  /\ UNCHANGED <<registered, task, purpose, credentials, session, network, reporting,
                 bounds>>

\* Mutant: only the count begins anew.
Repeated_NeverEnds(n) == report' = report /\ pubs' = IF n >= Reports THEN 0 ELSE n
\* Enough reports are enough.
Repeated(n) ==
  IF n >= Reports THEN report' = FALSE /\ pubs' = 0 ELSE report' = report /\ pubs' = n

\* Every 10 ms, as long as there is something to report.
MqttReport ==
  /\ Looping /\ report
  /\ LET next == (counter + 1) % Wrap IN
     IF next >= Every /\ connected /\ registered
     THEN counter' = 0 /\ Repeated(pubs + 1)
     ELSE counter' = next /\ Repeated(pubs)
  /\ UNCHANGED <<registered, task, callers, credentials, session, network, faults,
                 bounds>>

\* send_device_status(): the cloud has answered.
MqttOnlineResp ==
  /\ Looping /\ connected /\ subscribed /\ report
  /\ report' = FALSE
  /\ UNCHANGED <<registered, task, callers, credentials, session, network, counter,
                 pubs, faults, bounds>>

\* The answer of the cloud to an attempt: it accepts the device.
MqttCloudReg ==
  /\ Looping /\ connected /\ subscribed /\ purpose = "share"
  /\ purpose' = "accepted"
  /\ UNCHANGED <<registered, task, pc, tries, credentials, session, network, reporting,
                 faults, bounds>>

MqttThread == MqttReconnect \/ MqttReport \/ MqttOnlineResp \/ MqttCloudReg

-----------------------------------------------------------------------------
(* mqtt_event_handler(), the network and the Wi-Fi monitor.                *)

InTime == \E t \in Threads : pc[t] = "poll"

OnConnected ==
  /\ client = "connecting" /\ net
  /\ InTime \/ failures < MaxFailures
  /\ client' = "connected" /\ connected' = TRUE
  /\ faults' = faults \cup (IF InTime THEN {} ELSE {"late"})
  /\ failures' = IF InTime THEN failures ELSE failures + 1
  /\ UNCHANGED <<registered, task, callers, credentials, subscribed, network, report,
                 counter, pubs, changes>>

\* The broker closes the connection, or the keep-alive finds it broken.
OnDisconnected ==
  /\ client # "none"
  /\ IF net THEN Fails ELSE UNCHANGED failures
  /\ client' = "none" /\ subscribed' = FALSE /\ connected' = FALSE
  /\ UNCHANGED <<registered, task, callers, credentials, network, reporting, faults,
                 changes>>

NetLost ==
  /\ net /\ registered /\ Changes
  /\ net' = FALSE
  /\ UNCHANGED <<registered, task, callers, credentials, session, internet, reporting,
                 faults, failures>>

NetBack ==
  /\ ~net /\ registered
  /\ net' = TRUE
  /\ UNCHANGED <<registered, task, callers, credentials, session, internet, reporting,
                 faults, bounds>>

\* The monitor finds the link gone.
Monitor ==
  /\ internet # net
  /\ internet' = net
  /\ connected' = (connected /\ net)
  /\ UNCHANGED <<registered, task, callers, credentials, client, subscribed, net,
                 reporting, faults, bounds>>

-----------------------------------------------------------------------------

Step(t) == Close(t) \/ Start(t)
Environment == OnConnected \/ OnDisconnected \/ NetLost \/ NetBack \/ Monitor

Next == ~Crashed /\ ((\E t \in Threads : Step(t)) \/ App \/ MqttThread \/ Environment)

Spec == Init /\ [][Next]_vars

(***************************************************************************)
(* Fairness.  Both threads are scheduled, the monitor samples, calls of    *)
(* the SDK return, and a connection that can be established is.            *)
(***************************************************************************)
Fairness ==
  /\ \A t \in Threads : WF_vars(~Crashed /\ Step(t))
  /\ WF_vars(~Crashed /\ (AppCreate \/ AppAccepted \/ AppFailed \/ AppLeave))
  /\ WF_vars(~Crashed /\ MqttReconnect) /\ WF_vars(~Crashed /\ MqttReport)
  /\ WF_vars(~Crashed /\ InTime /\ OnConnected)
  /\ WF_vars(~Crashed /\ NetBack) /\ WF_vars(~Crashed /\ Monitor)
LiveSpec == Spec /\ Fairness

-----------------------------------------------------------------------------

\* Every variable has its type; the counts of tries and reports stay below their
\* limits.
TypeOK ==
  /\ registered \in BOOLEAN /\ task \in BOOLEAN
  /\ purpose \in {"none", "start", "share", "accepted", "fail", "wipe"}
  /\ pc \in [Threads -> {"out", "close", "free", "reset", "load", "fill", "dns",
                         "connect", "poll", "subscribe", "create", "failed", "leave",
                         "crashed"}]
  /\ tries \in [Threads -> Nat] /\ \A t \in Threads : tries[t] < Tries + Polls
  /\ credentials \in {"null", "live", "freed"}
  /\ connected \in BOOLEAN /\ client \in {"none", "connecting", "connected"}
  /\ subscribed \in BOOLEAN /\ net \in BOOLEAN /\ internet \in BOOLEAN
  /\ report \in BOOLEAN /\ counter \in 0 .. Wrap - 1 /\ pubs \in 0 .. Reports - 1
  /\ faults \subseteq Faults
  /\ failures \in 0 .. MaxFailures /\ changes \in 0 .. MaxChanges

\* The credentials are freed once and filled in only while they are there, on
\* every path on which a start fails (mqtt_handler.c:247, 299, 320), as long as
\* one thread at a time is at the session.
CredentialsSafe == Crashed => "overlap" \in faults

\* A device that takes itself for connected, and has nothing to do about it, has
\* its subscription: it can be controlled (mqtt_handler.c:418), unless the
\* connection came after mqtt_app_start() had given up, or the subscription failed,
\* which is not looked at; or threads met at the session.
ServedWhenConnected ==
  (connected /\ faults = {} /\ \A t \in Threads : pc[t] = "out") => subscribed

\* A device that stays registered gets its session back, once nothing fails any
\* more (mqtt_handler.c:476), unless the connection came late or the subscription
\* failed: the device takes itself for connected and does not try again.
SessionRestored ==
  <>[]registered =>
    <>[]((connected /\ subscribed) \/ Crashed \/ {"late", "unheard"} \cap faults # {})

\* The cloud is not told for ever that the device is online: answered or not, the
\* reports end (mqtt_handler.c:497), whatever the counter had reached before.
ReportsEnd ==
  (report /\ connected /\ registered) ~> (~report \/ ~connected \/ ~registered \/ Crashed)
=============================================================================

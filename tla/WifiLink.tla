------------------------------ MODULE WifiLink ------------------------------
(***************************************************************************)
(* The Wi-Fi link (wifi.c): wifi_sta(), which casa_app calls to join the   *)
(* network when the device registers or starts, and the monitor thread it  *)
(* creates, which samples the link, publishes what it finds in             *)
(* casa_wifi_status and internet_status, and joins again after a loss.     *)
(*                                                                         *)
(* The radio is external: it is joined with some address or not joined.    *)
(* Retries, the address and the verdict of each call are kept; waiting     *)
(* times are not, except that the monitor sleeps between samples.          *)
(***************************************************************************)
EXTENDS Naturals

CONSTANTS
  Addresses,  \* what DHCP may give
  NoAddress,  \* the address 0, and an empty ip_str
  MaxRetries, \* WIFI_MAXIMUM_RETRY
  MaxCalls,   \* bound: calls of wifi_sta()
  MaxLosses   \* bound: losses of the link, and samples of it that fail

ASSUME AddressAssumption == NoAddress \notin Addresses
ASSUME RetryAssumption == MaxRetries \in Nat \ {0}
ASSUME WifiBoundsAssumption == MaxCalls \in Nat /\ MaxLosses \in Nat

VARIABLES
  \* the radio
  iface,        \* the client interface is initialised
  link,         \* the address the device is joined with, or NoAddress
  pending,      \* sl_net_up() goes on by itself
  ap,           \* the access point can be joined
  \* what the program keeps
  is_connected, \* casa_wifi_status.is_connected
  ip_str,       \* casa_wifi_status.ip_str
  wifi_connected, internet_status,
  mqtt,         \* mqtt_connection_check
  \* casa_app in wifi_sta()
  caller, retry_count, net_up_triggered, verdict,
  \* the monitor
  monitor, profile,
  \* history and bounds
  joined,       \* the link was up at some time during the call
  leftover,     \* is_connected is of an earlier call: no sample since the monitor began
  known,        \* what the last sample found; of a new monitor, what it was left
  renewed,      \* the device joined with another address, unknown to the monitor
  cut,          \* a monitor was terminated while it cleared the details of a lost link
  calls, losses

radio == <<iface, link, pending, ap>>
status == <<is_connected, ip_str, wifi_connected, internet_status>>
callerVars == <<caller, retry_count, net_up_triggered, verdict>>
monitorVars == <<monitor, profile>>
history == <<leftover, known, renewed, cut>>
wifiVars == <<radio, status, mqtt, callerVars, monitorVars, joined, history, calls, losses>>

WifiInit ==
  /\ iface = FALSE /\ link = NoAddress /\ pending = FALSE /\ ap = TRUE
  /\ is_connected = FALSE /\ ip_str = NoAddress
  /\ wifi_connected = FALSE /\ internet_status = FALSE
  /\ mqtt = FALSE
  /\ caller = "idle" /\ retry_count = 0 /\ net_up_triggered = FALSE
  /\ verdict = "none"
  /\ monitor = "none" /\ profile = NoAddress
  /\ joined = FALSE /\ leftover = FALSE
  /\ known = NoAddress /\ renewed = FALSE /\ cut = FALSE
  /\ calls = 0 /\ losses = 0

-----------------------------------------------------------------------------
(* The radio.                                                              *)

Joined == link # NoAddress
Noted ==
  /\ joined' = (joined \/ link' # NoAddress)
  /\ renewed' = (renewed \/ (~Joined /\ link' # NoAddress /\ known \notin {NoAddress, link'}))
  /\ UNCHANGED <<leftover, known, cut>>

\* sl_net_up(): joined with some address, on its way, or failed.
NetUp ==
  /\ \/ link' = link /\ pending' = (pending \/ (iface /\ ~Joined))
     \/ link' = link /\ pending' = pending /\ ~Joined
     \/ iface /\ ap /\ ~Joined /\ link' \in Addresses /\ pending' = FALSE
  /\ UNCHANGED <<iface, ap>>
NetUpFailed == ~Joined /\ link' = link /\ pending' = pending

JoinCompletes ==
  /\ pending /\ iface /\ ap /\ ~Joined
  /\ link' \in Addresses /\ pending' = FALSE
  /\ Noted
  /\ UNCHANGED <<iface, ap, status, mqtt, callerVars, monitorVars, calls, losses>>

Loss ==
  /\ Joined /\ losses < MaxLosses
  /\ losses' = losses + 1
  /\ link' = NoAddress /\ ap' \in BOOLEAN
  /\ UNCHANGED <<iface, pending, status, mqtt, callerVars, monitorVars, joined,
                 history, calls>>

ApBack ==
  /\ ~ap /\ ap' = TRUE
  /\ UNCHANGED <<iface, link, pending, status, mqtt, callerVars, monitorVars, joined,
                 history, calls, losses>>

\* The broker accepts a session, which casa_app starts after wifi_sta() or the
\* mqtt thread because internet_status is set; it may also close it.
SessionChange ==
  /\ \/ /\ ~mqtt /\ Joined
        /\ internet_status \/ (verdict = "true" /\ caller = "idle")
        /\ mqtt' = TRUE
     \/ mqtt /\ mqtt' = FALSE
  /\ UNCHANGED <<radio, status, callerVars, monitorVars, joined, history,
                 calls, losses>>

-----------------------------------------------------------------------------
(* wifi_sta().                                                             *)

\* sl_net_wifi_client_init(), the credential and the profile; each may fail.
Call ==
  /\ caller = "idle" /\ verdict = "none" /\ calls < MaxCalls
  /\ calls' = calls + 1
  /\ iface' = TRUE
  /\ \/ caller' = "create" /\ verdict' = "none"
     \/ UNCHANGED caller /\ verdict' = "false"
  /\ joined' = Joined
  /\ UNCHANGED <<link, pending, ap, status, mqtt, retry_count, net_up_triggered,
                 monitorVars, history, losses>>

\* The thread of an earlier call is terminated wherever it is, and leaves what it
\* knows of the link to the next one.
Terminated ==
  /\ cut' = (cut \/ monitor \in {"cleared", "down", "unconnected"})
  /\ known' = IF wifi_connected THEN ip_str ELSE NoAddress
  /\ renewed' = (wifi_connected /\ (renewed \/ (Joined /\ ip_str # link)))
CreateMonitor ==
  /\ caller = "create"
  /\ monitor' = "sample" /\ profile' = NoAddress
  /\ caller' = "up" /\ retry_count' = 0 /\ net_up_triggered' = FALSE
  /\ Terminated /\ leftover' = (is_connected /\ ~joined)
  /\ UNCHANGED <<radio, status, mqtt, verdict, joined, calls, losses>>

TriggerNetUp ==
  /\ caller = "up"
  /\ \/ net_up_triggered /\ UNCHANGED <<radio, net_up_triggered>>
     \/ ~net_up_triggered /\ net_up_triggered' = TRUE /\ NetUp
     \/ ~net_up_triggered /\ NetUpFailed /\ UNCHANGED <<iface, ap, net_up_triggered>>
  /\ caller' = "check"
  /\ Noted
  /\ UNCHANGED <<status, mqtt, retry_count, verdict, monitorVars, calls, losses>>

\* Mutant of CheckSuccess: sl_net_up() taken at its word.
CheckSuccess_Triggered ==
  /\ caller = "check"
  /\ is_connected \/ net_up_triggered
  /\ caller' = "idle" /\ verdict' = "true"
  /\ UNCHANGED <<radio, status, mqtt, retry_count, net_up_triggered, monitorVars,
                 joined, history, calls, losses>>
CheckSuccess ==
  /\ caller = "check"
  /\ is_connected
  /\ caller' = "idle" /\ verdict' = "true"
  /\ UNCHANGED <<radio, status, mqtt, retry_count, net_up_triggered, monitorVars,
                 joined, history, calls, losses>>

CheckAgain ==
  /\ caller = "check"
  /\ ~is_connected
  /\ retry_count' = retry_count + 1
  /\ caller' = "delay"
  /\ UNCHANGED <<radio, status, mqtt, net_up_triggered, verdict, monitorVars,
                 joined, history, calls, losses>>

Delay ==
  /\ caller = "delay"
  /\ \/ retry_count < MaxRetries /\ caller' = "up" /\ UNCHANGED verdict
     \/ retry_count >= MaxRetries /\ caller' = "idle" /\ verdict' = "false"
  /\ UNCHANGED <<radio, status, mqtt, retry_count, net_up_triggered, monitorVars,
                 joined, history, calls, losses>>

-----------------------------------------------------------------------------
(* Who closes the link: a registration that failed, and a de-registration, *)
(* which terminates the monitor after that.                                *)

Closed == /\ iface' = FALSE /\ link' = NoAddress /\ pending' = FALSE
          /\ UNCHANGED ap

\* mqtt_app_close() and wifi_close() at the end of a registration.
CloseFailed ==
  /\ caller = "idle" /\ verdict # "none"
  /\ mqtt' = FALSE /\ Closed
  /\ verdict' = "none"
  /\ UNCHANGED <<status, caller, retry_count, net_up_triggered, monitorVars, joined,
                 history, calls, losses>>

CloseWipe ==
  /\ caller = "idle" /\ verdict = "true"
  /\ mqtt' = FALSE /\ Closed
  /\ caller' = "terminate"
  /\ UNCHANGED <<status, retry_count, net_up_triggered, verdict, monitorVars, joined,
                 history, calls, losses>>

TerminateMonitor ==
  /\ caller = "terminate"
  /\ mqtt' = FALSE
  /\ monitor' = "none" /\ profile' = NoAddress
  /\ caller' = "idle" /\ verdict' = "none"
  /\ Terminated /\ UNCHANGED leftover
  /\ UNCHANGED <<radio, status, retry_count, net_up_triggered, joined, calls, losses>>

-----------------------------------------------------------------------------
(* wifi_sta_monitor_task(), of a lower priority than casa_app and the      *)
(* others, which may run, or terminate it, between any two of its steps.   *)
(* It runs while casa_app is delayed or waits for the radio.               *)

MonitorRuns(p) == monitor = p /\ caller \notin {"check", "terminate"}

\* The signal strength and the profile: of a link that is up too they may fail, or
\* give a strength that is none.
MonitorSample ==
  /\ MonitorRuns("sample")
  /\ \/ profile' = link /\ UNCHANGED losses
     \/ /\ Joined /\ losses < MaxLosses
        /\ losses' = losses + 1 /\ profile' = NoAddress
  /\ monitor' = "mark"
  /\ known' = profile' /\ renewed' = (renewed /\ profile' # NoAddress)
  /\ UNCHANGED <<radio, status, mqtt, callerVars, joined, leftover, cut, calls>>

\* Mutant of MonitorMark: a sample that finds nothing is taken for a glitch.
MonitorMark_KeepsTrue ==
  /\ MonitorRuns("mark")
  /\ is_connected' = (is_connected \/ profile # NoAddress)
  /\ monitor' = IF is_connected' THEN "details" ELSE "lost"
  /\ leftover' = FALSE
  /\ UNCHANGED <<radio, ip_str, wifi_connected, internet_status, mqtt, callerVars, profile,
                 joined, known, renewed, cut, calls, losses>>
MonitorMark ==
  /\ MonitorRuns("mark")
  /\ is_connected' = (profile # NoAddress)
  /\ monitor' = IF is_connected' THEN "details" ELSE "lost"
  /\ leftover' = FALSE
  /\ UNCHANGED <<radio, ip_str, wifi_connected, internet_status, mqtt, callerVars, profile,
                 joined, known, renewed, cut, calls, losses>>

\* station_wifi_detailes_get(), when the link is new.
MonitorDetails ==
  /\ MonitorRuns("details")
  /\ IF wifi_connected THEN UNCHANGED <<ip_str, wifi_connected, cut>>
     ELSE ip_str' = profile /\ wifi_connected' = TRUE /\ cut' = FALSE
  /\ monitor' = "probe"
  /\ UNCHANGED <<radio, is_connected, internet_status, mqtt, callerVars, profile,
                 joined, leftover, known, renewed, calls, losses>>

\* check_internet_connectivity(), which may find nothing though the link is up.
MonitorProbe ==
  /\ MonitorRuns("probe")
  /\ internet_status' \in {FALSE, Joined}
  /\ monitor' = "sleep" /\ profile' = NoAddress
  /\ UNCHANGED <<radio, is_connected, ip_str, wifi_connected, mqtt, callerVars,
                 joined, history, calls, losses>>

\* Nothing was found. When a link was up before, its details are cleared one by
\* one: station_wifi_status_clear(), and what follows it.
\* Mutant of MonitorLost: the new link is taken for the one that was lost.
MonitorLost_Never ==
  /\ MonitorRuns("lost")
  /\ monitor' = "offline" /\ profile' = NoAddress
  /\ UNCHANGED <<radio, status, mqtt, callerVars, joined, history, calls, losses>>
MonitorLost ==
  /\ MonitorRuns("lost")
  /\ IF wifi_connected THEN ip_str' = NoAddress /\ monitor' = "cleared"
                       ELSE UNCHANGED ip_str /\ monitor' = "offline"
  /\ profile' = NoAddress
  /\ UNCHANGED <<radio, is_connected, wifi_connected, internet_status, mqtt, callerVars,
                 joined, history, calls, losses>>

\* Mutant of MonitorCleared: internet_status is left to the end.
MonitorCleared_Later ==
  /\ MonitorRuns("cleared")
  /\ is_connected' = FALSE
  /\ monitor' = "down"
  /\ UNCHANGED <<radio, ip_str, wifi_connected, internet_status, mqtt, callerVars, profile,
                 joined, history, calls, losses>>
MonitorCleared ==
  /\ MonitorRuns("cleared")
  /\ is_connected' = FALSE /\ internet_status' = FALSE
  /\ monitor' = "down"
  /\ UNCHANGED <<radio, ip_str, wifi_connected, mqtt, callerVars, profile,
                 joined, history, calls, losses>>

\* wifi_connected: the next link is a new one.
MonitorDown ==
  /\ MonitorRuns("down")
  /\ wifi_connected' = FALSE
  /\ monitor' = "unconnected"
  /\ cut' = FALSE
  /\ UNCHANGED <<radio, is_connected, ip_str, internet_status, mqtt, callerVars, profile,
                 joined, leftover, known, renewed, calls, losses>>

\* Mutant of MonitorEndSession: the MQTT session is left to its keep-alive.
MonitorEndSession_KeepAlive ==
  /\ MonitorRuns("unconnected")
  /\ monitor' = "offline"
  /\ UNCHANGED <<radio, status, mqtt, callerVars, profile, joined, history, calls, losses>>
MonitorEndSession ==
  /\ MonitorRuns("unconnected")
  /\ mqtt' = FALSE
  /\ monitor' = "offline"
  /\ UNCHANGED <<radio, status, callerVars, profile, joined, history, calls, losses>>

MonitorOffline ==
  /\ MonitorRuns("offline")
  /\ internet_status' = FALSE
  /\ monitor' = "rejoin"
  /\ UNCHANGED <<radio, is_connected, ip_str, wifi_connected, mqtt, callerVars, profile,
                 joined, history, calls, losses>>

MonitorRejoin ==
  /\ MonitorRuns("rejoin")
  /\ NetUp \/ (NetUpFailed /\ UNCHANGED <<iface, ap>>)
  /\ Noted
  /\ monitor' = "sleep"
  /\ UNCHANGED <<status, mqtt, callerVars, profile, calls, losses>>

MonitorWake ==
  /\ MonitorRuns("sleep")
  /\ monitor' = "sample"
  /\ UNCHANGED <<radio, status, mqtt, callerVars, profile, joined, history,
                 calls, losses>>

CallerStep ==
  CreateMonitor \/ TriggerNetUp \/ CheckSuccess \/ CheckAgain \/ Delay \/ TerminateMonitor
MonitorStep ==
  MonitorSample \/ MonitorMark \/ MonitorDetails \/ MonitorProbe
  \/ MonitorLost \/ MonitorCleared \/ MonitorDown \/ MonitorEndSession \/ MonitorOffline
  \/ MonitorRejoin \/ MonitorWake

WifiNext ==
  \/ JoinCompletes \/ Loss \/ ApBack \/ SessionChange
  \/ Call \/ CallerStep
  \/ CloseFailed \/ CloseWipe
  \/ MonitorStep

WifiSpec == WifiInit /\ [][WifiNext]_wifiVars

\* Both threads are scheduled when they can run, a join that goes on ends while
\* the access point is there, and tries are not unlucky for ever.
WifiFairness ==
  /\ WF_wifiVars(CallerStep) /\ WF_wifiVars(MonitorStep)
  /\ WF_wifiVars(JoinCompletes) /\ SF_wifiVars(MonitorRejoin /\ (link' # NoAddress \/ pending'))
WifiLiveSpec == WifiSpec /\ WifiFairness

-----------------------------------------------------------------------------

\* Every variable has its type; wifi_sta() never counts beyond its limit.
WifiTypeOK ==
  /\ iface \in BOOLEAN /\ link \in Addresses \cup {NoAddress}
  /\ pending \in BOOLEAN /\ ap \in BOOLEAN
  /\ is_connected \in BOOLEAN /\ ip_str \in Addresses \cup {NoAddress}
  /\ wifi_connected \in BOOLEAN /\ internet_status \in BOOLEAN /\ mqtt \in BOOLEAN
  /\ caller \in {"idle", "create", "up", "check", "delay", "terminate"}
  /\ retry_count \in 0 .. MaxRetries /\ net_up_triggered \in BOOLEAN
  /\ verdict \in {"none", "true", "false"}
  /\ monitor \in {"none", "sample", "mark", "details", "probe", "lost", "cleared",
                  "down", "unconnected", "offline", "rejoin", "sleep"}
  /\ profile \in Addresses \cup {NoAddress}
  /\ joined \in BOOLEAN
  /\ known \in Addresses \cup {NoAddress}
  /\ leftover \in BOOLEAN /\ renewed \in BOOLEAN /\ cut \in BOOLEAN
  /\ calls \in 0 .. MaxCalls /\ losses \in 0 .. MaxLosses

\* Whoever acts because the internet was found, as the mqtt thread does, has an
\* address to tell (mqtt_handler.c:476, 567), but while the monitor clears the
\* details of a lost link, ip_str before internet_status (wifi.c:377-380). A monitor
\* that was terminated before it cleared wifi_connected leaves ip_str empty for the
\* next link too (cut).
AddressKnownWhenOnline ==
  (internet_status /\ ~cut) => ip_str # NoAddress \/ monitor = "cleared"

\* Between two samples the address that is told is the one the device has
\* (wifi.c:406), in every call, unless the device joined with another address
\* before a sample had found the former link gone (renewed): in the middle of
\* wifi_sta(), or after wifi_close(), which resets nothing. A clearing that was cut
\* short (cut) has the same effect.
AddressIsCurrent ==
  (monitor = "sleep" /\ is_connected /\ Joined /\ ~renewed /\ ~cut) => ip_str = link

\* wifi_sta() reports success only for a link that was up during the call
\* (wifi.c:330), in every call, unless the is_connected it looks at was left by an
\* earlier one: no sample has been taken since the monitor was created (leftover).
VerdictIsBacked ==
  [][verdict' = "true" /\ verdict # "true" => joined \/ leftover]_wifiVars

\* A session does not outlive a link that the monitor knew: when the broker's
\* disconnection does not end it the monitor does (wifi.c:434), unless it is
\* terminated between the reset of wifi_connected and that of the session.
LostLinkEndsSession ==
  (mqtt /\ wifi_connected /\ ~Joined) ~> (~mqtt \/ Joined \/ (cut /\ ~wifi_connected))

\* Once the access point stays, and nobody closes the interface, the device is
\* joined for good and says so (wifi.c:427-464).
Reconnects ==
  <>[](ap /\ iface /\ monitor # "none") => <>[](Joined /\ is_connected)
=============================================================================

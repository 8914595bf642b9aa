--------------------------- MODULE EndpointControl --------------------------
(***************************************************************************)
(* Control of the endpoints of a registered device.  A click                *)
(* (gpio_control.c) and a control message of the cloud (casa_msg_parser.c) *)
(* both describe what they did to the loads in the one record              *)
(* device_control.  casa_device_status_update() (device_control.c) reads   *)
(* it back, to report the levels to the cloud and to save them in flash,   *)
(* from where get_eeprom_device_state_info() restores them at power-up.    *)
(*                                                                         *)
(* Three threads work on the record: the thread of the switches runs the   *)
(* update itself, the mqtt thread leaves it to casa_app by setting         *)
(* current_operation, which casa_app polls every 50 ms.                    *)
(*                                                                         *)
(* Nothing keeps them apart: a click, a message or an answer may rewrite   *)
(* the record, or reset current_operation, under a thread that is not done *)
(* with it.  The histories unsaved and untold name the endpoints whose     *)
(* level lost its way into flash or to the cloud by that.                  *)
(*                                                                         *)
(* Out of the model: the timers (nothing sets gpio_timer[].active), the    *)
(* indicator LED's level, which any read may find high or low, and the     *)
(* wording of the report.  A message that writes beyond the record ends    *)
(* what the model can say (Overrun).                                       *)
(***************************************************************************)
EXTENDS Naturals, Sequences

CONSTANTS
  N,            \* NO_OF_ENDPOINTS
  Arrays,       \* bound: the data arrays of the control messages
  MaxStimuli,   \* bound: clicks and messages
  MaxBoots,     \* bound: power cycles
  NotSaved      \* no object in flash

Endpoints == 1 .. N
Level == {0, 1}
\* The loads of load_gpio_cfg[]; 0 is the indicator LED, outside the limit.
Nodes == 0 .. N
Threads == {"gpio", "app", "mqtt"}
Updaters == {"gpio", "app"}   \* those that run casa_device_status_update()

\* An element of the data array: a load and its level to be.
DataElement == [node : Nodes, value : Level]

ASSUME NAssumption == N \in Nat \ {0}
ASSUME BoundsAssumption == MaxStimuli \in Nat /\ MaxBoots \in Nat
ASSUME ArraysAssumption == Arrays \subseteq Seq(DataElement)
ASSUME NotSavedAssumption == NotSaved \notin Level

VARIABLES
  load,      \* the level of each load pin
  flash,     \* the object of each NVM3_KEY_ENDPOINT(n)
  dc,        \* device_control
  op,        \* casa_ctx.current_operation
  connected, \* mqtt_connection_check
  internet,  \* internet_status
  pc,        \* where each thread is
  idx,       \* the loop index of each thread
  val,       \* the local val of save_device_status()
  json,      \* the report each thread has built: the levels it states
  data,      \* what is left of the data array of the control message in hand
  clicked,   \* the argument of manual_switch_handling()
  cloud,     \* the level the cloud was told last, of each load
  synced,    \* history: were all levels sent since the session began?
  held,      \* history: the levels each load had since the device was last at rest
  asked,     \* history: the record is still that of the update casa_app is asked for
  mixed,     \* history: the updaters whose record was rewritten under them
  unsaved,   \* history: the endpoints whose level lost its way into flash
  untold,    \* history: the endpoints whose level lost its way to the cloud
  stimuli,   \* bound
  boots      \* bound

record == <<dc, op>>
session == <<connected, internet, synced>>
locals == <<pc, idx, val, json, data, clicked>>
history == <<held, asked, mixed, unsaved, untold>>
vars == <<load, flash, record, session, locals, cloud, history, stimuli, boots>>

\* What is in the locals of a thread that does not use them.
NoReport == [n \in Endpoints |-> NotSaved]

\* memset(&device_control, 0, sizeof(device_control))
NoEntry == [endpoint |-> 0, set_value |-> 0]
Zeroed == [counter |-> 0, call_type |-> 0, info |-> [i \in Endpoints |-> NoEntry]]

Restored(f) == IF f = 1 THEN 1 ELSE 0

Init ==
  /\ load = [n \in Endpoints |-> 0]
  /\ flash = [n \in Nodes |-> NotSaved]
  /\ dc = Zeroed /\ op = "CASA_IDLE"
  /\ connected = FALSE /\ internet = FALSE /\ synced = "no"
  /\ pc = [t \in Threads |-> "idle"]
  /\ idx = [t \in Threads |-> 1]
  /\ val = [t \in Threads |-> 0]
  /\ json = [t \in Threads |-> NoReport]
  /\ data = <<>> /\ clicked = 1
  /\ cloud = [n \in Endpoints |-> NotSaved]
  /\ held = [n \in Endpoints |-> {0}]
  /\ asked = FALSE /\ mixed = {} /\ unsaved = {} /\ untold = {}
  /\ stimuli = 0 /\ boots = 0

-----------------------------------------------------------------------------
(* When nothing is in hand, and who may run.                               *)

\* What follows a store beyond the record, nobody knows.
Overrun == pc["mqtt"] = "undefined"

Rest == /\ pc["gpio"] = "idle" /\ pc["app"] = "idle" /\ pc["mqtt"] = "idle"
        /\ op = "CASA_IDLE"

Stimulus == stimuli < MaxStimuli /\ stimuli' = stimuli + 1

\* casa_app and the mqtt thread have a higher priority than the thread of the
\* switches, which runs while both are delayed or wait for the radio or the flash.
HighBlocked ==
  /\ pc["app"] \in {"idle", "publish", "write"}
  /\ pc["mqtt"] \in {"idle", "delay", "publish", "answer"}

Runs(t) == t = "gpio" => HighBlocked

Goto(t, p) == pc' = [pc EXCEPT ![t] = p]

-----------------------------------------------------------------------------
(* The histories.                                                          *)

Saved(n) == Restored(flash[n]) = load[n]

\* The level of n is on its way into flash: in a click that has not filled the
\* record, in a record whose update is to come, or in what is left of an update.
Entry(i, n) == dc.info[i].endpoint = n /\ dc.info[i].set_value = load[n]
Clicked(n) == pc["gpio"] = "fill" /\ clicked = n
ToCome == pc["mqtt"] \in {"apply", "delay"} \/ asked
Recorded(n) == \E i \in 1 .. dc.counter : Entry(i, n)
Left(t, n) ==
  \/ pc[t] = "update" /\ Recorded(n)
  \/ pc[t] \in {"publish", "save"} /\ \E i \in idx[t] .. dc.counter : Entry(i, n)
  \/ pc[t] = "write" /\ dc.info[idx[t]].endpoint = n /\ val[t] = load[n]
  \/ pc[t] = "write" /\ \E i \in idx[t] + 1 .. dc.counter : Entry(i, n)
Carried(n) == Clicked(n) \/ (ToCome /\ Recorded(n)) \/ \E t \in Updaters : Left(t, n)

\* Its level is on its way to the cloud.
Named(n) == \E i \in 1 .. dc.counter : dc.info[i].endpoint = n
Announced(n) ==
  \/ Clicked(n)
  \/ (ToCome \/ \E t \in Updaters : pc[t] = "update") /\ Named(n)
  \/ \E t \in Updaters : pc[t] = "publish" /\ json[t][n] = load[n]

\* An endpoint is marked when its level loses its way, until flash or the cloud
\* has its level again.
Mark(u, r) ==
  /\ held' = [n \in Endpoints |-> {load'[n]} \cup (IF Rest' THEN {} ELSE held[n])]
  /\ unsaved' = { n \in unsaved \cup u : ~Saved(n)' }
  /\ untold' = { n \in untold \cup r : cloud'[n] # load'[n] }

\* The step of a thread that does its own work.
Keep == UNCHANGED <<asked, mixed>> /\ Mark({}, {})

\* A step that rewrites the record or current_operation: what was on its way and
\* no longer is, is lost.
Unannounced == { n \in Endpoints : Announced(n) /\ ~Announced(n)' }
Loses(r) == Mark({ n \in Endpoints : Carried(n) /\ ~Carried(n)' }, r \cup Unannounced)
Rewrites(t, r) ==
  /\ asked' = FALSE
  /\ mixed' = mixed \cup { u \in Updaters \ {t} : pc[u] \notin {"idle", "fill"} }
  /\ Loses(r)

-----------------------------------------------------------------------------
(* A click: manual_switch_handling().                                      *)

\* switch_interrupts is looked at once for all buttons, so that a click may come
\* while a level is written to flash.
Click(n) ==
  /\ pc["gpio"] = "idle" /\ Runs("gpio")
  /\ Stimulus
  /\ load' = [load EXCEPT ![n] = 1 - @]
  /\ clicked' = n
  /\ Goto("gpio", "fill")
  /\ UNCHANGED <<flash, record, session, idx, val, json, data, cloud, boots>>
  /\ Keep

\* Mutant of FillRecord: the record is not cleared and the click counted on.
FillRecord_Appends ==
  /\ pc["gpio"] = "fill" /\ Runs("gpio")
  /\ dc' = [dc EXCEPT
              !.counter = @ + 1,
              !.info[1] = [endpoint |-> clicked, set_value |-> load[clicked]]]
  /\ clicked' = 1
  /\ Goto("gpio", "update")
  /\ UNCHANGED <<load, flash, op, session, idx, val, json, data, cloud, stimuli, boots>>
  /\ Rewrites("gpio", {})
FillRecord ==
  /\ pc["gpio"] = "fill" /\ Runs("gpio")
  /\ dc' = [Zeroed EXCEPT
              !.counter = 1,
              !.info[1] = [endpoint |-> clicked, set_value |-> load[clicked]]]
  /\ clicked' = 1
  /\ Goto("gpio", "update")
  /\ UNCHANGED <<load, flash, op, session, idx, val, json, data, cloud, stimuli, boots>>
  /\ Rewrites("gpio", {})

-----------------------------------------------------------------------------
(* casa_device_status_update(), run by the thread of the switches and by   *)
(* casa_app.                                                               *)

\* casa_app_process_action() finds the operation the mqtt thread asked for.
Poll ==
  /\ pc["app"] = "idle" /\ op = "STATUS_UPDATE"
  /\ Goto("app", "update")
  /\ asked' = FALSE
  /\ mixed' = IF asked THEN mixed ELSE mixed \cup {"app"}
  /\ UNCHANGED <<load, flash, record, session, idx, val, json, data, clicked,
                 cloud, stimuli, boots>>
  /\ Mark({}, {})

\* construct_status_update_json(): the levels are read from the pins, of every
\* load up to the counter or of those in the record.
Mentioned(d) ==
  IF d.call_type = 1 THEN 1 .. d.counter
                     ELSE { d.info[i].endpoint : i \in 1 .. d.counter } \cap Endpoints
Report(d) == [n \in Endpoints |-> IF n \in Mentioned(d) THEN load[n] ELSE NotSaved]

\* Without the internet there is no report.
StatusUpdate(t) ==
  /\ t \in Updaters
  /\ pc[t] = "update" /\ Runs(t)
  /\ dc' = IF connected THEN [dc EXCEPT !.call_type = 0] ELSE dc
  /\ \/ internet /\ json' = [json EXCEPT ![t] = Report(dc')] /\ Goto(t, "publish")
     \/ ~internet /\ Goto(t, "save") /\ UNCHANGED json
  /\ idx' = [idx EXCEPT ![t] = 1]
  /\ UNCHANGED <<load, flash, op, session, val, data, clicked, cloud, asked, mixed,
                 stimuli, boots>>
  /\ Mark({}, IF internet THEN {} ELSE Unannounced)

\* Mqtt_publish() drops a message while there is no session.
Told(t) == [n \in Endpoints |->
              IF connected /\ json[t][n] # NotSaved THEN json[t][n] ELSE cloud[n]]

\* History: what the cloud had right and an older report spoils.
Known == { n \in Endpoints : cloud[n] = load[n] }

Publish(t) ==
  /\ t \in Updaters
  /\ pc[t] = "publish" /\ Runs(t)
  /\ cloud' = Told(t)
  /\ json' = [json EXCEPT ![t] = NoReport]
  /\ Goto(t, "save")
  /\ UNCHANGED <<load, flash, record, session, idx, val, data, clicked, asked, mixed,
                 stimuli, boots>>
  /\ Mark({}, Known)

\* save_device_status(): the value is read, then the key and the write.
SaveBegin(t) ==
  /\ t \in Updaters
  /\ pc[t] = "save" /\ Runs(t)
  /\ idx[t] <= dc.counter
  /\ val' = [val EXCEPT ![t] = dc.info[idx[t]].set_value]
  /\ Goto(t, "write")
  /\ UNCHANGED <<load, flash, record, session, idx, json, data, clicked, cloud,
                 stimuli, boots>>
  /\ Keep

\* Mutant: the place in the record taken for the endpoint.
SaveWrite_ByIndex(t) ==
  /\ t \in Updaters
  /\ pc[t] = "write" /\ Runs(t)
  /\ flash' = [flash EXCEPT ![idx[t]] = val[t]]
  /\ val' = [val EXCEPT ![t] = 0]
  /\ idx' = [idx EXCEPT ![t] = @ + 1]
  /\ Goto(t, "save")
  /\ UNCHANGED <<load, record, session, json, data, clicked, cloud, asked, mixed,
                 stimuli, boots>>
  /\ Mark(IF t \in mixed THEN {idx[t]} ELSE {}, {})
SaveWrite(t) ==
  /\ t \in Updaters
  /\ pc[t] = "write" /\ Runs(t)
  /\ flash' = [flash EXCEPT ![dc.info[idx[t]].endpoint] = val[t]]
  /\ val' = [val EXCEPT ![t] = 0]
  /\ idx' = [idx EXCEPT ![t] = @ + 1]
  /\ Goto(t, "save")
  /\ UNCHANGED <<load, record, session, json, data, clicked, cloud, asked, mixed,
                 stimuli, boots>>
  /\ Mark(IF t \in mixed THEN {dc.info[idx[t]].endpoint} \cap Endpoints ELSE {}, {})

\* Nobody registers or de-registers meanwhile.
SaveEnd(t) ==
  /\ t \in Updaters
  /\ pc[t] = "save" /\ Runs(t)
  /\ idx[t] > dc.counter
  /\ op' = "CASA_IDLE"
  /\ idx' = [idx EXCEPT ![t] = 1]
  /\ Goto(t, "idle")
  /\ asked' = FALSE /\ mixed' = mixed \ {t}
  /\ UNCHANGED <<load, flash, dc, session, val, json, data, clicked, cloud, stimuli, boots>>
  /\ Loses({})

-----------------------------------------------------------------------------
(* A control message: control_msg_parser(), then control_endpoint() and    *)
(* the request to casa_app in casa_message_parser().                       *)

\* The record is cleared first, whether or not the head of the message is
\* complete.
ReceiveControl(d) ==
  /\ pc["mqtt"] = "idle" /\ connected
  /\ Stimulus
  /\ dc' = Zeroed
  /\ \/ data' = d /\ Goto("mqtt", "parse")   \* the head is complete
     \/ UNCHANGED <<data, pc>>               \* a member is missing
  /\ UNCHANGED <<load, flash, op, session, idx, val, json, clicked, cloud, boots>>
  /\ Rewrites("mqtt", {})

ParseDone(p) == Goto("mqtt", p) /\ data' = <<>>

TakePlace(e) ==
  dc' = [dc EXCEPT !.counter = @ + 1,
                   !.info[dc.counter + 1] = [endpoint |-> e.node, set_value |-> e.value]]

\* One element: a load that has the level already is skipped, a load beyond the
\* limit ends the message with FAIL, any other takes the next place, which nobody
\* compares with the room for N.
ParseElement ==
  LET e == Head(data)
      full == dc.counter = N
  IN
  /\ pc["mqtt"] = "parse" /\ data # <<>>
  /\ \E level \in IF e.node \in Endpoints THEN {load[e.node]} ELSE Level :
       \/ /\ level = e.value /\ connected
          /\ data' = Tail(data)
          /\ UNCHANGED <<dc, pc>>
       \/ /\ ~(level = e.value /\ connected) /\ full
          /\ pc' = [t \in Threads |-> "undefined"]
          /\ UNCHANGED <<dc, data>>
       \/ /\ ~(level = e.value /\ connected) /\ ~full
          /\ e.node \notin Endpoints
          /\ dc' = [dc EXCEPT !.info[dc.counter + 1].endpoint = e.node]
          /\ ParseDone("idle")
       \/ /\ ~(level = e.value /\ connected) /\ ~full
          /\ e.node \in Endpoints
          /\ TakePlace(e)
          /\ data' = Tail(data)
          /\ UNCHANGED pc
  /\ UNCHANGED <<load, flash, op, session, idx, val, json, clicked, cloud,
                 asked, mixed, stimuli, boots>>
  /\ Loses({})

\* Mutant of ParseEnd: casa_app is asked before the loads are set.
ParseEnd_AskFirst ==
  /\ pc["mqtt"] = "parse" /\ data = <<>>
  /\ ParseDone(IF dc.counter = 0 THEN "idle" ELSE "apply")
  /\ op' = IF dc.counter = 0 THEN op ELSE "STATUS_UPDATE"
  /\ asked' = (dc.counter # 0)
  /\ UNCHANGED <<load, flash, dc, session, idx, val, json, clicked, cloud, mixed,
                 stimuli, boots>>
  /\ Mark({}, {})
ParseEnd ==
  /\ pc["mqtt"] = "parse" /\ data = <<>>
  /\ ParseDone(IF dc.counter = 0 THEN "idle" ELSE "apply")
  /\ UNCHANGED <<load, flash, record, session, idx, val, json, clicked, cloud,
                 stimuli, boots>>
  /\ Keep

ControlEndpoint ==
  LET e == dc.info[idx["mqtt"]] IN
  /\ pc["mqtt"] = "apply"
  /\ \/ /\ idx["mqtt"] <= dc.counter
        /\ load' = [load EXCEPT ![e.endpoint] = e.set_value]
        /\ idx' = [idx EXCEPT !["mqtt"] = @ + 1]
        /\ UNCHANGED pc
     \/ /\ idx["mqtt"] > dc.counter
        /\ Goto("mqtt", "delay")
        /\ idx' = [idx EXCEPT !["mqtt"] = 1]
        /\ UNCHANGED load
  /\ UNCHANGED <<flash, record, session, val, json, data, clicked, cloud, stimuli, boots>>
  /\ Keep

\* Mutant of AskForUpdate: only while the session lives.
AskForUpdate_IfConnected ==
  /\ pc["mqtt"] = "delay"
  /\ op' = IF connected THEN "STATUS_UPDATE" ELSE op
  /\ Goto("mqtt", "idle")
  /\ asked' = connected
  /\ UNCHANGED <<load, flash, dc, session, idx, val, json, data, clicked, cloud, mixed,
                 stimuli, boots>>
  /\ Mark({}, {})
\* 50 ms later.
AskForUpdate ==
  /\ pc["mqtt"] = "delay"
  /\ op' = "STATUS_UPDATE"
  /\ Goto("mqtt", "idle")
  /\ asked' = TRUE
  /\ UNCHANGED <<load, flash, dc, session, idx, val, json, data, clicked, cloud, mixed,
                 stimuli, boots>>
  /\ Mark({}, {})

-----------------------------------------------------------------------------
(* The other messages the parser takes.                                    *)

\* Mutant of Resync: the loads of the record, which has none.
Resync_OnlyOfRecord ==
  /\ pc["mqtt"] = "idle" /\ connected
  /\ Stimulus
  /\ dc' = [Zeroed EXCEPT !.counter = N]
  /\ json' = [json EXCEPT !["mqtt"] = Report(dc')]
  /\ synced' = IF synced = "no" THEN "sending" ELSE synced
  /\ Goto("mqtt", "publish")
  /\ UNCHANGED <<load, flash, op, connected, internet, idx, val, data, clicked, cloud, boots>>
  /\ Rewrites("mqtt", {})
\* ONLINE_RESP: send_device_status() sends the level of every load.
Resync ==
  /\ pc["mqtt"] = "idle" /\ connected
  /\ Stimulus
  /\ dc' = [Zeroed EXCEPT !.counter = N, !.call_type = 1]
  /\ json' = [json EXCEPT !["mqtt"] = Report(dc')]
  /\ synced' = IF synced = "no" THEN "sending" ELSE synced
  /\ Goto("mqtt", "publish")
  /\ UNCHANGED <<load, flash, op, connected, internet, idx, val, data, clicked, cloud, boots>>
  /\ Rewrites("mqtt", {})

\* The record is cleared behind the report.
ResyncPublish ==
  /\ pc["mqtt"] = "publish"
  /\ cloud' = Told("mqtt")
  /\ synced' = IF synced = "sending" THEN "yes" ELSE synced
  /\ dc' = Zeroed /\ op' = "CASA_IDLE"
  /\ json' = [json EXCEPT !["mqtt"] = NoReport]
  /\ Goto("mqtt", "idle")
  /\ UNCHANGED <<load, flash, connected, internet, idx, val, data, clicked,
                 stimuli, boots>>
  /\ Rewrites("mqtt", Known)

\* GET_ONLINE_OFFLINE_STATUS, SWITCH_OPERATION_CHANGE, SECURE_DEVICE and
\* GET_DEVICE_STATUS: an answer that does not touch the record, and behind it
\* current_operation is reset.
Query ==
  /\ pc["mqtt"] = "idle" /\ connected
  /\ Stimulus
  /\ Goto("mqtt", "answer")
  /\ UNCHANGED <<load, flash, record, session, idx, val, json, data, clicked, cloud, boots>>
  /\ Keep

QueryEnd ==
  /\ pc["mqtt"] = "answer"
  /\ op' = "CASA_IDLE"
  /\ Goto("mqtt", "idle")
  /\ asked' = FALSE
  /\ UNCHANGED <<load, flash, dc, session, idx, val, json, data, clicked, cloud, mixed,
                 stimuli, boots>>
  /\ Loses({})

-----------------------------------------------------------------------------
(* The surroundings.                                                       *)

\* The session begins when the internet was found and ends with the broker's
\* connection.
SessionChange ==
  /\ internet
  /\ connected' = ~connected
  /\ synced' = "no"
  /\ UNCHANGED <<load, flash, record, internet, locals, cloud, stimuli, boots>>
  /\ Keep

\* The monitor's probe (wifi.c) finds the internet or not, session or not.
Probe ==
  /\ internet' = ~internet
  /\ UNCHANGED <<load, flash, record, connected, synced, locals, cloud, stimuli, boots>>
  /\ Keep

\* The power fails, and the loads are restored.
PowerCycle ==
  /\ boots < MaxBoots /\ ~Overrun
  /\ boots' = boots + 1
  /\ load' = [n \in Endpoints |-> Restored(flash[n])]
  /\ dc' = Zeroed /\ op' = "CASA_IDLE"
  /\ connected' = FALSE /\ internet' = FALSE /\ synced' = "no"
  /\ pc' = [t \in Threads |-> "idle"]
  /\ idx' = [t \in Threads |-> 1]
  /\ val' = [t \in Threads |-> 0]
  /\ json' = [t \in Threads |-> NoReport]
  /\ data' = <<>> /\ clicked' = 1
  /\ asked' = FALSE /\ mixed' = {}
  /\ UNCHANGED <<flash, cloud, stimuli>>
  /\ Mark({}, {})

UpdateStep(t) ==
  StatusUpdate(t) \/ Publish(t) \/ SaveBegin(t) \/ SaveWrite(t) \/ SaveEnd(t)
GpioStep == FillRecord \/ UpdateStep("gpio")
AppStep == Poll \/ UpdateStep("app")
MqttStep == \/ ParseElement \/ ParseEnd \/ ControlEndpoint \/ AskForUpdate
            \/ ResyncPublish \/ QueryEnd

Next ==
  \/ \E n \in Endpoints : Click(n)
  \/ \E d \in Arrays : ReceiveControl(d)
  \/ Resync \/ Query
  \/ GpioStep \/ AppStep \/ MqttStep
  \/ SessionChange \/ Probe \/ PowerCycle

\* Every thread is scheduled while it can run; nobody owes a stimulus.
Fairness == /\ WF_vars(GpioStep) /\ WF_vars(AppStep)
            /\ WF_vars(MqttStep)

Spec == Init /\ [][Next]_vars
LiveSpec == Spec /\ Fairness

-----------------------------------------------------------------------------

\* Every variable has its type.  The record has room for what it counts
\* (device_control.h:30) as long as no message has overrun it: that is where the
\* model ends, nothing in the code prevents it.
TypeOK ==
  /\ load \in [Endpoints -> Level]
  /\ flash \in [Nodes -> Level \cup {NotSaved}]
  /\ dc \in [counter : 0 .. N, call_type : {0, 1},
             info : [Endpoints -> [endpoint : Nodes, set_value : Level]]]
  /\ op \in {"CASA_IDLE", "STATUS_UPDATE"}
  /\ connected \in BOOLEAN /\ internet \in BOOLEAN /\ synced \in {"no", "sending", "yes"}
  /\ pc \in [Threads -> {"idle", "fill", "update", "publish", "save", "write", "parse",
                         "apply", "delay", "answer", "undefined"}]
  /\ idx \in [Threads -> 1 .. N + 1]
  /\ val \in [Threads -> Level]
  /\ json \in [Threads -> [Endpoints -> Level \cup {NotSaved}]]
  /\ data \in Seq(DataElement)
  /\ clicked \in Endpoints
  /\ cloud \in [Endpoints -> Level \cup {NotSaved}]
  /\ held \in [Endpoints -> SUBSET Level]
  /\ asked \in BOOLEAN /\ mixed \subseteq Updaters
  /\ unsaved \subseteq Endpoints /\ untold \subseteq Endpoints
  /\ stimuli \in 0 .. MaxStimuli /\ boots \in 0 .. MaxBoots

\* Whatever happened to the loads, when the device is at rest flash holds what
\* brings them back: that is what save_device_status() and
\* get_eeprom_device_state_info() are for (eeprom_manage.h:84-97).  Excepted is,
\* until it is saved again, an endpoint whose level was in a record, or in a
\* request to casa_app, that another thread rewrote before it was saved.
FlashFollowsLoad == Rest => \A n \in Endpoints : Saved(n) \/ n \in unsaved

\* A power failure takes a load to a level it had since the device was last at
\* rest, never to one that a message asked for and that was not set yet
\* (casa_msg_parser.c:482-483), with the exception above.
RestoredLevelWasReal ==
  [][boots' # boots => \A n \in Endpoints : load'[n] \in held[n] \/ n \in unsaved]_vars

\* While the session lives, and once all levels were sent in it, the cloud knows
\* the levels of a device at rest (device_control.h:35-36).  Excepted is, until the
\* cloud has its level again, an endpoint whose report was not made because the
\* record or the request was rewritten or the internet was not found
\* (device_control.c:53), or was overtaken by an older one.
ReportFollowsLoad ==
  Rest /\ synced = "yes" => \A n \in Endpoints : cloud[n] = load[n] \/ n \in untold

\* The levels are saved in the end (device_control.c:59), but for those that were
\* lost on their way, of which an overrun of the record is one.
EventuallySaved == []<>(\A n \in Endpoints : Saved(n) \/ n \in unsaved)
=============================================================================

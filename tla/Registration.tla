---------------------------- MODULE Registration ----------------------------
(***************************************************************************)
(* The registration of an IoTCASA device that is not registered yet, with  *)
(* every thread that shares casa_ctx while it runs:                        *)
(*                                                                         *)
(*   casa_app   app.c           dispatches on current_operation and drives *)
(*                              casa_registration()                        *)
(*   ble        bluetooth.c     collects the request of the mobile app     *)
(*   mqtt       mqtt_handler.c  reconnects, and parses inbound messages    *)
(*   gpio       gpio_control.c  polls the push buttons                     *)
(*   the 500 ms sleeptimer callbacks register_data_callback() and          *)
(*   cloud_reg_status_callback()                                           *)
(*                                                                         *)
(* casa_app, ble and mqtt run at realtime priority and gpio at normal      *)
(* priority, so casa_app is interleaved where it blocks: in flash, in the  *)
(* BLE stack, in the network or in osDelay().  Each of those places is a   *)
(* value of its program counter.                                           *)
(*                                                                         *)
(* The module covers the life of a device up to its first de-registration: *)
(* it ends where current_operation becomes DEREGISTRATION, and             *)
(* casa_ctx.de_registration is NULL throughout.  mqtt_ssl_connection is    *)
(* always set together with mqtt_connection_check, so the branch to        *)
(* REGISTRATION_FOTA_UPDATE_CHECK cannot be taken and reg_fota_status      *)
(* stays 0.                                                                *)
(***************************************************************************)
EXTENDS Naturals

CONSTANTS
  Null,             \* the NULL pointer
  SwitchEnableTime, \* SWITCH_ENABLE_TIME, in timer periods
  RegTimeout,       \* REG_TIMEOUT, in timer periods
  CloudRespTime,    \* CLOUD_REG_RESP_TIME, in timer periods
  Requests,         \* the requests the mobile app may send
  Codes,            \* the status codes the cloud may answer
  Messages,         \* what else may arrive by MQTT
  Presses           \* the button gestures the user may make

\* A request with everything in it, with an empty required field, with a field
\* missing, and with an operation code that is no registration.
RequestKinds == {"good", "blank", "missing", "other"}
MessageKinds == {"duplicate", "query", "control"}
\* "retry" is a long press on a device that is idle and not registered.
PressKinds == {"click", "retry", "hold"}

CLOUD_CODE_OK == 200

ASSUME TimesAssumption ==
  SwitchEnableTime \in Nat /\ RegTimeout \in Nat /\ CloudRespTime \in Nat
ASSUME RequestsAssumption == Requests \subseteq RequestKinds
ASSUME CodesAssumption == Codes \subseteq Nat \ {0}
ASSUME MessagesAssumption == Messages \subseteq MessageKinds
ASSUME PressesAssumption == Presses \subseteq PressKinds

\* Bound: the count of timer periods.  It bites only when a long press has left
\* two timers running on one context.
MaxTicks == RegTimeout + CloudRespTime + 1

Operations == {"CASA_IDLE", "REGISTRATION", "STATUS_UPDATE", "DEREGISTRATION"}

Contexts ==
  [current_op : {"REGISTRATION_INIT", "REG_REQ_PARSE", "REG_WIFI_MQTT_INIT",
                 "REG_DEVICE_DETAILS_SHARING", "REGISTRATION_PROCESS",
                 "REGISTRATION_FINAL", "WAIT"},
   request    : RequestKinds \cup {"none", "garbled"},  \* ble_buffer
   buffer     : BOOLEAN,                                \* buffer_status
   cloud      : Codes \cup {0},                         \* cloud_mqtt_reg_status
   time_out   : 0 .. MaxTicks]

ASSUME NullAssumption == Null \notin Contexts

VARIABLES
  op,        \* casa_ctx.current_operation
  ctx,       \* casa_ctx.registration: Null or the context it points to
  switches,  \* casa_ctx.switch_interrupts
  flag,      \* casa_ctx.reg_dereg_flag
  done,      \* casa_ctx.reg_status = REGISTRATION_DONE
  complete,  \* ssid, password and userid of casa_ctx are not empty
  timers,    \* running sleeptimers: "provision", "cloud"
  connected, \* mqtt_connection_check and casa_ctx.mqtt_ssl_connection
  wifi,      \* the Wi-Fi client interface is up
  mqttTask,  \* the thread behind mqttConnectHandle exists
  ble,       \* the thread behind BleAppHandle exists
  stored,    \* NVM3_KEY_REG_STATUS holds REGISTRATION_DONE
  told,      \* the latest response given to the BLE stack
  owed,      \* the cloud has an answer on its way
  app,       \* program counters of three threads
  rx,
  gpio,
  dropped,   \* history: a long press has zeroed casa_ctx during an attempt
  starved,   \* history: there was no memory for the attempt that was to begin
  midway     \* history: the click in hand made its choice during an attempt

casa == <<op, ctx, switches, flag, done, complete>>
net == <<connected, wifi, mqttTask, owed>>
phone == <<ble, told>>
history == <<dropped, starved, midway>>

vars == <<op, ctx, switches, flag, done, complete, timers, connected, wifi,
          mqttTask, ble, stored, told, owed, app, rx, gpio, history>>

AppPc  == {"loop", "eeprom", "bleInit", "ack", "wifi", "wifiFailed",
           "starting", "subscribing", "publish", "success", "failing",
           "closing", "stopping", "status", "store", "undefined"}
RxPc   == {"poll", "answer", "act", "control", "starting", "subscribing", "undefined"}
GpioPc == {"start", "poll", "status", "CASA_IDLE", "REGISTRATION",
           "DEREGISTRATION", "pressed", "undefined"}

NewContext ==
  [current_op |-> "REGISTRATION_INIT", request |-> "none", buffer |-> FALSE,
   cloud |-> 0, time_out |-> 0]

\* A device that has just started, not registered; its flash may hold the
\* fields of an earlier registration that was cut short.
Init ==
  /\ op = "REGISTRATION"
  /\ ctx = Null
  /\ switches = TRUE
  /\ flag = FALSE
  /\ done = FALSE
  /\ complete \in BOOLEAN
  /\ timers = {}
  /\ connected = FALSE /\ wifi = FALSE /\ mqttTask = FALSE
  /\ ble = FALSE
  /\ stored = FALSE
  /\ told = "none"
  /\ owed = FALSE
  /\ app = "loop" /\ rx = "poll" /\ gpio = "start"
  /\ dropped = FALSE /\ starved = FALSE /\ midway = FALSE

-----------------------------------------------------------------------------
(* Pieces shared by several handlers.                                      *)

SetCurrentOp(s) == ctx' = [ctx EXCEPT !.current_op = s]

\* A dereference of casa_ctx.registration when it is NULL: nothing is said
\* about the program from there on, every thread is in limbo.
NullDereference ==
  /\ ctx = Null
  /\ app' = "undefined" /\ rx' = "undefined" /\ gpio' = "undefined"
  /\ timers' = {}
  /\ UNCHANGED <<casa, net, phone, stored, history>>

Undefined == app = "undefined"

\* save_device_status(), if there is an endpoint to save.
SaveDeviceStatus == switches' \in {switches, ~flag}

\* The operation casa_device_status_update() chooses next.
NextOperation ==
  IF flag THEN (IF done THEN "DEREGISTRATION" ELSE "REGISTRATION")
          ELSE (IF ctx # Null THEN "REGISTRATION" ELSE "CASA_IDLE")

-----------------------------------------------------------------------------
(* casa_app: casa_app_process_action() and casa_registration().            *)

\* casa_registration() is called and finds the context in state s.
Runs(s) ==
  /\ app = "loop" /\ op = "REGISTRATION"
  /\ ctx # Null /\ ctx.current_op = s

\* Where casa_app uses the pointer after it has blocked.
Holding == {"eeprom", "bleInit", "ack", "wifi", "wifiFailed", "starting",
            "subscribing", "publish", "success", "stopping"}

AppNull == app \in Holding /\ NullDereference

\* The context is allocated, the hardware details are read from flash ...
AppEnter ==
  /\ app = "loop" /\ op = "REGISTRATION" /\ ctx = Null
  /\ ctx' = NewContext
  /\ starved' = FALSE
  /\ app' = "eeprom"
  /\ UNCHANGED <<op, switches, flag, done, complete, timers, net, phone,
                 stored, rx, gpio, dropped, midway>>

\* ... or there is no memory for it, and the attempt does not begin.
AppNoMemory ==
  /\ app = "loop" /\ op = "REGISTRATION" /\ ctx = Null
  /\ op' = "CASA_IDLE"
  /\ starved' = TRUE
  /\ UNCHANGED <<ctx, switches, flag, done, complete, timers, net, phone,
                 stored, app, rx, gpio, dropped, midway>>

\* ... and REGISTRATION_INIT follows: registration_init() starts BLE, unless
\* the device is registered.
AppInit ==
  /\ app = "eeprom" /\ ctx # Null
  /\ switches' = FALSE
  /\ flag' = TRUE
  /\ IF done
       THEN /\ ctx' = [NewContext EXCEPT !.cloud = ctx.cloud,
                                         !.current_op = "WAIT"]
            /\ timers' = timers \cup {"provision"}
            /\ app' = "loop"
       ELSE /\ ctx' = [NewContext EXCEPT !.cloud = ctx.cloud,
                                         !.time_out = ctx.time_out]
            /\ UNCHANGED timers
            /\ app' = "bleInit"
  /\ UNCHANGED <<op, done, complete, net, phone, stored, rx, gpio, history>>

\* casa_ble_init() may fail, which is ignored.
AppWaitForPhone ==
  /\ app = "bleInit" /\ ctx # Null
  /\ ble' \in {ble, TRUE}
  /\ ctx' = [ctx EXCEPT !.time_out = 0, !.current_op = "WAIT"]
  /\ timers' = timers \cup {"provision"}
  /\ app' = "loop"
  /\ UNCHANGED <<op, switches, flag, done, complete, net, told, stored, rx,
                 gpio, history>>

\* REG_REQ_PARSE: the request is acknowledged (there is one: buffer_status is
\* set by a request only) ...
AppAcknowledge ==
  /\ Runs("REG_REQ_PARSE")
  /\ told' = "received"
  /\ app' = "ack"
  /\ UNCHANGED <<casa, timers, net, ble, stored, rx, gpio, history>>

\* ... and what the buffer holds by now is parsed.  An unknown operation code
\* is no failure for casa_message_parser().
AppParse ==
  /\ app = "ack" /\ ctx # Null
  /\ SetCurrentOp(IF ctx.request \in {"good", "blank", "other"}
                    THEN "REG_WIFI_MQTT_INIT" ELSE "REGISTRATION_FINAL")
  /\ complete' \in CASE ctx.request = "good"    -> {TRUE}
                     [] ctx.request = "blank"   -> {FALSE}
                     [] ctx.request = "missing" -> BOOLEAN
                     [] OTHER                   -> {complete}
  /\ app' = "loop"
  /\ UNCHANGED <<op, switches, flag, done, timers, net, phone, stored, rx,
                 gpio, history>>

\* REG_WIFI_MQTT_INIT: wifi_sta() ...
AppWifi ==
  /\ Runs("REG_WIFI_MQTT_INIT")
  /\ app' = "wifi"
  /\ UNCHANGED <<casa, timers, net, phone, stored, rx, gpio, history>>

\* ... fails, the phone is told ...
AppWifiFailed ==
  /\ app = "wifi" /\ ctx # Null
  /\ told' = "wifi"
  /\ app' = "wifiFailed"
  /\ UNCHANGED <<casa, timers, net, ble, stored, rx, gpio, history>>

AppNoWifi ==
  /\ app = "wifiFailed" /\ ctx # Null
  /\ SetCurrentOp("REGISTRATION_FINAL")
  /\ app' = "loop"
  /\ UNCHANGED <<op, switches, flag, done, complete, timers, net, phone,
                 stored, rx, gpio, history>>

\* ... or succeeds, and mqtt_app_start() begins with mqtt_app_close().
AppStart ==
  /\ app = "wifi" /\ ctx # Null
  /\ SetCurrentOp("WAIT")
  /\ wifi' = TRUE
  /\ connected' = FALSE
  /\ app' = "starting"
  /\ UNCHANGED <<op, switches, flag, done, complete, timers, mqttTask, owed,
                 phone, stored, rx, gpio, history>>

AppSubscribe ==
  /\ app = "starting" /\ ctx # Null /\ connected
  /\ switches' = FALSE
  /\ app' = "subscribing"
  /\ UNCHANGED <<op, ctx, flag, done, complete, timers, net, phone, stored, rx,
                 gpio, history>>

AppStartFailed ==
  /\ app = "starting" /\ ctx # Null /\ ~connected
  /\ SetCurrentOp("REGISTRATION_FINAL")
  /\ app' = "loop"
  /\ UNCHANGED <<op, switches, flag, done, complete, timers, net, phone,
                 stored, rx, gpio, history>>

\* mqtt_connection_task_create() replaces a thread that is still there.
AppStarted ==
  /\ app = "subscribing" /\ ctx # Null /\ connected
  /\ switches' = TRUE
  /\ SetCurrentOp("REG_DEVICE_DETAILS_SHARING")
  /\ mqttTask' = TRUE /\ rx' = "poll"
  /\ app' = "loop"
  /\ UNCHANGED <<op, flag, done, complete, timers, connected, wifi, owed,
                 phone, stored, gpio, history>>

AppStartLost ==
  /\ app = "subscribing" /\ ctx # Null /\ ~connected
  /\ switches' = TRUE
  /\ SetCurrentOp("REGISTRATION_FINAL")
  /\ app' = "loop"
  /\ UNCHANGED <<op, flag, done, complete, timers, net, phone, stored, rx,
                 gpio, history>>

\* REG_DEVICE_DETAILS_SHARING: the details are published ...
AppShare ==
  /\ Runs("REG_DEVICE_DETAILS_SHARING") /\ connected
  /\ owed' = TRUE
  /\ app' = "publish"
  /\ UNCHANGED <<casa, timers, connected, wifi, mqttTask, phone, stored, rx,
                 gpio, history>>

AppShareOffline ==
  /\ Runs("REG_DEVICE_DETAILS_SHARING") /\ ~connected
  /\ SetCurrentOp("REGISTRATION_FINAL")
  /\ UNCHANGED <<op, switches, flag, done, complete, timers, net, phone,
                 stored, app, rx, gpio, history>>

\* ... and the wait for the answer begins.
AppAwaitAnswer ==
  /\ app = "publish" /\ ctx # Null
  /\ ctx' = [ctx EXCEPT !.time_out = 0, !.current_op = "WAIT"]
  /\ timers' = timers \cup {"cloud"}
  /\ app' = "loop"
  /\ UNCHANGED <<op, switches, flag, done, complete, net, phone, stored, rx,
                 gpio, history>>

\* REGISTRATION_PROCESS: the phone hears of the success ...
AppAccepted ==
  /\ Runs("REGISTRATION_PROCESS") /\ ctx.cloud = CLOUD_CODE_OK
  /\ done' = TRUE
  /\ told' = "success"
  /\ app' = "success"
  /\ UNCHANGED <<op, ctx, switches, flag, complete, timers, net, ble, stored,
                 rx, gpio, history>>

AppRefused ==
  /\ Runs("REGISTRATION_PROCESS") /\ ctx.cloud # CLOUD_CODE_OK
  /\ SetCurrentOp("REGISTRATION_FINAL")
  /\ UNCHANGED <<op, switches, flag, done, complete, timers, net, phone,
                 stored, app, rx, gpio, history>>

\* Mutant of AppStoreRegistration: only flash learns that a field is missing.
AppStoreRegistration_KeepsDone ==
  /\ app = "success" /\ ctx # Null
  /\ stored' = (done /\ complete)
  /\ SetCurrentOp("REGISTRATION_FINAL")
  /\ app' = "loop"
  /\ UNCHANGED <<op, switches, flag, done, complete, timers, net, phone, rx,
                 gpio, history>>

\* ... two seconds before set_eeprom_device_reg_info() stores it, or takes it
\* back for want of a required field.
AppStoreRegistration ==
  /\ app = "success" /\ ctx # Null
  /\ done' = (done /\ complete)
  /\ stored' = done'
  /\ SetCurrentOp("REGISTRATION_FINAL")
  /\ app' = "loop"
  /\ UNCHANGED <<op, switches, flag, complete, timers, net, phone, rx, gpio,
                 history>>

\* REGISTRATION_FINAL of an attempt that failed: the phone is told, if it has
\* sent anything; mqtt_app_close(); two seconds; wifi_close().
AppFail ==
  /\ Runs("REGISTRATION_FINAL") /\ ~done
  /\ told' = IF ctx.request # "none" THEN "failed" ELSE told
  /\ app' = "failing"
  /\ UNCHANGED <<casa, timers, net, ble, stored, rx, gpio, history>>

AppCloseSession ==
  /\ app = "failing"
  /\ connected' = FALSE
  /\ app' = "closing"
  /\ UNCHANGED <<casa, timers, wifi, mqttTask, owed, phone, stored, rx, gpio,
                 history>>

AppCloseWifi ==
  /\ app = "closing"
  /\ wifi' = FALSE
  /\ connected' = FALSE
  /\ app' = "stopping"
  /\ UNCHANGED <<casa, timers, mqttTask, owed, phone, stored, rx, gpio,
                 history>>

AppSucceed ==
  /\ Runs("REGISTRATION_FINAL") /\ done
  /\ app' = "stopping"
  /\ UNCHANGED <<casa, timers, net, phone, stored, rx, gpio, history>>

\* Mutant of AppEnd: the flag survives the attempt.
AppEnd_KeepsFlag ==
  /\ app = "stopping" /\ ctx # Null
  /\ ble' \in {ble, FALSE}
  /\ switches' = TRUE
  /\ op' = "CASA_IDLE"
  /\ ctx' = Null
  /\ app' = "loop"
  /\ UNCHANGED <<flag, done, complete, timers, net, told, stored, rx, gpio,
                 history>>

\* stop_ble_service() leaves the BLE thread alone when the stack does not stop.
AppEnd ==
  /\ app = "stopping" /\ ctx # Null
  /\ ble' \in {ble, FALSE}
  /\ switches' = TRUE
  /\ flag' = FALSE
  /\ op' = "CASA_IDLE"
  /\ ctx' = Null
  /\ app' = "loop"
  /\ UNCHANGED <<done, complete, timers, net, told, stored, rx, gpio, history>>

\* STATUS_UPDATE: casa_device_status_update() saves the endpoints, then chooses
\* the next operation.
AppStatus ==
  /\ app = "loop" /\ op = "STATUS_UPDATE"
  /\ app' = "status"
  /\ UNCHANGED <<casa, timers, net, phone, stored, rx, gpio, history>>

AppSave ==
  /\ app = "status"
  /\ SaveDeviceStatus
  /\ app' = "store"
  /\ UNCHANGED <<op, ctx, flag, done, complete, timers, net, phone, stored, rx,
                 gpio, history>>

AppStore ==
  /\ app = "store"
  /\ op' = NextOperation
  /\ app' = "loop"
  /\ UNCHANGED <<ctx, switches, flag, done, complete, timers, net, phone,
                 stored, rx, gpio, history>>

-----------------------------------------------------------------------------
(* ble: RSI_BLE_GATT_WRITE_EVENT.  Without a context a write is ignored.   *)

BleWrites == ble /\ ctx # Null

\* The write completes a request.
BleRequest(request) ==
  /\ BleWrites
  /\ ctx' = [ctx EXCEPT !.request = request, !.buffer = TRUE]
  /\ switches' = TRUE
  /\ UNCHANGED <<op, flag, done, complete, timers, net, phone, stored, app, rx,
                 gpio, history>>

\* The write leaves an object open in the buffer, or holds none.
BlePart ==
  /\ BleWrites
  /\ ctx' = [ctx EXCEPT !.request = "garbled"] \/ UNCHANGED ctx
  /\ switches' = TRUE
  /\ UNCHANGED <<op, flag, done, complete, timers, net, phone, stored, app, rx,
                 gpio, history>>

-----------------------------------------------------------------------------
(* mqtt: mqtt_reconnection_check() and casa_message_parser().              *)

RxTakes == mqttTask /\ rx = "poll" /\ connected

\* CLOUD_REG_MQTT_RESP: an answer is passed over when there is no context ...
RxResponse ==
  /\ RxTakes /\ owed
  /\ owed' \in {FALSE, "duplicate" \in Messages}
  /\ rx' = IF ctx = Null THEN "poll" ELSE "answer"
  /\ UNCHANGED <<casa, timers, connected, wifi, mqttTask, phone, stored, app,
                 gpio, history>>

\* ... and stored in whatever context there is by then.
RxResponseStored(code) ==
  /\ rx = "answer" /\ ctx # Null
  /\ ctx' = [ctx EXCEPT !.cloud = code]
  /\ rx' = "poll"
  /\ UNCHANGED <<op, switches, flag, done, complete, timers, net, phone, stored,
                 app, gpio, history>>

RxResponseNull == rx = "answer" /\ NullDereference

\* GET_ONLINE_OFFLINE_STATUS, SWITCH_OPERATION_CHANGE, SECURE_DEVICE,
\* GET_DEVICE_STATUS and ONLINE_RESP: publish first, then current_operation.
RxQuery ==
  /\ RxTakes /\ "query" \in Messages
  /\ rx' = "act"
  /\ UNCHANGED <<casa, timers, net, phone, stored, app, gpio, history>>

RxActed ==
  /\ rx = "act"
  /\ op' = "CASA_IDLE"
  /\ rx' = "poll"
  /\ UNCHANGED <<ctx, switches, flag, done, complete, timers, net, phone,
                 stored, app, gpio, history>>

\* CONTROL_MSG: control_endpoint() sleeps before the hand over.
RxControl ==
  /\ RxTakes /\ "control" \in Messages
  /\ rx' = "control"
  /\ UNCHANGED <<casa, timers, net, phone, stored, app, gpio, history>>

RxControlled ==
  /\ rx = "control"
  /\ op' = "STATUS_UPDATE"
  /\ rx' = "poll"
  /\ UNCHANGED <<ctx, switches, flag, done, complete, timers, net, phone,
                 stored, app, gpio, history>>

\* Reconnection, also of a thread that has outlived a failed attempt.
RxReconnect ==
  /\ mqttTask /\ rx = "poll" /\ ~connected
  /\ rx' = "starting"
  /\ UNCHANGED <<casa, timers, net, phone, stored, app, gpio, history>>

RxSubscribe ==
  /\ rx = "starting" /\ connected
  /\ switches' = FALSE
  /\ rx' = "subscribing"
  /\ UNCHANGED <<op, ctx, flag, done, complete, timers, net, phone, stored,
                 app, gpio, history>>

RxSubscribed ==
  /\ rx = "subscribing"
  /\ switches' = TRUE
  /\ rx' = "poll"
  /\ UNCHANGED <<op, ctx, flag, done, complete, timers, net, phone, stored,
                 app, gpio, history>>

RxGiveUp ==
  /\ rx = "starting" /\ ~connected
  /\ rx' = "poll"
  /\ UNCHANGED <<casa, timers, net, phone, stored, app, gpio, history>>

\* mqtt_event_handler()
NetConnected ==
  /\ wifi /\ ~connected
  /\ rx = "starting" \/ app = "starting"
  /\ connected' = TRUE
  /\ UNCHANGED <<casa, timers, wifi, mqttTask, owed, phone, stored, app, rx,
                 gpio, history>>

NetLost ==
  /\ connected
  /\ connected' = FALSE
  /\ UNCHANGED <<casa, timers, wifi, mqttTask, owed, phone, stored, app, rx,
                 gpio, history>>

-----------------------------------------------------------------------------
(* The sleeptimer interrupts.                                              *)

TickNull == timers # {} /\ NullDereference

Fires(timer) == timer \in timers /\ ctx # Null /\ ctx.time_out < MaxTicks

\* Mutant of Expire: the timer goes on.
Expire_KeepsTimer(timer, s) ==
  /\ ctx' = [ctx EXCEPT !.current_op = s, !.time_out = @ + 1]
  /\ UNCHANGED timers

\* A timer moves the context to state s and stops.
Expire(timer, s) ==
  /\ ctx' = [ctx EXCEPT !.current_op = s, !.time_out = @ + 1]
  /\ timers' = timers \ {timer}

Count ==
  /\ ctx' = [ctx EXCEPT !.time_out = @ + 1]
  /\ UNCHANGED timers

\* register_data_callback() enables the buttons after five seconds, and says
\* from then on that the device is not registering.
EnableSwitches ==
  /\ switches' = (switches \/ ctx.time_out = SwitchEnableTime)
  /\ flag' = (flag /\ ctx.time_out # SwitchEnableTime)

TickProvision ==
  /\ Fires("provision")
  /\ EnableSwitches
  /\ CASE ctx.buffer -> Expire("provision", "REG_REQ_PARSE")
       [] ~ctx.buffer /\ ctx.time_out = RegTimeout ->
            Expire("provision", "REGISTRATION_FINAL")
       [] OTHER -> Count
  /\ UNCHANGED <<op, done, complete, net, phone, stored, app, rx, gpio,
                 history>>

\* Mutant of TickCloud: no time-out and no look at the connection.
TickCloud_NoTimeOut ==
  /\ Fires("cloud")
  /\ IF ctx.cloud # 0 THEN Expire("cloud", "REGISTRATION_PROCESS") ELSE Count
  /\ UNCHANGED <<op, switches, flag, done, complete, net, phone, stored, app,
                 rx, gpio, history>>

\* cloud_reg_status_callback()
TickCloud ==
  /\ Fires("cloud")
  /\ CASE ctx.cloud # 0 -> Expire("cloud", "REGISTRATION_PROCESS")
       [] ctx.cloud = 0 /\ (ctx.time_out = CloudRespTime \/ ~connected) ->
            Expire("cloud", "REGISTRATION_FINAL")
       [] OTHER -> Count
  /\ UNCHANGED <<op, switches, flag, done, complete, net, phone, stored, app,
                 rx, gpio, history>>

Tick == TickNull \/ TickProvision \/ TickCloud

-----------------------------------------------------------------------------
(* gpio: switches_handling_task(), push_button() and what they call.       *)

GpioStart ==
  /\ gpio = "start"
  /\ switches' = TRUE
  /\ gpio' = "poll"
  /\ UNCHANGED <<op, ctx, flag, done, complete, timers, net, phone, stored,
                 app, rx, history>>

\* A click toggles the load and calls casa_device_status_update().
GpioClick ==
  /\ gpio = "poll" /\ switches
  /\ "click" \in Presses
  /\ gpio' = "status"
  /\ UNCHANGED <<casa, timers, net, phone, stored, app, rx, history>>

GpioSave ==
  /\ gpio = "status"
  /\ SaveDeviceStatus
  /\ gpio' = NextOperation
  /\ midway' = (ctx # Null)
  /\ UNCHANGED <<op, ctx, flag, done, complete, timers, net, phone, stored,
                 app, rx, dropped, starved>>

\* casa_app may run between the choice and the store.
GpioStore ==
  /\ gpio \in Operations
  /\ op' = gpio
  /\ gpio' \in {"poll"} \cup (IF "hold" \in Presses THEN {"pressed"} ELSE {})
  /\ midway' = FALSE
  /\ UNCHANGED <<ctx, switches, flag, done, complete, timers, net, phone,
                 stored, app, rx, dropped, starved>>

Idle == ctx = Null /\ app = "loop" /\ op = "CASA_IDLE" /\ ~done

\* reg_dereg_button(): on a device that is not registered casa_ctx is zeroed,
\* whatever is going on.
GpioHold ==
  /\ gpio = "pressed" \/ (gpio = "poll" /\ switches)
  /\ "hold" \in Presses \/ ("retry" \in Presses /\ Idle)
  /\ IF done
       THEN /\ op' = "DEREGISTRATION"
            /\ UNCHANGED <<ctx, switches, flag, complete>>
       ELSE /\ op' = "REGISTRATION"
            /\ ctx' = Null
            /\ switches' = FALSE
            /\ flag' = FALSE
            /\ complete' = FALSE
  /\ gpio' = "poll"
  /\ dropped' = (dropped \/ ~(done \/ Idle))
  /\ UNCHANGED <<done, timers, net, phone, stored, app, rx, starved, midway>>

-----------------------------------------------------------------------------

App ==
  \/ AppNull \/ AppEnter \/ AppNoMemory \/ AppInit \/ AppWaitForPhone \/ AppAcknowledge
  \/ AppParse \/ AppWifi \/ AppWifiFailed \/ AppNoWifi \/ AppStart
  \/ AppSubscribe \/ AppStartFailed \/ AppStarted \/ AppStartLost \/ AppShare
  \/ AppShareOffline \/ AppAwaitAnswer \/ AppAccepted \/ AppRefused
  \/ AppStoreRegistration \/ AppFail \/ AppCloseSession \/ AppCloseWifi
  \/ AppSucceed \/ AppEnd \/ AppStatus \/ AppSave \/ AppStore

Ble == BlePart \/ \E request \in Requests : BleRequest(request)

RxTake ==
  \/ RxResponse \/ RxQuery \/ RxControl \/ RxReconnect

RxFinish ==
  \/ \E code \in Codes : RxResponseStored(code)
  \/ RxResponseNull \/ RxActed \/ RxControlled \/ RxSubscribe \/ RxSubscribed \/ RxGiveUp

GpioFinish == GpioStart \/ GpioSave \/ GpioStore

Next ==
  \/ App \/ Ble \/ RxTake \/ RxFinish \/ NetConnected \/ NetLost \/ Tick
  \/ GpioClick \/ GpioFinish \/ GpioHold

Spec == Init /\ [][Next]_vars

(***************************************************************************)
(* Fairness.  The threads are scheduled, the calls they block in return,   *)
(* a periodic sleeptimer fires until it is stopped.  Nothing is assumed of *)
(* the user, the mobile app, the cloud or the network.                     *)
(***************************************************************************)
Fairness ==
  /\ WF_vars(App)
  /\ WF_vars(RxFinish)
  /\ WF_vars(GpioFinish)
  /\ WF_vars(TickNull) /\ WF_vars(TickProvision) /\ WF_vars(TickCloud)

FairSpec == Spec /\ Fairness

-----------------------------------------------------------------------------

\* Every variable has its type.
TypeOK ==
  /\ op \in Operations
  /\ ctx \in Contexts \cup {Null}
  /\ switches \in BOOLEAN
  /\ flag \in BOOLEAN
  /\ done \in BOOLEAN
  /\ complete \in BOOLEAN
  /\ timers \subseteq {"provision", "cloud"}
  /\ connected \in BOOLEAN
  /\ wifi \in BOOLEAN
  /\ mqttTask \in BOOLEAN
  /\ ble \in BOOLEAN
  /\ stored \in BOOLEAN
  /\ told \in {"none", "received", "wifi", "success", "failed"}
  /\ owed \in BOOLEAN
  /\ app \in AppPc
  /\ rx \in RxPc
  /\ gpio \in GpioPc
  /\ dropped \in BOOLEAN /\ starved \in BOOLEAN /\ midway \in BOOLEAN

\* Both timer callbacks use the context unchecked: while a timer runs there is
\* a context, and a context that waits between two calls of casa_registration()
\* has a timer to end the wait.  Two timers never count on one context: each
\* compares the shared time_out with its own limit for equality.  Only a long
\* press during an attempt breaks this.
TimerMatchesContext ==
  ~dropped =>
    /\ timers # {} => ctx # Null
    /\ timers # {"provision", "cloud"}
    /\ (ctx # Null /\ ctx.current_op = "WAIT" /\ app = "loop") => timers # {}

\* Once an attempt is over, only the long press begins another operation: neither a
\* click nor a control message starts a registration or a de-registration
\* (casa_device_status_update(), device_control.c).  Exempted is a click that made its
\* choice while the attempt lasted, whose operation casa_app finds when it is over.
EndedStaysEnded ==
  [][(op' # op /\ op' \in {"REGISTRATION", "DEREGISTRATION"} /\ ctx = Null /\ ~dropped)
       => GpioHold \/ (GpioStore /\ midway)]_vars

\* When an attempt is over, flash, casa_ctx and the last word the phone has
\* heard agree on whether the device is registered.
VerdictAgrees ==
  ~dropped /\ ctx = Null /\ app = "loop" =>
    /\ stored <=> done
    /\ told = "success" => done
    /\ told = "failed" => ~done

\* An attempt does not last for ever (registration.h:31), and the buttons come back:
\* unless there was no memory for it (registration.c:154), or an answer of the cloud was
\* still being stored when the attempt ended (casa_msg_parser.c:153).
RegistrationEnds ==
  (ctx # Null \/ ~switches) ~> ((ctx = Null /\ switches) \/ starved \/ Undefined)
=============================================================================

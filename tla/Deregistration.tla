--------------------------- MODULE Deregistration ---------------------------
(***************************************************************************)
(* The de-registration of a registered IoTCASA device, with every thread   *)
(* that shares casa_ctx while it runs:                                     *)
(*                                                                         *)
(*   casa_app   app.c                dispatches on current_operation and   *)
(*                                   drives casa_deregistration()          *)
(*   mqtt       mqtt_handler.c       reconnects, and runs the parser of    *)
(*                                   casa_msg_parser.c on inbound messages *)
(*   gpio       gpio_control.c       polls the push buttons                *)
(*   the 500 ms sleeptimer callback cloud_dereg_status_callback()          *)
(*                                                                         *)
(* No lock protects casa_ctx, so a thread may be interleaved wherever it   *)
(* publishes, writes flash, sleeps, or holds a pointer or a decision it    *)
(* has read from casa_ctx.  Each of those places is a value of the         *)
(* thread's program counter.                                               *)
(*                                                                         *)
(* The module covers one life as a registered device: it ends where        *)
(* current_operation becomes REGISTRATION.  On a registered device         *)
(* casa_ctx.registration is NULL and reg_dereg_flag is 0 (only             *)
(* registration_init() sets it), so neither is a variable here; event_by    *)
(* and the other texts of a message only end up in reports.                *)
(***************************************************************************)
EXTENDS Naturals

CONSTANTS
  Null,      \* the NULL pointer
  TimeOut,   \* CLOUD_DE_REG_RESP_TIMEOUT, in timer periods
  Codes,     \* the status codes the cloud may put in a response
  Messages,  \* the kinds of MQTT message that may arrive
  Presses    \* the button gestures the user may make

MessageKinds == {"dereg", "badDereg", "query", "secure", "control"}

ASSUME TimeOutAssumption == TimeOut \in Nat
ASSUME CodesAssumption == Codes \subseteq Nat \ {0}
ASSUME MessagesAssumption == Messages \subseteq MessageKinds
ASSUME PressesAssumption == Presses \subseteq {"click", "hold"}

\* The codes casa_deregistration() turns into a wipe of the device, and the
\* codes it turns into an exit.  Any other code has no case.
Accepting == {200, 401, 402, 500}
Refusing  == {403, 404}
\* CLOUD_ERROR says nothing of the request.
Agreeing == Accepting \ {500}

Operations == {"NONE", "CASA_IDLE", "REGISTRATION", "STATUS_UPDATE",
               "DEREGISTRATION"}

Contexts ==
  [current_op : {"DE_REG_DETAILS_SHARING", "WAIT_DEREG",
                 "DE_REGISTRATION_PROCESS", "DE_REGISTRATION_FINAL"},
   status     : Codes \cup {0},
   time_out   : 0 .. TimeOut]

ASSUME NullAssumption == Null \notin Contexts

VARIABLES
  op,         \* casa_ctx.current_operation
  dereg,      \* casa_ctx.de_registration: Null or the context it points to
  switches,   \* casa_ctx.switch_interrupts
  reg,        \* casa_ctx.reg_status = REGISTRATION_DONE
  secure,     \* casa_ctx.secure_device
  timer,      \* de_registration_periodic_timer is running
  connected,  \* mqtt_connection_check
  mqttTask,   \* the thread behind mqttConnectHandle exists
  app,        \* program counters of the three threads
  rx,
  gpio,
  asked,      \* history: the request of this de-registration was published
  granted,    \* history: the cloud has agreed to it, or it found the device offline
              \* and not in secure mode
  misled,     \* history: it took something else for the cloud's agreement
  dropped     \* history: a context has been dropped under its timer

grounds == <<asked, granted, misled>>
history == <<grounds, dropped>>
vars == <<op, dereg, switches, reg, secure, timer, connected,
          mqttTask, app, rx, gpio, history>>

ctx == <<op, dereg, switches, reg, secure>>
net == <<connected, mqttTask>>
threads == <<app, rx, gpio>>

AppPc  == {"loop", "switch", "sharing", "arm", "armRunning", "clear",
           "close", "handOver", "terminate", "delay", "status", "storeDereg",
           "storeIdle", "registering", "undefined"}
RxPc   == {"poll", "dereg", "badDereg", "response", "act", "control",
           "starting", "subscribing", "undefined"}
GpioPc == {"poll", "status", "storeDereg", "storeIdle", "pressed", "undefined"}

\* A context as malloc() and the two allocation sites leave it.
NewContext ==
  [current_op |-> "DE_REG_DETAILS_SHARING", status |-> 0, time_out |-> 0]

\* The history is that of the context, and goes with it.
NoGrounds == asked' = FALSE /\ granted' = FALSE /\ misled' = FALSE

\* Recorded by the steps that free or forget a context without a look at its
\* timer, which runs or is about to be started.
RecordDrop ==
  /\ dropped' = (dropped \/ timer \/ app = "sharing")
  /\ NoGrounds

Init ==
  /\ op = "CASA_IDLE"
  /\ dereg = Null
  /\ switches = TRUE
  /\ reg = TRUE
  /\ secure \in BOOLEAN
  /\ timer = FALSE
  /\ connected \in BOOLEAN
  /\ mqttTask = TRUE
  /\ app = "loop" /\ rx = "poll" /\ gpio = "poll"
  /\ asked = FALSE /\ granted = FALSE /\ misled = FALSE
  /\ dropped = FALSE

-----------------------------------------------------------------------------
(* Pieces shared by several handlers.                                      *)

\* exit_de_registration()
Exit ==
  /\ dereg' = Null
  /\ op' = "CASA_IDLE"
  /\ switches' = TRUE
  /\ NoGrounds
  /\ UNCHANGED <<reg, secure>>

\* memset(&casa_ctx, 0, sizeof(casa_ctx)) followed by current_operation := o
Zero(o) ==
  /\ op' = o
  /\ dereg' = Null
  /\ switches' = FALSE
  /\ reg' = FALSE
  /\ secure' = FALSE

\* A dereference of casa_ctx.de_registration when it is NULL: nothing is said
\* about the program from there on, every thread is in limbo.
NullDereference ==
  /\ dereg = Null
  /\ app' = "undefined" /\ rx' = "undefined" /\ gpio' = "undefined"
  /\ timer' = FALSE
  /\ UNCHANGED <<ctx, net, history>>

Undefined == app = "undefined"

SetCurrentOp(s) ==
  /\ dereg' = [dereg EXCEPT !.current_op = s]
  /\ UNCHANGED <<op, switches, reg, secure>>

\* save_device_status() leaves the buttons enabled; with no endpoint to save
\* it is not called at all.
SaveDeviceStatus == switches' \in {switches, TRUE}

-----------------------------------------------------------------------------
(* casa_app: casa_app_process_action() and casa_deregistration().          *)

\* Entry of casa_deregistration(): allocate the context unless there is one; without
\* memory for it the loop tries again.
AppEnter ==
  /\ app = "loop" /\ op = "DEREGISTRATION"
  /\ \/ dereg # Null /\ UNCHANGED <<dereg, switches>> /\ app' = "switch"
     \/ dereg = Null /\ dereg' = NewContext /\ switches' = FALSE /\ app' = "switch"
     \/ dereg = Null /\ UNCHANGED <<dereg, switches>> /\ app' = "loop"
  /\ UNCHANGED <<op, reg, secure, net, rx, gpio, timer, history>>

\* The pointer is read again for the switch: another thread or the timer may
\* have freed the context since.
AppNull ==
  /\ app = "switch"
  /\ NullDereference

\* Mutant of AppShareOffline: secure mode is not looked at.
AppShareOffline_IgnoresSecure ==
  /\ app = "switch" /\ dereg # Null
  /\ dereg.current_op = "DE_REG_DETAILS_SHARING"
  /\ ~connected
  /\ SetCurrentOp("DE_REGISTRATION_FINAL")
  /\ granted' = (granted \/ ~secure)
  /\ app' = "loop"
  /\ UNCHANGED <<net, rx, gpio, timer, asked, misled, dropped>>

\* DE_REG_DETAILS_SHARING with no connection.
AppShareOffline ==
  /\ app = "switch" /\ dereg # Null
  /\ dereg.current_op = "DE_REG_DETAILS_SHARING"
  /\ ~connected
  /\ \/ secure /\ Exit
     \/ /\ ~secure /\ SetCurrentOp("DE_REGISTRATION_FINAL")
        /\ granted' = TRUE /\ UNCHANGED <<asked, misled>>
  /\ app' = "loop"
  /\ UNCHANGED <<net, rx, gpio, timer, dropped>>

\* DE_REG_DETAILS_SHARING with a connection: the request is published (the
\* result of Mqtt_publish() is ignored) ...
AppShareOnline ==
  /\ app = "switch" /\ dereg # Null
  /\ dereg.current_op = "DE_REG_DETAILS_SHARING"
  /\ connected
  /\ asked' = TRUE
  /\ app' = "sharing"
  /\ UNCHANGED <<ctx, net, rx, gpio, timer, granted, misled, dropped>>

\* ... the periodic timer is started, or found running already ...
AppStartTimer ==
  /\ app = "sharing"
  /\ timer' = TRUE
  /\ app' = IF timer THEN "armRunning" ELSE "arm"
  /\ UNCHANGED <<ctx, net, rx, gpio, history>>

\* ... and the context is told to wait.
AppArm ==
  /\ app \in {"arm", "armRunning"} /\ dereg # Null
  /\ SetCurrentOp("WAIT_DEREG")
  /\ app' = "loop"
  /\ UNCHANGED <<net, rx, gpio, timer, history>>

AppArmNull ==
  /\ app \in {"arm", "armRunning"}
  /\ NullDereference

AppWaiting ==
  /\ app = "switch" /\ dereg # Null
  /\ dereg.current_op = "WAIT_DEREG"
  /\ app' = "loop"
  /\ UNCHANGED <<ctx, net, rx, gpio, timer, history>>

\* Mutant of AppProcess: the cases of a refusal are missing.
AppProcess_NoRefusal ==
  /\ app = "switch" /\ dereg # Null
  /\ dereg.current_op = "DE_REGISTRATION_PROCESS"
  /\ IF dereg.status \in Accepting THEN SetCurrentOp("DE_REGISTRATION_FINAL")
                                   ELSE UNCHANGED ctx
  /\ app' = "loop"
  /\ UNCHANGED <<net, rx, gpio, timer, history>>

\* DE_REGISTRATION_PROCESS: the inner switch has no default case.
AppProcess ==
  /\ app = "switch" /\ dereg # Null
  /\ dereg.current_op = "DE_REGISTRATION_PROCESS"
  /\ \/ /\ dereg.status \in Accepting
        /\ SetCurrentOp("DE_REGISTRATION_FINAL") /\ UNCHANGED grounds
     \/ dereg.status \in Refusing /\ Exit
     \/ dereg.status \notin Accepting \cup Refusing /\ UNCHANGED <<ctx, grounds>>
  /\ app' = "loop"
  /\ UNCHANGED <<net, rx, gpio, timer, dropped>>

\* DE_REGISTRATION_FINAL: the context goes, the device forgets it is
\* registered, and starts erasing its preferences in flash.
AppFinal ==
  /\ app = "switch" /\ dereg # Null
  /\ dereg.current_op = "DE_REGISTRATION_FINAL"
  /\ dereg' = Null
  /\ reg' = FALSE
  /\ NoGrounds
  /\ app' = "clear"
  /\ UNCHANGED <<op, switches, secure, net, rx, gpio, timer, dropped>>

\* The preferences are erased; casa_ctx is zeroed.
AppClear ==
  /\ app = "clear"
  /\ Zero("NONE")
  /\ NoGrounds
  /\ app' = "close"
  /\ UNCHANGED <<net, rx, gpio, timer, dropped>>

\* mqtt_app_close(), which waits for the broker and goes on whatever it says, then wifi_close().
AppClose ==
  /\ app = "close"
  /\ connected' = FALSE
  /\ app' = "handOver"
  /\ UNCHANGED <<ctx, mqttTask, rx, gpio, timer, history>>

AppHandOver ==
  /\ app = "handOver"
  /\ connected' = FALSE
  /\ op' = "REGISTRATION"
  /\ app' = "terminate"
  /\ UNCHANGED <<dereg, switches, reg, secure, mqttTask, rx,
                 gpio, timer, history>>

\* osThreadTerminate() of the mqtt thread, wherever it is.
AppTerminate ==
  /\ app = "terminate"
  /\ mqttTask' = FALSE
  /\ rx' = "poll"
  /\ app' = "delay"
  /\ UNCHANGED <<ctx, connected, gpio, timer, history>>

\* After the 500 ms delay the buttons work again, and the loop goes on with
\* casa_registration().
AppEnableSwitches ==
  /\ app = "delay"
  /\ switches' = TRUE
  /\ app' = "registering"
  /\ UNCHANGED <<op, dereg, reg, secure, net, rx, gpio, timer,
                 history>>

\* STATUS_UPDATE: casa_device_status_update() publishes, saves the endpoints
\* and then chooses the next operation from the pointers it sees.
AppStatus ==
  /\ app = "loop" /\ op = "STATUS_UPDATE"
  /\ app' = "status"
  /\ UNCHANGED <<ctx, net, rx, gpio, timer, history>>

AppSave ==
  /\ app = "status"
  /\ SaveDeviceStatus
  /\ app' = IF dereg # Null THEN "storeDereg" ELSE "storeIdle"
  /\ UNCHANGED <<op, dereg, reg, secure, net, rx, gpio, timer,
                 history>>

AppStore ==
  /\ app \in {"storeDereg", "storeIdle"}
  /\ op' = IF app = "storeDereg" THEN "DEREGISTRATION" ELSE "CASA_IDLE"
  /\ app' = "loop"
  /\ UNCHANGED <<dereg, switches, reg, secure, net, rx, gpio, timer,
                 history>>

-----------------------------------------------------------------------------
(* mqtt: mqtt_reconnection_check() and casa_message_parser().              *)

RxTakes(kind) ==
  /\ mqttTask /\ rx = "poll" /\ connected
  /\ kind \in Messages

\* DE_REGISTRATION_MSG (105): the context is allocated before the message is
\* known to be well formed; without memory for it the message is treated as a
\* malformed one.
RxDereg(kind) ==
  /\ RxTakes(kind)
  /\ \/ dereg # Null /\ UNCHANGED <<dereg, switches>> /\ rx' = kind
     \/ dereg = Null /\ dereg' = NewContext /\ switches' = FALSE /\ rx' = kind
     \/ dereg = Null /\ UNCHANGED <<dereg, switches>> /\ rx' = "badDereg"
  /\ UNCHANGED <<op, reg, secure, net, app, gpio, timer, history>>

\* All fields are there; the token is stored in the context.
RxDeregParsed ==
  /\ rx = "dereg" /\ dereg # Null
  /\ op' = "DEREGISTRATION"
  /\ rx' = "poll"
  /\ UNCHANGED <<dereg, switches, reg, secure, net, app, gpio, timer, history>>

RxDeregNull ==
  /\ rx = "dereg"
  /\ NullDereference

\* A field is missing: the context is freed, whoever uses it.
RxDeregFailed ==
  /\ rx = "badDereg"
  /\ dereg' = Null
  /\ rx' = "poll"
  /\ UNCHANGED <<op, switches, reg, secure, net, app, gpio, timer>>
  /\ RecordDrop

\* CLOUD_DEREG_MQTT_RESP (109): the context is looked for first ...
RxResponse ==
  /\ mqttTask /\ rx = "poll" /\ connected
  /\ dereg # Null
  /\ rx' = "response"
  /\ UNCHANGED <<ctx, net, app, gpio, timer, history>>

\* ... and written to after the message has been read.  Nothing ties the response to
\* a request: it may be for an earlier one.
RxResponseStored(code, own) ==
  /\ rx = "response" /\ dereg # Null
  /\ own => asked
  /\ dereg' = [dereg EXCEPT !.status = code]
  /\ granted' = (granted \/ (own /\ code \in Agreeing))
  /\ misled' = (misled \/ (code \in Accepting /\ ~(own /\ code \in Agreeing)))
  /\ rx' = "poll"
  /\ UNCHANGED <<op, switches, reg, secure, net, app, gpio, timer, asked,
                 dropped>>

RxResponseNull ==
  /\ rx = "response"
  /\ NullDereference

\* GET_ONLINE_OFFLINE_STATUS, SWITCH_OPERATION_CHANGE, GET_DEVICE_STATUS and
\* ONLINE_RESP: flash and publish first, then current_operation.
RxQuery ==
  /\ RxTakes("query")
  /\ rx' = "act"
  /\ UNCHANGED <<ctx, net, app, gpio, timer, history>>

\* SECURE_DEVICE (115)
RxSecure ==
  /\ RxTakes("secure")
  /\ secure' \in BOOLEAN
  /\ rx' = "act"
  /\ UNCHANGED <<op, dereg, switches, reg, net, app, gpio, timer, history>>

RxActed ==
  /\ rx = "act"
  /\ op' = "CASA_IDLE"
  /\ rx' = "poll"
  /\ UNCHANGED <<dereg, switches, reg, secure, net, app, gpio, timer,
                 history>>

\* CONTROL_MSG (106): control_endpoint() sleeps 50 ms before the hand over.
RxControl ==
  /\ RxTakes("control")
  /\ rx' = "control"
  /\ UNCHANGED <<op, dereg, switches, reg, secure, net, app, gpio, timer,
                 history>>

RxControlled ==
  /\ rx = "control"
  /\ op' = "STATUS_UPDATE"
  /\ rx' = "poll"
  /\ UNCHANGED <<dereg, switches, reg, secure, net, app, gpio, timer,
                 history>>

\* Reconnection: mqtt_app_start() disables the buttons while it subscribes
\* and enables them afterwards, whatever is going on.
RxReconnect ==
  /\ mqttTask /\ rx = "poll" /\ ~connected
  /\ rx' = "starting"
  /\ UNCHANGED <<ctx, net, app, gpio, timer, history>>

RxSubscribe ==
  /\ rx = "starting" /\ connected
  /\ switches' = FALSE
  /\ rx' = "subscribing"
  /\ UNCHANGED <<op, dereg, reg, secure, net, app, gpio, timer,
                 history>>

RxSubscribed ==
  /\ rx = "subscribing"
  /\ switches' = TRUE
  /\ rx' = "poll"
  /\ UNCHANGED <<op, dereg, reg, secure, net, app, gpio, timer,
                 history>>

\* mqtt_secure_config() has failed, or MQTT_CONN_RETRY_LIMIT is reached: the client is
\* left to itself then, and may still connect.
RxGiveUp ==
  /\ rx = "starting" /\ ~connected
  /\ rx' = "poll"
  /\ UNCHANGED <<ctx, net, app, gpio, timer, history>>

\* mqtt_event_handler(): CONNECTED during mqtt_app_start(), or after it has given up
\* and left the client connecting, as it may have whenever the thread has nothing to
\* do; DISCONNECTED or ERROR at any time.
NetConnected ==
  /\ rx \in {"starting", "poll"} /\ ~connected
  /\ connected' = TRUE
  /\ UNCHANGED <<ctx, mqttTask, threads, timer, history>>

NetLost ==
  /\ connected
  /\ connected' = FALSE
  /\ UNCHANGED <<ctx, mqttTask, threads, timer, history>>

-----------------------------------------------------------------------------
(* The sleeptimer interrupt: cloud_dereg_status_callback().  A timer just  *)
(* started fires after 500 ms, long after casa_app has gone on.            *)

Fires == timer /\ app # "arm"

TickNull ==
  /\ Fires
  /\ NullDereference

TickResponse ==
  /\ Fires /\ dereg # Null /\ dereg.status # 0
  /\ SetCurrentOp("DE_REGISTRATION_PROCESS")
  /\ timer' = FALSE
  /\ UNCHANGED <<net, threads, history>>

\* Mutant of TickTimeOut: the timer goes on without a context.
TickTimeOut_KeepsTimer ==
  /\ Fires /\ dereg # Null /\ dereg.status = 0
  /\ dereg.time_out = TimeOut
  /\ Exit
  /\ UNCHANGED <<net, threads, timer, dropped>>

TickTimeOut ==
  /\ Fires /\ dereg # Null /\ dereg.status = 0
  /\ dereg.time_out = TimeOut
  /\ Exit
  /\ timer' = FALSE
  /\ UNCHANGED <<net, threads, dropped>>

TickCount ==
  /\ Fires /\ dereg # Null /\ dereg.status = 0
  /\ dereg.time_out # TimeOut
  /\ dereg' = [dereg EXCEPT !.time_out = @ + 1]
  /\ UNCHANGED <<op, switches, reg, secure, net, threads, timer,
                 history>>

Tick == TickNull \/ TickResponse \/ TickTimeOut \/ TickCount

-----------------------------------------------------------------------------
(* gpio: switches_handling_task(), push_button() and what they call.       *)

\* A click toggles the load and calls casa_device_status_update().
GpioClick ==
  /\ gpio = "poll" /\ switches
  /\ "click" \in Presses
  /\ gpio' = "status"
  /\ UNCHANGED <<ctx, net, app, rx, timer, history>>

GpioSave ==
  /\ gpio = "status"
  /\ SaveDeviceStatus
  /\ gpio' = IF dereg # Null THEN "storeDereg" ELSE "storeIdle"
  /\ UNCHANGED <<op, dereg, reg, secure, net, app, rx, timer,
                 history>>

\* The tenth click goes on to reg_dereg_button() without a second look at
\* switch_interrupts.
GpioStore ==
  /\ gpio \in {"storeDereg", "storeIdle"}
  /\ op' = IF gpio = "storeDereg" THEN "DEREGISTRATION" ELSE "CASA_IDLE"
  /\ gpio' \in {"poll"} \cup (IF "hold" \in Presses THEN {"pressed"} ELSE {})
  /\ UNCHANGED <<dereg, switches, reg, secure, net, app, rx, timer,
                 history>>

\* reg_dereg_button(): the pointer of a running de-registration is dropped.
GpioHold ==
  /\ "hold" \in Presses
  /\ gpio = "pressed" \/ (gpio = "poll" /\ switches)
  /\ IF reg
       THEN /\ dereg' = Null
            /\ op' = "DEREGISTRATION"
            /\ UNCHANGED <<switches, reg, secure>>
       ELSE Zero("REGISTRATION")
  /\ gpio' = "poll"
  /\ UNCHANGED <<net, app, rx, timer>>
  /\ RecordDrop

-----------------------------------------------------------------------------

App ==
  \/ AppEnter \/ AppNull \/ AppShareOffline \/ AppShareOnline \/ AppStartTimer
  \/ AppArm \/ AppArmNull \/ AppWaiting \/ AppProcess \/ AppFinal \/ AppClear
  \/ AppClose \/ AppHandOver \/ AppTerminate \/ AppEnableSwitches
  \/ AppStatus \/ AppSave \/ AppStore

\* What the mqtt thread does with a message it has taken, or to reconnect.
RxFinish ==
  \/ RxDeregParsed \/ RxDeregNull \/ RxDeregFailed \/ RxActed \/ RxControlled
  \/ \E code \in Codes, own \in BOOLEAN : RxResponseStored(code, own)
  \/ RxResponseNull \/ RxSubscribe \/ RxSubscribed \/ RxGiveUp

RxTake ==
  \/ \E kind \in {"dereg", "badDereg"} : RxDereg(kind)
  \/ RxResponse \/ RxQuery \/ RxSecure \/ RxControl \/ RxReconnect

GpioFinish == GpioSave \/ GpioStore

Next ==
  \/ App \/ RxTake \/ RxFinish \/ NetConnected \/ NetLost \/ Tick
  \/ GpioClick \/ GpioFinish \/ GpioHold

Spec == Init /\ [][Next]_vars

(***************************************************************************)
(* Fairness.  casa_app and mqtt run at osPriorityRealtime and block only   *)
(* in calls that return; gpio runs whenever they sleep; a periodic         *)
(* sleeptimer fires until it is stopped.  Nothing is assumed of the user,  *)
(* the cloud or the network.                                               *)
(***************************************************************************)
Fairness ==
  /\ WF_vars(App)
  /\ WF_vars(RxFinish)
  /\ WF_vars(GpioFinish)
  /\ WF_vars(Tick)

FairSpec == Spec /\ Fairness

-----------------------------------------------------------------------------

\* Every variable has its type.
TypeOK ==
  /\ op \in Operations
  /\ dereg \in Contexts \cup {Null}
  /\ switches \in BOOLEAN
  /\ reg \in BOOLEAN
  /\ secure \in BOOLEAN
  /\ timer \in BOOLEAN
  /\ connected \in BOOLEAN
  /\ mqttTask \in BOOLEAN
  /\ app \in AppPc
  /\ rx \in RxPc
  /\ gpio \in GpioPc
  /\ asked \in BOOLEAN /\ granted \in BOOLEAN /\ misled \in BOOLEAN
  /\ dropped \in BOOLEAN

\* A de-registration that wipes the device has grounds of its own: the cloud has
\* agreed to the request this very context has published (200, 401 or 402,
\* de_registration.c:139), or it found the device offline and not in secure mode
\* (casa_module.h:47).  What an earlier de-registration was told, an earlier loss of
\* the connection, a second request and a press of the button are none.  Two things
\* the code takes for the agreement without a look are exempted: a response that is
\* not for this request, and CLOUD_ERROR (de_registration.c:140), which wipes even a
\* device in secure mode.
WipeNeedsGrounds == [][reg /\ ~reg' => granted \/ misled]_vars

\* While the response timer runs there is a context for its callback, and a
\* context that waits has a timer to end the wait: cloud_dereg_status_callback()
\* uses the pointer unchecked, and casa_deregistration() does nothing in
\* WAIT_DEREG.  Only a malformed request and a long press break this, when they
\* drop the context of a timer that runs or is about to.
TimerMatchesContext ==
  ~dropped =>
    /\ timer => dereg # Null
    /\ (dereg # Null /\ dereg.current_op = "WAIT_DEREG") => timer

\* A de-registration does not last for ever: while the device is registered,
\* a context ends in a wipe, a refusal or the time-out (de_registration.h:32), and
\* a device that stays registered gets its buttons back.
DeregSettles ==
  (reg /\ (dereg # Null \/ ~switches)) ~> ((dereg = Null /\ switches) \/ ~reg)
=============================================================================

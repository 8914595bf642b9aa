------------------------ MODULE Registration_proofs ------------------------
(***************************************************************************)
(* Proofs about Registration for all times, requests, codes, messages and  *)
(* gestures:                                                               *)
(*                                                                         *)
(*   TypeCorrect      Spec => []TypeOK                                     *)
(*   TimerIsMatched   Spec => []TimerMatchesContext                        *)
(*   ClickIsHarmless  Spec => EndedStaysEnded                              *)
(*   OutcomeAgrees    Spec => []VerdictAgrees                              *)
(***************************************************************************)
EXTENDS Registration, TLAPS

USE DEF history

-----------------------------------------------------------------------------
(* Contexts.                                                               *)

\* The states a step moves a context to.
States == {"REG_REQ_PARSE", "REG_WIFI_MQTT_INIT",
           "REG_DEVICE_DETAILS_SHARING", "REGISTRATION_PROCESS",
           "REGISTRATION_FINAL", "WAIT"}

\* A new context, and a context with other values in its fields, is a context.
LEMMA ContextClosed ==
  /\ NewContext \in Contexts
  /\ \A c \in Contexts, s \in States :
       /\ [c EXCEPT !.current_op = s] \in Contexts
       /\ [c EXCEPT !.time_out = 0, !.current_op = s] \in Contexts
       /\ [NewContext EXCEPT !.cloud = c.cloud, !.current_op = s] \in Contexts
       /\ c.time_out < MaxTicks =>
            [c EXCEPT !.current_op = s, !.time_out = @ + 1] \in Contexts
  /\ \A c \in Contexts :
       /\ [NewContext EXCEPT !.cloud = c.cloud, !.time_out = c.time_out]
            \in Contexts
       /\ c.time_out < MaxTicks =>
            [c EXCEPT !.time_out = @ + 1] \in Contexts
       /\ \A code \in Codes : [c EXCEPT !.cloud = code] \in Contexts
       /\ [c EXCEPT !.request = "garbled"] \in Contexts
       /\ \A r \in Requests :
            [c EXCEPT !.request = r, !.buffer = TRUE] \in Contexts
<1>1. MaxTicks \in Nat
  BY TimesAssumption DEF MaxTicks
<1>0. 0 \in 0 .. MaxTicks
  BY <1>1
<1>2. NewContext \in Contexts
  BY <1>0 DEF NewContext, Contexts
<1>3. ASSUME NEW c \in Contexts, NEW s \in States
      PROVE  /\ [c EXCEPT !.current_op = s] \in Contexts
             /\ [c EXCEPT !.time_out = 0, !.current_op = s] \in Contexts
  <2>1. s \in {"REGISTRATION_INIT", "REG_REQ_PARSE", "REG_WIFI_MQTT_INIT",
              "REG_DEVICE_DETAILS_SHARING", "REGISTRATION_PROCESS",
              "REGISTRATION_FINAL", "WAIT"}
    BY DEF States
  <2>2. [c EXCEPT !.current_op = s] \in Contexts
    BY <2>1 DEF Contexts
  <2>3. [c EXCEPT !.time_out = 0, !.current_op = s] \in Contexts
    BY <1>0, <2>1 DEF Contexts
  <2> QED
    BY <2>2, <2>3
<1>4. ASSUME NEW c \in Contexts, NEW s \in States
      PROVE  [NewContext EXCEPT !.cloud = c.cloud, !.current_op = s] \in Contexts
  <2>1. s \in {"REGISTRATION_INIT", "REG_REQ_PARSE", "REG_WIFI_MQTT_INIT",
              "REG_DEVICE_DETAILS_SHARING", "REGISTRATION_PROCESS",
              "REGISTRATION_FINAL", "WAIT"}
    BY DEF States
  <2>2. c.cloud \in Codes \cup {0}
    BY DEF Contexts
  <2> QED
    BY <1>2, <2>1, <2>2 DEF NewContext, Contexts
<1>5. ASSUME NEW c \in Contexts, c.time_out < MaxTicks
      PROVE  /\ c.time_out + 1 \in 0 .. MaxTicks
             /\ [c EXCEPT !.time_out = @ + 1] \in Contexts
             /\ \A s \in States :
                  [c EXCEPT !.current_op = s, !.time_out = @ + 1] \in Contexts
  <2>1. c.time_out + 1 \in 0 .. MaxTicks
    BY <1>1, <1>5 DEF Contexts
  <2> QED
    BY <2>1 DEF Contexts, States
<1>6. ASSUME NEW c \in Contexts
      PROVE  /\ [NewContext EXCEPT !.cloud = c.cloud, !.time_out = c.time_out]
                   \in Contexts
             /\ \A code \in Codes : [c EXCEPT !.cloud = code] \in Contexts
             /\ [c EXCEPT !.request = "garbled"] \in Contexts
  BY <1>6 DEF NewContext, Contexts
<1>7. ASSUME NEW c \in Contexts, NEW r \in Requests
      PROVE  [c EXCEPT !.request = r, !.buffer = TRUE] \in Contexts
  BY <1>7, RequestsAssumption DEF Contexts
<1> QED
  BY <1>2, <1>3, <1>4, <1>5, <1>6, <1>7

-----------------------------------------------------------------------------
(* Type correctness.                                                       *)

\* The steps of casa_app keep every variable in its type.
LEMMA AppType == TypeOK /\ App => TypeOK'
<1> SUFFICES ASSUME TypeOK, App PROVE TypeOK'
  OBVIOUS
<1> USE DEF TypeOK
<1>1. CASE AppNull
  BY <1>1 DEF AppNull, NullDereference, AppPc, RxPc, GpioPc, casa, net, phone
<1>2. CASE AppEnter
  <2>1. ctx' \in Contexts \cup {Null}
    BY <1>2, ContextClosed DEF States, AppEnter
  <2>2. starved' \in BOOLEAN /\ app' \in AppPc
    BY <1>2 DEF AppEnter, AppPc
  <2>3. UNCHANGED <<op, switches, flag, done, complete, timers, connected,
                    wifi, mqttTask, ble, stored, told, owed, rx, gpio,
                    dropped, midway>>
    BY <1>2 DEF AppEnter, net, phone
  <2> QED
    BY <2>1, <2>2, <2>3
<1>29. CASE AppNoMemory
  BY <1>29 DEF AppNoMemory, Operations, net, phone
<1>3. CASE AppInit
  <2>1. ctx' \in Contexts \cup {Null}
    BY <1>3, ContextClosed DEF States, AppInit
  <2>2. timers' \subseteq {"provision", "cloud"} /\ app' \in AppPc
    BY <1>3 DEF AppInit, AppPc
  <2>3. switches' \in BOOLEAN /\ flag' \in BOOLEAN
    BY <1>3 DEF AppInit
  <2>4. UNCHANGED <<op, done, complete, connected, wifi, mqttTask, ble,
                    stored, told, owed, rx, gpio, dropped, starved, midway>>
    BY <1>3 DEF AppInit, net, phone
  <2> QED
    BY <2>1, <2>2, <2>3, <2>4
<1>4. CASE AppWaitForPhone
  <2>1. ctx' \in Contexts \cup {Null}
    BY <1>4, ContextClosed DEF States, AppWaitForPhone
  <2>2. ble' \in BOOLEAN
    BY <1>4 DEF AppWaitForPhone
  <2> QED
    BY <2>1, <2>2, <1>4 DEF AppWaitForPhone, AppPc, net
<1>5. CASE AppAcknowledge
  BY <1>5 DEF AppAcknowledge, AppPc, casa, net
<1>6. CASE AppParse
  <2>1. ctx' \in Contexts \cup {Null}
    BY <1>6, ContextClosed DEF States, AppParse, SetCurrentOp
  <2>2. complete' \in BOOLEAN
    BY <1>6 DEF AppParse
  <2> QED
    BY <2>1, <2>2, <1>6 DEF AppParse, AppPc, net, phone
<1>7. CASE AppWifi
  BY <1>7 DEF AppWifi, AppPc, casa, net, phone
<1>8. CASE AppWifiFailed
  BY <1>8 DEF AppWifiFailed, AppPc, casa, net
<1>9. CASE AppNoWifi
  <2>1. ctx' \in Contexts \cup {Null}
    BY <1>9, ContextClosed DEF States, AppNoWifi, SetCurrentOp
  <2> QED
    BY <2>1, <1>9 DEF AppNoWifi, AppPc, net, phone
<1>10. CASE AppStart
  <2>1. ctx' \in Contexts \cup {Null}
    BY <1>10, ContextClosed DEF States, AppStart, SetCurrentOp
  <2>2. wifi' \in BOOLEAN /\ connected' \in BOOLEAN /\ app' \in AppPc
    BY <1>10 DEF AppStart, AppPc
  <2>3. UNCHANGED <<op, switches, flag, done, complete, timers, mqttTask,
                    ble, stored, told, owed, rx, gpio, dropped, starved, midway>>
    BY <1>10 DEF AppStart, phone
  <2> QED
    BY <2>1, <2>2, <2>3
<1>11. CASE AppSubscribe
  <2>1. switches' \in BOOLEAN /\ app' \in AppPc
    BY <1>11 DEF AppSubscribe, AppPc
  <2>2. UNCHANGED <<op, ctx, flag, done, complete, timers, connected, wifi,
                    mqttTask, ble, stored, told, owed, rx, gpio, dropped,
                    starved, midway>>
    BY <1>11 DEF AppSubscribe, net, phone
  <2> QED
    BY <2>1, <2>2
<1>12. CASE AppStartFailed
  <2>1. ctx' \in Contexts \cup {Null}
    BY <1>12, ContextClosed DEF States, AppStartFailed, SetCurrentOp
  <2> QED
    BY <2>1, <1>12 DEF AppStartFailed, AppPc, net, phone
<1>13. CASE AppStarted
  <2>1. ctx' \in Contexts \cup {Null}
    BY <1>13, ContextClosed DEF States, AppStarted, SetCurrentOp
  <2> QED
    BY <2>1, <1>13 DEF AppStarted, AppPc, RxPc, phone
<1>14. CASE AppStartLost
  <2>1. ctx' \in Contexts \cup {Null}
    BY <1>14, ContextClosed DEF States, AppStartLost, SetCurrentOp
  <2> QED
    BY <2>1, <1>14 DEF AppStartLost, AppPc, net, phone
<1>15. CASE AppShare
  BY <1>15 DEF AppShare, AppPc, casa, phone
<1>16. CASE AppShareOffline
  <2>1. ctx' \in Contexts \cup {Null}
    BY <1>16, ContextClosed DEF States, AppShareOffline, SetCurrentOp, Runs
  <2> QED
    BY <2>1, <1>16 DEF AppShareOffline, net, phone
<1>17. CASE AppAwaitAnswer
  <2>1. ctx' \in Contexts \cup {Null}
    BY <1>17, ContextClosed DEF States, AppAwaitAnswer
  <2> QED
    BY <2>1, <1>17 DEF AppAwaitAnswer, AppPc, net, phone
<1>18. CASE AppAccepted
  BY <1>18 DEF AppAccepted, AppPc, net
<1>19. CASE AppRefused
  <2>1. ctx' \in Contexts \cup {Null}
    BY <1>19, ContextClosed DEF States, AppRefused, SetCurrentOp, Runs
  <2> QED
    BY <2>1, <1>19 DEF AppRefused, net, phone
<1>20. CASE AppStoreRegistration
  <2>1. ctx' \in Contexts \cup {Null}
    BY <1>20, ContextClosed DEF States, AppStoreRegistration, SetCurrentOp
  <2> QED
    BY <2>1, <1>20 DEF AppStoreRegistration, AppPc, net, phone
<1>21. CASE AppFail
  BY <1>21 DEF AppFail, AppPc, casa, net
<1>22. CASE AppCloseSession
  <2>1. connected' \in BOOLEAN /\ app' \in AppPc
    BY <1>22 DEF AppCloseSession, AppPc
  <2> QED
    BY <2>1, <1>22 DEF AppCloseSession, casa, phone
<1>23. CASE AppCloseWifi
  <2>1. wifi' \in BOOLEAN /\ connected' \in BOOLEAN /\ app' \in AppPc
    BY <1>23 DEF AppCloseWifi, AppPc
  <2>2. UNCHANGED <<op, ctx, switches, flag, done, complete, timers,
                    mqttTask, ble, stored, told, owed, rx, gpio, dropped, starved, midway>>
    BY <1>23 DEF AppCloseWifi, casa, phone
  <2> QED
    BY <2>1, <2>2
<1>24. CASE AppSucceed
  BY <1>24 DEF AppSucceed, AppPc, casa, net, phone
<1>25. CASE AppEnd
  <2>1. /\ ble' \in BOOLEAN /\ switches' \in BOOLEAN /\ flag' \in BOOLEAN
        /\ op' \in Operations /\ app' \in AppPc
    BY <1>25 DEF AppEnd, Operations, AppPc
  <2>2. ctx' \in Contexts \cup {Null}
    BY <1>25 DEF AppEnd
  <2>3. UNCHANGED <<done, complete, timers, connected, wifi, mqttTask,
                    stored, told, owed, rx, gpio, dropped, starved, midway>>
    BY <1>25 DEF AppEnd, net
  <2> QED
    BY <2>1, <2>2, <2>3
<1>26. CASE AppStatus
  BY <1>26 DEF AppStatus, AppPc, casa, net, phone
<1>27. CASE AppSave
  <2>1. switches' \in BOOLEAN
    BY <1>27 DEF AppSave, SaveDeviceStatus
  <2> QED
    BY <2>1, <1>27 DEF AppSave, AppPc, net, phone
<1>28. CASE AppStore
  BY <1>28 DEF AppStore, NextOperation, Operations, AppPc, net, phone
<1> QED
  BY <1>1, <1>2, <1>3, <1>4, <1>5, <1>6, <1>7, <1>8, <1>9, <1>10, <1>11, <1>12, <1>13, <1>14, <1>15, <1>16, <1>17, <1>18, <1>19, <1>20, <1>21, <1>22, <1>23, <1>24, <1>25, <1>26, <1>27, <1>28, <1>29
  DEF App

\* So do the steps of the BLE thread.
LEMMA BleType == TypeOK /\ Ble => TypeOK'
<1> SUFFICES ASSUME TypeOK, Ble PROVE TypeOK'
  OBVIOUS
<1> USE DEF TypeOK
<1>1. CASE BlePart
  <2>1. ctx' \in Contexts \cup {Null}
    BY <1>1, ContextClosed DEF States, BlePart, BleWrites
  <2> QED
    BY <1>1, <2>1 DEF BlePart, net, phone
<1>2. ASSUME NEW request \in Requests, BleRequest(request) PROVE TypeOK'
  <2>1. ctx' \in Contexts \cup {Null}
    BY <1>2, ContextClosed DEF States, BleRequest, BleWrites
  <2> QED
    BY <1>2, <2>1 DEF BleRequest, net, phone
<1> QED
  BY <1>1, <1>2 DEF Ble

\* So do the steps of the mqtt thread and of the network.
LEMMA RxType ==
  TypeOK /\ (RxTake \/ RxFinish \/ NetConnected \/ NetLost) => TypeOK'
<1> SUFFICES ASSUME TypeOK, RxTake \/ RxFinish \/ NetConnected \/ NetLost
             PROVE  TypeOK'
  OBVIOUS
<1> USE DEF TypeOK
<1>1. CASE RxResponse
  <2>1. rx' \in RxPc
    BY <1>1 DEF RxResponse, RxPc
  <2>2. owed' \in BOOLEAN
    <3>1. owed' = FALSE \/ owed' = ("duplicate" \in Messages)
      BY <1>1 DEF RxResponse
    <3>2. ("duplicate" \in Messages) \in BOOLEAN
      OBVIOUS
    <3> QED
      BY <3>1, <3>2, Zenon
  <2> QED
    BY <1>1, <2>1, <2>2 DEF RxResponse, casa, phone
<1>12. ASSUME NEW code \in Codes, RxResponseStored(code) PROVE TypeOK'
  <2>1. ctx' \in Contexts \cup {Null}
    BY <1>12, ContextClosed DEF RxResponseStored
  <2> QED
    BY <1>12, <2>1 DEF RxResponseStored, RxPc, net, phone
<1>13. CASE RxResponseNull
  BY <1>13 DEF RxResponseNull, NullDereference, AppPc, RxPc, GpioPc, casa, net, phone
<1>2. CASE RxQuery
  BY <1>2 DEF RxQuery, RxPc, casa, net, phone
<1>3. CASE RxControl
  BY <1>3 DEF RxControl, RxPc, casa, net, phone
<1>4. CASE RxReconnect
  BY <1>4 DEF RxReconnect, RxPc, casa, net, phone
<1>5. CASE RxActed
  BY <1>5 DEF RxActed, Operations, RxPc, net, phone
<1>6. CASE RxControlled
  BY <1>6 DEF RxControlled, Operations, RxPc, net, phone
<1>7. CASE RxSubscribe
  <2>1. switches' \in BOOLEAN /\ rx' \in RxPc
    BY <1>7 DEF RxSubscribe, RxPc
  <2>2. UNCHANGED <<op, ctx, flag, done, complete, timers, connected, wifi,
                    mqttTask, ble, stored, told, owed, app, gpio, dropped, starved, midway>>
    BY <1>7 DEF RxSubscribe, net, phone
  <2> QED
    BY <2>1, <2>2
<1>8. CASE RxSubscribed
  BY <1>8 DEF RxSubscribed, RxPc, net, phone
<1>9. CASE RxGiveUp
  BY <1>9 DEF RxGiveUp, RxPc, casa, net, phone
<1>10. CASE NetConnected
  BY <1>10 DEF NetConnected, casa, phone
<1>11. CASE NetLost
  <2>1. connected' \in BOOLEAN
    BY <1>11 DEF NetLost
  <2> QED
    BY <2>1, <1>11 DEF NetLost, casa, phone
<1> QED
  BY <1>1, <1>2, <1>3, <1>4, <1>5, <1>6, <1>7, <1>8, <1>9, <1>10, <1>11, <1>12, <1>13
  DEF RxTake, RxFinish

\* So do the timer callbacks.
LEMMA TickType == TypeOK /\ Tick => TypeOK'
<1> SUFFICES ASSUME TypeOK, Tick PROVE TypeOK'
  OBVIOUS
<1> USE DEF TypeOK
<1>1. CASE TickNull
  BY <1>1 DEF TickNull, NullDereference, AppPc, RxPc, GpioPc, casa, net, phone
<1>2. CASE TickProvision
  <2>1. ctx' \in Contexts \cup {Null}
    BY <1>2, ContextClosed DEF States, TickProvision, Fires, Expire, Count
  <2>2. timers' \subseteq {"provision", "cloud"}
    BY <1>2 DEF TickProvision, Expire, Count
  <2>3. switches' \in BOOLEAN /\ flag' \in BOOLEAN
    BY <1>2 DEF TickProvision, EnableSwitches
  <2> QED
    BY <1>2, <2>1, <2>2, <2>3 DEF TickProvision, net, phone
<1>3. CASE TickCloud
  <2>1. ctx' \in Contexts \cup {Null}
    BY <1>3, ContextClosed DEF States, TickCloud, Fires, Expire, Count
  <2>2. timers' \subseteq {"provision", "cloud"}
    BY <1>3 DEF TickCloud, Expire, Count
  <2> QED
    BY <1>3, <2>1, <2>2 DEF TickCloud, net, phone
<1> QED
  BY <1>1, <1>2, <1>3 DEF Tick

\* So do the steps of the gpio thread.
LEMMA GpioType == TypeOK /\ (GpioClick \/ GpioFinish \/ GpioHold) => TypeOK'
<1> SUFFICES ASSUME TypeOK, GpioClick \/ GpioFinish \/ GpioHold
             PROVE  TypeOK'
  OBVIOUS
<1> USE DEF TypeOK
<1>1. CASE GpioStart
  BY <1>1 DEF GpioStart, GpioPc, net, phone
<1>2. CASE GpioClick
  BY <1>2 DEF GpioClick, GpioPc, casa, net, phone
<1>3. CASE GpioSave
  <2>1. switches' \in BOOLEAN
    BY <1>3 DEF GpioSave, SaveDeviceStatus
  <2>2. gpio' \in GpioPc
    BY <1>3 DEF GpioSave, NextOperation, GpioPc
  <2>3. midway' \in BOOLEAN
    BY <1>3 DEF GpioSave
  <2> QED
    BY <2>1, <2>2, <2>3, <1>3 DEF GpioSave, net, phone
<1>4. CASE GpioStore
  <2>1. op' \in Operations /\ midway' \in BOOLEAN
    BY <1>4 DEF GpioStore
  <2>2. gpio' \in GpioPc
    BY <1>4 DEF GpioStore, GpioPc
  <2>3. UNCHANGED <<ctx, switches, flag, done, complete, timers, connected,
                    wifi, mqttTask, ble, stored, told, owed, app, rx,
                    dropped, starved>>
    BY <1>4 DEF GpioStore, net, phone
  <2> QED
    BY <2>1, <2>2, <2>3
<1>5. CASE GpioHold
  <2>1. op' \in Operations
    BY <1>5 DEF GpioHold, Operations
  <2>2. ctx' \in Contexts \cup {Null}
    BY <1>5 DEF GpioHold
  <2>3. switches' \in BOOLEAN
    BY <1>5 DEF GpioHold
  <2>4. flag' \in BOOLEAN
    BY <1>5 DEF GpioHold
  <2>5. complete' \in BOOLEAN
    BY <1>5 DEF GpioHold
  <2> QED
    BY <2>1, <2>2, <2>3, <2>4, <2>5, <1>5 DEF GpioHold, GpioPc, net, phone
<1> QED
  BY <1>1, <1>2, <1>3, <1>4, <1>5 DEF GpioFinish

\* A step of the program, or no step at all, preserves the types.
LEMMA TypeStep == TypeOK /\ [Next]_vars => TypeOK'
<1>1. TypeOK /\ UNCHANGED vars => TypeOK'
  BY DEF TypeOK, vars
<1> QED
  BY <1>1, AppType, BleType, RxType, TickType, GpioType DEF Next

LEMMA InitType == Init => TypeOK
<1> SUFFICES ASSUME Init PROVE TypeOK
  OBVIOUS
<1>1. op \in Operations /\ app \in AppPc /\ rx \in RxPc /\ gpio \in GpioPc
  BY DEF Init, Operations, AppPc, RxPc, GpioPc
<1>2. ctx \in Contexts \cup {Null} /\ timers \subseteq {"provision", "cloud"}
  BY DEF Init
<1>3. /\ switches \in BOOLEAN /\ flag \in BOOLEAN /\ done \in BOOLEAN
      /\ complete \in BOOLEAN
  BY DEF Init
<1>4. /\ connected \in BOOLEAN /\ wifi \in BOOLEAN /\ mqttTask \in BOOLEAN
      /\ ble \in BOOLEAN /\ stored \in BOOLEAN /\ owed \in BOOLEAN
      /\ told \in {"none", "received", "wifi", "success", "failed"}
  BY DEF Init
<1>5. dropped \in BOOLEAN /\ starved \in BOOLEAN /\ midway \in BOOLEAN
  BY DEF Init
<1> QED
  BY <1>1, <1>2, <1>3, <1>4, <1>5 DEF TypeOK

\* Every reachable state is well typed.
THEOREM TypeCorrect == Spec => []TypeOK
<1> QED
  BY InitType, TypeStep, PTL DEF Spec

-----------------------------------------------------------------------------
(* The invariant of an attempt that no long press has disturbed.           *)

\* Where casa_app is between two calls of casa_registration().
Between == {"loop", "status", "store"}

Waiting == ctx # Null /\ ctx.current_op = "WAIT" /\ app \in Between

\* A timer runs exactly while the context waits, and casa_app has its context
\* wherever it is in casa_registration().
Matched ==
  /\ app # "undefined"
  /\ app \notin Between => ctx # Null
  /\ timers = {} \/ timers = {"provision"} \/ timers = {"cloud"}
  /\ timers # {} <=> Waiting

\* The states of a context, and the places of casa_app, behind a request.
Past == {"REG_REQ_PARSE", "REG_WIFI_MQTT_INIT", "REG_DEVICE_DETAILS_SHARING",
         "REGISTRATION_PROCESS"}
PastPc == {"ack", "wifi", "starting", "subscribing", "publish", "success"}

\* A context that has come that far knows that the phone has sent something.
Heard ==
  ctx # Null /\ (\/ ctx.buffer \/ ctx.current_op \in Past
                 \/ app \in PastPc \/ "cloud" \in timers)
    => ctx.request # "none"

\* The success that the phone was told of is taken back; the phone will be told.
Correcting ==
  /\ ctx # Null /\ ctx.current_op = "REGISTRATION_FINAL" /\ ctx.request # "none"
  /\ app \in Between

\* What flash, casa_ctx and the phone know of the outcome, at any time.
Verdict ==
  /\ app # "success" => (stored <=> done)
  /\ told = "success" => done \/ Correcting
  /\ told = "failed" => ~done

\* Between attempts nobody is registering.
Calm == ctx = Null => ~flag

Attempt == Matched /\ Heard /\ Verdict /\ Calm

\* A click that is about to begin another operation made its choice in an attempt.
Chosen == gpio \in {"REGISTRATION", "DEREGISTRATION"} => midway

\* Where a dereference of NULL leads, nothing happens any more.
Limbo ==
  /\ app = "undefined" /\ rx = "undefined" /\ gpio = "undefined"
  /\ timers = {} /\ ctx = Null

IInv == dropped \/ Limbo \/ (Attempt /\ Chosen)

\* The initial state satisfies the invariant.
LEMMA InitAttempt == Init => IInv
BY DEF Init, IInv, Attempt, Chosen, Matched, Waiting, Between, Heard, Verdict, Calm

\* A step that leaves alone what the invariant is about preserves it.
LEMMA Untouched ==
  /\ Attempt
  /\ UNCHANGED <<ctx, timers, done, stored, told, flag>>
  /\ app' = app \/ (app' \in Between /\ app \in Between)
  => Attempt'
<1> SUFFICES ASSUME Attempt, UNCHANGED <<ctx, timers, done, stored, told, flag>>,
                    app' = app \/ (app' \in Between /\ app \in Between)
             PROVE  Attempt'
  OBVIOUS
<1> USE DEF Attempt
<1>1. /\ app' \in Between <=> app \in Between
      /\ app' = "undefined" <=> app = "undefined"
      /\ app' = "success" <=> app = "success"
      /\ app' \in PastPc <=> app \in PastPc
  BY DEF Between, PastPc, Matched
<1>2. Matched'
  BY <1>1 DEF Matched, Waiting
<1>3. Heard'
  BY <1>1 DEF Heard
<1>4. Verdict' /\ Calm'
  BY <1>1 DEF Verdict, Correcting, Calm
<1> QED
  BY <1>2, <1>3, <1>4

\* Fields of a changed context.
LEMMA ContextFields ==
  ASSUME NEW c \in Contexts, NEW s \in States
  PROVE  /\ c # Null /\ NewContext # Null
         /\ LET d == [c EXCEPT !.current_op = s] IN
            d # Null /\ d.current_op = s /\ d.request = c.request /\ d.buffer = c.buffer
         /\ LET d == [c EXCEPT !.time_out = 0, !.current_op = s] IN
            d # Null /\ d.current_op = s /\ d.request = c.request /\ d.buffer = c.buffer
<1>1. c # Null /\ NewContext # Null
  BY NullAssumption, ContextClosed
<1>2. [c EXCEPT !.current_op = s] # Null /\ [c EXCEPT !.time_out = 0, !.current_op = s] # Null
  BY NullAssumption, ContextClosed
<1> QED
  BY <1>1, <1>2 DEF Contexts

\* The steps of casa_app preserve the invariant.
LEMMA AppAttempt == TypeOK /\ ~dropped /\ Attempt /\ App => Attempt'
<1> SUFFICES ASSUME TypeOK, ~dropped, Attempt, App PROVE Attempt'
  OBVIOUS
<1> USE DEF Attempt
<1>0. ctx \in Contexts \cup {Null} /\ (ctx # Null => ctx \in Contexts)
  BY DEF TypeOK
<1>1. CASE AppNull
  BY <1>1 DEF AppNull, NullDereference, Holding, Matched, Between
<1>2. CASE AppEnter
  <2>1. /\ ctx' # Null /\ ctx'.current_op = "REGISTRATION_INIT"
        /\ ctx'.request = "none" /\ ctx'.buffer = FALSE
    BY <1>2, NullAssumption, ContextClosed DEF AppEnter, NewContext
  <2>2. Matched' /\ Heard'
    BY <1>2, <2>1 DEF AppEnter, Matched, Waiting, Between, Heard, Past, PastPc
  <2>3. Verdict' /\ Calm'
    BY <1>2, <2>1 DEF AppEnter, Verdict, Correcting, Calm, phone
  <2> QED
    BY <2>2, <2>3
<1>3. CASE AppInit
  <2>0. ctx \in Contexts
    BY <1>0, <1>3 DEF AppInit
  <2>1. /\ ctx' # Null /\ ctx'.request = "none" /\ ctx'.buffer = FALSE
        /\ ctx'.current_op = IF done THEN "WAIT" ELSE "REGISTRATION_INIT"
    <3>1. ctx' \in Contexts
      BY <1>3, <2>0, ContextClosed DEF AppInit, States
    <3> QED
      BY <3>1, <1>3, NullAssumption DEF AppInit, NewContext
  <2>2. Matched'
    BY <1>3, <2>1 DEF AppInit, Matched, Waiting, Between
  <2>3. Heard'
    BY <1>3, <2>1 DEF AppInit, Matched, Waiting, Between, Heard, Past, PastPc
  <2>4. Verdict' /\ Calm'
    BY <1>3, <2>1 DEF AppInit, Between, Verdict, Correcting, Calm, phone
  <2> QED
    BY <2>2, <2>3, <2>4
<1>4. CASE AppWaitForPhone
  <2>1. /\ ctx' # Null /\ ctx'.current_op = "WAIT"
        /\ ctx'.request = ctx.request /\ ctx'.buffer = ctx.buffer
    BY <1>4, <1>0, ContextFields DEF States, AppWaitForPhone
  <2>2. Matched' /\ Heard'
    BY <1>4, <2>1 DEF AppWaitForPhone, Matched, Waiting, Between, Heard, Past, PastPc
  <2>3. Verdict' /\ Calm'
    BY <1>4, <2>1 DEF AppWaitForPhone, Matched, Waiting, Between, Heard, Past, PastPc,
       Verdict, Correcting, Calm, phone
  <2> QED
    BY <2>2, <2>3
<1>5. CASE AppAcknowledge
  <2>1. Matched' /\ Heard'
    BY <1>5 DEF AppAcknowledge, Runs, Matched, Waiting, Between, Heard, Past, PastPc, casa
  <2>2. Verdict' /\ Calm'
    BY <1>5 DEF AppAcknowledge, Runs, Matched, Waiting, Between, Heard, Past, PastPc,
       Verdict, Correcting, Calm, casa, phone
  <2> QED
    BY <2>1, <2>2
<1>6. CASE AppParse
  <2>1. /\ ctx' # Null /\ ctx'.current_op \in {"REG_WIFI_MQTT_INIT", "REGISTRATION_FINAL"}
        /\ ctx'.request = ctx.request /\ ctx'.buffer = ctx.buffer
    <3>1. ctx \in Contexts
      BY <1>6, <1>0 DEF AppParse
    <3>2. PICK s \in {"REG_WIFI_MQTT_INIT", "REGISTRATION_FINAL"} :
            ctx' = [ctx EXCEPT !.current_op = s]
      BY <1>6 DEF AppParse, SetCurrentOp
    <3>3. s \in States
      BY DEF States
    <3> QED
      BY <3>1, <3>2, <3>3, ContextFields
  <2>2. Matched' /\ Heard'
    BY <1>6, <2>1 DEF AppParse, Matched, Waiting, Between, Heard, Past, PastPc
  <2>3. Verdict' /\ Calm'
    BY <1>6, <2>1 DEF AppParse, Matched, Waiting, Between, Heard, Past, PastPc,
       Verdict, Correcting, Calm, phone
  <2> QED
    BY <2>2, <2>3
<1>7. CASE AppWifi
  <2>1. Matched' /\ Heard'
    BY <1>7 DEF AppWifi, Runs, Matched, Waiting, Between, Heard, Past, PastPc, casa
  <2>2. Verdict' /\ Calm'
    BY <1>7 DEF AppWifi, Runs, Matched, Waiting, Between, Heard, Past, PastPc,
       Verdict, Correcting, Calm, casa, phone
  <2> QED
    BY <2>1, <2>2
<1>8. CASE AppWifiFailed
  <2>1. Matched' /\ Heard'
    BY <1>8 DEF AppWifiFailed, Matched, Waiting, Between, Heard, Past, PastPc, casa
  <2>2. Verdict' /\ Calm'
    BY <1>8 DEF AppWifiFailed, Matched, Waiting, Between, Heard, Past, PastPc,
       Verdict, Correcting, Calm, casa, phone
  <2> QED
    BY <2>1, <2>2
<1>9. CASE AppNoWifi
  <2>1. /\ ctx' # Null /\ ctx'.current_op = "REGISTRATION_FINAL"
        /\ ctx'.request = ctx.request /\ ctx'.buffer = ctx.buffer
    BY <1>9, <1>0, ContextFields DEF States, AppNoWifi, SetCurrentOp
  <2>2. Matched' /\ Heard'
    BY <1>9, <2>1 DEF AppNoWifi, SetCurrentOp, Matched, Waiting, Between, Heard, Past, PastPc
  <2>3. Verdict' /\ Calm'
    BY <1>9, <2>1 DEF AppNoWifi, SetCurrentOp, Matched, Waiting, Between, Heard, Past, PastPc,
       Verdict, Correcting, Calm, phone
  <2> QED
    BY <2>2, <2>3
<1>10. CASE AppStart
  <2>1. /\ ctx' # Null /\ ctx'.current_op = "WAIT"
        /\ ctx'.request = ctx.request /\ ctx'.buffer = ctx.buffer
    BY <1>10, <1>0, ContextFields DEF States, AppStart, SetCurrentOp
  <2>2. Matched' /\ Heard'
    BY <1>10, <2>1 DEF AppStart, SetCurrentOp, Matched, Waiting, Between, Heard, Past, PastPc
  <2>3. Verdict' /\ Calm'
    BY <1>10, <2>1 DEF AppStart, SetCurrentOp, Matched, Waiting, Between, Heard, Past, PastPc,
       Verdict, Correcting, Calm, phone
  <2> QED
    BY <2>2, <2>3
<1>11. CASE AppSubscribe
  <2>1. Matched' /\ Heard'
    BY <1>11 DEF AppSubscribe, Matched, Waiting, Between, Heard, Past, PastPc, casa
  <2>2. Verdict' /\ Calm'
    BY <1>11 DEF AppSubscribe, Matched, Waiting, Between, Heard, Past, PastPc,
       Verdict, Correcting, Calm, casa, phone
  <2> QED
    BY <2>1, <2>2
<1>12. CASE AppStartFailed
  <2>1. /\ ctx' # Null /\ ctx'.current_op = "REGISTRATION_FINAL"
        /\ ctx'.request = ctx.request /\ ctx'.buffer = ctx.buffer
    BY <1>12, <1>0, ContextFields DEF States, AppStartFailed, SetCurrentOp
  <2>2. Matched' /\ Heard'
    BY <1>12, <2>1 DEF AppStartFailed, SetCurrentOp, Matched, Waiting, Between, Heard, Past, PastPc
  <2>3. Verdict' /\ Calm'
    BY <1>12, <2>1 DEF AppStartFailed, SetCurrentOp, Matched, Waiting, Between, Heard, Past, PastPc,
       Verdict, Correcting, Calm, phone
  <2> QED
    BY <2>2, <2>3
<1>13. CASE AppStarted
  <2>1. /\ ctx' # Null /\ ctx'.current_op = "REG_DEVICE_DETAILS_SHARING"
        /\ ctx'.request = ctx.request /\ ctx'.buffer = ctx.buffer
    BY <1>13, <1>0, ContextFields DEF States, AppStarted, SetCurrentOp
  <2>2. Matched' /\ Heard'
    BY <1>13, <2>1 DEF AppStarted, SetCurrentOp, Matched, Waiting, Between, Heard, Past, PastPc
  <2>3. Verdict' /\ Calm'
    BY <1>13, <2>1 DEF AppStarted, SetCurrentOp, Matched, Waiting, Between, Heard, Past, PastPc,
       Verdict, Correcting, Calm, phone
  <2> QED
    BY <2>2, <2>3
<1>14. CASE AppStartLost
  <2>1. /\ ctx' # Null /\ ctx'.current_op = "REGISTRATION_FINAL"
        /\ ctx'.request = ctx.request /\ ctx'.buffer = ctx.buffer
    BY <1>14, <1>0, ContextFields DEF States, AppStartLost, SetCurrentOp
  <2>2. Matched' /\ Heard'
    BY <1>14, <2>1 DEF AppStartLost, SetCurrentOp, Matched, Waiting, Between, Heard, Past, PastPc
  <2>3. Verdict' /\ Calm'
    BY <1>14, <2>1 DEF AppStartLost, SetCurrentOp, Matched, Waiting, Between, Heard, Past, PastPc,
       Verdict, Correcting, Calm, phone
  <2> QED
    BY <2>2, <2>3
<1>15. CASE AppShare
  <2>1. Matched' /\ Heard'
    BY <1>15 DEF AppShare, Runs, Matched, Waiting, Between, Heard, Past, PastPc, casa
  <2>2. Verdict' /\ Calm'
    BY <1>15 DEF AppShare, Runs, Matched, Waiting, Between, Heard, Past, PastPc,
       Verdict, Correcting, Calm, casa, phone
  <2> QED
    BY <2>1, <2>2
<1>16. CASE AppShareOffline
  <2>1. /\ ctx' # Null /\ ctx'.current_op = "REGISTRATION_FINAL"
        /\ ctx'.request = ctx.request /\ ctx'.buffer = ctx.buffer
    BY <1>16, <1>0, ContextFields DEF States, AppShareOffline, SetCurrentOp, Runs
  <2>2. Matched' /\ Heard'
    BY <1>16, <2>1 DEF AppShareOffline, SetCurrentOp, Runs, Matched, Waiting, Between, Heard, Past, PastPc
  <2>3. Verdict' /\ Calm'
    BY <1>16, <2>1 DEF AppShareOffline, SetCurrentOp, Runs, Matched, Waiting, Between, Heard, Past, PastPc,
       Verdict, Correcting, Calm, phone
  <2> QED
    BY <2>2, <2>3
<1>17. CASE AppAwaitAnswer
  <2>1. /\ ctx' # Null /\ ctx'.current_op = "WAIT"
        /\ ctx'.request = ctx.request /\ ctx'.buffer = ctx.buffer
    BY <1>17, <1>0, ContextFields DEF States, AppAwaitAnswer
  <2>2. Matched' /\ Heard'
    BY <1>17, <2>1 DEF AppAwaitAnswer, Matched, Waiting, Between, Heard, Past, PastPc
  <2>3. Verdict' /\ Calm'
    BY <1>17, <2>1 DEF AppAwaitAnswer, Matched, Waiting, Between, Heard, Past, PastPc,
       Verdict, Correcting, Calm, phone
  <2> QED
    BY <2>2, <2>3
<1>18. CASE AppAccepted
  <2>1. Matched' /\ Heard'
    BY <1>18 DEF AppAccepted, Runs, Matched, Waiting, Between, Heard, Past, PastPc, casa
  <2>2. Verdict' /\ Calm'
    BY <1>18 DEF AppAccepted, Runs, Matched, Waiting, Between, Heard, Past, PastPc,
       Verdict, Correcting, Calm, casa, phone
  <2> QED
    BY <2>1, <2>2
<1>19. CASE AppRefused
  <2>1. /\ ctx' # Null /\ ctx'.current_op = "REGISTRATION_FINAL"
        /\ ctx'.request = ctx.request /\ ctx'.buffer = ctx.buffer
    BY <1>19, <1>0, ContextFields DEF States, AppRefused, SetCurrentOp, Runs
  <2>2. Matched' /\ Heard'
    BY <1>19, <2>1 DEF AppRefused, SetCurrentOp, Runs, Matched, Waiting, Between, Heard, Past, PastPc
  <2>3. Verdict' /\ Calm'
    BY <1>19, <2>1 DEF AppRefused, SetCurrentOp, Runs, Matched, Waiting, Between, Heard, Past, PastPc,
       Verdict, Correcting, Calm, phone
  <2> QED
    BY <2>2, <2>3
<1>20. CASE AppStoreRegistration
  <2>1. /\ ctx' # Null /\ ctx'.current_op = "REGISTRATION_FINAL"
        /\ ctx'.request = ctx.request /\ ctx'.buffer = ctx.buffer
    BY <1>20, <1>0, ContextFields DEF States, AppStoreRegistration, SetCurrentOp
  <2>2. Matched' /\ Heard'
    BY <1>20, <2>1 DEF AppStoreRegistration, SetCurrentOp, Matched, Waiting, Between, Heard, Past, PastPc
  <2>3. Verdict' /\ Calm'
    BY <1>20, <2>1 DEF AppStoreRegistration, SetCurrentOp, Matched, Waiting, Between, Heard, Past, PastPc,
       Verdict, Correcting, Calm, phone
  <2> QED
    BY <2>2, <2>3
<1>21. CASE AppFail
  <2>1. Matched' /\ Heard'
    BY <1>21 DEF AppFail, Runs, Matched, Waiting, Between, Heard, Past, PastPc, casa
  <2>2. Verdict' /\ Calm'
    BY <1>21 DEF AppFail, Runs, Matched, Waiting, Between, Heard, Past, PastPc,
       Verdict, Correcting, Calm, casa, phone
  <2> QED
    BY <2>1, <2>2
<1>22. CASE AppCloseSession
  <2>1. Matched' /\ Heard'
    BY <1>22 DEF AppCloseSession, Matched, Waiting, Between, Heard, Past, PastPc, casa
  <2>2. Verdict' /\ Calm'
    BY <1>22 DEF AppCloseSession, Matched, Waiting, Between, Heard, Past, PastPc,
       Verdict, Correcting, Calm, casa, phone
  <2> QED
    BY <2>1, <2>2
<1>23. CASE AppCloseWifi
  <2>1. Matched' /\ Heard'
    BY <1>23 DEF AppCloseWifi, Matched, Waiting, Between, Heard, Past, PastPc, casa
  <2>2. Verdict' /\ Calm'
    BY <1>23 DEF AppCloseWifi, Matched, Waiting, Between, Heard, Past, PastPc,
       Verdict, Correcting, Calm, casa, phone
  <2> QED
    BY <2>1, <2>2
<1>24. CASE AppSucceed
  <2>1. Matched' /\ Heard'
    BY <1>24 DEF AppSucceed, Runs, Matched, Waiting, Between, Heard, Past, PastPc, casa
  <2>2. Verdict' /\ Calm'
    BY <1>24 DEF AppSucceed, Runs, Matched, Waiting, Between, Heard, Past, PastPc,
       Verdict, Correcting, Calm, casa, phone
  <2> QED
    BY <2>1, <2>2
<1>25. CASE AppEnd
  <2>1. Matched' /\ Heard'
    BY <1>25 DEF AppEnd, Matched, Waiting, Between, Heard, Past, PastPc, casa
  <2>2. Verdict' /\ Calm'
    BY <1>25 DEF AppEnd, Matched, Waiting, Between, Heard, Past, PastPc,
       Verdict, Correcting, Calm, casa, phone
  <2> QED
    BY <2>1, <2>2
<1>27. CASE AppNoMemory
  BY <1>27, Untouched DEF AppNoMemory, phone
<1>26. CASE AppStatus \/ AppSave \/ AppStore
  BY <1>26, Untouched DEF AppStatus, AppSave, AppStore, Between, casa, phone
<1> QED
  BY <1>1, <1>2, <1>3, <1>4, <1>5, <1>6, <1>7, <1>8, <1>9, <1>10, <1>11, <1>12, <1>13,
     <1>14, <1>15, <1>16, <1>17, <1>18, <1>19, <1>20, <1>21, <1>22, <1>23, <1>24, <1>25, <1>26, <1>27 DEF App

\* A write of the phone only adds to what is in the context.
LEMMA BleAttempt == TypeOK /\ Attempt /\ Ble => Attempt'
<1> SUFFICES ASSUME TypeOK, Attempt, Ble PROVE Attempt'
  OBVIOUS
<1>1. ctx # Null /\ ctx \in Contexts
  BY DEF TypeOK, Ble, BlePart, BleRequest, BleWrites
<1>2. /\ ctx' # Null /\ ctx'.current_op = ctx.current_op
      /\ \/ ctx'.request = ctx.request /\ ctx'.buffer = ctx.buffer
         \/ ctx'.request # "none"
  <2>1. CASE BlePart
    <3>1. ctx' \in Contexts
      BY <2>1, <1>1, ContextClosed DEF BlePart
    <3> QED
      BY <3>1, <2>1, <1>1, NullAssumption DEF BlePart, Contexts
  <2>2. ASSUME NEW request \in Requests, BleRequest(request)
        PROVE  ctx' # Null /\ ctx'.current_op = ctx.current_op /\ ctx'.request # "none"
    <3>1. ctx' \in Contexts /\ request # "none"
      BY <2>2, <1>1, ContextClosed, RequestsAssumption DEF BleRequest, RequestKinds
    <3> QED
      BY <3>1, <2>2, <1>1, NullAssumption DEF BleRequest, Contexts
  <2> QED
    BY <2>1, <2>2 DEF Ble
<1>3. UNCHANGED <<timers, app, done, stored, told, flag>>
  BY DEF Ble, BlePart, BleRequest, phone
<1>4. Matched' /\ Heard'
  BY <1>1, <1>2, <1>3 DEF Attempt, Matched, Waiting, Heard
<1>5. Verdict' /\ Calm'
  BY <1>1, <1>2, <1>3 DEF Attempt, Verdict, Correcting, Calm
<1> QED
  BY <1>4, <1>5 DEF Attempt

\* Of the mqtt thread and the network only an answer of the cloud touches the
\* context, and not its state.
LEMMA RxAttempt ==
  TypeOK /\ Attempt /\ (RxTake \/ RxFinish \/ NetConnected \/ NetLost)
    => Attempt' \/ Limbo'
<1> SUFFICES ASSUME TypeOK, Attempt, RxTake \/ RxFinish \/ NetConnected \/ NetLost
             PROVE  Attempt' \/ Limbo'
  OBVIOUS
<1>1. ASSUME NEW code \in Codes, RxResponseStored(code) PROVE Attempt'
  <2>1. ctx \in Contexts /\ ctx # Null
    BY <1>1 DEF RxResponseStored, TypeOK
  <2>2. /\ ctx' # Null /\ ctx'.current_op = ctx.current_op
        /\ ctx'.request = ctx.request /\ ctx'.buffer = ctx.buffer
    <3>1. ctx' \in Contexts
      BY <1>1, <2>1, ContextClosed DEF RxResponseStored
    <3> QED
      BY <3>1, <2>1, <1>1, NullAssumption DEF RxResponseStored, Contexts
  <2>3. UNCHANGED <<timers, app, done, stored, told, flag>>
    BY <1>1 DEF RxResponseStored, phone
  <2>4. Matched' /\ Heard'
    BY <2>1, <2>2, <2>3 DEF Attempt, Matched, Waiting, Heard
  <2>5. Verdict' /\ Calm'
    BY <2>1, <2>2, <2>3 DEF Attempt, Verdict, Correcting, Calm
  <2> QED
    BY <2>4, <2>5 DEF Attempt
<1>2. CASE RxResponseNull
  BY <1>2 DEF RxResponseNull, NullDereference, Limbo, casa
<1>3. CASE RxTake \/ NetConnected \/ NetLost
  BY <1>3, Untouched DEF RxTake, RxResponse, RxQuery, RxControl, RxReconnect, NetConnected,
     NetLost, casa, phone
<1>4. CASE RxActed \/ RxControlled \/ RxSubscribe \/ RxSubscribed \/ RxGiveUp
  BY <1>4, Untouched DEF RxActed, RxControlled, RxSubscribe, RxSubscribed, RxGiveUp, casa, phone
<1> QED
  BY <1>1, <1>2, <1>3, <1>4 DEF RxFinish

\* A timer counts, or moves the context on and stops: it is the only one.
LEMMA TickAttempt == TypeOK /\ ~dropped /\ Attempt /\ Tick => Attempt'
<1> SUFFICES ASSUME TypeOK, Attempt, Tick PROVE Attempt'
  OBVIOUS
<1> USE DEF Attempt
<1>1. ~TickNull
  BY DEF TickNull, NullDereference, Matched, Waiting
<1>2. PICK timer \in {"provision", "cloud"} :
        \/ timer = "provision" /\ TickProvision
        \/ timer = "cloud" /\ TickCloud
  BY <1>1 DEF Tick
<1>3. /\ timer \in timers /\ ctx # Null /\ ctx \in Contexts /\ ctx.time_out < MaxTicks
      /\ timers = {timer} /\ Waiting
  BY <1>2 DEF TickProvision, TickCloud, Fires, TypeOK, Matched, Waiting
<1>4. UNCHANGED <<app, done, stored, told>>
  BY <1>2 DEF TickProvision, TickCloud, phone
<1>5. \/ Count
      \/ /\ timer = "provision" /\ ctx.buffer /\ Expire(timer, "REG_REQ_PARSE")
      \/ /\ timer = "provision" /\ Expire(timer, "REGISTRATION_FINAL")
      \/ timer = "cloud" /\ Expire(timer, "REGISTRATION_PROCESS")
      \/ timer = "cloud" /\ Expire(timer, "REGISTRATION_FINAL")
  BY <1>2 DEF TickProvision, TickCloud
<1>6. CASE Count
  <2>1. /\ ctx' # Null /\ ctx'.current_op = ctx.current_op
        /\ ctx'.request = ctx.request /\ ctx'.buffer = ctx.buffer
    <3>1. ctx' \in Contexts
      BY <1>6, <1>3, ContextClosed DEF Count
    <3> QED
      BY <3>1, <1>6, <1>3, NullAssumption DEF Count, Contexts
  <2>2. timers' = timers
    BY <1>6 DEF Count
  <2>3. Matched' /\ Heard'
    BY <2>1, <2>2, <1>3, <1>4 DEF Matched, Waiting, Heard
  <2>4. Verdict' /\ Calm'
    BY <2>1, <2>2, <1>3, <1>4 DEF Verdict, Correcting, Calm
  <2> QED
    BY <2>3, <2>4
<1>7. ASSUME NEW s \in {"REG_REQ_PARSE", "REGISTRATION_PROCESS", "REGISTRATION_FINAL"},
             Expire(timer, s),
             s = "REG_REQ_PARSE" => ctx.buffer,
             s = "REGISTRATION_PROCESS" => timer = "cloud"
      PROVE  Attempt'
  <2>1. /\ ctx' # Null /\ ctx'.current_op = s
        /\ ctx'.request = ctx.request /\ ctx'.buffer = ctx.buffer
    <3>1. ctx' \in Contexts
      BY <1>7, <1>3, ContextClosed DEF Expire, States
    <3> QED
      BY <3>1, <1>7, <1>3, NullAssumption DEF Expire, Contexts
  <2>2. timers' = {}
    BY <1>7, <1>3 DEF Expire
  <2>3. Matched'
    BY <2>1, <2>2, <1>3, <1>4 DEF Matched, Waiting
  <2>4. Heard'
    BY <2>1, <2>2, <1>3, <1>4, <1>7 DEF Heard, Past
  <2>5. Verdict' /\ Calm'
    BY <2>1, <2>2, <1>3, <1>4 DEF Waiting, Verdict, Correcting, Calm
  <2> QED
    BY <2>3, <2>4, <2>5
<1> QED
  BY <1>5, <1>6, <1>7

\* A long press of a device that is idle begins an attempt; any other is the end
\* of what the invariant is about.
LEMMA GpioAttempt ==
  Attempt /\ (GpioClick \/ GpioFinish \/ GpioHold) => dropped' \/ Attempt'
<1> SUFFICES ASSUME Attempt, GpioClick \/ GpioFinish \/ GpioHold, ~dropped'
             PROVE  Attempt'
  OBVIOUS
<1>1. CASE GpioClick \/ GpioFinish
  BY <1>1, Untouched DEF GpioClick, GpioFinish, GpioStart, GpioSave, GpioStore, casa, phone
<1>2. CASE GpioHold /\ done
  BY <1>2, Untouched DEF GpioHold, phone
<1>3. CASE GpioHold /\ ~done
  <2>1. /\ ctx = Null /\ ctx' = Null /\ ~flag' /\ app = "loop"
        /\ UNCHANGED <<app, timers, done, stored, told>>
    BY <1>3 DEF GpioHold, Idle, phone
  <2>2. Matched' /\ Heard'
    BY <2>1 DEF Attempt, Matched, Waiting, Heard
  <2>3. Verdict' /\ Calm'
    BY <2>1 DEF Attempt, Verdict, Correcting, Calm
  <2> QED
    BY <2>2, <2>3 DEF Attempt
<1> QED
  BY <1>1, <1>2, <1>3

\* What is dropped stays dropped.
LEMMA DroppedStays == TypeOK /\ dropped /\ [Next]_vars => dropped'
BY DEF Next, vars, App, AppNull, NullDereference, AppEnter, AppNoMemory, AppInit,
   AppWaitForPhone, AppAcknowledge, AppParse, AppWifi, AppWifiFailed, AppNoWifi, AppStart, AppSubscribe,
   AppStartFailed, AppStarted, AppStartLost, AppShare, AppShareOffline, AppAwaitAnswer,
   AppAccepted, AppRefused, AppStoreRegistration, AppFail, AppCloseSession, AppCloseWifi,
   AppSucceed, AppEnd, AppStatus, AppSave, AppStore, Ble, BlePart, BleRequest, RxTake,
   RxResponse, RxResponseStored, RxResponseNull, RxQuery, RxControl, RxReconnect, RxFinish, RxActed, RxControlled,
   RxSubscribe, RxSubscribed, RxGiveUp, NetConnected, NetLost, Tick, TickNull,
   TickProvision, TickCloud, GpioClick, GpioFinish, GpioStart, GpioSave, GpioStore, GpioHold

\* Only the gpio thread makes the choice of a click and stores it, until the program
\* is lost.
LEMMA GpioAlone ==
  [Next]_vars =>
    \/ UNCHANGED <<gpio, midway>> \/ Limbo'
    \/ GpioClick \/ GpioFinish \/ GpioHold
<1> SUFFICES ASSUME [Next]_vars, ~(GpioClick \/ GpioFinish \/ GpioHold)
             PROVE  UNCHANGED <<gpio, midway>> \/ Limbo'
  OBVIOUS
<1>1. CASE AppNull \/ TickNull \/ RxResponseNull
  BY <1>1 DEF AppNull, TickNull, RxResponseNull, NullDereference, Limbo, casa
<1>2. CASE App /\ ~AppNull
  BY <1>2 DEF App, AppEnter, AppNoMemory, AppInit, AppWaitForPhone, AppAcknowledge, AppParse,
     AppWifi, AppWifiFailed, AppNoWifi, AppStart, AppSubscribe, AppStartFailed, AppStarted,
     AppStartLost, AppShare, AppShareOffline, AppAwaitAnswer, AppAccepted, AppRefused,
     AppStoreRegistration, AppFail, AppCloseSession, AppCloseWifi, AppSucceed, AppEnd,
     AppStatus, AppSave, AppStore
<1>3. CASE Ble \/ RxTake \/ NetConnected \/ NetLost
  BY <1>3 DEF Ble, BlePart, BleRequest, RxTake, RxResponse, RxQuery, RxControl, RxReconnect,
     NetConnected, NetLost
<1>4. CASE RxFinish /\ ~RxResponseNull
  BY <1>4 DEF RxFinish, RxResponseStored, RxActed, RxControlled, RxSubscribe, RxSubscribed,
     RxGiveUp
<1>5. CASE Tick /\ ~TickNull
  BY <1>5 DEF Tick, TickProvision, TickCloud
<1>6. CASE UNCHANGED vars
  BY <1>6 DEF vars
<1> QED
  BY <1>1, <1>2, <1>3, <1>4, <1>5, <1>6 DEF Next

\* A click chooses to idle when no attempt is under way.
LEMMA ChosenStep == Attempt /\ Chosen /\ [Next]_vars => Chosen' \/ Limbo'
<1> SUFFICES ASSUME Attempt, Chosen, [Next]_vars PROVE Chosen' \/ Limbo'
  OBVIOUS
<1>1. CASE UNCHANGED <<gpio, midway>> \/ Limbo'
  BY <1>1 DEF Chosen
<1>2. CASE GpioSave
  BY <1>2 DEF GpioSave, NextOperation, Attempt, Calm, Chosen
<1>3. CASE GpioStart \/ GpioClick \/ GpioStore \/ GpioHold
  BY <1>3 DEF GpioStart, GpioClick, GpioStore, GpioHold, Chosen
<1> QED
  BY <1>1, <1>2, <1>3, GpioAlone DEF GpioFinish

\* Nothing leads out of limbo.
LEMMA LimboStays == Limbo /\ [Next]_vars => Limbo'
<1> SUFFICES ASSUME Limbo, [Next]_vars PROVE Limbo'
  OBVIOUS
<1> USE DEF Limbo
<1>1. ~App
  BY DEF App, AppNull, Holding, AppEnter, AppNoMemory, Runs, AppInit, AppWaitForPhone,
     AppAcknowledge, AppParse, AppWifi, AppWifiFailed, AppNoWifi, AppStart, AppSubscribe,
     AppStartFailed, AppStarted, AppStartLost, AppShare, AppShareOffline, AppAwaitAnswer,
     AppAccepted, AppRefused, AppStoreRegistration, AppFail, AppCloseSession, AppCloseWifi,
     AppSucceed, AppEnd, AppStatus, AppSave, AppStore
<1>2. ~Ble /\ ~Tick
  BY DEF Ble, BlePart, BleRequest, BleWrites, Tick, TickNull, TickProvision, TickCloud, Fires
<1>3. ~RxTake /\ ~RxFinish /\ ~NetConnected
  BY DEF RxTake, RxResponse, RxQuery, RxControl, RxReconnect, RxTakes, RxFinish,
     RxResponseStored, RxResponseNull, RxActed, RxControlled, RxSubscribe, RxSubscribed,
     RxGiveUp, NetConnected
<1>4. ~GpioClick /\ ~GpioFinish /\ ~GpioHold
  BY DEF GpioClick, GpioFinish, GpioStart, GpioSave, GpioStore, GpioHold, Operations
<1>5. CASE NetLost
  BY <1>5 DEF NetLost, casa
<1>6. CASE UNCHANGED vars
  BY <1>6 DEF vars
<1> QED
  BY <1>1, <1>2, <1>3, <1>4, <1>5, <1>6 DEF Next

\* The steps that change the operation of casa_ctx.
LEMMA OpMoves ==
  ASSUME Next, op' # op
  PROVE  \/ op' \in {"CASA_IDLE", "STATUS_UPDATE"}
         \/ AppStore \/ GpioStore \/ GpioHold
<1>1. CASE App
  BY <1>1 DEF App, AppNull, NullDereference, AppEnter, AppNoMemory, AppInit, AppWaitForPhone,
     AppAcknowledge, AppParse, AppWifi, AppWifiFailed, AppNoWifi, AppStart, AppSubscribe,
     AppStartFailed, AppStarted, AppStartLost, AppShare, AppShareOffline, AppAwaitAnswer,
     AppAccepted, AppRefused, AppStoreRegistration, AppFail, AppCloseSession, AppCloseWifi,
     AppSucceed, AppEnd, AppStatus, AppSave, casa
<1>2. CASE Ble \/ RxTake \/ NetConnected \/ NetLost
  BY <1>2 DEF Ble, BlePart, BleRequest, RxTake, RxResponse, RxQuery, RxControl, RxReconnect,
     NetConnected, NetLost, casa
<1>3. CASE RxFinish
  BY <1>3 DEF RxFinish, RxResponseStored, RxResponseNull, NullDereference, RxActed,
     RxControlled, RxSubscribe, RxSubscribed, RxGiveUp, casa
<1>4. CASE Tick
  BY <1>4 DEF Tick, TickNull, NullDereference, TickProvision, TickCloud, casa
<1>5. CASE GpioClick \/ GpioFinish
  BY <1>5 DEF GpioClick, GpioFinish, GpioStart, GpioSave, casa
<1> QED
  BY <1>1, <1>2, <1>3, <1>4, <1>5 DEF Next

\* The invariant is inductive.
LEMMA AttemptStep == TypeOK /\ IInv /\ [Next]_vars => IInv'
<1> SUFFICES ASSUME TypeOK, IInv, [Next]_vars PROVE IInv'
  OBVIOUS
<1>1. CASE dropped
  BY <1>1, DroppedStays DEF IInv
<1>2. CASE Limbo
  BY <1>2, LimboStays DEF IInv
<1>3. CASE ~dropped /\ Attempt /\ Chosen
  <2>1. UNCHANGED vars => Attempt'
    BY <1>3, Untouched DEF vars
  <2>2. Next => dropped' \/ Limbo' \/ Attempt'
    BY <1>3, AppAttempt, BleAttempt, RxAttempt, TickAttempt, GpioAttempt DEF Next
  <2>3. dropped' \/ Limbo' \/ Attempt'
    BY <2>1, <2>2
  <2> QED
    BY <1>3, <2>3, ChosenStep DEF IInv
<1> QED
  BY <1>1, <1>2, <1>3 DEF IInv

\* Every reachable state satisfies the types and the invariant.
LEMMA Invariance == Spec => [](TypeOK /\ IInv)
<1> QED
  BY InitType, TypeStep, InitAttempt, AttemptStep, PTL DEF Spec

\* While a timer runs there is a context, a context that waits has a timer, and
\* two timers never count on one context (registration.c:49, 62, 105), until a
\* long press drops the context.
THEOREM TimerIsMatched == Spec => []TimerMatchesContext
<1>1. IInv => TimerMatchesContext
  BY DEF IInv, Attempt, Matched, Waiting, Between, Limbo, TimerMatchesContext
<1> QED
  BY <1>1, Invariance, PTL

\* Once an attempt is over, only a long press begins another operation: neither a
\* click nor a control message starts a registration or a de-registration
\* (device_control.c:60-77), but for a click that chose while the attempt lasted.
THEOREM ClickIsHarmless == Spec => EndedStaysEnded
<1>1. ASSUME TypeOK, IInv, Next, op' # op, op' \in {"REGISTRATION", "DEREGISTRATION"},
             ctx = Null, ~dropped
      PROVE  GpioHold \/ (GpioStore /\ midway)
  <2>1. op' \notin {"CASA_IDLE", "STATUS_UPDATE"}
    BY <1>1
  <2>2. ~Limbo
    BY <1>1, <2>1, OpMoves DEF Limbo, AppStore, GpioStore, GpioHold, Operations
  <2>3. Attempt /\ Chosen
    BY <1>1, <2>2 DEF IInv
  <2>4. ~AppStore
    BY <1>1, <2>3 DEF AppStore, NextOperation, Attempt, Calm
  <2> QED
    BY <1>1, <2>1, <2>3, <2>4, OpMoves DEF GpioStore, Chosen
<1>2. TypeOK /\ IInv /\ [Next]_vars =>
        [(op' # op /\ op' \in {"REGISTRATION", "DEREGISTRATION"} /\ ctx = Null /\ ~dropped)
           => GpioHold \/ (GpioStore /\ midway)]_vars
  BY <1>1
<1> QED
  BY Invariance, <1>2, PTL DEF Spec, EndedStaysEnded

\* When an attempt is over flash, casa_ctx and the phone agree on its outcome
\* (registration.c:268-274).
THEOREM OutcomeAgrees == Spec => []VerdictAgrees
<1>1. IInv => VerdictAgrees
  BY DEF IInv, Attempt, Verdict, Correcting, Limbo, VerdictAgrees
<1> QED
  BY <1>1, Invariance, PTL
=============================================================================

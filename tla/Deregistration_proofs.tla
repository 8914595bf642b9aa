----------------------- MODULE Deregistration_proofs -----------------------
(***************************************************************************)
(* Proofs about Deregistration for every TimeOut, every set of codes,      *)
(* messages and gestures:                                                  *)
(*                                                                         *)
(*   TypeCorrect        Spec => []TypeOK                                   *)
(*   WipeJustified      Spec => WipeNeedsGrounds, from IInv              *)
(*   TimerIsMatched     Spec => []TimerMatchesContext, from TimerInv       *)
(***************************************************************************)
EXTENDS Deregistration, TLAPS

Wiping == {"clear", "close", "handOver", "terminate", "delay", "registering"}

\* WipeNeedsGrounds needs an invariant: the step that wipes only sees a context in
\* DE_REGISTRATION_FINAL, and the step that put it there only saw a status or a lost
\* connection.
StatusGrounded ==
  (dereg # Null /\ dereg.status \in Accepting) => granted \/ misled
FinalGrounded ==
  (dereg # Null /\ dereg.current_op = "DE_REGISTRATION_FINAL") => granted \/ misled
WipingUnregistered == app \in Wiping => ~reg

Justified == StatusGrounded /\ FinalGrounded /\ WipingUnregistered

IInv == TypeOK /\ Justified

\* Where the response timer may run, and what every place that starts or stops
\* it relies on.
Matched ==
  /\ timer => /\ dereg # Null
              /\ \/ dereg.current_op = "WAIT_DEREG"
                 \/ /\ dereg.current_op = "DE_REG_DETAILS_SHARING"
                    /\ app = "arm"
  /\ (dereg # Null /\ dereg.current_op = "WAIT_DEREG") => timer
  /\ app \in {"sharing", "arm"} =>
       /\ dereg # Null
       /\ dereg.current_op = "DE_REG_DETAILS_SHARING"
       /\ timer <=> app = "arm"
  /\ app # "armRunning"
  /\ app \in Wiping => ~timer

TimerInv == TypeOK /\ (~dropped => Matched)

-----------------------------------------------------------------------------
(* Contexts.                                                               *)

\* A new context, and a context with another current_op or another status, is
\* a context.
LEMMA ContextClosed ==
  /\ NewContext \in Contexts
  /\ \A c \in Contexts, s \in {"WAIT_DEREG", "DE_REGISTRATION_PROCESS",
                               "DE_REGISTRATION_FINAL"} :
       [c EXCEPT !.current_op = s] \in Contexts
  /\ \A c \in Contexts, code \in Codes :
       [c EXCEPT !.status = code] \in Contexts
  /\ \A c \in Contexts :
       c.time_out # TimeOut => [c EXCEPT !.time_out = @ + 1] \in Contexts
BY TimeOutAssumption, CodesAssumption DEF NewContext, Contexts

-----------------------------------------------------------------------------
(* Type correctness.                                                       *)

\* The steps of casa_app keep every variable in its type.
LEMMA AppType == TypeOK /\ App => TypeOK'
<1> SUFFICES ASSUME TypeOK, App PROVE TypeOK'
  OBVIOUS
<1> USE DEF TypeOK, history, grounds, NoGrounds
<1>1. CASE AppEnter
  <2>1. dereg' \in Contexts \cup {Null}
    BY <1>1, ContextClosed DEF AppEnter
  <2>2. switches' \in BOOLEAN /\ app' \in AppPc
    BY <1>1 DEF AppEnter, AppPc
  <2>3. UNCHANGED <<op, reg, secure, net, rx, gpio, timer, history>>
    BY <1>1 DEF AppEnter
  <2> QED
    BY <2>1, <2>2, <2>3 DEF net
<1>2. CASE AppNull
  BY <1>2 DEF AppNull, NullDereference, AppPc, RxPc, GpioPc, ctx, net
<1>3. CASE AppShareOffline
  <2>1. dereg' \in Contexts \cup {Null}
    BY <1>3, ContextClosed DEF AppShareOffline, Exit, SetCurrentOp
  <2> QED
    BY <2>1, <1>3 DEF AppShareOffline, Exit, SetCurrentOp, Operations, AppPc, net
<1>4. CASE AppShareOnline
  BY <1>4 DEF AppShareOnline, AppPc, ctx, net
<1>5. CASE AppStartTimer
  BY <1>5 DEF AppStartTimer, AppPc, ctx, net
<1>6. CASE AppArm
  <2>1. dereg' \in Contexts \cup {Null}
    BY <1>6, ContextClosed DEF AppArm, SetCurrentOp
  <2> QED
    BY <2>1, <1>6 DEF AppArm, SetCurrentOp, AppPc, net
<1>7. CASE AppArmNull
  BY <1>7 DEF AppArmNull, NullDereference, AppPc, RxPc, GpioPc, ctx, net
<1>8. CASE AppWaiting
  BY <1>8 DEF AppWaiting, AppPc, ctx, net
<1>9. CASE AppProcess
  <2>1. dereg' \in Contexts \cup {Null}
    BY <1>9, ContextClosed DEF AppProcess, Exit, SetCurrentOp, ctx
  <2>2. /\ op' \in Operations
        /\ switches' \in BOOLEAN /\ reg' \in BOOLEAN /\ secure' \in BOOLEAN
    BY <1>9 DEF AppProcess, Exit, SetCurrentOp, Operations, ctx
  <2>3. asked' \in BOOLEAN /\ granted' \in BOOLEAN /\ misled' \in BOOLEAN
    BY <1>9 DEF AppProcess, Exit
  <2>4. app' \in AppPc /\ UNCHANGED <<net, rx, gpio, timer, dropped>>
    BY <1>9 DEF AppProcess, AppPc
  <2> QED
    BY <2>1, <2>2, <2>3, <2>4 DEF net
<1>10. CASE AppFinal
  BY <1>10 DEF AppFinal, AppPc, net
<1>11. CASE AppClear
  BY <1>11 DEF AppClear, Zero, Operations, AppPc, net
<1>12. CASE AppClose
  BY <1>12 DEF AppClose, AppPc, ctx
<1>13. CASE AppHandOver
  BY <1>13 DEF AppHandOver, Operations, AppPc
<1>14. CASE AppTerminate
  BY <1>14 DEF AppTerminate, AppPc, RxPc, ctx
<1>15. CASE AppEnableSwitches
  BY <1>15 DEF AppEnableSwitches, AppPc, net
<1>16. CASE AppStatus
  BY <1>16 DEF AppStatus, AppPc, ctx, net
<1>17. CASE AppSave
  BY <1>17, ZenonT(40) DEF AppSave, SaveDeviceStatus, AppPc, net
<1>18. CASE AppStore
  BY <1>18 DEF AppStore, Operations, AppPc, net
<1> QED
  BY <1>1, <1>2, <1>3, <1>4, <1>5, <1>6, <1>7, <1>8, <1>9, <1>10, <1>11,
     <1>12, <1>13, <1>14, <1>15, <1>16, <1>17, <1>18 DEF App

\* So do the steps of the mqtt thread and of the network.
LEMMA RxType ==
  TypeOK /\ (RxTake \/ RxFinish \/ NetConnected \/ NetLost) => TypeOK'
<1> SUFFICES ASSUME TypeOK, RxTake \/ RxFinish \/ NetConnected \/ NetLost
             PROVE  TypeOK'
  OBVIOUS
<1> USE DEF TypeOK, history, grounds, NoGrounds
<1>1. ASSUME NEW kind \in {"dereg", "badDereg"}, RxDereg(kind) PROVE TypeOK'
  <2>1. dereg' \in Contexts \cup {Null}
    BY <1>1, ContextClosed DEF RxDereg
  <2> QED
    BY <2>1, <1>1 DEF RxDereg, RxPc, net, RxTakes
<1>2. ASSUME NEW code \in Codes, NEW own \in BOOLEAN, RxResponseStored(code, own)
      PROVE  TypeOK'
  <2>1. dereg' \in Contexts \cup {Null}
    BY <1>2, ContextClosed DEF RxResponseStored
  <2> QED
    BY <2>1, <1>2 DEF RxResponseStored, RxPc, net
<1>3. CASE RxQuery \/ RxControl \/ RxReconnect \/ RxResponse
  BY <1>3 DEF RxQuery, RxControl, RxReconnect, RxResponse, RxPc, ctx, net, RxTakes
<1>4. CASE RxSecure
  BY <1>4 DEF RxSecure, RxPc, net, RxTakes
<1>5. CASE RxDeregParsed \/ RxDeregFailed
  BY <1>5, ZenonT(40) DEF RxDeregParsed, RxDeregFailed, RecordDrop, Operations,
              RxPc, net
<1>6. CASE RxDeregNull \/ RxResponseNull
  BY <1>6, ZenonT(40) DEF RxDeregNull, RxResponseNull, NullDereference, AppPc, RxPc, GpioPc, ctx, net
<1>7. CASE RxActed \/ RxControlled
  BY <1>7 DEF RxActed, RxControlled, Operations, RxPc, net
<1>8. CASE RxSubscribe \/ RxSubscribed \/ RxGiveUp
  BY <1>8, ZenonT(40) DEF RxSubscribe, RxSubscribed, RxGiveUp, RxPc, ctx, net
<1>9. CASE NetConnected
  BY <1>9 DEF NetConnected, ctx, threads
<1>10. CASE NetLost
  BY <1>10 DEF NetLost, ctx, threads
<1> QED
  BY <1>1, <1>2, <1>3, <1>4, <1>5, <1>6, <1>7, <1>8, <1>9, <1>10
     DEF RxTake, RxFinish

\* So do the timer callback and the gpio thread.
LEMMA TickGpioType ==
  TypeOK /\ (Tick \/ GpioClick \/ GpioFinish \/ GpioHold) => TypeOK'
<1> SUFFICES ASSUME TypeOK, Tick \/ GpioClick \/ GpioFinish \/ GpioHold
             PROVE  TypeOK'
  OBVIOUS
<1> USE DEF TypeOK, history, grounds, NoGrounds
<1>1. CASE TickNull
  BY <1>1 DEF TickNull, NullDereference, AppPc, RxPc, GpioPc, ctx, net
<1>2. CASE TickResponse
  <2>1. dereg' \in Contexts \cup {Null}
    BY <1>2, ContextClosed DEF TickResponse, SetCurrentOp
  <2> QED
    BY <2>1, <1>2 DEF TickResponse, SetCurrentOp, net, threads
<1>3. CASE TickTimeOut
  BY <1>3 DEF TickTimeOut, Exit, Operations, net, threads
<1>4. CASE TickCount
  <2>1. dereg' \in Contexts \cup {Null}
    BY <1>4, ContextClosed DEF TickCount
  <2> QED
    BY <2>1, <1>4 DEF TickCount, net, threads
<1>5. CASE GpioClick
  BY <1>5 DEF GpioClick, GpioPc, ctx, net
<1>6. CASE GpioSave
  BY <1>6, ZenonT(40) DEF GpioSave, SaveDeviceStatus, GpioPc, net
<1>7. CASE GpioStore
  BY <1>7 DEF GpioStore, Operations, GpioPc, net
<1>8. CASE GpioHold
  BY <1>8 DEF GpioHold, Zero, RecordDrop, Operations, GpioPc, net
<1> QED
  BY <1>1, <1>2, <1>3, <1>4, <1>5, <1>6, <1>7, <1>8 DEF Tick, GpioFinish

\* A step of the program, or no step at all, preserves the types.
LEMMA TypeStep == TypeOK /\ [Next]_vars => TypeOK'
<1>1. TypeOK /\ UNCHANGED vars => TypeOK'
  BY DEF TypeOK, vars, history, grounds
<1> QED
  BY <1>1, AppType, RxType, TickGpioType DEF Next

LEMMA InitType == Init => TypeOK
BY TimeOutAssumption, CodesAssumption
   DEF Init, TypeOK, Operations, AppPc, RxPc, GpioPc

\* Every reachable state is well typed.
THEOREM TypeCorrect == Spec => []TypeOK
<1> QED
  BY InitType, TypeStep, PTL DEF Spec

-----------------------------------------------------------------------------
(* A wipe is justified.                                                    *)

\* A step that changes nothing Justified looks at.
LEMMA JustifiedFrame ==
  ASSUME Justified,
         UNCHANGED <<dereg, reg, granted, misled>>,
         app' \in Wiping => app \in Wiping
  PROVE  Justified'
BY DEF Justified, StatusGrounded, FinalGrounded, WipingUnregistered, Accepting

\* A step that leaves no context, or one with nothing in its status.
LEMMA JustifiedNewContext ==
  ASSUME Justified,
         dereg' \in {Null, NewContext},
         app' \in Wiping => ~reg'
  PROVE  Justified'
BY DEF Justified, StatusGrounded, FinalGrounded, WipingUnregistered, Accepting,
       NewContext

\* Once there are grounds, only reg can break Justified.
LEMMA JustifiedGranted ==
  ASSUME granted' \/ misled', app' \in Wiping => ~reg'
  PROVE  Justified'
BY DEF Justified, StatusGrounded, FinalGrounded, WipingUnregistered

LEMMA AppJustified == IInv /\ App => Justified'
<1> SUFFICES ASSUME IInv, App PROVE Justified'
  OBVIOUS
<1> USE DEF history, grounds, NoGrounds
<1>0. Justified /\ TypeOK
  BY DEF IInv
<1>1. CASE AppEnter
  <2>1. CASE dereg # Null
    BY <1>0, <1>1, <2>1, JustifiedFrame DEF AppEnter, Wiping
  <2>2. CASE dereg = Null
    BY <1>0, <1>1, <2>2, JustifiedNewContext DEF AppEnter, Wiping
  <2> QED
    BY <2>1, <2>2
<1>2. CASE AppNull \/ AppArmNull
  BY <1>0, <1>2, JustifiedFrame DEF AppNull, AppArmNull, NullDereference, ctx, Wiping
<1>3. CASE AppShareOffline
  <2>1. CASE secure
    BY <1>0, <1>3, <2>1, JustifiedNewContext DEF AppShareOffline, Exit, Wiping
  <2>2. CASE ~secure
    BY <1>3, <2>2, JustifiedGranted DEF AppShareOffline, Wiping
  <2> QED
    BY <2>1, <2>2
<1>4. CASE AppShareOnline \/ AppWaiting \/ AppStatus
  BY <1>0, <1>4, JustifiedFrame
     DEF AppShareOnline, AppWaiting, AppStatus, ctx, Wiping
<1>5. CASE AppStartTimer
  BY <1>0, <1>5, JustifiedFrame DEF AppStartTimer, ctx, Wiping
<1>6. CASE AppArm
  <2>1. /\ dereg \in Contexts /\ dereg # Null /\ dereg' # Null
        /\ dereg'.status = dereg.status
        /\ dereg'.current_op = "WAIT_DEREG"
    BY <1>0, <1>6, NullAssumption, ContextClosed
       DEF AppArm, SetCurrentOp, TypeOK, Contexts
  <2>2. UNCHANGED <<reg, granted, misled>> /\ app' \notin Wiping
    BY <1>6 DEF AppArm, SetCurrentOp, Wiping
  <2> QED
    BY <1>0, <2>1, <2>2
       DEF Justified, StatusGrounded, FinalGrounded, WipingUnregistered
<1>7. CASE AppProcess
  <2>1. CASE dereg.status \in Accepting
    <3>1. granted \/ misled
      BY <1>0, <1>7, <2>1 DEF AppProcess, Justified, StatusGrounded
    <3>2. UNCHANGED <<granted, misled>> /\ app' \notin Wiping
      BY <1>7, <2>1 DEF AppProcess, Wiping, Accepting, Refusing
    <3> QED
      BY <3>1, <3>2, JustifiedGranted
  <2>2. CASE dereg.status \notin Accepting /\ dereg.status \in Refusing
    BY <1>0, <1>7, <2>2, JustifiedNewContext DEF AppProcess, Exit, Wiping
  <2>3. CASE dereg.status \notin Accepting \cup Refusing
    BY <1>0, <1>7, <2>3, JustifiedFrame DEF AppProcess, ctx, Wiping
  <2> QED
    BY <2>1, <2>2, <2>3
<1>8. CASE AppFinal \/ AppClear
  BY <1>0, <1>8, JustifiedNewContext DEF AppFinal, AppClear, Zero
<1>9. CASE AppClose \/ AppHandOver \/ AppTerminate \/ AppEnableSwitches
  BY <1>0, <1>9, JustifiedFrame
     DEF AppClose, AppHandOver, AppTerminate, AppEnableSwitches, ctx, Wiping
<1>10. CASE AppSave \/ AppStore
  BY <1>0, <1>10, JustifiedFrame DEF AppSave, AppStore, Wiping
<1> QED
  BY <1>1, <1>2, <1>3, <1>4, <1>5, <1>6, <1>7, <1>8, <1>9, <1>10 DEF App

LEMMA RxJustified ==
  IInv /\ (RxTake \/ RxFinish \/ NetConnected \/ NetLost) => Justified'
<1> SUFFICES ASSUME IInv, RxTake \/ RxFinish \/ NetConnected \/ NetLost
             PROVE  Justified'
  OBVIOUS
<1> USE DEF history, grounds, NoGrounds
<1>0. Justified /\ TypeOK
  BY DEF IInv
<1>1. ASSUME NEW kind \in {"dereg", "badDereg"}, RxDereg(kind)
      PROVE  Justified'
  <2>1. CASE dereg # Null
    BY <1>0, <1>1, <2>1, JustifiedFrame DEF RxDereg
  <2>2. CASE dereg = Null
    <3>1. dereg' \in {Null, NewContext} /\ UNCHANGED <<app, reg>>
      BY <1>1, <2>2 DEF RxDereg
    <3> QED
      BY <1>0, <3>1, JustifiedNewContext DEF Justified, WipingUnregistered
  <2> QED
    BY <2>1, <2>2
<1>2. ASSUME NEW code \in Codes, NEW own \in BOOLEAN, RxResponseStored(code, own)
      PROVE  Justified'
  <2>1. /\ dereg' # Null /\ dereg'.current_op = dereg.current_op
        /\ dereg'.status = code
        /\ dereg # Null
    BY <1>0, <1>2, NullAssumption, ContextClosed
       DEF RxResponseStored, TypeOK, Contexts
  <2>2. UNCHANGED <<reg, app>>
    BY <1>2 DEF RxResponseStored
  <2>3. code \in Accepting => granted' \/ misled'
    BY <1>2 DEF RxResponseStored
  <2>4. granted \/ misled => granted' \/ misled'
    BY <1>2 DEF RxResponseStored
  <2> QED
    BY <1>0, <2>1, <2>2, <2>3, <2>4
       DEF Justified, StatusGrounded, FinalGrounded, WipingUnregistered
<1>3. CASE RxSecure \/ NetLost \/ NetConnected \/ RxResponse
  BY <1>0, <1>3, JustifiedFrame
     DEF RxSecure, NetLost, NetConnected, RxResponse, ctx, threads
<1>4. CASE RxQuery \/ RxControl \/ RxReconnect
  BY <1>0, <1>4, JustifiedFrame DEF RxQuery, RxControl, RxReconnect, ctx
<1>5. CASE RxDeregParsed
  BY <1>0, <1>5, JustifiedFrame DEF RxDeregParsed
<1>6. CASE RxDeregFailed
  <2>1. dereg' = Null /\ UNCHANGED <<app, reg>>
    BY <1>6 DEF RxDeregFailed
  <2> QED
    BY <1>0, <2>1, JustifiedNewContext DEF Justified, WipingUnregistered
<1>7. CASE RxDeregNull \/ RxResponseNull
  BY <1>0, <1>7, JustifiedFrame
     DEF RxDeregNull, RxResponseNull, NullDereference, ctx, Wiping
<1>8. CASE RxActed \/ RxControlled
  BY <1>0, <1>8, JustifiedFrame DEF RxActed, RxControlled
<1>9. CASE RxSubscribe \/ RxSubscribed \/ RxGiveUp
  BY <1>0, <1>9, JustifiedFrame DEF RxSubscribe, RxSubscribed, RxGiveUp, ctx
<1> QED
  BY <1>1, <1>2, <1>3, <1>4, <1>5, <1>6, <1>7, <1>8, <1>9 DEF RxTake, RxFinish

LEMMA TickGpioJustified ==
  IInv /\ (Tick \/ GpioClick \/ GpioFinish \/ GpioHold) => Justified'
<1> SUFFICES ASSUME IInv, Tick \/ GpioClick \/ GpioFinish \/ GpioHold
             PROVE  Justified'
  OBVIOUS
<1> USE DEF history, grounds, NoGrounds
<1>0. Justified /\ TypeOK
  BY DEF IInv
<1>1. CASE TickNull
  BY <1>0, <1>1, JustifiedFrame DEF TickNull, NullDereference, ctx, Wiping
<1>2. CASE TickResponse \/ TickCount
  <2>1. /\ dereg \in Contexts /\ dereg # Null /\ dereg' # Null
        /\ dereg'.status = dereg.status
        /\ dereg'.current_op \in {"DE_REGISTRATION_PROCESS",
                                  dereg.current_op}
    BY <1>0, <1>2, NullAssumption, ContextClosed
       DEF TickResponse, TickCount, SetCurrentOp, TypeOK, Contexts
  <2>2. UNCHANGED <<reg, app, granted, misled>>
    BY <1>2 DEF TickResponse, TickCount, SetCurrentOp, threads
  <2> QED
    BY <1>0, <2>1, <2>2
       DEF Justified, StatusGrounded, FinalGrounded, WipingUnregistered
<1>3. CASE TickTimeOut
  <2>1. dereg' = Null /\ UNCHANGED <<app, reg>>
    BY <1>3 DEF TickTimeOut, Exit, threads
  <2> QED
    BY <1>0, <2>1, JustifiedNewContext DEF Justified, WipingUnregistered
<1>4. CASE GpioClick \/ GpioFinish
  BY <1>0, <1>4, JustifiedFrame DEF GpioClick, GpioFinish, GpioSave, GpioStore, ctx
<1>5. CASE GpioHold
  <2>1. dereg' = Null /\ app' = app /\ (~reg => ~reg')
    BY <1>5 DEF GpioHold, Zero
  <2> QED
    BY <1>0, <2>1, JustifiedNewContext DEF Justified, WipingUnregistered
<1> QED
  BY <1>1, <1>2, <1>3, <1>4, <1>5 DEF Tick

LEMMA IInvStep == IInv /\ [Next]_vars => IInv'
<1>1. IInv /\ UNCHANGED vars => Justified'
  BY JustifiedFrame DEF IInv, vars, history, grounds
<1> QED
  BY <1>1, TypeStep, AppJustified, RxJustified, TickGpioJustified
     DEF IInv, Next

LEMMA InitJustified == Init => IInv
<1> SUFFICES ASSUME Init PROVE IInv
  OBVIOUS
<1>1. dereg = Null /\ app \notin Wiping
  BY DEF Init, Wiping
<1> QED
  BY <1>1, InitType
     DEF IInv, Justified, StatusGrounded, FinalGrounded, WipingUnregistered

\* Only the last step of casa_deregistration() gives up the registration.
LEMMA OnlyFinalWipes ==
  ASSUME IInv, Next, reg, ~reg'
  PROVE  AppFinal
<1>1. app # "clear"
  BY DEF IInv, Justified, WipingUnregistered, Wiping
<1>2. ~(RxTake \/ RxFinish \/ NetConnected \/ NetLost)
  BY DEF RxTake, RxDereg, RxResponse, RxQuery, RxSecure, RxControl, RxReconnect,
         RxFinish, RxDeregParsed, RxDeregNull, RxDeregFailed, RxActed, RxControlled,
         RxResponseStored, RxResponseNull, RxSubscribe, RxSubscribed, RxGiveUp,
         NetConnected, NetLost, NullDereference, ctx
<1>3. ~(Tick \/ GpioClick \/ GpioFinish \/ GpioHold)
  BY DEF Tick, TickNull, TickResponse, TickTimeOut, TickCount, NullDereference, Exit,
         SetCurrentOp, GpioClick, GpioFinish, GpioSave, GpioStore, GpioHold, ctx
<1>4. CASE App
  BY <1>1, <1>4
     DEF App, AppEnter, AppNull, AppShareOffline, AppShareOnline, AppStartTimer,
         AppArm, AppArmNull, AppWaiting, AppProcess, AppClear, AppClose, AppHandOver,
         AppTerminate, AppEnableSwitches, AppStatus, AppSave, AppStore,
         NullDereference, Exit, SetCurrentOp, ctx
<1> QED
  BY <1>2, <1>3, <1>4 DEF Next

\* A de-registration that wipes the device has grounds of its own, whatever messages,
\* presses, losses of connection and earlier de-registrations came before it.
THEOREM WipeJustified == Spec => WipeNeedsGrounds
<1>1. IInv /\ [Next]_vars => [reg /\ ~reg' => granted \/ misled]_vars
  <2> SUFFICES ASSUME IInv, Next, reg, ~reg' PROVE granted \/ misled
    BY DEF vars
  <2> QED
    BY OnlyFinalWipes DEF AppFinal, IInv, Justified, FinalGrounded
<1> QED
  BY <1>1, InitJustified, IInvStep, PTL DEF Spec, WipeNeedsGrounds

-----------------------------------------------------------------------------
(* The response timer and the context.                                     *)

\* A step that changes nothing Matched looks at, but for a thread that stays
\* outside the places Matched names.
LEMMA MatchedFrame ==
  ASSUME Matched,
         UNCHANGED <<dereg, timer>>,
         app' = app \/ /\ app \notin {"sharing", "arm"}
                       /\ app' \notin {"sharing", "arm", "armRunning"}
                       /\ app' \in Wiping => app \in Wiping
  PROVE  Matched'
BY DEF Matched

\* A step that leaves neither timer nor context.
LEMMA MatchedGone ==
  ASSUME ~timer', dereg' = Null,
         app' \notin {"sharing", "arm", "armRunning"}
  PROVE  Matched'
BY DEF Matched

\* A step that changes the context and the timer outside casa_app's use of
\* them.
LEMMA MatchedPlain ==
  ASSUME app' \notin Wiping \cup {"sharing", "arm", "armRunning"},
         dereg' # Null,
         timer' <=> dereg'.current_op = "WAIT_DEREG"
  PROVE  Matched'
BY DEF Matched

LEMMA AppMatched == TypeOK /\ Matched /\ App => Matched'
<1> SUFFICES ASSUME TypeOK, Matched, App PROVE Matched'
  OBVIOUS
<1>0. Matched /\ TypeOK
  OBVIOUS
<1>1. CASE AppEnter
  <2>1. CASE dereg = Null
    <3>1. ~timer
      BY <1>0, <2>1 DEF Matched
    <3>2. ~timer' /\ app' \in {"switch", "loop"}
      BY <1>1, <3>1 DEF AppEnter
    <3>3. \/ dereg' = Null
          \/ dereg' # Null /\ dereg'.current_op = "DE_REG_DETAILS_SHARING"
      BY <1>1, <2>1, NullAssumption, ContextClosed DEF AppEnter, NewContext
    <3> QED
      BY <3>2, <3>3, MatchedPlain, MatchedGone DEF Wiping
  <2>2. CASE dereg # Null
    BY <1>0, <1>1, <2>2, MatchedFrame DEF AppEnter, Matched, Wiping
  <2> QED
    BY <2>1, <2>2
<1>2. CASE AppNull \/ AppArmNull
  BY <1>2, MatchedGone DEF AppNull, AppArmNull, NullDereference, ctx
<1>3. CASE AppShareOffline
  <2>1. ~timer
    BY <1>0, <1>3 DEF Matched, AppShareOffline
  <2>2. ~timer' /\ app' = "loop"
    BY <1>3, <2>1 DEF AppShareOffline
  <2>3. CASE secure
    BY <1>3, <2>2, <2>3, MatchedGone DEF AppShareOffline, Exit
  <2>4. CASE ~secure
    <3>1. /\ dereg' # Null
          /\ dereg'.current_op = "DE_REGISTRATION_FINAL"
      BY <1>0, <1>3, <2>4, NullAssumption, ContextClosed
         DEF AppShareOffline, SetCurrentOp, TypeOK, Contexts
    <3> QED
      BY <2>2, <3>1, MatchedPlain DEF Wiping
  <2> QED
    BY <2>3, <2>4
<1>4. CASE AppShareOnline
  <2>1. /\ ~timer /\ dereg # Null
        /\ dereg.current_op = "DE_REG_DETAILS_SHARING"
    BY <1>0, <1>4 DEF AppShareOnline, Matched
  <2>2. UNCHANGED <<dereg, timer>> /\ app' = "sharing"
    BY <1>4 DEF AppShareOnline, ctx
  <2> QED
    BY <2>1, <2>2 DEF Matched, Wiping
<1>5. CASE AppStartTimer
  <2>1. /\ ~timer /\ dereg # Null
        /\ dereg.current_op = "DE_REG_DETAILS_SHARING"
    BY <1>0, <1>5 DEF AppStartTimer, Matched
  <2>2. dereg' = dereg /\ timer' /\ app' = "arm"
    BY <1>5, <2>1 DEF AppStartTimer, ctx
  <2> QED
    BY <2>1, <2>2 DEF Matched, Wiping
<1>6. CASE AppArm
  <2>1. timer
    BY <1>0, <1>6 DEF AppArm, Matched
  <2>2. /\ dereg' # Null
        /\ dereg'.current_op = "WAIT_DEREG"
    BY <1>0, <1>6, NullAssumption, ContextClosed
       DEF AppArm, SetCurrentOp, TypeOK, Contexts
  <2>3. timer' /\ app' = "loop"
    BY <1>6, <2>1 DEF AppArm
  <2> QED
    BY <2>2, <2>3, MatchedPlain DEF Wiping
<1>7. CASE AppWaiting \/ AppStatus
  BY <1>0, <1>7, MatchedFrame
     DEF AppWaiting, AppStatus, ctx, Matched, Wiping
<1>8. CASE AppProcess
  <2>1. ~timer
    BY <1>0, <1>8 DEF Matched, AppProcess
  <2>2. ~timer' /\ app' = "loop"
    BY <1>8, <2>1 DEF AppProcess
  <2>3. CASE dereg.status \in Accepting
    <3>1. /\ dereg' # Null
          /\ dereg'.current_op = "DE_REGISTRATION_FINAL"
      BY <1>0, <1>8, <2>3, NullAssumption, ContextClosed
         DEF AppProcess, SetCurrentOp, TypeOK, Contexts, Accepting, Refusing
    <3> QED
      BY <2>2, <3>1, MatchedPlain DEF Wiping
  <2>4. CASE dereg.status \notin Accepting /\ dereg.status \in Refusing
    BY <1>8, <2>2, <2>4, MatchedGone DEF AppProcess, Exit
  <2>5. CASE dereg.status \notin Accepting \cup Refusing
    BY <1>0, <1>8, <2>5, MatchedFrame DEF AppProcess, ctx, Matched, Wiping
  <2> QED
    BY <2>3, <2>4, <2>5
<1>9. CASE AppFinal
  <2>1. ~timer
    BY <1>0, <1>9 DEF Matched, AppFinal
  <2> QED
    BY <1>9, <2>1, MatchedGone DEF AppFinal
<1>10. CASE AppClear
  <2>1. ~timer
    BY <1>0, <1>10 DEF Matched, AppClear, Wiping
  <2> QED
    BY <1>10, <2>1, MatchedGone DEF AppClear, Zero
<1>11. CASE AppClose \/ AppHandOver \/ AppEnableSwitches
  BY <1>0, <1>11, MatchedFrame
     DEF AppClose, AppHandOver, AppEnableSwitches, ctx, Matched, Wiping
<1>12. CASE AppTerminate
  BY <1>0, <1>12, MatchedFrame DEF AppTerminate, ctx, Matched, Wiping
<1>13. CASE AppSave \/ AppStore
  BY <1>0, <1>13, MatchedFrame DEF AppSave, AppStore, Matched, Wiping
<1> QED
  BY <1>1, <1>2, <1>3, <1>4, <1>5, <1>6, <1>7, <1>8, <1>9, <1>10, <1>11,
     <1>12, <1>13 DEF App

LEMMA RxMatched ==
  /\ TypeOK /\ Matched /\ ~dropped'
  /\ RxTake \/ RxFinish \/ NetConnected \/ NetLost
  => Matched'
<1> SUFFICES ASSUME TypeOK, Matched, ~dropped',
                    RxTake \/ RxFinish \/ NetConnected \/ NetLost
             PROVE  Matched'
  OBVIOUS
<1>0. Matched /\ TypeOK
  OBVIOUS
<1>1. ASSUME NEW kind \in {"dereg", "badDereg"}, RxDereg(kind)
      PROVE  Matched'
  <2>1. UNCHANGED <<app, timer>>
    BY <1>1 DEF RxDereg
  <2>2. CASE dereg = Null
    <3>1. ~timer /\ app \notin {"sharing", "arm", "armRunning"}
      BY <1>0, <2>2 DEF Matched
    <3>2. \/ dereg' = Null
          \/ dereg' # Null /\ dereg'.current_op = "DE_REG_DETAILS_SHARING"
      BY <1>1, <2>2, NullAssumption, ContextClosed DEF RxDereg, NewContext
    <3> QED
      BY <1>0, <2>1, <3>1, <3>2 DEF Matched
  <2>3. CASE dereg # Null
    BY <1>0, <1>1, <2>1, <2>3, MatchedFrame DEF RxDereg
  <2> QED
    BY <2>2, <2>3
<1>2. ASSUME NEW code \in Codes, NEW own \in BOOLEAN, RxResponseStored(code, own)
      PROVE  Matched'
  <2>1. /\ dereg' # Null /\ dereg'.current_op = dereg.current_op
        /\ dereg # Null
    BY <1>0, <1>2, NullAssumption, ContextClosed
       DEF RxResponseStored, TypeOK, Contexts
  <2>2. UNCHANGED <<app, timer>>
    BY <1>2 DEF RxResponseStored
  <2> QED
    BY <1>0, <2>1, <2>2 DEF Matched
<1>3. CASE RxSecure \/ RxQuery \/ RxControl \/ RxReconnect \/ RxResponse
  BY <1>0, <1>3, MatchedFrame
     DEF RxSecure, RxQuery, RxControl, RxReconnect, RxResponse, ctx
<1>4. CASE RxDeregParsed \/ RxActed \/ RxControlled
  BY <1>0, <1>4, MatchedFrame DEF RxDeregParsed, RxActed, RxControlled
<1>5. CASE RxDeregNull \/ RxResponseNull
  BY <1>5, MatchedGone DEF RxDeregNull, RxResponseNull, NullDereference, ctx
<1>6. CASE RxDeregFailed
  <2>1. dereg' = Null /\ UNCHANGED <<app, timer>>
    BY <1>6 DEF RxDeregFailed
  <2>2. ~timer /\ app # "sharing"
    BY <1>6 DEF RxDeregFailed, RecordDrop
  <2> QED
    BY <1>0, <2>1, <2>2, MatchedGone DEF Matched
<1>7. CASE RxSubscribe \/ RxSubscribed \/ RxGiveUp
  BY <1>0, <1>7, MatchedFrame DEF RxSubscribe, RxSubscribed, RxGiveUp, ctx
<1>8. CASE NetConnected \/ NetLost
  BY <1>0, <1>8, MatchedFrame DEF NetConnected, NetLost, ctx, threads
<1> QED
  BY <1>1, <1>2, <1>3, <1>4, <1>5, <1>6, <1>7, <1>8 DEF RxTake, RxFinish

LEMMA TickGpioMatched ==
  /\ TypeOK /\ Matched /\ ~dropped'
  /\ Tick \/ GpioClick \/ GpioFinish \/ GpioHold
  => Matched'
<1> SUFFICES ASSUME TypeOK, Matched, ~dropped',
                    Tick \/ GpioClick \/ GpioFinish \/ GpioHold
             PROVE  Matched'
  OBVIOUS
<1>0. Matched /\ TypeOK
  OBVIOUS
<1>1. ASSUME Fires
      PROVE  app \notin Wiping \cup {"sharing", "arm", "armRunning"}
  BY <1>0, <1>1 DEF Fires, Matched
<1>2. CASE TickNull
  BY <1>2, MatchedGone DEF TickNull, NullDereference, ctx
<1>3. CASE TickResponse
  <2>1. /\ dereg' # Null
        /\ dereg'.current_op = "DE_REGISTRATION_PROCESS"
    BY <1>0, <1>3, NullAssumption, ContextClosed
       DEF TickResponse, SetCurrentOp, TypeOK, Contexts
  <2>2. ~timer' /\ app' = app
    BY <1>3 DEF TickResponse, threads
  <2> QED
    BY <1>0, <1>1, <1>3, <2>1, <2>2, MatchedPlain DEF TickResponse
<1>4. CASE TickTimeOut
  BY <1>0, <1>1, <1>4, MatchedGone DEF TickTimeOut, Exit, threads
<1>5. CASE TickCount
  <2>1. /\ dereg' # Null /\ dereg # Null
        /\ dereg'.current_op = dereg.current_op
    BY <1>0, <1>5, NullAssumption, ContextClosed
       DEF TickCount, TypeOK, Contexts
  <2>2. UNCHANGED <<app, timer>>
    BY <1>5 DEF TickCount, threads
  <2> QED
    BY <1>0, <2>1, <2>2 DEF Matched
<1>6. CASE GpioClick \/ GpioFinish
  BY <1>0, <1>6, MatchedFrame
     DEF GpioClick, GpioFinish, GpioSave, GpioStore, ctx
<1>7. CASE GpioHold
  <2>1. dereg' = Null /\ UNCHANGED <<app, timer>>
    BY <1>7 DEF GpioHold, Zero
  <2>2. ~timer /\ app # "sharing"
    BY <1>7 DEF GpioHold, RecordDrop
  <2> QED
    BY <1>0, <2>1, <2>2, MatchedGone DEF Matched
<1> QED
  BY <1>2, <1>3, <1>4, <1>5, <1>6, <1>7 DEF Tick

\* A drop of a context is recorded for good.
LEMMA DropsStay == TypeOK /\ [Next]_vars /\ ~dropped' => ~dropped
<1> SUFFICES ASSUME TypeOK, [Next]_vars, ~dropped' PROVE ~dropped
  OBVIOUS
<1> USE DEF history
<1>1. CASE App
  BY <1>1
     DEF App, AppEnter, AppNull, AppShareOffline, AppShareOnline,
         AppStartTimer, AppArm, AppArmNull, AppWaiting, AppProcess, AppFinal,
         AppClear, AppClose, AppHandOver, AppTerminate, AppEnableSwitches,
         AppStatus, AppSave, AppStore, NullDereference
<1>2. CASE RxTake
  BY <1>2
     DEF RxTake, RxDereg, RxResponse, RxQuery, RxSecure, RxControl,
         RxReconnect, history
<1>3. CASE RxFinish \/ NetConnected \/ NetLost
  BY <1>3
     DEF RxFinish, RxDeregParsed, RxDeregNull, RxDeregFailed, RxActed,
         RxControlled, RxResponseStored, RxResponseNull, RxSubscribe, RxSubscribed, RxGiveUp, NetConnected,
         NetLost, NullDereference, RecordDrop, history
<1>4. CASE Tick
  BY <1>4
     DEF Tick, TickNull, TickResponse, TickTimeOut, TickCount, NullDereference
<1>5. CASE GpioClick \/ GpioFinish \/ GpioHold
  BY <1>5
     DEF GpioClick, GpioFinish, GpioSave, GpioStore, GpioHold, RecordDrop
<1>6. CASE UNCHANGED vars
  BY <1>6 DEF vars
<1> QED
  BY <1>1, <1>2, <1>3, <1>4, <1>5, <1>6 DEF Next

\* Until a context is dropped under its timer, the response timer runs exactly
\* while a context waits: its callback never meets a freed context, and no
\* context waits for a callback that will not come.
THEOREM TimerIsMatched == Spec => []TimerMatchesContext
<1>1. Init => TimerInv
  <2> SUFFICES ASSUME Init PROVE TimerInv
    OBVIOUS
  <2>1. dereg = Null /\ ~timer /\ app = "loop"
    BY DEF Init
  <2> QED
    BY <2>1, InitType DEF TimerInv, Matched, Wiping
<1>2. TimerInv /\ [Next]_vars => TimerInv'
  <2>1. Matched /\ UNCHANGED vars => Matched'
    BY MatchedFrame DEF vars
  <2> QED
    BY <2>1, TypeStep, DropsStay, AppMatched, RxMatched, TickGpioMatched
       DEF TimerInv, Next
<1>3. TimerInv => TimerMatchesContext
  BY DEF TimerInv, Matched, TimerMatchesContext
<1> QED
  BY <1>1, <1>2, <1>3, PTL DEF Spec

=============================================================================

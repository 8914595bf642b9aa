------------------------- MODULE Connection_proofs --------------------------
(***************************************************************************)
(* Proofs about the two parts that keep the device connected: WifiLink,    *)
(* for every set of addresses, every number of retries, calls and losses,  *)
(* and MqttSession, for every limit, every number of failures and every    *)
(* number of attempts, de-registrations and losses.                        *)
(***************************************************************************)
EXTENDS MqttSession, WifiLink, TLAPS

-----------------------------------------------------------------------------
(* MqttSession.                                                            *)

Where == {"out", "close", "free", "reset", "load", "fill", "dns", "connect", "poll",
          "subscribe", "create", "failed", "leave", "crashed"}
Purpose == {"none", "start", "share", "accepted", "fail", "wipe"}

\* The types of the threads.
ThreadTypes ==
  /\ purpose \in Purpose /\ pc \in [Threads -> Where]
  /\ credentials \in {"null", "live", "freed"}
  /\ faults \subseteq Faults
  /\ purpose \in {"none", "share", "accepted"} => pc["app"] = "out"

\* The types of the flags.
FlagTypes ==
  /\ registered \in BOOLEAN /\ task \in BOOLEAN
  /\ connected \in BOOLEAN /\ client \in {"none", "connecting", "connected"}
  /\ subscribed \in BOOLEAN /\ net \in BOOLEAN /\ internet \in BOOLEAN
  /\ report \in BOOLEAN

\* What is counted.
Counts ==
  /\ tries \in [Threads -> Nat] /\ \A t \in Threads : tries[t] < Tries + Polls
  /\ counter \in 0 .. Wrap - 1 /\ pubs \in 0 .. Reports - 1
  /\ failures \in 0 .. MaxFailures /\ changes \in 0 .. MaxChanges

\* The threads did not meet at the session.
Clean == "overlap" \notin faults

\* One thread is at the session.
Only(t) == \A u \in Threads \ {t} : pc[u] = "out"
Alone == \E t \in Threads : Only(t)

\* The thread that is about to use the credentials has them, and the one that has
\* freed them is about to forget them.
OwnedAt(where) ==
  /\ where # "crashed"
  /\ where \in {"free", "fill"} => credentials = "live"
  /\ credentials = "freed" => where = "reset"

\* A connection is the client's unless the session is being closed, and has a
\* subscription unless the thread is about to make one.
ServedAt(where) ==
  /\ connected => client = "connected" \/ where \in {"close", "free", "reset"}
  /\ connected => subscribed \/ where \in {"close", "free", "reset", "poll", "subscribe"}
  /\ where \in {"load", "fill", "dns", "connect"} => ~connected

\* Whichever thread is at the session, the state of the session is right for the
\* place where the thread is.
Right(t) ==
  /\ Only(t) /\ OwnedAt(pc[t])
  /\ faults = {} => ServedAt(pc[t])
Inv == Clean => \E t \in Threads : Right(t)

IInv == ThreadTypes /\ FlagTypes /\ Counts /\ Inv

USE DEF vars, callers, session, network, reporting, bounds

\* The initial state satisfies the inductive invariant.
LEMMA InitIInv == Init => IInv
<1> SUFFICES ASSUME Init PROVE IInv
  OBVIOUS
<1>1. ThreadTypes
  BY DEF Init, ThreadTypes, Threads, Where, Purpose
<1>2. FlagTypes
  BY DEF Init, FlagTypes
<1>3. Counts
  BY LimitsAssumption, BoundsAssumption DEF Init, Counts
<1>4. Right("app")
  BY DEF Init, Right, Only, OwnedAt, ServedAt, Threads
<1> QED
  BY <1>1, <1>2, <1>3, <1>4 DEF IInv, Inv, Threads

-----------------------------------------------------------------------------
(* Types.                                                                  *)

\* A thread at the session keeps the types.
LEMMA StepTypes ==
  ASSUME ThreadTypes, FlagTypes, NEW t \in Threads, Step(t)
  PROVE  ThreadTypes' /\ FlagTypes'
<1>1. /\ purpose' = purpose /\ faults' \in {faults, faults \cup {"unheard"}}
      /\ registered' = registered /\ task' = task /\ net' = net /\ internet' = internet
  BY DEF Step, Close, Disconnect, Free, Reset, Start, Load, Fill, Resolve, BeginConnect,
         Poll, Subscribe
<1>7. faults' \subseteq Faults
  BY <1>1 DEF ThreadTypes, Faults
<1>2. /\ pc' = pc \/ \E where \in Where : Goto(t, where)
      /\ pc[t] # "out" /\ credentials' \in {"null", "live", "freed"}
  BY DEF ThreadTypes, Where, Step, Close, Disconnect, Free, Reset, Start, Load, Fill,
         Resolve, BeginConnect, Poll, Subscribe, Fail, Return
<1>3. pc' \in [Threads -> Where] /\ \A u \in Threads \ {t} : pc'[u] = pc[u]
  BY <1>2 DEF ThreadTypes, Goto
<1>4. ThreadTypes'
  BY <1>1, <1>2, <1>3, <1>7 DEF ThreadTypes, Threads
<1>5. /\ connected' \in BOOLEAN /\ subscribed' \in BOOLEAN
      /\ client' \in {"none", "connecting", "connected"}
  BY DEF FlagTypes, Step, Close, Disconnect, Free, Reset, Start, Load, Fill, Resolve,
         BeginConnect, Poll, Subscribe
<1>6. report' = report \/ report' = (report \/ (t = "mqtt" /\ connected))
  BY DEF Step, Close, Disconnect, Free, Reset, Start, Load, Fill, Resolve, BeginConnect,
         Poll, Subscribe, Fail, Return
<1> QED
  BY <1>1, <1>4, <1>5, <1>6 DEF FlagTypes

\* A thread at the session keeps the counts within their limits.
LEMMA StepCounts ==
  ASSUME Counts, NEW t \in Threads, Step(t)
  PROVE  Counts'
<1>1. counter' = counter /\ pubs' = pubs /\ changes' = changes
  BY DEF Step, Close, Disconnect, Free, Reset, Start, Load, Fill, Resolve, BeginConnect,
         Poll, Subscribe
<1>2. failures' = failures \/ Fails
  BY DEF Step, Close, Disconnect, Free, Reset, Start, Load, Fill, Resolve, BeginConnect,
         Poll, Subscribe, Fail
<1>3. failures' \in 0 .. MaxFailures
  BY <1>2, BoundsAssumption DEF Counts, Fails
<1>4. \/ tries' = tries
      \/ tries' = [tries EXCEPT ![t] = 0]
      \/ tries' = [tries EXCEPT ![t] = @ + 1]
           /\ (tries[t] + 1 < Tries \/ tries[t] + 1 < Polls)
  BY DEF Step, Close, Disconnect, Free, Reset, Start, Load, Fill, Resolve, BeginConnect,
         Poll, Subscribe, Fail
<1>5. tries' \in [Threads -> Nat] /\ \A u \in Threads : tries'[u] < Tries + Polls
  BY <1>4, LimitsAssumption DEF Counts
<1> QED
  BY <1>1, <1>3, <1>5 DEF Counts

\* A thread that begins with the session keeps its types and counts.
LEMMA EnterTypes ==
  ASSUME ThreadTypes, Counts, NEW t \in Threads, Enter(t), purpose' \in Purpose,
         t = "mqtt" => purpose' = purpose,
         t = "app" => purpose' \notin {"none", "share", "accepted"},
         credentials' = credentials
  PROVE  /\ ThreadTypes'
         /\ tries' \in [Threads -> Nat] /\ \A u \in Threads : tries'[u] < Tries + Polls
<1>1. /\ pc' \in [Threads -> Where]
      /\ t = "mqtt" => pc'["app"] = pc["app"]
  BY DEF Enter, Goto, ThreadTypes, Where, Threads
<1>2. faults' \subseteq Faults
  BY DEF Enter, ThreadTypes, Faults
<1>3. tries' \in [Threads -> Nat] /\ \A u \in Threads : tries'[u] < Tries + Polls
  BY LimitsAssumption DEF Enter, Counts
<1> QED
  BY <1>1, <1>2, <1>3 DEF ThreadTypes, Threads

\* casa_app keeps the types and the counts.
LEMMA AppTypes ==
  ASSUME ThreadTypes, FlagTypes, Counts, App
  PROVE  ThreadTypes' /\ FlagTypes' /\ Counts'
<1> USE DEF Threads
<1>1. CASE AppAttempt \/ AppFailed \/ AppWipe
  <2>1. Enter("app") /\ purpose' \in {"start", "fail", "wipe"} /\ credentials' = credentials
    BY <1>1 DEF AppAttempt, AppFailed, AppWipe, Begin
  <2>2. /\ ThreadTypes'
        /\ tries' \in [Threads -> Nat] /\ \A u \in Threads : tries'[u] < Tries + Polls
    BY <2>1, EnterTypes DEF Purpose
  <2>3. FlagTypes'
    BY <1>1 DEF AppAttempt, AppFailed, AppWipe, FlagTypes
  <2>4. counter' = counter /\ pubs' = pubs /\ failures' = failures
        /\ (changes' = changes \/ Changes)
    BY <1>1 DEF AppAttempt, AppFailed, AppWipe
  <2>5. changes' \in 0 .. MaxChanges
    BY <2>4, BoundsAssumption DEF Changes, Counts
  <2> QED
    BY <2>2, <2>3, <2>4, <2>5 DEF Counts
<1>2. CASE AppCreate
  <2>1. ThreadTypes'
    BY <1>2 DEF AppCreate, ThreadTypes, Goto, Where, Purpose, Faults
  <2>2. FlagTypes'
    BY <1>2 DEF AppCreate, FlagTypes
  <2>3. /\ tries' = tries /\ counter' = counter /\ failures' = failures /\ changes' = changes
        /\ pubs' = 0 \/ pubs' = pubs
    BY <1>2 DEF AppCreate
  <2> QED
    BY <2>1, <2>2, <2>3, LimitsAssumption DEF Counts
<1>3. CASE AppAccepted
  BY <1>3 DEF AppAccepted, ThreadTypes, FlagTypes, Counts, Purpose
<1>4. CASE AppLeave
  <2>1. ThreadTypes'
    BY <1>4 DEF AppLeave, ThreadTypes, Goto, Where, Purpose, Faults
  <2>2. FlagTypes'
    BY <1>4 DEF AppLeave, FlagTypes
  <2> QED
    BY <1>4, <2>1, <2>2 DEF AppLeave, Counts
<1> QED
  BY <1>1, <1>2, <1>3, <1>4 DEF App

\* The mqtt thread keeps the types and the counts.
LEMMA MqttTypes ==
  ASSUME ThreadTypes, FlagTypes, Counts, MqttThread
  PROVE  ThreadTypes' /\ FlagTypes' /\ Counts'
<1>1. CASE MqttReconnect
  <2>1. Enter("mqtt") /\ purpose' = purpose /\ credentials' = credentials
    BY <1>1 DEF MqttReconnect
  <2>2. /\ ThreadTypes'
        /\ tries' \in [Threads -> Nat] /\ \A u \in Threads : tries'[u] < Tries + Polls
    BY <2>1, EnterTypes DEF Threads, ThreadTypes
  <2> QED
    BY <1>1, <2>2 DEF MqttReconnect, FlagTypes, Counts
<1>2. CASE MqttReport
  <2>1. /\ UNCHANGED <<registered, task, callers, credentials, session, network, faults,
                       bounds>>
        /\ \/ counter' = 0 /\ Repeated(pubs + 1)
           \/ counter' = (counter + 1) % Wrap /\ Repeated(pubs)
    BY <1>2 DEF MqttReport
  <2>2. counter' \in 0 .. Wrap - 1
    BY <2>1, LimitsAssumption DEF Counts
  <2>3. pubs' \in 0 .. Reports - 1 /\ (report' = FALSE \/ report' = report)
    BY <2>1, LimitsAssumption DEF Counts, Repeated
  <2>4. ThreadTypes' /\ FlagTypes'
    BY <2>1, <2>3 DEF ThreadTypes, FlagTypes
  <2> QED
    BY <2>1, <2>2, <2>3, <2>4 DEF Counts
<1>3. CASE MqttOnlineResp
  BY <1>3 DEF MqttOnlineResp, ThreadTypes, FlagTypes, Counts
<1>4. CASE MqttCloudReg
  <2>1. ThreadTypes' /\ FlagTypes'
    BY <1>4 DEF MqttCloudReg, ThreadTypes, FlagTypes, Purpose
  <2> QED
    BY <1>4, <2>1 DEF MqttCloudReg, Counts
<1> QED
  BY <1>1, <1>2, <1>3, <1>4 DEF MqttThread

\* The environment keeps the types and the counts.
LEMMA EnvironmentTypes ==
  ASSUME ThreadTypes, FlagTypes, Counts, Environment
  PROVE  ThreadTypes' /\ FlagTypes' /\ Counts'
<1>1. /\ purpose' = purpose /\ pc' = pc /\ tries' = tries /\ credentials' = credentials
      /\ registered' = registered /\ task' = task
      /\ report' = report /\ counter' = counter /\ pubs' = pubs
  BY DEF Environment, OnConnected, OnDisconnected, NetLost, NetBack, Monitor
<1>2. faults' \subseteq Faults
  BY DEF Environment, OnConnected, OnDisconnected, NetLost, NetBack, Monitor, ThreadTypes,
         Faults
<1>3. /\ failures' = failures \/ (failures < MaxFailures /\ failures' = failures + 1)
      /\ changes' = changes \/ Changes
  BY DEF Environment, OnConnected, OnDisconnected, NetLost, NetBack, Monitor, Fails
<1>4. failures' \in 0 .. MaxFailures /\ changes' \in 0 .. MaxChanges
  BY <1>3, BoundsAssumption DEF Counts, Changes
<1>5. /\ connected' \in BOOLEAN /\ client' \in {"none", "connecting", "connected"}
      /\ subscribed' \in BOOLEAN /\ net' \in BOOLEAN /\ internet' \in BOOLEAN
  BY DEF Environment, OnConnected, OnDisconnected, NetLost, NetBack, Monitor, FlagTypes
<1> QED
  BY <1>1, <1>2, <1>4, <1>5 DEF ThreadTypes, FlagTypes, Counts

-----------------------------------------------------------------------------
(* The session.                                                            *)

\* When one thread is at the session and the other is out, the first is the one
\* that matters.
LEMMA TheOne ==
  ASSUME Clean, Inv, ThreadTypes, NEW t \in Threads, pc[t] # "out"
  PROVE  Right(t)
<1>1. PICK u \in Threads : Right(u)
  BY DEF Inv
<1>2. u = t
  BY <1>1 DEF Right, Only
<1> QED
  BY <1>1, <1>2

\* A thread that begins with the session makes it right, or is not alone.
LEMMA EnterRight ==
  ASSUME Inv, ThreadTypes, NEW t \in Threads, Enter(t), pc[t] \in {"out", "failed"},
         credentials' = credentials
  PROVE  Inv'
<1> SUFFICES ASSUME Clean' PROVE Right(t)'
  BY DEF Inv
<1>1. \A u \in Threads \ {t} : pc[u] = "out"
  <2> SUFFICES ASSUME \E u \in Threads \ {t} : pc[u] # "out" PROVE FALSE
    OBVIOUS
  <2>1. "overlap" \in faults'
    BY DEF Enter
  <2> QED
    BY <2>1 DEF Clean
<1>2. Only(t)' /\ pc'[t] = "close"
  BY <1>1 DEF Enter, Goto, Only, ThreadTypes
<1>3. credentials # "freed"
  <2> SUFFICES ASSUME credentials = "freed" PROVE FALSE
    OBVIOUS
  <2>1. faults' = faults
    BY <1>1 DEF Enter
  <2>2. PICK u \in Threads : Right(u)
    BY <2>1 DEF Clean, Inv
  <2>3. pc[u] = "reset"
    BY <2>2 DEF Right, OwnedAt
  <2> QED
    BY <2>3, <1>1
<1> QED
  BY <1>2, <1>3 DEF Right, OwnedAt, ServedAt

\* Each step of a thread at the session leads to a place the session is right for.
LEMMA StepRight ==
  ASSUME Inv, ThreadTypes, FlagTypes, NEW t \in Threads, Step(t)
  PROVE  Inv'
<1> SUFFICES ASSUME Clean' PROVE Right(t)'
  BY DEF Inv
<1>1. faults' \in {faults, faults \cup {"unheard"}} /\ pc[t] # "out"
  BY DEF Step, Close, Disconnect, Free, Reset, Start, Load, Fill, Resolve, BeginConnect,
         Poll, Subscribe
<1>d. faults' = {} => faults = {}
  BY <1>1
<1>2. Right(t)
  BY <1>1, TheOne DEF Clean
<1>a. Only(t)'
  <2>1. \A u \in Threads \ {t} : pc'[u] = pc[u]
    BY DEF Step, Close, Disconnect, Free, Reset, Start, Load, Fill, Resolve, BeginConnect,
           Poll, Subscribe, Fail, Return, Goto, ThreadTypes
  <2> QED
    BY <1>2, <2>1 DEF Right, Only
<1>b. OwnedAt(pc[t]) /\ (faults = {} => ServedAt(pc[t]))
  BY <1>2 DEF Right
<1>c. SUFFICES OwnedAt(pc[t])' /\ (faults' = {} => ServedAt(pc[t])')
  BY <1>a DEF Right
<1>3. CASE Disconnect(t)
  <2>1. pc'[t] = IF credentials = "null" THEN "reset" ELSE "free"
    BY <1>3 DEF Disconnect, Goto, ThreadTypes
  <2> QED
    BY <1>b, <1>d, <1>3, <2>1 DEF Disconnect, OwnedAt, ServedAt, ThreadTypes, FlagTypes
<1>4. CASE Free(t)
  <2>1. credentials = "live" /\ pc'[t] = "reset"
    BY <1>b, <1>d, <1>4 DEF Free, Goto, ThreadTypes, OwnedAt
  <2> QED
    BY <1>b, <1>d, <1>4, <2>1 DEF Free, OwnedAt, ServedAt
<1>5. CASE Reset(t)
  <2>1. pc'[t] \in {"leave", "load"}
    BY <1>5 DEF Reset, Goto, ThreadTypes
  <2> QED
    BY <1>b, <1>d, <1>5, <2>1 DEF Reset, OwnedAt, ServedAt
<1>6. CASE Load(t)
  <2>1. \/ credentials' = credentials /\ pc'[t] \in {"failed", "out"}
        \/ credentials' = "live" /\ pc'[t] = "fill"
    BY <1>6 DEF Load, Fail, Return, Goto, ThreadTypes
  <2> QED
    BY <1>b, <1>d, <1>6, <2>1 DEF Load, OwnedAt, ServedAt
<1>7. CASE Fill(t)
  <2>1. /\ credentials = "live"
        /\ \/ credentials' = "null" /\ pc'[t] \in {"failed", "out"}
           \/ credentials' = "live" /\ pc'[t] = "dns"
    BY <1>b, <1>d, <1>7 DEF Fill, OwnedAt, Return, Goto, ThreadTypes
  <2> QED
    BY <1>b, <1>d, <1>7, <2>1 DEF Fill, OwnedAt, ServedAt
<1>8. CASE Resolve(t)
  <2>1. pc'[t] \in {"dns", "connect", "failed", "out"}
    BY <1>8 DEF Resolve, Return, Goto, ThreadTypes
  <2> QED
    BY <1>b, <1>d, <1>8, <2>1 DEF Resolve, OwnedAt, ServedAt
<1>9. CASE BeginConnect(t)
  <2>1. pc'[t] \in {"poll", "failed", "out"}
    BY <1>9 DEF BeginConnect, Return, Goto, ThreadTypes
  <2> QED
    BY <1>b, <1>d, <1>9, <2>1 DEF BeginConnect, OwnedAt, ServedAt
<1>10. CASE Poll(t)
  <2>1. \/ connected /\ pc'[t] = "subscribe"
        \/ ~connected /\ pc'[t] \in {"poll", "failed", "out"}
    BY <1>10 DEF Poll, Return, Goto, ThreadTypes
  <2> QED
    BY <1>b, <1>d, <1>10, <2>1 DEF Poll, OwnedAt, ServedAt
<1>11. CASE Subscribe(t)
  <2>1. pc'[t] \in {"create", "out"}
    BY <1>11 DEF Subscribe, Return, Goto, ThreadTypes
  <2>2. subscribed' = (subscribed \/ client = "connected") \/ faults' # {}
    BY <1>11 DEF Subscribe
  <2> QED
    BY <1>b, <1>d, <1>11, <2>1, <2>2 DEF Subscribe, OwnedAt, ServedAt
<1> QED
  BY <1>3, <1>4, <1>5, <1>6, <1>7, <1>8, <1>9, <1>10, <1>11 DEF Step, Close, Start

\* Both threads are out, or terminated, and the session is right for that.
LEMMA AllOut ==
  ASSUME Inv, ThreadTypes, pc["app"] \in {"create", "leave"}, Clean, pc["mqtt"] = "out",
         pc' \in {[t \in Threads |-> "out"], [pc EXCEPT !["app"] = "failed"],
                 [pc EXCEPT !["app"] = "out"]},
         credentials' = credentials, client' = client, subscribed' = subscribed,
         faults' = faults, connected' => connected /\ pc["app"] = "create"
  PROVE  Inv'
<1>1. Right("app")
  BY TheOne DEF Threads
<1>2. Only("app")' /\ pc'["app"] \in {"out", "failed"}
  BY DEF Only, Threads, ThreadTypes
<1>3. OwnedAt(pc["app"])'
  BY <1>1, <1>2 DEF Right, OwnedAt
<1>4. faults = {} => ServedAt(pc["app"])'
  BY <1>1, <1>2 DEF Right, ServedAt
<1> QED
  BY <1>2, <1>3, <1>4 DEF Inv, Right, Threads

\* casa_app keeps the session right.
LEMMA AppRight ==
  ASSUME Inv, ThreadTypes, FlagTypes, App
  PROVE  Inv'
<1>1. CASE AppAttempt \/ AppFailed \/ AppWipe
  <2>1. Enter("app") /\ pc["app"] \in {"out", "failed"} /\ credentials' = credentials
    BY <1>1 DEF AppAttempt, AppFailed, AppWipe, Begin, ThreadTypes
  <2> QED
    BY <2>1, EnterRight DEF Threads
<1>2. CASE AppCreate
  <2> SUFFICES ASSUME Clean' PROVE Inv'
    BY DEF Inv
  <2>1. faults' = faults
    BY <1>2 DEF AppCreate
  <2>2. Clean /\ pc["app"] = "create"
    BY <1>2, <2>1 DEF Clean, AppCreate
  <2>3. pc["mqtt"] = "out"
    BY <2>2, TheOne DEF Right, Only, Threads
  <2>4. /\ credentials' = credentials /\ client' = client /\ subscribed' = subscribed
        /\ connected' = connected /\ faults' = faults
        /\ pc' \in {[t \in Threads |-> "out"], [pc EXCEPT !["app"] = "failed"]}
    BY <1>2, <2>3 DEF AppCreate, Goto
  <2> QED
    BY <2>2, <2>3, <2>4, AllOut
<1>3. CASE AppAccepted
  BY <1>3 DEF AppAccepted, Inv, Clean, Right, Only, OwnedAt, ServedAt
<1>4. CASE AppLeave
  <2> SUFFICES ASSUME Clean' PROVE Inv'
    BY DEF Inv
  <2>1. faults' = faults
    BY <1>4 DEF AppLeave
  <2>2. Clean /\ pc["app"] = "leave"
    BY <1>4, <2>1 DEF Clean, AppLeave
  <2>3. pc["mqtt"] = "out"
    BY <2>2, TheOne DEF Right, Only, Threads
  <2>4. /\ credentials' = credentials /\ client' = client /\ subscribed' = subscribed
        /\ connected' = FALSE /\ faults' = faults
        /\ pc' \in {[t \in Threads |-> "out"], [pc EXCEPT !["app"] = "out"]}
    BY <1>4, <2>3 DEF AppLeave, Goto
  <2> QED
    BY <2>2, <2>3, <2>4, AllOut
<1> QED
  BY <1>1, <1>2, <1>3, <1>4 DEF App

\* The mqtt thread keeps the session right.
LEMMA MqttRight ==
  ASSUME Inv, ThreadTypes, FlagTypes, MqttThread
  PROVE  Inv'
<1>1. CASE MqttReconnect
  BY <1>1, EnterRight DEF MqttReconnect, Looping, Threads
<1>2. CASE MqttReport \/ MqttOnlineResp \/ MqttCloudReg
  <2>1. UNCHANGED <<pc, credentials, connected, client, subscribed, faults>>
    BY <1>2 DEF MqttReport, MqttOnlineResp, MqttCloudReg
  <2> QED
    BY <2>1 DEF Inv, Clean, Right, Only, OwnedAt, ServedAt
<1> QED
  BY <1>1, <1>2 DEF MqttThread

\* The environment keeps the session right: a connection that comes late is not
\* taken for a clean one.
LEMMA EnvironmentRight ==
  ASSUME Inv, ThreadTypes, FlagTypes, Environment
  PROVE  Inv'
<1>1. /\ UNCHANGED <<pc, credentials>> /\ faults \subseteq faults'
  BY DEF Environment, OnConnected, OnDisconnected, NetLost, NetBack, Monitor
<1> SUFFICES ASSUME Clean' PROVE Inv'
  BY DEF Inv
<1>2. PICK t \in Threads : Right(t)
  BY <1>1 DEF Clean, Inv
<1>3. Only(t)' /\ OwnedAt(pc[t])'
  BY <1>1, <1>2 DEF Right, Only, OwnedAt
<1>4. ASSUME faults' = {} PROVE ServedAt(pc[t])'
  <2>1. faults = {} /\ ServedAt(pc[t])
    BY <1>1, <1>2, <1>4 DEF Right
  <2>2. CASE OnConnected
    <3>1. InTime /\ client' = "connected"
      BY <2>2, <1>4 DEF OnConnected
    <3>2. pc[t] = "poll"
      BY <3>1, <1>2 DEF InTime, Right, Only
    <3> QED
      BY <3>1, <3>2, <1>1 DEF ServedAt
  <2>3. CASE OnDisconnected
    BY <2>3, <2>1, <1>1 DEF OnDisconnected, ServedAt
  <2>4. CASE NetLost \/ NetBack \/ Monitor
    <3>1. client' = client /\ subscribed' = subscribed /\ (connected' => connected)
      BY <2>4 DEF NetLost, NetBack, Monitor, FlagTypes
    <3> QED
      BY <3>1, <2>1, <1>1 DEF ServedAt
  <2> QED
    BY <2>2, <2>3, <2>4 DEF Environment
<1> QED
  BY <1>3, <1>4 DEF Inv, Right

-----------------------------------------------------------------------------

\* Every step keeps the inductive invariant.
LEMMA NextIInv == IInv /\ [Next]_vars => IInv'
<1> SUFFICES ASSUME IInv, [Next]_vars PROVE IInv'
  OBVIOUS
<1> USE DEF IInv
<1>1. ASSUME NEW t \in Threads, Step(t) PROVE IInv'
  BY <1>1, StepTypes, StepCounts, StepRight
<1>2. CASE App
  BY <1>2, AppTypes, AppRight
<1>3. CASE MqttThread
  BY <1>3, MqttTypes, MqttRight
<1>4. CASE Environment
  BY <1>4, EnvironmentTypes, EnvironmentRight
<1>5. CASE UNCHANGED vars
  BY <1>5 DEF ThreadTypes, FlagTypes, Counts, Inv, Clean, Right, Only, OwnedAt, ServedAt
<1> QED
  BY <1>1, <1>2, <1>3, <1>4, <1>5 DEF Next

\* The inductive invariant holds of every behaviour.
LEMMA AlwaysIInv == Spec => []IInv
<1> QED
  BY InitIInv, NextIInv, PTL DEF Spec

\* Every variable has its type, and no count passes its limit (mqtt_handler.c:341,
\* 404, 497).
THEOREM TypeCorrect == Spec => []TypeOK
<1>1. IInv => TypeOK
  BY DEF IInv, ThreadTypes, FlagTypes, Counts, TypeOK, Where, Purpose
<1> QED
  BY <1>1, AlwaysIInv, PTL

\* Whichever calls fail, the credentials are freed once and used only while they
\* are there, as long as one thread at a time is at the session
\* (mqtt_handler.c:247, 299, 320).
THEOREM CredentialsAreSafe == Spec => []CredentialsSafe
<1>1. IInv => CredentialsSafe
  <2> SUFFICES ASSUME IInv, Crashed, Clean PROVE FALSE
    BY DEF CredentialsSafe, Clean
  <2>1. PICK t \in Threads : Right(t)
    BY DEF IInv, Inv
  <2> QED
    BY <2>1 DEF Crashed, Right, Only, OwnedAt
<1> QED
  BY <1>1, AlwaysIInv, PTL

\* A device that takes itself for connected is subscribed (mqtt_handler.c:425),
\* unless the connection came late, the subscription failed, or two threads met at the
\* session.
THEOREM ConnectedIsServed == Spec => []ServedWhenConnected
<1>1. IInv => ServedWhenConnected
  <2> SUFFICES ASSUME IInv, connected, faults = {}, \A t \in Threads : pc[t] = "out"
               PROVE subscribed
    BY DEF ServedWhenConnected
  <2>1. PICK t \in Threads : Right(t)
    BY DEF IInv, Inv, Clean
  <2> QED
    BY <2>1 DEF Right, ServedAt
<1> QED
  BY <1>1, AlwaysIInv, PTL

HIDE DEF vars, callers, session, network, reporting, bounds

-----------------------------------------------------------------------------
(* WifiLink.                                                               *)

\* The types of what is not counted: the radio and the flags,
RadioTypes ==
  /\ iface \in BOOLEAN /\ link \in Addresses \cup {NoAddress}
  /\ pending \in BOOLEAN /\ ap \in BOOLEAN
  /\ is_connected \in BOOLEAN /\ ip_str \in Addresses \cup {NoAddress}
  /\ wifi_connected \in BOOLEAN /\ internet_status \in BOOLEAN /\ mqtt \in BOOLEAN

\* the threads, and what is noted of them.
TaskTypes ==
  /\ caller \in {"idle", "create", "up", "check", "delay", "terminate"}
  /\ net_up_triggered \in BOOLEAN /\ verdict \in {"none", "true", "false"}
  /\ monitor \in {"none", "sample", "mark", "details", "probe", "lost", "cleared",
                  "down", "unconnected", "offline", "rejoin", "sleep"}
  /\ profile \in Addresses \cup {NoAddress} /\ joined \in BOOLEAN
  /\ known \in Addresses \cup {NoAddress}
  /\ leftover \in BOOLEAN /\ renewed \in BOOLEAN /\ cut \in BOOLEAN

Types == RadioTypes /\ TaskTypes

\* What is counted stays within its bound: wifi_sta() tries again only below its
\* limit.
WifiCounts ==
  /\ retry_count \in 0 .. MaxRetries
  /\ caller \in {"up", "check"} => retry_count < MaxRetries
  /\ calls \in 0 .. MaxCalls /\ losses \in 0 .. MaxLosses

\* What the monitor has found out about the link, on its way through the loop: an
\* address is told as long as a link is called connected, but while its details
\* are cleared, and the internet was found by way of a link.
Found ==
  /\ monitor = "details" => profile # NoAddress
  /\ monitor = "probe" => wifi_connected
  /\ (wifi_connected /\ ~cut /\ monitor \notin {"cleared", "down"}) => ip_str # NoAddress
  /\ internet_status => wifi_connected
  /\ monitor = "down" => ~internet_status

\* wifi_sta(), once it has begun, notes that the link was up; whatever else says
\* that it is says so because it was, or was left by an earlier call.
Backed ==
  /\ (caller \in {"create", "up", "check", "delay"} /\ link # NoAddress) => joined
  /\ caller \in {"up", "check", "delay"} =>
       /\ profile # NoAddress => joined
       /\ is_connected => joined \/ leftover

\* Once a sample has found nothing the monitor has nothing in hand of a link, and
\* does not call it connected.
Empty ==
  monitor \in {"lost", "cleared", "down", "unconnected", "offline", "rejoin"} =>
    profile = NoAddress /\ known = NoAddress /\ ~is_connected

\* What the monitor goes by: the address of the last sample is that of the link,
\* unless another was joined since, and is the one that is told.
Current ==
  /\ (Joined /\ ~renewed /\ known # NoAddress) => known = link
  /\ (wifi_connected /\ ~cut /\ ~renewed /\ known # NoAddress) => ip_str = known
  /\ (wifi_connected /\ ~cut /\ known = NoAddress) =>
       monitor \in {"mark", "lost", "cleared", "down"}
  /\ monitor \in {"mark", "details"} => profile = known
  /\ (monitor = "sleep" /\ is_connected) => wifi_connected

WifiIInv == Types /\ WifiCounts /\ Found /\ Backed /\ Empty /\ Current

USE DEF wifiVars, radio, status, callerVars, monitorVars, history

\* The initial state satisfies the inductive invariant.
LEMMA InitWifi == WifiInit => WifiIInv
<1> SUFFICES ASSUME WifiInit PROVE WifiIInv
  OBVIOUS
<1>1. Types
  BY DEF WifiInit, Types, RadioTypes, TaskTypes
<1>2. WifiCounts
  BY RetryAssumption, WifiBoundsAssumption DEF WifiInit, WifiCounts
<1>3. Found /\ Backed /\ Empty /\ Current
  BY DEF WifiInit, Found, Backed, Empty, Current, Joined
<1> QED
  BY <1>1, <1>2, <1>3 DEF WifiIInv

\* The radio does what it does without leaving its types, and so does who notes it.
LEMMA NetUpType ==
  ASSUME Types, NetUp \/ (NetUpFailed /\ UNCHANGED <<iface, ap>>)
  PROVE  link' \in Addresses \cup {NoAddress} /\ pending' \in BOOLEAN /\ UNCHANGED <<iface, ap>>
  BY DEF Types, RadioTypes, NetUp, NetUpFailed, Joined
LEMMA NotedType ==
  ASSUME Types, Noted
  PROVE  joined' \in BOOLEAN /\ renewed' \in BOOLEAN /\ UNCHANGED <<leftover, known, cut>>
  BY DEF Noted

\* So does who terminates the monitor.
LEMMA TerminatedType ==
  ASSUME Types, Terminated
  PROVE  cut' \in BOOLEAN /\ renewed' \in BOOLEAN /\ known' \in Addresses \cup {NoAddress}
<1>1. known' \in Addresses \cup {NoAddress}
  BY DEF Types, RadioTypes, Terminated
<1> QED
  BY <1>1 DEF Terminated

\* Every step keeps the types of the radio and of the flags,
LEMMA RadioTypesStep ==
  ASSUME Types, WifiNext
  PROVE  RadioTypes'
<1>1. CASE JoinCompletes \/ Loss \/ ApBack
  <2>1. link' \in Addresses \cup {NoAddress} /\ pending' \in BOOLEAN /\ ap' \in BOOLEAN
    BY <1>1 DEF Types, RadioTypes, JoinCompletes, Loss, ApBack
  <2>2. UNCHANGED <<iface, is_connected, ip_str, wifi_connected, internet_status, mqtt>>
    BY <1>1 DEF JoinCompletes, Loss, ApBack
  <2> QED
    BY <2>1, <2>2 DEF Types, RadioTypes
<1>2. CASE SessionChange
  BY <1>2 DEF Types, RadioTypes, SessionChange
<1>3. CASE Call \/ CreateMonitor \/ CheckSuccess \/ CheckAgain \/ Delay
  <2>1. iface' \in {iface, TRUE} /\ UNCHANGED <<link, pending, ap, status, mqtt>>
    BY <1>3 DEF Call, CreateMonitor, CheckSuccess, CheckAgain, Delay
  <2> QED
    BY <2>1 DEF Types, RadioTypes
<1>4. CASE TriggerNetUp \/ MonitorRejoin
  <2>1. NetUp \/ (NetUpFailed /\ UNCHANGED <<iface, ap>>) \/ UNCHANGED radio
    BY <1>4 DEF TriggerNetUp, MonitorRejoin
  <2>2. /\ link' \in Addresses \cup {NoAddress} /\ pending' \in BOOLEAN
        /\ UNCHANGED <<iface, ap>>
    BY <2>1, NetUpType DEF Types, RadioTypes
  <2>3. UNCHANGED <<status, mqtt>>
    BY <1>4 DEF TriggerNetUp, MonitorRejoin
  <2> QED
    BY <2>2, <2>3 DEF Types, RadioTypes
<1>5. CASE TerminateMonitor
  BY <1>5 DEF Types, RadioTypes, TerminateMonitor
<1>6. CASE CloseFailed \/ CloseWipe
  <2>1. /\ mqtt' = FALSE /\ iface' = FALSE /\ link' = NoAddress /\ pending' = FALSE
        /\ ap' = ap /\ UNCHANGED status
    BY <1>6 DEF CloseFailed, CloseWipe, Closed
  <2> QED
    BY <2>1 DEF Types, RadioTypes
<1>7. CASE MonitorSample \/ MonitorWake
  BY <1>7 DEF Types, RadioTypes, MonitorSample, MonitorWake
<1>8. CASE MonitorMark
  BY <1>8 DEF Types, RadioTypes, MonitorMark
<1>9. CASE MonitorDetails \/ MonitorLost
  <2>1. /\ ip_str' \in {ip_str, profile, NoAddress} /\ wifi_connected' \in {wifi_connected, TRUE}
        /\ UNCHANGED <<radio, is_connected, internet_status, mqtt>>
    BY <1>9 DEF MonitorDetails, MonitorLost
  <2> QED
    BY <2>1 DEF Types, RadioTypes, TaskTypes
<1>10. CASE MonitorProbe
  <2>1. internet_status' \in BOOLEAN
    BY <1>10 DEF MonitorProbe, Joined
  <2> QED
    BY <1>10, <2>1 DEF Types, RadioTypes, MonitorProbe
<1>11. CASE MonitorCleared
  BY <1>11 DEF Types, RadioTypes, MonitorCleared
<1>12. CASE MonitorDown
  BY <1>12 DEF Types, RadioTypes, MonitorDown
<1>13. CASE MonitorEndSession
  BY <1>13 DEF Types, RadioTypes, MonitorEndSession
<1>14. CASE MonitorOffline
  BY <1>14 DEF Types, RadioTypes, MonitorOffline
<1> QED
  BY <1>1, <1>2, <1>3, <1>4, <1>5, <1>6, <1>7, <1>8, <1>9, <1>10, <1>11, <1>12, <1>13, <1>14
  DEF WifiNext, CallerStep, MonitorStep

\* and those of the threads.
LEMMA TaskTypesStep ==
  ASSUME Types, WifiNext
  PROVE  TaskTypes'
<1>1. CASE JoinCompletes
  <2>1. UNCHANGED <<callerVars, monitorVars>>
    BY <1>1 DEF JoinCompletes
  <2> QED
    BY <1>1, <2>1, NotedType DEF Types, TaskTypes, JoinCompletes
<1>2. CASE Loss \/ ApBack \/ SessionChange
  <2>1. UNCHANGED <<callerVars, monitorVars, joined, history>>
    BY <1>2 DEF Loss, ApBack, SessionChange
  <2> QED
    BY <2>1 DEF Types, TaskTypes
<1>3. CASE Call
  BY <1>3 DEF Types, TaskTypes, Call, Joined
<1>4. CASE CreateMonitor
  BY <1>4, TerminatedType DEF Types, TaskTypes, CreateMonitor
<1>5. CASE TerminateMonitor
  BY <1>5, TerminatedType DEF Types, TaskTypes, TerminateMonitor
<1>6. CASE TriggerNetUp
  <2>1. net_up_triggered' \in BOOLEAN
    BY <1>6 DEF Types, TaskTypes, TriggerNetUp
  <2> QED
    BY <1>6, <2>1, NotedType DEF Types, TaskTypes, TriggerNetUp
<1>7. CASE CheckSuccess \/ CheckAgain \/ Delay \/ CloseFailed \/ CloseWipe
  <2>1. /\ caller' \in {caller, "idle", "delay", "up", "terminate"}
        /\ verdict' \in {verdict, "none", "true", "false"}
        /\ UNCHANGED <<net_up_triggered, monitorVars, joined, history>>
    BY <1>7 DEF CheckSuccess, CheckAgain, Delay, CloseFailed, CloseWipe
  <2> QED
    BY <2>1 DEF Types, TaskTypes
<1>8. CASE MonitorSample
  <2>1. profile' \in Addresses \cup {NoAddress} /\ renewed' \in BOOLEAN
    BY <1>8 DEF Types, RadioTypes, MonitorSample
  <2> QED
    BY <1>8, <2>1 DEF Types, TaskTypes, MonitorSample
<1>9. CASE MonitorMark
  <2>1. monitor' \in {"details", "lost"} /\ leftover' = FALSE
    BY <1>9 DEF MonitorMark
  <2> QED
    BY <1>9, <2>1 DEF Types, TaskTypes, MonitorMark
<1>10. CASE MonitorDetails \/ MonitorDown
  <2>1. /\ monitor' \in {"probe", "unconnected"}
        /\ UNCHANGED <<callerVars, profile, joined, leftover, known, renewed>>
    BY <1>10 DEF MonitorDetails, MonitorDown
  <2>2. cut' \in BOOLEAN
    BY <1>10 DEF Types, TaskTypes, MonitorDetails, MonitorDown
  <2> QED
    BY <2>1, <2>2 DEF Types, TaskTypes
<1>11. CASE MonitorProbe \/ MonitorLost \/ MonitorCleared \/ MonitorEndSession
            \/ MonitorOffline \/ MonitorWake
  <2>1. /\ monitor' \in {"sleep", "cleared", "offline", "down", "rejoin", "sample"}
        /\ profile' \in {profile, NoAddress}
        /\ UNCHANGED <<callerVars, joined, history>>
    BY <1>11 DEF MonitorProbe, MonitorLost, MonitorCleared, MonitorEndSession,
                 MonitorOffline, MonitorWake
  <2> QED
    BY <2>1 DEF Types, TaskTypes
<1>12. CASE MonitorRejoin
  BY <1>12, NotedType DEF Types, TaskTypes, MonitorRejoin
<1> QED
  BY <1>1, <1>2, <1>3, <1>4, <1>5, <1>6, <1>7, <1>8, <1>9, <1>10, <1>11, <1>12
  DEF WifiNext, CallerStep, MonitorStep

\* Nothing is counted beyond its bound.
LEMMA WifiCountsStep ==
  ASSUME WifiCounts, WifiNext
  PROVE  WifiCounts'
<1> USE RetryAssumption, WifiBoundsAssumption DEF WifiCounts
<1>1. CASE Loss
  BY <1>1 DEF Loss
<1>2. CASE Call
  BY <1>2 DEF Call
<1>3. CASE CreateMonitor \/ CheckAgain
  BY <1>3 DEF CreateMonitor, CheckAgain
<1>4. CASE TriggerNetUp \/ CheckSuccess \/ Delay \/ TerminateMonitor
  BY <1>4 DEF TriggerNetUp, CheckSuccess, Delay, TerminateMonitor
<1>5. CASE JoinCompletes \/ ApBack \/ SessionChange \/ CloseFailed \/ CloseWipe
  BY <1>5 DEF JoinCompletes, ApBack, SessionChange, CloseFailed, CloseWipe
<1>6. CASE MonitorStep
  <2>1. UNCHANGED <<retry_count, caller, calls>>
        /\ (losses' = losses \/ (losses < MaxLosses /\ losses' = losses + 1))
    BY <1>6 DEF MonitorStep, MonitorSample, MonitorMark, MonitorDetails, MonitorProbe,
                MonitorLost, MonitorCleared, MonitorDown, MonitorEndSession, MonitorOffline,
                MonitorRejoin, MonitorWake
  <2> QED
    BY <2>1
<1> QED
  BY <1>1, <1>2, <1>3, <1>4, <1>5, <1>6 DEF WifiNext, CallerStep

\* Who changes what is found: the monitor, and whoever terminates it.
LEMMA FoundStep ==
  ASSUME WifiIInv, WifiNext
  PROVE  Found'
<1> USE DEF WifiIInv, Types, RadioTypes, TaskTypes, Found
<1>1. CASE JoinCompletes \/ Loss \/ ApBack \/ SessionChange
  BY <1>1 DEF JoinCompletes, Loss, ApBack, SessionChange, Noted
<1>2. CASE Call \/ CloseFailed \/ CloseWipe
  BY <1>2 DEF Call, CloseFailed, CloseWipe
<1>3. CASE CreateMonitor \/ TerminateMonitor
  BY <1>3 DEF CreateMonitor, TerminateMonitor, Terminated
<1>4. CASE TriggerNetUp \/ CheckSuccess \/ CheckAgain \/ Delay
  BY <1>4 DEF TriggerNetUp, CheckSuccess, CheckAgain, Delay, Noted
<1>5. CASE MonitorSample \/ MonitorRejoin \/ MonitorWake
  BY <1>5 DEF MonitorSample, MonitorRejoin, MonitorWake, MonitorRuns, Noted
<1>6. CASE MonitorMark
  BY <1>6 DEF MonitorMark, MonitorRuns
<1>7. CASE MonitorDetails
  BY <1>7 DEF MonitorDetails, MonitorRuns
<1>8. CASE MonitorProbe
  BY <1>8 DEF MonitorProbe, MonitorRuns
<1>9. CASE MonitorLost \/ MonitorCleared \/ MonitorDown
  BY <1>9 DEF MonitorLost, MonitorCleared, MonitorDown, MonitorRuns
<1>10. CASE MonitorEndSession \/ MonitorOffline
  BY <1>10 DEF MonitorEndSession, MonitorOffline, MonitorRuns
<1> QED
  BY <1>1, <1>2, <1>3, <1>4, <1>5, <1>6, <1>7, <1>8, <1>9, <1>10
  DEF WifiNext, CallerStep, MonitorStep

\* Whoever joins the link notes it; only another call forgets it.
LEMMA BackedStep ==
  ASSUME WifiIInv, WifiNext
  PROVE  Backed'
<1> USE DEF WifiIInv, Types, RadioTypes, TaskTypes, Backed, Joined, Noted
<1>1. CASE JoinCompletes \/ Loss \/ ApBack \/ SessionChange
  BY <1>1 DEF JoinCompletes, Loss, ApBack, SessionChange
<1>2. CASE Call
  BY <1>2 DEF Call
<1>3. CASE CloseFailed \/ CloseWipe
  BY <1>3 DEF CloseFailed, CloseWipe, Closed
<1>4. CASE CreateMonitor \/ CheckSuccess \/ CheckAgain \/ Delay \/ TerminateMonitor
  BY <1>4 DEF CreateMonitor, CheckSuccess, CheckAgain, Delay, TerminateMonitor
<1>5. CASE TriggerNetUp
  BY <1>5 DEF TriggerNetUp, NetUp, NetUpFailed
<1>6. CASE MonitorRejoin
  BY <1>6 DEF MonitorRejoin, NetUp, NetUpFailed
<1>7. CASE MonitorSample \/ MonitorMark
  BY <1>7 DEF MonitorSample, MonitorMark
<1>8. CASE MonitorDetails \/ MonitorProbe \/ MonitorWake \/ MonitorLost
  <2>1. /\ UNCHANGED <<radio, is_connected, callerVars, joined, leftover>>
        /\ profile' \in {profile, NoAddress}
    BY <1>8 DEF MonitorDetails, MonitorProbe, MonitorWake, MonitorLost
  <2> QED
    BY <2>1
<1>9. CASE MonitorCleared \/ MonitorDown \/ MonitorEndSession \/ MonitorOffline
  BY <1>9 DEF MonitorCleared, MonitorDown, MonitorEndSession, MonitorOffline
<1> QED
  BY <1>1, <1>2, <1>3, <1>4, <1>5, <1>6, <1>7, <1>8, <1>9
  DEF WifiNext, CallerStep, MonitorStep

\* The radio and the session: who joins with another address is noted.
LEMMA RadioCurrent ==
  ASSUME WifiIInv, JoinCompletes \/ Loss \/ ApBack \/ SessionChange
  PROVE  Empty' /\ Current'
<1> USE DEF WifiIInv, Types, RadioTypes, TaskTypes, Empty, Current, Joined
<1>1. CASE JoinCompletes
  BY <1>1 DEF JoinCompletes, Noted
<1>2. CASE Loss
  BY <1>2 DEF Loss
<1>3. CASE ApBack \/ SessionChange
  BY <1>3 DEF ApBack, SessionChange
<1> QED
  BY <1>1, <1>2, <1>3

\* casa_app: a new monitor goes by what the former one has left.
LEMMA CallerCurrent ==
  ASSUME WifiIInv, Call \/ CallerStep \/ CloseFailed \/ CloseWipe
  PROVE  Empty' /\ Current'
<1> USE DEF WifiIInv, Types, RadioTypes, TaskTypes, Empty, Current, Joined
<1>1. CASE Call
  BY <1>1 DEF Call
<1>2. CASE CreateMonitor
  BY <1>2 DEF CreateMonitor, Terminated, Found
<1>3. CASE TriggerNetUp
  BY <1>3 DEF TriggerNetUp, NetUp, NetUpFailed, Noted
<1>4. CASE CheckSuccess \/ CheckAgain \/ Delay
  BY <1>4 DEF CheckSuccess, CheckAgain, Delay
<1>5. CASE TerminateMonitor
  BY <1>5 DEF TerminateMonitor, Terminated, Found
<1>6. CASE CloseFailed
  BY <1>6 DEF CloseFailed, Closed
<1>7. CASE CloseWipe
  BY <1>7 DEF CloseWipe, Closed
<1> QED
  BY <1>1, <1>2, <1>3, <1>4, <1>5, <1>6, <1>7 DEF CallerStep

\* The monitor takes the address of the link it has sampled.
LEMMA MonitorCurrent ==
  ASSUME WifiIInv, MonitorStep
  PROVE  Empty' /\ Current'
<1> USE DEF WifiIInv, Types, RadioTypes, TaskTypes, Empty, Current, Joined, MonitorRuns
<1>1. CASE MonitorSample
  BY <1>1 DEF MonitorSample
<1>2. CASE MonitorMark
  BY <1>2 DEF MonitorMark
<1>3. CASE MonitorDetails
  BY <1>3 DEF MonitorDetails, Found
<1>4. CASE MonitorProbe
  BY <1>4 DEF MonitorProbe, Found
<1>5. CASE MonitorLost
  BY <1>5 DEF MonitorLost
<1>6. CASE MonitorCleared
  BY <1>6 DEF MonitorCleared
<1>7. CASE MonitorDown
  BY <1>7 DEF MonitorDown
<1>8. CASE MonitorEndSession \/ MonitorOffline
  BY <1>8 DEF MonitorEndSession, MonitorOffline
<1>9. CASE MonitorRejoin
  BY <1>9 DEF MonitorRejoin, NetUp, NetUpFailed, Noted
<1>10. CASE MonitorWake
  BY <1>10 DEF MonitorWake
<1> QED
  BY <1>1, <1>2, <1>3, <1>4, <1>5, <1>6, <1>7, <1>8, <1>9, <1>10 DEF MonitorStep

\* The invariant is inductive.
LEMMA NextWifi == WifiIInv /\ [WifiNext]_wifiVars => WifiIInv'
<1> SUFFICES ASSUME WifiIInv, [WifiNext]_wifiVars PROVE WifiIInv'
  OBVIOUS
<1>1. CASE WifiNext
  <2>1. Types'
    BY <1>1, RadioTypesStep, TaskTypesStep DEF WifiIInv, Types
  <2>2. Empty' /\ Current'
    BY <1>1, RadioCurrent, CallerCurrent, MonitorCurrent DEF WifiNext
  <2>3. WifiCounts' /\ Found' /\ Backed'
    BY <1>1, WifiCountsStep, FoundStep, BackedStep DEF WifiIInv
  <2> QED
    BY <2>1, <2>2, <2>3 DEF WifiIInv
<1>2. CASE UNCHANGED wifiVars
  BY <1>2 DEF WifiIInv, Types, RadioTypes, TaskTypes, WifiCounts, Found, Backed, Empty, Current, Joined
<1> QED
  BY <1>1, <1>2

\* The invariant holds in every behaviour.
LEMMA WifiInvariance == WifiSpec => []WifiIInv
  BY InitWifi, NextWifi, PTL DEF WifiSpec

\* Every variable keeps its type: wifi_sta() never counts beyond its limit, for
\* every limit.
THEOREM WifiTypeCorrect == WifiSpec => []WifiTypeOK
<1>1. WifiIInv => WifiTypeOK
  BY DEF WifiIInv, Types, RadioTypes, TaskTypes, WifiCounts, WifiTypeOK
<1> QED
  BY WifiInvariance, <1>1, PTL

\* While internet_status says that the internet was found there is an address to
\* tell (wifi.c:377-438), for every set of addresses, any number of calls and any
\* losses, but between the two steps that clear them and after a monitor that was
\* terminated while it cleared the details.
THEOREM AddressIsKnown == WifiSpec => []AddressKnownWhenOnline
<1>1. WifiIInv => AddressKnownWhenOnline
  BY DEF WifiIInv, Types, RadioTypes, TaskTypes, Found, AddressKnownWhenOnline
<1> QED
  BY WifiInvariance, <1>1, PTL

\* A success that wifi_sta() reports is that of a link it had during the call
\* (wifi.c:330), in every call and for every limit, set of addresses and any
\* losses, or was left in is_connected by an earlier call.
THEOREM VerdictHasLink == WifiSpec => VerdictIsBacked
<1>1. WifiIInv /\ [WifiNext]_wifiVars
        => [verdict' = "true" /\ verdict # "true" => joined \/ leftover]_wifiVars
  <2> SUFFICES ASSUME WifiIInv, WifiNext, verdict' = "true", verdict # "true"
               PROVE  joined \/ leftover
    OBVIOUS
  <2>1. verdict' # verdict
    OBVIOUS
  <2>2. CASE JoinCompletes \/ Loss \/ ApBack \/ SessionChange
    BY <2>1, <2>2 DEF JoinCompletes, Loss, ApBack, SessionChange
  <2>3. CASE Call \/ CloseFailed \/ CloseWipe
    BY <2>1, <2>3 DEF Call, CloseFailed, CloseWipe
  <2>4. CASE CreateMonitor \/ TriggerNetUp \/ CheckAgain \/ Delay \/ TerminateMonitor
    BY <2>1, <2>4 DEF CreateMonitor, TriggerNetUp, CheckAgain, Delay, TerminateMonitor
  <2>5. CASE MonitorStep
    BY <2>1, <2>5 DEF MonitorStep, MonitorSample, MonitorMark, MonitorDetails, MonitorProbe,
         MonitorLost, MonitorCleared, MonitorDown, MonitorEndSession, MonitorOffline,
         MonitorRejoin, MonitorWake
  <2>6. CASE CheckSuccess
    BY <2>6 DEF CheckSuccess, WifiIInv, Backed
  <2> QED
    BY <2>2, <2>3, <2>4, <2>5, <2>6 DEF WifiNext, CallerStep
<1> QED
  BY WifiInvariance, <1>1, PTL DEF WifiSpec, VerdictIsBacked

\* The address that the program tells between two samples is that of the link
\* (wifi.c:406), for every set of addresses, limit, number of calls and losses, at
\* whatever moment they fall, unless the device joined with another address unknown
\* to the monitor or a clearing was cut short.
THEOREM AddressIsTrue == WifiSpec => []AddressIsCurrent
<1>1. WifiIInv => AddressIsCurrent
  BY DEF WifiIInv, Types, RadioTypes, TaskTypes, Current, AddressIsCurrent, Joined
<1> QED
  BY WifiInvariance, <1>1, PTL
=============================================================================

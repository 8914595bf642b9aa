----------------------- MODULE EndpointControl_proofs -----------------------
(***************************************************************************)
(* Proofs about EndpointControl, for any number of endpoints, any arrays,  *)
(* any number of stimuli and power failures, in any overlap.               *)
(***************************************************************************)
EXTENDS EndpointControl, SequenceTheorems, TLAPS

\* Where each thread may be, and its loop index with it.
Places ==
  /\ pc["gpio"] \in {"idle", "fill", "update", "publish", "save", "write", "undefined"}
  /\ pc["app"] \in {"idle", "update", "publish", "save", "write", "undefined"}
  /\ pc["mqtt"] \in {"idle", "parse", "apply", "delay", "publish", "answer", "undefined"}
  /\ asked => op = "STATUS_UPDATE"
  /\ \A t \in Updaters : pc[t] = "write" => idx[t] <= N
  /\ pc["mqtt"] = "apply" => idx["mqtt"] <= dc.counter + 1
  /\ pc["mqtt"] # "apply" => idx["mqtt"] = 1

\* While the mqtt thread fills the record, whoever else uses it has it mixed.
Masters ==
  pc["mqtt"] \in {"parse", "apply"} =>
    /\ ~asked
    /\ \A t \in Updaters : pc[t] \in {"idle", "fill"} \/ t \in mixed
    /\ \A i \in 1 .. dc.counter : dc.info[i].endpoint \in Endpoints

Shape == TypeOK /\ Places /\ Masters

\* Somebody uses, or will use, the record it was filled for.
InUse == {"update", "publish", "save", "write"}
Reading ==
  asked \/ pc["mqtt"] = "delay" \/ \E t \in Updaters \ mixed : pc[t] \in InUse

\* As far as place k the record says levels the loads had, and what it says last of
\* a load is its level, unless a click has just changed it.
SpokenFor(i, k) ==
  \E j \in i .. k :
    /\ dc.info[j].endpoint = dc.info[i].endpoint
    /\ dc.info[j].set_value = load[dc.info[i].endpoint] \/ Clicked(dc.info[i].endpoint)
Right(k) ==
  \A i \in 1 .. k : /\ dc.info[i].endpoint \in Endpoints
                    /\ dc.info[i].set_value \in held[dc.info[i].endpoint]
                    /\ SpokenFor(i, k)

Faithful ==
  /\ Reading => Right(dc.counter)
  /\ pc["mqtt"] = "apply" => Right(idx["mqtt"] - 1)
  /\ \A t \in Updaters \ mixed :
       pc[t] = "write" => idx[t] <= dc.counter /\ val[t] = dc.info[idx[t]].set_value

\* What is not in flash is on its way there or marked; what is there was a level.
Flashed == \A n \in Endpoints : Saved(n) \/ n \in unsaved \/ Carried(n)
Real == \A n \in Endpoints : /\ load[n] \in held[n]
                             /\ n \in unsaved \/ Restored(flash[n]) \in held[n]

IInv == Shape /\ Faithful /\ Flashed /\ Real

USE DEF vars, record, session, locals, history, Updaters, Threads

-----------------------------------------------------------------------------
(* Shape: types, places and who has the record.                            *)

LEMMA ZeroedType ==
  Zeroed \in [counter : 0 .. N, call_type : {0, 1},
              info : [Endpoints -> [endpoint : Nodes, set_value : Level]]]
BY NAssumption DEF Zeroed, NoEntry, Nodes, Level

Records == [counter : 0 .. N, call_type : {0, 1},
            info : [Endpoints -> [endpoint : Nodes, set_value : Level]]]

\* An entry put at a place of the record.
LEMMA EntryPut ==
  ASSUME NEW z \in Records, NEW c \in 0 .. N, NEW i \in Endpoints,
         NEW m \in Nodes, NEW v \in Level,
         NEW y, y = [z EXCEPT !.counter = c, !.info[i] = [endpoint |-> m, set_value |-> v]]
  PROVE  /\ y \in Records /\ y.counter = c /\ y.call_type = z.call_type
         /\ y.info[i].endpoint = m /\ y.info[i].set_value = v
         /\ \A j \in Endpoints : j # i => y.info[j] = z.info[j]
BY DEF Records

\* The record's fields after memset().
LEMMA ZeroedFields ==
  /\ Zeroed.counter = 0 /\ Zeroed.call_type = 0
  /\ \A i \in Endpoints : Zeroed.info[i] = NoEntry
BY DEF Zeroed

LEMMA InitShape == Init => Shape
<1> SUFFICES ASSUME Init PROVE Shape
  OBVIOUS
<1>1. dc \in [counter : 0 .. N, call_type : {0, 1},
              info : [Endpoints -> [endpoint : Nodes, set_value : Level]]]
  BY ZeroedType DEF Init
<1>2. /\ load \in [Endpoints -> Level] /\ flash \in [Nodes -> Level \cup {NotSaved}]
      /\ cloud \in [Endpoints -> Level \cup {NotSaved}]
      /\ held \in [Endpoints -> SUBSET Level]
  BY DEF Init, Level
<1>3. NoReport \in [Endpoints -> Level \cup {NotSaved}]
  BY DEF NoReport
<1>4. json \in [Threads -> [Endpoints -> Level \cup {NotSaved}]]
  BY <1>3 DEF Init
<1>5. data \in Seq(DataElement)
  BY EmptySeq DEF Init
<1>6. /\ op \in {"CASA_IDLE", "STATUS_UPDATE"}
      /\ connected \in BOOLEAN /\ internet \in BOOLEAN
      /\ synced \in {"no", "sending", "yes"}
      /\ asked \in BOOLEAN /\ mixed \subseteq Updaters
      /\ unsaved \subseteq Endpoints /\ untold \subseteq Endpoints
  BY DEF Init
<1>12. /\ stimuli \in 0 .. MaxStimuli /\ boots \in 0 .. MaxBoots
       /\ clicked \in Endpoints
  BY NAssumption, BoundsAssumption DEF Init, Endpoints
<1>7. /\ pc \in [Threads -> {"idle", "fill", "update", "publish", "save", "write", "parse",
                             "apply", "delay", "answer", "undefined"}]
      /\ idx \in [Threads -> 1 .. N + 1]
      /\ val \in [Threads -> Level]
  BY NAssumption DEF Init, Level
<1>8. TypeOK
  BY <1>12, <1>1, <1>2, <1>4, <1>5, <1>6, <1>7 DEF TypeOK
<1>9. Places
  BY NAssumption, ZeroedFields DEF Init, Places
<1>10. Masters
  BY DEF Init, Masters
<1> QED
  BY <1>8, <1>9, <1>10 DEF Shape

\* The histories keep their types whatever is marked.
LEMMA MarkTypes ==
  ASSUME TypeOK, load' \in [Endpoints -> Level], NEW u, NEW r, Mark(u, r),
         u \subseteq Endpoints, r \subseteq Endpoints
  PROVE  /\ held' \in [Endpoints -> SUBSET Level]
         /\ unsaved' \subseteq Endpoints /\ untold' \subseteq Endpoints
<1>1. \A n \in Endpoints : {load'[n]} \cup (IF Rest' THEN {} ELSE held[n]) \in SUBSET Level
  BY DEF TypeOK
<1>2. held' \in [Endpoints -> SUBSET Level]
  BY <1>1 DEF Mark
<1>3. unsaved' \subseteq Endpoints /\ untold' \subseteq Endpoints
  BY DEF Mark, TypeOK
<1> QED
  BY <1>2, <1>3

\* What the actions do to the histories is a mark.
LEMMA Marks ==
  /\ Keep => Mark({}, {})
  /\ \A r \in SUBSET Endpoints : Loses(r) =>
       \E u, q \in SUBSET Endpoints : Mark(u, q)
BY DEF Keep, Loses, Unannounced

LEMMA LosesTypes ==
  ASSUME TypeOK, load' = load, NEW r \in SUBSET Endpoints, Loses(r)
  PROVE  /\ held' \in [Endpoints -> SUBSET Level]
         /\ unsaved' \subseteq Endpoints /\ untold' \subseteq Endpoints
<1>1. load' \in [Endpoints -> Level]
  BY DEF TypeOK
<1>2. PICK u \in SUBSET Endpoints, q \in SUBSET Endpoints : Mark(u, q)
  BY DEF Loses, Unannounced
<1> QED
  BY <1>1, <1>2, MarkTypes

LEMMA KnownType == Known \subseteq Endpoints
BY DEF Known

\* Places of the record, of endpoints and of the loop indices.
LEMMA Numbers ==
  /\ Endpoints \subseteq Nat /\ Nodes \subseteq Nat /\ Endpoints \subseteq Nodes
  /\ 1 \in Endpoints /\ 1 \in 1 .. N + 1 /\ 1 \in 1 .. N
BY NAssumption DEF Endpoints, Nodes

LEMMA ClickShape ==
  ASSUME Shape, NEW n \in Endpoints, Click(n) PROVE Shape'
<1> USE DEF Shape
<1>1. load' \in [Endpoints -> Level]
  BY DEF Click, TypeOK, Level
<1>2. held' \in [Endpoints -> SUBSET Level] /\ unsaved' \subseteq Endpoints /\ untold' \subseteq Endpoints
  BY <1>1, MarkTypes DEF Click, Keep
<1>3. stimuli' \in 0 .. MaxStimuli
  BY BoundsAssumption DEF Click, Stimulus, TypeOK
<1>4. pc' = [pc EXCEPT !["gpio"] = "fill"]
  BY DEF Click, Goto
<1>5. TypeOK'
  BY <1>1, <1>2, <1>3, <1>4 DEF Click, Keep, TypeOK
<1>6. Places'
  BY <1>4 DEF Click, Keep, Places, TypeOK
<1>7. Masters'
  BY <1>4 DEF Click, Keep, Masters, TypeOK
<1> QED
  BY <1>5, <1>6, <1>7

LEMMA FillRecordShape ==
  ASSUME Shape, FillRecord PROVE Shape'
<1> USE DEF Shape
<1>1. held' \in [Endpoints -> SUBSET Level] /\ unsaved' \subseteq Endpoints /\ untold' \subseteq Endpoints
  BY LosesTypes DEF FillRecord, Rewrites
<1>2. dc' \in [counter : 0 .. N, call_type : {0, 1},
              info : [Endpoints -> [endpoint : Nodes, set_value : Level]]]
  <2>1. clicked \in Nodes /\ load[clicked] \in Level /\ 1 \in Endpoints /\ 1 \in 0 .. N
    BY Numbers DEF TypeOK
  <2> QED
    BY <2>1, EntryPut, ZeroedType DEF FillRecord, Records
<1>3. pc' = [pc EXCEPT !["gpio"] = "update"]
  BY DEF FillRecord, Goto
<1>4. mixed' \subseteq Updaters /\ asked' = FALSE
  BY DEF FillRecord, Rewrites, TypeOK
<1>5. TypeOK'
  BY <1>1, <1>2, <1>3, <1>4, Numbers DEF FillRecord, TypeOK
<1>6. Places'
  BY <1>3, <1>4 DEF FillRecord, Places, TypeOK, Runs, HighBlocked
<1>7. Masters'
  BY <1>3, <1>4 DEF FillRecord, Masters, TypeOK, Runs, HighBlocked
<1> QED
  BY <1>5, <1>6, <1>7

LEMMA PollShape ==
  ASSUME Shape, Poll PROVE Shape'
<1> USE DEF Shape
<1>1. held' \in [Endpoints -> SUBSET Level] /\ unsaved' \subseteq Endpoints /\ untold' \subseteq Endpoints
  BY MarkTypes DEF Poll, TypeOK
<1>2. pc' = [pc EXCEPT !["app"] = "update"]
  BY DEF Poll, Goto
<1>3. TypeOK'
  BY <1>1, <1>2 DEF Poll, TypeOK
<1>4. Places'
  BY <1>2 DEF Poll, Places, TypeOK
<1>5. Masters'
  BY <1>2 DEF Poll, Masters, TypeOK
<1> QED
  BY <1>3, <1>4, <1>5

LEMMA ReportType ==
  ASSUME TypeOK, NEW d PROVE Report(d) \in [Endpoints -> Level \cup {NotSaved}]
BY DEF Report, TypeOK

LEMMA StatusUpdateShape ==
  ASSUME Shape, NEW t \in Updaters, StatusUpdate(t) PROVE Shape'
<1> USE DEF Shape
<1>1. held' \in [Endpoints -> SUBSET Level] /\ unsaved' \subseteq Endpoints /\ untold' \subseteq Endpoints
  BY MarkTypes, SMTT(30) DEF StatusUpdate, TypeOK, Unannounced
<1>2. /\ dc' \in [counter : 0 .. N, call_type : {0, 1},
                 info : [Endpoints -> [endpoint : Nodes, set_value : Level]]]
      /\ dc'.counter = dc.counter /\ dc'.info = dc.info
  BY DEF StatusUpdate, TypeOK
<1>3. json' \in [Threads -> [Endpoints -> Level \cup {NotSaved}]]
  <2>1. \A d : Report(d) \in [Endpoints -> Level \cup {NotSaved}]
    BY ReportType
  <2>2. json' = json \/ \E d : json' = [json EXCEPT ![t] = Report(d)]
    BY DEF StatusUpdate
  <2> QED
    BY <2>1, <2>2 DEF TypeOK
<1>4. \E p \in {"publish", "save"} : pc' = [pc EXCEPT ![t] = p]
  BY DEF StatusUpdate, Goto
<1>5. idx' \in [Threads -> 1 .. N + 1]
  BY Numbers DEF StatusUpdate, TypeOK
<1>6. TypeOK'
  <2>1. pc' \in [Threads -> {"idle", "fill", "update", "publish", "save", "write", "parse",
                             "apply", "delay", "answer", "undefined"}]
    BY <1>4 DEF TypeOK
  <2> QED
    BY <1>1, <1>2, <1>3, <1>5, <2>1 DEF StatusUpdate, TypeOK
<1>7. Places'
  BY <1>2, <1>4 DEF StatusUpdate, Places, TypeOK
<1>8. Masters'
  BY <1>2, <1>4 DEF StatusUpdate, Masters, TypeOK, Runs, HighBlocked
<1> QED
  BY <1>6, <1>7, <1>8

LEMMA PublishShape ==
  ASSUME Shape, NEW t \in Updaters, Publish(t) PROVE Shape'
<1> USE DEF Shape
<1>1. held' \in [Endpoints -> SUBSET Level] /\ unsaved' \subseteq Endpoints /\ untold' \subseteq Endpoints
  BY MarkTypes, KnownType DEF Publish, TypeOK
<1>2. cloud' \in [Endpoints -> Level \cup {NotSaved}]
  BY DEF Publish, Told, TypeOK
<1>3. json' \in [Threads -> [Endpoints -> Level \cup {NotSaved}]]
  BY DEF Publish, NoReport, TypeOK
<1>4. pc' = [pc EXCEPT ![t] = "save"]
  BY DEF Publish, Goto
<1>5. TypeOK'
  BY <1>1, <1>2, <1>3, <1>4 DEF Publish, TypeOK
<1>6. Places'
  BY <1>4 DEF Publish, Places, TypeOK
<1>7. Masters'
  BY <1>4 DEF Publish, Masters, TypeOK, Runs, HighBlocked
<1> QED
  BY <1>5, <1>6, <1>7

LEMMA SaveBeginShape ==
  ASSUME Shape, NEW t \in Updaters, SaveBegin(t) PROVE Shape'
<1> USE DEF Shape
<1>1. held' \in [Endpoints -> SUBSET Level] /\ unsaved' \subseteq Endpoints /\ untold' \subseteq Endpoints
  BY MarkTypes DEF SaveBegin, Keep, TypeOK
<1>2. idx[t] \in Endpoints /\ idx[t] <= N
  BY NAssumption DEF SaveBegin, TypeOK, Endpoints
<1>3. val' \in [Threads -> Level]
  BY <1>2 DEF SaveBegin, TypeOK
<1>4. pc' = [pc EXCEPT ![t] = "write"]
  BY DEF SaveBegin, Goto
<1>5. TypeOK'
  BY <1>1, <1>3, <1>4 DEF SaveBegin, Keep, TypeOK
<1>6. Places'
  BY <1>2, <1>4 DEF SaveBegin, Keep, Places, TypeOK
<1>7. Masters'
  BY <1>4 DEF SaveBegin, Keep, Masters, TypeOK, Runs, HighBlocked
<1> QED
  BY <1>5, <1>6, <1>7

LEMMA SaveWriteShape ==
  ASSUME Shape, NEW t \in Updaters, SaveWrite(t) PROVE Shape'
<1> USE DEF Shape
<1>1. held' \in [Endpoints -> SUBSET Level] /\ unsaved' \subseteq Endpoints /\ untold' \subseteq Endpoints
  BY MarkTypes, SMTT(30) DEF SaveWrite, TypeOK
<1>2. idx[t] \in Endpoints /\ idx[t] + 1 \in 1 .. N + 1
  BY NAssumption DEF SaveWrite, TypeOK, Places, Endpoints
<1>3. flash' \in [Nodes -> Level \cup {NotSaved}]
  BY <1>2 DEF SaveWrite, TypeOK
<1>4. idx' \in [Threads -> 1 .. N + 1] /\ val' \in [Threads -> Level]
  BY <1>2 DEF SaveWrite, TypeOK, Level
<1>5. pc' = [pc EXCEPT ![t] = "save"]
  BY DEF SaveWrite, Goto
<1>6. TypeOK'
  BY <1>1, <1>3, <1>4, <1>5 DEF SaveWrite, TypeOK
<1>7. Places'
  BY <1>5 DEF SaveWrite, Places, TypeOK
<1>8. Masters'
  BY <1>5 DEF SaveWrite, Masters, TypeOK, Runs, HighBlocked
<1> QED
  BY <1>6, <1>7, <1>8

LEMMA SaveEndShape ==
  ASSUME Shape, NEW t \in Updaters, SaveEnd(t) PROVE Shape'
<1> USE DEF Shape
<1>1. held' \in [Endpoints -> SUBSET Level] /\ unsaved' \subseteq Endpoints /\ untold' \subseteq Endpoints
  BY LosesTypes DEF SaveEnd, TypeOK
<1>2. pc' = [pc EXCEPT ![t] = "idle"]
  BY DEF SaveEnd, Goto
<1>3. TypeOK'
  BY <1>1, <1>2, Numbers DEF SaveEnd, TypeOK
<1>4. Places'
  BY <1>2 DEF SaveEnd, Places, TypeOK
<1>5. Masters'
  BY <1>2 DEF SaveEnd, Masters, TypeOK
<1> QED
  BY <1>3, <1>4, <1>5

LEMMA ReceiveControlShape ==
  ASSUME Shape, NEW d \in Arrays, ReceiveControl(d) PROVE Shape'
<1> USE DEF Shape
<1>1. held' \in [Endpoints -> SUBSET Level] /\ unsaved' \subseteq Endpoints /\ untold' \subseteq Endpoints
  BY LosesTypes DEF ReceiveControl, Rewrites
<1>2. stimuli' \in 0 .. MaxStimuli
  BY BoundsAssumption DEF ReceiveControl, Stimulus, TypeOK
<1>3. /\ dc' \in [counter : 0 .. N, call_type : {0, 1},
                 info : [Endpoints -> [endpoint : Nodes, set_value : Level]]]
      /\ dc'.counter = 0
  BY ZeroedType, ZeroedFields DEF ReceiveControl
<1>4. data' \in Seq(DataElement)
  BY ArraysAssumption DEF ReceiveControl, TypeOK
<1>5. pc' = pc \/ pc' = [pc EXCEPT !["mqtt"] = "parse"]
  BY DEF ReceiveControl, Goto
<1>6. asked' = FALSE /\ mixed' = mixed \cup { u \in Updaters \ {"mqtt"} : pc[u] \notin {"idle", "fill"} }
  BY DEF ReceiveControl, Rewrites
<1>7. TypeOK'
  <2>1. pc' \in [Threads -> {"idle", "fill", "update", "publish", "save", "write", "parse",
                             "apply", "delay", "answer", "undefined"}]
    BY <1>5 DEF TypeOK
  <2> QED
    BY <1>1, <1>2, <1>3, <1>4, <1>6, <2>1 DEF ReceiveControl, TypeOK
<1>8. Places'
  BY <1>5, <1>6 DEF ReceiveControl, Places, TypeOK
<1>9. Masters'
  BY <1>3, <1>5, <1>6 DEF ReceiveControl, Masters, TypeOK
<1> QED
  BY <1>7, <1>8, <1>9

LEMMA ParseElementShape ==
  ASSUME Shape, ParseElement PROVE Shape'
<1> USE DEF Shape
<1> DEFINE e == Head(data)
<1>1. held' \in [Endpoints -> SUBSET Level] /\ unsaved' \subseteq Endpoints /\ untold' \subseteq Endpoints
  BY LosesTypes DEF ParseElement
<1>2. e.node \in Nodes /\ e.value \in Level /\ Tail(data) \in Seq(DataElement)
  <2>1. data \in Seq(DataElement) /\ data # <<>>
    BY DEF ParseElement, TypeOK
  <2>2. Head(data) \in DataElement /\ Tail(data) \in Seq(DataElement)
    BY <2>1, HeadTailProperties
  <2> QED
    BY <2>2 DEF DataElement
<1>3. <<>> \in Seq(DataElement)
  BY EmptySeq
<1>4. data' \in Seq(DataElement)
  BY <1>2, <1>3 DEF ParseElement, ParseDone, TypeOK
<1>5. /\ dc' \in Records
      /\ \A i \in 1 .. dc'.counter : dc'.info[i].endpoint \in Endpoints
  <2>1. CASE dc' = dc
    BY <2>1 DEF TypeOK, Records, Masters, ParseElement
  <2>2. CASE /\ dc.counter # N
             /\ dc' = [dc EXCEPT !.info[dc.counter + 1].endpoint = e.node]
    <3>1. dc.counter + 1 \in Endpoints /\ dc.counter \notin Endpoints \cap {dc.counter + 1}
      BY <2>2, NAssumption DEF TypeOK, Endpoints
    <3>2. dc' \in Records /\ dc'.counter = dc.counter
      <4>1. dc.counter + 1 \in Endpoints /\ e.node \in Nodes /\ dc \in Records
        BY <3>1, <1>2 DEF TypeOK, Records
      <4> HIDE DEF e
      <4> QED
        BY <2>2, <4>1 DEF Records
    <3>3. \A i \in 1 .. dc.counter : i \in Endpoints /\ dc'.info[i] = dc.info[i]
      BY <2>2, <3>1, NAssumption DEF TypeOK, Endpoints
    <3> QED
      BY <3>2, <3>3 DEF Masters, ParseElement
  <2>3. CASE dc.counter # N /\ e.node \in Endpoints /\ TakePlace(e)
    <3>1. dc.counter + 1 \in Endpoints /\ dc.counter + 1 \in 0 .. N /\ dc \in Records
      BY <2>3, NAssumption DEF TypeOK, Endpoints, Records
    <3>2. /\ dc' \in Records /\ dc'.counter = dc.counter + 1
          /\ dc'.info[dc.counter + 1].endpoint = e.node
          /\ \A j \in Endpoints : j # dc.counter + 1 => dc'.info[j] = dc.info[j]
      <4> HIDE DEF e
      <4>1. dc' = [dc EXCEPT !.counter = dc.counter + 1,
                   !.info[dc.counter + 1] = [endpoint |-> e.node, set_value |-> e.value]]
        BY <2>3 DEF TakePlace
      <4> QED
        <5>1. /\ dc \in Records /\ dc.counter + 1 \in 0 .. N /\ dc.counter + 1 \in Endpoints
              /\ e.node \in Nodes /\ e.value \in Level
          BY <3>1, <1>2
        <5>2. dc' \in Records /\ dc'.counter = dc.counter + 1
          BY <5>1, <4>1 DEF Records
        <5>3. /\ dc'.info[dc.counter + 1].endpoint = e.node
              /\ \A j \in Endpoints : j # dc.counter + 1 => dc'.info[j] = dc.info[j]
          BY <5>1, <4>1 DEF Records
        <5> QED
          BY <5>2, <5>3
    <3>3. \A i \in 1 .. dc.counter + 1 : i = dc.counter + 1 \/ (i \in 1 .. dc.counter /\ i \in Endpoints)
      BY <3>1, NAssumption DEF Endpoints, Records
    <3> QED
      BY <2>3, <3>1, <3>2, <3>3 DEF Masters, ParseElement
  <2> QED
    BY <2>1, <2>2, <2>3 DEF ParseElement
<1>6. \/ pc' = pc \/ pc' = [pc EXCEPT !["mqtt"] = "idle"]
      \/ pc' = [t \in Threads |-> "undefined"]
  BY DEF ParseElement, ParseDone, Goto
<1>7. TypeOK'
  <2>1. pc' \in [Threads -> {"idle", "fill", "update", "publish", "save", "write", "parse",
                             "apply", "delay", "answer", "undefined"}]
    BY <1>6 DEF TypeOK
  <2> QED
    BY <1>1, <1>4, <1>5, <2>1 DEF ParseElement, TypeOK, Records
<1>8. Places'
  BY <1>6 DEF ParseElement, Places, TypeOK
<1>9. Masters'
  BY <1>5, <1>6 DEF ParseElement, Masters, TypeOK
<1> QED
  BY <1>7, <1>8, <1>9

LEMMA ParseEndShape ==
  ASSUME Shape, ParseEnd PROVE Shape'
<1> USE DEF Shape
<1>1. held' \in [Endpoints -> SUBSET Level] /\ unsaved' \subseteq Endpoints /\ untold' \subseteq Endpoints
  BY MarkTypes DEF ParseEnd, Keep, TypeOK
<1>2. \E p \in {"idle", "apply"} : pc' = [pc EXCEPT !["mqtt"] = p]
  BY DEF ParseEnd, ParseDone, Goto
<1>3. data' \in Seq(DataElement)
  BY EmptySeq DEF ParseEnd, ParseDone
<1>4. TypeOK'
  BY <1>1, <1>2, <1>3 DEF ParseEnd, Keep, TypeOK
<1>5. Places'
  BY <1>2 DEF ParseEnd, Keep, Places, TypeOK
<1>6. Masters'
  BY <1>2 DEF ParseEnd, Keep, Masters, TypeOK
<1> QED
  BY <1>4, <1>5, <1>6

LEMMA ControlEndpointShape ==
  ASSUME Shape, ControlEndpoint PROVE Shape'
<1> USE DEF Shape
<1> DEFINE i == idx["mqtt"]
<1>1. CASE i <= dc.counter
  <2>1. /\ load' = [load EXCEPT ![dc.info[i].endpoint] = dc.info[i].set_value]
        /\ idx' = [idx EXCEPT !["mqtt"] = i + 1] /\ pc' = pc
    BY <1>1 DEF ControlEndpoint, TypeOK
  <2>2. i \in Endpoints /\ i + 1 \in 1 .. N + 1
    BY <1>1, NAssumption DEF TypeOK, Endpoints
  <2>3. load' \in [Endpoints -> Level] /\ idx' \in [Threads -> 1 .. N + 1]
    BY <2>1, <2>2 DEF TypeOK
  <2>4. held' \in [Endpoints -> SUBSET Level] /\ unsaved' \subseteq Endpoints /\ untold' \subseteq Endpoints
    BY <2>3, MarkTypes DEF ControlEndpoint, Keep
  <2>5. TypeOK'
    BY <2>1, <2>3, <2>4 DEF ControlEndpoint, Keep, TypeOK
  <2>6. Places'
    BY <2>1, <2>2, <1>1 DEF ControlEndpoint, Keep, Places, TypeOK
  <2>7. Masters'
    BY <2>1 DEF ControlEndpoint, Keep, Masters
  <2> QED
    BY <2>5, <2>6, <2>7
<1>2. CASE i > dc.counter
  <2>1. load' = load /\ idx' = [idx EXCEPT !["mqtt"] = 1] /\ pc' = [pc EXCEPT !["mqtt"] = "delay"]
    BY <1>2 DEF ControlEndpoint, TypeOK, Goto
  <2>2. held' \in [Endpoints -> SUBSET Level] /\ unsaved' \subseteq Endpoints /\ untold' \subseteq Endpoints
    BY <2>1, MarkTypes, SMTT(30) DEF ControlEndpoint, Keep, TypeOK
  <2>3. TypeOK'
    BY <2>1, <2>2, Numbers DEF ControlEndpoint, Keep, TypeOK
  <2>4. Places'
    BY <2>1 DEF ControlEndpoint, Keep, Places, TypeOK
  <2>5. Masters'
    BY <2>1 DEF ControlEndpoint, Keep, Masters, TypeOK
  <2> QED
    BY <2>3, <2>4, <2>5
<1> QED
  BY <1>1, <1>2, SMTT(30) DEF TypeOK

LEMMA AskForUpdateShape ==
  ASSUME Shape, AskForUpdate PROVE Shape'
<1> USE DEF Shape
<1>1. held' \in [Endpoints -> SUBSET Level] /\ unsaved' \subseteq Endpoints /\ untold' \subseteq Endpoints
  BY MarkTypes DEF AskForUpdate, TypeOK
<1>2. pc' = [pc EXCEPT !["mqtt"] = "idle"]
  BY DEF AskForUpdate, Goto
<1>3. TypeOK'
  BY <1>1, <1>2 DEF AskForUpdate, TypeOK
<1>4. Places'
  BY <1>2 DEF AskForUpdate, Places, TypeOK
<1>5. Masters'
  BY <1>2 DEF AskForUpdate, Masters, TypeOK
<1> QED
  BY <1>3, <1>4, <1>5

LEMMA ResyncShape ==
  ASSUME Shape, Resync PROVE Shape'
<1> USE DEF Shape
<1>1. held' \in [Endpoints -> SUBSET Level] /\ unsaved' \subseteq Endpoints /\ untold' \subseteq Endpoints
  BY LosesTypes DEF Resync, Rewrites
<1>2. stimuli' \in 0 .. MaxStimuli
  BY BoundsAssumption DEF Resync, Stimulus, TypeOK
<1>3. dc' \in [counter : 0 .. N, call_type : {0, 1},
              info : [Endpoints -> [endpoint : Nodes, set_value : Level]]]
  <2> DEFINE z == Zeroed
  <2>1. z \in Records /\ N \in 0 .. N
    BY ZeroedType, NAssumption DEF Records
  <2>2. dc' = [z EXCEPT !.counter = N, !.call_type = 1]
    BY DEF Resync
  <2> HIDE DEF z
  <2> QED
    BY <2>1, <2>2 DEF Records
<1>4. json' \in [Threads -> [Endpoints -> Level \cup {NotSaved}]]
  <2>1. \A d : Report(d) \in [Endpoints -> Level \cup {NotSaved}]
    BY ReportType
  <2>2. \E d : json' = [json EXCEPT !["mqtt"] = Report(d)]
    BY DEF Resync
  <2> QED
    BY <2>1, <2>2 DEF TypeOK
<1>5. pc' = [pc EXCEPT !["mqtt"] = "publish"] /\ asked' = FALSE /\ mixed' \subseteq Updaters
  BY DEF Resync, Goto, Rewrites, TypeOK
<1>6. synced' \in {"no", "sending", "yes"}
  BY DEF Resync, TypeOK
<1>7. TypeOK'
  BY <1>1, <1>2, <1>3, <1>4, <1>5, <1>6 DEF Resync, TypeOK
<1>8. Places'
  BY <1>5 DEF Resync, Places, TypeOK
<1>9. Masters'
  BY <1>5 DEF Resync, Masters, TypeOK
<1> QED
  BY <1>7, <1>8, <1>9

LEMMA ResyncPublishShape ==
  ASSUME Shape, ResyncPublish PROVE Shape'
<1> USE DEF Shape
<1>1. held' \in [Endpoints -> SUBSET Level] /\ unsaved' \subseteq Endpoints /\ untold' \subseteq Endpoints
  BY LosesTypes, KnownType DEF ResyncPublish, Rewrites
<1>2. cloud' \in [Endpoints -> Level \cup {NotSaved}]
  BY DEF ResyncPublish, Told, TypeOK
<1>3. dc' \in [counter : 0 .. N, call_type : {0, 1},
              info : [Endpoints -> [endpoint : Nodes, set_value : Level]]]
  BY ZeroedType DEF ResyncPublish
<1>4. json' \in [Threads -> [Endpoints -> Level \cup {NotSaved}]]
  BY DEF ResyncPublish, NoReport, TypeOK
<1>5. pc' = [pc EXCEPT !["mqtt"] = "idle"] /\ asked' = FALSE /\ mixed' \subseteq Updaters
  BY DEF ResyncPublish, Goto, Rewrites, TypeOK
<1>6. synced' \in {"no", "sending", "yes"}
  BY DEF ResyncPublish, TypeOK
<1>7. TypeOK'
  BY <1>1, <1>2, <1>3, <1>4, <1>5, <1>6 DEF ResyncPublish, TypeOK
<1>8. Places'
  BY <1>5 DEF ResyncPublish, Places, TypeOK
<1>9. Masters'
  BY <1>5 DEF ResyncPublish, Masters, TypeOK
<1> QED
  BY <1>7, <1>8, <1>9

LEMMA QueryShape ==
  ASSUME Shape, Query PROVE Shape'
<1> USE DEF Shape
<1>1. held' \in [Endpoints -> SUBSET Level] /\ unsaved' \subseteq Endpoints /\ untold' \subseteq Endpoints
  BY MarkTypes, SMTT(30) DEF Query, Keep, TypeOK
<1>2. stimuli' \in 0 .. MaxStimuli
  BY BoundsAssumption DEF Query, Stimulus, TypeOK
<1>3. pc' = [pc EXCEPT !["mqtt"] = "answer"]
  BY DEF Query, Goto
<1>4. TypeOK'
  BY <1>1, <1>2, <1>3 DEF Query, Keep, TypeOK
<1>5. Places' /\ Masters'
  BY <1>3 DEF Query, Keep, Places, Masters, TypeOK
<1> QED
  BY <1>4, <1>5

LEMMA QueryEndShape ==
  ASSUME Shape, QueryEnd PROVE Shape'
<1> USE DEF Shape
<1>1. held' \in [Endpoints -> SUBSET Level] /\ unsaved' \subseteq Endpoints /\ untold' \subseteq Endpoints
  BY LosesTypes DEF QueryEnd, TypeOK
<1>2. pc' = [pc EXCEPT !["mqtt"] = "idle"]
  BY DEF QueryEnd, Goto
<1>3. TypeOK'
  BY <1>1, <1>2 DEF QueryEnd, TypeOK
<1>4. Places' /\ Masters'
  BY <1>2 DEF QueryEnd, Places, Masters, TypeOK
<1> QED
  BY <1>3, <1>4

LEMMA SurroundingsShape ==
  ASSUME Shape, SessionChange \/ Probe PROVE Shape'
<1> USE DEF Shape
<1>1. held' \in [Endpoints -> SUBSET Level] /\ unsaved' \subseteq Endpoints /\ untold' \subseteq Endpoints
  BY MarkTypes DEF SessionChange, Probe, Keep, TypeOK
<1>2. connected' \in BOOLEAN /\ internet' \in BOOLEAN /\ synced' \in {"no", "sending", "yes"}
  BY DEF SessionChange, Probe, TypeOK
<1>3. TypeOK'
  BY <1>1, <1>2 DEF SessionChange, Probe, Keep, TypeOK
<1>4. Places' /\ Masters'
  BY DEF SessionChange, Probe, Keep, Places, Masters
<1> QED
  BY <1>3, <1>4

LEMMA PowerCycleShape ==
  ASSUME Shape, PowerCycle PROVE Shape'
<1> USE DEF Shape
<1>1. load' \in [Endpoints -> Level]
  BY DEF PowerCycle, Restored, Level
<1>2. held' \in [Endpoints -> SUBSET Level] /\ unsaved' \subseteq Endpoints /\ untold' \subseteq Endpoints
  BY <1>1, MarkTypes DEF PowerCycle
<1>3. /\ dc' \in [counter : 0 .. N, call_type : {0, 1},
                 info : [Endpoints -> [endpoint : Nodes, set_value : Level]]]
      /\ json' \in [Threads -> [Endpoints -> Level \cup {NotSaved}]]
  BY ZeroedType DEF PowerCycle, NoReport
<1>4. /\ pc' = [t \in Threads |-> "idle"] /\ asked' = FALSE /\ mixed' = {}
      /\ idx' = [t \in Threads |-> 1]
  BY DEF PowerCycle
<1>5. /\ idx' \in [Threads -> 1 .. N + 1] /\ val' \in [Threads -> Level]
      /\ boots' \in 0 .. MaxBoots /\ clicked' \in Endpoints
  BY Numbers, BoundsAssumption DEF PowerCycle, TypeOK, Level
<1>6. data' \in Seq(DataElement)
  BY EmptySeq DEF PowerCycle
<1>7. pc' \in [Threads -> {"idle", "fill", "update", "publish", "save", "write", "parse",
                           "apply", "delay", "answer", "undefined"}]
  BY <1>4
<1>8. TypeOK'
  BY <1>1, <1>2, <1>3, <1>4, <1>5, <1>6, <1>7 DEF PowerCycle, TypeOK
<1>9. Places' /\ Masters'
  BY <1>4 DEF PowerCycle, Places, Masters
<1> QED
  BY <1>8, <1>9

LEMMA StutterShape == ASSUME Shape, UNCHANGED vars PROVE Shape'
BY DEF Shape, TypeOK, Places, Masters

LEMMA NextShape == Shape /\ [Next]_vars => Shape'
BY ClickShape, FillRecordShape, PollShape, StatusUpdateShape, PublishShape, SaveBeginShape,
   SaveWriteShape, SaveEndShape, ReceiveControlShape, ParseElementShape, ParseEndShape,
   ControlEndpointShape, AskForUpdateShape, ResyncShape, ResyncPublishShape, QueryShape,
   QueryEndShape, SurroundingsShape, PowerCycleShape, StutterShape
   DEF Next, GpioStep, AppStep, MqttStep, UpdateStep

\* Every variable keeps its type, and a record that is not overrun has room for what
\* it counts, with any arrays, any number of stimuli and power failures, in any
\* overlap.
THEOREM TypeCorrect == Spec => []TypeOK
<1>1. Shape => TypeOK
  BY DEF Shape
<1> QED
  BY InitShape, NextShape, <1>1, PTL DEF Spec

-----------------------------------------------------------------------------
(* The record is right for whoever reads it.                               *)

\* While somebody reads the record, or fills the loads by it, there is no rest.
LEMMA ReadersDontRest ==
  ASSUME Places, TypeOK, Reading \/ pc["mqtt"] = "apply" PROVE ~Rest
BY DEF Places, TypeOK, Reading, InUse, Rest

\* At rest nothing is on its way.
LEMMA RestCarriesNothing ==
  ASSUME Places, Rest, NEW n \in Endpoints PROVE ~Carried(n) /\ ~Announced(n)
BY DEF Places, Rest, Carried, Clicked, ToCome, Left, Announced

LEMMA HeldGrows ==
  ASSUME NEW u, NEW r, Mark(u, r), NEW n \in Endpoints
  PROVE  load'[n] \in held'[n] /\ (~Rest' => held[n] \subseteq held'[n])
BY DEF Mark

\* The record, the loads and the click stay: what was right stays right.
LEMMA RightStays ==
  ASSUME NEW k \in Nat, Right(k),
         dc'.info = dc.info, load' = load,
         \A n \in Endpoints : held[n] \subseteq held'[n],
         \A n \in Endpoints : Clicked(n) => Clicked(n)'
  PROVE  Right(k)'
<1> SUFFICES ASSUME NEW i \in 1 .. k
             PROVE  /\ dc'.info[i].endpoint \in Endpoints
                    /\ dc'.info[i].set_value \in held'[dc'.info[i].endpoint]
                    /\ SpokenFor(i, k)'
  BY DEF Right
<1>1. /\ dc.info[i].endpoint \in Endpoints
      /\ dc.info[i].set_value \in held[dc.info[i].endpoint]
      /\ SpokenFor(i, k)
  BY DEF Right
<1> QED
  BY <1>1 DEF SpokenFor

\* A step that keeps the record and the loads, and has no reader that was not there.
LEMMA FaithfulStays ==
  ASSUME Shape, Shape', Faithful, NEW u, NEW r, Mark(u, r),
         dc'.info = dc.info, dc'.counter = dc.counter, load' = load,
         \A n \in Endpoints : Clicked(n) => Clicked(n)',
         Reading' => Reading,
         pc'["mqtt"] = "apply" => pc["mqtt"] = "apply" /\ idx'["mqtt"] = idx["mqtt"],
         \A t \in Updaters \ mixed' :
           pc'[t] = "write" => idx'[t] <= dc.counter /\ val'[t] = dc.info[idx'[t]].set_value
  PROVE  Faithful'
<1>1. ASSUME ~Rest' PROVE \A n \in Endpoints : held[n] \subseteq held'[n]
  BY <1>1, HeldGrows
<1>2. Reading' => Right(dc.counter)'
  <2> SUFFICES ASSUME Reading' PROVE Right(dc.counter)'
    OBVIOUS
  <2>1. ~Rest'
    BY DEF Shape, Places, TypeOK, Reading, InUse, Rest
  <2>2. Right(dc.counter) /\ dc.counter \in Nat
    BY NAssumption DEF Faithful, Shape, TypeOK
  <2>3. PICK k \in Nat : k = dc.counter
    BY <2>2
  <2>4. Right(k)
    BY <2>2, <2>3
  <2>5. Right(k)'
    BY <1>1, <2>1, <2>4, RightStays
  <2> QED
    BY <2>3, <2>5 DEF Right, SpokenFor
<1>3. pc'["mqtt"] = "apply" => Right(idx["mqtt"] - 1)'
  <2> SUFFICES ASSUME pc'["mqtt"] = "apply" PROVE Right(idx["mqtt"] - 1)'
    OBVIOUS
  <2>1. ~Rest'
    BY DEF Rest
  <2>2. Right(idx["mqtt"] - 1) /\ idx["mqtt"] - 1 \in Nat
    BY NAssumption DEF Faithful, Shape, TypeOK
  <2>3. PICK k \in Nat : k = idx["mqtt"] - 1
    BY <2>2
  <2>4. Right(k)
    BY <2>2, <2>3
  <2>5. Right(k)'
    BY <1>1, <2>1, <2>4, RightStays
  <2> QED
    BY <2>3, <2>5 DEF Right, SpokenFor
<1> QED
  BY <1>2, <1>3 DEF Faithful, Right, SpokenFor

\* A step behind which nobody reads the record and the loads are not being set.
LEMMA NobodyReads ==
  ASSUME ~Reading', pc'["mqtt"] # "apply",
         \A t \in Updaters \ mixed' : pc'[t] # "write"
  PROVE  Faithful'
BY DEF Faithful

LEMMA ClickFaithful ==
  ASSUME Shape, Shape', Faithful, NEW n \in Endpoints, Click(n) PROVE Faithful'
<1> USE DEF Shape
<1>1. /\ pc' = [pc EXCEPT !["gpio"] = "fill"] /\ pc["gpio"] = "idle" /\ pc["mqtt"] # "apply"
      /\ load' = [load EXCEPT ![n] = 1 - load[n]] /\ clicked' = n
      /\ dc' = dc /\ idx' = idx /\ val' = val /\ asked' = asked /\ mixed' = mixed
      /\ Mark({}, {})
  BY DEF Click, Goto, Keep, Runs, HighBlocked
<1>2. ~Rest'
  BY <1>1 DEF Rest, TypeOK
<1>3. \A m \in Endpoints : held[m] \subseteq held'[m]
  BY <1>1, <1>2, HeldGrows
<1>4. Reading' => Right(dc.counter)'
  <2> SUFFICES ASSUME Reading, NEW i \in 1 .. dc.counter
               PROVE  /\ dc'.info[i].endpoint \in Endpoints
                      /\ dc'.info[i].set_value \in held'[dc'.info[i].endpoint]
                      /\ SpokenFor(i, dc.counter)'
    BY <1>1 DEF Right, Reading, TypeOK, InUse
  <2>1. /\ dc.info[i].endpoint \in Endpoints
        /\ dc.info[i].set_value \in held[dc.info[i].endpoint]
        /\ SpokenFor(i, dc.counter)
    BY DEF Faithful, Right
  <2>2. PICK j \in i .. dc.counter :
          /\ dc.info[j].endpoint = dc.info[i].endpoint
          /\ dc.info[j].set_value = load[dc.info[i].endpoint]
    BY <2>1, <1>1 DEF SpokenFor, Clicked
  <2>3. CASE dc.info[i].endpoint = n
    BY <2>1, <2>2, <2>3, <1>1, <1>3 DEF SpokenFor, Clicked, TypeOK
  <2>4. CASE dc.info[i].endpoint # n
    <3>1. load'[dc.info[i].endpoint] = load[dc.info[i].endpoint]
      BY <2>1, <2>4, <1>1 DEF TypeOK
    <3> QED
      BY <2>1, <2>2, <3>1, <1>1, <1>3 DEF SpokenFor
  <2> QED
    BY <2>3, <2>4
<1> QED
  BY <1>1, <1>4 DEF Faithful, TypeOK

LEMMA FillRecordFaithful ==
  ASSUME Shape, Shape', Faithful, Real, FillRecord PROVE Faithful'
<1> USE DEF Shape
<1>1. /\ pc' = [pc EXCEPT !["gpio"] = "update"] /\ pc["mqtt"] # "apply" /\ load' = load
      /\ mixed' = mixed \cup { u \in Updaters \ {"gpio"} : pc[u] \notin {"idle", "fill"} }
      /\ \E u, r : Mark(u, r)
  BY DEF FillRecord, Goto, Rewrites, Loses, Runs, HighBlocked
<1>2. /\ dc'.counter = 1 /\ dc'.info[1].endpoint = clicked
      /\ dc'.info[1].set_value = load[clicked]
  BY ZeroedType, ZeroedFields, Numbers DEF FillRecord
<1>3. clicked \in Endpoints /\ load[clicked] \in held'[clicked]
  BY <1>1, HeldGrows DEF TypeOK
<1>4. Right(dc.counter)'
  BY <1>1, <1>2, <1>3 DEF Right, SpokenFor
<1>5. \A t \in Updaters \ mixed' : pc'[t] # "write"
  BY <1>1 DEF TypeOK
<1> QED
  BY <1>1, <1>4, <1>5 DEF Faithful, TypeOK

LEMMA PollFaithful ==
  ASSUME Shape, Shape', Faithful, Poll PROVE Faithful'
<1> USE DEF Shape
<1>1. /\ pc' = [pc EXCEPT !["app"] = "update"] /\ pc["app"] = "idle" /\ asked' = FALSE
      /\ mixed' = IF asked THEN mixed ELSE mixed \cup {"app"}
      /\ dc' = dc /\ load' = load /\ clicked' = clicked /\ idx' = idx /\ val' = val
      /\ Mark({}, {})
  BY DEF Poll, Goto
<1>2. Reading' => Reading
  BY <1>1 DEF Reading, TypeOK
<1>3. \A n \in Endpoints : Clicked(n) => Clicked(n)'
  BY <1>1 DEF Clicked, TypeOK
<1>4. \A t \in Updaters \ mixed' : pc'[t] = "write" =>
        idx'[t] <= dc.counter /\ val'[t] = dc.info[idx'[t]].set_value
  BY <1>1 DEF Faithful, TypeOK
<1>5. pc'["mqtt"] = pc["mqtt"]
  BY <1>1 DEF TypeOK
<1> QED
  BY <1>1, <1>2, <1>3, <1>4, <1>5, FaithfulStays

LEMMA UpdateFaithful ==
  ASSUME Shape, Shape', Faithful, NEW t \in Updaters,
         StatusUpdate(t) \/ Publish(t) \/ SaveBegin(t) \/ SaveWrite(t) \/ SaveEnd(t)
  PROVE  Faithful'
<1> USE DEF Shape
<1>1. /\ \E p \in {"publish", "save", "write", "idle"} : pc' = [pc EXCEPT ![t] = p]
      /\ pc[t] \in InUse
      /\ dc'.info = dc.info /\ dc'.counter = dc.counter /\ load' = load /\ clicked' = clicked
      /\ \E u, r : Mark(u, r)
  BY SMTT(30) DEF StatusUpdate, Publish, SaveBegin, SaveWrite, SaveEnd, Goto, Keep, Loses, InUse, TypeOK
<1>2. /\ asked' => asked
      /\ mixed' = mixed \/ (mixed' = mixed \ {t} /\ pc'[t] = "idle")
  BY DEF StatusUpdate, Publish, SaveBegin, SaveWrite, SaveEnd, Goto, Keep, TypeOK
<1>3. Reading' => Reading
  BY <1>1, <1>2 DEF Reading, TypeOK, InUse
<1>4. \A n \in Endpoints : Clicked(n) => Clicked(n)'
  BY <1>1 DEF Clicked, TypeOK, InUse
<1>5. pc'["mqtt"] = pc["mqtt"] /\ idx'["mqtt"] = idx["mqtt"]
  BY <1>1 DEF TypeOK, StatusUpdate, Publish, SaveBegin, SaveWrite, SaveEnd
<1>6. \A s \in Updaters \ mixed' : pc'[s] = "write" =>
        idx'[s] <= dc.counter /\ val'[s] = dc.info[idx'[s]].set_value
  <2>1. CASE SaveBegin(t)
    BY <2>1 DEF SaveBegin, Goto, Keep, Faithful, TypeOK
  <2>2. CASE StatusUpdate(t) \/ Publish(t) \/ SaveWrite(t) \/ SaveEnd(t)
    <3>1. pc'[t] # "write"
      BY <2>2 DEF StatusUpdate, Publish, SaveWrite, SaveEnd, Goto, TypeOK
    <3>2. \A s \in Updaters \ {t} :
            pc'[s] = pc[s] /\ idx'[s] = idx[s] /\ val'[s] = val[s] /\ (s \in mixed' <=> s \in mixed)
      BY <2>2, SMTT(30) DEF StatusUpdate, Publish, SaveWrite, SaveEnd, Goto, TypeOK
    <3> QED
      BY <3>1, <3>2 DEF Faithful
  <2> QED
    BY <2>1, <2>2
<1> QED
  BY <1>1, <1>3, <1>4, <1>5, <1>6, FaithfulStays

\* The mqtt thread empties the record.
LEMMA RewritesFaithful ==
  ASSUME Shape, pc["mqtt"] \notin {"apply", "delay"}, NEW r, Rewrites("mqtt", r),
         \E p \in {"idle", "parse", "publish"} : pc' = [pc EXCEPT !["mqtt"] = p]
  PROVE  Faithful'
<1>1. /\ asked' = FALSE
      /\ \A t \in Updaters \ mixed' : pc[t] \in {"idle", "fill"} /\ pc'[t] = pc[t]
      /\ pc'["mqtt"] \in {"idle", "parse", "publish"}
  BY DEF Rewrites, Shape, TypeOK
<1>2. ~Reading'
  BY <1>1 DEF Reading, InUse
<1> QED
  BY <1>1, <1>2, NobodyReads

LEMMA MqttFaithful ==
  ASSUME Shape, Shape', Faithful,
         \/ \E d \in Arrays : ReceiveControl(d)
         \/ Resync \/ ResyncPublish \/ ParseElement
  PROVE  Faithful'
<1>1. CASE \E d \in Arrays : ReceiveControl(d)
  <2>1. \E p \in {"idle", "parse"} : pc' = [pc EXCEPT !["mqtt"] = p]
    BY <1>1 DEF ReceiveControl, Goto, Shape, TypeOK
  <2> QED
    BY <1>1, <2>1, RewritesFaithful DEF ReceiveControl
<1>2. CASE Resync \/ ResyncPublish
  BY <1>2, RewritesFaithful DEF Resync, ResyncPublish, Goto
<1>3. CASE ParseElement
  <2>1. /\ asked' = asked /\ mixed' = mixed /\ ~asked
        /\ \A t \in Updaters \ mixed : pc[t] \in {"idle", "fill"}
    BY <1>3 DEF ParseElement, Shape, Masters
  <2>2. \/ pc' = pc \/ pc' = [pc EXCEPT !["mqtt"] = "idle"]
        \/ pc' = [t \in Threads |-> "undefined"]
    BY <1>3 DEF ParseElement, ParseDone, Goto
  <2>3. /\ \A t \in Updaters \ mixed : pc'[t] \in {"idle", "fill", "undefined"}
        /\ pc'["mqtt"] \in {"parse", "idle", "undefined"}
    BY <1>3, <2>1, <2>2 DEF ParseElement, Shape, TypeOK
  <2>4. ~Reading'
    BY <2>1, <2>3 DEF Reading, InUse
  <2> QED
    BY <2>1, <2>3, <2>4, NobodyReads
<1> QED
  BY <1>1, <1>2, <1>3

LEMMA ParseEndFaithful ==
  ASSUME Shape, Shape', Faithful, ParseEnd PROVE Faithful'
<1> USE DEF Shape
<1>1. /\ ~asked' /\ mixed' = mixed
      /\ \A t \in Updaters \ mixed : pc[t] \in {"idle", "fill"} /\ pc'[t] = pc[t]
      /\ pc'["mqtt"] \in {"idle", "apply"} /\ idx'["mqtt"] = 1
  BY DEF ParseEnd, ParseDone, Goto, Keep, Masters, Places, TypeOK
<1>2. ~Reading'
  BY <1>1 DEF Reading, InUse
<1>3. Right(idx["mqtt"] - 1)'
  BY <1>1 DEF Right
<1> QED
  BY <1>1, <1>2, <1>3 DEF Faithful

LEMMA ControlEndpointFaithful ==
  ASSUME Shape, Shape', Faithful, ControlEndpoint PROVE Faithful'
<1> USE DEF Shape
<1> DEFINE i == idx["mqtt"]
           k == dc.info[i].endpoint
           v == dc.info[i].set_value
<1>1. /\ dc' = dc /\ val' = val /\ clicked' = clicked /\ asked' = asked /\ mixed' = mixed
      /\ ~asked /\ \A t \in Updaters \ mixed : pc[t] \in {"idle", "fill"}
      /\ pc["mqtt"] = "apply" /\ Mark({}, {}) /\ Right(i - 1) /\ i <= dc.counter + 1
  BY DEF ControlEndpoint, Keep, Masters, Faithful, Places
<1>2. CASE i <= dc.counter
  <2>1. load' = [load EXCEPT ![k] = v] /\ idx' = [idx EXCEPT !["mqtt"] = i + 1] /\ pc' = pc
    BY <1>2 DEF ControlEndpoint, TypeOK
  <2>2. i \in Endpoints /\ i \in 1 .. dc.counter /\ k \in Endpoints /\ v \in Level /\ i \in Nat
    BY <1>1, <1>2, NAssumption, SMTT(30) DEF TypeOK, Endpoints, Masters
  <2>3. ~Rest'
    BY <1>1, <2>1 DEF Rest
  <2>4. \A n \in Endpoints : held[n] \subseteq held'[n] /\ load'[n] \in held'[n]
    BY <1>1, <2>3, HeldGrows
  <2>5. load'[k] = v /\ \A n \in Endpoints \ {k} : load'[n] = load[n]
    BY <2>1, <2>2 DEF TypeOK
  <2>6. \A n \in Endpoints : Clicked(n) => Clicked(n)'
    BY <1>1, <2>1 DEF Clicked
  <2>7. ASSUME NEW a \in 1 .. i
        PROVE  /\ dc.info[a].endpoint \in Endpoints
               /\ dc.info[a].set_value \in held'[dc.info[a].endpoint]
               /\ \E j \in a .. i :
                    /\ dc.info[j].endpoint = dc.info[a].endpoint
                    /\ \/ dc.info[j].set_value = load'[dc.info[a].endpoint]
                       \/ Clicked(dc.info[a].endpoint)'
    <3>1. CASE a = i
      BY <3>1, <2>2, <2>4, <2>5
    <3>2. CASE a # i
      <4>1. a \in 1 .. i - 1
        BY <3>2, <2>2
      <4>2. /\ dc.info[a].endpoint \in Endpoints
            /\ dc.info[a].set_value \in held[dc.info[a].endpoint]
            /\ SpokenFor(a, i - 1)
        BY <4>1, <1>1 DEF Right
      <4>3. CASE dc.info[a].endpoint = k
        <5>1. i \in a .. i
          BY <4>1, <2>2
        <5> QED
          BY <4>2, <4>3, <5>1, <2>4, <2>5
      <4>4. CASE dc.info[a].endpoint # k
        <5>1. PICK j \in a .. i - 1 :
                /\ dc.info[j].endpoint = dc.info[a].endpoint
                /\ \/ dc.info[j].set_value = load[dc.info[a].endpoint]
                   \/ Clicked(dc.info[a].endpoint)
          BY <4>2 DEF SpokenFor
        <5>2. j \in a .. i
          BY <4>1, <5>1, <2>2
        <5>3. dc.info[a].set_value \in held'[dc.info[a].endpoint]
          BY <4>2, <2>4
        <5>4. load'[dc.info[a].endpoint] = load[dc.info[a].endpoint]
          BY <4>2, <4>4, <2>5
        <5>5. Clicked(dc.info[a].endpoint) => Clicked(dc.info[a].endpoint)'
          BY <1>1, <2>1 DEF Clicked
        <5> QED
          BY <4>2, <5>1, <5>2, <5>3, <5>4, <5>5
      <4> QED
        BY <4>3, <4>4
    <3> QED
      BY <3>1, <3>2
  <2>8. idx'["mqtt"] - 1 = i
    BY <2>1, <2>2 DEF TypeOK
  <2>9. Right(idx["mqtt"] - 1)'
    BY <2>7, <2>8, <1>1 DEF Right, SpokenFor
  <2>10. ~Reading'
    BY <1>1, <2>1 DEF Reading, InUse
  <2>11. \A t \in Updaters \ mixed' : pc'[t] # "write"
    BY <1>1, <2>1
  <2> QED
    BY <2>9, <2>10, <2>11 DEF Faithful
<1>3. CASE i > dc.counter
  <2>1. load' = load /\ pc' = [pc EXCEPT !["mqtt"] = "delay"]
    BY <1>3 DEF ControlEndpoint, TypeOK, Goto
  <2>2. i - 1 = dc.counter /\ dc.counter \in Nat
    BY <1>1, <1>3, NAssumption, SMTT(30) DEF TypeOK
  <2>3. ~Rest' /\ pc'["mqtt"] # "apply"
    BY <2>1 DEF Rest, TypeOK
  <2>4. \A n \in Endpoints : held[n] \subseteq held'[n]
    BY <1>1, <2>3, HeldGrows
  <2>5. \A n \in Endpoints : Clicked(n) => Clicked(n)'
    BY <1>1, <2>1 DEF Clicked, TypeOK
  <2>6. PICK c \in Nat : c = dc.counter
    BY <2>2
  <2>7. Right(c)
    BY <1>1, <2>2, <2>6
  <2>8. Right(c)'
    BY <1>1, <2>1, <2>4, <2>5, <2>7, RightStays
  <2>9. Right(dc.counter)'
    BY <2>8, <2>6, <1>1 DEF Right, SpokenFor
  <2>10. \A t \in Updaters \ mixed' : pc'[t] # "write"
    BY <1>1, <2>1 DEF TypeOK
  <2> QED
    BY <2>3, <2>9, <2>10 DEF Faithful
<1> QED
  BY <1>2, <1>3 DEF TypeOK

LEMMA ElsewhereFaithful ==
  ASSUME Shape, Shape', Faithful,
         AskForUpdate \/ Query \/ QueryEnd \/ SessionChange \/ Probe
  PROVE  Faithful'
<1> USE DEF Shape
<1>1. /\ dc' = dc /\ load' = load /\ idx' = idx /\ val' = val /\ clicked' = clicked
      /\ mixed' = mixed /\ \E u, r : Mark(u, r)
  BY DEF AskForUpdate, Query, QueryEnd, SessionChange, Probe, Keep, Loses
<1>2. pc' = pc \/ (\E p \in {"idle", "answer"} : pc' = [pc EXCEPT !["mqtt"] = p])
  BY DEF AskForUpdate, Query, QueryEnd, SessionChange, Probe, Goto
<1>3. asked' => asked \/ pc["mqtt"] = "delay"
  BY DEF AskForUpdate, Query, QueryEnd, SessionChange, Probe, Keep
<1>4. Reading' => Reading
  BY <1>1, <1>2, <1>3 DEF Reading, TypeOK
<1>5. \A n \in Endpoints : Clicked(n) => Clicked(n)'
  BY <1>1, <1>2 DEF Clicked, TypeOK
<1>6. /\ pc'["mqtt"] = "apply" => pc["mqtt"] = "apply"
      /\ \A t \in Updaters \ mixed' : pc'[t] = "write" =>
            idx'[t] <= dc.counter /\ val'[t] = dc.info[idx'[t]].set_value
  BY <1>1, <1>2 DEF Faithful, TypeOK
<1> QED
  BY <1>1, <1>4, <1>5, <1>6, FaithfulStays

LEMMA PowerCycleFaithful ==
  ASSUME PowerCycle PROVE Faithful'
<1>1. pc' = [t \in Threads |-> "idle"] /\ asked' = FALSE
  BY DEF PowerCycle
<1>2. ~Reading' /\ pc'["mqtt"] # "apply" /\ \A t \in Updaters : pc'[t] # "write"
  BY <1>1 DEF Reading, InUse
<1> QED
  BY <1>2, NobodyReads

LEMMA StutterFaithful == ASSUME Faithful, UNCHANGED vars PROVE Faithful'
BY DEF Faithful, Reading, Right, SpokenFor, Clicked

-----------------------------------------------------------------------------
(* Flash follows the loads.                                                *)

\* It is enough to follow the endpoints that are not marked.
LEMMA MarkedFlash ==
  ASSUME NEW u, NEW r, Mark(u, r),
         \A n \in Endpoints : n \notin unsaved \cup u => Saved(n)' \/ Carried(n)'
  PROVE  Flashed'
BY DEF Mark, Flashed, Saved

\* A step that loses nothing unmarked.
LEMMA LosesFlash ==
  ASSUME Flashed, load' = load, flash' = flash, NEW r, Loses(r) PROVE Flashed'
<1> DEFINE u == { n \in Endpoints : Carried(n) /\ ~Carried(n)' }
<1>1. Mark(u, r \cup Unannounced)
  BY DEF Loses
<1>2. \A n \in Endpoints : n \notin unsaved \cup u => Saved(n)' \/ Carried(n)'
  BY DEF Flashed, Saved
<1> HIDE DEF u
<1> QED
  BY <1>1, <1>2, MarkedFlash

\* A step that leaves loads and flash alone, and all that is on its way.
LEMMA CarriedFlash ==
  ASSUME Flashed, load' = load, flash' = flash, NEW u, NEW r, Mark(u, r),
         \A n \in Endpoints : Carried(n) => Carried(n)'
  PROVE  Flashed'
<1>1. \A n \in Endpoints : n \notin unsaved \cup u => Saved(n)' \/ Carried(n)'
  BY DEF Flashed, Saved
<1> QED
  BY <1>1, MarkedFlash

\* What is recorded of an endpoint stays, and what is left of an update whose thread
\* does not move.
LEMMA RecordedStays ==
  ASSUME NEW n \in Endpoints, Recorded(n), load'[n] = load[n],
         dc'.info = dc.info, dc'.counter = dc.counter
  PROVE  Recorded(n)'
BY DEF Recorded, Entry

LEMMA LeftStays ==
  ASSUME NEW n \in Endpoints, NEW t \in Updaters, Left(t, n), load'[n] = load[n],
         dc'.info = dc.info, dc'.counter = dc.counter,
         pc'[t] = pc[t], idx'[t] = idx[t], val'[t] = val[t]
  PROVE  Left(t, n)'
BY RecordedStays DEF Left, Entry, Recorded

\* A step of the thread t that changes neither the record nor a load, nor what the
\* record is for.
LEMMA UpdaterCarries ==
  ASSUME NEW n \in Endpoints, NEW t \in Updaters, Carried(n),
         dc'.info = dc.info, dc'.counter = dc.counter, load' = load, clicked' = clicked,
         asked' = asked, pc'["mqtt"] = pc["mqtt"], pc[t] # "fill",
         \A s \in Updaters \ {t} : pc'[s] = pc[s] /\ idx'[s] = idx[s] /\ val'[s] = val[s],
         Left(t, n) => Left(t, n)'
  PROVE  Carried(n)'
<1>1. CASE Clicked(n)
  BY <1>1 DEF Clicked, Carried
<1>2. CASE ToCome /\ Recorded(n)
  BY <1>2, RecordedStays DEF ToCome, Carried
<1>3. ASSUME NEW s \in Updaters, Left(s, n) PROVE Left(s, n)'
  BY <1>3, LeftStays
<1> QED
  BY <1>1, <1>2, <1>3 DEF Carried

LEMMA ClickFlash ==
  ASSUME Shape, Flashed, NEW m \in Endpoints, Click(m) PROVE Flashed'
<1> USE DEF Shape
<1>1. /\ pc' = [pc EXCEPT !["gpio"] = "fill"] /\ pc["gpio"] = "idle"
      /\ load' = [load EXCEPT ![m] = 1 - load[m]] /\ clicked' = m /\ flash' = flash
      /\ dc' = dc /\ idx' = idx /\ val' = val /\ asked' = asked /\ Mark({}, {})
  BY DEF Click, Goto, Keep
<1>2. ASSUME NEW n \in Endpoints, n \notin unsaved \cup {}
      PROVE  Saved(n)' \/ Carried(n)'
  <2>1. CASE n = m
    BY <2>1, <1>1 DEF Carried, Clicked, TypeOK
  <2>2. CASE n # m
    <3>1. load'[n] = load[n]
      BY <2>2, <1>1 DEF TypeOK
    <3>2. Saved(n) => Saved(n)'
      BY <3>1, <1>1 DEF Saved
    <3>3. ~Clicked(n)
      BY <1>1 DEF Clicked
    <3>4. ToCome /\ Recorded(n) => Carried(n)'
      BY <3>1, <1>1, RecordedStays DEF Carried, ToCome, TypeOK
    <3>5. ~Left("gpio", n)
      BY <1>1 DEF Left
    <3>6. Left("app", n) => Carried(n)'
      BY <3>1, <1>1, LeftStays DEF Carried, TypeOK
    <3> QED
      BY <1>2, <3>2, <3>3, <3>4, <3>5, <3>6 DEF Flashed, Carried
  <2> QED
    BY <2>1, <2>2
<1> QED
  BY <1>1, <1>2, MarkedFlash

LEMMA PollFlash ==
  ASSUME Shape, Flashed, Poll PROVE Flashed'
<1> USE DEF Shape
<1>1. /\ pc' = [pc EXCEPT !["app"] = "update"] /\ pc["app"] = "idle"
      /\ load' = load /\ clicked' = clicked /\ flash' = flash
      /\ dc' = dc /\ idx' = idx /\ val' = val /\ Mark({}, {})
  BY DEF Poll, Goto
<1>2. ASSUME NEW n \in Endpoints, Carried(n) PROVE Carried(n)'
  <2>1. CASE Clicked(n)
    BY <2>1, <1>1 DEF Clicked, Carried, TypeOK
  <2>2. CASE Recorded(n)
    <3>1. Left("app", n)'
      BY <2>2, <1>1, RecordedStays DEF Left, TypeOK
    <3> QED
      BY <3>1 DEF Carried
  <2>3. CASE Left("gpio", n)
    BY <2>3, <1>1, LeftStays DEF Carried, TypeOK
  <2>4. ~Left("app", n)
    BY <1>1 DEF Left
  <2> QED
    BY <1>2, <2>1, <2>2, <2>3, <2>4 DEF Carried
<1> QED
  BY <1>1, <1>2, CarriedFlash

LEMMA StatusUpdateFlash ==
  ASSUME Shape, Flashed, NEW t \in Updaters, StatusUpdate(t) PROVE Flashed'
<1> USE DEF Shape
<1>1. /\ \E p \in {"publish", "save"} : pc' = [pc EXCEPT ![t] = p]
      /\ idx' = [idx EXCEPT ![t] = 1] /\ val' = val /\ pc[t] = "update"
      /\ dc'.info = dc.info /\ dc'.counter = dc.counter /\ load' = load /\ flash' = flash
      /\ clicked' = clicked /\ asked' = asked /\ \E u, r : Mark(u, r)
  BY DEF StatusUpdate, Goto, TypeOK
<1>2. ASSUME NEW n \in Endpoints, Left(t, n) PROVE Left(t, n)'
  BY <1>1, <1>2 DEF Left, Recorded, Entry, TypeOK
<1>3. \A n \in Endpoints : Carried(n) => Carried(n)'
  BY <1>1, <1>2, UpdaterCarries DEF TypeOK
<1> QED
  BY <1>1, <1>3, CarriedFlash

LEMMA PublishFlash ==
  ASSUME Shape, Flashed, NEW t \in Updaters, Publish(t) PROVE Flashed'
<1> USE DEF Shape
<1>1. /\ pc' = [pc EXCEPT ![t] = "save"] /\ idx' = idx /\ val' = val /\ pc[t] = "publish"
      /\ dc' = dc /\ load' = load /\ flash' = flash
      /\ clicked' = clicked /\ asked' = asked /\ Mark({}, Known)
  BY DEF Publish, Goto
<1>2. ASSUME NEW n \in Endpoints, Left(t, n) PROVE Left(t, n)'
  BY <1>1, <1>2 DEF Left, Entry, TypeOK
<1>3. \A n \in Endpoints : Carried(n) => Carried(n)'
  BY <1>1, <1>2, UpdaterCarries DEF TypeOK
<1> QED
  BY <1>1, <1>3, CarriedFlash

LEMMA SaveBeginFlash ==
  ASSUME Shape, Flashed, NEW t \in Updaters, SaveBegin(t) PROVE Flashed'
<1> USE DEF Shape
<1>1. /\ pc' = [pc EXCEPT ![t] = "write"] /\ idx' = idx /\ pc[t] = "save"
      /\ val' = [val EXCEPT ![t] = dc.info[idx[t]].set_value]
      /\ dc' = dc /\ load' = load /\ flash' = flash
      /\ clicked' = clicked /\ asked' = asked /\ Mark({}, {})
  BY DEF SaveBegin, Goto, Keep
<1>2. ASSUME NEW n \in Endpoints, Left(t, n) PROVE Left(t, n)'
  <2>1. PICK i \in idx[t] .. dc.counter : Entry(i, n)
    BY <1>1, <1>2 DEF Left
  <2>2. i = idx[t] \/ i \in idx[t] + 1 .. dc.counter
    BY <2>1, NAssumption DEF TypeOK
  <2> QED
    BY <1>1, <2>1, <2>2 DEF Left, Entry, TypeOK
<1>3. \A n \in Endpoints : Carried(n) => Carried(n)'
  BY <1>1, <1>2, UpdaterCarries DEF TypeOK
<1> QED
  BY <1>1, <1>3, CarriedFlash

LEMMA SaveWriteFlash ==
  ASSUME Shape, Faithful, Flashed, NEW t \in Updaters, SaveWrite(t) PROVE Flashed'
<1> USE DEF Shape
<1> DEFINE k == dc.info[idx[t]].endpoint
           u == IF t \in mixed THEN {k} \cap Endpoints ELSE {}
<1>1. /\ pc' = [pc EXCEPT ![t] = "save"] /\ idx' = [idx EXCEPT ![t] = idx[t] + 1]
      /\ pc[t] = "write" /\ val' = [val EXCEPT ![t] = 0]
      /\ dc' = dc /\ load' = load /\ flash' = [flash EXCEPT ![k] = val[t]]
      /\ clicked' = clicked /\ asked' = asked
  BY DEF SaveWrite, Goto, TypeOK
<1>2. Mark(u, {})
  BY DEF SaveWrite
<1>3. idx[t] \in Endpoints /\ k \in Nodes /\ idx[t] \in Nat /\ val[t] \in Level
  BY <1>1, NAssumption DEF Places, TypeOK, Endpoints
<1>4. ASSUME NEW n \in Endpoints, n # k \/ val[t] # load[n], Carried(n) PROVE Carried(n)'
  <2>1. ASSUME Left(t, n) PROVE Left(t, n)'
    BY <1>1, <1>3, <1>4, <2>1 DEF Left, Entry, TypeOK
  <2> QED
    BY <1>1, <1>4, <2>1, UpdaterCarries DEF TypeOK
<1>5. ASSUME NEW n \in Endpoints, n \notin unsaved \cup u PROVE Saved(n)' \/ Carried(n)'
  <2>1. CASE n # k
    <3>1. Saved(n) => Saved(n)'
      BY <2>1, <1>1, <1>3, Numbers DEF Saved, TypeOK
    <3> QED
      BY <2>1, <3>1, <1>4, <1>5 DEF Flashed
  <2>2. CASE n = k /\ val[t] = load[n]
    <3>1. flash'[n] = val[t]
      BY <2>2, <1>1, <1>3 DEF TypeOK
    <3> QED
      BY <2>2, <3>1, <1>1, <1>3 DEF Saved, Restored, Level
  <2>3. CASE n = k /\ val[t] # load[n]
    <3>1. t \notin mixed
      BY <2>3, <1>5
    <3>2. /\ idx[t] <= dc.counter /\ val[t] = dc.info[idx[t]].set_value
          /\ Right(dc.counter)
      BY <3>1, <1>1 DEF Faithful, Reading, InUse
    <3>3. SpokenFor(idx[t], dc.counter)
      BY <3>2, <1>3 DEF Right, TypeOK, Endpoints
    <3>4. PICK j \in idx[t] .. dc.counter :
            /\ dc.info[j].endpoint = n
            /\ dc.info[j].set_value = load[n] \/ Clicked(n)
      BY <2>3, <3>3 DEF SpokenFor
    <3>5. CASE Clicked(n)
      <4>1. Clicked(n)'
        BY <3>5, <1>1 DEF Clicked, TypeOK
      <4> QED
        BY <4>1 DEF Carried
    <3>6. CASE dc.info[j].set_value = load[n]
      <4>1. j # idx[t]
        BY <2>3, <3>2, <3>6
      <4>2. j \in idx[t] + 1 .. dc.counter
        BY <3>4, <4>1, <1>3 DEF TypeOK
      <4>3. Left(t, n)'
        BY <1>1, <3>4, <3>6, <4>2 DEF Left, Entry, TypeOK
      <4> QED
        BY <4>3 DEF Carried
    <3> QED
      BY <3>4, <3>5, <3>6
  <2> QED
    BY <2>1, <2>2, <2>3
<1> HIDE DEF u
<1> QED
  BY <1>2, <1>5, MarkedFlash

LEMMA ControlEndpointFlash ==
  ASSUME Shape, Flashed, ControlEndpoint PROVE Flashed'
<1> USE DEF Shape
<1> DEFINE i == idx["mqtt"]
           k == dc.info[i].endpoint
<1>1. /\ dc' = dc /\ val' = val /\ clicked' = clicked /\ asked' = asked /\ flash' = flash
      /\ pc["mqtt"] = "apply" /\ Mark({}, {}) /\ ToCome
  BY DEF ControlEndpoint, Keep, ToCome
<1>2. CASE i <= dc.counter
  <2>1. /\ load' = [load EXCEPT ![k] = dc.info[i].set_value] /\ pc' = pc
        /\ idx'["gpio"] = idx["gpio"] /\ idx'["app"] = idx["app"]
    BY <1>2 DEF ControlEndpoint, TypeOK
  <2>2. i \in 1 .. dc.counter /\ k \in Endpoints
    BY <1>1, <1>2, NAssumption DEF TypeOK, Masters
  <2>3. ASSUME NEW n \in Endpoints, n \notin unsaved \cup {} PROVE Saved(n)' \/ Carried(n)'
    <3>1. CASE n = k
      <4>1. Recorded(n)'
        BY <3>1, <2>1, <2>2, <1>1 DEF Recorded, Entry, TypeOK
      <4> QED
        BY <4>1, <1>1, <2>1 DEF Carried, ToCome
    <3>2. CASE n # k
      <4>1. load'[n] = load[n]
        BY <3>2, <2>1, <2>2 DEF TypeOK
      <4>2. Saved(n) => Saved(n)'
        BY <4>1, <1>1 DEF Saved
      <4>3. Clicked(n) => Carried(n)'
        BY <1>1, <2>1 DEF Clicked, Carried
      <4>4. Recorded(n) => Carried(n)'
        BY <1>1, <2>1, <4>1, RecordedStays DEF ToCome, Carried
      <4>5. ASSUME NEW t \in Updaters, Left(t, n) PROVE Carried(n)'
        BY <1>1, <2>1, <4>1, <4>5, LeftStays DEF Carried
      <4> QED
        BY <2>3, <4>2, <4>3, <4>4, <4>5 DEF Flashed, Carried
    <3> QED
      BY <3>1, <3>2
  <2> QED
    BY <1>1, <2>3, MarkedFlash
<1>3. CASE i > dc.counter
  <2>1. load' = load /\ pc' = [pc EXCEPT !["mqtt"] = "delay"]
        /\ idx'["gpio"] = idx["gpio"] /\ idx'["app"] = idx["app"]
    BY <1>3 DEF ControlEndpoint, TypeOK, Goto
  <2>2. ASSUME NEW n \in Endpoints, Carried(n) PROVE Carried(n)'
    <3>1. CASE Clicked(n)
      BY <1>1, <2>1, <3>1 DEF Clicked, Carried, TypeOK
    <3>2. CASE Recorded(n)
      BY <1>1, <2>1, <3>2, RecordedStays DEF ToCome, Carried, TypeOK
    <3>3. ASSUME NEW t \in Updaters, Left(t, n) PROVE Carried(n)'
      BY <1>1, <2>1, <3>3, LeftStays DEF Carried, TypeOK
    <3> QED
      BY <2>2, <3>1, <3>2, <3>3 DEF Carried
  <2> QED
    BY <1>1, <2>1, <2>2, CarriedFlash
<1> QED
  BY <1>2, <1>3 DEF TypeOK

LEMMA ElsewhereFlash ==
  ASSUME Shape, Flashed, ParseEnd \/ AskForUpdate \/ Query \/ SessionChange \/ Probe
  PROVE  Flashed'
<1> USE DEF Shape
<1>1. /\ dc' = dc /\ load' = load /\ idx' = idx /\ val' = val /\ clicked' = clicked
      /\ flash' = flash /\ Mark({}, {})
  BY DEF ParseEnd, AskForUpdate, Query, SessionChange, Probe, Keep
<1>2. \A t \in Updaters : pc'[t] = pc[t]
  BY DEF ParseEnd, ParseDone, AskForUpdate, Query, SessionChange, Probe, Goto, TypeOK
<1>3. ToCome => ToCome'
  BY DEF ToCome, ParseEnd, ParseDone, AskForUpdate, Query, SessionChange, Probe, Goto, Keep, TypeOK
<1>4. ASSUME NEW n \in Endpoints, Carried(n) PROVE Carried(n)'
  <2>1. CASE Clicked(n)
    BY <1>1, <1>2, <2>1 DEF Clicked, Carried
  <2>2. CASE ToCome /\ Recorded(n)
    BY <1>1, <1>3, <2>2, RecordedStays DEF Carried
  <2>3. ASSUME NEW t \in Updaters, Left(t, n) PROVE Carried(n)'
    BY <1>1, <1>2, <2>3, LeftStays DEF Carried
  <2> QED
    BY <1>4, <2>1, <2>2, <2>3 DEF Carried
<1> QED
  BY <1>1, <1>4, CarriedFlash

\* The steps that may take an endpoint's level off its way mark it.
LEMMA LosersFlash ==
  ASSUME Flashed,
         \/ FillRecord \/ \E t \in Updaters : SaveEnd(t)
         \/ \E d \in Arrays : ReceiveControl(d)
         \/ Resync \/ ResyncPublish \/ ParseElement \/ QueryEnd
  PROVE  Flashed'
<1>1. load' = load /\ flash' = flash /\ \E r : Loses(r)
  BY DEF FillRecord, SaveEnd, ReceiveControl, Resync, ResyncPublish, ParseElement,
         QueryEnd, Rewrites
<1> QED
  BY <1>1, LosesFlash

LEMMA PowerCycleFlash == ASSUME PowerCycle PROVE Flashed'
BY DEF PowerCycle, Flashed, Saved

LEMMA StutterFlash == ASSUME Flashed, UNCHANGED vars PROVE Flashed'
BY DEF Flashed, Saved, Carried, Clicked, ToCome, Recorded, Left, Entry

-----------------------------------------------------------------------------
(* What flash holds was a level of the load.                               *)

LEMMA MarkedReal ==
  ASSUME Shape', Flashed', Real, NEW u, NEW r, Mark(u, r),
         \A n \in Endpoints :
           \/ n \in u \/ flash'[n] = flash[n] \/ Restored(flash'[n]) \in held[n]
  PROVE  Real'
<1> SUFFICES ASSUME NEW n \in Endpoints
             PROVE  /\ load'[n] \in held'[n]
                    /\ n \in unsaved' \/ Restored(flash'[n]) \in held'[n]
  BY DEF Real, Restored
<1>1. load'[n] \in held'[n] /\ (~Rest' => held[n] \subseteq held'[n])
  BY HeldGrows
<1>2. CASE Rest'
  <2>1. ~Carried(n)'
    BY <1>2 DEF Shape, Places, Rest, Carried, Clicked, ToCome, Left
  <2>2. Saved(n)' \/ n \in unsaved'
    BY <2>1 DEF Flashed
  <2> QED
    BY <1>1, <2>2 DEF Saved
<1>3. CASE ~Rest'
  <2>1. n \in unsaved \cup u => n \in unsaved' \/ Restored(flash'[n]) = load'[n]
    BY DEF Mark, Saved
  <2>2. n \notin unsaved \cup u => Restored(flash'[n]) \in held[n]
    BY DEF Real
  <2> QED
    BY <1>1, <1>3, <2>1, <2>2
<1> QED
  BY <1>2, <1>3

LEMMA SaveWriteReal ==
  ASSUME Shape, Shape', Faithful, Flashed', Real, NEW t \in Updaters, SaveWrite(t)
  PROVE  Real'
<1> USE DEF Shape
<1> DEFINE k == dc.info[idx[t]].endpoint
           u == IF t \in mixed THEN {k} \cap Endpoints ELSE {}
<1>1. /\ pc[t] = "write" /\ flash' = [flash EXCEPT ![k] = val[t]] /\ Mark(u, {})
  BY DEF SaveWrite
<1>2. idx[t] \in Endpoints /\ k \in Nodes /\ val[t] \in Level
  <2>1. idx[t] \in 1 .. N + 1 /\ idx[t] <= N /\ val[t] \in Level
    BY <1>1 DEF Places, TypeOK
  <2>2. idx[t] \in Endpoints
    BY <2>1, NAssumption DEF Endpoints
  <2> QED
    BY <2>1, <2>2 DEF TypeOK
<1>3. ASSUME NEW n \in Endpoints, n \notin u, n = k
      PROVE  Restored(flash'[n]) \in held[n]
  <2>1. t \notin mixed
    BY <1>3
  <2>2. /\ idx[t] <= dc.counter /\ val[t] = dc.info[idx[t]].set_value
        /\ Right(dc.counter)
    BY <2>1, <1>1 DEF Faithful, Reading, InUse
  <2>3. val[t] \in held[k]
    <3>1. idx[t] \in 1 .. dc.counter
      BY <2>2, <1>2, SMTT(30) DEF TypeOK, Endpoints
    <3> QED
      BY <2>2, <3>1 DEF Right
  <2>4. flash'[n] = val[t]
    BY <1>1, <1>2, <1>3 DEF TypeOK
  <2> QED
    BY <1>2, <1>3, <2>3, <2>4 DEF Restored, Level
<1>4. \A n \in Endpoints : n # k => flash'[n] = flash[n]
  BY <1>1, <1>2, Numbers DEF TypeOK
<1>5. \A n \in Endpoints :
        n \in u \/ flash'[n] = flash[n] \/ Restored(flash'[n]) \in held[n]
  BY <1>3, <1>4
<1> HIDE DEF u
<1> QED
  BY <1>1, <1>5, MarkedReal

LEMMA OthersReal ==
  ASSUME Shape', Flashed', Real, flash' = flash, NEW u, NEW r, Mark(u, r) PROVE Real'
BY MarkedReal

\* Every step but that of SaveWrite leaves flash alone, and every step marks.
LEMMA WhoWrites ==
  ASSUME Next
  PROVE  \/ \E t \in Updaters : SaveWrite(t)
         \/ flash' = flash /\ \E u, r : Mark(u, r)
<1>1. ASSUME NEW n \in Endpoints, Click(n) PROVE flash' = flash /\ \E u, r : Mark(u, r)
  BY <1>1 DEF Click, Keep
<1>2. ASSUME NEW d \in Arrays, ReceiveControl(d) PROVE flash' = flash /\ \E u, r : Mark(u, r)
  BY <1>2 DEF ReceiveControl, Rewrites, Loses
<1>3. ASSUME Resync \/ ResyncPublish \/ FillRecord PROVE flash' = flash /\ \E u, r : Mark(u, r)
  BY <1>3 DEF Resync, ResyncPublish, FillRecord, Rewrites, Loses
<1>4. ASSUME ParseElement \/ QueryEnd PROVE flash' = flash /\ \E u, r : Mark(u, r)
  BY <1>4 DEF ParseElement, QueryEnd, Loses
<1>5. ASSUME Poll \/ ParseEnd \/ ControlEndpoint \/ AskForUpdate \/ Query
      PROVE flash' = flash /\ \E u, r : Mark(u, r)
  BY <1>5 DEF Poll, ParseEnd, ControlEndpoint, AskForUpdate, Query, Keep
<1>6. ASSUME SessionChange \/ Probe \/ PowerCycle PROVE flash' = flash /\ \E u, r : Mark(u, r)
  BY <1>6 DEF SessionChange, Probe, PowerCycle, Keep
<1>7. ASSUME NEW t \in Updaters, StatusUpdate(t) \/ Publish(t)
      PROVE flash' = flash /\ \E u, r : Mark(u, r)
  BY <1>7 DEF StatusUpdate, Publish
<1>8. ASSUME NEW t \in Updaters, SaveBegin(t) \/ SaveEnd(t)
      PROVE flash' = flash /\ \E u, r : Mark(u, r)
  BY <1>8 DEF SaveBegin, SaveEnd, Keep, Loses
<1> QED
  BY <1>1, <1>2, <1>3, <1>4, <1>5, <1>6, <1>7, <1>8
     DEF Next, GpioStep, AppStep, MqttStep, UpdateStep

LEMMA InitIInv == Init => IInv
<1> SUFFICES ASSUME Init PROVE IInv
  OBVIOUS
<1>1. Shape
  BY InitShape
<1>2. Faithful
  BY DEF Init, Faithful, Reading, InUse
<1>3. Flashed
  BY NAssumption, NotSavedAssumption
     DEF Init, Flashed, Saved, Restored, Level, Nodes, Endpoints
<1>4. Real
  BY NAssumption, NotSavedAssumption DEF Init, Real, Restored, Level, Nodes, Endpoints
<1> QED
  BY <1>1, <1>2, <1>3, <1>4 DEF IInv

LEMMA NextIInv == IInv /\ [Next]_vars => IInv'
<1> SUFFICES ASSUME IInv, [Next]_vars PROVE IInv'
  OBVIOUS
<1>1. Shape'
  BY NextShape DEF IInv
<1>2. Faithful'
  BY <1>1, ClickFaithful, FillRecordFaithful, PollFaithful, UpdateFaithful, MqttFaithful,
     ParseEndFaithful, ControlEndpointFaithful, ElsewhereFaithful, PowerCycleFaithful,
     StutterFaithful DEF IInv, Next, GpioStep, AppStep, MqttStep, UpdateStep
<1>3. Flashed'
  BY ClickFlash, PollFlash, StatusUpdateFlash, PublishFlash, SaveBeginFlash, SaveWriteFlash,
     ControlEndpointFlash, ElsewhereFlash, LosersFlash, PowerCycleFlash, StutterFlash
     DEF IInv, Next, GpioStep, AppStep, MqttStep, UpdateStep
<1>4. Real'
  <2>1. CASE Next
    BY <2>1, <1>1, <1>3, WhoWrites, SaveWriteReal, OthersReal DEF IInv
  <2>2. CASE UNCHANGED vars
    BY <2>2 DEF IInv, Real
  <2> QED
    BY <2>1, <2>2
<1> QED
  BY <1>1, <1>2, <1>3, <1>4 DEF IInv

LEMMA AlwaysIInv == Spec => []IInv
BY InitIInv, NextIInv, PTL DEF Spec

\* At rest flash brings the loads back, but for the endpoints whose level another
\* thread took out of the record or the request before it was saved.
THEOREM FlashIsRight == Spec => []FlashFollowsLoad
<1>1. IInv => FlashFollowsLoad
  BY RestCarriesNothing DEF IInv, Shape, Flashed, FlashFollowsLoad
<1> QED
  BY AlwaysIInv, <1>1, PTL

\* A power failure takes a load to a level it had since the last rest, with the same
\* exception.
THEOREM RestoredWasReal == Spec => RestoredLevelWasReal
<1>1. IInv /\ [Next]_vars =>
        [boots' # boots => \A n \in Endpoints : load'[n] \in held[n] \/ n \in unsaved]_vars
  <2> SUFFICES ASSUME IInv, Next, boots' # boots, NEW n \in Endpoints
               PROVE  load'[n] \in held[n] \/ n \in unsaved
    OBVIOUS
  <2>1. PowerCycle
    BY DEF Next, GpioStep, AppStep, MqttStep, UpdateStep, Click, ReceiveControl, Resync, Query,
           FillRecord, Poll, StatusUpdate, Publish, SaveBegin, SaveWrite, SaveEnd,
           ParseElement, ParseEnd, ControlEndpoint, AskForUpdate, ResyncPublish, QueryEnd,
           SessionChange, Probe
  <2>2. load'[n] = Restored(flash[n])
    BY <2>1 DEF PowerCycle
  <2> QED
    BY <2>2 DEF IInv, Real
<1> QED
  BY AlwaysIInv, <1>1, PTL DEF Spec, RestoredLevelWasReal

-----------------------------------------------------------------------------
(* The cloud knows the levels.                                             *)

\* What the cloud does not know is announced or marked, in a session in which all
\* levels were sent; while they are being sent, what the report does not say either.
Known1(n) == cloud[n] = load[n] \/ n \in untold \/ Announced(n)
Reported ==
  /\ synced # "no" => connected
  /\ synced = "sending" => pc["mqtt"] = "publish"
  /\ synced = "sending" => \A n \in Endpoints :
       json["mqtt"][n] \in Level /\ (json["mqtt"][n] = load[n] \/ Known1(n))
  /\ synced = "yes" => \A n \in Endpoints : Known1(n)

LEMMA InitReported == Init => Reported
BY DEF Init, Reported

\* Loads, cloud and the report of all levels stay, and so does what is announced.
LEMMA ReportedStays ==
  ASSUME Reported, NEW u, NEW r, Mark(u, r),
         load' = load, cloud' = cloud, json'["mqtt"] = json["mqtt"],
         synced' = synced, connected' = connected,
         pc["mqtt"] = "publish" => pc'["mqtt"] = "publish",
         \A n \in Endpoints : Announced(n) => Announced(n)' \/ n \in r
  PROVE  Reported'
<1>1. ASSUME NEW n \in Endpoints, Known1(n) PROVE Known1(n)'
  BY <1>1 DEF Known1, Mark
<1> QED
  BY <1>1 DEF Reported

LEMMA LosesReported ==
  ASSUME Reported, load' = load, cloud' = cloud, json' = json, synced' = synced,
         connected' = connected, NEW r, Loses(r),
         pc["mqtt"] = "publish" => pc'["mqtt"] = "publish"
  PROVE  Reported'
<1> DEFINE u == { n \in Endpoints : Carried(n) /\ ~Carried(n)' }
           q == r \cup Unannounced
<1>1. Mark(u, q)
  BY DEF Loses
<1>2. \A n \in Endpoints : Announced(n) => Announced(n)' \/ n \in q
  BY DEF Unannounced
<1> HIDE DEF u, q
<1> QED
  BY <1>1, <1>2, ReportedStays

LEMMA NamedStays ==
  ASSUME NEW n \in Endpoints, Named(n), dc'.info = dc.info, dc'.counter = dc.counter
  PROVE  Named(n)'
BY DEF Named

LEMMA ClickReported ==
  ASSUME Shape, Reported, NEW m \in Endpoints, Click(m) PROVE Reported'
<1> USE DEF Shape
<1>1. /\ pc' = [pc EXCEPT !["gpio"] = "fill"] /\ pc["gpio"] = "idle"
      /\ load' = [load EXCEPT ![m] = 1 - load[m]] /\ clicked' = m /\ cloud' = cloud
      /\ dc' = dc /\ json' = json /\ asked' = asked /\ Mark({}, {})
      /\ synced' = synced /\ connected' = connected
  BY DEF Click, Goto, Keep
<1>2. ASSUME NEW n \in Endpoints
      PROVE  \/ n = m /\ Announced(n)'
             \/ load'[n] = load[n] /\ (Announced(n) => Announced(n)')
  <2>1. CASE n = m
    BY <2>1, <1>1 DEF Announced, Clicked, TypeOK
  <2>2. CASE n # m
    <3>1. load'[n] = load[n]
      BY <2>2, <1>1 DEF TypeOK
    <3>2. ~Clicked(n) /\ (ToCome => ToCome')
      BY <1>1 DEF Clicked, ToCome, TypeOK
    <3>3. \A t \in Updaters : pc[t] \in {"update", "publish"} => pc'[t] = pc[t]
      BY <1>1 DEF TypeOK
    <3> QED
      BY <1>1, <3>1, <3>2, <3>3, NamedStays DEF Announced
  <2> QED
    BY <2>1, <2>2
<1>3. ASSUME NEW n \in Endpoints, Known1(n) PROVE Known1(n)'
  BY <1>1, <1>2, <1>3 DEF Known1, Mark
<1>4. \A n \in Endpoints : json["mqtt"][n] = load[n] => json'["mqtt"][n] = load'[n] \/ Known1(n)'
  BY <1>1, <1>2 DEF Known1
<1>5. pc'["mqtt"] = pc["mqtt"]
  BY <1>1 DEF TypeOK
<1> QED
  BY <1>1, <1>3, <1>4, <1>5 DEF Reported

LEMMA PollReported ==
  ASSUME Shape, Reported, Poll PROVE Reported'
<1> USE DEF Shape
<1>1. /\ pc' = [pc EXCEPT !["app"] = "update"] /\ pc["app"] = "idle"
      /\ load' = load /\ clicked' = clicked /\ cloud' = cloud /\ json' = json
      /\ dc' = dc /\ Mark({}, {}) /\ synced' = synced /\ connected' = connected
  BY DEF Poll, Goto
<1>2. ASSUME NEW n \in Endpoints, Announced(n) PROVE Announced(n)'
  <2>1. Clicked(n) => Clicked(n)'
    BY <1>1 DEF Clicked, TypeOK
  <2>2. pc'["app"] = "update" /\ pc'["gpio"] = pc["gpio"]
    BY <1>1 DEF TypeOK
  <2> QED
    BY <1>1, <1>2, <2>1, <2>2, NamedStays DEF Announced
<1>3. pc'["mqtt"] = pc["mqtt"]
  BY <1>1 DEF TypeOK
<1> QED
  BY <1>1, <1>2, <1>3, ReportedStays

\* A step of the thread t that changes neither the record nor a load, nor what the
\* record is for.
LEMMA UpdaterAnnounces ==
  ASSUME NEW n \in Endpoints, NEW t \in Updaters, Announced(n),
         dc'.info = dc.info, dc'.counter = dc.counter, load' = load, clicked' = clicked,
         asked' = asked, pc'["mqtt"] = pc["mqtt"], pc[t] # "fill",
         \A s \in Updaters \ {t} : pc'[s] = pc[s] /\ json'[s] = json[s]
  PROVE  \/ Announced(n)'
         \/ pc[t] = "update" /\ Named(n)
         \/ pc[t] = "publish" /\ json[t][n] = load[n]
<1>1. Clicked(n) => Clicked(n)'
  BY DEF Clicked
<1>2. ToCome => ToCome'
  BY DEF ToCome
<1>3. Named(n) => Named(n)'
  BY NamedStays
<1> QED
  BY <1>1, <1>2, <1>3 DEF Announced

LEMMA StatusUpdateReported ==
  ASSUME Shape, Reported, NEW t \in Updaters, StatusUpdate(t) PROVE Reported'
<1> USE DEF Shape
<1>1. /\ \E p \in {"publish", "save"} : pc' = [pc EXCEPT ![t] = p]
      /\ pc[t] = "update" /\ synced' = synced /\ connected' = connected /\ internet' = internet
      /\ dc'.info = dc.info /\ dc'.counter = dc.counter /\ load' = load /\ cloud' = cloud
      /\ clicked' = clicked /\ asked' = asked
      /\ Mark({}, IF internet THEN {} ELSE Unannounced)
  BY DEF StatusUpdate, Goto, TypeOK
<1>2. pc'["mqtt"] = pc["mqtt"] /\ json'["mqtt"] = json["mqtt"]
      /\ \A s \in Updaters \ {t} : pc'[s] = pc[s] /\ json'[s] = json[s]
  BY <1>1 DEF StatusUpdate, TypeOK
<1>3. CASE synced = "no"
  BY <1>1, <1>3 DEF Reported
<1>4. CASE synced # "no" /\ internet
  <2>1. connected
    BY <1>4 DEF Reported
  <2>2. dc'.call_type = 0 /\ json' = [json EXCEPT ![t] = Report(dc')] /\ pc' = [pc EXCEPT ![t] = "publish"]
    BY <1>4, <2>1 DEF StatusUpdate, Goto, TypeOK
  <2>3. ASSUME NEW n \in Endpoints, Named(n) PROVE Announced(n)'
    <3>1. n \in Mentioned(dc')
      BY <2>2, <2>3, <1>1 DEF Mentioned, Named
    <3>2. json'[t][n] = load[n] /\ pc'[t] = "publish"
      BY <3>1, <2>2 DEF Report, TypeOK
    <3> QED
      BY <3>2, <1>1 DEF Announced
  <2>4. \A n \in Endpoints : Announced(n) => Announced(n)'
    BY <1>1, <1>2, <2>3, UpdaterAnnounces
  <2> QED
    BY <1>1, <1>2, <2>4, <1>4, ReportedStays
<1>5. CASE ~internet
  <2>1. \A n \in Endpoints : Announced(n) => Announced(n)' \/ n \in Unannounced
    BY DEF Unannounced
  <2>2. Mark({}, Unannounced)
    BY <1>1, <1>5
  <2> QED
    BY <1>1, <1>2, <2>1, <2>2, ReportedStays
<1> QED
  BY <1>3, <1>4, <1>5

LEMMA PublishReported ==
  ASSUME Shape, Reported, NEW t \in Updaters, Publish(t) PROVE Reported'
<1> USE DEF Shape
<1>1. /\ pc' = [pc EXCEPT ![t] = "save"] /\ pc[t] = "publish" /\ dc' = dc /\ load' = load
      /\ clicked' = clicked /\ asked' = asked /\ Mark({}, Known) /\ cloud' = Told(t)
      /\ synced' = synced /\ connected' = connected
  BY DEF Publish, Goto
<1>2. pc'["mqtt"] = pc["mqtt"] /\ json'["mqtt"] = json["mqtt"]
      /\ \A s \in Updaters \ {t} : pc'[s] = pc[s] /\ json'[s] = json[s]
  BY <1>1 DEF Publish, TypeOK
<1>3. CASE synced = "no"
  BY <1>1, <1>3 DEF Reported
<1>4. CASE connected
  <2>1. ASSUME NEW n \in Endpoints, Known1(n) PROVE Known1(n)'
    <3>1. cloud'[n] = IF json[t][n] # NotSaved THEN json[t][n] ELSE cloud[n]
      BY <1>1, <1>4 DEF Told
    <3>2. load[n] # NotSaved
      BY NotSavedAssumption DEF TypeOK
    <3>3. CASE json[t][n] = load[n]
      BY <3>1, <3>2, <3>3, <1>1 DEF Known1
    <3>4. CASE n \in untold \cup Known
      BY <3>4, <1>1 DEF Known1, Mark
    <3>5. CASE json[t][n] # load[n] /\ Announced(n)
      BY <3>5, <1>1, <1>2, UpdaterAnnounces DEF Known1
    <3> QED
      BY <2>1, <3>3, <3>4, <3>5 DEF Known1, Known
  <2> QED
    BY <1>1, <1>2, <2>1 DEF Reported
<1> QED
  BY <1>3, <1>4 DEF Reported

LEMMA SaveReported ==
  ASSUME Shape, Reported, NEW t \in Updaters, SaveBegin(t) \/ SaveWrite(t) PROVE Reported'
<1> USE DEF Shape
<1>1. /\ \E p \in {"write", "save"} : pc' = [pc EXCEPT ![t] = p]
      /\ pc[t] \in {"save", "write"} /\ dc' = dc /\ load' = load /\ cloud' = cloud
      /\ clicked' = clicked /\ asked' = asked /\ json' = json
      /\ synced' = synced /\ connected' = connected /\ \E u : Mark(u, {})
  BY DEF SaveBegin, SaveWrite, Goto, Keep
<1>2. pc'["mqtt"] = pc["mqtt"] /\ \A s \in Updaters \ {t} : pc'[s] = pc[s]
  BY <1>1 DEF TypeOK
<1>3. \A n \in Endpoints : Announced(n) => Announced(n)'
  BY <1>1, <1>2, UpdaterAnnounces
<1> QED
  BY <1>1, <1>2, <1>3, ReportedStays

LEMMA ControlEndpointReported ==
  ASSUME Shape, Reported, ControlEndpoint PROVE Reported'
<1> USE DEF Shape
<1> DEFINE i == idx["mqtt"]
           k == dc.info[i].endpoint
<1>1. /\ dc' = dc /\ clicked' = clicked /\ asked' = asked /\ cloud' = cloud /\ json' = json
      /\ pc["mqtt"] = "apply" /\ Mark({}, {}) /\ synced' = synced /\ connected' = connected
      /\ pc'["mqtt"] \in {"apply", "delay"} /\ \A t \in Updaters : pc'[t] = pc[t]
  BY DEF ControlEndpoint, Keep, Goto, TypeOK
<1>2. ToCome' /\ synced # "sending"
  BY <1>1 DEF ToCome, Reported
<1>3. ASSUME NEW n \in Endpoints
      PROVE  \/ Announced(n)'
             \/ load'[n] = load[n] /\ (Announced(n) => Announced(n)')
  <2>1. Named(n) => Announced(n)'
    BY <1>1, <1>2, NamedStays DEF Announced
  <2>2. Named(n) \/ load'[n] = load[n]
    <3>1. load' = load \/ (i <= dc.counter /\ load' = [load EXCEPT ![k] = dc.info[i].set_value])
      BY DEF ControlEndpoint
    <3>2. i <= dc.counter => i \in 1 .. dc.counter
      BY NAssumption DEF TypeOK
    <3> QED
      BY <3>1, <3>2 DEF Named, TypeOK
  <2>3. load'[n] = load[n] /\ ~Named(n) /\ Announced(n) => Announced(n)'
    BY <1>1 DEF Announced, Clicked
  <2> QED
    BY <2>1, <2>2, <2>3
<1>4. ASSUME NEW n \in Endpoints, Known1(n) PROVE Known1(n)'
  BY <1>1, <1>3, <1>4 DEF Known1, Mark
<1> QED
  BY <1>1, <1>2, <1>4 DEF Reported

LEMMA ResyncReported ==
  ASSUME Shape, Shape', Reported, Resync PROVE Reported'
<1> USE DEF Shape
<1>1. /\ pc' = [pc EXCEPT !["mqtt"] = "publish"] /\ pc["mqtt"] = "idle" /\ connected
      /\ load' = load /\ cloud' = cloud /\ connected' = connected
      /\ synced' = IF synced = "no" THEN "sending" ELSE synced
      /\ json' = [json EXCEPT !["mqtt"] = Report(dc')] /\ Loses({})
  BY DEF Resync, Goto, Rewrites
<1>2. Mentioned(dc') = Endpoints
  BY ZeroedType DEF Resync, Mentioned, Endpoints
<1>3. \A n \in Endpoints : json'["mqtt"][n] = load'[n] /\ load'[n] \in Level
  BY <1>1, <1>2 DEF Report, TypeOK
<1>4. ASSUME NEW n \in Endpoints, Known1(n) PROVE Known1(n)'
  BY <1>1, <1>4 DEF Known1, Loses, Mark, Unannounced
<1>5. synced # "sending"
  BY <1>1 DEF Reported
<1>6. pc'["mqtt"] = "publish"
  BY <1>1 DEF TypeOK
<1> QED
  BY <1>1, <1>3, <1>4, <1>5, <1>6 DEF Reported, TypeOK

LEMMA ResyncPublishReported ==
  ASSUME Shape, Reported, ResyncPublish PROVE Reported'
<1> USE DEF Shape
<1>1. /\ load' = load /\ cloud' = Told("mqtt") /\ connected' = connected
      /\ synced' = (IF synced = "sending" THEN "yes" ELSE synced)
      /\ Loses(Known)
  BY DEF ResyncPublish, Rewrites
<1>2. ASSUME NEW n \in Endpoints, json["mqtt"][n] = load[n] \/ Known1(n), connected
      PROVE  Known1(n)'
  <2>1. cloud'[n] = IF json["mqtt"][n] # NotSaved THEN json["mqtt"][n] ELSE cloud[n]
    BY <1>1, <1>2 DEF Told
  <2>2. load[n] # NotSaved
    BY NotSavedAssumption DEF TypeOK
  <2>3. CASE json["mqtt"][n] = load[n]
    BY <2>1, <2>2, <2>3, <1>1 DEF Known1
  <2>4. CASE Known1(n)
    BY <2>4, <1>1 DEF Known1, Loses, Mark, Unannounced, Known
  <2> QED
    BY <1>2, <2>3, <2>4
<1>3. synced' # "no" => connected /\ synced' = "yes"
  BY <1>1 DEF Reported, TypeOK
<1>4. synced \in {"sending", "yes"} => \A n \in Endpoints : json["mqtt"][n] = load[n] \/ Known1(n)
  BY DEF Reported
<1>5. synced' = "yes" => synced \in {"sending", "yes"}
  BY <1>1
<1>6. synced' = "yes" => \A n \in Endpoints : Known1(n)'
  BY <1>2, <1>3, <1>4, <1>5
<1> QED
  BY <1>1, <1>3, <1>6 DEF Reported

LEMMA ElsewhereReported ==
  ASSUME Shape, Reported, ParseEnd \/ AskForUpdate \/ Query \/ Probe PROVE Reported'
<1> USE DEF Shape
<1>1. /\ dc' = dc /\ load' = load /\ clicked' = clicked /\ cloud' = cloud /\ json' = json
      /\ Mark({}, {}) /\ synced' = synced /\ connected' = connected
  BY DEF ParseEnd, AskForUpdate, Query, Probe, Keep
<1>2. \A t \in Updaters : pc'[t] = pc[t]
  BY DEF ParseEnd, ParseDone, AskForUpdate, Query, Probe, Goto, TypeOK
<1>3. ToCome => ToCome'
  BY DEF ToCome, ParseEnd, ParseDone, AskForUpdate, Query, Probe, Goto, Keep, TypeOK
<1>4. pc["mqtt"] = "publish" => pc'["mqtt"] = "publish"
  BY DEF ParseEnd, ParseDone, AskForUpdate, Query, Probe, Goto
<1>5. ASSUME NEW n \in Endpoints, Announced(n) PROVE Announced(n)'
  <2>1. Clicked(n) => Clicked(n)'
    BY <1>1, <1>2 DEF Clicked
  <2>2. Named(n) => Named(n)'
    BY <1>1, NamedStays
  <2> QED
    BY <1>1, <1>2, <1>3, <1>5, <2>1, <2>2 DEF Announced
<1> QED
  BY <1>1, <1>4, <1>5, ReportedStays

LEMMA LosersReported ==
  ASSUME Shape, Reported,
         \/ FillRecord \/ \E t \in Updaters : SaveEnd(t)
         \/ \E d \in Arrays : ReceiveControl(d)
         \/ ParseElement \/ QueryEnd
  PROVE  Reported'
<1>1. /\ load' = load /\ cloud' = cloud /\ json' = json /\ synced' = synced
      /\ connected' = connected /\ \E r : Loses(r)
  BY DEF FillRecord, SaveEnd, ReceiveControl, ParseElement, QueryEnd, Rewrites
<1>2. pc["mqtt"] = "publish" => pc'["mqtt"] = "publish"
  BY DEF FillRecord, SaveEnd, ReceiveControl, ParseElement, QueryEnd, Goto, Shape, TypeOK
<1> QED
  BY <1>1, <1>2, LosesReported

LEMMA EndsReported ==
  ASSUME SessionChange \/ PowerCycle PROVE Reported'
BY DEF SessionChange, PowerCycle, Reported

LEMMA StutterReported == ASSUME Reported, UNCHANGED vars PROVE Reported'
BY DEF Reported, Known1, Announced, Clicked, ToCome, Named

\* At rest in a session in which all levels were sent, the cloud knows them, but for
\* the endpoints whose report was not made or was overtaken by an older one.
THEOREM ReportIsRight == Spec => []ReportFollowsLoad
<1>1. Init => Shape /\ Reported
  BY InitShape, InitReported
<1>2. (Shape /\ Reported) /\ [Next]_vars => (Shape /\ Reported)'
  <2> SUFFICES ASSUME Shape, Reported, [Next]_vars PROVE Shape' /\ Reported'
    OBVIOUS
  <2>1. Shape'
    BY NextShape
  <2>2. Reported'
    BY <2>1, ClickReported, PollReported, StatusUpdateReported, PublishReported, SaveReported,
       ControlEndpointReported, ResyncReported, ResyncPublishReported, ElsewhereReported,
       LosersReported, EndsReported, StutterReported
       DEF Next, GpioStep, AppStep, MqttStep, UpdateStep
  <2> QED
    BY <2>1, <2>2
<1>3. Shape /\ Reported => ReportFollowsLoad
  BY RestCarriesNothing DEF Shape, Reported, Known1, ReportFollowsLoad
<1> QED
  BY <1>1, <1>2, <1>3, PTL DEF Spec
=============================================================================

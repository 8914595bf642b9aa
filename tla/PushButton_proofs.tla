--------------------------- MODULE PushButton_proofs --------------------------
(***************************************************************************)
(* What the thread of the push buttons takes for a click, a long press and *)
(* a burst of clicks, for any number of buttons and any thresholds.        *)
(*                                                                         *)
(* Within the bound on time every tick count the thread holds stands for   *)
(* one tick since power-up, though the counts wrap: At(t) is the count at  *)
(* tick t, and SinceAt says what the difference of two counts then is.     *)
(***************************************************************************)
EXTENDS PushButton, SequenceTheorems, TLAPS

\* The tick count at a tick.
At(t) == (Start + t) % W

\* push_button() has read time_current and compares with it.
Reading == pc \in {"act", "hold", "settle", "settled", "validate"}
\* The tick the thread looks from.
Looked == IF Reading THEN ReadAt ELSE ticks

Clock ==
  /\ now = At(ticks)
  /\ Reading => ReadAt \in 0 .. ticks /\ current = At(ReadAt)

LEMMA Wrap == \A x \in 0 .. 2 * W - 1 : x % W = IF x < W THEN x ELSE x - W
BY TimeAssumption

LEMMA AtIs ==
  \A t \in 0 .. MaxTicks :
    /\ At(t) \in Time
    /\ At(t) = IF Start + t < W THEN Start + t ELSE Start + t - W
<1> TAKE t \in 0 .. MaxTicks
<1>1. Start + t \in 0 .. 2 * W - 1
  BY TimeAssumption DEF Time
<1> QED
  BY <1>1, Wrap, TimeAssumption DEF At, Time

\* The difference of two counts is that of their ticks, or wraps below zero.
LEMMA SinceAt ==
  \A t, u \in 0 .. MaxTicks :
    Since(At(t), At(u)) = IF u <= t THEN t - u ELSE W - (u - t)
<1> TAKE t, u \in 0 .. MaxTicks
<1>1. At(t) + W - At(u) = IF u <= t /\ ~(Start + t >= W /\ Start + u < W)
                            THEN W + (t - u)
                            ELSE IF u <= t THEN t - u
                            ELSE IF Start + u >= W /\ Start + t < W
                            THEN W + W - (u - t) ELSE W - (u - t)
  BY AtIs, TimeAssumption DEF Time
<1>2. At(t) + W - At(u) \in 0 .. 2 * W - 1
  BY AtIs, TimeAssumption DEF Time
<1> QED
  BY <1>1, <1>2, Wrap, TimeAssumption DEF Since, Time

LEMMA NextAt == \A t \in 0 .. MaxTicks : t < MaxTicks => (At(t) + 1) % W = At(t + 1)
<1> SUFFICES ASSUME NEW t \in 0 .. MaxTicks, t < MaxTicks
             PROVE  (At(t) + 1) % W = At(t + 1)
  OBVIOUS
<1>1. t + 1 \in 0 .. MaxTicks
  BY TimeAssumption
<1>2. At(t) + 1 \in 0 .. 2 * W - 1
  BY AtIs, TimeAssumption DEF Time
<1> QED
  BY <1>1, <1>2, AtIs, Wrap, TimeAssumption DEF Time

\* time_current is read in ReadTime, and time passes in Tick.
LEMMA Untimed ==
  [Next]_vars /\ ~Tick /\ ~ReadTime =>
    UNCHANGED <<now, current, ticks>> /\ (Reading' => Reading)
<1> SUFFICES ASSUME [Next]_vars, ~Tick, ~ReadTime
             PROVE  UNCHANGED <<now, current, ticks>> /\ (Reading' => Reading)
  OBVIOUS
<1> USE DEF Reading, times, history, burst, flags
<1>1. ASSUME NEW b \in Buttons, Press(b) \/ Release(b)
      PROVE  UNCHANGED <<now, current, ticks>> /\ (Reading' => Reading)
  BY <1>1 DEF Press, Release
<1>2. CASE Wake \/ Click \/ ShortPressed \/ LongPressed
  BY <1>2 DEF Wake, Click, ShortPressed, LongPressed
<1>5. CASE Sample \/ Stamp
  BY <1>5 DEF Sample, Stamp
<1>3. CASE ReleaseRead \/ LongReleased \/ NoEvent \/ Validate
  BY <1>3 DEF ReleaseRead, LongReleased, NoEvent, Validate
<1>4. CASE UNCHANGED vars
  BY <1>4 DEF vars
<1> QED
  BY <1>1, <1>2, <1>3, <1>4, <1>5 DEF Next, PushButton

\* The thread never looks from an earlier tick than before.
LEMMA ClockStep ==
  TypeOK /\ Clock /\ [Next]_vars =>
    /\ Clock'
    /\ Looked \in 0 .. ticks /\ Looked' \in 0 .. ticks' /\ Looked <= Looked'
    /\ ticks <= ticks'
    /\ Reading /\ Reading' => ReadAt' = ReadAt
    /\ ReadTime => ReadAt' = ticks
<1> SUFFICES ASSUME TypeOK, Clock, [Next]_vars
             PROVE  /\ Clock'
                    /\ Looked \in 0 .. ticks /\ Looked' \in 0 .. ticks'
                    /\ Looked <= Looked'
                    /\ ticks <= ticks'
                    /\ Reading /\ Reading' => ReadAt' = ReadAt
                    /\ ReadTime => ReadAt' = ticks
  OBVIOUS
<1>0. ticks \in 0 .. MaxTicks /\ MaxTicks \in Nat
  BY TimeAssumption DEF TypeOK
<1>1. CASE Tick
  <2>1. ticks < MaxTicks /\ ticks' = ticks + 1 /\ current' = current
        /\ now' = (now + 1) % W /\ (Reading' = Reading)
    BY <1>1 DEF Tick, Delayed, Reading, Seen
  <2>2. now' = At(ticks')
    BY <2>1, <1>0, NextAt DEF Clock
  <2>3. ASSUME Reading PROVE ReadAt' = ReadAt
    <3>1. ReadAt \in 0 .. ticks /\ current' = At(ReadAt)
      BY <2>1, <2>3 DEF Clock
    <3>2. ReadAt' = ticks' - Since(At(ticks'), At(ReadAt))
      BY <2>2, <3>1 DEF ReadAt
    <3> QED
      BY <2>1, <3>1, <3>2, <1>0, SinceAt
  <2>4. ~ReadTime
    BY <1>1 DEF Tick, ReadTime, Delayed
  <2> QED
    BY <1>0, <2>1, <2>2, <2>3, <2>4 DEF Clock, Looked
<1>2. CASE ReadTime
  <2>1. /\ ticks' = ticks /\ now' = now /\ current' = now
        /\ ~Reading /\ Reading'
    BY <1>2 DEF ReadTime, Reading
  <2>2. ReadAt' = ticks
    BY <2>1, <1>0, SinceAt DEF ReadAt, Clock
  <2> QED
    BY <1>0, <2>1, <2>2 DEF Clock, Looked
<1>3. CASE ~Tick /\ ~ReadTime
  BY <1>0, <1>3, Untimed DEF Clock, Looked, ReadAt
<1> QED
  BY <1>1, <1>2, <1>3

-----------------------------------------------------------------------------
(* Types.                                                                   *)

\* A burst that is complete ends with the call that completes it.
Counted == \A b \in Buttons : count[b] = Required => pc = "validate" /\ b = i

LEMMA Update ==
  ASSUME NEW S, NEW T, NEW f \in [S -> T], NEW a, NEW x \in T
  PROVE  [f EXCEPT ![a] = x] \in [S -> T]
OBVIOUS

LEMMA InitType == Init => TypeOK /\ Clock
<1> SUFFICES ASSUME Init PROVE TypeOK /\ Clock
  OBVIOUS
<1>1. /\ NoClick \in [button : 0 .. N, at : 0 .. ticks]
      /\ 0 \in 0 .. Required /\ 1 \in Index /\ Start = At(0)
  BY NAssumption, RequiredAssumption, TimeAssumption
  DEF Init, NoClick, Index, At, Time
<1>2. 0 \in Time /\ 0 \in 0 .. MaxTicks
  BY TimeAssumption DEF Time
<1>3. /\ since \in [Buttons -> 0 .. ticks] /\ made \in [1 .. Required -> [button : 0 .. N, at : 0 .. ticks]]
      /\ uses \in [Buttons -> SUBSET {"click", "long", "again"}]
  BY <1>1 DEF Init
<1>4. /\ holding \in [Buttons -> BOOLEAN] /\ edge \in [Buttons -> BOOLEAN]
      /\ event \in [Buttons -> BOOLEAN] /\ window \in [Buttons -> BOOLEAN]
  BY Zenon DEF Init
<1>5. /\ pressed \in [Buttons -> Time] /\ released \in [Buttons -> Time]
      /\ count \in [Buttons -> 0 .. Required]
  BY <1>1, <1>2 DEF Init
<1>6. /\ down \subseteq Buttons /\ now \in Time /\ current \in Time /\ start \in Time
      /\ pc = "sleep" /\ i \in Index /\ missed \subseteq Buttons
      /\ began \in 0 .. ticks /\ mode = "kept" /\ ticks \in 0 .. MaxTicks
  BY <1>1, <1>2, TimeAssumption DEF Init
<1>8. slipped \in BOOLEAN /\ level \in BOOLEAN
  BY Zenon DEF Init
<1>9. TypeOK
  BY <1>3, <1>4, <1>5, <1>6, <1>8 DEF TypeOK
<1>7. Clock
  BY <1>1 DEF Init, Clock, Reading
<1> QED
  BY <1>7, <1>9

\* The oldest of the clicks makes room for the next.
LEMMA MadeShifts ==
  \A S : \A s \in [1 .. Required -> S], x \in S :
    /\ Append(Tail(s), x) \in [1 .. Required -> S]
    /\ Append(Tail(s), x)[Required] = x
    /\ \A k \in 1 .. Required - 1 : Append(Tail(s), x)[k] = s[k + 1]
<1> TAKE S
<1> TAKE s \in [1 .. Required -> S], x \in S
<1>1. s \in Seq(S) /\ Len(s) = Required
  BY RequiredAssumption
<1>2. Tail(s) \in Seq(S) /\ Len(Tail(s)) = Required - 1
      /\ \A k \in 1 .. Required - 1 : Tail(s)[k] = s[k + 1]
  BY <1>1, RequiredAssumption
<1>3. /\ Append(Tail(s), x) \in Seq(S) /\ Len(Append(Tail(s), x)) = Required
      /\ Append(Tail(s), x)[Required] = x
      /\ \A k \in 1 .. Required - 1 : Append(Tail(s), x)[k] = Tail(s)[k]
  BY <1>2, RequiredAssumption
<1>4. Append(Tail(s), x) \in [1 .. Required -> S]
  BY <1>3, LenProperties
<1> QED
  BY <1>2, <1>3, <1>4, RequiredAssumption

LEMMA TypeStep == TypeOK /\ Clock /\ Counted /\ [Next]_vars => TypeOK'
<1> SUFFICES ASSUME TypeOK, Clock, Counted, [Next]_vars PROVE TypeOK'
  OBVIOUS
<1> USE DEF TypeOK, times, flags, burst, history
<1>1. CASE Tick
  <2>1. /\ now' \in Time /\ ticks' = ticks + 1 /\ ticks' \in 0 .. MaxTicks
        /\ UNCHANGED <<down, i, level, current, times, flags, burst, history>>
    BY <1>1, TimeAssumption DEF Tick, Time
  <2>2. pc' \in {"delay", "sleep", "sample", "stamp", "read", "act", "hold",
                 "settle", "settled", "validate"}
        /\ (pc' \notin {"delay", "sleep"} => pc \notin {"delay", "sleep"})
    BY <1>1 DEF Tick, Delayed
  <2>3. \A x \in 0 .. ticks : x \in 0 .. ticks'
    BY <2>1
  <2>4. /\ since' \in [Buttons -> 0 .. ticks'] /\ began' \in 0 .. ticks'
        /\ made' \in [1 .. Required -> [button : 0 .. N, at : 0 .. ticks']]
    BY <2>1, <2>3
  <2> QED
    BY <2>1, <2>2, <2>4
<1>2. ASSUME NEW b \in Buttons, Press(b) PROVE TypeOK'
  BY <1>2 DEF Press
<1>3. ASSUME NEW b \in Buttons, Release(b) PROVE TypeOK'
  BY <1>3 DEF Release
<1>4. CASE Wake
  <2>1. 1 \in Index /\ 1 \in Buttons
    BY NAssumption DEF Index, Buttons
  <2> QED
    BY <1>4, <2>1 DEF Wake
<1>14. CASE Sample
  <2>1. level' \in BOOLEAN
    BY <1>14 DEF Sample
  <2> QED
    BY <1>14, <2>1 DEF Sample
<1>15. CASE ReadTime
  BY <1>15 DEF ReadTime
<1>5. CASE Stamp
  <2>1. i \in Buttons
    BY <1>5 DEF Stamp
  <2>2. /\ pressed' \in {pressed, [pressed EXCEPT ![i] = now]}
        /\ released' \in {released, [released EXCEPT ![i] = now]}
        /\ holding' \in {holding, [holding EXCEPT ![i] = TRUE],
                         [holding EXCEPT ![i] = FALSE]}
        /\ edge' \in {edge, [edge EXCEPT ![i] = TRUE], [edge EXCEPT ![i] = FALSE]}
        /\ event' \in {event, [event EXCEPT ![i] = TRUE]}
        /\ uses' \in {uses, [uses EXCEPT ![i] = {}]}
        /\ missed' \subseteq missed
    BY <1>5, Zenon DEF Stamp
  <2>3. /\ pressed' \in [Buttons -> Time] /\ released' \in [Buttons -> Time]
        /\ holding' \in [Buttons -> BOOLEAN] /\ edge' \in [Buttons -> BOOLEAN]
        /\ event' \in [Buttons -> BOOLEAN]
    <3>1. /\ [pressed EXCEPT ![i] = now] \in [Buttons -> Time]
          /\ [released EXCEPT ![i] = now] \in [Buttons -> Time]
      BY Update
    <3>2. ASSUME NEW f \in [Buttons -> BOOLEAN], NEW x \in BOOLEAN
          PROVE  [f EXCEPT ![i] = x] \in [Buttons -> BOOLEAN]
      BY Update
    <3> QED
      BY <2>2, <3>1, <3>2
  <2>4. uses' \in [Buttons -> SUBSET {"click", "long", "again"}]
        /\ missed' \subseteq Buttons
    <3>1. {} \in SUBSET {"click", "long", "again"}
      OBVIOUS
    <3>2. [uses EXCEPT ![i] = {}] \in [Buttons -> SUBSET {"click", "long", "again"}]
      BY <3>1, Update
    <3> QED
      BY <2>2, <3>2
  <2>5. /\ UNCHANGED <<down, now, i, level, current, start, burst, since, made,
                       began, slipped, mode, ticks>>
        /\ pc' = "read"
    BY <1>5 DEF Stamp
  <2> QED
    BY <2>1, <2>2, <2>3, <2>4, <2>5
<1>6. CASE Click
  <2>1. i \in Buttons /\ ReadAt \in 0 .. ticks
    BY <1>6 DEF Click, Clock, Reading
  <2>2. [button |-> i, at |-> ReadAt] \in [button : 0 .. N, at : 0 .. ticks]
    BY <2>1, NAssumption DEF Buttons
  <2>3. made' \in [1 .. Required -> [button : 0 .. N, at : 0 .. ticks]]
    BY <1>6, <2>2, MadeShifts DEF Click
  <2>4. count[i] < Required
    BY <1>6, <2>1, RequiredAssumption DEF Click, Counted
  <2>5. /\ window' \in [Buttons -> BOOLEAN] /\ count' \in [Buttons -> 0 .. Required]
        /\ start' \in Time /\ began' \in 0 .. ticks /\ slipped' \in BOOLEAN
    <3>1. CASE NextClick
      <4>1. count[i] + 1 \in 0 .. Required
        BY <2>1, <2>4, RequiredAssumption
      <4> QED
        BY <3>1, <4>1, Update DEF NextClick
    <3>2. CASE StartBurst
      <4>1. window' \in [Buttons -> BOOLEAN] /\ slipped' \in BOOLEAN
        BY <3>2, Zenon DEF StartBurst
      <4>2. count' \in [Buttons -> 0 .. Required] /\ start' \in Time
            /\ began' \in 0 .. ticks
        BY <3>2, RequiredAssumption DEF StartBurst
      <4> QED
        BY <4>1, <4>2
    <3> QED
      BY <1>6, <3>1, <3>2 DEF Click
  <2>6. uses' \in [Buttons -> SUBSET {"click", "long", "again"}]
        /\ event' \in [Buttons -> BOOLEAN]
    BY <1>6, <2>1 DEF Click
  <2>7. /\ UNCHANGED <<down, now, i, level, current, pressed, released, holding, edge,
                       since, missed, mode, ticks>>
        /\ pc' = "validate"
    BY <1>6 DEF Click
  <2> QED
    BY <2>1, <2>3, <2>5, <2>6, <2>7
<1>7. CASE ShortPressed
  BY <1>7 DEF ShortPressed
<1>8. CASE LongPressed
  BY <1>8 DEF LongPressed
<1>9. CASE ReleaseRead
  BY <1>9 DEF ReleaseRead
<1>10. CASE LongReleased
  BY <1>10 DEF LongReleased
<1>11. CASE NoEvent
  BY <1>11 DEF NoEvent
<1>12. CASE Validate
  <2>1. i \in Buttons /\ i' = i + 1 /\ i' \in Index /\ (i < N => i' \in Buttons)
    BY <1>12, NAssumption DEF Validate, Index, Buttons
  <2>2. /\ count' \in {count, [count EXCEPT ![i] = 0]}
        /\ window' \in {window, [window EXCEPT ![i] = FALSE]}
    BY <1>12 DEF Validate
  <2>3. 0 \in 0 .. Required
    BY RequiredAssumption
  <2>4. count' \in [Buttons -> 0 .. Required]
    <3>1. [count EXCEPT ![i] = 0] \in [Buttons -> 0 .. Required]
      BY <2>3, Update
    <3> QED
      BY <2>2, <3>1
  <2>5. window' \in [Buttons -> BOOLEAN]
    BY <2>2, Update, ZenonT(40)
  <2> QED
    BY <1>12, <2>1, <2>4, <2>5 DEF Validate
<1>13. CASE UNCHANGED vars
  BY <1>13 DEF vars
<1> QED
  BY <1>1, <1>2, <1>3, <1>4, <1>5, <1>6, <1>7, <1>8, <1>9, <1>10, <1>11, <1>12,
     <1>13, <1>14, <1>15 DEF Next, PushButton

-----------------------------------------------------------------------------
(* Presses.                                                                 *)

\* A press is followed from the sample that sees it to the one that sees the
\* release, or to the end of the loop that waits for the release.
Opposite == \A b \in Buttons : holding[b] <=> ~edge[b]

\* The count of a press that is followed is one of a tick that the thread had
\* reached when it read time_current, and at which the button was down.
Held ==
  \A b \in Buttons : holding[b] =>
    \E p \in 0 .. Looked :
      pressed[b] = At(p) /\ (b \in missed \/ since[b] <= p)

\* The presses are written by Press, Stamp and LongReleased only.
LEMMA Unpressed ==
  [Next]_vars /\ ~Stamp /\ ~LongReleased /\ (\A b \in Buttons : ~Press(b)) =>
    UNCHANGED <<pressed, holding, edge, since, missed>>
<1> SUFFICES ASSUME [Next]_vars, ~Stamp, ~LongReleased,
                    \A b \in Buttons : ~Press(b)
             PROVE  UNCHANGED <<pressed, holding, edge, since, missed>>
  OBVIOUS
<1> USE DEF times, flags, burst, history
<1>1. CASE Tick \/ Wake \/ Sample \/ ReadTime
  BY <1>1 DEF Tick, Wake, Sample, ReadTime
<1>2. ASSUME NEW b \in Buttons, Release(b)
      PROVE  UNCHANGED <<pressed, holding, edge, since, missed>>
  BY <1>2 DEF Release
<1>3. CASE Click \/ ShortPressed \/ LongPressed
  BY <1>3 DEF Click, ShortPressed, LongPressed
<1>4. CASE ReleaseRead \/ NoEvent \/ Validate
  BY <1>4 DEF ReleaseRead, NoEvent, Validate
<1>5. CASE UNCHANGED vars
  BY <1>5 DEF vars
<1> QED
  BY <1>1, <1>2, <1>3, <1>4, <1>5 DEF Next, PushButton

\* What the look at the edges writes.
LEMMA StampIs ==
  TypeOK /\ Stamp =>
    /\ i \in Buttons /\ i' = i /\ pc = "stamp" /\ pc' = "read"
    /\ UNCHANGED <<now, ticks, level, since, count, window, start, made, began, slipped>>
    /\ \/ /\ edge[i] /\ pressed'[i] = now /\ holding'[i] /\ ~edge'[i]
          /\ uses'[i] = {} /\ missed' = missed \ {i}
          /\ UNCHANGED <<released, event>>
       \/ /\ ~edge[i] /\ released'[i] = now /\ ~holding'[i] /\ edge'[i]
          /\ event'[i]
          /\ UNCHANGED <<pressed, uses, missed>>
       \/ UNCHANGED <<pressed, released, holding, edge, event, uses, missed>>
    /\ \A b \in Buttons : b # i =>
         /\ pressed'[b] = pressed[b] /\ released'[b] = released[b]
         /\ holding'[b] = holding[b] /\ edge'[b] = edge[b]
         /\ event'[b] = event[b] /\ uses'[b] = uses[b]
<1> SUFFICES ASSUME TypeOK, Stamp
             PROVE  /\ i \in Buttons /\ i' = i /\ pc = "stamp" /\ pc' = "read"
                    /\ UNCHANGED <<now, ticks, level, since, count, window, start, made,
                                   began, slipped>>
                    /\ \/ /\ edge[i] /\ pressed'[i] = now /\ holding'[i] /\ ~edge'[i]
                          /\ uses'[i] = {} /\ missed' = missed \ {i}
                          /\ UNCHANGED <<released, event>>
                       \/ /\ ~edge[i] /\ released'[i] = now /\ ~holding'[i] /\ edge'[i]
                          /\ event'[i]
                          /\ UNCHANGED <<pressed, uses, missed>>
                       \/ UNCHANGED <<pressed, released, holding, edge, event, uses,
                                      missed>>
                    /\ \A b \in Buttons : b # i =>
                         /\ pressed'[b] = pressed[b] /\ released'[b] = released[b]
                         /\ holding'[b] = holding[b] /\ edge'[b] = edge[b]
                         /\ event'[b] = event[b] /\ uses'[b] = uses[b]
  OBVIOUS
<1>1. /\ i \in Buttons /\ i' = i /\ pc = "stamp" /\ pc' = "read"
      /\ UNCHANGED <<now, ticks, level, since, count, window, start, made, began, slipped>>
  BY DEF Stamp, TypeOK, burst
<1>2. CASE /\ edge[i]
           /\ pressed' = [pressed EXCEPT ![i] = now]
           /\ holding' = [holding EXCEPT ![i] = TRUE]
           /\ edge' = [edge EXCEPT ![i] = FALSE]
           /\ uses' = [uses EXCEPT ![i] = {}]
           /\ missed' = missed \ {i}
           /\ UNCHANGED <<released, event>>
  BY <1>1, <1>2 DEF TypeOK
<1>3. CASE /\ ~edge[i]
           /\ released' = [released EXCEPT ![i] = now]
           /\ holding' = [holding EXCEPT ![i] = FALSE]
           /\ edge' = [edge EXCEPT ![i] = TRUE]
           /\ event' = [event EXCEPT ![i] = TRUE]
           /\ UNCHANGED <<pressed, uses, missed>>
  BY <1>1, <1>3 DEF TypeOK
<1>4. CASE UNCHANGED <<pressed, released, flags, uses, missed>>
  BY <1>1, <1>4 DEF flags
<1> QED
  BY <1>2, <1>3, <1>4, Zenon DEF Stamp

\* What the end of a long press writes.
LEMMA LongReleasedIs ==
  TypeOK /\ LongReleased =>
    /\ i \in Buttons /\ i' = i /\ pc = "settled" /\ pc' = "validate"
    /\ UNCHANGED <<ticks, pressed, released, since, missed, uses>>
    /\ ~holding'[i] /\ ~event'[i] /\ edge'[i]
    /\ \A b \in Buttons : b # i =>
         /\ holding'[b] = holding[b] /\ edge'[b] = edge[b] /\ event'[b] = event[b]
BY DEF LongReleased, TypeOK, times, burst, history

LEMMA HeldStep ==
  TypeOK /\ Clock /\ Opposite /\ Held /\ [Next]_vars => Opposite' /\ Held'
<1> SUFFICES ASSUME TypeOK, Clock, Opposite, Held, [Next]_vars
             PROVE  Opposite' /\ Held'
  OBVIOUS
<1>0. /\ Looked \in 0 .. ticks /\ Looked' \in 0 .. ticks' /\ Looked <= Looked'
      /\ ticks \in 0 .. MaxTicks
  BY ClockStep DEF TypeOK
<1>1. ASSUME NEW c \in Buttons, Press(c) PROVE Opposite' /\ Held'
  <2>1. /\ UNCHANGED <<pressed, holding, edge, ticks>>
        /\ \A b \in Buttons : b # c => since'[b] = since[b]
        /\ missed \subseteq missed'
        /\ edge[c] \/ c \in missed'
    BY <1>1 DEF Press, TypeOK, times, flags
  <2>2. ASSUME NEW b \in Buttons, holding'[b]
        PROVE  \E p \in 0 .. Looked' :
                 pressed'[b] = At(p) /\ (b \in missed' \/ since'[b] <= p)
    <3>1. PICK p \in 0 .. Looked :
            pressed[b] = At(p) /\ (b \in missed \/ since[b] <= p)
      BY <2>1, <2>2 DEF Held
    <3>2. p \in 0 .. Looked'
      BY <1>0
    <3>3. b \in missed' \/ since'[b] <= p
      <4>1. CASE b = c
        <5>1. ~edge[c]
          BY <2>1, <2>2, <4>1 DEF Opposite
        <5> QED
          BY <2>1, <4>1, <5>1
      <4>2. CASE b # c
        BY <2>1, <3>1, <4>2
      <4> QED
        BY <4>1, <4>2
    <3> QED
      BY <2>1, <3>1, <3>2, <3>3
  <2>3. Held'
    BY <2>2 DEF Held
  <2> QED
    BY <2>1, <2>3 DEF Opposite
<1>2. CASE Stamp
  <2>1. Opposite'
    BY <1>2, StampIs DEF Opposite
  <2>2. Looked' = ticks /\ ticks \in 0 .. Looked' /\ now = At(ticks)
    BY <1>0, <1>2, StampIs DEF Looked, Reading, Clock
  <2>3. ASSUME NEW b \in Buttons, holding'[b]
        PROVE  \E p \in 0 .. Looked' :
                 pressed'[b] = At(p) /\ (b \in missed' \/ since'[b] <= p)
    <3>1. CASE pressed'[b] = now /\ b = i
      <4>1. since'[b] \in 0 .. ticks
        BY <1>2, StampIs DEF TypeOK
      <4>2. since'[b] <= ticks
        BY <4>1, <1>0
      <4> QED
        BY <2>2, <3>1, <4>2
    <3>2. CASE holding[b] /\ pressed'[b] = pressed[b]
               /\ (b \in missed => b \in missed') /\ since' = since
      <4>1. PICK p \in 0 .. Looked :
              pressed[b] = At(p) /\ (b \in missed \/ since[b] <= p)
        BY <3>2 DEF Held
      <4>2. p \in 0 .. Looked'
        BY <1>0
      <4> QED
        BY <3>2, <4>1, <4>2
    <3> QED
      BY <1>2, <2>3, <3>1, <3>2, StampIs
  <2> QED
    BY <2>1, <2>3 DEF Held
<1>3. CASE LongReleased
  <2>1. Opposite'
    BY <1>3, LongReleasedIs DEF Opposite
  <2>2. ASSUME NEW b \in Buttons, holding'[b]
        PROVE  \E p \in 0 .. Looked' :
                 pressed'[b] = At(p) /\ (b \in missed' \/ since'[b] <= p)
    <3>1. holding[b]
      BY <1>3, <2>2, LongReleasedIs
    <3>2. PICK p \in 0 .. Looked :
            pressed[b] = At(p) /\ (b \in missed \/ since[b] <= p)
      BY <3>1 DEF Held
    <3>3. p \in 0 .. Looked'
      BY <1>0
    <3> QED
      BY <1>3, <3>2, <3>3, LongReleasedIs
  <2> QED
    BY <2>1, <2>2 DEF Held
<1>4. CASE UNCHANGED <<pressed, holding, edge, since, missed>>
  <2>1. ASSUME NEW b \in Buttons, holding'[b]
        PROVE  \E p \in 0 .. Looked' :
                 pressed'[b] = At(p) /\ (b \in missed' \/ since'[b] <= p)
    <3>1. PICK p \in 0 .. Looked :
            pressed[b] = At(p) /\ (b \in missed \/ since[b] <= p)
      BY <1>4, <2>1 DEF Held
    <3>2. p \in 0 .. Looked'
      BY <1>0
    <3> QED
      BY <1>4, <3>1, <3>2
  <2>2. Held'
    BY <2>1 DEF Held
  <2> QED
    BY <1>4, <2>2 DEF Opposite
<1> QED
  BY <1>1, <1>2, <1>3, <1>4, Unpressed

-----------------------------------------------------------------------------
(* Releases.  The event of a release stays set when the thread saw the      *)
(* press so late that it was over: it may be there at the next press.      *)

\* The button is sampled again only after the next delay.
Ahead(b) ==
  \/ pc = "sleep"
  \/ pc \in {"sample", "stamp"} /\ b >= i
  \/ (pc = "read" \/ Reading) /\ b > i

\* The count of a release is that of a tick; when the button is pressed again,
\* it is a later one.
Stale ==
  \A b \in Buttons : event[b] =>
    \E q \in 0 .. ticks :
      /\ released[b] = At(q)
      /\ Ahead(b) => q < ticks
      /\ holding[b] => \E p \in q + 1 .. ticks : pressed[b] = At(p)

\* As the thread goes from button to button, none is ahead again before the delay.
LEMMA AheadShrinks ==
  TypeOK /\ [Next]_vars /\ ~Tick => \A b \in Buttons : Ahead(b)' => Ahead(b)
<1> SUFFICES ASSUME TypeOK, [Next]_vars, ~Tick, NEW b \in Buttons, Ahead(b)'
             PROVE  Ahead(b)
  OBVIOUS
<1>0. i \in Int /\ b \in Int /\ b >= 1 /\ (Reading => i \in Buttons)
  BY NAssumption DEF TypeOK, Buttons, Index, Reading
<1> USE DEF Ahead, Reading
<1>1. ASSUME NEW c \in Buttons, Press(c) \/ Release(c) PROVE Ahead(b)
  BY <1>1 DEF Press, Release
<1>2. CASE Wake \/ Sample \/ Stamp \/ ReadTime
  BY <1>0, <1>2 DEF Wake, Sample, Stamp, ReadTime
<1>3. CASE Click \/ ShortPressed \/ LongPressed \/ NoEvent
  BY <1>0, <1>3 DEF Click, ShortPressed, LongPressed, NoEvent
<1>4. CASE ReleaseRead \/ LongReleased
  BY <1>0, <1>4 DEF ReleaseRead, LongReleased
<1>5. CASE Validate
  <2>1. i' = i + 1 /\ pc' \in {"sample", "delay"} /\ pc = "validate"
    BY <1>5 DEF Validate
  <2> QED
    BY <1>0, <2>1
<1>6. CASE UNCHANGED vars
  BY <1>6 DEF vars
<1> QED
  BY <1>1, <1>2, <1>3, <1>4, <1>5, <1>6 DEF Next, PushButton

\* The releases are written by Stamp; the others only take their events.
LEMMA Unreleased ==
  TypeOK /\ [Next]_vars /\ ~Stamp =>
    /\ UNCHANGED <<pressed, released>>
    /\ \A b \in Buttons : /\ event'[b] => event[b]
                          /\ holding'[b] => holding[b]
<1> SUFFICES ASSUME TypeOK, [Next]_vars, ~Stamp
             PROVE  /\ UNCHANGED <<pressed, released>>
                    /\ \A b \in Buttons : /\ event'[b] => event[b]
                                          /\ holding'[b] => holding[b]
  OBVIOUS
<1> USE DEF times, flags
<1>1. CASE Tick \/ Wake \/ Sample \/ ReadTime
  BY <1>1 DEF Tick, Wake, Sample, ReadTime
<1>2. ASSUME NEW c \in Buttons, Press(c) \/ Release(c)
      PROVE  UNCHANGED <<pressed, released, event, holding>>
  BY <1>2 DEF Press, Release
<1>3. CASE Click
  BY <1>3 DEF Click, TypeOK
<1>4. CASE ShortPressed
  BY <1>4 DEF ShortPressed, TypeOK
<1>5. CASE LongPressed \/ ReleaseRead \/ NoEvent
  BY <1>5 DEF LongPressed, ReleaseRead, NoEvent
<1>6. CASE LongReleased
  BY <1>6, LongReleasedIs
<1>7. CASE Validate
  BY <1>7 DEF Validate
<1>8. CASE UNCHANGED vars
  BY <1>8 DEF vars
<1> QED
  BY <1>1, <1>2, <1>3, <1>4, <1>5, <1>6, <1>7, <1>8 DEF Next, PushButton

LEMMA StaleStep == TypeOK /\ Clock /\ Stale /\ [Next]_vars => Stale'
<1> SUFFICES ASSUME TypeOK, Clock, Stale, [Next]_vars,
                    NEW b \in Buttons, event'[b]
             PROVE  \E q \in 0 .. ticks' :
                      /\ released'[b] = At(q)
                      /\ Ahead(b)' => q < ticks'
                      /\ holding'[b] => \E p \in q + 1 .. ticks' : pressed'[b] = At(p)
  BY DEF Stale
<1>0. /\ ticks \in 0 .. MaxTicks /\ MaxTicks \in Nat /\ i \in Int /\ b \in Int
      /\ now = At(ticks)
  BY TimeAssumption DEF TypeOK, Clock, Index, Buttons
<1>1. CASE Tick
  <2>1. ticks' = ticks + 1
    BY <1>1 DEF Tick
  <2>2. UNCHANGED <<pressed, released, event, holding>>
    BY <1>1 DEF Tick, times, flags
  <2>3. PICK q \in 0 .. ticks :
          /\ released[b] = At(q)
          /\ holding[b] => \E p \in q + 1 .. ticks : pressed[b] = At(p)
    BY <2>2 DEF Stale
  <2>4. q \in 0 .. ticks' /\ q < ticks'
        /\ \A p \in q + 1 .. ticks : p \in q + 1 .. ticks'
    BY <1>0, <2>1
  <2> QED
    BY <2>2, <2>3, <2>4
<1>2. CASE Stamp
  <2>1. i \in Buttons /\ pc = "stamp" /\ pc' = "read" /\ i' = i /\ ticks' = ticks
    BY <1>2, StampIs
  <2>2. CASE b = i /\ released'[i] = now /\ ~holding'[i]
    <3>1. ~Ahead(b)'
      BY <1>0, <2>1, <2>2 DEF Ahead, Reading
    <3> QED
      BY <1>0, <2>1, <2>2, <3>1
  <2>3. CASE b = i /\ pressed'[i] = now /\ event[i] /\ released'[i] = released[i]
    <3>1. PICK q \in 0 .. ticks :
            released[b] = At(q) /\ (Ahead(b) => q < ticks)
      BY <2>3 DEF Stale
    <3>2. Ahead(b)
      BY <1>0, <2>1, <2>3 DEF Ahead
    <3>3. q < ticks /\ ticks \in q + 1 .. ticks
      BY <1>0, <3>1, <3>2
    <3> QED
      BY <1>0, <2>1, <2>3, <3>1, <3>3
  <2>4. CASE /\ pressed'[b] = pressed[b] /\ released'[b] = released[b]
             /\ event[b] /\ (holding'[b] => holding[b])
    <3>1. ~Tick
      BY <1>0, <2>1 DEF Tick
    <3>2. Ahead(b)' => Ahead(b)
      BY <3>1, AheadShrinks
    <3>3. PICK q \in 0 .. ticks :
            /\ released[b] = At(q)
            /\ Ahead(b) => q < ticks
            /\ holding[b] => \E p \in q + 1 .. ticks : pressed[b] = At(p)
      BY <2>4 DEF Stale
    <3> QED
      BY <2>1, <2>4, <3>2, <3>3
  <2> QED
    BY <1>2, <2>2, <2>3, <2>4, StampIs
<1>3. CASE ~Tick /\ ~Stamp
  <2>1. /\ event[b] /\ released'[b] = released[b] /\ pressed'[b] = pressed[b]
        /\ (holding'[b] => holding[b]) /\ ticks' = ticks
        /\ (Ahead(b)' => Ahead(b))
    <3>1. ticks' = ticks
      BY <1>3, Untimed DEF ReadTime
    <3> QED
      BY <1>3, <3>1, Unreleased, AheadShrinks
  <2>2. PICK q \in 0 .. ticks :
          /\ released[b] = At(q)
          /\ Ahead(b) => q < ticks
          /\ holding[b] => \E p \in q + 1 .. ticks : pressed[b] = At(p)
    BY <2>1 DEF Stale
  <2> QED
    BY <2>1, <2>2
<1> QED
  BY <1>1, <1>2, <1>3

-----------------------------------------------------------------------------
(* Effects.                                                                 *)

InHold == pc \in {"hold", "settle", "settled"}

\* A press that is followed, or whose release has still to be dealt with, had no
\* effect yet, but for the long press the thread is waiting to end.
Effects ==
  /\ InHold => uses[i] = {"long"} /\ holding[i]
  /\ \A b \in Buttons :
       /\ uses[b] \in {{}, {"click"}, {"long"}}
       /\ holding[b] \/ event[b] => uses[b] = {} \/ (InHold /\ b = i)

\* An event that was left over makes no click of the press that follows: the
\* difference of the counts is negative and wraps to more than the window.
LEMMA LeftOverIsLong ==
  TypeOK /\ Stale =>
    \A b \in Buttons :
      event[b] /\ holding[b] => Since(released[b], pressed[b]) > Window
<1> SUFFICES ASSUME TypeOK, Stale, NEW b \in Buttons, event[b], holding[b]
             PROVE  Since(released[b], pressed[b]) > Window
  OBVIOUS
<1>1. PICK q \in 0 .. ticks :
        released[b] = At(q) /\ \E p \in q + 1 .. ticks : pressed[b] = At(p)
  BY DEF Stale
<1>2. PICK p \in q + 1 .. ticks : pressed[b] = At(p)
  BY <1>1
<1>3. /\ q \in 0 .. MaxTicks /\ p \in 0 .. MaxTicks /\ ~(p <= q)
      /\ W - (p - q) > Window
  BY TimeAssumption DEF TypeOK
<1> QED
  BY <1>1, <1>2, <1>3, SinceAt

LEMMA EffectsStep ==
  TypeOK /\ Opposite /\ Stale /\ Effects /\ [Next]_vars => Effects'
<1> SUFFICES ASSUME TypeOK, Opposite, Stale, Effects, [Next]_vars
             PROVE  Effects'
  OBVIOUS
<1>0. Reading => i \in Buttons
  BY DEF Reading, TypeOK
<1>1. CASE Tick
  BY <1>1 DEF Tick, Delayed, Effects, InHold, flags, history
<1>2. ASSUME NEW c \in Buttons, Press(c) \/ Release(c) PROVE Effects'
  BY <1>2 DEF Press, Release, Effects, InHold, flags, history
<1>3. CASE Wake \/ UNCHANGED vars
  BY <1>3 DEF Wake, vars, Effects, InHold, flags, history
<1>11. CASE Sample \/ ReadTime
  BY <1>11 DEF Sample, ReadTime, Effects, InHold, flags, history
<1>4. CASE Stamp
  <2>1. /\ i \in Buttons /\ i' = i /\ ~InHold /\ ~InHold'
        /\ event'[i] \/ holding'[i] => uses'[i] = {}
        /\ uses'[i] \in {{}, {"click"}, {"long"}}
    BY <1>4, StampIs DEF Effects, InHold, Opposite
  <2>2. \A b \in Buttons : b # i => holding'[b] = holding[b] /\ event'[b] = event[b]
                                    /\ uses'[b] = uses[b]
    BY <1>4, StampIs
  <2> QED
    BY <2>1, <2>2 DEF Effects
<1>5. CASE Click
  <2>1. /\ i \in Buttons /\ i' = i /\ event[i] /\ ~InHold /\ ~InHold'
        /\ Since(released[i], pressed[i]) < ShortPress
        /\ UNCHANGED holding
    BY <1>5, <1>0 DEF Click, InHold, Duration, Reading
  <2>2. ~holding[i]
    <3>1. Since(released[i], pressed[i]) \in Nat
      BY <2>1, TimeAssumption DEF Since, TypeOK, Time
    <3> QED
      BY <2>1, <3>1, LeftOverIsLong, TimeAssumption
  <2>3. uses[i] = {}
    BY <2>1 DEF Effects
  <2>4. /\ uses'[i] = {"click"} /\ ~event'[i]
        /\ \A b \in Buttons : b # i => uses'[b] = uses[b] /\ event'[b] = event[b]
    BY <1>5, <2>1, <2>3 DEF Click, TypeOK
  <2> QED
    BY <2>1, <2>2, <2>4 DEF Effects
<1>6. CASE ShortPressed
  <2>1. /\ ~InHold /\ ~InHold' /\ UNCHANGED <<holding, uses, i>>
        /\ \A b \in Buttons : event'[b] => event[b]
    BY <1>6, Unreleased DEF ShortPressed, InHold, history, Stamp
  <2> QED
    BY <2>1 DEF Effects
<1>7. CASE LongPressed
  <2>1. /\ i \in Buttons /\ i' = i /\ holding[i] /\ ~InHold /\ InHold'
        /\ UNCHANGED <<holding, event>>
    BY <1>7, <1>0 DEF LongPressed, HeldLong, InHold, Reading, flags
  <2>2. uses[i] = {}
    BY <2>1 DEF Effects
  <2>3. /\ uses'[i] = {"long"}
        /\ \A b \in Buttons : b # i => uses'[b] = uses[b]
    BY <1>7, <2>1, <2>2 DEF LongPressed, TypeOK
  <2> QED
    BY <2>1, <2>3 DEF Effects
<1>8. CASE ReleaseRead \/ NoEvent
  BY <1>8 DEF ReleaseRead, NoEvent, Effects, InHold, flags, history
<1>9. CASE LongReleased
  BY <1>9, LongReleasedIs DEF Effects, InHold
<1>10. CASE Validate
  <2>1. /\ ~InHold /\ ~InHold' /\ UNCHANGED <<holding, event, uses>>
    BY <1>10 DEF Validate, InHold, flags
  <2> QED
    BY <2>1 DEF Effects
<1> QED
  BY <1>1, <1>2, <1>3, <1>4, <1>5, <1>6, <1>7, <1>8, <1>9, <1>10, <1>11
  DEF Next, PushButton

-----------------------------------------------------------------------------
(* Levels.                                                                  *)

\* What is followed when the edges have been looked at is a button that was down.
Shown == pc \in {"read", "act"} /\ holding[i] => level

LEMMA ShownStep ==
  TypeOK /\ Opposite /\ Shown /\ [Next]_vars => Shown'
<1> SUFFICES ASSUME TypeOK, Opposite, Shown, [Next]_vars, pc' \in {"read", "act"},
                    holding'[i']
             PROVE  level'
  BY DEF Shown
<1> USE DEF Shown, flags
<1>1. CASE Tick
  BY <1>1 DEF Tick, Delayed
<1>2. ASSUME NEW b \in Buttons, Press(b) \/ Release(b) PROVE level'
  BY <1>2 DEF Press, Release
<1>3. CASE Wake \/ Sample \/ Click \/ ShortPressed \/ LongPressed
  BY <1>3 DEF Wake, Sample, Click, ShortPressed, LongPressed
<1>4. CASE ReleaseRead \/ LongReleased \/ NoEvent \/ Validate
  BY <1>4 DEF ReleaseRead, LongReleased, NoEvent, Validate
<1>5. CASE Stamp
  <2>1. i \in Buttons /\ i' = i /\ level' = level
    BY <1>5, StampIs
  <2>2. CASE level
    BY <2>1, <2>2
  <2>3. CASE ~level
    <3>4. level \in BOOLEAN /\ edge[i] \in BOOLEAN
      BY <2>1 DEF TypeOK
    <3>1. edge[i] => UNCHANGED holding
      BY <1>5, <2>1, <2>3 DEF Stamp
    <3>2. ~edge[i] => holding' = [holding EXCEPT ![i] = FALSE]
      BY <1>5, <2>1, <2>3, <3>4 DEF Stamp
    <3>3. ~holding'[i]
      BY <2>1, <3>1, <3>2 DEF Opposite, TypeOK
    <3> QED
      BY <2>1, <3>3
  <2> QED
    BY <2>2, <2>3
<1>6. CASE ReadTime \/ UNCHANGED vars
  BY <1>6 DEF ReadTime, vars
<1> QED
  BY <1>1, <1>2, <1>3, <1>4, <1>5, <1>6 DEF Next, PushButton

-----------------------------------------------------------------------------
(* Bursts.                                                                  *)

\* The first click of the burst of a button, in made.
First(b) == Required + 1 - count[b]

\* One button at most has a burst, and the last clicks are its.  The burst began at
\* the tick its first click was seen at, or began after time_current was read and
\* does not outlive this call.
Burst ==
  /\ Counted
  /\ \A b \in Buttons : window[b] <=> count[b] > 0
  /\ \A b, c \in Buttons : window[b] /\ window[c] => b = c
  /\ \A b \in Buttons : window[b] =>
       /\ start = At(began)
       /\ \A k \in First(b) .. Required : made[k].button = b
       /\ \/ made[First(b)].at = began /\ began <= Looked
          \/ slipped /\ pc = "validate" /\ b = i /\ Looked < began
  /\ \A k \in 1 .. Required : made[k].at <= Looked

\* The bursts are written by Click and Validate only.
LEMMA Unclicked ==
  [Next]_vars /\ ~Click /\ ~Validate =>
    /\ UNCHANGED <<count, window, start, made, began, slipped>>
    /\ pc = "validate" => UNCHANGED <<pc, i>>
<1> SUFFICES ASSUME [Next]_vars, ~Click, ~Validate
             PROVE  /\ UNCHANGED <<count, window, start, made, began, slipped>>
                    /\ pc = "validate" => UNCHANGED <<pc, i>>
  OBVIOUS
<1> USE DEF times, burst, history
<1>1. CASE Tick \/ Wake \/ Sample \/ Stamp \/ ReadTime
  BY <1>1 DEF Tick, Delayed, Wake, Sample, Stamp, ReadTime
<1>2. ASSUME NEW c \in Buttons, Press(c) \/ Release(c)
      PROVE  UNCHANGED <<count, window, start, made, began, slipped, pc, i>>
  BY <1>2 DEF Press, Release
<1>3. CASE ShortPressed \/ LongPressed \/ NoEvent
  BY <1>3 DEF ShortPressed, LongPressed, NoEvent
<1>4. CASE ReleaseRead \/ LongReleased
  BY <1>4 DEF ReleaseRead, LongReleased
<1>5. CASE UNCHANGED vars
  BY <1>5 DEF vars
<1> QED
  BY <1>1, <1>2, <1>3, <1>4, <1>5 DEF Next, PushButton

\* What the time of a burst tells in the call that has seen its last click.
LEMMA ExpiredIs ==
  TypeOK /\ Clock /\ Burst /\ pc = "validate" /\ window[i] =>
    /\ Looked = ReadAt /\ ReadAt \in 0 .. ticks /\ began \in 0 .. ticks
    /\ ReadAt < began => Expired /\ slipped
    /\ began <= ReadAt => (Expired <=> ReadAt - began > Window)
<1> SUFFICES ASSUME TypeOK, Clock, Burst, pc = "validate", window[i]
             PROVE  /\ Looked = ReadAt /\ ReadAt \in 0 .. ticks
                    /\ began \in 0 .. ticks
                    /\ ReadAt < began => Expired /\ slipped
                    /\ began <= ReadAt => (Expired <=> ReadAt - began > Window)
  OBVIOUS
<1>1. /\ i \in Buttons /\ Looked = ReadAt /\ ReadAt \in 0 .. ticks
      /\ current = At(ReadAt) /\ began \in 0 .. ticks /\ ticks \in 0 .. MaxTicks
  BY DEF TypeOK, Clock, Looked, Reading
<1>2. start = At(began) /\ (began <= ReadAt \/ slipped)
  BY <1>1 DEF Burst
<1>3. ReadAt \in 0 .. MaxTicks /\ began \in 0 .. MaxTicks
  BY <1>1, TimeAssumption
<1>4. Since(current, start) = IF began <= ReadAt THEN ReadAt - began
                                                ELSE W - (began - ReadAt)
  BY <1>1, <1>2, <1>3, SinceAt
<1>5. ReadAt < began => W - (began - ReadAt) > Window /\ ~(began <= ReadAt)
  BY <1>3, TimeAssumption
<1> QED
  BY <1>1, <1>2, <1>4, <1>5 DEF Expired

LEMMA BurstStep == TypeOK /\ Clock /\ Burst /\ [Next]_vars => Burst'
<1> SUFFICES ASSUME TypeOK, Clock, Burst, [Next]_vars PROVE Burst'
  OBVIOUS
<1>0. /\ Looked \in 0 .. ticks /\ Looked' \in 0 .. ticks' /\ Looked <= Looked'
      /\ Reading /\ Reading' => ReadAt' = ReadAt
      /\ ticks \in 0 .. MaxTicks /\ MaxTicks \in Nat /\ Required \in Nat \ {0}
      /\ Clock'
  BY ClockStep, TimeAssumption, RequiredAssumption DEF TypeOK
<1>1. \A k \in 1 .. Required : made[k].at \in Int
  <2> TAKE k \in 1 .. Required
  <2>1. made[k] \in [button : 0 .. N, at : 0 .. ticks]
    BY DEF TypeOK
  <2> QED
    BY <2>1
<1>2. CASE Click
  <2>1. /\ i \in Buttons /\ i' = i /\ pc = "act" /\ pc' = "validate"
        /\ Looked = ReadAt /\ Looked' = ReadAt /\ ReadAt \in 0 .. ticks
        /\ current' = current /\ now' = now /\ ticks' = ticks
    BY <1>0, <1>2 DEF Click, TypeOK, Looked, Reading, Clock
  <2>2. /\ [button |-> i, at |-> ReadAt] \in [button : 0 .. N, at : 0 .. ticks]
        /\ made \in [1 .. Required -> [button : 0 .. N, at : 0 .. ticks]]
    BY <2>1, NAssumption DEF Buttons, TypeOK
  <2>3. /\ made'[Required] = [button |-> i, at |-> ReadAt]
        /\ \A k \in 1 .. Required - 1 : made'[k] = made[k + 1]
    <3>1. made' = Append(Tail(made), [button |-> i, at |-> ReadAt])
      BY <1>2 DEF Click
    <3>2. PICK S, x : /\ S = [button : 0 .. N, at : 0 .. ticks]
                      /\ x = [button |-> i, at |-> ReadAt]
      OBVIOUS
    <3>3. x \in S /\ made \in [1 .. Required -> S]
      BY <2>2, <3>2
    <3>4. /\ Append(Tail(made), x)[Required] = x
          /\ \A k \in 1 .. Required - 1 : Append(Tail(made), x)[k] = made[k + 1]
      <4>1. \A s \in [1 .. Required -> S], y \in S :
              /\ Append(Tail(s), y) \in [1 .. Required -> S]
              /\ Append(Tail(s), y)[Required] = y
              /\ \A k \in 1 .. Required - 1 : Append(Tail(s), y)[k] = s[k + 1]
        BY MadeShifts, Zenon
      <4> QED
        BY <3>3, <4>1
    <3> QED
      BY <3>1, <3>2, <3>4
  <2>4. \A k \in 1 .. Required : made'[k].at <= Looked'
    <3> SUFFICES ASSUME NEW k \in 1 .. Required PROVE made'[k].at <= Looked'
      OBVIOUS
    <3>1. CASE k = Required
      BY <2>1, <2>3, <3>1
    <3>2. CASE k # Required
      <4>1. k \in 1 .. Required - 1 /\ k + 1 \in 1 .. Required
        BY <1>0, <3>2
      <4> QED
        BY <2>1, <2>3, <4>1 DEF Burst
    <3> QED
      BY <3>1, <3>2
  <2>5. CASE window[i]
    <3>1. /\ count[i] > 0 /\ count[i] < Required /\ count[i] \in Nat
          /\ count' = [count EXCEPT ![i] = @ + 1]
          /\ UNCHANGED <<window, start, began, slipped>>
      BY <1>2, <2>1, <2>5, RequiredAssumption
      DEF Click, NextClick, Burst, Counted, TypeOK
    <3>2. \A b \in Buttons : b # i => ~window[b] /\ count'[b] = count[b]
      BY <2>1, <2>5, <3>1 DEF Burst, TypeOK
    <3>3. count'[i] = count[i] + 1
      BY <2>1, <3>1 DEF TypeOK
    <3>4. PICK f \in 2 .. Required : f = First(i) /\ First(i)' = f - 1
      BY <2>1, <3>1, <3>3, <1>0 DEF First
    <3>5. \A k \in f - 1 .. Required : made'[k].button = i
      <4> SUFFICES ASSUME NEW k \in f - 1 .. Required PROVE made'[k].button = i
        OBVIOUS
      <4>1. CASE k = Required
        BY <2>3, <4>1
      <4>2. CASE k # Required
        <5>1. k \in 1 .. Required - 1 /\ k + 1 \in f .. Required
          BY <1>0, <4>2
        <5> QED
          BY <2>1, <2>3, <2>5, <3>4, <5>1 DEF Burst
      <4> QED
        BY <4>1, <4>2
    <3>6. made[f].at = began /\ began <= Looked /\ start = At(began)
      BY <2>1, <2>5, <3>4 DEF Burst
    <3>7. made'[f - 1] = made[f]
      <4>1. f - 1 \in 1 .. Required - 1 /\ (f - 1) + 1 = f
        BY <1>0
      <4> QED
        BY <2>3, <4>1
    <3>8. Counted'
      BY <2>1, <3>2, <1>2 DEF Counted, Burst
    <3>9. ASSUME NEW b \in Buttons
          PROVE  /\ window'[b] <=> count'[b] > 0
                 /\ window'[b] =>
                      /\ b = i /\ start' = At(began')
                      /\ \A k \in First(b)' .. Required : made'[k].button = b
                      /\ made'[First(b)'].at = began' /\ began' <= Looked'
      BY <2>1, <2>5, <3>1, <3>2, <3>3, <3>4, <3>5, <3>6, <3>7 DEF Burst
    <3> QED
      BY <2>4, <3>8, <3>9 DEF Burst
  <2>6. CASE ~window[i]
    <3>1. /\ window' = [b \in Buttons |-> b = i]
          /\ count' = [b \in Buttons |-> IF b = i THEN 1 ELSE 0]
          /\ start' = now /\ began' = ticks /\ slipped' = (now # current)
      BY <1>2, <2>6 DEF Click, StartBurst
    <3>2. ASSUME NEW b \in Buttons, b = i PROVE First(b)' = Required
      BY <1>0, <3>1, <3>2 DEF First
    <3>3. start' = At(began')
      BY <3>1 DEF Clock
    <3>4. ReadAt < ticks => now # current
      <4>1. /\ ticks \in 0 .. MaxTicks /\ ReadAt \in 0 .. MaxTicks
            /\ now = At(ticks) /\ current = At(ReadAt) /\ ticks <= ticks
        BY <1>0, <2>1 DEF Clock, Reading
      <4>2. Since(now, current) = ticks - ReadAt /\ Since(now, now) = ticks - ticks
        BY <4>1, <2>1, SinceAt
      <4> QED
        BY <4>1, <4>2
    <3>5. ReadAt < ticks \/ ReadAt = ticks
      BY <1>0, <2>1
    <3>6. Counted'
      BY <1>0, <2>1, <3>1 DEF Counted
    <3>7. ASSUME NEW b \in Buttons
          PROVE  /\ window'[b] <=> count'[b] > 0
                 /\ window'[b] =>
                      /\ b = i /\ start' = At(began')
                      /\ \A k \in First(b)' .. Required : made'[k].button = b
                      /\ \/ made'[First(b)'].at = began' /\ began' <= Looked'
                         \/ slipped' /\ pc' = "validate" /\ b = i' /\ Looked' < began'
      <4>1. window'[b] <=> b = i
        BY <3>1
      <4>2. count'[b] > 0 <=> b = i
        BY <3>1
      <4>3. \A k \in Required .. Required : made'[k].button = i
        BY <1>0, <2>3
      <4>4. \/ made'[Required].at = began' /\ began' <= Looked'
            \/ slipped' /\ pc' = "validate" /\ i = i' /\ Looked' < began'
        <5>1. made'[Required].at = ReadAt
          BY <2>3
        <5> QED
          BY <2>1, <3>1, <3>4, <3>5, <5>1, <1>0
      <4> QED
        <5>1. CASE b = i
          <6>1. First(b)' = Required /\ b = i'
            BY <2>1, <3>2, <5>1
          <6> QED
            BY <3>3, <4>1, <4>2, <4>3, <4>4, <5>1, <6>1
        <5>2. CASE b # i
          BY <4>1, <4>2, <5>2
        <5> QED
          BY <5>1, <5>2
    <3> QED
      BY <2>4, <3>6, <3>7 DEF Burst
  <2> QED
    BY <2>5, <2>6
<1>3. CASE Validate
  <2>1. /\ i \in Buttons /\ pc = "validate" /\ pc' # "validate"
        /\ UNCHANGED <<start, made, began, slipped>>
        /\ i' = i + 1
    BY <1>3 DEF Validate, TypeOK, times
  <2>2. \A b \in Buttons : b # i => window'[b] = window[b] /\ count'[b] = count[b]
    BY <1>3 DEF Validate, TypeOK, burst
  <2>3. \/ ~window'[i] /\ count'[i] = 0
        \/ /\ UNCHANGED <<window, count>>
           /\ window[i] => ~Expired /\ count[i] # Required
    BY <1>3, <2>1 DEF Validate, TypeOK, burst, Burst, Complete
  <2>4. window'[i] => ~(Looked < began)
    BY <2>1, <2>3, ExpiredIs, <1>0 DEF TypeOK
  <2>5. \A b \in Buttons : window'[b] => window[b] /\ count'[b] = count[b]
    BY <2>1, <2>2, <2>3
  <2>6. \A b \in Buttons : window'[b] <=> count'[b] > 0
    BY <2>1, <2>2, <2>3 DEF Burst
  <2>7. Counted'
    BY <1>0, <2>1, <2>2, <2>3 DEF Counted, Burst
  <2>8. \A k \in 1 .. Required : made'[k].at <= Looked'
    BY <1>0, <1>1, <2>1 DEF Burst
  <2>9. ASSUME NEW b \in Buttons, window'[b]
        PROVE  /\ start' = At(began')
               /\ \A k \in First(b)' .. Required : made'[k].button = b
               /\ made'[First(b)'].at = began' /\ began' <= Looked'
    <3>1. window[b] /\ First(b)' = First(b)
      BY <2>5, <2>9 DEF First
    <3>2. /\ made[First(b)].at = began /\ began <= Looked /\ start = At(began)
          /\ \A k \in First(b) .. Required : made[k].button = b
      BY <2>4, <2>9, <3>1 DEF Burst
    <3>3. began <= Looked'
      BY <1>0, <3>2 DEF TypeOK
    <3> QED
      BY <2>1, <3>1, <3>2, <3>3
  <2>10. \A b, c \in Buttons : window'[b] /\ window'[c] => b = c
    BY <2>5 DEF Burst
  <2> QED
    BY <2>6, <2>7, <2>8, <2>9, <2>10 DEF Burst
<1>4. CASE ~Click /\ ~Validate
  <2>1. /\ UNCHANGED <<count, window, start, made, began, slipped>>
        /\ pc = "validate" => UNCHANGED <<pc, i>>
    BY <1>4, Unclicked
  <2>2. pc = "validate" => Looked' = Looked
    BY <1>0, <2>1 DEF Looked, Reading
  <2>3. Counted'
    BY <2>1 DEF Counted, Burst
  <2>4. \A k \in 1 .. Required : made'[k].at <= Looked'
    BY <1>0, <1>1, <2>1 DEF Burst
  <2>5. ASSUME NEW b \in Buttons, window'[b]
        PROVE  /\ start' = At(began')
               /\ \A k \in First(b)' .. Required : made'[k].button = b
               /\ \/ made'[First(b)'].at = began' /\ began' <= Looked'
                  \/ slipped' /\ pc' = "validate" /\ b = i' /\ Looked' < began'
    <3>1. window[b] /\ First(b)' = First(b)
      BY <2>1, <2>5 DEF First
    <3>2. /\ start = At(began)
          /\ \A k \in First(b) .. Required : made[k].button = b
          /\ \/ made[First(b)].at = began /\ began <= Looked
             \/ slipped /\ pc = "validate" /\ b = i /\ Looked < began
      BY <3>1 DEF Burst
    <3>3. began <= Looked => began <= Looked'
      BY <1>0 DEF TypeOK
    <3> QED
      BY <2>1, <2>2, <3>1, <3>2, <3>3
  <2>6. \A b, c \in Buttons : window'[b] /\ window'[c] => b = c
    BY <2>1 DEF Burst
  <2> QED
    BY <2>1, <2>3, <2>4, <2>5, <2>6 DEF Burst
<1> QED
  BY <1>2, <1>3, <1>4

-----------------------------------------------------------------------------
(* The theorems.                                                            *)

Inv ==
  /\ TypeOK /\ Clock
  /\ Opposite /\ Held /\ Shown
  /\ Stale /\ Effects
  /\ Burst

LEMMA InitInv == Init => Inv
<1> SUFFICES ASSUME Init PROVE Inv
  OBVIOUS
<1>1. TypeOK /\ Clock
  BY InitType
<1>2. Opposite /\ Held /\ Shown /\ Stale /\ Effects
  BY DEF Init, Opposite, Held, Shown, Stale, Effects, InHold
<1>3. ~Reading /\ ticks = 0 /\ Required \in Nat \ {0}
  BY RequiredAssumption DEF Init, Reading
<1>4. /\ \A b \in Buttons : ~window[b] /\ count[b] = 0
      /\ \A k \in 1 .. Required : made[k].at = 0
  BY DEF Init, NoClick
<1>5. Burst
  BY <1>3, <1>4 DEF Burst, Counted, Looked
<1> QED
  BY <1>1, <1>2, <1>5 DEF Inv

LEMMA InvStep == Inv /\ [Next]_vars => Inv'
<1> SUFFICES ASSUME Inv, [Next]_vars PROVE Inv'
  OBVIOUS
<1>1. TypeOK' /\ Clock'
  BY TypeStep, ClockStep DEF Inv, Burst
<1>2. Opposite' /\ Held' /\ Shown' /\ Stale' /\ Effects' /\ Burst'
  BY HeldStep, ShownStep, StaleStep, EffectsStep, BurstStep DEF Inv
<1> QED
  BY <1>1, <1>2 DEF Inv

LEMMA InvHolds == Spec => []Inv
BY InitInv, InvStep, PTL DEF Spec

\* Every variable has its type.
THEOREM TypeCorrect == Spec => []TypeOK
<1>1. Inv => TypeOK
  BY DEF Inv
<1> QED
  BY <1>1, InvHolds, PTL

\* A press is a click or a long press, and is counted once.  This rests on the delay
\* between two rounds: without it a release that is seen too late and the next press
\* could bear the same tick, and the press would be a click at once and a long press
\* later.
THEOREM PressHasOneEffect == Spec => []OneEffectPerPress
<1>1. Inv => OneEffectPerPress
  BY DEF Inv, Effects, OneEffectPerPress
<1> QED
  BY <1>1, InvHolds, PTL

\* The clicks that change the mode are of one button and within the window, whatever
\* the tick count was at power-up and wherever it wraps.
THEOREM ClicksAreReal == Spec => ClicksWereMade
<1>1. ASSUME Inv, [Next]_vars, mode # "clicks", mode' = "clicks"
      PROVE  /\ \A k \in 1 .. Required : made[k].button = i
             /\ made[Required].at - made[1].at <= Window
  <2>1. Validate /\ count[i] > 0 /\ window[i] /\ ~Expired /\ Complete
    <3>1. CASE \E b \in Buttons : Press(b) \/ Release(b)
      BY <1>1, <3>1 DEF Press, Release, history
    <3>2. CASE Tick \/ Wake \/ Sample \/ Stamp \/ ReadTime \/ UNCHANGED vars
      BY <1>1, <3>2 DEF Tick, Wake, Sample, Stamp, ReadTime, vars, history
    <3>3. CASE Click \/ ShortPressed \/ LongPressed \/ NoEvent
      BY <1>1, <3>3 DEF Click, ShortPressed, LongPressed, NoEvent, history
    <3>4. CASE ReleaseRead \/ LongReleased
      BY <1>1, <3>4 DEF ReleaseRead, LongReleased, history
    <3>5. CASE Validate
      BY <1>1, <3>5 DEF Validate
    <3> QED
      BY <1>1, <3>1, <3>2, <3>3, <3>4, <3>5 DEF Next, PushButton
  <2>2. /\ i \in Buttons /\ pc = "validate" /\ Required \in Nat \ {0}
        /\ count[i] = Required /\ First(i) = 1
    BY <1>1, <2>1, RequiredAssumption DEF Inv, TypeOK, Validate, Complete, First
  <2>3. /\ Looked = ReadAt /\ ReadAt \in 0 .. ticks /\ began \in 0 .. ticks
        /\ began <= ReadAt /\ ReadAt - began <= Window
    <3>1. /\ Looked = ReadAt /\ ReadAt \in 0 .. ticks /\ began \in 0 .. ticks
          /\ ReadAt < began => Expired
          /\ began <= ReadAt => (Expired <=> ReadAt - began > Window)
      BY <1>1, <2>1, <2>2, ExpiredIs DEF Inv
    <3>2. ticks \in Nat
      BY <1>1, TimeAssumption DEF Inv, TypeOK
    <3> QED
      BY <2>1, <3>1, <3>2, TimeAssumption
  <2>4. made[1].at = began /\ \A k \in 1 .. Required : made[k].button = i
    <3>1. /\ \A k \in First(i) .. Required : made[k].button = i
          /\ \/ made[First(i)].at = began
             \/ Looked < began
      BY <1>1, <2>1, <2>2 DEF Inv, Burst
    <3>2. ~(Looked < began)
      BY <1>1, <2>3, TimeAssumption DEF Inv, TypeOK
    <3> QED
      BY <2>2, <3>1, <3>2
  <2>5. made[Required].at <= ReadAt /\ made[Required].at \in Int
    <3>1. made[Required] \in [button : 0 .. N, at : 0 .. ticks]
      BY <1>1, <2>2 DEF Inv, TypeOK
    <3> QED
      BY <1>1, <2>2, <2>3, <3>1 DEF Inv, Burst
  <2>6. ticks \in Nat /\ Window \in Nat
    BY <1>1, TimeAssumption DEF Inv, TypeOK
  <2> QED
    BY <2>3, <2>4, <2>5, <2>6
<1>2. Inv /\ [Next]_vars =>
        [(mode # "clicks" /\ mode' = "clicks") =>
           /\ \A k \in 1 .. Required : made[k].button = i
           /\ made[Required].at - made[1].at <= Window]_vars
  BY <1>1
<1> QED
  BY <1>2, InvHolds, PTL DEF Spec, ClicksWereMade

\* A burst that is given up has lasted as long as the window, but for the one that
\* begins after time_current was read: for that one the difference wraps.
THEOREM BurstsLast == Spec => BurstLasts
<1>1. ASSUME Inv, [Next]_vars, pc = "validate", window[i], ~window'[i],
             mode' # "clicks"
      PROVE  ReadAt - began > Window \/ slipped
  <2>1. ~Click
    BY <1>1 DEF Click
  <2>2. Validate
    BY <1>1, <2>1, Unclicked
  <2>3. i \in Buttons /\ count[i] > 0
    BY <1>1 DEF Inv, TypeOK, Burst
  <2>4. Expired
    BY <1>1, <2>2, <2>3 DEF Validate, burst
  <2>5. /\ ReadAt \in 0 .. ticks /\ began \in 0 .. ticks
        /\ ReadAt < began => slipped
        /\ began <= ReadAt => (Expired <=> ReadAt - began > Window)
    BY <1>1, ExpiredIs DEF Inv
  <2>6. ticks \in Nat
    BY <1>1, TimeAssumption DEF Inv, TypeOK
  <2> QED
    BY <2>4, <2>5, <2>6
<1>2. Inv /\ [Next]_vars =>
        [(pc = "validate" /\ window[i] /\ ~window'[i] /\ mode' # "clicks") =>
           ReadAt - began > Window \/ slipped]_vars
  BY <1>1
<1> QED
  BY <1>2, InvHolds, PTL DEF Spec, BurstLasts

\* A long press was under way when the button was sampled and began longer ago than the
\* window, unless the button was let go and pressed again while nobody looked.
THEOREM LongPressIsReal == Spec => LongPressWasHeld
<1>1. ASSUME Inv, [Next]_vars, mode # "long", mode' = "long"
      PROVE  level /\ (ReadAt - since[i] > Window \/ i \in missed)
  <2>1. LongPressed
    <3>1. CASE \E b \in Buttons : Press(b) \/ Release(b)
      BY <1>1, <3>1 DEF Press, Release, history
    <3>2. CASE Tick \/ Wake \/ Sample \/ Stamp \/ ReadTime \/ UNCHANGED vars
      BY <1>1, <3>2 DEF Tick, Wake, Sample, Stamp, ReadTime, vars, history
    <3>3. CASE Click \/ ShortPressed \/ NoEvent
      BY <1>1, <3>3 DEF Click, ShortPressed, NoEvent, history
    <3>4. CASE ReleaseRead \/ LongReleased \/ Validate
      BY <1>1, <3>4 DEF ReleaseRead, LongReleased, Validate, history
    <3> QED
      BY <1>1, <3>1, <3>2, <3>3, <3>4 DEF Next, PushButton
  <2>2. /\ i \in Buttons /\ Looked = ReadAt /\ ReadAt \in 0 .. ticks
        /\ current = At(ReadAt) /\ ticks \in 0 .. MaxTicks
        /\ holding[i] /\ Since(current, pressed[i]) > Window
    BY <1>1, <2>1 DEF Inv, TypeOK, Clock, Looked, Reading, LongPressed, HeldLong
  <2>3. PICK p \in 0 .. ReadAt :
          pressed[i] = At(p) /\ (i \in missed \/ since[i] <= p)
    BY <1>1, <2>2 DEF Inv, Held
  <2>4. ReadAt \in 0 .. MaxTicks /\ p \in 0 .. MaxTicks /\ p <= ReadAt
    BY <2>2, TimeAssumption
  <2>5. ReadAt - p > Window
    BY <2>2, <2>3, <2>4, SinceAt
  <2>6. since[i] \in Nat /\ Window \in Nat
    BY <1>1, <2>2, TimeAssumption DEF Inv, TypeOK
  <2>7. level
    BY <1>1, <2>1, <2>2 DEF Inv, Shown, LongPressed
  <2> QED
    BY <2>3, <2>4, <2>5, <2>6, <2>7, TimeAssumption
<1>2. Inv /\ [Next]_vars =>
        [(mode # "long" /\ mode' = "long") =>
           level /\ (ReadAt - since[i] > Window \/ i \in missed)]_vars
  BY <1>1
<1> QED
  BY <1>2, InvHolds, PTL DEF Spec, LongPressWasHeld
=============================================================================

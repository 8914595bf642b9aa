------------------------------ MODULE PushButton ------------------------------
(***************************************************************************)
(* The thread of the push buttons (gpio_control.c).  While                 *)
(* casa_ctx.switch_interrupts is on it samples one button after the other, *)
(* every 20 ms, and tells from the times of the edges it saw a click,      *)
(* which toggles the load, a long press and a burst of clicks, which both  *)
(* change the mode: reg_dereg_button() starts a registration or a          *)
(* de-registration.                                                        *)
(*                                                                         *)
(* Time is osKernelGetTickCount(), which wraps.  push_button() reads the   *)
(* level of the button, the time of an edge, time_current and the start of *)
(* a burst one after the other, and time may pass between any two of them: *)
(* the thread has the lowest priority.  The timers of the loads are left   *)
(* out, nothing sets gpio_timer[].active, and what a click does to the     *)
(* load is in EndpointControl.tla.                                         *)
(***************************************************************************)
EXTENDS Naturals, Sequences

CONSTANTS
  N,           \* NO_OF_ENDPOINTS
  W,           \* the tick count is taken modulo W
  ShortPress,  \* SHORT_PRESS_THRESHOLD_MS
  Window,      \* MULTI_CLICK_WINDOW_MS
  Required,    \* MULTI_CLICK_REQUIRED
  Start,       \* the tick count at power-up
  MaxTicks     \* bound: ticks

Buttons == 1 .. N
Time == 0 .. W - 1
Index == 1 .. N + 1

ASSUME NAssumption == N \in Nat \ {0}
ASSUME TimeAssumption ==
  /\ W \in Nat \ {0} /\ Start \in Time
  /\ ShortPress \in Nat /\ Window \in Nat /\ ShortPress <= Window
  /\ MaxTicks \in Nat /\ MaxTicks + Window < W
ASSUME RequiredAssumption == Required \in Nat \ {0}

VARIABLES
  down,     \* the buttons that are held down
  now,      \* osKernelGetTickCount()
  pc, i,    \* where the thread is, and the button in hand
  level,    \* gpio_level: the button read as held down
  current,  \* time_current
  pressed,  \* btn_press_time_ms
  released, \* btn_release_time_ms
  holding,  \* btn_long_press_active
  count,    \* btn_click_count
  edge,     \* btn_edge_flag
  window,   \* btn_window_active
  event,    \* btn_released_event
  start,    \* multi_click_start_time_ms
  ticks,    \* bound and history: the tick count without the wrap
  since,    \* history: the tick each button was pressed at last
  missed,   \* history: the buttons released and pressed again unseen
  uses,     \* history: what each button's last press that was seen has done
  made,     \* history: the last Required clicks, and the ticks they were seen at
  began,    \* history: the tick the burst began at
  slipped,  \* history: the burst began after time_current was read
  mode      \* history: why the last call changed the mode

times == <<pressed, released, start>>
flags == <<holding, edge, event>>
burst == <<count, window>>
history == <<since, missed, uses, made, began, slipped, mode>>
vars == <<down, now, pc, i, level, current, times, flags, burst, history, ticks>>

NoClick == [button |-> 0, at |-> 0]

\* The flags of the buttons are static; the thread sets them at its start.
Init ==
  /\ down \in SUBSET Buttons
  /\ now = Start /\ current = 0
  /\ pc = "sleep" /\ i = 1 /\ level = FALSE
  /\ pressed = [b \in Buttons |-> 0] /\ released = [b \in Buttons |-> 0]
  /\ start = 0
  /\ holding = [b \in Buttons |-> FALSE] /\ edge = [b \in Buttons |-> TRUE]
  /\ event = [b \in Buttons |-> FALSE]
  /\ count = [b \in Buttons |-> 0] /\ window = [b \in Buttons |-> FALSE]
  /\ since = [b \in Buttons |-> 0] /\ missed = {}
  /\ uses = [b \in Buttons |-> {}]
  /\ made = [k \in 1 .. Required |-> NoClick]
  /\ began = 0 /\ slipped = FALSE /\ mode = "kept"
  /\ ticks = 0

\* The difference of two tick counts.
Since(t, u) == (t + W - u) % W
\* The tick time_current was read at.
ReadAt == ticks - Since(now, current)

-----------------------------------------------------------------------------
(* The surroundings: time and the user.  What happens after a call has read *)
(* the time for the last time the thread sees in the next one.             *)

Seen == pc # "validate"

\* A delay lasts for a tick at least.
Delayed ==
  CASE pc = "delay"  -> "sleep"
    [] pc = "settle" -> "settled"
    [] OTHER         -> pc

Tick ==
  /\ Seen /\ ticks < MaxTicks /\ ticks' = ticks + 1
  /\ now' = (now + 1) % W
  /\ pc' = Delayed
  /\ UNCHANGED <<down, i, level, current, times, flags, burst, history>>

Press(b) ==
  /\ Seen /\ b \notin down /\ down' = down \cup {b}
  /\ since' = [since EXCEPT ![b] = ticks]
  /\ missed' = IF edge[b] THEN missed ELSE missed \cup {b}
  /\ UNCHANGED <<now, pc, i, level, current, times, flags, burst, uses, made,
                 began, slipped, mode, ticks>>

Release(b) ==
  /\ Seen /\ b \in down /\ down' = down \ {b}
  /\ UNCHANGED <<now, pc, i, level, current, times, flags, burst, history, ticks>>

-----------------------------------------------------------------------------
(* push_button()                                                           *)

\* The thread sleeps for 20 ms, and for as long as switch_interrupts is off, which
\* the other threads decide: once the delay is over it may wake up at any time.
Wake ==
  /\ pc = "sleep"
  /\ pc' = "sample" /\ i' = 1
  /\ UNCHANGED <<down, now, level, current, times, flags, burst, history, ticks>>

\* The level of the button ...
Sample ==
  /\ pc = "sample"
  /\ level' = (i \in down)
  /\ mode' = "kept"
  /\ pc' = "stamp"
  /\ UNCHANGED <<down, now, i, current, times, flags, burst, since, missed, uses,
                 made, began, slipped, ticks>>

\* ... shows a press or a release that was not seen yet, which is given the time it
\* is by then ...
Stamp ==
  /\ pc = "stamp"
  /\ \/ /\ level /\ edge[i]
        /\ pressed' = [pressed EXCEPT ![i] = now]
        /\ holding' = [holding EXCEPT ![i] = TRUE]
        /\ edge' = [edge EXCEPT ![i] = FALSE]
        /\ uses' = [uses EXCEPT ![i] = {}]
        /\ missed' = missed \ {i}
        /\ UNCHANGED <<released, event>>
     \/ /\ ~level /\ ~edge[i]
        /\ released' = [released EXCEPT ![i] = now]
        /\ holding' = [holding EXCEPT ![i] = FALSE]
        /\ edge' = [edge EXCEPT ![i] = TRUE]
        /\ event' = [event EXCEPT ![i] = TRUE]
        /\ UNCHANGED <<pressed, uses, missed>>
     \/ /\ level # edge[i]
        /\ UNCHANGED <<pressed, released, flags, uses, missed>>
  /\ pc' = "read"
  /\ UNCHANGED <<down, now, i, level, current, start, burst, since, made, began,
                 slipped, mode, ticks>>

\* ... and then time_current is read.
ReadTime ==
  /\ pc = "read"
  /\ current' = now
  /\ pc' = "act"
  /\ UNCHANGED <<down, now, i, level, times, flags, burst, history, ticks>>

Duration == Since(released[i], pressed[i])

\* Mutant of StartBurst: the counts of the other buttons are kept.
StartBurst_KeepsCounts ==
  /\ window' = [b \in Buttons |-> b = i]
  /\ count' = [count EXCEPT ![i] = @ + 1]
  /\ start' = now /\ began' = ticks /\ slipped' = (now # current)
\* The first click of a burst; the bursts of the other buttons end.
StartBurst ==
  /\ window' = [b \in Buttons |-> b = i]
  /\ count' = [b \in Buttons |-> IF b = i THEN 1 ELSE 0]
  /\ start' = now /\ began' = ticks /\ slipped' = (now # current)

NextClick ==
  /\ count' = [count EXCEPT ![i] = @ + 1]
  /\ UNCHANGED <<window, start, began, slipped>>

Click ==
  /\ pc = "act" /\ event[i] /\ Duration < ShortPress
  /\ IF window[i] THEN NextClick ELSE StartBurst
  /\ event' = [event EXCEPT ![i] = FALSE]
  /\ uses' = [uses EXCEPT ![i] = @ \cup {"click"}]
  /\ made' = Append(Tail(made), [button |-> i, at |-> ReadAt])
  /\ pc' = "validate"
  /\ UNCHANGED <<down, now, i, level, current, pressed, released, holding, edge,
                 since, missed, mode, ticks>>

ShortPressed ==
  /\ pc = "act" /\ event[i] /\ Duration \in ShortPress .. Window
  /\ event' = [event EXCEPT ![i] = FALSE]
  /\ pc' = "validate"
  /\ UNCHANGED <<down, now, i, level, current, times, holding, edge, burst, history,
                 ticks>>

NotReleased == event[i] => Duration > Window
\* Mutant: at the limit already.
HeldLong_AtLimit == Since(current, pressed[i]) >= Window /\ holding[i]
HeldLong == Since(current, pressed[i]) > Window /\ holding[i]

LongPressed ==
  /\ pc = "act" /\ NotReleased /\ HeldLong
  /\ mode' = "long"
  /\ uses' = [uses EXCEPT ![i] = @ \cup {"long", IF "long" \in @ THEN "again" ELSE "long"}]
  /\ pc' = "hold"
  /\ UNCHANGED <<down, now, i, level, current, times, flags, burst, since, missed,
                 made, began, slipped, ticks>>

\* The loop that waits for the release, which no other button passes: the level is
\* looked at after the delay that follows the reading.
ReleaseRead ==
  /\ pc = "hold" /\ i \notin down
  /\ pc' = "settle"
  /\ UNCHANGED <<down, now, i, level, current, times, flags, burst, history, ticks>>

\* Mutant: the long press stays active.
LongReleased_StaysActive ==
  /\ pc = "settled"
  /\ event' = [event EXCEPT ![i] = FALSE]
  /\ edge' = [edge EXCEPT ![i] = TRUE]
  /\ pc' = "validate"
  /\ UNCHANGED <<holding, down, now, i, level, current, times, burst, history, ticks>>
\* After the delay, whatever the button does by then.
LongReleased ==
  /\ pc = "settled"
  /\ holding' = [holding EXCEPT ![i] = FALSE]
  /\ event' = [event EXCEPT ![i] = FALSE]
  /\ edge' = [edge EXCEPT ![i] = TRUE]
  /\ pc' = "validate"
  /\ UNCHANGED <<down, now, i, level, current, times, burst, history, ticks>>

NoEvent ==
  /\ pc = "act" /\ NotReleased /\ ~HeldLong
  /\ pc' = "validate"
  /\ UNCHANGED <<down, now, i, level, current, times, flags, burst, history, ticks>>

\* Mutant: at the limit already.
Expired_AtLimit == Since(current, start) >= Window
Expired == Since(current, start) > Window

Complete == count[i] = Required

Validate ==
  /\ pc = "validate"
  /\ LET on == count[i] > 0 /\ window[i]
         success == on /\ ~Expired /\ Complete
     IN
     /\ mode' = IF success THEN "clicks" ELSE mode
     /\ IF success \/ (on /\ Expired)
        THEN /\ count' = [count EXCEPT ![i] = 0]
             /\ window' = [window EXCEPT ![i] = FALSE]
        ELSE UNCHANGED burst
  /\ i' = i + 1 /\ level' = FALSE
  /\ pc' = IF i < N THEN "sample" ELSE "delay"
  /\ UNCHANGED <<down, now, current, times, flags, since, missed, uses, made,
                 began, slipped, ticks>>

-----------------------------------------------------------------------------

PushButton ==
  Sample \/ Stamp \/ ReadTime \/ Click \/ ShortPressed \/ LongPressed \/ ReleaseRead
    \/ LongReleased \/ NoEvent \/ Validate

Next ==
  \/ Tick \/ \E b \in Buttons : Press(b) \/ Release(b)
  \/ Wake \/ PushButton

Spec == Init /\ [][Next]_vars

-----------------------------------------------------------------------------

\* Every variable has its type; no click is counted beyond the number that
\* changes the mode (gpio_control.c:192).
TypeOK ==
  /\ down \subseteq Buttons
  /\ now \in Time /\ current \in Time /\ start \in Time
  /\ pc \in {"delay", "sleep", "sample", "stamp", "read", "act", "hold", "settle",
             "settled", "validate"}
  /\ level \in BOOLEAN
  /\ i \in Index /\ (pc \notin {"delay", "sleep"} => i \in Buttons)
  /\ pressed \in [Buttons -> Time] /\ released \in [Buttons -> Time]
  /\ holding \in [Buttons -> BOOLEAN] /\ edge \in [Buttons -> BOOLEAN]
  /\ event \in [Buttons -> BOOLEAN] /\ window \in [Buttons -> BOOLEAN]
  /\ count \in [Buttons -> 0 .. Required]
  /\ since \in [Buttons -> 0 .. ticks] /\ missed \subseteq Buttons
  /\ uses \in [Buttons -> SUBSET {"click", "long", "again"}]
  /\ made \in [1 .. Required -> [button : 0 .. N, at : 0 .. ticks]]
  /\ began \in 0 .. ticks /\ slipped \in BOOLEAN
  /\ mode \in {"kept", "long", "clicks"} /\ ticks \in 0 .. MaxTicks

\* A press has one effect: it is a click or a long press, never both, and a long
\* press counts once (gpio_control.c:173-189).
OneEffectPerPress == \A b \in Buttons : uses[b] \in {{}, {"click"}, {"long"}}

\* The clicks of one button change the mode only when it was clicked that often,
\* with no click of another button in between (gpio_control.c:150-151) and within the
\* window (gpio_control.c:194-195).
ClicksWereMade ==
  [][(mode # "clicks" /\ mode' = "clicks") =>
       /\ \A k \in 1 .. Required : made[k].button = i
       /\ made[Required].at - made[1].at <= Window]_vars

\* A burst that does not change the mode lasts as long as the window, unless
\* another button is clicked (gpio_control.c:203), or its beginning is read later
\* than the time it is compared with (gpio_control.c:143, 153).
BurstLasts ==
  [][(pc = "validate" /\ window[i] /\ ~window'[i] /\ mode' # "clicks") =>
       ReadAt - began > Window \/ slipped]_vars

\* A long press was under way when the button was sampled, and began longer ago than
\* the window (gpio_control.c:174), unless the button was released and pressed again
\* before anybody looked: the thread then takes the two presses for one.
LongPressWasHeld ==
  [][(mode # "long" /\ mode' = "long") =>
       level /\ (ReadAt - since[i] > Window \/ i \in missed)]_vars
=============================================================================

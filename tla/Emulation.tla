----------------------------- MODULE Emulation ------------------------------
(***************************************************************************)
(* Touchpad gestures the compositor plays to a client as a held key        *)
(* (cursor/axis.rs): a view drag holds Space and a button, a scroll over   *)
(* an X11 popup holds Ctrl, a sideways scroll holds Shift.                 *)
(*                                                                         *)
(* Each turns the keyboard's repeat off and puts back at its end what it   *)
(* found, and each arms the one timer that ends a gesture whose lift never *)
(* comes.                                                                  *)
(***************************************************************************)
EXTENDS Naturals

CONSTANT MaxEvents      \* bound: steps of a behaviour

VARIABLES
    g,          \* the gestures, the keyboard's repeat, the timer, what clients hear held
    at,         \* what is under the pointer: a "view", "popup" or "wide" app, or "other"
    conf,       \* the repeat of the configuration; 0 is off
    crossed,    \* a gesture began, or the configuration changed, while one was on
    moves

emuVars == <<g, at, conf, crossed, moves>>

Confs == {1, 2}
Off == [on |-> FALSE, pinch |-> FALSE, saved |-> 0]
Gestures == {"view", "wheel", "wide"}
KeyOf == [view |-> "space", wheel |-> "ctrl", wide |-> "shift"]

TypeOK ==
    /\ g \in [view : [on : BOOLEAN, pinch : BOOLEAN, saved : 0..2],
              wheel : [on : BOOLEAN, pinch : {FALSE}, saved : 0..2],
              wide : [on : BOOLEAN, pinch : {FALSE}, saved : 0..2],
              repeat : 0..2, timer : BOOLEAN, held : SUBSET {"space", "button", "ctrl", "shift"}]
    /\ at \in {"view", "popup", "wide", "other"} /\ conf \in Confs /\ crossed \in BOOLEAN
    /\ moves \in 0..MaxEvents

Init ==
    /\ g = [view |-> Off, wheel |-> Off, wide |-> Off, repeat |-> 1, timer |-> FALSE, held |-> {}]
    /\ at = "other" /\ conf = 1 /\ crossed = FALSE /\ moves = 0

AnyOn(s) == \E k \in Gestures : s[k].on

\* Mutant: the timer is not armed.
BegunUntimed(s, k, pinch) ==
    [s EXCEPT ![k] = [on |-> TRUE, pinch |-> pinch, saved |-> s.repeat],
              !.repeat = 0, !.held = @ \cup {KeyOf[k]}]

\* begin_view_drag and the beginnings of the two others.
Begun(s, k, pinch) ==
    [s EXCEPT ![k] = [on |-> TRUE, pinch |-> pinch, saved |-> s.repeat],
              !.repeat = 0, !.timer = TRUE, !.held = @ \cup {KeyOf[k]}]

\* end_view_drag, end_popup_wheel, end_hscroll_shift: nothing without the gesture;
\* its keys are released, its timer disarmed and the repeat restored.
Ended(s, k) ==
    IF ~s[k].on THEN s
    ELSE [s EXCEPT ![k] = Off, !.timer = FALSE, !.repeat = s[k].saved,
                   !.held = @ \ (IF k = "view" THEN {"space", "button"} ELSE {KeyOf[k]})]

\* move_view_drag: the first motion presses the button.
Moved(s) == [s EXCEPT !.held = @ \cup {"button"}, !.timer = TRUE]

AllEnded(s) == Ended(Ended(Ended(s, "view"), "wheel"), "wide")

-----------------------------------------------------------------------------
(* A finger scroll: each path takes the event or hands it to the next.  It *)
(* is "up", "side", a "lift", or comes with a "modifier" held.             *)

Taken(s) == [s |-> s, done |-> TRUE]
Passed(s) == [s |-> s, done |-> FALSE]

\* view_drag_axis.
ViewAxis(s, event) ==
    CASE s.view.on /\ s.view.pinch -> Passed(s)
      [] event = "lift" /\ s.view.on /\ ~s.view.pinch -> Taken(Ended(s, "view"))
      [] event = "modifier" /\ ~s.view.pinch -> Passed(Ended(s, "view"))
      [] event \in {"up", "side"} /\ s.view.on /\ ~s.view.pinch -> Taken(Moved(s))
      [] event \in {"up", "side"} /\ ~s.view.on /\ at = "view" -> Taken(Moved(Begun(s, "view", FALSE)))
      [] OTHER -> Passed(s)

\* popup_wheel_axis: it belongs to the popup it began on.
WheelAxis(s, event) ==
    CASE event = "lift" -> IF s.wheel.on THEN Taken(Ended(s, "wheel")) ELSE Passed(s)
      [] event = "modifier" -> Passed(Ended(s, "wheel"))
      [] event \in {"up", "side"} /\ at # "popup" -> Passed(Ended(s, "wheel"))
      [] OTHER -> Taken([(IF s.wheel.on THEN s ELSE Begun(s, "wheel", FALSE)) EXCEPT !.timer = TRUE])

\* hscroll_shift_axis: only a sideways scroll begins it.
WideAxis(s, event) ==
    CASE event = "lift" -> IF s.wide.on THEN Taken(Ended(s, "wide")) ELSE Passed(s)
      [] event = "modifier" -> Passed(Ended(s, "wide"))
      [] event \in {"up", "side"} /\ at # "wide" -> Passed(Ended(s, "wide"))
      [] event = "up" /\ at = "wide" /\ ~s.wide.on -> Passed(s)
      [] OTHER -> Taken([(IF s.wide.on THEN s ELSE Begun(s, "wide", FALSE)) EXCEPT !.timer = TRUE])

OnAxis(s, event) ==
    LET v == ViewAxis(s, event)
        w == IF v.done THEN v ELSE WheelAxis(v.s, event)
    IN IF w.done THEN w.s ELSE WideAxis(w.s, event).s

Cross(s) == crossed' = (crossed \/ \E k \in Gestures : ~g[k].on /\ s[k].on /\ AnyOn([g EXCEPT ![k] = Off]))

Axis(event) ==
    /\ g' = OnAxis(g, event) /\ Cross(g')
    /\ UNCHANGED <<at, conf>>

\* view_drag_pinch_begin, _update and _end.
PinchBegin ==
    /\ LET s == Ended(g, "view") IN
       g' = IF at = "view" THEN Begun(s, "view", TRUE) ELSE s
    /\ Cross(g') /\ UNCHANGED <<at, conf>>
PinchUpdate ==
    /\ g.view.on /\ g.view.pinch /\ g' = Moved(g) /\ UNCHANGED <<at, conf, crossed>>
PinchEnd ==
    /\ g.view.on /\ g.view.pinch /\ g' = Ended(g, "view") /\ UNCHANGED <<at, conf, crossed>>

\* on_motion ends the view drag and the sideways scroll, not the popup's.
Motion(p) ==
    /\ at' = p /\ g' = Ended(Ended(g, "view"), "wide")
    /\ UNCHANGED <<conf, crossed>>

\* A button (on_button) or a key (handle_group_key) ends all three.
ButtonOrKey == g' = AllEnded(g) /\ UNCHANGED <<at, conf, crossed>>

\* handle_view_drag_timeout.
Timeout == g.timer /\ g' = AllEnded([g EXCEPT !.timer = FALSE]) /\ UNCHANGED <<at, conf, crossed>>

\* apply_key_repeat, on a configuration reload.
Reload ==
    /\ conf' \in Confs \ {conf} /\ g' = [g EXCEPT !.repeat = conf']
    /\ crossed' = (crossed \/ AnyOn(g)) /\ UNCHANGED at

Next ==
    \/ /\ moves < MaxEvents /\ moves' = moves + 1
       /\ \/ \E event \in {"up", "side", "lift", "modifier"} : Axis(event)
          \/ \E p \in {"view", "popup", "wide", "other"} : Motion(p)
          \/ PinchBegin \/ PinchUpdate \/ PinchEnd \/ ButtonOrKey \/ Reload
    \/ UNCHANGED moves /\ Timeout

Spec == Init /\ [][Next]_emuVars /\ WF_emuVars(UNCHANGED moves /\ Timeout)

-----------------------------------------------------------------------------
\* Clients hear a key held exactly while its gesture is on, whichever path ended
\* it; and with none left the keyboard repeats as configured, unless two gestures
\* (or one and a reload) crossed.
GesturesAreSound ==
    /\ \A k \in Gestures : (KeyOf[k] \in g.held) = g[k].on
    /\ "button" \in g.held => g.view.on
    /\ ~AnyOn(g) /\ ~crossed => g.repeat = conf

\* A gesture whose lift never comes ends all the same, unless it was crossed.
GesturesEnd == (AnyOn(g) /\ ~crossed) ~> (~AnyOn(g) \/ crossed)

\* axis.rs:333: a gesture's repeat is "restored at its end", whatever crossed it.
RepeatIsKept == ~AnyOn(g) => g.repeat # 0
=============================================================================

------------------------------ MODULE Gestures ------------------------------
(***************************************************************************)
(* Swipes and pinches (cursor/gestures.rs).                                *)
(*                                                                         *)
(* A swipe leans the camera toward the bind it heads for and steps at each *)
(* threshold; the client under the pointer is told of it until its first   *)
(* step.  A touchscreen's swipe runs through the same state and is told to *)
(* no client.  A pinch over the background zooms; elsewhere it is the      *)
(* client's until its bind fires.                                          *)
(***************************************************************************)
EXTENDS Integers

CONSTANT MaxGestures    \* bound: steps of a behaviour

VARIABLES
    gest,       \* the cursor's gesture state and what clients and the camera got
    fingers,    \* the gestures the devices are making
    allowed,    \* touchpad.gestures: the kinds the configuration leaves on
    mixed,      \* a gesture began or a reload came while another was on
    strokes

gestVars == <<gest, fingers, allowed, mixed, strokes>>

Kinds == {"swipe", "pinch"}
Sources == {"pad", "touch", "pinch"}

TypeOK ==
    /\ gest \in [triggered : BOOLEAN, spent : BOOLEAN, lean : -1..1, off : -2..2, zoom : BOOLEAN,
                 open : {"none", "swipe", "pinch"}, stray : BOOLEAN]
    /\ fingers \subseteq Sources /\ allowed \subseteq Kinds /\ mixed \in BOOLEAN
    /\ strokes \in 0..MaxGestures

Init ==
    /\ gest = [triggered |-> FALSE, spent |-> FALSE, lean |-> 0, off |-> 0, zoom |-> FALSE,
               open |-> "none", stray |-> FALSE]
    /\ fingers = {} /\ allowed = Kinds /\ mixed = FALSE /\ strokes = 0

\* What the client under the pointer is told; an update or an end it has no
\* beginning of is astray.
Told(s, kind) == [s EXCEPT !.open = kind, !.stray = @ \/ s.open # "none"]
Heard(s, kind) == [s EXCEPT !.stray = @ \/ s.open # kind]
Over(s, kind) == [Heard(s, kind) EXCEPT !.open = "none"]

Listens(src) == src = "touch" \/ "swipe" \in allowed

Lands(src) ==
    /\ src \notin fingers /\ fingers' = fingers \cup {src}
    /\ mixed' = (mixed \/ fingers # {})
    /\ UNCHANGED allowed
Lifts(src) == src \in fingers /\ fingers' = fingers \ {src} /\ UNCHANGED <<allowed, mixed>>
Moves(src) == src \in fingers /\ UNCHANGED <<fingers, allowed, mixed>>

\* on_swipe_begin.
SwipeBegin(src) ==
    /\ Lands(src)
    /\ LET s == [gest EXCEPT !.triggered = FALSE, !.spent = FALSE, !.lean = 0] IN
       gest' = IF ~Listens(src) THEN gest ELSE IF src = "pad" THEN Told(s, "swipe") ELSE s

\* on_swipe_update, a step: the camera stops where the lean left it; a bind that
\* does not navigate spends the swipe; the first step ends the client's.
SwipeStep(src, navigates) ==
    /\ Moves(src) /\ Listens(src) /\ ~gest.spent
    /\ LET s == [gest EXCEPT !.triggered = TRUE, !.spent = ~navigates, !.lean = 0, !.off = 0] IN
       gest' = IF ~gest.triggered /\ src = "pad" THEN Over(s, "swipe") ELSE s

\* on_swipe_update, short of one.
SwipeLean(src, want) ==
    /\ Moves(src) /\ Listens(src) /\ ~gest.spent
    /\ gest.off + want - gest.lean \in -2..2
    /\ LET s == [gest EXCEPT !.lean = want, !.off = @ + want - gest.lean] IN
       gest' = IF ~gest.triggered /\ src = "pad" THEN Heard(s, "swipe") ELSE s

\* on_swipe_end: the lean is eased out; the client hears the end unless it did.
SwipeEnd(src) ==
    /\ Lifts(src) /\ gest.off - gest.lean \in -2..2
    /\ LET s == [gest EXCEPT !.triggered = FALSE, !.lean = 0, !.off = @ - gest.lean] IN
       gest' = IF ~Listens(src) THEN gest
               ELSE IF ~gest.triggered /\ src = "pad" THEN Over(s, "swipe") ELSE s

\* on_pinch_begin, _update and _end.
PinchBegin(background) ==
    /\ Lands("pinch")
    /\ LET s == [gest EXCEPT !.triggered = FALSE] IN
       gest' = IF "pinch" \notin allowed THEN gest
               ELSE IF background THEN [s EXCEPT !.zoom = TRUE] ELSE Told(s, "pinch")
PinchUpdate(fires) ==
    /\ Moves("pinch") /\ "pinch" \in allowed /\ ~gest.zoom /\ ~gest.triggered
    /\ gest' = IF fires THEN Over([gest EXCEPT !.triggered = TRUE], "pinch") ELSE Heard(gest, "pinch")
PinchEnd ==
    /\ Lifts("pinch")
    /\ gest' = CASE "pinch" \notin allowed -> gest
                 [] "pinch" \in allowed /\ gest.zoom -> [gest EXCEPT !.zoom = FALSE]
                 [] "pinch" \in allowed /\ ~gest.zoom /\ gest.triggered -> [gest EXCEPT !.triggered = FALSE]
                 [] OTHER -> Over(gest, "pinch")

Reload ==
    /\ \E k \in Kinds : allowed' = (allowed \ {k}) \cup ({k} \ allowed)
    /\ mixed' = (mixed \/ fingers # {})
    /\ UNCHANGED <<gest, fingers>>

Next ==
    /\ strokes < MaxGestures /\ strokes' = strokes + 1
    /\ \/ \E src \in {"pad", "touch"} :
            \/ SwipeBegin(src) \/ SwipeEnd(src)
            \/ \E navigates \in BOOLEAN : SwipeStep(src, navigates)
            \/ \E want \in -1..1 : SwipeLean(src, want)
       \/ \E b \in BOOLEAN : PinchBegin(b) \/ PinchUpdate(b)
       \/ PinchEnd \/ Reload

Spec == Init /\ [][Next]_gestVars

-----------------------------------------------------------------------------
\* Gestures made one at a time under one configuration: a client hears each
\* gesture begin and end once and nothing outside them, and with the fingers off
\* the camera is where the steps left it and no gesture is in force.
StrokesAreSound ==
    ~mixed =>
        /\ ~gest.stray
        /\ fingers = {} => gest.open = "none" /\ gest.off = 0 /\ gest.lean = 0
                           /\ ~gest.zoom /\ ~gest.triggered

\* gestures.rs: "Clients never see a begin, so update/end stay ours too".
ClientsHearPairs == ~gest.stray /\ (fingers = {} => gest.open = "none")
=============================================================================

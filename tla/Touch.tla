------------------------------- MODULE Touch --------------------------------
(***************************************************************************)
(* Touchscreen fingers (touch.rs).                                         *)
(*                                                                         *)
(* A finger is routed once, as it lands: to a client that hears touches,   *)
(* or to the pointer, whose press waits until the finger drags or lifts.   *)
(* The compositor may claim fingers for a gesture instead: an edge swipe,  *)
(* a pan of the desk, three fingers or more.  Positions are abstracted to  *)
(* what a finger landed on and whether it has moved past the slop.         *)
(***************************************************************************)
EXTENDS Naturals, FiniteSets

CONSTANTS
    Fingers,
    MaxTouches,     \* bound: steps of a behaviour
    None

VARIABLES
    t,          \* the cursor's touch points and claim, and what was sent on
    mouse,      \* a real button is held
    overview,   \* window_adjust_active
    touches

touchVars == <<t, mouse, overview, touches>>

Places == {"app", "desk", "bar"}
Routes == {"none", "client", "wait", "press", "claimed", "ignored"}
NoClaim == [kind |-> "none", of |-> None, what |-> "none"]
Claims ==
    {NoClaim} \cup [kind : {"edge"}, of : Fingers, what : {"undecided", "fired"}]
    \cup [kind : {"desk"}, of : {None}, what : {"still", "moved"}]
    \cup [kind : {"multi"}, of : {None}, what : {"undecided", "swipe", "pinch", "fired"}]

TypeOK ==
    /\ t \in [route : [Fingers -> Routes], place : [Fingers -> Places], far : SUBSET Fingers,
              claim : Claims, told : SUBSET Fingers, pressed : BOOLEAN, swipe : BOOLEAN]
    /\ mouse \in BOOLEAN /\ overview \in BOOLEAN /\ touches \in 0..MaxTouches

Init ==
    /\ t = [route |-> [f \in Fingers |-> "none"], place |-> [f \in Fingers |-> "bar"], far |-> {},
            claim |-> NoClaim, told |-> {}, pressed |-> FALSE, swipe |-> FALSE]
    /\ mouse = FALSE /\ overview = FALSE /\ touches = 0

Down(s) == {f \in Fingers : s.route[f] # "none"}
Routed(s, r) == {f \in Fingers : s.route[f] = r}
Desk(what) == [kind |-> "desk", of |-> None, what |-> what]
Multi(what) == [kind |-> "multi", of |-> None, what |-> what]

-----------------------------------------------------------------------------
\* touch_route_at and touch_begin: a client's finger, the pointer's, or none.
Begin(s, f) ==
    IF s.place[f] = "app" /\ ~overview
    THEN [s EXCEPT !.route[f] = "client", !.told = @ \cup {f}]
    ELSE IF s.pressed \/ Routed(s, "wait") \cup Routed(s, "press") # {}
    THEN [s EXCEPT !.route[f] = "ignored"]
    ELSE [s EXCEPT !.route[f] = "wait"]

\* touch_motion of a finger that waits: past the slop it pans the bare desk it is
\* alone on, or presses.
Slides(s, f) ==
    IF f \notin s.far \/ s.route[f] # "wait" THEN s
    ELSE IF s.place[f] = "desk" /\ ~overview /\ Down(s) = {f}
    THEN [s EXCEPT !.route[f] = "claimed", !.claim = Desk("moved")]
    ELSE [s EXCEPT !.route[f] = "press", !.pressed = TRUE]

\* edge_release: the edge finger is routed from where it landed, and caught up.
EdgeRelease(s) ==
    LET f == s.claim.of
        freed == [s EXCEPT !.claim = NoClaim]
    IN IF s.route[f] = "none" THEN freed ELSE Slides(Begin(freed, f), f)

\* Mutant: a claimed finger's client hears no cancel.
ClaimQuietly(s) ==
    [s EXCEPT !.pressed = @ /\ Routed(s, "press") = {},
              !.route = [f \in Fingers |-> IF @[f] = "none" THEN "none" ELSE "claimed"]]

\* claim_all: clients hear a cancel, a press is released.
ClaimAll(s) ==
    [s EXCEPT !.told = @ \ Routed(s, "client"),
              !.pressed = @ /\ Routed(s, "press") = {},
              !.route = [f \in Fingers |-> IF @[f] = "none" THEN "none" ELSE "claimed"]]

\* A press the finger gives up, or a tap's: the button is up either way.
Released(s) == [s EXCEPT !.pressed = FALSE]

\* claim_lift: a desk or multi-finger gesture ends with its last finger, an edge
\* swipe with its own; an edge finger that never moved is a tap after all.
ClaimLift(s, f, cancelled) ==
    LET c == s.claim
        over == [s EXCEPT !.claim = NoClaim]
        asTap == Begin(over, f)
    IN IF c.kind = "edge"
       THEN IF c.of # f THEN s
            ELSE IF c.what = "fired" \/ cancelled \/ f \in s.far THEN over
            ELSE [asTap EXCEPT !.route[f] = "none", !.told = @ \ {f},
                               !.pressed = @ /\ asTap.route[f] # "wait"]
       ELSE IF c.kind = "none" \/ Routed(s, "claimed") # {} THEN s
       ELSE [over EXCEPT !.swipe = @ /\ c.what # "swipe"]

\* touch_up and touch_cancel.
Up(s, f, cancelled) ==
    LET gone == [s EXCEPT !.route[f] = "none", !.far = @ \ {f}] IN
    CASE s.route[f] = "claimed" -> ClaimLift([gone EXCEPT !.far = s.far], f, cancelled)
      [] s.route[f] = "client" -> [gone EXCEPT !.told = @ \ {f}]
      [] s.route[f] = "press" -> Released(gone)
      [] s.route[f] = "wait" -> IF cancelled THEN gone ELSE Released(gone)
      [] OTHER -> gone

Land(s, f, place) == [s EXCEPT !.place[f] = place, !.far = @ \ {f}]
Claimed(s, f) == [s EXCEPT !.route[f] = "claimed"]

\* touch_down, once no gesture takes the finger.
Fresh(s, f, edge) ==
    LET already == Down(s) IN
    IF already = {} /\ edge
    THEN [Claimed(s, f) EXCEPT !.claim = [kind |-> "edge", of |-> f, what |-> "undecided"]]
    ELSE IF Cardinality(already) >= 2 /\ Routed(s, "press") = {}
    THEN [Claimed(ClaimAll(s), f) EXCEPT !.claim = Multi("undecided")]
    ELSE IF \E g \in already : already = {g} /\ s.route[g] = "wait" /\ s.place[g] = "desk"
    THEN [Claimed(ClaimAll(s), f) EXCEPT !.claim = Desk("still")]
    ELSE Begin(s, f)

\* touch_down: a live id lifts first; an edge finger is handed back; the other
\* gestures take the finger, three on a desk that has not moved being theirs.
TouchDown(f, place, edge) ==
    LET lifted == Land(IF t.route[f] = "none" THEN t ELSE Up(t, f, FALSE), f, place)
        joined == Claimed(lifted, f)
    IN t' = CASE lifted.claim.kind = "edge" -> Fresh(EdgeRelease(lifted), f, edge)
              [] lifted.claim = Desk("still") /\ Cardinality(Down(joined)) >= 3 ->
                   [joined EXCEPT !.claim = Multi("undecided")]
              [] lifted.claim.kind \in {"desk", "multi"} -> joined
              [] OTHER -> Fresh(lifted, f, edge)

\* touch_motion of a claimed finger (claim_motion): what it decides is the
\* fingers' doing.
ClaimMotion(f, to) ==
    /\ t.route[f] = "claimed"
    /\ LET moved == [t EXCEPT !.far = @ \cup {f}]
           c == t.claim
       IN \/ /\ c.kind = "edge" /\ to = "undecided" /\ c.what = to
             /\ t' \in {t, moved}
          \/ /\ c.kind = "edge" /\ to = "fired" /\ c.what = "undecided"
             /\ t' = [moved EXCEPT !.claim.what = to]
          \/ c.kind = "edge" /\ to = "not" /\ c.what = "undecided" /\ t' = EdgeRelease(moved)
          \/ c.kind = "desk" /\ to = "moved" /\ t' = [t EXCEPT !.claim.what = to]
          \/ /\ c.kind = "multi" /\ c.what = "undecided" /\ to \in {"swipe", "pinch", "fired"}
             /\ t' = [t EXCEPT !.claim.what = to, !.swipe = @ \/ to = "swipe"]
          \/ c = Multi("pinch") /\ to = "fired" /\ t' = [t EXCEPT !.claim.what = to]
    /\ UNCHANGED <<mouse, overview>>

TouchMotion(f) ==
    /\ t.route[f] \in {"client", "wait", "press", "ignored"} /\ f \notin t.far
    /\ t' = Slides([t EXCEPT !.far = @ \cup {f}], f)
    /\ UNCHANGED <<mouse, overview>>

TouchUp(f, cancelled) ==
    /\ t.route[f] # "none" /\ t' = Up(t, f, cancelled)
    /\ UNCHANGED <<mouse, overview>>

\* A real button (on_button), which is the same button to Cursor::pressed.
Mouse ==
    /\ mouse' = ~mouse /\ t' = [t EXCEPT !.pressed = ~mouse]
    /\ UNCHANGED overview
Adjust == overview' = ~overview /\ UNCHANGED <<t, mouse>>

Next ==
    /\ touches < MaxTouches /\ touches' = touches + 1
    /\ \/ \E f \in Fingers :
            \/ /\ \E place \in Places, edge \in BOOLEAN : TouchDown(f, place, edge)
               /\ UNCHANGED <<mouse, overview>>
            \/ \E to \in {"undecided", "fired", "not", "moved", "swipe", "pinch"} : ClaimMotion(f, to)
            \/ TouchMotion(f)
            \/ \E cancelled \in BOOLEAN : TouchUp(f, cancelled)
       \/ Mouse \/ Adjust

Spec == Init /\ [][Next]_touchVars

-----------------------------------------------------------------------------
\* Whichever way fingers land, are claimed, lift or are given up: a client hears
\* of exactly the fingers it was given, a gesture lasts exactly as long as a
\* finger of its, a swipe that began ends, and a press is somebody's.
TouchIsSound ==
    /\ t.told = Routed(t, "client")
    /\ (t.claim.kind # "none") = (Routed(t, "claimed") # {})
    /\ t.claim.kind = "edge" => Routed(t, "claimed") = {t.claim.of}
    /\ t.swipe = (t.claim = Multi("swipe"))
    /\ t.pressed => mouse \/ Routed(t, "press") # {}
    /\ Cardinality(Routed(t, "wait") \cup Routed(t, "press")) <= 1

\* touch.rs:17 "While one is live, every finger is the compositor's".
EveryFingerIsClaimed == t.claim.kind # "none" => Down(t) = Routed(t, "claimed")

\* touch.rs:78 a press the pointer owns elsewhere is left alone.
MouseKeepsItsPress == [][mouse /\ mouse' /\ t.pressed => t'.pressed]_touchVars
=============================================================================

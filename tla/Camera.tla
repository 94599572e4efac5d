-------------------------------- MODULE Camera --------------------------------
(***************************************************************************)
(* The desktop's camera (window_manager/camera.rs, cursor/axis.rs,         *)
(* window_manager.rs:1767): fingers, the wheel and actions move it, each   *)
(* output frame steps it, and a relayout brings the windows along.  Blur   *)
(* is frozen while the view moves and baked once it has settled; a caller  *)
(* of `focus-window --wait` is answered when its window holds still.       *)
(***************************************************************************)
EXTENDS Integers

CONSTANTS
    Far,        \* places are 0..Far, zooms 0 (normal) .. 2 (all of the desk)
    StillPolls, \* SETTLE_STILL_POLLS
    WaitPolls,  \* SETTLE_TIMEOUT_MS in polls
    MaxEvents,  \* bound: events from outside in a behaviour
    None

Places == 0..Far
Zooms == 0..2

VARIABLES
    cam,        \* desk_pan and desk_zoom, [p, z]
    mode,       \* "normal" or "overview"
    ramp,       \* camera_ramp_anim: [to, left] or None
    toP, toZ,   \* target_desk_pan, target_desk_zoom, or None
    anchored,   \* zoom_anchor is set
    coast,      \* pan_coast: frames it will still carry
    anim,       \* camera_anim_active
    watchdog,   \* animation_timer is armed
    pendP, pendZ, \* pan_pending, pinch_pending
    frame,      \* a frame is scheduled
    laid,       \* the camera of the last arrange
    active,     \* viewport_is_active
    frozen,     \* the scene holds its blur bakes
    settle,     \* viewport_settle_timer is armed
    freezeZ, bakedZ, \* viewport_freeze_zoom; the zoom the blurs were baked at
    pass,       \* "idle" or "busy": WindowManagerState
    windowing,  \* a manage pass is wanted
    waiter,     \* a held `focus-window --wait`: [still, box, polls] or None
    answer,     \* what its caller was told
    events

flight == <<ramp, toP, toZ, anchored, coast, anim>>
blur == <<active, frozen, settle, freezeZ, bakedZ>>
camVars == <<cam, mode, flight, watchdog, pendP, pendZ, frame, laid, blur, pass, windowing,
             waiter, answer, events>>

TypeOK ==
    /\ cam \in [p : Places, z : Zooms] /\ laid \in [p : Places, z : Zooms]
    /\ mode \in {"normal", "overview"} /\ pass \in {"idle", "busy"}
    /\ ramp = None \/ ramp \in [to : [p : Places, z : Zooms], left : 0..2]
    /\ toP \in Places \cup {None} /\ toZ \in Zooms \cup {None}
    /\ coast \in 0..2 /\ pendP \in {-1, 0, 1} /\ pendZ \in Zooms \cup {None}
    /\ freezeZ \in Zooms /\ bakedZ \in Zooms /\ events \in 0..MaxEvents
    /\ waiter = None \/ waiter \in [still : 0..StillPolls, box : Places \cup {None}, polls : 0..WaitPolls]

Init ==
    /\ cam = [p |-> 0, z |-> 0] /\ laid = cam /\ mode = "normal"
    /\ ramp = None /\ toP = None /\ toZ = None /\ anchored = FALSE /\ coast = 0 /\ anim = FALSE
    /\ watchdog = FALSE /\ pendP = 0 /\ pendZ = None /\ frame = FALSE
    /\ active = FALSE /\ frozen = FALSE /\ settle = FALSE /\ freezeZ = 0 /\ bakedZ = 0
    /\ pass = "idle" /\ windowing = FALSE /\ waiter = None /\ answer = "none" /\ events = 0

ModeFor(z) == IF z > 0 THEN "overview" ELSE "normal"
Within(n) == IF n < 0 THEN 0 ELSE IF n > Far THEN Far ELSE n
Toward(a, b) == IF a < b THEN a + 1 ELSE IF a > b THEN a - 1 ELSE a

Event == events < MaxEvents /\ events' = events + 1

\* start_panning_animation: the step runs in the frame handler, and the
\* watchdog keeps frames coming.
Start == anim' = TRUE /\ watchdog' = TRUE /\ frame' = TRUE

\* stop_panning_animation.
Stop ==
    /\ ramp' = None /\ toP' = None /\ toZ' = None /\ anchored' = FALSE /\ coast' = 0
    /\ anim' = FALSE

\* Mutant: the wheel's targets are set without an animation to follow them.
WheelPanParked(by) ==
    /\ Event /\ coast' = 0
    /\ toP' = Within((IF toP = None THEN cam.p ELSE toP) + by)
    /\ UNCHANGED <<cam, mode, ramp, toZ, anchored, anim, watchdog, frame, pendP, pendZ, laid, blur,
                   pass, windowing, waiter, answer>>

\* on_axis over the desk, a wheel click: the glide's target advances.
WheelPan(by) ==
    /\ Event /\ coast' = 0 /\ Start
    /\ toP' = Within((IF toP = None THEN cam.p ELSE toP) + by)
    /\ UNCHANGED <<cam, mode, ramp, toZ, anchored, pendP, pendZ, laid, blur, pass, windowing,
                   waiter, answer>>

\* on_axis with Super and Alt: the zoom's target advances, about the pointer.
WheelZoom(z) ==
    /\ Event /\ z # (IF toZ = None THEN cam.z ELSE toZ)
    /\ ramp' = None /\ toP' = None /\ coast' = 0
    /\ toZ' = z /\ anchored' = TRUE /\ mode' = ModeFor(z) /\ Start
    /\ UNCHANGED <<cam, pendP, pendZ, laid, blur, pass, windowing, waiter, answer>>

\* Finger motion on the desk: applied with the next frame (queue_pan).
FingerPan(by) ==
    /\ Event /\ Stop /\ pendP' = by /\ frame' = TRUE
    /\ UNCHANGED <<cam, mode, watchdog, pendZ, laid, blur, pass, windowing, waiter, answer>>

\* The lift flings the desk on (kinetic_scroll).
FingerLift ==
    /\ Event /\ coast' = 2 /\ Start
    /\ UNCHANGED <<cam, mode, ramp, toP, toZ, anchored, pendP, pendZ, laid, blur, pass, windowing,
                   waiter, answer>>

\* A pinch begins and moves: the animation stops, the zoom waits for the frame.
Pinch(z) ==
    /\ Event /\ Stop /\ pendZ' = z /\ frame' = TRUE
    /\ UNCHANGED <<cam, mode, watchdog, pendP, laid, blur, pass, windowing, waiter, answer>>

\* execute_action stops what flies; the policy's SetCamera then flips the mode
\* and starts the configured ramp, eases, or jumps and refreshes.
SetCamera(p, z, how) ==
    /\ Event /\ mode' = ModeFor(z) /\ anchored' = FALSE /\ coast' = 0
    /\ CASE how = "ramp" -> /\ ramp' = [to |-> [p |-> p, z |-> z], left |-> 2]
                            /\ toP' = None /\ toZ' = None /\ Start /\ UNCHANGED cam
         [] how = "ease" -> ramp' = None /\ toP' = p /\ toZ' = z /\ Start /\ UNCHANGED cam
         [] how = "jump" -> /\ ramp' = None /\ toP' = None /\ toZ' = None
                            /\ cam' = [p |-> p, z |-> z] /\ anim' = FALSE
                            /\ UNCHANGED <<watchdog, frame>>
    /\ windowing' = (windowing \/ how = "jump")
    /\ UNCHANGED <<pendP, pendZ, laid, blur, pass, waiter, answer>>

\* Any other action: it stops what flies first, wherever the camera is.
OtherAction ==
    /\ Event /\ Stop
    /\ UNCHANGED <<cam, mode, watchdog, pendP, pendZ, frame, laid, blur, pass, windowing, waiter,
                   answer>>

\* focus_follow_pan brings a focused window into view, unless it is or a ramp flies;
\* a caller may wait for it.
FocusWindow(p, waits) ==
    /\ Event /\ windowing' = TRUE
    /\ IF ramp = None /\ p # cam.p THEN toP' = p /\ Start ELSE UNCHANGED <<toP, anim, watchdog, frame>>
    /\ IF waits /\ waiter = None
       THEN waiter' = [still |-> 0, box |-> None, polls |-> 0] /\ answer' = "waits"
       ELSE UNCHANGED <<waiter, answer>>
    /\ UNCHANGED <<cam, mode, ramp, toZ, anchored, coast, pendP, pendZ, laid, blur, pass>>

\* advance_camera_animation: where one step of what flies leaves the camera c.
Advanced(c) ==
    LET flown == IF ramp = None THEN c
                 ELSE IF ramp.left = 0 THEN ramp.to
                 ELSE [p |-> Toward(c.p, ramp.to.p), z |-> Toward(c.z, ramp.to.z)]
        panned == IF toP = None THEN flown ELSE [flown EXCEPT !.p = Toward(@, toP)]
        zoomed == IF toZ = None THEN panned ELSE [panned EXCEPT !.z = Toward(@, toZ)]
    IN IF coast > 0 THEN [zoomed EXCEPT !.p = Within(@ + 1)] ELSE zoomed

Advance(c) ==
    LET at == Advanced(c)
    IN /\ cam' = at
       /\ ramp' = IF ramp = None \/ ramp.left = 0 THEN None ELSE [ramp EXCEPT !.left = @ - 1]
       /\ toP' = IF toP = at.p THEN None ELSE toP
       /\ toZ' = IF toZ = at.z THEN None ELSE toZ
       /\ anchored' = (anchored /\ toZ' # None)
       /\ coast' = IF coast > 0 THEN coast - 1 ELSE 0
       /\ anim' = (ramp' # None \/ toP' # None \/ toZ' # None \/ coast' > 0)

\* update_viewport_local: the windows are arranged for the camera; the first
\* motion freezes the blurs, every motion pushes the settling back.
Relaid ==
    /\ laid' = cam' /\ frame' = TRUE
    /\ IF cam' # laid
       THEN /\ active' = TRUE /\ frozen' = TRUE /\ settle' = TRUE
            /\ freezeZ' = IF active THEN freezeZ ELSE cam'.z
            /\ UNCHANGED bakedZ
       ELSE UNCHANGED blur

\* step_camera_frame, on an output's frame: what fingers queued, then one step
\* of what flies; with a pass under way the relayout waits for it. (The frame of
\* a second output in the same refresh returns early: a stutter.)
Frame ==
    /\ frame
    /\ LET queued == pendP # 0 \/ pendZ # None
           moved == [p |-> Within(cam.p + pendP), z |-> IF pendZ = None THEN cam.z ELSE pendZ]
       IN IF ~anim /\ ~queued
          THEN frame' = FALSE /\ UNCHANGED <<cam, mode, flight, pendP, pendZ, laid, blur, windowing>>
          ELSE /\ pendP' = 0 /\ pendZ' = None
               /\ mode' = IF pendZ = None THEN mode ELSE ModeFor(pendZ)
               /\ IF anim THEN Advance(moved)
                  ELSE cam' = moved /\ UNCHANGED flight
               /\ IF pass = "idle" THEN Relaid /\ UNCHANGED windowing
                  ELSE windowing' = TRUE /\ frame' = FALSE /\ UNCHANGED <<laid, blur>>
    /\ UNCHANGED <<watchdog, pass, waiter, answer, events>>

\* An output stops: its scheduled frame never comes.
FrameLost ==
    /\ Event /\ frame /\ frame' = FALSE
    /\ UNCHANGED <<cam, mode, flight, watchdog, pendP, pendZ, laid, blur, pass, windowing, waiter,
                   answer>>

\* handle_panning_animation_tick.
Watchdog ==
    /\ watchdog
    /\ IF anim THEN frame' = TRUE /\ watchdog' = TRUE ELSE watchdog' = FALSE /\ UNCHANGED frame
    /\ UNCHANGED <<cam, mode, flight, pendP, pendZ, laid, blur, pass, windowing, waiter, answer, events>>

\* Mutant: the settled view keeps its blurs frozen.
SettleFrozen ==
    /\ settle /\ settle' = FALSE /\ active' = FALSE /\ frame' = TRUE
    /\ bakedZ' = IF cam.z # freezeZ THEN cam.z ELSE bakedZ
    /\ UNCHANGED <<cam, mode, flight, watchdog, pendP, pendZ, laid, frozen, freezeZ, pass, windowing,
                   waiter, answer, events>>

\* finish_viewport_settle: the blurs thaw, and are baked anew if the zoom is not
\* the one they were frozen at.
Settle ==
    /\ settle /\ settle' = FALSE /\ active' = FALSE /\ frozen' = FALSE /\ frame' = TRUE
    /\ bakedZ' = IF cam.z # freezeZ THEN cam.z ELSE bakedZ
    /\ UNCHANGED <<cam, mode, flight, watchdog, pendP, pendZ, laid, freezeZ, pass, windowing, waiter,
                   answer, events>>

\* A manage pass arranges the windows for the camera as it is and may wait for
\* clients; its render ends it (Transaction).
PassStarts ==
    /\ pass = "idle" /\ windowing /\ windowing' = FALSE /\ pass' = "busy"
    /\ UNCHANGED <<cam, mode, flight, watchdog, pendP, pendZ, frame, laid, blur, waiter, answer, events>>

PassEnds ==
    /\ pass = "busy" /\ pass' = "idle" /\ laid' = cam /\ frame' = TRUE
    /\ UNCHANGED <<cam, mode, flight, watchdog, pendP, pendZ, blur, windowing, waiter, answer, events>>

\* Mutant: an unfinished pass counts as a window at rest.
MovingCamera == anim \/ pendP # 0 \/ pendZ # None
Moving == anim \/ pendP # 0 \/ pendZ # None \/ windowing \/ pass # "idle"

\* poll_settle_waiters: three polls in a row with nothing moving, or time is up,
\* or the window has closed.
Poll(closed) ==
    /\ waiter # None
    /\ LET still == IF Moving \/ waiter.box # laid.p THEN 0 ELSE waiter.still + 1
       IN IF closed THEN waiter' = None /\ answer' = "closed" /\ events < MaxEvents
          ELSE IF still >= StillPolls THEN waiter' = None /\ answer' = "settled"
          ELSE IF waiter.polls >= WaitPolls THEN waiter' = None /\ answer' = "still moving"
          ELSE waiter' = [still |-> still, box |-> laid.p, polls |-> waiter.polls + 1] /\ UNCHANGED answer
    /\ events' = IF closed THEN events + 1 ELSE events
    /\ UNCHANGED <<cam, mode, flight, watchdog, pendP, pendZ, frame, laid, blur, pass, windowing>>

Next ==
    \/ \E by \in {-1, 1} : WheelPan(by) \/ FingerPan(by)
    \/ \E z \in Zooms : WheelZoom(z) \/ Pinch(z)
    \/ \E p \in Places, z \in {0, 2}, how \in {"ramp", "ease", "jump"} : SetCamera(p, z, how)
    \/ \E p \in Places, waits \in BOOLEAN : FocusWindow(p, waits)
    \/ \E closed \in BOOLEAN : Poll(closed)
    \/ FingerLift \/ OtherAction \/ Frame \/ FrameLost \/ Watchdog \/ Settle \/ PassStarts \/ PassEnds

\* Frames and timers come as the event loop promises; clients answer or the
\* pass's timer does.
Spec ==
    /\ Init /\ [][Next]_camVars
    /\ WF_camVars(Frame) /\ WF_camVars(Watchdog) /\ WF_camVars(Settle)
    /\ WF_camVars(PassStarts) /\ WF_camVars(PassEnds) /\ WF_camVars(Poll(FALSE))

-----------------------------------------------------------------------------
\* Whatever the camera is sent to has an animation that takes it there, driven
\* by the watchdog even when frames are lost; a zoom's anchor goes with it.
FlightIsDriven ==
    /\ ramp # None \/ toP # None \/ toZ # None \/ coast > 0 => anim
    /\ anim => watchdog
    /\ anchored => toZ # None

\* Once nothing moves, the windows are where the camera shows them.
DeskFollowsCamera == ~Moving => laid = cam

\* The blurs are frozen just while the view moves, and a timer ends that.
BlurFollowsMotion == (active <=> frozen) /\ (active <=> settle)

\* A caller is told its window has settled only when nothing moves it.
SettledHoldsStill == [][answer = "waits" /\ answer' = "settled" => ~anim /\ pass = "idle" /\ laid = cam]_camVars

CameraIsSound == FlightIsDriven /\ DeskFollowsCamera /\ BlurFollowsMotion

\* Every flight ends, the view settles, and the caller is answered.
AtRest == ~anim /\ ~active /\ waiter = None
CameraRests == []<>AtRest

\* What window_manager.rs says of a zoom: the settling bakes the blurs once the
\* zoom has moved.
SettledIsSharp == ~active => bakedZ = laid.z

\* At rest the mode is the zoom's.
ModeFollowsZoom == ~Moving => mode = ModeFor(cam.z)
=============================================================================

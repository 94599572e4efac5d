----------------------------- MODULE TabletTool -----------------------------
(***************************************************************************)
(* A tablet's pen (tablet_tool.rs): its focus follows the surface under    *)
(* it, until its tip is down on one; then what it does goes to the focus,  *)
(* wherever it is, until the tip and every button are up.                  *)
(*                                                                         *)
(* The focus is wlroots': it keeps whether the tip is down and the buttons *)
(* apart from who is told, and forgets a surface that is destroyed.  The   *)
(* pen leaves the tablet with its tip and buttons up (libinput).           *)
(***************************************************************************)
EXTENDS Naturals

CONSTANTS
    Surfaces,
    MaxStrokes,     \* bound: what the pen and the windows do in a behaviour
    None

VARIABLES
    near,           \* the pen is at the tablet
    under,          \* what the scene has under it: a surface, a frame, nothing
    onto,           \* wlroots: the focused surface
    tip,            \* wlroots: is_down
    buttons,        \* wlroots: num_buttons
    penMode,        \* TabletToolMode: the surface a drag is measured from, or None
    image,          \* the cursor's: pencil, hidden, or the surface whose client set it
    grab,           \* history: who had the pen as its tip went down on a surface
    fresh,          \* history: nothing changed under the pen since it was looked at
    strokes

tabletVars == <<near, under, onto, tip, buttons, penMode, image, grab, fresh, strokes>>

Scene == Surfaces \cup {"frame", None}
SurfaceAt(u) == IF u \in Surfaces THEN u ELSE None
Passthrough == None
Down == penMode # Passthrough
Stroke == strokes < MaxStrokes /\ strokes' = strokes + 1

TypeOK ==
    /\ near \in BOOLEAN /\ tip \in BOOLEAN /\ fresh \in BOOLEAN /\ buttons \in 0..2
    /\ under \in Scene /\ onto \in Surfaces \cup {None}
    /\ penMode \in Surfaces \cup {Passthrough} /\ grab \in Surfaces \cup {None}
    /\ image \in Surfaces \cup {"pencil", "hidden"}

Init ==
    /\ near = FALSE /\ under = None /\ onto = None /\ tip = FALSE /\ buttons = 0
    /\ penMode = Passthrough /\ image = "hidden" /\ grab = None /\ fresh = TRUE /\ strokes = 0

\* passthrough: the surface under the pen gets it, or nobody; over nothing the
\* pencil shows.
PassOn(u, shows) ==
    /\ onto' = SurfaceAt(u) /\ fresh' = TRUE
    /\ image' = IF u = None THEN "pencil" ELSE shows

\* proximity
Enter ==
    /\ Stroke /\ ~near /\ near' = TRUE
    /\ under' \in Scene /\ PassOn(under', "pencil")
    /\ UNCHANGED <<tip, buttons, penMode, grab>>
Leave ==
    /\ Stroke /\ near /\ ~tip /\ buttons = 0 /\ near' = FALSE
    /\ onto' = None /\ image' = "hidden"
    /\ UNCHANGED <<under, tip, buttons, penMode, grab, fresh>>

\* Mutant: a drag goes to whatever it crosses.
CrossesOver(u) == PassOn(u, image)
\* What a motion does, after its warp: in Down, it goes to the focus.
Moves(u) == IF Down THEN UNCHANGED <<onto, image, fresh>> ELSE PassOn(u, image)

\* axis, with x or y
Motion ==
    /\ Stroke /\ near
    /\ under' \in Scene \ {under} /\ Moves(under')
    /\ UNCHANGED <<near, tip, buttons, penMode, grab>>

\* Mutant: the tip ends it, whatever the buttons.
TipEnds(d, n) == Down /\ ~d
Ends(d, n) == Down /\ ~d /\ n = 0
\* Mutant: the surface under the pen has to wait for the next motion.
JustEnds == penMode' = Passthrough /\ UNCHANGED <<onto, image>> /\ fresh' = TRUE
BackToPassthrough == penMode' = Passthrough /\ PassOn(under, image)

\* maybe_exit_down, with the tip and buttons as they are now.
MaybeExitDown(d, n) ==
    /\ IF Ends(d, n) THEN BackToPassthrough ELSE UNCHANGED <<penMode, onto, image, fresh>>
    /\ grab' = IF ~d /\ n = 0 THEN None ELSE grab

\* tip
TipDown ==
    /\ Stroke /\ near /\ ~tip /\ tip' = TRUE
    /\ penMode' = IF under \in Surfaces THEN under ELSE penMode
    /\ grab' = IF under \in Surfaces /\ ~Down THEN onto ELSE grab
    /\ UNCHANGED <<near, under, onto, buttons, image, fresh>>
TipUp ==
    /\ near /\ tip /\ tip' = FALSE
    /\ MaybeExitDown(FALSE, buttons)
    /\ UNCHANGED <<near, under, buttons, strokes>>

\* button
ButtonDown ==
    /\ Stroke /\ near /\ buttons < 2 /\ buttons' = buttons + 1
    /\ MaybeExitDown(tip, buttons + 1)
    /\ UNCHANGED <<near, under, tip>>
ButtonUp ==
    /\ near /\ buttons > 0 /\ buttons' = buttons - 1
    /\ MaybeExitDown(tip, buttons - 1)
    /\ UNCHANGED <<near, under, tip, strokes>>

\* handle_set_cursor, from the client that has the pen, answering its last enter.
SetCursor ==
    /\ Stroke /\ onto # None /\ image # onto /\ image' = onto
    /\ UNCHANGED <<near, under, onto, tip, buttons, penMode, grab, fresh>>

\* The scene changes under a pen that does not move: a window maps, moves or is
\* raised, the session locks; or one is destroyed.
Restack ==
    /\ Stroke /\ near
    /\ under' \in Scene \ {under} /\ fresh' = FALSE
    /\ onto' \in {onto, None}
    /\ image' = IF onto' # onto /\ image = onto THEN "hidden" ELSE image
    /\ UNCHANGED <<near, tip, buttons, penMode, grab>>

Next ==
    \/ Enter \/ Leave \/ Motion \/ TipDown \/ TipUp \/ ButtonDown \/ ButtonUp
    \/ SetCursor \/ Restack

Spec == Init /\ [][Next]_tabletVars

-----------------------------------------------------------------------------
\* A drag belongs to the surface that had the pen when it began, however far it
\* goes and whatever comes under it, until the tip and every button are up; it
\* does not outlast them (TabletToolMode::Down).
DragsStay ==
    /\ grab # None => onto \in {grab, None}
    /\ Down => tip \/ buttons > 0

\* Between drags the pen is with the surface it is over: also right after one,
\* before it has moved again (maybe_exit_down).
FollowsPen == near /\ fresh /\ ~Down => onto = SurfaceAt(under)

PenIsSound == DragsStay /\ FollowsPen

\* What it takes for granted: that the place a drag is measured from is on the
\* surface that has the pen.
DragIsMeasured == Down /\ onto # None => penMode = onto
=============================================================================

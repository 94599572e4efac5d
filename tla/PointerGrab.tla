---------------------------- MODULE PointerGrab -----------------------------
(***************************************************************************)
(* Pointer buttons (cursor/button.rs, Cursor::passthrough, the seat's ops  *)
(* and drags).                                                             *)
(*                                                                         *)
(* A press goes to the client under the pointer, which then keeps the      *)
(* pointer until the last button is up; or the compositor takes it: for a  *)
(* seat op (move, resize, selection), for a window button, or for a menu.  *)
(* A client may turn its press into an op or into a drag.                  *)
(***************************************************************************)
EXTENDS Naturals, FiniteSets

CONSTANTS
    Windows,
    KindOf,     \* "app", "bar" (a status segment), "grid" (desktop items) or "dock" (chrome)
    MaxEvents,  \* bound: steps of a behaviour
    None

Buttons == {"left", "right"}
Places == {<<None, "body">>}
          \cup {p \in Windows \X {"body", "ring", "disc"} : p[2] = "body" \/ KindOf[p[1]] = "app"}

VARIABLES
    down,       \* the buttons the hand holds
    pressed,    \* Cursor::pressed
    notified,   \* Cursor::notified_pressed
    told,       \* the client that heard a button's press and not yet its release
    robbed,     \* the buttons whose client an op has taken the pointer from
    at,         \* what is under the pointer
    ptr,        \* wlroots' focused surface of the pointer
    hover,      \* Cursor::adjust_hover
    op,         \* Seat::op: kind, window, and whether it began in overview
    disc,       \* Cursor::button_press
    menu,       \* right_click_on_bg or right_click_on_border
    drag,       \* Seat::drag is Pointer
    super, overview,    \* Super is held; the mode
    pan,        \* the edge pan has a velocity, and its timer armed
    alive, events

grabVars == <<down, pressed, notified, told, robbed, at, ptr, hover, op, disc, menu, drag,
              super, overview, pan, alive, events>>

NoOp == [kind |-> "none", win |-> None, over |-> FALSE]

TypeOK ==
    /\ down \subseteq Buttons /\ pressed \subseteq Buttons /\ notified \subseteq Buttons
    /\ told \in [Buttons -> Windows \cup {None}] /\ robbed \subseteq Buttons
    /\ at \in Places /\ {ptr, hover, disc} \subseteq Windows \cup {None}
    /\ op \in [kind : {"none", "move", "resize", "select", "group"},
               win : Windows \cup {None}, over : BOOLEAN]
    /\ {menu, drag, super, overview, pan} \subseteq BOOLEAN /\ alive \subseteq Windows
    /\ events \in 0..MaxEvents

Init ==
    /\ down = {} /\ pressed = {} /\ notified = {}
    /\ told = [b \in Buttons |-> None] /\ robbed = {}
    /\ at = <<None, "body">> /\ ptr = None /\ hover = None
    /\ op = NoOp /\ disc = None /\ menu = FALSE /\ drag = FALSE
    /\ super = FALSE /\ overview = FALSE /\ pan = FALSE /\ alive = Windows /\ events = 0

Ops == op.kind # "none"
Adjusting == overview \/ super
Kind(w) == IF w = None THEN "desk" ELSE KindOf[w]
Under == at[1]

\* get_border_zone: only the adjust target has a live ring.
Zone ==
    IF Adjusting /\ Kind(Under) = "app" /\ hover = Under THEN at[2] ELSE "body"

-----------------------------------------------------------------------------
(* Cursor::passthrough.                                                    *)

\* A client that saw a press keeps the pointer, unless a drag owns it; it is then
\* entered on what is under it: no window in adjust mode, nor its ring, and over
\* the desktop nothing, or the grid while something is dragged.
\* The arguments: the buttons clients saw, the pointer's place, whether Super is
\* held and the overview shows, and the windows there are.
Entered(ntf, dragging, p, adjusting) ==
    LET w == p[1] IN
    IF ntf # {} /\ ~dragging /\ ptr # None THEN ptr
    ELSE CASE Kind(w) \in {"bar", "grid", "dock"} -> w
           [] Kind(w) = "app" -> IF adjusting THEN None ELSE w
           [] OTHER -> IF dragging /\ \E g \in alive : KindOf[g] = "grid"
                       THEN CHOOSE g \in alive : KindOf[g] = "grid" ELSE None

Hovered(ntf, dragging, p, adjusting) ==
    IF ntf # {} /\ ~dragging /\ ptr # None THEN hover
    ELSE IF Kind(p[1]) \in {"app", "dock"} /\ adjusting THEN p[1] ELSE None

PassThrough(ntf, dragging, adjusting) ==
    /\ ptr' = Entered(ntf, dragging, at', adjusting)
    /\ hover' = Hovered(ntf, dragging, at', adjusting)

\* Cursor::on_motion: an op follows the pointer and may pan the desk at its edge
\* (update_edge_pan); otherwise the motion passes through.
Pannable(o) == o.kind \in {"select", "group"} \/ (o.kind \in {"move", "resize"} /\ Kind(o.win) # "bar")

Motion(p) ==
    /\ at' = p /\ p[1] \in alive \cup {None}
    /\ IF Ops THEN /\ pan' \in IF Pannable(op) THEN BOOLEAN ELSE {FALSE}
                   /\ UNCHANGED <<ptr, hover>>
       ELSE PassThrough(notified, drag, Adjusting) /\ UNCHANGED pan
    /\ UNCHANGED <<down, pressed, notified, told, robbed, op, disc, menu, drag, super, overview, alive>>

\* refresh_after_scene_change.
Refresh ==
    /\ ~Ops /\ UNCHANGED at /\ PassThrough(notified, drag, Adjusting)
    /\ <<ptr, hover>>' # <<ptr, hover>>
    /\ UNCHANGED <<down, pressed, notified, told, robbed, op, disc, menu, drag, super, overview, pan, alive>>

-----------------------------------------------------------------------------
(* Presses (button.rs, on_button).                                         *)

\* op_start_pointer: the client under the pointer loses it.
StartOp(kind, w) ==
    /\ op' = [kind |-> kind, win |-> w, over |-> overview]
    /\ ptr' = None
    /\ robbed' = robbed \cup {b \in Buttons : told[b] # None}

Swallow(b) ==
    /\ pressed' = pressed \cup {b}
    /\ UNCHANGED <<notified, told>>
Quiet == UNCHANGED <<op, ptr, robbed>>

\* A left press on a bar segment with Super held moves it.
GrabsBar(b) == b = "left" /\ super /\ Kind(Under) = "bar"
\* In adjust mode a left press on a window's disc waits for its release, on its
\* body moves it; on a selected desktop item it moves the selection.
GrabsDisc(b) == b = "left" /\ Zone = "disc"
GrabsBody(b) == b = "left" /\ Adjusting /\ Kind(Under) = "app" /\ Zone = "body"
GrabsItem(b) == b = "left" /\ overview /\ Kind(Under) = "grid"
\* On the bare desk in overview it begins a selection.
GrabsDesk(b) == b = "left" /\ overview /\ Kind(Under) \in {"desk", "bar"}
\* A right press on the bare desk, or without Super in overview on a window (or its
\* ring), opens a menu.
OpensMenu(b) ==
    b = "right" /\ ~super /\ (Kind(Under) = "desk" \/ (overview /\ Kind(Under) = "app"))
\* The pointer bind: Super and the right button resize what is under the pointer.
Bound(b) == b = "right" /\ super /\ Kind(Under) \in {"app", "grid", "dock"}
\* The ring's edges resize, its title moves.
GrabsRing(b) == b = "left" /\ Zone = "ring"
GrabsTitle(b) == b = "left" /\ Zone = "ring"

\* Everything else goes to the client, but a window in overview, which is only a
\* thumbnail there.
Deliver(b) ==
    /\ pressed' = pressed \cup {b}
    /\ IF overview /\ Kind(Under) = "app" THEN UNCHANGED <<notified, told>>
       ELSE /\ notified' = notified \cup {b}
            /\ told' = IF drag THEN told ELSE [told EXCEPT ![b] = ptr]

Taken(b) == GrabsBar(b) \/ GrabsDisc(b) \/ GrabsBody(b) \/ GrabsItem(b) \/ GrabsDesk(b)
            \/ OpensMenu(b) \/ Bound(b) \/ GrabsRing(b)

Press(b) ==
    /\ b \notin down /\ b \notin pressed /\ down' = down \cup {b}
    /\ \/ GrabsBar(b) /\ StartOp("move", Under) /\ Swallow(b) /\ UNCHANGED <<disc, menu>>
       \* an expanded segment keeps its clicks
       \/ GrabsBar(b) /\ ~overview /\ Deliver(b) /\ Quiet /\ UNCHANGED <<disc, menu>>
       \/ GrabsDisc(b) /\ disc' = Under /\ Swallow(b) /\ Quiet /\ UNCHANGED menu
       \/ GrabsBody(b) /\ StartOp("move", Under) /\ Swallow(b) /\ UNCHANGED <<disc, menu>>
       \/ GrabsItem(b) /\ StartOp("group", None) /\ Swallow(b) /\ UNCHANGED <<disc, menu>>
       \/ GrabsItem(b) /\ Deliver(b) /\ Quiet /\ UNCHANGED <<disc, menu>>
       \/ GrabsDesk(b) /\ StartOp("select", None) /\ Swallow(b) /\ UNCHANGED <<disc, menu>>
       \/ GrabsDesk(b) /\ Swallow(b) /\ Quiet /\ UNCHANGED <<disc, menu>>
       \/ OpensMenu(b) /\ menu' = TRUE /\ Swallow(b) /\ Quiet /\ UNCHANGED disc
       \/ Bound(b) /\ StartOp("resize", Under) /\ Swallow(b) /\ UNCHANGED <<disc, menu>>
       \/ GrabsRing(b) /\ StartOp("resize", Under) /\ Swallow(b) /\ UNCHANGED <<disc, menu>>
       \/ GrabsTitle(b) /\ StartOp("move", Under) /\ Swallow(b) /\ UNCHANGED <<disc, menu>>
       \* a double click on the title tiles the window, and forgets the press
       \/ GrabsTitle(b) /\ Quiet /\ UNCHANGED <<pressed, notified, told, disc, menu>>
       \/ ~Taken(b) /\ Deliver(b) /\ Quiet /\ UNCHANGED <<disc, menu>>
    /\ UNCHANGED <<at, hover, drag, super, overview, pan, alive>>

\* xdg_toplevel's request_move and request_resize, valid while the client's press
\* is the only button held.
ClientOp(kind, w) ==
    /\ Kind(w) = "app" /\ w \in alive
    /\ \E b \in notified : notified = {b} /\ told[b] = w
    /\ ~drag /\ StartOp(kind, w)
    /\ UNCHANGED <<down, pressed, notified, told, at, hover, disc, menu, drag, super, overview, pan, alive>>

-----------------------------------------------------------------------------
(* Releases.                                                               *)

\* The client's release goes out before anything else, to whoever has the pointer.
Heard(b) == IF b \in notified /\ ptr # None /\ told[b] = ptr THEN [told EXCEPT ![b] = None] ELSE told

\* With the last button clients saw, a drag ends; handle_drag_destroy evaluates
\* the pointer before it clears the drag.
DragEnds(left) ==
    IF drag /\ left = {} THEN drag' = FALSE /\ PassThrough(left, TRUE, Adjusting)
    ELSE UNCHANGED <<drag, ptr, hover>>

\* Seat::op_end, with what is still pressed at that point: only with nothing
\* pressed is the pointer evaluated anew (op_end_pointer).
EndOp(still, ntf, over) ==
    /\ op' = NoOp /\ pan' = FALSE
    /\ IF still = {} THEN PassThrough(ntf, drag, over \/ super) ELSE UNCHANGED <<ptr, hover>>

\* A selection: a drag, or a click that leaves the overview.
EndSelection(b, left, ntf) ==
    /\ op.kind = "select" /\ EndOp(left, ntf, overview)
    /\ overview' \in {overview} \cup (IF b = "left" THEN {~overview} ELSE {})

\* A bar segment: a click is replayed to it, a drag drops it at its new edge.
MovesBar(b) == op.kind = "move" /\ Kind(op.win) = "bar" /\ b = "left"
ReplayClick(b, ntf) ==
    /\ MovesBar(b) /\ op' = NoOp /\ pan' = FALSE
    /\ PassThrough(ntf, drag, Adjusting) /\ UNCHANGED overview
DropBar(b) ==
    /\ MovesBar(b) /\ op' = NoOp /\ pan' = FALSE
    /\ UNCHANGED <<ptr, hover, overview>>

\* Anything else; a tap on a window in overview goes to it.
EndDrag(b, ntf) ==
    /\ op.kind # "select" /\ ~MovesBar(b) /\ EndOp(pressed, ntf, overview)
    /\ overview' \in {overview} \cup (IF op.over /\ b = "left" /\ op.win # None THEN {FALSE} ELSE {})

ReleaseOp(b) ==
    LET left == pressed \ {b}
        ntf == notified \ {b} IN
    /\ Ops /\ pressed' = left /\ UNCHANGED <<disc, menu, drag>>
    /\ EndSelection(b, left, ntf) \/ ReplayClick(b, ntf) \/ DropBar(b) \/ EndDrag(b, ntf)

ReleasePlain(b) ==
    /\ ~Ops /\ pressed' = pressed \ {b} /\ DragEnds(notified \ {b})
    /\ disc' = IF b = "left" /\ b \in pressed THEN None ELSE disc
    /\ menu' = IF b = "right" /\ b \in pressed THEN FALSE ELSE menu
    /\ UNCHANGED <<op, pan, overview>>

Release(b) ==
    /\ b \in down /\ down' = down \ {b}
    /\ notified' = notified \ {b} /\ told' = Heard(b)
    /\ robbed' = IF told'[b] = None THEN robbed \ {b} ELSE robbed
    /\ UNCHANGED at
    /\ ReleaseOp(b) \/ ReleasePlain(b)
    /\ UNCHANGED <<super, alive>>

-----------------------------------------------------------------------------
(* Drags, windows and modes.                                               *)

\* handle_request_start_drag, handle_start_drag: wlroots takes the pointer from the
\* client for the drag, and its release will not be a button's.
StartDrag(w) ==
    /\ ~drag /\ ~Ops /\ w \in alive
    /\ \E b \in notified : notified = {b} /\ told[b] = w
    /\ drag' = TRUE /\ told' = [b \in Buttons |-> None] /\ robbed' = {}
    /\ ptr' = None
    /\ UNCHANGED <<down, pressed, notified, at, hover, op, disc, menu, super, overview, pan, alive>>

\* The source gives its drag up.
CancelDrag ==
    /\ drag /\ drag' = FALSE /\ UNCHANGED at
    /\ PassThrough(notified, TRUE, Adjusting)
    /\ UNCHANGED <<down, pressed, notified, told, robbed, op, disc, menu, super, overview, pan, alive>>

\* Mutant: an op on the window lives on.
WindowGoesHeld(w) ==
    /\ w \in alive /\ alive' = alive \ {w}
    /\ told' = [b \in Buttons |-> IF told[b] = w THEN None ELSE told[b]]
    /\ robbed' = {b \in robbed : told[b] # w}
    /\ at' = IF Under = w THEN <<None, "body">> ELSE at
    /\ ptr' = IF ptr = w THEN None ELSE ptr
    /\ UNCHANGED <<down, pressed, notified, menu, drag, super, overview, pan, hover, op, disc>>

\* Window::destroy: an op on it is gone at once.
WindowGoes(w) ==
    /\ w \in alive /\ alive' = alive \ {w}
    /\ told' = [b \in Buttons |-> IF told[b] = w THEN None ELSE told[b]]
    /\ robbed' = {b \in robbed : told[b] # w}
    /\ at' = IF Under = w THEN <<None, "body">> ELSE at
    /\ ptr' = IF ptr = w THEN None ELSE ptr
    /\ hover' = IF hover = w THEN None ELSE hover
    /\ op' = IF op.win = w THEN NoOp ELSE op
    /\ disc' = IF disc = w THEN None ELSE disc
    /\ UNCHANGED <<down, pressed, notified, menu, drag, super, overview, pan>>

\* Super goes down or up; the overview is entered or left by a key.
Modes ==
    /\ \/ super' = ~super /\ UNCHANGED overview
       \/ overview' = ~overview /\ UNCHANGED super
    /\ UNCHANGED <<down, pressed, notified, told, robbed, at, ptr, hover, op, disc, menu, drag, pan, alive>>

\* handle_edge_pan_tick: stops without an op, else goes on while op_update wants it.
PanTick ==
    /\ pan /\ pan' \in IF Ops THEN IF Pannable(op) THEN BOOLEAN ELSE {FALSE} ELSE {FALSE}
    /\ UNCHANGED <<down, pressed, notified, told, robbed, at, ptr, hover, op, disc, menu, drag,
                   super, overview, alive>>

Next ==
    \/ /\ events < MaxEvents /\ events' = events + 1
       /\ \/ \E b \in Buttons : Press(b)
          \/ \E p \in Places : Motion(p)
          \/ \E w \in Windows : ClientOp("move", w) \/ ClientOp("resize", w) \/ StartDrag(w) \/ WindowGoes(w)
          \/ CancelDrag \/ Modes
    \/ UNCHANGED events /\ ((\E b \in Buttons : Release(b)) \/ Refresh \/ PanTick)

Spec == Init /\ [][Next]_grabVars /\ WF_grabVars(UNCHANGED events /\ PanTick)

-----------------------------------------------------------------------------
\* A client hears the release of every press it heard, unless an op took the
\* pointer from it; and until then the pointer stays with it.
PressesArePaired ==
    \A b \in Buttons : told[b] # None /\ b \notin robbed => b \in notified /\ ptr = told[b]

\* What the compositor remembers as held is held, and an op always has a button
\* whose release will end it, and a live window if any.
OpsAreHeld ==
    /\ notified \subseteq pressed /\ pressed \subseteq down
    /\ Ops => pressed # {} /\ (op.win # None => op.win \in alive)

GrabIsSound == PressesArePaired /\ OpsAreHeld

\* The desk stops scrolling once no op holds the pointer at its edge.
PanStops == (pan /\ ~Ops) ~> (~pan \/ Ops)

\* cursor.rs:114: the release of a forwarded press reaches the client whatever the
\* compositor does by then.
ReleaseReachesClient == \A b \in Buttons : told[b] # None => b \in notified

\* cursor.rs:540: the end of an op gives the pointer back to what is under it.
OpEndRestores ==
    [][Ops /\ op'.kind = "none" /\ pressed' = {} /\ op.win \in alive'
       => ptr' = Entered({}, drag, at', overview' \/ super)]_grabVars
=============================================================================

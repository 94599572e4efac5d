------------------------------- MODULE GridPatch -------------------------------
(***************************************************************************)
(* The patches of the desktop grid (window_manager/grid_patches.rs,        *)
(* cce_window_management.rs:342, xdg_toplevel.rs:597): the grid's client   *)
(* renders a region of the desk it is told, and the compositor's own cells *)
(* stand in where its latched patch does not reach.  One axis of the desk  *)
(* is enough: a viewport is View * 2^z wide, zoomed out by z.              *)
(***************************************************************************)
EXTENDS Integers, Sequences

CONSTANTS
    Spots, ZoomOuts,  \* camera places and how far it zooms out
    View, Cell,       \* width of the viewport at zoom 0; period of the cells
    Cap, Coarsest,    \* max_buf at full resolution; the coarsest halving
    MaxEvents,        \* bound: events from outside in a behaviour
    None

VARIABLES
    at, z,            \* desk_pan, desk_zoom
    to,               \* the flight's destination [p, z, zoom] or None
    active,           \* viewport_is_active
    mapped, bound,    \* the grid's window is mapped; it has its resource
    pending, acked, current, \* grid_patch_pending, _acked, _current: [n, patch]
    serial, stale, flight,   \* grid_patch_serial, _stale, _flight
    hold, cells,      \* grid_cells_hold, grid_cells_enabled
    style,            \* the desktop's style
    dirty,            \* a manage pass is wanted
    heard,            \* the client: the newest patch it was told
    render,           \* ... what it acked and will commit
    buffer,           \* ... what it shows: [n, patch, style]
    sends,            \* patches sent since the last event from outside
    events

patchVars == <<at, z, to, active, mapped, bound, pending, acked, current, serial, stale, flight,
               hold, cells, style, dirty, heard, render, buffer, sends, events>>
client == <<heard, render, buffer>>

\* Bound of the counter of sends.
MaxSends == 6

Init ==
    /\ at = 0 /\ z = 0 /\ to = None /\ active = FALSE /\ mapped = FALSE /\ bound = FALSE
    /\ pending = None /\ acked = None /\ current = None
    /\ serial = 0 /\ stale = FALSE /\ flight = FALSE
    /\ hold = FALSE /\ cells = TRUE /\ style = 0 /\ dirty = FALSE
    /\ heard = None /\ render = None /\ buffer = None /\ sends = 0 /\ events = 0

Width(h) == View * 2^h
Least(a, b) == IF a < b THEN a ELSE b
Most(a, b) == IF a < b THEN b ELSE a
Floor(x) == (x \div Cell) * Cell
Ceil(x) == -Floor(-x)
Reaches(p, lo, hi) == p.lo <= lo /\ p.hi >= hi

\* covers: p suits the camera (c, h) in flight or at rest, and the destination
\* t; a zoom flight asks for its destination alone. The magnification of p at
\* zoom h is 2^(p.k - h).
Covers(p, c, h, t, moving) ==
    LET slack == IF moving THEN Width(h) \div 50 ELSE (Width(h) * 3) \div 20
    IN /\ \/ t # None /\ t.zoom
          \/ /\ Reaches(p, c - slack, c + Width(h) + slack)
             /\ IF moving THEN p.k - h <= 1 ELSE p.k - h \in {-1, 0}
       /\ t # None => /\ Reaches(p, t.p - Width(t.z) \div 20, t.p + Width(t.z) + Width(t.z) \div 20)
                      /\ p.k - t.z \in {-2, -1, 0}

\* The halvings of the resolution for destination t, finer while the camera is.
Halvings(h, t) == Least(Least(IF t = None THEN h ELSE t.z, Coarsest), h + 1)

\* A zoom flight's patch: its destination and a quarter around it, or what the
\* buffer holds of it.
FlightPatch(h, t) ==
    LET k == Halvings(h, t)
        lo == Floor(t.p - Width(t.z) \div 4)
        hi == Ceil(t.p + Width(t.z) + Width(t.z) \div 4)
        cap == Floor(Cap * 2^k)
        mid == Floor(t.p + Width(t.z) \div 2 - cap \div 2)
    IN IF hi - lo <= cap THEN [lo |-> lo, hi |-> hi, k |-> k] ELSE [lo |-> mid, hi |-> mid + cap, k |-> k]

\* Otherwise a patch of the largest size, about the viewport and where it is
\* heading, or aligned outward if that nearly fills it; None if it cannot.
RoomyPatch(c, h, t) ==
    LET k == Halvings(h, t)
        lo == IF t = None THEN c ELSE Least(c, t.p - Width(t.z) \div 10)
        hi == IF t = None THEN c + Width(h) ELSE Most(c + Width(h), t.p + Width(t.z) + Width(t.z) \div 10)
        size == Floor(Cap * 2^k)
        first == Floor((lo + hi - size) \div 2)
        start == IF first + size < hi THEN first + Cell ELSE first
        slack == Least(Cap * 2^k - (hi - lo), hi - lo) \div 2
    IN IF hi - lo > Cap * 2^k THEN None
       ELSE IF start <= lo /\ start + size >= hi THEN [lo |-> start, hi |-> start + size, k |-> k]
       ELSE [lo |-> Floor(lo - slack), hi |-> Ceil(hi + slack), k |-> k]

\* Mutant: a patch the client has is sent to it again.
IsNews(p, restyled) == TRUE

\* send_grid_patch_to: only a new style makes the same patch news.
News(p, restyled) == restyled \/ \A known \in {pending, acked, current} \ {None} : known.patch # p

\* send_grid_patch_to, with isFlight for a patch sized for a flight's end. An
\* unbound client hears nothing, but its serial is used up.
Send(p, isFlight) ==
    IF ~News(p, stale) THEN flight' = isFlight /\ UNCHANGED <<pending, serial, stale, heard, sends>>
    ELSE /\ serial' = serial + 1
         /\ IF bound
            THEN /\ pending' = [n |-> serial', patch |-> p] /\ heard' = pending'
                 /\ stale' = FALSE /\ flight' = isFlight /\ sends' = Least(sends + 1, MaxSends)
            ELSE UNCHANGED <<pending, stale, flight, heard, sends>>

\* update_grid_patches, for the camera (at', z') and its destination to'; the
\* flag of a moving viewport is the one before this motion.
UpdatePatches ==
    LET moving == active \/ to' # None
        zoomFlight == to' # None /\ to'.zoom
        upgrade == flight /\ ~zoomFlight /\ pending = None /\ acked = None
        suits(it) == it # None /\ Covers(it.patch, at', z', to', moving)
        fits == RoomyPatch(at', z', to')
        quiet == \/ ~mapped
                 \/ ~stale /\ ~upgrade /\ suits(current)
                 \/ suits(pending) \/ acked # None
                 \/ ~zoomFlight /\ fits = None
    IN IF quiet THEN UNCHANGED <<pending, serial, stale, flight, heard, sends>>
       ELSE Send(IF zoomFlight THEN FlightPatch(z', to') ELSE fits, zoomFlight)

\* The policy's grid_cells_enabled: no grid client has a patch on screen.
NoneShows == ~mapped \/ current = None

\* Mutant: the cells go off with the flight.
CellsEndWithFlight(p, s) ==
    LET flies == to' # None /\ to'.zoom
    IN hold' = (hold \/ flies) /\ cells' = (NoneShows \/ flies)

\* arrange_views: a zoom flight holds the cells on until the latched patch
\* reaches the viewport and none is in the air. p and s are pending and acked.
Cells(p, s) ==
    LET zoomFlight == to' # None /\ to'.zoom
        armed == hold \/ zoomFlight
        bare == mapped /\ ~(current # None /\ Reaches(current.patch, at', at' + Width(z')))
        inAir == mapped /\ (p # None \/ s # None)
        uncovered == armed /\ (inAir \/ bare)
    IN /\ hold' = (armed /\ (zoomFlight \/ uncovered))
       /\ cells' = (NoneShows \/ zoomFlight \/ uncovered)

Arrange == UpdatePatches /\ Cells(pending', acked)

Event == events < MaxEvents /\ events' = events + 1
Afresh == Event /\ sends' = 0
camera == <<at, z, to, active>>
world == <<mapped, bound, style>>
patches == <<pending, acked, current, serial, stale, flight>>

\* The grid's window comes; its protocol object, sooner or later (set_grid).
Map ==
    /\ Afresh /\ ~mapped /\ mapped' = TRUE /\ dirty' = TRUE
    /\ UNCHANGED <<camera, bound, style, patches, hold, cells, client>>
Bind ==
    /\ Afresh /\ ~bound /\ bound' = TRUE /\ dirty' = TRUE
    /\ UNCHANGED <<camera, mapped, style, patches, hold, cells, client>>

\* An overview's ramp or a zoom's target starts, or a pan to somewhere: the
\* camera has a destination from the next frame on.
Fly(p, h) ==
    /\ Afresh /\ <<p, h>> # <<at, z>>
    /\ to' = [p |-> p, z |-> h, zoom |-> h # z]
    /\ UNCHANGED <<at, z, active, world, patches, hold, cells, dirty, client>>

\* invalidate_grid_patches, on a reload or a layout change.
Restyle ==
    /\ Afresh /\ style' = 1 - style /\ stale' = TRUE /\ dirty' = TRUE
    /\ UNCHANGED <<camera, mapped, bound, pending, acked, current, serial, flight, hold, cells, client>>

\* A frame of the flight: the camera moves and the desk is arranged; the last
\* frame has no destination any more.
Halfway(a, b) == IF a = b \/ a + 1 = b \/ b + 1 = a THEN b ELSE (a + b) \div 2
Step(lands) ==
    /\ to # None
    /\ IF lands THEN at' = to.p /\ z' = to.z /\ to' = None
       ELSE /\ ~active
            /\ at' = Halfway(at, to.p) /\ z' = Halfway(z, to.z) /\ UNCHANGED to
    /\ active' = TRUE /\ Arrange
    /\ UNCHANGED <<world, acked, current, style, dirty, render, buffer, events>>

\* finish_viewport_settle: no arrange.
Settle ==
    /\ active /\ to = None /\ active' = FALSE
    /\ UNCHANGED <<at, z, to, world, patches, hold, cells, dirty, client, sends, events>>

\* A manage pass arranges too.
Pass ==
    /\ dirty /\ dirty' = FALSE /\ UNCHANGED camera /\ Arrange
    /\ UNCHANGED <<world, acked, current, render, buffer, events>>

\* Mutant: the patch is latched when it is acked.
AckLatches ==
    /\ heard # None /\ render = None
    /\ render' = [n |-> heard.n, patch |-> heard.patch, style |-> style] /\ heard' = None
    /\ IF pending # None /\ pending.n = heard.n
       THEN pending' = None /\ current' = pending ELSE UNCHANGED <<pending, current>>
    /\ UNCHANGED <<camera, world, acked, serial, stale, flight, hold, cells, dirty, buffer, sends, events>>

\* The client renders the newest patch in the style of now and acks it; only
\* the serial that is pending is taken (toplevel_ack_grid_patch).
Ack ==
    /\ heard # None /\ render = None
    /\ render' = [n |-> heard.n, patch |-> heard.patch, style |-> style] /\ heard' = None
    /\ IF pending # None /\ pending.n = heard.n
       THEN pending' = None /\ acked' = pending ELSE UNCHANGED <<pending, acked>>
    /\ UNCHANGED <<camera, world, current, serial, stale, flight, hold, cells, dirty, buffer, sends, events>>

\* The next commit carries the buffer (handle_commit): it latches what was acked.
Commit ==
    /\ render # None /\ render' = None /\ buffer' = render
    /\ IF acked # None THEN current' = acked /\ acked' = None /\ dirty' = TRUE
       ELSE UNCHANGED <<current, acked, dirty>>
    /\ UNCHANGED <<camera, world, pending, serial, stale, flight, hold, cells, heard, sends, events>>

Next ==
    \/ \E p \in Spots, h \in ZoomOuts : Fly(p, h)
    \/ \E lands \in BOOLEAN : Step(lands)
    \/ Map \/ Bind \/ Restyle \/ Settle \/ Pass \/ Ack \/ Commit

\* Frames, the settle timer and passes come; the client answers what it hears.
Spec ==
    /\ Init /\ [][Next]_patchVars
    /\ WF_patchVars(Step(TRUE)) /\ WF_patchVars(Settle) /\ WF_patchVars(Pass)
    /\ WF_patchVars(Ack) /\ WF_patchVars(Commit)

-----------------------------------------------------------------------------
Patch == [lo : Int, hi : Int, k : 0..Coarsest]
TypeOK ==
    /\ \A it \in {pending, acked, current} : it = None \/ (it.n \in 1..serial /\ it.patch \in Patch)
    /\ {stale, flight, hold, cells, mapped, bound, active, dirty} \subseteq BOOLEAN
    /\ sends \in 0..MaxSends

\* An older buffer is never shown at a newer patch's place.
NoOldBufferAtNewAnchor == current # None => buffer # None /\ buffer.n >= current.n

\* A camera that stays where it is costs a few renderings, not one a frame.
NoStorm == sends < MaxSends

\* Cells a flight put under the client's grid never go from under a gap: where
\* they do, a latched patch reaches the viewport and the client owes none.
CellsGoWhenCovered ==
    [][hold /\ cells /\ ~cells' /\ ~NoneShows =>
          /\ pending' = None /\ acked' = None
          /\ Reaches(current'.patch, at', at' + Width(z'))]_patchVars

AtRest == to = None /\ ~active
Shown == buffer # None /\ current # None /\ buffer.n = current.n /\ buffer.style = style

\* In the end the client's patch fills the viewport in the style of now, and
\* the cells go off.
Filled == mapped /\ bound => Shown /\ ~cells /\ Reaches(current.patch, at, at + Width(z))
GridSettles == []<>Filled
=============================================================================

---------------------------- MODULE X11Geometry ----------------------------
(***************************************************************************)
(* One mapped X11 window and the geometry the compositor and X say it has, *)
(* on one axis: a position and a size.  xwayland_window.rs keeps them in   *)
(* two units.  The layout is logical; X is in device pixels, Scale of them *)
(* to a logical one, so every number crosses to_x11 or from_x11 and not    *)
(* every X value survives the round trip.                                  *)
(*                                                                         *)
(* The X server applies a configure at once and reports it back; reports   *)
(* and the client's own requests reach the compositor in order and late.   *)
(* A transaction is two steps, PassStart (arrange and configure) and       *)
(* PassEnd (render), with X events in between.                             *)
(***************************************************************************)
EXTENDS Integers, Sequences

CONSTANTS
    Kinds,      \* what the window is: "plain", "parented" (a dialog, or a shy
                \* helper: both place themselves) or "exempt" (a game named in
                \* xwayland_hidpi_except)
    Modes,      \* its mode, which stays: "floating", "tiled", "fullscreen"
    Scale,      \* device pixels to a logical one on the only output
    Natural,    \* the X size the window has of itself as it maps
    Screen,     \* logical size of that output, whose origin is 0
    Tile,       \* <<position, size>> of the window when tiled
    Asks,       \* X geometries the client asks for of its own accord
    Spots,      \* logical positions the user drags or pans the window to
    Sizes,      \* logical sizes resize-window sets
    MaxQueue,   \* bound on the reports and requests under way: X keeps up
    MaxEvents,  \* bound on what the client, the user and the outputs do
    None

VARIABLES
    kind, mode,
    virt,       \* virtual_x (for a fullscreen window: its desk spot)
    box,        \* box_geom
    planned,    \* rendering_requested.x
    rendered,   \* rendering_sent.width
    cfgSent,    \* configure_sent.width
    mirror,     \* what wlroots says X has
    sentGeom,   \* sent_geom, the last geometry given to X
    real,       \* what X has
    queue,      \* reports and requests on their way to the compositor
    has,        \* the geometry the client last heard of
    waiting,    \* its request has not been answered
    output,     \* an output is there
    grace,      \* in_output_change_grace
    dirtyW, dirtyR, pass,
    legit,      \* ghost: the logical sizes somebody asked for
    crossed,    \* ghost: an older report took the mirror off what was sent
    events

layout  == <<kind, mode, virt, box, planned, rendered, cfgSent>>
xside   == <<mirror, sentGeom, real, queue>>
client  == <<has, waiting>>
outs    == <<output, grace>>
passes  == <<dirtyW, dirtyR, pass>>
vars    == <<layout, xside, client, outs, passes, legit, crossed, events>>

Pos(g)  == g[1]
Size(g) == g[2]

\* Mutant: the scale goes with the output.
ScaleLost == IF kind = "exempt" \/ ~output THEN 1 ELSE Scale

\* The factor of this window: 1 for an exempt one, else the output's, which is
\* remembered while there is none.
X11Scale == IF kind = "exempt" THEN 1 ELSE Scale

ToX11(v) == v * X11Scale

\* Rounded to the nearest, half up.
FromX11(v) == (2 * v + X11Scale) \div (2 * X11Scale)

\* Mutant: a request is granted to the pixel.
SnapNot(v) == v

SnapX11(v) == ToX11(FromX11(v))

\* Mutant: the mirror alone says what X has.
DiffersFromMirror(wanted, reported) == wanted # reported

NeedsConfigure(wanted, reported) == wanted # reported \/ sentGeom # wanted

-----------------------------------------------------------------------------

TypeOK ==
    /\ kind \in Kinds /\ mode \in Modes
    /\ Size(box) \in Int /\ Pos(box) \in Int
    /\ rendered \in Int /\ planned \in Int
    /\ pass \in {"idle", "started"}
    /\ waiting \in BOOLEAN /\ grace \in BOOLEAN
    /\ events \in 0 .. MaxEvents

\* The window has just mapped, restored to a saved size (try_restore writes it
\* over the mirror) or not; X has it at its natural size.
Init ==
    /\ kind \in Kinds /\ mode \in Modes
    /\ (kind # "plain" => mode = "floating")
    /\ virt \in Spots
    /\ planned = virt
    /\ real = <<0, Natural>>
    /\ \E saved \in {Size(real)} \cup {Scale * w : w \in IF kind = "plain" THEN Sizes ELSE {}}:
          /\ mirror = <<0, saved>>
          /\ LET s == IF kind = "exempt" THEN 1 ELSE Scale
             IN  /\ box = <<virt, saved \div s>>
                 /\ legit = {saved \div s, Natural \div s}
    /\ rendered = Size(box) /\ cfgSent = None
    /\ sentGeom = None
    /\ queue = <<>>
    /\ has = real /\ waiting = FALSE
    /\ output = TRUE /\ grace = FALSE
    /\ dirtyW = TRUE /\ dirtyR = FALSE /\ pass = "idle"
    /\ crossed = FALSE /\ events = 0

\* XwaylandWindow::send_configure.  The mirror takes the geometry at once, X
\* applies it and reports it to the compositor and to the client.  A client
\* takes the first report after its request as the answer.  One that hears of
\* a move it did not ask for asks for its own geometry again: a dialog whenever
\* it is moved, a fullscreen game whenever it is off its screen's origin.
Insists(g) ==
    \/ kind = "parented" /\ ~waiting /\ g # has
    \/ mode = "fullscreen" /\ Pos(g) # 0

Tell(g, q) ==
    /\ mirror' = g
    /\ sentGeom' = g
    /\ real' = g
    /\ has' = g
    /\ waiting' = Insists(g)
    /\ queue' = q \o (IF g # real THEN <<[type |-> "report", geom |-> g]>> ELSE <<>>)
                  \o (IF Insists(g)
                        THEN <<[type |-> "again",
                                geom |-> IF mode = "fullscreen" THEN <<0, Size(g)>> ELSE has]>>
                        ELSE <<>>)

\* Mutant: a fullscreen window is told where it is drawn.
OriginDrawn(x) == x

\* x11_origin
X11Origin(x) == IF mode = "fullscreen" THEN 0 ELSE x

\* XwaylandWindow::configure, with the size the pass scheduled.
Configure(x, size, q) ==
    LET wanted == <<ToX11(X11Origin(x)), IF size = None THEN Size(mirror) ELSE ToX11(size)>>
    IN  /\ IF NeedsConfigure(wanted, mirror)
             THEN Tell(wanted, q)
             ELSE queue' = q /\ UNCHANGED <<mirror, sentGeom, real, client>>
        /\ cfgSent' = IF size = None THEN FromX11(Size(mirror')) ELSE size

\* arrange_views: a floating window goes where its virtual spot is at the size
\* of its box, a tiled one on its cells.  Without an output nothing is placed.
Place == IF mode = "tiled" THEN Tile ELSE <<virt, Size(box)>>

\* Window::manage_finish: the size to send.  A fullscreen window is sent the
\* output's.
SizeToSend ==
    IF mode # "fullscreen" THEN (IF output THEN Size(Place) ELSE None)
    ELSE IF output /\ cfgSent # Screen THEN Screen ELSE None

PassStart ==
    /\ pass = "idle" /\ (dirtyW \/ dirtyR)
    /\ Len(queue) < MaxQueue
    /\ pass' = "started" /\ dirtyW' = FALSE /\ dirtyR' = FALSE
    /\ IF ~dirtyW
         THEN UNCHANGED <<planned, cfgSent, xside, client>>
         ELSE /\ planned' = IF output THEN Pos(Place) ELSE planned
              /\ Configure(Pos(box), SizeToSend, queue)
    /\ UNCHANGED <<kind, mode, virt, box, rendered, outs, legit, crossed, events>>

\* render_start: the size is read back from the mirror.
ReadBack == FromX11(Size(mirror))

\* render_finish makes it the box and configures again at the planned place.
PassEnd ==
    /\ pass = "started" /\ Len(queue) < MaxQueue
    /\ pass' = "idle"
    /\ rendered' = ReadBack
    /\ box' = <<planned, rendered'>>
    /\ Configure(planned, None, queue)
    /\ UNCHANGED <<kind, mode, virt, planned, outs, dirtyW, dirtyR, legit, crossed, events>>

Happens == events < MaxEvents /\ Len(queue) < MaxQueue /\ events' = events + 1

\* The client commits a buffer: render_finish runs outside a pass.
Commit ==
    /\ Happens
    /\ box' = <<planned, rendered>>
    /\ Configure(planned, None, queue)
    /\ UNCHANGED <<kind, mode, virt, planned, rendered, outs, passes, legit, crossed>>

\* The client asks for a geometry, at its own wish.
Ask ==
    /\ Happens
    /\ ~waiting
    /\ \E g \in Asks : queue' = Append(queue, [type |-> "ask", geom |-> g])
    /\ waiting' = TRUE
    /\ UNCHANGED <<layout, mirror, sentGeom, real, has, outs, passes, legit, crossed>>

\* A report from X reaches wlroots, which takes it over the mirror.
Report ==
    /\ queue # <<>> /\ Head(queue).type = "report"
    /\ mirror' = Head(queue).geom
    /\ crossed' = (crossed \/ mirror' # sentGeom)
    /\ queue' = Tail(queue)
    /\ UNCHANGED <<layout, sentGeom, real, client, outs, passes, legit, events>>

Request == queue # <<>> /\ Head(queue).type # "report"

SelfPlaced == kind \in {"parented", "exempt"} /\ mode = "floating"

LeastOf(a, b) == IF a < b THEN a ELSE b

\* What a self-placed window is given: what it asked for, on the logical grid;
\* an exempt one at most the output.
Granted(g) ==
    IF kind = "exempt" /\ output
      THEN LET w == LeastOf(FromX11(Size(g)), Screen)
           IN  <<LeastOf(FromX11(Pos(g)), Screen - w), w>>
      ELSE <<FromX11(Pos(g)), FromX11(Size(g))>>

\* handle_request_configure of a dialog, a helper or a floating game: the place
\* and the size are its own, and the virtual origin moves with them.
\* Mutant: the virtual origin is left behind.
NewOriginStale(l) == virt

NewOrigin(l) == Pos(l)

GrantSelfPlaced ==
    /\ Request /\ SelfPlaced
    /\ LET g == Head(queue).geom
           l == Granted(g)
       IN  /\ Tell(IF kind = "exempt" THEN l ELSE <<SnapX11(Pos(g)), SnapX11(Size(g))>>, Tail(queue))
           /\ box' = l /\ planned' = Pos(l) /\ virt' = NewOrigin(l)
           /\ rendered' = Size(l)
           /\ dirtyR' = (dirtyR \/ <<planned, rendered>> # l)
           /\ legit' = legit \cup {Size(l)}
    /\ UNCHANGED <<kind, mode, cfgSent, outs, dirtyW, pass, crossed, events>>

\* Mutant: the grace after an output change holds nothing.
HoldSizeTiled == mode # "floating"

HoldSize == mode # "floating" \/ grace

\* handle_request_configure of any other window: its place is the compositor's,
\* its size too while it is held, and else what it asks for.
GrantOther ==
    /\ Request /\ ~SelfPlaced
    /\ LET asked == Size(Head(queue).geom)
           own   == IF cfgSent # None THEN cfgSent ELSE Size(box)
           size  == IF HoldSize THEN ToX11(own) ELSE SnapX11(asked)
       IN  /\ Tell(<<ToX11(X11Origin(Pos(box))), size>>, Tail(queue))
           /\ dirtyR' = (dirtyR \/ FromX11(size) # rendered)
           /\ legit' = IF mode = "floating" /\ Head(queue).type = "ask" /\ ~grace
                         THEN legit \cup {FromX11(asked)} ELSE legit
    /\ UNCHANGED <<layout, outs, dirtyW, pass, crossed, events>>

\* The user drags the window, or a fullscreen one rides the desk.
Move ==
    /\ Happens
    /\ \E x \in Spots : virt' = x
    /\ dirtyW' = TRUE
    /\ UNCHANGED <<kind, mode, box, planned, rendered, cfgSent, xside, client, outs, dirtyR, pass, legit, crossed>>

\* resize-window
Resize ==
    /\ Happens
    /\ mode # "fullscreen"
    /\ \E w \in Sizes : box' = <<Pos(box), w>> /\ legit' = legit \cup {w}
    /\ dirtyW' = TRUE
    /\ UNCHANGED <<kind, mode, virt, planned, rendered, cfgSent, xside, client, outs, dirtyR, pass, crossed>>

\* The output is destroyed, as a suspend does, or created.  The client may
\* answer the change of screen with a geometry of its own.
OutputChange ==
    /\ Happens
    /\ mode # "fullscreen"
    /\ output' = ~output
    /\ grace' = TRUE
    /\ dirtyW' = TRUE
    /\ \/ UNCHANGED queue
       \/ \E g \in Asks : queue' = Append(queue, [type |-> "reassert", geom |-> g])
    /\ UNCHANGED <<layout, dirtyR, pass, legit, crossed, mirror, sentGeom, real, client>>

\* The grace is long enough for such an answer to come inside it.
GraceEnds ==
    /\ grace /\ \A i \in DOMAIN queue : queue[i].type # "reassert"
    /\ grace' = FALSE
    /\ UNCHANGED <<layout, xside, client, output, passes, legit, crossed, events>>

Next == PassStart \/ PassEnd \/ Commit \/ Ask \/ Report \/ GrantSelfPlaced \/ GrantOther
        \/ Move \/ Resize \/ OutputChange \/ GraceEnds

Fairness == WF_vars(PassStart \/ PassEnd) /\ WF_vars(Report \/ GrantSelfPlaced \/ GrantOther)

Spec == Init /\ [][Next]_vars /\ Fairness

-----------------------------------------------------------------------------

Settled == pass = "idle" /\ ~dirtyW /\ ~dirtyR /\ queue = <<>>

\* Once nothing is under way, X has the geometry the compositor thinks it has;
\* and, unless an older report crossed a newer configure, the one it draws and
\* means the window to have.
SettledAgrees ==
    Settled =>
      /\ real = mirror /\ real = sentGeom
      /\ (mode = "fullscreen" => Pos(real) = 0)
      /\ ~crossed => /\ real = <<ToX11(X11Origin(Pos(box))), ToX11(Size(box))>>
                     /\ (mode = "tiled" /\ output => box = Tile)
                     /\ (mode = "floating" /\ output => Pos(box) = virt)
                     /\ (mode = "fullscreen" => Size(box) = Screen)

\* It is so whatever crossed.  (It is not: an older report that comes before the
\* render pass, or before the client's next commit, is taken for the size X has
\* and sent to X again, where it stays.)
DrawnSizeIsReal == Settled => Size(real) = ToX11(Size(box))

\* A floating window never has a size nobody asked for: not through a suspend,
\* and not by the client's answer to one.
SizeWasAskedFor == mode = "floating" => Size(box) \in legit

\* The compositor and a client that insists on its geometry come to rest, unless
\* an older report crossed a newer configure.
ExchangeRests == <>[](Settled \/ crossed)
=============================================================================

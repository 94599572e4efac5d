---------------------------- MODULE Transaction ----------------------------
(* The layout transactions of the window manager                           *)
(* (window_manager/transaction.rs, shared.rs, window.rs, xdg_toplevel.rs). *)
(*                                                                         *)
(* A handler that changes the layout marks work pending and arms one idle  *)
(* callback.  The callback runs a manage pass: it sends each window of the *)
(* render list its new size, freezes the windows whose answer it counts,   *)
(* and waits for those answers or for 100 ms.  The render pass that ends   *)
(* the transaction adopts what the clients committed, thaws every window   *)
(* and frees the ones whose client object has gone.                        *)
(*                                                                         *)
(* A pass that waits for nobody runs to its end inside one handler, so the *)
(* states Manage and Render are never seen between two handlers: wm is     *)
(* "Idle" or "Inflight".  A failed assertion stops the program: `failed'   *)
(* names it and nothing happens afterwards.                                *)
EXTENDS Naturals, FiniteSets

CONSTANTS
    Windows,     \* the windows a run of the compositor can hold at once
    None,        \* no window is grabbed
    StatusBars,  \* those that are status bars
    Draggable,   \* those the user may move or resize by dragging
    Remapping,   \* those whose client shows its toplevel again after unmapping
    Decorating,  \* those whose client settles its decoration after its first commit
    Camera       \* whether camera frames relay out between transactions

ASSUME WindowsAssumption ==
    /\ IsFiniteSet(Windows)
    /\ StatusBars \subseteq Windows
    /\ Draggable \subseteq Windows
    /\ Remapping \subseteq Windows
    /\ Decorating \subseteq Windows
    /\ None \notin Windows
    /\ Camera \in BOOLEAN

VARIABLES
    wm,         \* WindowManager.state between two handlers
    count,      \* the tracked configures of InflightConfigures
    timer,      \* whether the 100 ms timer is armed
    windowing,  \* Pending.windowing: a manage pass is wanted
    rendering,  \* Pending.rendering: a render pass is wanted
    armed,      \* Pending.idle: the idle callback is armed
    win,        \* the windows
    grab,       \* the window of the seat's move or resize, or None
    sizing,     \* that operation is a resize
    opFrame,    \* WindowManager.op_frame_pending
    waiting,    \* history: the windows counted that could still answer
    failed      \* the assertion that has failed, or "none"

vars == <<wm, count, timer, windowing, rendering, armed, win, grab, sizing,
          opFrame, waiting, failed>>

-----------------------------------------------------------------------------
(* Windows *)

WindowState == {"Free", "Init", "Ready", "Initialized", "Mapped", "Closing"}
Managed == {"Ready", "Initialized", "Mapped"}
ConfigureState ==
    {"Idle", "Inflight", "Acked", "Committed", "TimedOut", "TimedOutAcked"}

\* Where the client stands with its xdg toplevel: it has made no initial
\* commit, waits for its first configure, was sent one, acked one, or mapped.
\* A window also notes whether its client was ever told a size, can still ack
\* the configure that cfg is about, and committed a size not adopted yet (late).
Client == {"new", "waiting", "told", "ready", "mapped"}

Window == [st: WindowState, alive: BOOLEAN, listed: BOOLEAN, saved: BOOLEAN,
           cfg: ConfigureState, client: Client, told: BOOLEAN, answers: BOOLEAN,
           resizing: BOOLEAN, late: BOOLEAN]

NoWindow == [st |-> "Free", alive |-> FALSE, listed |-> FALSE, saved |-> FALSE,
             cfg |-> "Idle", client |-> "new", told |-> FALSE, answers |-> FALSE,
             resizing |-> FALSE, late |-> FALSE]

\* What a plan asks of a window, compared with what the client was last told
\* (configure_sent) and last committed (geometry): no size and nothing new; a
\* size and state already told; the committed size and nothing else new; the
\* committed size with other state that is new; another size.
Ask == {"none", "told", "echo", "fits", "size"}

\* A client that was never told a size is not being told the same one again.
Asks(r) == IF r.told THEN Ask ELSE {"none", "fits", "size"}

\* Mutant: a size the client has committed already is not sent.
SendsNoFit(r, ask) == ask = "size" \/ (ask = "echo" /\ r.cfg \in {"Inflight", "Acked"})

Sends(r, ask) ==
    \/ ask \in {"fits", "size"}
    \/ (ask = "echo" /\ r.cfg \in {"Inflight", "Acked"})

\* Mutant: an echo that was absorbed is tracked.
TracksEcho(r, ask) ==
    \/ (Sends(r, ask) /\ ~(ask = "fits" /\ r.cfg = "Idle"))
    \/ (ask \in {"none", "told"} /\ r.cfg \in {"TimedOut", "TimedOutAcked"})
    \/ ask = "echo"

\* XdgToplevel::configure: whether the answer is tracked ...
Tracks(r, ask) ==
    \/ (Sends(r, ask) /\ ~(ask = "fits" /\ r.cfg = "Idle"))
    \/ (ask \in {"none", "told"} /\ r.cfg \in {"TimedOut", "TimedOutAcked"})

\* ... and the configure state it leaves.
Configured(r, ask) ==
    CASE Sends(r, ask) ->
            IF ask = "fits" /\ r.cfg = "Idle" THEN "Idle" ELSE "Inflight"
      [] ask \in {"none", "told"} /\ r.cfg = "TimedOut"      -> "Inflight"
      [] ask \in {"none", "told"} /\ r.cfg = "TimedOutAcked" -> "Acked"
      [] OTHER -> r.cfg

\* Window::manage_finish leaves these windows alone ...
Skips(r, ask) == r.st = "Closing" \/ (r.st = "Ready" /\ ask = "none")

\* ... and asserts that nobody hands it one of these.
Unmanageable(r) == IF r.alive THEN r.st = "Init" ELSE r.st # "Closing"

Counts(r, ask) == ~Skips(r, ask) /\ Tracks(r, ask) /\ ~r.resizing

\* The window after Window::manage_finish.
Finished(r, ask) ==
    IF Skips(r, ask) THEN r
    ELSE [r EXCEPT
            !.st = IF @ = "Ready" THEN "Initialized" ELSE @,
            !.cfg = Configured(r, ask),
            !.saved = @ \/ (Tracks(r, ask) /\ r.st = "Mapped"),
            !.told = @ \/ Sends(r, ask),
            !.answers = @ \/ Sends(r, ask),
            !.client = IF @ = "waiting" /\ Sends(r, ask) THEN "told" ELSE @]

\* The window after Window::manage_start.
Started(r) ==
    CASE r.st = "Closing" ->
            [r EXCEPT !.st = "Init", !.listed = FALSE, !.resizing = FALSE, !.late = FALSE]
      [] r.st \in Managed -> [r EXCEPT !.listed = TRUE]
      [] OTHER -> r

\* Mutant: a configure nobody answered in time is not given up.
RenderedInflight(r) ==
    [r EXCEPT !.late = FALSE,
              !.cfg = IF @ = "Committed" THEN "Idle" ELSE @]

\* The window after Window::render_start, for a window of the render list.
Rendered(r) ==
    [r EXCEPT !.late = FALSE,
              !.cfg = CASE @ = "Inflight"  -> "TimedOut"
                        [] @ = "Acked"     -> "TimedOutAcked"
                        [] @ = "Committed" -> "Idle"
                        [] OTHER -> @]

\* The window after its turn in render_finish; Window::destroy frees it.
Freed(r) == r.st = "Init" /\ ~r.alive
\* Mutant: only mapped windows are thawed.
SettledMapped(r) ==
    CASE Freed(r)         -> NoWindow
      [] r.st = "Mapped"  -> [r EXCEPT !.saved = FALSE]
      [] OTHER            -> r

Settled(r) ==
    CASE Freed(r)          -> NoWindow
      [] r.st = "Closing"  -> r
      [] OTHER             -> [r EXCEPT !.saved = FALSE]

\* Mutant: a closing window stays in the render list.
SetClosingListed(r) == [r EXCEPT !.st = "Closing"]

\* Window::set_closing.
SetClosing(r) == [r EXCEPT !.st = "Closing", !.listed = FALSE]

-----------------------------------------------------------------------------
Init ==
    /\ wm = "Idle" /\ count = 0 /\ timer = FALSE
    /\ windowing = FALSE /\ rendering = FALSE /\ armed = FALSE
    /\ win = [w \in Windows |-> NoWindow]
    /\ grab = None /\ sizing = FALSE /\ opFrame = FALSE
    /\ waiting = {} /\ failed = "none"

\* Pending::dirty_windowing and dirty_rendering.
DirtyWindowing == windowing' = TRUE /\ armed' = TRUE /\ UNCHANGED rendering
DirtyRendering == rendering' = TRUE /\ armed' = TRUE /\ UNCHANGED windowing

Fail(name) ==
    /\ failed' = name
    /\ UNCHANGED <<wm, count, timer, windowing, rendering, armed, win, grab,
                   sizing, opFrame, waiting>>

\* Mutant: the idle callback is not armed again.
RenderPassUnarmed(ws, wanted) ==
    LET adopted == [w \in Windows |-> IF ws[w].listed THEN Rendered(ws[w]) ELSE ws[w]]
        again   == wanted \/ (\E w \in Windows : ws[w].st = "Closing" /\ ~ws[w].alive)
    IN  /\ win' = [w \in Windows |-> Settled(adopted[w])]
        /\ wm' = "Idle" /\ count' = 0 /\ timer' = FALSE
        /\ rendering' = FALSE /\ windowing' = again /\ armed' = FALSE
        /\ waiting' = {}
        /\ grab' = IF grab # None /\ Freed(ws[grab]) THEN None ELSE grab

\* Mutant: the timer is not cancelled.
RenderPassTimed(ws, wanted) ==
    LET adopted == [w \in Windows |-> IF ws[w].listed THEN Rendered(ws[w]) ELSE ws[w]]
        again   == wanted \/ (\E w \in Windows : ws[w].st = "Closing" /\ ~ws[w].alive)
    IN  /\ win' = [w \in Windows |-> Settled(adopted[w])]
        /\ wm' = "Idle" /\ count' = 0 /\ timer' = timer
        /\ rendering' = FALSE /\ windowing' = again /\ armed' = again
        /\ waiting' = {}
        /\ grab' = IF grab # None /\ Freed(ws[grab]) THEN None ELSE grab

\* render_start and render_finish on the windows ws, with a manage pass wanted
\* or not: every window adopts what its client committed and is thawed.  A
\* window that began to close since the pass started keeps its frozen picture,
\* and a manage pass is wanted for it if its client object has gone.
RenderPass(ws, wanted) ==
    LET adopted == [w \in Windows |-> IF ws[w].listed THEN Rendered(ws[w]) ELSE ws[w]]
        again   == wanted \/ (\E w \in Windows : ws[w].st = "Closing" /\ ~ws[w].alive)
    IN  /\ win' = [w \in Windows |-> Settled(adopted[w])]
        /\ wm' = "Idle" /\ count' = 0 /\ timer' = FALSE
        /\ rendering' = FALSE /\ windowing' = again /\ armed' = again
        /\ waiting' = {}
        /\ grab' = IF grab # None /\ Freed(ws[grab]) THEN None ELSE grab

\* manage_start, arrange_views and manage_finish on the windows ws.  The plan
\* asks nothing of a window outside the render list.  A status bar is
\* configured at once, by arrange_views, which ignores whether the answer is
\* tracked; the pass then finds no size left to ask of it.  The idle callback
\* stays armed, if it was, only for a render pass.
ManagePass(ws, wasArmed) ==
    LET started == [w \in Windows |-> Started(ws[w])]
        listed  == {w \in Windows : started[w].listed}
    IN  \E plan \in [Windows -> Ask] :
          LET early   == {w \in StatusBars \cap listed : plan[w] # "none"}
              placed  == [w \in Windows |->
                            IF w \in early THEN Finished(started[w], plan[w]) ELSE started[w]]
              ask     == [w \in Windows |-> IF w \in early THEN "none" ELSE plan[w]]
              counted == {w \in listed : Counts(placed[w], ask[w])}
              done    == [w \in Windows |->
                            IF w \in listed THEN Finished(placed[w], ask[w]) ELSE placed[w]]
          IN  /\ \A w \in Windows :
                    plan[w] \in IF w \in listed THEN Asks(started[w]) ELSE {"none"}
              /\ IF \E w \in listed : Unmanageable(started[w]) THEN Fail("managed a window that is gone")
                 ELSE IF counted = {} THEN RenderPass(done, FALSE) /\ UNCHANGED failed
                 ELSE /\ wm' = "Inflight" /\ count' = Cardinality(counted) /\ timer' = TRUE
                      /\ win' = done /\ waiting' = counted
                      /\ windowing' = FALSE /\ rendering' = TRUE
                      /\ armed' = (wasArmed /\ rendering)
                      /\ UNCHANGED <<grab, failed>>

-----------------------------------------------------------------------------
(* The event loop *)

\* handle_idle: run the manage pass if one is wanted, else the render pass,
\* when no transaction is in flight.
IdleCallback ==
    /\ armed
    /\ UNCHANGED <<sizing, opFrame>>
    /\ IF wm = "Idle" /\ windowing THEN ManagePass(win, FALSE)
       ELSE IF wm = "Idle" /\ rendering THEN RenderPass(win, FALSE) /\ UNCHANGED failed
       ELSE /\ armed' = FALSE
            /\ UNCHANGED <<wm, count, timer, windowing, rendering, win, grab, waiting, failed>>

\* handle_timeout, 100 ms after the configures went out.
\* Mutant: the timeout leaves the transaction to its clients.
TimeoutIgnored ==
    /\ timer /\ timer' = FALSE
    /\ UNCHANGED <<wm, count, windowing, rendering, armed, win, grab, sizing, opFrame,
                   waiting, failed>>

Timeout ==
    /\ timer
    /\ UNCHANGED <<sizing, opFrame>>
    /\ CASE wm = "Inflight" /\ count > 0 -> RenderPass(win, windowing) /\ UNCHANGED failed
         [] wm = "Inflight" /\ count = 0 -> Fail("timeout with no configure")
         [] wm = "Idle" -> /\ timer' = FALSE
                           /\ UNCHANGED <<wm, count, windowing, rendering, armed, win,
                                          grab, waiting, failed>>

\* Any other handler that changes the layout or what is drawn.
LayoutChanged ==
    /\ DirtyWindowing \/ DirtyRendering
    /\ UNCHANGED <<wm, count, timer, win, grab, sizing, opFrame, waiting, failed>>

-----------------------------------------------------------------------------
(* Clients *)

\* What a client's request does to its window alone.
ClientStep(w, r) ==
    /\ win' = [win EXCEPT ![w] = r]
    /\ UNCHANGED <<wm, count, timer, grab, sizing, opFrame, failed>>

\* XdgToplevel::create.
NewToplevel(w) ==
    /\ win[w].st = "Free"
    /\ ClientStep(w, [NoWindow EXCEPT !.st = "Init", !.alive = TRUE])
    /\ UNCHANGED <<windowing, rendering, armed, waiting>>

\* handle_commit, the initial commit: of a new toplevel, or of one that was
\* unmapped and is shown again.  A second one would fail the assertion; the
\* protocol lets a client make one per unmap.
InitialCommit(w) ==
    /\ win[w].alive /\ win[w].client = "new"
    /\ win[w].told => w \in Remapping
    /\ ClientStep(w, [win[w] EXCEPT !.st = "Ready", !.client = "waiting"])
    /\ DirtyWindowing
    /\ UNCHANGED waiting

\* handle_decoration_request_mode of an initialized surface: it is sent the mode
\* at once, in a configure of its own that no transaction tracks.  A client
\* that acks this one need not ack an older one any more.
NegotiateDecoration(w) ==
    /\ w \in Decorating /\ win[w].alive /\ win[w].client # "new"
    /\ \E answers \in {FALSE, win[w].answers} :
          ClientStep(w, [win[w] EXCEPT !.client = IF @ = "waiting" THEN "told" ELSE @,
                                       !.answers = answers])
    /\ DirtyWindowing
    /\ UNCHANGED waiting

\* handle_ack_configure, with the serial of the last configure sent.
AckConfigure(w) ==
    LET r == win[w]
        acked == CASE r.cfg = "Inflight" /\ r.answers -> "Acked"
                   [] r.cfg = "TimedOut" /\ r.answers -> "TimedOutAcked"
                   [] OTHER -> r.cfg
    IN  /\ r.alive /\ r.client \in {"told", "ready", "mapped"}
        /\ r.client = "told" \/ acked # r.cfg
        /\ ClientStep(w, [r EXCEPT !.cfg = acked,
                                   !.client = IF @ = "told" THEN "ready" ELSE @])
        /\ UNCHANGED <<windowing, rendering, armed, waiting>>

\* Mutant: an answer is taken off the count between transactions too.
NotifyAnyTime(ws, left, dirtied) ==
    IF wm = "Inflight" /\ count = 1 THEN RenderPass(ws, windowing \/ dirtied)
    ELSE /\ count' = count - 1
         /\ win' = ws /\ waiting' = left
         /\ windowing' = (windowing \/ dirtied) /\ armed' = (armed \/ dirtied)
         /\ UNCHANGED <<wm, timer, rendering, grab>>

\* Mutant: the first answer ends the transaction.
NotifyFirst(ws, left, dirtied) ==
    IF wm = "Inflight" THEN RenderPass(ws, windowing \/ dirtied)
    ELSE /\ win' = ws /\ waiting' = left
         /\ windowing' = (windowing \/ dirtied) /\ armed' = (armed \/ dirtied)
         /\ UNCHANGED <<wm, count, timer, rendering, grab>>

\* Mutant: the count is compared before the answer is taken off it.
NotifyLate(ws, left, dirtied) ==
    IF wm = "Inflight" /\ count = 0 THEN RenderPass(ws, windowing \/ dirtied)
    ELSE /\ count' = IF wm = "Inflight" THEN count - 1 ELSE count
         /\ win' = ws /\ waiting' = left
         /\ windowing' = (windowing \/ dirtied) /\ armed' = (armed \/ dirtied)
         /\ UNCHANGED <<wm, timer, rendering, grab>>

\* WindowManager::notify_configured, with the windows as they are then and a
\* manage pass asked for by the same handler or not.
NotifyConfigured(ws, left, dirtied) ==
    IF wm = "Inflight" /\ count = 1 THEN RenderPass(ws, windowing \/ dirtied)
    ELSE /\ count' = IF wm = "Inflight" THEN count - 1 ELSE count
         /\ win' = ws /\ waiting' = left
         /\ windowing' = (windowing \/ dirtied) /\ armed' = (armed \/ dirtied)
         /\ UNCHANGED <<wm, timer, rendering, grab>>

\* Mutant: a late answer asks for no render pass.
CommittedSilently(w, r, dirtied) ==
    CASE r.cfg = "Acked" ->
            /\ NotifyConfigured([win EXCEPT ![w] = [r EXCEPT !.cfg = "Committed", !.late = TRUE]],
                                waiting \ {w}, dirtied)
            /\ UNCHANGED <<sizing, opFrame, failed>>
      [] OTHER ->
            /\ ClientStep(w, [r EXCEPT !.cfg = IF @ = "TimedOutAcked" THEN "Idle" ELSE @,
                                       !.late = @ \/ r.cfg = "TimedOutAcked"])
            /\ windowing' = (windowing \/ dirtied) /\ armed' = (armed \/ dirtied)
            /\ UNCHANGED <<rendering, waiting>>

\* handle_commit of the window r, after the initial one: the first commit
\* after an ack carries the size the client chose.
Committed(w, r, dirtied) ==
    CASE r.cfg = "Acked" ->
            /\ NotifyConfigured([win EXCEPT ![w] = [r EXCEPT !.cfg = "Committed", !.late = TRUE]],
                                waiting \ {w}, dirtied)
            /\ UNCHANGED <<sizing, opFrame, failed>>
      [] r.cfg = "TimedOutAcked" ->
            /\ ClientStep(w, [r EXCEPT !.cfg = "Idle", !.late = TRUE])
            /\ rendering' = TRUE /\ armed' = TRUE /\ windowing' = (windowing \/ dirtied)
            /\ UNCHANGED waiting
      [] r.cfg = "Inflight" /\ r.st = "Ready" -> Fail("frame done before mapped")
      [] OTHER ->
            /\ ClientStep(w, r)
            /\ windowing' = (windowing \/ dirtied) /\ armed' = (armed \/ dirtied)
            /\ UNCHANGED <<rendering, waiting>>

Commit(w) ==
    /\ win[w].alive /\ win[w].st \in {"Ready", "Mapped"} /\ win[w].client # "new"
    /\ win[w].cfg \in {"Acked", "TimedOutAcked", "Inflight"}
    /\ Committed(w, win[w], FALSE)

\* handle_map, and handle_commit for the commit that carries the first buffer.
\* The protocol lets a client map once it has acked a configure.
Map(w) ==
    LET r == win[w]
    IN  /\ r.alive /\ r.client = "ready"
        /\ IF r.st = "Initialized"
           THEN Committed(w, [r EXCEPT !.st = "Mapped", !.client = "mapped"], TRUE)
           ELSE Fail("mapped before initialized")

\* Window::unmap.  The client has no configure left to ack.
Unmap(w) ==
    LET r == win[w]
    IN  /\ r.alive /\ r.client = "mapped"
        /\ ClientStep(w, IF r.st = "Mapped"
                         THEN [SetClosing(r) EXCEPT !.saved = TRUE, !.client = "new", !.answers = FALSE]
                         ELSE [r EXCEPT !.client = "new", !.answers = FALSE])
        /\ IF r.st = "Mapped" THEN DirtyWindowing
           ELSE UNCHANGED <<windowing, rendering, armed>>
        /\ waiting' = waiting \ {w}

\* Mutant: no manage pass is asked for.
DestroyQuietly(w) ==
    LET r == win[w]
    IN  /\ r.alive /\ r.client # "mapped"
        /\ ClientStep(w, [IF r.st \in Managed THEN SetClosing(r) ELSE r EXCEPT !.alive = FALSE])
        /\ UNCHANGED <<windowing, rendering, armed>>
        /\ waiting' = waiting \ {w}

\* handle_destroy of the toplevel, unmapped before if it was mapped.
Destroy(w) ==
    LET r == win[w]
    IN  /\ r.alive /\ r.client # "mapped"
        /\ ClientStep(w, [IF r.st \in Managed THEN SetClosing(r) ELSE r EXCEPT !.alive = FALSE])
        /\ IF r.st \in Managed THEN DirtyWindowing
           ELSE UNCHANGED <<windowing, rendering, armed>>
        /\ waiting' = waiting \ {w}

-----------------------------------------------------------------------------
(* The user's drags, and the frames that follow them *)

UserStep == UNCHANGED <<wm, count, timer, rendering, waiting>>

\* A press on a window, or a client's request to be moved or resized.
OpStart(w, resize) ==
    /\ grab = None /\ w \in Draggable /\ win[w].st = "Mapped"
    /\ grab' = w /\ sizing' = resize
    /\ windowing' = TRUE /\ armed' = TRUE
    /\ UserStep /\ UNCHANGED <<win, opFrame, failed>>

\* Seat::op_update: a resize asks for a size; either waits for the next frame.
OpMotion ==
    /\ grab # None
    /\ win' = [win EXCEPT ![grab].resizing = @ \/ sizing]
    /\ opFrame' = TRUE
    /\ UserStep /\ UNCHANGED <<windowing, armed, grab, sizing, failed>>

\* WindowManager::step_op_frame, from the frame handler of an output.
OpFrame ==
    /\ opFrame
    /\ \E ask \in IF grab = None THEN {"none"} ELSE Asks(win[grab]) :
         LET moved == IF grab = None THEN win ELSE [win EXCEPT ![grab] = Finished(@, ask)]
         IN  IF grab # None /\ Unmanageable(win[grab]) THEN Fail("dragged a window that is gone")
             ELSE /\ opFrame' = FALSE /\ UNCHANGED sizing
                  /\ IF wm = "Idle" THEN ManagePass(moved, armed)
                     ELSE /\ win' = moved /\ DirtyWindowing
                          /\ UNCHANGED <<wm, count, timer, grab, waiting, failed>>

\* Seat::op_end.
OpEnd ==
    /\ grab # None
    /\ IF ~sizing
       THEN /\ grab' = None
            /\ UserStep /\ UNCHANGED <<windowing, armed, win, sizing, opFrame, failed>>
       ELSE \E ask \in Asks(win[grab]) :
              IF Unmanageable(win[grab]) THEN Fail("dragged a window that is gone")
              ELSE /\ win' = [win EXCEPT ![grab] = Finished([@ EXCEPT !.resizing = FALSE], ask)]
                   /\ grab' = None /\ sizing' = FALSE
                   /\ windowing' = TRUE /\ armed' = TRUE
                   /\ UserStep /\ UNCHANGED <<opFrame, failed>>

\* WindowManager::update_viewport_local, from step_camera_frame: arrange_views
\* lays the windows out for the camera's new place at once, without a
\* transaction, and configures the status bars it plans a size for.
ViewportFrame ==
    /\ Camera /\ wm = "Idle"
    /\ \E plan \in [StatusBars -> Ask] :
         /\ \A w \in StatusBars :
               plan[w] \in IF win[w].st \in Managed THEN Asks(win[w]) ELSE {"none"}
         /\ win' = [w \in Windows |->
                      IF w \in StatusBars /\ plan[w] # "none" THEN Finished(win[w], plan[w])
                      ELSE win[w]]
    /\ rendering' = FALSE /\ armed' = (armed /\ windowing)
    /\ UNCHANGED <<wm, count, timer, windowing, grab, sizing, opFrame, waiting, failed>>

-----------------------------------------------------------------------------
ClientRequest(w) ==
    \/ NewToplevel(w) \/ InitialCommit(w) \/ NegotiateDecoration(w)
    \/ AckConfigure(w) \/ Commit(w)
    \/ Map(w) \/ Unmap(w) \/ Destroy(w)

UserInput ==
    \/ \E w \in Windows, resize \in BOOLEAN : OpStart(w, resize)
    \/ OpMotion \/ OpEnd

Next ==
    /\ failed = "none"
    /\ \/ IdleCallback \/ Timeout \/ LayoutChanged
       \/ \E w \in Windows : ClientRequest(w)
       \/ UserInput \/ OpFrame \/ ViewportFrame

Spec == Init /\ [][Next]_vars

\* The event loop runs an idle callback once it has no event to dispatch, and
\* a timer once it has expired.  Nothing is assumed of clients or the user.
Fairness ==
    /\ WF_vars(failed = "none" /\ IdleCallback)
    /\ WF_vars(failed = "none" /\ Timeout)

FairSpec == Spec /\ Fairness

-----------------------------------------------------------------------------
(* Properties *)

\* The variables have the values the code's types give them.
TypeOK ==
    /\ wm \in {"Idle", "Inflight"} /\ count \in 0..Cardinality(Windows) /\ timer \in BOOLEAN
    /\ windowing \in BOOLEAN /\ rendering \in BOOLEAN /\ armed \in BOOLEAN
    /\ win \in [Windows -> Window]
    /\ grab \in Windows \cup {None} /\ sizing \in BOOLEAN /\ opFrame \in BOOLEAN
    /\ waiting \subseteq Windows

\* A transaction that waits for clients counts at least one and has the timer
\* running, so no client can hold the screen; between transactions nothing is
\* counted and no timer is left to end a later one early.
InflightIsTimed ==
    /\ wm = "Inflight" => count > 0 /\ timer
    /\ wm = "Idle" => count = 0 /\ ~timer

\* Work once asked for is never lost: while a pass is wanted the idle callback
\* is armed, or the transaction in flight will arm it when it ends.
NoLostWork == windowing \/ rendering => armed \/ wm = "Inflight"

\* manage_finish may take every window of the render list for managed, and a
\* mapped window outside the list has a manage pass coming that links it.
RenderListFollowsWindows ==
    \A w \in Windows :
       /\ win[w].listed => win[w].st \in Managed /\ win[w].alive
       /\ win[w].st = "Mapped" => win[w].listed \/ windowing

\* The windows that a camera frame configures, outside any transaction.
ConfiguredAside == IF Camera THEN StatusBars ELSE {}

\* A configure that a client of the render list has still to answer belongs to
\* a transaction in flight, or to one that a pending manage pass will start:
\* its answer is never left without a render pass that adopts it.  Not said of
\* a status bar that camera frames configure outside transactions.
AnswersAreExpected ==
    \A w \in Windows \ ConfiguredAside :
       win[w].listed /\ win[w].cfg \in {"Inflight", "Acked"} => wm = "Inflight" \/ windowing

\* A frozen window has a render pass coming that thaws it; with the same exception.
FrozenWillThaw ==
    \A w \in Windows \ ConfiguredAside : win[w].saved => wm = "Inflight" \/ windowing

\* Nothing is left without a pass that takes care of it: no wish, no answer of a
\* client, no frozen picture.
NothingIsLeft == NoLostWork /\ AnswersAreExpected /\ FrozenWillThaw

\* A frozen status bar has a pass coming that thaws it.  A camera frame that
\* configures one whose transaction had timed out leaves it frozen with none.
FrozenBarWillThaw ==
    \A w \in StatusBars : win[w].saved => wm = "Inflight" \/ windowing \/ rendering

\* A transaction that ends before its timer ends with the answer of the last
\* client it counted: nobody else's commit draws a layout one of them has not
\* answered yet.
EndsWithLastAnswer ==
    [][wm = "Inflight" /\ wm' = "Idle" /\ ~Timeout =>
          waiting = {} \/ \E w \in Windows : waiting = {w} /\ win[w].cfg = "Acked"]_vars

\* A transaction waits only for clients that have something left to answer: the
\* configure it sent, or the commit after their ack.
WaitsForAnswers ==
    \A w \in waiting :
       win[w].cfg = "Acked" \/ (win[w].cfg = "Inflight" /\ win[w].answers)

\* A size a client committed after a transaction gave up on it is drawn by a
\* pass still to come.
LateSizeIsDrawn ==
    \A w \in Windows :
       win[w].late /\ win[w].st = "Mapped" => wm = "Inflight" \/ windowing \/ rendering

\* No assertion of these handlers fails.
AssertionsHold == failed = "none"

\* The window a drag holds is one that manage_finish takes.
DraggedIsManageable == failed # "dragged a window that is gone"

\* A client whose window has been through its first manage pass was sent the
\* configure it has to ack before it can map.
InitializedWasConfigured ==
    \A w \in Windows : win[w].st = "Initialized" => win[w].client # "waiting"

\* What a client is owed once its window takes part: the configure it acks
\* before it maps, a pass for a size it committed late, and no wait for an answer
\* it does not owe; and no assertion of the handlers fails on the way.
ClientsAreServed ==
    AssertionsHold /\ WaitsForAnswers /\ LateSizeIsDrawn /\ InitializedWasConfigured

\* The promise of Passes to the handlers that ask for manage passes: a wish is
\* never dropped by a transaction that was already waiting, every wish is met,
\* and every transaction ends, whatever the clients do.
Promise == INSTANCE Passes WITH phase <- wm, manage <- windowing
KeepsPasses == Promise!FairSpec

\* A window that closed with its client is freed.
ClosedAreFreed ==
    \A w \in Windows : win[w].st = "Closing" /\ ~win[w].alive ~> win[w].st = "Free"
=============================================================================

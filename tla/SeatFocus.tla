----------------------------- MODULE SeatFocus ------------------------------
(***************************************************************************)
(* Who holds a seat's keyboard (seat.rs, layer_shell.rs,                   *)
(* xwayland_override_redirect.rs, and what calls them).                    *)
(*                                                                         *)
(* Windows, layer surfaces, X11 menus and the lock compete for the focus.  *)
(* Layer surfaces ask through a scheduled focus which the manage pass      *)
(* takes up; one too large for its output, or whose output went, is queued *)
(* and closed once the dispatch is over; an X11 menu borrows the keyboard  *)
(* from a window of its own client and hands it back.                      *)
(***************************************************************************)
EXTENDS Naturals, Sequences, FiniteSets, SequencesExt, Lists

CONSTANTS
    Windows, Layers, Menus,
    Stacked,    \* floating and tiled windows, which the focus raises
    Fullscreen, \* windows that fill their output
    XWindow,    \* the menus' client's window
    Parented,   \* layer surfaces of cce-cloud with XWindow for their parent
    MaxEvents,  \* bound: what clients and the user do in a behaviour
    None

VARIABLES
    win,        \* "out", "mapped", "closing" (its close runs through a transaction)
    hidden,     \* windows minimized
    layer,      \* "out", "made", "mapped"
    asks,       \* a layer surface's keyboard interactivity
    stack,      \* mapped and unmapped layer surfaces, bottom first
    closing,    \* OVERSIZED: queued for close_oversized
    menu,       \* "out", "made", "mapped"
    focused,    \* Seat::focused
    keyboard,   \* the surface the keyboard is in
    scheduled,  \* LayerShellSeat::scheduled_focus
    sent,       \* LayerShellSeat::sent_focus
    history,    \* WindowManager::focus_history
    lock,       \* "unlocked", "locked", "shown" (a lock surface)
    dirty,      \* a manage pass is wanted
    events

focusVars == <<win, hidden, layer, asks, stack, closing, menu, focused, keyboard, scheduled, sent,
               history, lock, dirty, events>>

Nobody == [how |-> "none", key |-> None]
Exclusive(l) == [how |-> "exclusive", key |-> l]
OnDemand(l) == [how |-> "on_demand", key |-> l]
Schedules == {Nobody} \cup {Exclusive(l) : l \in Layers} \cup {OnDemand(l) : l \in Layers}

TypeOK ==
    /\ win \in [Windows -> {"out", "mapped", "closing"}] /\ hidden \subseteq Windows
    /\ layer \in [Layers -> {"out", "made", "mapped"}]
    /\ asks \in [Layers -> {"none", "on_demand", "exclusive"}]
    /\ closing \subseteq Layers /\ Range(stack) \subseteq Layers /\ Range(history) \subseteq Windows
    /\ menu \in [Menus -> {"out", "made", "mapped"}]
    /\ focused \in Windows \cup Layers \cup Menus \cup {"lock", None}
    /\ keyboard \in Windows \cup Layers \cup Menus \cup {"lock", None}
    /\ {scheduled, sent} \subseteq Schedules
    /\ lock \in {"unlocked", "locked", "shown"} /\ dirty \in BOOLEAN /\ events \in 0..MaxEvents

Init ==
    /\ win = [w \in Windows |-> "out"] /\ hidden = {}
    /\ layer = [l \in Layers |-> "out"] /\ asks = [l \in Layers |-> "none"]
    /\ stack = <<>> /\ closing = {} /\ menu = [m \in Menus |-> "out"]
    /\ focused = None /\ keyboard = None /\ scheduled = Nobody /\ sent = Nobody
    /\ history = <<>> /\ lock = "unlocked" /\ dirty = FALSE /\ events = 0

-----------------------------------------------------------------------------
(* Seat::focus.  What several steps of one handler change is a record.     *)

Now == [f |-> focused, k |-> keyboard, h |-> history, d |-> dirty]
Set(s) == focused' = s.f /\ keyboard' = s.k /\ history' = s.h /\ dirty' = s.d

\* Focus::is_live; a window that has closed is nothing to focus.
Live(x) ==
    CASE x \in Windows -> win[x] # "out"
      [] x \in Layers -> layer[x] # "out"
      [] x \in Menus -> menu[x] # "out"
      [] x = "lock" -> lock = "shown"
      [] OTHER -> TRUE

\* A window that is raised wants a manage pass, and so does any that takes the
\* focus while one fills the screen; nothing else does.
Restacks(to) == to \in Windows /\ \E w \in Fullscreen : win[w] # "out"

Focus(s, x) ==
    LET to == IF x \in Windows /\ ~Live(x) THEN None ELSE x
    IN IF ~Live(to) THEN s
       ELSE LET raised == [s EXCEPT !.d = @ \/ to \in Stacked]
            IN IF s.f = to THEN raised
               ELSE [raised EXCEPT !.f = to, !.k = to, !.d = @ \/ Restacks(to),
                                   !.h = IF to \in Windows THEN <<to>> \o Drop(@, to) ELSE @]

\* WindowManager::focus_next_visible_window: the window used last that shows,
\* else any that does.
Visible(w) == win[w] = "mapped" /\ w \notin hidden
FocusNext(s) ==
    LET used == {i \in DOMAIN s.h : Visible(s.h[i])}
        shown == {w \in Windows : Visible(w)}
    IN Focus(s, IF used # {} THEN s.h[Min(used)] ELSE IF shown # {} THEN CHOOSE w \in shown : TRUE ELSE None)

-----------------------------------------------------------------------------
(* Windows.                                                                *)

\* Window::map: whether it takes the focus is up to the session restore's rules.
MapWindow(w, should) ==
    /\ win[w] = "out"
    /\ win' = [win EXCEPT ![w] = "mapped"]
    /\ Set(IF should THEN [Now EXCEPT !.f = w, !.k = w, !.h = <<w>> \o @, !.d = TRUE]
           ELSE [Now EXCEPT !.d = TRUE])
    /\ UNCHANGED <<hidden, layer, asks, stack, closing, menu, scheduled, sent, lock>>

\* Window::unmap; the focus goes on at the next manage pass or the destroy.
UnmapWindow(w) ==
    /\ win[w] = "mapped"
    /\ win' = [win EXCEPT ![w] = "closing"] /\ dirty' = TRUE
    /\ UNCHANGED <<hidden, layer, asks, stack, closing, menu, focused, keyboard, scheduled, sent, history, lock>>

\* Window::destroy, once its close has run through.
DestroyWindow(w) ==
    /\ win[w] = "closing"
    /\ win' = [win EXCEPT ![w] = "out"] /\ hidden' = hidden \ {w}
    /\ LET s == IF focused = w THEN FocusNext(Focus(Now, None)) ELSE Now
       IN Set([s EXCEPT !.h = Drop(@, w)])
    /\ UNCHANGED <<layer, asks, stack, closing, menu, scheduled, sent, lock>>

\* The minimize action asks for a pass, which moves the focus on.
Minimize(w) ==
    /\ Visible(w) /\ hidden' = hidden \cup {w} /\ dirty' = TRUE
    /\ UNCHANGED <<win, layer, asks, stack, closing, menu, focused, keyboard, scheduled, sent, history, lock>>

\* ccectl focus-window and an xdg activation, which leaves an exclusive layer
\* surface alone.
FocusWindow(w, activation) ==
    /\ win[w] = "mapped"
    /\ activation => scheduled.how # "exclusive" /\ keyboard # w
    /\ hidden' = hidden \ {w}
    /\ Set([Focus(Now, w) EXCEPT !.d = TRUE])
    /\ UNCHANGED <<win, layer, asks, stack, closing, menu, scheduled, sent, lock>>

\* A press: on a window, a layer surface that takes clicks (takes_click_focus),
\* or the desktop.  A locked session's presses reach the lock only.
Click(x) ==
    /\ lock = "unlocked"
    /\ \/ x \in Windows /\ Visible(x)
       \/ x \in Layers /\ layer[x] = "mapped" /\ asks[x] # "none"
       \/ x = None
    /\ Set([Focus(Now, x) EXCEPT !.d = @ \/ x = None])
    /\ UNCHANGED <<win, hidden, layer, asks, stack, closing, menu, scheduled, sent, lock>>

-----------------------------------------------------------------------------
(* Layer surfaces.                                                         *)

\* LayerShell::check_exclusive_focus: the topmost mapped exclusive surface not
\* queued for closing is scheduled, or a focus nobody claims any more dropped.
Checked(s, lay, ask, stk, cls) ==
    LET claims == {i \in DOMAIN stk : lay[stk[i]] = "mapped" /\ ask[stk[i]] = "exclusive" /\ stk[i] \notin cls}
    IN CASE claims # {} -> Exclusive(stk[Max(claims)])
         [] claims = {} /\ (s.how = "exclusive" \/ (s.how = "on_demand" /\ s.key \in cls)) -> Nobody
         [] OTHER -> s

NewLayer(l, ask) ==
    /\ layer[l] = "out"
    /\ layer' = [layer EXCEPT ![l] = "made"] /\ asks' = [asks EXCEPT ![l] = ask]
    /\ stack' = Append(stack, l)
    /\ UNCHANGED <<win, hidden, closing, menu, focused, keyboard, scheduled, sent, history, lock, dirty>>

\* LayerShellOutput::arrange: surfaces too large for their output are queued.
Arranged(big) ==
    /\ big \subseteq {k \in Layers : layer[k] # "out"}
    /\ closing' = closing \cup big

\* handle_layer_surface_map.
MapLayer(l, big) ==
    /\ layer[l] = "made" /\ Arranged(big)
    /\ layer' = [layer EXCEPT ![l] = "mapped"]
    /\ LET wish == IF asks[l] = "on_demand" /\ scheduled.how # "exclusive" THEN OnDemand(l) ELSE scheduled
           to == Checked(wish, layer', asks, stack, closing')
       IN scheduled' = to /\ dirty' = (dirty \/ to # scheduled)
    /\ UNCHANGED <<win, hidden, asks, stack, menu, focused, keyboard, sent, history, lock>>

\* What an unmap does to the focus: a parented menu hands it to its parent,
\* other chrome leaves it nowhere, the rest goes on to the next window.
LeftBy(s, l) ==
    IF s.f # l THEN s
    ELSE LET none == Focus(s, None)
         IN CASE l \in Parented -> IF Visible(XWindow) THEN Focus(none, XWindow) ELSE none
              [] OTHER -> FocusNext(none)

\* handle_layer_surface_unmap, on what a handler has changed so far; a change of
\* the schedule wants a manage pass (update_scheduled_focus_and_dirty_windowing).
All == [f |-> focused, k |-> keyboard, h |-> history, d |-> dirty,
        sch |-> scheduled, lay |-> layer, stk |-> stack, cls |-> closing]
SetAll(s) ==
    /\ focused' = s.f /\ keyboard' = s.k /\ history' = s.h /\ dirty' = s.d
    /\ scheduled' = s.sch /\ layer' = s.lay /\ stack' = s.stk /\ closing' = s.cls

Unmapped(s, l) ==
    LET wish == IF s.sch = OnDemand(l) THEN Nobody ELSE s.sch
        lay == [s.lay EXCEPT ![l] = "made"]
        to == Checked(wish, lay, asks, s.stk, s.cls)
    IN [LeftBy(s, l) EXCEPT !.d = @ \/ to # s.sch, !.sch = to, !.lay = lay]

\* Mutant: a mapped surface is closed without its unmap.
DestroyedMapped(s, l) ==
    [s EXCEPT !.lay[l] = "out", !.stk = Drop(@, l)]

\* handle_layer_surface_destroy; wlroots unmaps a mapped one first.
Destroyed(s, l) ==
    LET off == IF s.lay[l] = "mapped" THEN Unmapped(s, l) ELSE s
    IN [off EXCEPT !.lay[l] = "out", !.stk = Drop(@, l)]

UnmapLayer(l) ==
    /\ layer[l] = "mapped"
    /\ SetAll(Unmapped(All, l))
    /\ UNCHANGED <<win, hidden, asks, menu, sent, lock>>

DestroyLayer(l) ==
    /\ layer[l] # "out"
    /\ SetAll([Destroyed(All, l) EXCEPT !.cls = @ \ {l}])
    /\ UNCHANGED <<win, hidden, asks, menu, sent, lock>>

\* handle_layer_surface_commit: a changed interactivity, or an arrange that
\* finds some too large.
CommitLayer(l, ask, big) ==
    /\ layer[l] # "out" /\ Arranged(big)
    /\ ask # asks[l] \/ ~(big \subseteq closing)
    /\ asks' = [asks EXCEPT ![l] = ask]
    /\ LET to == Checked(scheduled, layer, asks', stack, closing')
       IN scheduled' = to /\ dirty' = (dirty \/ to # scheduled)
    /\ UNCHANGED <<win, hidden, layer, stack, menu, focused, keyboard, sent, history, lock>>

\* output_gone: its layer surfaces are queued, with no check of the focus.
OutputGone ==
    /\ closing' = {l \in Layers : layer[l] # "out"} /\ closing' # closing
    /\ dirty' = TRUE
    /\ UNCHANGED <<win, hidden, layer, asks, stack, menu, focused, keyboard, scheduled, sent, history, lock>>

\* close_oversized, once the dispatch is over: the queue is taken whole, so
\* while one closes the others count as staying.
CloseOversized ==
    /\ closing # {}
    /\ \E order \in [1..Cardinality(closing) -> closing] :
         /\ IsInjective(order)
         /\ SetAll(FoldLeft(Destroyed, [All EXCEPT !.cls = {}], order))
    /\ UNCHANGED <<win, hidden, asks, menu, sent, lock>>

-----------------------------------------------------------------------------
(* X11 menus.                                                              *)

NewMenu(m) ==
    /\ menu[m] = "out" /\ menu' = [menu EXCEPT ![m] = "made"]
    /\ UNCHANGED <<win, hidden, layer, asks, stack, closing, focused, keyboard, scheduled, sent, history, lock, dirty>>

\* focus_if_desired: from nothing, or from its own client.
MapMenu(m) ==
    /\ menu[m] = "made" /\ menu' = [menu EXCEPT ![m] = "mapped"]
    /\ LET s == CASE lock # "unlocked" -> Now
                  [] lock = "unlocked" /\ focused = XWindow /\ win[XWindow] # "out" -> [Now EXCEPT !.k = m]
                  [] lock = "unlocked" /\ focused \in Menus \cup {None} -> [Now EXCEPT !.f = m, !.k = m]
                  [] OTHER -> Now
       IN Set(s)
    /\ UNCHANGED <<win, hidden, layer, asks, stack, closing, scheduled, sent, lock>>

\* drop_seat_focus, then the keyboard back to the window it was borrowed from.
DropFocus(m) == IF focused = m THEN Focus(Now, None) ELSE Now

UnmapMenu(m) ==
    /\ menu[m] = "mapped" /\ menu' = [menu EXCEPT ![m] = "made"]
    /\ LET s == DropFocus(m)
       IN Set([s EXCEPT !.k = IF s.f = XWindow /\ @ = m THEN XWindow ELSE @, !.d = TRUE])
    /\ UNCHANGED <<win, hidden, layer, asks, stack, closing, scheduled, sent, lock>>

\* handle_destroy; wlroots unmaps a mapped one first.
DestroyMenu(m) ==
    /\ menu[m] = "made" /\ menu' = [menu EXCEPT ![m] = "out"]
    /\ Set(DropFocus(m))
    /\ UNCHANGED <<win, hidden, layer, asks, stack, closing, scheduled, sent, lock>>

-----------------------------------------------------------------------------
(* The lock, and the manage pass.                                          *)

LockUp ==
    /\ lock = "unlocked" /\ lock' = "locked" /\ Set(Focus(Now, None))
    /\ UNCHANGED <<win, hidden, layer, asks, stack, closing, menu, scheduled, sent>>

\* update_focus, the idle after a lock surface's map.
LockSurface ==
    /\ lock = "locked" /\ lock' = "shown"
    /\ Set([Now EXCEPT !.f = "lock", !.k = "lock"])
    /\ UNCHANGED <<win, hidden, layer, asks, stack, closing, menu, scheduled, sent>>

Unlock ==
    /\ lock # "unlocked" /\ lock' = "unlocked"
    /\ Set([Focus(Now, None) EXCEPT !.d = TRUE])
    /\ UNCHANGED <<win, hidden, layer, asks, stack, closing, menu, scheduled, sent>>

\* WindowManager::manage_start: a focused window that no longer shows loses the
\* focus.
Refocused == IF focused \in Windows /\ ~Visible(focused) THEN FocusNext(Now) ELSE Now

\* LayerShellSeat::manage_start.
TakeUp == sent' = scheduled

\* The manage pass; its end (Seat::manage_finish) gives the scheduled layer
\* surface the keyboard (`Seat::focus_requested` is never set: seat.rs:893).
\* `big` are found too large by an output the pass resizes.
ManagePass(big) ==
    /\ dirty /\ Arranged(big) /\ TakeUp
    /\ LET key == scheduled.key
           going == key # None /\ key \in closing'
       IN IF lock # "unlocked" THEN Set([Refocused EXCEPT !.d = FALSE]) /\ UNCHANGED scheduled
          ELSE IF going THEN Set([Refocused EXCEPT !.d = TRUE]) /\ scheduled' = Nobody
          ELSE /\ UNCHANGED scheduled
               /\ Set([(IF key = None THEN Refocused ELSE Focus(Refocused, key)) EXCEPT !.d = FALSE])
    /\ UNCHANGED <<win, hidden, layer, asks, stack, menu, lock>>

Client ==
    \/ \E w \in Windows :
         \/ \E should \in BOOLEAN : MapWindow(w, should)
         \/ UnmapWindow(w) \/ Minimize(w)
         \/ \E a \in BOOLEAN : FocusWindow(w, a)
    \/ \E x \in Windows \cup Layers \cup {None} : Click(x)
    \/ \E l \in Layers :
         \/ \E ask \in {"none", "on_demand", "exclusive"} :
              NewLayer(l, ask) \/ \E big \in {{}, {l}} : CommitLayer(l, ask, big)
         \/ \E big \in {{}, {l}} : MapLayer(l, big)
         \/ UnmapLayer(l) \/ DestroyLayer(l)
    \/ \E m \in Menus : NewMenu(m) \/ MapMenu(m) \/ UnmapMenu(m) \/ DestroyMenu(m)
    \/ OutputGone \/ LockUp \/ LockSurface \/ Unlock

Next ==
    \/ events < MaxEvents /\ events' = events + 1 /\ Client
    \/ /\ UNCHANGED events
       /\ \/ \E w \in Windows : DestroyWindow(w)
          \/ CloseOversized
          \/ \E big \in {{}, Layers \cap Range(stack)} : ManagePass(big)

Spec == Init /\ [][Next]_focusVars
             /\ WF_focusVars(UNCHANGED events /\ ManagePass({}))

-----------------------------------------------------------------------------
\* The focus names nothing gone: a layer surface that holds it is mapped, a
\* menu registered, a window in the store (Focus::is_live).
FocusIsAlive ==
    /\ Live(focused)
    /\ focused \in Layers => layer[focused] = "mapped"
    /\ focused \in Menus => menu[focused] = "mapped"

\* The keyboard is where the focus is, or in a menu of the focused window's
\* client, which has the focus to hand back.
KeyboardFollowsFocus ==
    \/ keyboard = focused
    \/ focused = XWindow /\ keyboard \in Menus /\ menu[keyboard] = "mapped"

\* Only a surface that can take the keyboard is scheduled for it.
ScheduledIsLive == scheduled.key # None => layer[scheduled.key] = "mapped"

\* An exclusive layer surface that a pass is to give the keyboard to, as each
\* newly scheduled one is, gets it in the end, unless it goes, stops asking or
\* the session is locked.
LayerGetsKeyboard ==
    \A l \in Layers :
       (scheduled = Exclusive(l) /\ (dirty \/ sent # scheduled) /\ lock = "unlocked")
          ~> (focused = l \/ scheduled # Exclusive(l) \/ lock # "unlocked")

\* Holds not: a scheduled exclusive layer surface has the keyboard, or a pass is to
\* give it (Seat::focus, "block any window manager or other client focus requests
\* (via focus_requested) from stealing focus back to a regular window or shell
\* surface").
ExclusiveHoldsKeyboard ==
    scheduled.how = "exclusive" /\ lock = "unlocked" => focused = scheduled.key \/ dirty
=============================================================================

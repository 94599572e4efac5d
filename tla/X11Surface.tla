----------------------------- MODULE X11Surface -----------------------------
(***************************************************************************)
(* One X11 surface and the objects the compositor makes for it.  A managed *)
(* surface is an XwaylandWindow with a Window in the store; one with the   *)
(* override-redirect flag (a menu, a tooltip) is an                        *)
(* XwaylandOverrideRedirect in a registry.  The client may set and clear   *)
(* the flag at any time, mapped or not, and one object is then freed and   *)
(* the other made for the same surface.  Each hangs its listeners on the   *)
(* surface, its pointer on the wl_surface's data and its tree in the       *)
(* scene, and may hold the keyboard; whatever still names an object after  *)
(* it is freed is read as one.                                             *)
(*                                                                         *)
(* Objects are numbered as they are made.  The wl_surface is paired with   *)
(* the X one late: it may have committed a buffer before.                  *)
(***************************************************************************)
EXTENDS Integers

CONSTANTS
    Kinds,      \* what the client's window is: "app", "helper" (Window::is_shy),
                \* "menu" (wants the keyboard), "tray" (the XEmbed tray bridge's)
    Nobody, Parent, Other,  \* who else may have the focus: nobody, a window of
                \* the same client, another client
    This,       \* this surface, as keys go to it
    MaxObjects, \* bound on the objects made
    MaxEvents,  \* bound on what the client and the user do
    None

Objects == 1 .. MaxObjects

VARIABLES
    kind,
    \* X and wlroots
    alive,      \* the X surface exists
    override,   \* its override-redirect flag
    paired,     \* a wl_surface is associated with it
    buffer,     \* the wl_surface has committed a buffer
    mapped,     \* the wl_surface is mapped
    \* the compositor's object
    owner,      \* the object the surface has now, or None
    managed,    \* it is an XwaylandWindow
    made,       \* objects made
    listens,    \* object on the surface's own signals, or None
    mapHeard,   \* object on the wl_surface's map and unmap signals, or None
    shownHeard, \* object on its commit signal, or None
    data,       \* object the wl_surface's data names, or None
    tree,       \* object whose surface tree is in the scene, or None
    registered, \* override_redirects
    \* the window manager
    win,        \* state of each object's Window: "none", "Init", "Mapped", "Closing"
    linked,     \* windows in the render list
    dirty,      \* a pass is due
    \* the seat
    focus,      \* Nobody, Parent, Other or an object
    keyboard,   \* whose surface keys go to: Nobody, Parent, Other or This, this one
    events

xvars  == <<kind, alive, override, paired, buffer, mapped>>
obj    == <<owner, managed, made, listens>>
hooks  == <<mapHeard, shownHeard, data, tree>>
wm     == <<win, linked, dirty>>
seat   == <<focus, keyboard>>
vars   == <<xvars, obj, hooks, registered, wm, seat, events>>

TypeOK ==
    /\ kind \in Kinds
    /\ {alive, override, paired, buffer, mapped, managed, dirty} \subseteq BOOLEAN
    /\ {owner, listens, mapHeard, shownHeard, data, tree} \subseteq Objects \cup {None}
    /\ registered \subseteq Objects /\ linked \subseteq Objects
    /\ win \in [Objects -> {"none", "Init", "Mapped", "Closing"}]
    /\ made \in 0 .. MaxObjects /\ events \in 0 .. MaxEvents

Init ==
    /\ kind \in Kinds
    /\ alive = FALSE /\ override = FALSE /\ paired = FALSE /\ buffer = FALSE /\ mapped = FALSE
    /\ owner = None /\ managed = FALSE /\ made = 0 /\ listens = None
    /\ mapHeard = None /\ shownHeard = None /\ data = None /\ tree = None
    /\ registered = {}
    /\ win = [o \in Objects |-> "none"] /\ linked = {} /\ dirty = FALSE
    /\ focus \in {Nobody, Parent, Other} /\ keyboard = focus
    /\ events = 0

Happens == events < MaxEvents /\ events' = events + 1

-----------------------------------------------------------------------------
\* What a handler does to the surface's hooks and the seat is written as a
\* record of their next values, so that one handler can go through several
\* steps: h is [mapHeard, shownHeard, data, tree, registered, win, linked,
\* focus, keyboard].

Now == [mapHeard |-> mapHeard, shownHeard |-> shownHeard, data |-> data, tree |-> tree,
        registered |-> registered, win |-> win, linked |-> linked,
        focus |-> focus, keyboard |-> keyboard]

Becomes(h) ==
    /\ mapHeard' = h.mapHeard /\ shownHeard' = h.shownHeard /\ data' = h.data /\ tree' = h.tree
    /\ registered' = h.registered /\ win' = h.win /\ linked' = h.linked
    /\ focus' = h.focus /\ keyboard' = h.keyboard

\* handle_associate_impl, of either object.
Associate(h, o) == [h EXCEPT !.mapHeard = o]

Dissociate(h) == [h EXCEPT !.mapHeard = None]

Mapped(o, h, takesFocus) ==
    [h EXCEPT !.data = o, !.tree = o, !.shownHeard = o, !.win[o] = "Mapped",
              !.focus = IF takesFocus THEN o ELSE @,
              !.keyboard = IF takesFocus THEN This ELSE @]

\* XwaylandWindow's handle_map_impl and Window::map.  A new window takes the
\* keyboard unless the session is still settling or its client lost a window
\* just before; a helper never does.
WindowMaps(h, o) ==
    {Mapped(o, h, takes) : takes \in IF kind = "helper" THEN {FALSE} ELSE BOOLEAN}

\* handle_unmap_impl and Window::unmap: the window closes and leaves the render
\* list; the seat keeps it until a pass.
WindowUnmaps(h, o) ==
    [h EXCEPT !.data = None, !.tree = None, !.shownHeard = None,
              !.win[o] = IF @ = "Mapped" THEN "Closing" ELSE @,
              !.linked = IF h.win[o] = "Mapped" THEN @ \ {o} ELSE @]

\* focus_if_desired: a menu takes the keyboard from nobody, or borrows it from a
\* window of its own client, which keeps the focus.
Desires(h, o) ==
    IF kind # "menu" THEN h
    ELSE CASE h.focus = Nobody -> [h EXCEPT !.focus = o, !.keyboard = This]
           [] h.focus = Parent -> [h EXCEPT !.keyboard = This]
           [] OTHER -> h

\* XwaylandOverrideRedirect's handle_map_impl.  The tray's is never shown.
MenuMaps(h, o) ==
    IF kind = "tray" THEN h
    ELSE Desires([h EXCEPT !.data = o, !.tree = o, !.shownHeard = o], o)

\* Mutant: the seat keeps what is freed.
KeepSeatFocus(h, o) == h

\* drop_seat_focus
DropSeatFocus(h, o) ==
    IF h.focus = o THEN [h EXCEPT !.focus = Nobody, !.keyboard = Nobody] ELSE h

\* Its handle_unmap: a borrowed keyboard goes back.
MenuUnmaps(h, o) ==
    LET g == DropSeatFocus([h EXCEPT !.shownHeard = None, !.data = None, !.tree = None], o)
    IN  IF g.focus = Parent /\ g.keyboard = This THEN [g EXCEPT !.keyboard = Parent] ELSE g

\* Mutant: a buffer from before the pairing is waited for.
MapLater(h, o) == FALSE

\* map_if_buffered: the commit that would have mapped the surface is past.
MapNow(h, o) == buffer

Register(h, o) == [h EXCEPT !.registered = @ \cup {o}]

\* Mutant: the list keeps what is freed.
UnregisterNever(h, o) == h

Unregister(h, o) == [h EXCEPT !.registered = @ \ {o}]

Maps(h, o, window) == IF window THEN WindowMaps(h, o) ELSE {MenuMaps(h, o)}

\* XwaylandWindow::create and XwaylandOverrideRedirect::create, for a surface
\* that may be paired and mapped by now.
Create(h, window, isPaired) ==
    LET o == made + 1
        g == IF window THEN [h EXCEPT !.win[o] = "Init"] ELSE Register(h, o)
        a == IF isPaired THEN Associate(g, o) ELSE g
    IN  /\ owner' = o /\ managed' = window /\ made' = o /\ listens' = o
        /\ mapped' = (mapped \/ (isPaired /\ MapNow(h, o)))
        /\ \E n \in IF mapped' THEN Maps(a, o, window) ELSE {a} : Becomes(n)

-----------------------------------------------------------------------------

\* handle_new_xwayland_surface
NewSurface ==
    /\ Happens /\ ~alive /\ made < MaxObjects
    /\ alive' = TRUE
    /\ override' \in BOOLEAN
    /\ Create(Now, ~override', FALSE)
    /\ dirty' = (dirty \/ ~override')
    /\ UNCHANGED <<kind, paired, buffer>>

\* The wl_surface commits a buffer.  One that is paired is mapped by it.
CommitBuffer ==
    /\ Happens /\ alive /\ ~buffer
    /\ buffer' = TRUE
    /\ mapped' = paired
    /\ IF paired /\ mapHeard # None
         THEN \E n \in Maps(Now, owner, managed) : Becomes(n)
         ELSE Becomes(Now)
    /\ dirty' = (dirty \/ (mapped' /\ managed))
    /\ UNCHANGED <<kind, alive, override, paired, obj>>

\* handle_associate: X and Wayland agree on the pair.
Pair ==
    /\ Happens /\ alive /\ ~paired
    /\ paired' = TRUE
    /\ mapped' = MapNow(Now, owner)
    /\ LET a == Associate(Now, owner)
       IN  \E n \in IF mapped' THEN Maps(a, owner, managed) ELSE {a} : Becomes(n)
    /\ dirty' = (dirty \/ (mapped' /\ managed))
    /\ UNCHANGED <<kind, alive, override, buffer, obj>>

\* wlroots breaks the pair: it unmaps the surface, then tells of the parting.
\* Only the object that hears of them acts.
Unmapped(h) ==
    IF mapped /\ h.mapHeard # None
      THEN IF managed THEN WindowUnmaps(h, h.mapHeard) ELSE MenuUnmaps(h, h.mapHeard)
      ELSE h

Parted == Dissociate(Unmapped(Now))

Unpair ==
    /\ Happens /\ paired
    /\ Becomes(Parted)
    /\ paired' = FALSE /\ buffer' = FALSE /\ mapped' = FALSE
    /\ dirty' = (dirty \/ mapped)
    /\ UNCHANGED <<kind, alive, override, obj>>

\* handle_destroy_impl of a window: its Window is left to the passes.
Destroyed == owner' = None /\ listens' = None

\* handle_destroy of either object, after the parting.
DestroySurface ==
    /\ Happens /\ alive
    /\ Becomes(IF managed THEN Parted ELSE DropSeatFocus(Unregister(Parted, owner), owner))
    /\ alive' = FALSE /\ paired' = FALSE /\ buffer' = FALSE /\ mapped' = FALSE
    /\ Destroyed
    /\ dirty' = TRUE
    /\ UNCHANGED <<kind, override, managed, made>>

\* Mutant: the window is torn down as it stands.
TornDownMapped(h) == Dissociate(h)

\* handle_set_override_redirect of a window: torn down as by an unmap, a parting
\* and a destroy.
TornDown(h) == Dissociate(IF mapped THEN WindowUnmaps(h, owner) ELSE h)

\* The same of a menu, which does not give a borrowed keyboard back.
MenuTornDown(h) ==
    LET g == IF mapped THEN [h EXCEPT !.shownHeard = None, !.data = None, !.tree = None] ELSE h
    IN  DropSeatFocus(Unregister(Dissociate(g), owner), owner)

Flip ==
    /\ Happens /\ alive /\ made < MaxObjects
    /\ override' = ~override
    /\ Create(IF managed THEN TornDown(Now) ELSE MenuTornDown(Now), ~managed, paired)
    /\ dirty' = TRUE
    /\ UNCHANGED <<kind, alive, paired, buffer>>

\* A pass.  manage_start takes a closed window back to Init and puts a mapped
\* one in the render list; arrange_views moves the focus off a window that is
\* not mapped; at the end one whose X11 half is gone is destroyed.
Ended == {o \in Objects : win[o] \in {"Init", "Closing"} /\ o # owner}

FocusGone == focus \in {o \in Objects : win[o] \in {"Init", "Closing"}}

Pass ==
    /\ dirty
    /\ dirty' = FALSE
    /\ win' = [o \in Objects |-> IF o \in Ended THEN "none"
                                 ELSE IF win[o] = "Closing" THEN "Init" ELSE win[o]]
    /\ linked' = {o \in Objects : win'[o] = "Mapped"}
    /\ IF FocusGone
         THEN \E f \in {Nobody, Parent, Other} : focus' = f /\ keyboard' = f
         ELSE UNCHANGED seat
    /\ UNCHANGED <<xvars, obj, hooks, registered, events>>

\* The user turns to another window.
FocusElsewhere ==
    /\ Happens
    /\ \E f \in {Nobody, Parent, Other} \ {focus} : focus' = f /\ keyboard' = f
    /\ UNCHANGED <<xvars, obj, hooks, registered, wm>>

Next == NewSurface \/ CommitBuffer \/ Pair \/ Unpair \/ DestroySurface \/ Flip \/ Pass \/ FocusElsewhere

Spec == Init /\ [][Next]_vars /\ WF_vars(Pass)

-----------------------------------------------------------------------------

\* No listener, list, surface data, scene tree or seat names an object that was
\* freed, and the surface's object hears of all that happens to it.
NothingFreedIsNamed ==
    /\ {mapHeard, shownHeard, data, tree} \subseteq {owner, None}
    /\ listens = owner
    /\ registered = IF managed THEN {} ELSE {owner} \ {None}
    /\ (focus \in Objects => focus = owner \/ win[focus] # "none")
    /\ (mapHeard = owner <=> (paired \/ owner = None))

\* A surface with a buffer is mapped, and what is mapped is shown and stays
\* reachable, whichever object it has and however it came by it.
MappedIsShown ==
    /\ mapped = (paired /\ buffer)
    /\ IF mapped /\ (managed \/ kind # "tray")
         THEN tree = owner /\ data = owner /\ shownHeard = owner
         ELSE tree = None /\ data = None /\ shownHeard = None
    /\ (managed /\ owner # None => (mapped <=> win[owner] = "Mapped"))
    /\ (~dirty => linked = {o \in Objects : win[o] = "Mapped"})
    /\ (~dirty /\ focus \in Objects => mapped)

\* A window whose X11 half is gone is closing (Window::destroy takes any other
\* for unreachable).
OrphansClose == \A o \in Objects \ {owner} : win[o] # "Mapped"

\* The keyboard is where the focus is; a menu only borrows it.  (It is not: a
\* menu that is made a managed window while it borrows it keeps it, unless the
\* new window takes the focus.)
KeyboardIsLent ==
    /\ (keyboard = This => focus \in Objects \/ (mapped /\ ~managed /\ focus = Parent))
    /\ (focus \in {Nobody, Other} => keyboard = focus)

SurfaceIsSound == TypeOK /\ NothingFreedIsNamed /\ MappedIsShown /\ OrphansClose

\* Every window without its X11 half leaves the store.
NoOrphans == \A o \in Objects \ {owner} : win[o] = "none"
OrphansAreFreed == []<>NoOrphans
=============================================================================

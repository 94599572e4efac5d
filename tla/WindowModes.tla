----------------------------- MODULE WindowModes -----------------------------
(***************************************************************************)
(* A window's tiling mode: floating, tiled on the desk's cells, or         *)
(* fullscreen (window.rs manage_finish, window_manager.rs arrange_windows, *)
(* place_fullscreen_windows and SetWindowMode).  A mode is only a field    *)
(* until the arrange pass and then manage_finish act on it, so requests,   *)
(* camera steps (which arrange without a manage pass) and the loss of the  *)
(* output fall between the two.  One window, one axis, zoom 1; an output   *)
(* at the origin, so a fullscreen window pinned to it is at the pan.       *)
(***************************************************************************)
EXTENDS Integers

CONSTANTS
    Home,             \* the window's first place [at, size]
    Spots,            \* where a drag may put it
    Pans,             \* where the camera may be
    Screen,           \* the size of the output
    MaxEvents,        \* bound: requests and events in a behaviour
    None

VARIABLES
    win,              \* the window: see Fresh
    pan, target,      \* desk_pan, target_desk_pan or None
    overview, yields, \* the mode is Overview; another window is focused since
    up,               \* an output is enabled
    dirty,            \* a manage pass is wanted
    filling,          \* the configure to the output's size is unanswered
    place,            \* history: the floating geometry the user gave it
    spot,             \* history: the spot it is to reopen at, or None
    spoiled,          \* history: see Spoils; or saved while fullscreen
    events

modeVars == <<win, pan, target, overview, yields, up, dirty, filling, place, spot, spoiled, events>>
scene == <<pan, target, overview, yields, up>>

\* mode, locked: tiling_mode, mode_locked; pre: pre_fullscreen; box: virtual_x
\* and box_geom; tiled, flo: was_tiled, saved_floating; was, home:
\* was_fullscreen, saved_virtual and saved_width; back, last:
\* restore_fullscreen_at, last_fullscreen_at; desk: fs_on_desk.
Zeros == [at |-> 0, size |-> 0]
Fresh(m, l, b, r) ==
    [mode |-> m, locked |-> l, pre |-> None, box |-> b, tiled |-> FALSE, flo |-> Zeros,
     was |-> FALSE, home |-> Zeros, back |-> r, last |-> None, desk |-> FALSE]

Init ==
    /\ win = Fresh("floating", FALSE, Home, None)
    /\ pan \in Pans /\ target = None /\ overview = FALSE /\ yields = FALSE /\ up = TRUE
    /\ dirty = TRUE /\ filling = FALSE
    /\ place = Home /\ spot = None /\ spoiled = FALSE /\ events = 0

Event == events < MaxEvents /\ events' = events + 1
Full(w) == w.mode = "fullscreen"
\* policy::snap: the cells nearest to a box.
Cells(b) == [at |-> ((b.at + 1) \div 2) * 2, size |-> ((b.size + 1) \div 2) * 2]

\* get_mode_for_window: the window's own mode if it is locked, else the rules'.
Resolved(w) == IF w.locked THEN w.mode ELSE "floating"

\* arrange_windows with the policy's plan: a window that becomes tiled keeps its
\* box as its floating geometry, one that stops being so gets that back.
Arrange(w) ==
    LET m == Resolved(w)
        a == [w EXCEPT !.mode = m, !.tiled = (m = "tiled")]
    IN CASE m = "tiled" /\ ~w.tiled -> [a EXCEPT !.flo = w.box, !.box = Cells(w.box)]
         [] m = "tiled" /\ w.tiled  -> [a EXCEPT !.box = Cells(w.box)]
         [] m = "floating" /\ w.tiled -> [a EXCEPT !.box = w.flo]
         [] OTHER -> a

\* place_fullscreen_windows, for the camera at p going to t.
Place(w, p, t) ==
    IF ~(Full(w) /\ w.was) THEN [w EXCEPT !.desk = FALSE]
    ELSE IF t = w.box.at \/ overview \/ yields THEN [w EXCEPT !.desk = TRUE]
    ELSE [w EXCEPT !.desk = FALSE, !.box.at = p]

Enters(w) == Full(w) /\ up /\ ~w.was
Leaves(w) == ~(Full(w) /\ up) /\ w.was
\* Mutant: the spot is written first and becomes the home.
SpotFirst(w) == [at |-> pan, size |-> w.box.size]
\* Where the window lives, as entering fullscreen saves it.
HomeOf(w) == w.box
\* The desk spot a fullscreen window enters at.
EntersAt(w) == IF w.back # None THEN w.back ELSE pan

\* manage_finish
Finish(w) ==
    IF Enters(w)
    THEN [w EXCEPT !.home = HomeOf(w), !.was = TRUE, !.back = None, !.box.at = EntersAt(w)]
    ELSE IF Leaves(w) THEN [w EXCEPT !.last = w.box.at, !.box = w.home, !.was = FALSE]
    ELSE w
\* Mutant: a restored spot is entered at, but not gone to.
EntersOffScreen(w) == target
\* pan_to_restored_fullscreen_spot
Target(w) ==
    IF Enters(w) /\ w.back # None /\ ~overview /\ ~yields /\ pan # w.back THEN w.back ELSE target

\* A manage pass, once the one before it is answered: without an output
\* arrange returns early.
Pass ==
    /\ dirty /\ ~filling
    /\ LET w == IF up THEN Place(Arrange(win), pan, target) ELSE win
       IN /\ win' = Finish(w) /\ target' = Target(w)
          /\ filling' = Enters(w) /\ dirty' = Leaves(w)
    /\ UNCHANGED <<pan, overview, yields, up, place, spot, spoiled, events>>

\* The client commits the output's size.
Answer ==
    /\ filling /\ filling' = FALSE
    /\ win' = [win EXCEPT !.box.size = Screen]
    /\ UNCHANGED <<scene, dirty, place, spot, spoiled, events>>

(* The camera: each step relays out with no manage pass, unless a transaction
   is under way, which then has another follow it. *)

Relays(p, t) ==
    /\ win' = IF up /\ ~filling THEN Place(Arrange(win), p, t) ELSE win
    /\ dirty' = (dirty \/ filling)

Ease ==
    /\ target # None
    /\ pan' = IF pan < target THEN pan + 1 ELSE IF pan > target THEN pan - 1 ELSE pan
    /\ target' = IF pan' = target THEN None ELSE target
    /\ Relays(pan', target')
    /\ UNCHANGED <<overview, yields, up, filling, place, spot, spoiled, events>>

UserPan(p) ==
    /\ Event /\ p # pan /\ pan' = p /\ target' = None
    /\ Relays(p, None) /\ spot' = None
    /\ UNCHANGED <<overview, yields, up, filling, place, spoiled>>

\* Another window is focused; this one is again and the camera goes back to it
\* (focus_follow_pan).
Refocus ==
    /\ Event /\ yields' = ~yields /\ dirty' = TRUE /\ spot' = None
    /\ target' = IF yields /\ Full(win) /\ win.was /\ ~overview /\ pan # win.box.at
                 THEN win.box.at ELSE IF yields THEN target ELSE None
    /\ UNCHANGED <<win, pan, overview, up, filling, place, spoiled>>

Overview ==
    /\ Event /\ overview' = ~overview /\ target' = None /\ spot' = None
    /\ dirty' = (dirty \/ Full(win))
    /\ UNCHANGED <<win, pan, yields, up, filling, place, spoiled>>

OutputChanges ==
    /\ Event /\ up' = ~up /\ dirty' = TRUE /\ spot' = None
    /\ UNCHANGED <<win, pan, target, overview, yields, filling, place, spoiled>>

(* Requests. *)

Request(w) ==
    /\ win' = w /\ dirty' = TRUE
    /\ spot' = IF Full(w) THEN spot ELSE None
    /\ UNCHANGED <<scene, filling, place>>

\* Mutant: a window back on its cells is tiled afresh.
TilesAfresh(w, m) == FALSE
\* Coming back Tiled from Fullscreen is a return.
Returns(w, m) == Full(w) /\ m = "tiled" /\ w.pre # None /\ w.pre.mode = "tiled"

\* Command::SetWindowMode, of a key or of set-mode.
WithMode(w, m, l) ==
    [w EXCEPT !.mode = m, !.locked = l, !.tiled = (@ \/ Returns(w, m)),
              !.pre = IF m # "fullscreen" THEN None
                      ELSE IF Full(w) THEN @ ELSE [mode |-> w.mode, locked |-> w.locked]]

\* Requests after which the arrange pass takes the fullscreen box for the
\* floating geometry: tiled out of fullscreen, but not as a return; or made
\* fullscreen before the pass that was to tile it.
Spoils(m) == \/ m = "tiled" /\ (Full(win) \/ win.was) /\ ~Returns(win, m)
             \/ m = "fullscreen" /\ win.mode = "tiled" /\ ~win.tiled

SetMode(m) ==
    /\ Event /\ Request(WithMode(win, m, TRUE))
    /\ spoiled' = (spoiled \/ Spoils(m))

\* apply_client_fullscreen and the key: the policy's toggle, whose exit puts back
\* what Fullscreen replaced.
ToggleFullscreen ==
    /\ Event
    /\ Request(IF ~Full(win) THEN WithMode(win, "fullscreen", TRUE)
               ELSE IF win.pre # None THEN WithMode(win, win.pre.mode, win.pre.locked)
               ELSE WithMode(win, "floating", FALSE))
    /\ spoiled' = (spoiled \/ (~Full(win) /\ Spoils("fullscreen")))

\* A client's own maximize writes the mode directly: xdg and X11, and
\* zcce_toplevel_v1.set_maximized.
Maximize ==
    /\ Event /\ Request([win EXCEPT !.mode = "tiled", !.locked = TRUE])
    /\ spoiled' = (spoiled \/ Full(win) \/ win.was)
\* Its unmaximize, and set_floating.
Unmaximize == Event /\ Request([win EXCEPT !.mode = "floating", !.locked = TRUE]) /\ UNCHANGED spoiled
\* unset_maximized, unset_floating and unset_popup of zcce_toplevel_v1.
Unlock == Event /\ Request([win EXCEPT !.locked = FALSE]) /\ UNCHANGED spoiled

\* A move of the user's, from its grab to where it lands: it stays untiled as
\* it goes and is tiled if it lands on the cells (settle_tiling).
Drag(p) ==
    /\ Event /\ ~Full(win) /\ ~win.was /\ Resolved(win) # "fullscreen"
    /\ LET b == [at |-> p, size |-> win.box.size]
           on == Cells(b) = b
       IN /\ win' = [win EXCEPT !.box = b, !.tiled = FALSE,
                                !.mode = IF on THEN "tiled" ELSE "floating",
                                !.locked = (@ \/ on \/ win.mode = "tiled")]
          /\ place' = b
    /\ dirty' = TRUE /\ spot' = None
    /\ UNCHANGED <<scene, filling, spoiled>>

\* saved_spot and the size beside it: where the window lives, and where it was
\* fullscreen.
SavedAt(w) == IF w.was THEN w.home.at ELSE w.box.at
SavedFull(w) == IF w.was THEN w.box.at ELSE IF w.last # None THEN w.last ELSE w.back

\* The window is closed and opened again, restored from its saved entry
\* (try_restore): tiled if it lies on the cells, and latched unless floating.
Relaunch ==
    /\ Event /\ ~filling
    /\ LET b == [at |-> SavedAt(win), size |-> win.box.size]
           m == IF win.mode = "floating" /\ Cells(b) = b THEN "tiled" ELSE win.mode
       IN /\ win' = Fresh(m, m # "floating", b, SavedFull(win))
          /\ place' = b
    /\ spot' = IF Full(win) /\ win.was /\ up /\ ~overview /\ target = None THEN win.box.at ELSE None
    /\ spoiled' = (spoiled \/ win.was \/ Full(win))
    /\ yields' = FALSE /\ dirty' = TRUE
    /\ UNCHANGED <<pan, target, overview, up, filling>>

Next ==
    \/ Pass \/ Answer \/ Ease \/ Refocus \/ Overview \/ OutputChanges
    \/ \E p \in Pans : UserPan(p)
    \/ \E m \in {"floating", "tiled", "fullscreen"} : SetMode(m)
    \/ ToggleFullscreen \/ Maximize \/ Unmaximize \/ Unlock
    \/ \E p \in Spots : Drag(p)
    \/ Relaunch

Spec == Init /\ [][Next]_modeVars /\ WF_modeVars(Pass) /\ WF_modeVars(Answer) /\ WF_modeVars(Ease)

TypeOK ==
    /\ win.mode \in {"floating", "tiled", "fullscreen"}
    /\ {win.locked, win.tiled, win.was, win.desk} \subseteq BOOLEAN
    /\ pan \in Int /\ (target # None => target \in Int)
    /\ {overview, yields, up, dirty, filling, spoiled} \subseteq BOOLEAN /\ events \in 0 .. MaxEvents

Rest == ~dirty /\ ~filling /\ target = None
Lives(b) == b \in {place, Cells(place)}

\* Leaving fullscreen the window is back where it lives, with its own size, and
\* what is saved of it never takes the screen for its home: through any order
\* of requests, camera steps and passes, and the loss of the output.
HomeIsKept ==
    spoiled \/ /\ SavedAt(win) \in {place.at, Cells(place).at}
               /\ win.was => Lives(win.home)
               /\ win.tiled => Lives(win.flo)
               /\ Rest /\ ~win.was => Lives(win.box)

\* On top and at rest, a fullscreen window's desk spot is what the camera shows.
PinnedCovers ==
    Rest /\ up /\ Full(win) /\ win.was /\ ~overview /\ ~yields => win.box.at = pan /\ ~win.desk

\* A window closed while fullscreen comes back fullscreen at the spot it covered,
\* unless the user went elsewhere meanwhile.
ReopensWhereItWas == Rest /\ spot # None /\ Full(win) => win.box.at = spot /\ pan = spot

\* Every request is acted on and every ease of the camera ends.
ModesSettle == []<>Rest
=============================================================================

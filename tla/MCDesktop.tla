----------------------------- MODULE MCDesktop ------------------------------
(* Instances for TLC of the desk: the camera, the grid's patches, X11        *)
(* windows, the night light, the drag-selection, the window modes and what   *)
(* new windows get back.                                                     *)
EXTENDS TLC, Integers, Sequences, FiniteSets

VARIABLES part,
  cam, cMode, ramp, toP, toZ, anchored, coast, anim, watchdog, pendP, pendZ, frame, laid,
  cActive, frozen, settle, freezeZ, bakedZ, cPass, windowing, waiter, answer, cEvents,
  gAt, z, to, gActive, gMapped, bound, pending, acked, current, serial, stale, flight,
  hold, cells, style, gDirty, heard, render, gBuffer, sends, gEvents,
  xKind, xMode, virt, box, planned, rendered, cfgSent, mirror, sentGeom, real, queue, has,
  waiting, output, grace, dirtyW, dirtyR, xPass, legit, crossed, xEvents,
  rounds, floor, open, size, asked, sent, hint, refusal, resizing, stored, floors, fights,
  mixed, mEvents,
  sKind, alive, override, paired, sBuffer, sMapped, owner, managed, made, listens,
  mapHeard, shownHeard, data, tree, registered, sWin, linked, sDirty, focus, keyboard,
  sEvents,
  now, jumped, motion, config, nMode, shown, nTarget, fade, lut, wait, fresh, owned,
  client, refused, held, change, damage, tearing, soft, hw, missed, nEvents,
  selOverview, status, selAt, tiled, desk, selW, selI, anchor, band, op, groupW, groupI,
  px, selPan, toGrid, toComp, grid, saved, torn, selEvents,
  wWin, wPan, wTarget, wOverview, yields, up, wDirty, filling, place, spot, spoiled,
  wEvents,
  ruled, over, rQueue, last, plates, timer, awaited, arrived, rWin, list, rFocus, input,
  vanished, userAt, rEvents

camVars == <<cam, cMode, ramp, toP, toZ, anchored, coast, anim, watchdog, pendP, pendZ,
             frame, laid, cActive, frozen, settle, freezeZ, bakedZ, cPass, windowing,
             waiter, answer, cEvents>>
patchVars == <<gAt, z, to, gActive, gMapped, bound, pending, acked, current, serial, stale,
               flight, hold, cells, style, gDirty, heard, render, gBuffer, sends, gEvents>>
geomVars == <<xKind, xMode, virt, box, planned, rendered, cfgSent, mirror, sentGeom, real,
              queue, has, waiting, output, grace, dirtyW, dirtyR, xPass, legit, crossed,
              xEvents>>
minVars == <<rounds, floor, open, size, asked, sent, hint, refusal, resizing, stored,
             floors, fights, mixed, mEvents>>
surfVars == <<sKind, alive, override, paired, sBuffer, sMapped, owner, managed, made,
              listens, mapHeard, shownHeard, data, tree, registered, sWin, linked, sDirty,
              focus, keyboard, sEvents>>
nightVars == <<now, jumped, motion, config, nMode, shown, nTarget, fade, lut, wait, fresh,
               owned, client, refused, held, change, damage, tearing, soft, hw, missed,
               nEvents>>
selVars == <<selOverview, status, selAt, tiled, desk, selW, selI, anchor, band, op, groupW,
             groupI, px, selPan, toGrid, toComp, grid, saved, torn, selEvents>>
modeVars == <<wWin, wPan, wTarget, wOverview, yields, up, wDirty, filling, place, spot,
              spoiled, wEvents>>
backVars == <<ruled, over, rQueue, last, plates, timer, awaited, arrived, rWin, list,
              rFocus, input, vanished, userAt, rEvents>>
vars == <<part, camVars, patchVars, geomVars, minVars, surfVars, nightVars, selVars,
          modeVars, backVars>>

CONSTANTS
  DeskEnd, StillPolls, WaitPolls, CamEvents,                              \* Camera
  Anchors, ZoomOuts, View, GridCell, Cap, Coarsest, GridEvents,           \* GridPatch
  XKinds, XModes, Scale, Natural, Screen, Tile, Asks, XSpots, XSizes,
  MaxQueue, XEvents,                                                      \* X11Geometry
  Drags, Floors, Rounding, MinEvents,                                     \* X11MinSize
  SurfKinds, Nobody, Parent, Other, This, MaxObjects, SurfEvents,         \* X11Surface
  Outputs, NoLut, Blocks, Temperatures, DayLen, Dusk, End, Transition,
  Recheck, FadeSteps, Ramp, NightEvents,                                  \* NightLight
  Windows, Items, Homes, Pictures, Spots, ImagePlaces, SelEvents,         \* Selection
  Home, DragSpots, Pans, OutputSize, ModeEvents,                          \* WindowModes
  Comers, X11, Dialogs, ProgOf, TitlesOf, Alike(_, _), Files, NewPlaces, BackEvents,
  Untitled, Unknown,                                                      \* Restore
  None

Cam == INSTANCE Camera WITH Far <- DeskEnd, MaxEvents <- CamEvents,
    mode <- cMode, active <- cActive, pass <- cPass, events <- cEvents
Grid == INSTANCE GridPatch WITH Spots <- Anchors, Cell <- GridCell, MaxEvents <- GridEvents,
    at <- gAt, active <- gActive, mapped <- gMapped, dirty <- gDirty, buffer <- gBuffer,
    events <- gEvents
Geom == INSTANCE X11Geometry WITH Kinds <- XKinds, Modes <- XModes, Spots <- XSpots,
    Sizes <- XSizes, MaxEvents <- XEvents, kind <- xKind, mode <- xMode, pass <- xPass,
    events <- xEvents
Mini == INSTANCE X11MinSize WITH Cell <- Rounding, MaxEvents <- MinEvents, events <- mEvents
Surf == INSTANCE X11Surface WITH Kinds <- SurfKinds, MaxEvents <- SurfEvents,
    kind <- sKind, buffer <- sBuffer, mapped <- sMapped, win <- sWin, dirty <- sDirty,
    events <- sEvents
Night == INSTANCE NightLight WITH Start <- Dusk, Configs <- Blocks, MaxEvents <- NightEvents,
    mode <- nMode, target <- nTarget, events <- nEvents
Sel == INSTANCE Selection WITH Places <- ImagePlaces, MaxEvents <- SelEvents,
    overview <- selOverview, at <- selAt, pan <- selPan, events <- selEvents
Modes == INSTANCE WindowModes WITH Spots <- DragSpots, Screen <- OutputSize,
    MaxEvents <- ModeEvents, win <- wWin, pan <- wPan, target <- wTarget,
    overview <- wOverview, dirty <- wDirty, events <- wEvents
Back == INSTANCE Restore WITH Windows <- Comers, Places <- NewPlaces, MaxEvents <- BackEvents,
    queue <- rQueue, win <- rWin, focus <- rFocus, events <- rEvents

\* Places and zooms are numbers, and no value is none of them.
ASSUME CameraAssumption ==
    /\ {DeskEnd, WaitPolls, CamEvents} \subseteq Nat /\ StillPolls \in Nat \ {0}
    /\ None \notin Int

\* Cells have a width, and a rendered patch is something.
ASSUME GridAssumption ==
    /\ Anchors \subseteq Int /\ ZoomOuts \subseteq Nat
    /\ {View, Cap, Coarsest, GridEvents} \subseteq Nat /\ GridCell \in Nat \ {0}
    /\ None \notin [n : Nat, patch : Grid!Patch] \cup [n : Nat, patch : Grid!Patch, style : {0, 1}]

\* The day has a length and the night is of it; temperatures are numbers.
ASSUME NightAssumption ==
    /\ DayLen \in Nat \ {0} /\ {Dusk, End} \subseteq 0..DayLen - 1 /\ Transition \in Int
    /\ {Recheck, FadeSteps} \subseteq Nat \ {0} /\ NightEvents \in Nat /\ Ramp \notin Int
    /\ Blocks \subseteq [night : Int, day : Int, mode : {"auto", "on", "off"}, sched : BOOLEAN]
    /\ Temperatures \subseteq Int
    /\ None \notin [night : Int, day : Int, mode : {"auto", "on", "off"}, sched : BOOLEAN]
                  \cup [from : Int, to : Int, p : Nat]

\* Windows and images are somewhere on the desk.
ASSUME SelectionAssumption ==
    /\ Homes \in [Windows -> Int] /\ Pictures \in [Items -> Int]
    /\ Spots \cup ImagePlaces \subseteq Int /\ SelEvents \in Nat /\ None \notin Windows

\* Objects are numbers, and those without one are told apart.
ASSUME SurfaceAssumption ==
    /\ {MaxObjects, SurfEvents} \subseteq Nat
    /\ Nobody # Parent /\ Nobody # Other /\ Parent # Other /\ This \notin {Nobody, Parent, Other}
    /\ {Nobody, Parent, Other, This, None} \cap Int = {}

\* Sizes are numbers.
ASSUME MinimumAssumption ==
    /\ Drags \cup Floors \subseteq Nat /\ {Scale, Rounding} \subseteq Nat \ {0} /\ MinEvents \in Nat
    /\ None \notin Nat \X Nat

\* Geometries are pairs of numbers, and the size a window maps with is one the
\* layout has: without an output it keeps that size, to the pixel.
ASSUME GeometryAssumption ==
    /\ Scale \in Nat \ {0} /\ XEvents \in Nat /\ XSpots \cup XSizes \cup {Screen, Natural} \subseteq Int
    /\ Asks \cup {Tile} \subseteq Int \X Int /\ Natural % Scale = 0
    /\ None \notin Int \X Int

\* Boxes have a place and a size.
ASSUME ModesAssumption ==
    /\ Home \in [at : Int, size : Int] /\ DragSpots \cup Pans \cup {OutputSize} \subseteq Int
    /\ ModeEvents \in Nat /\ None \notin [mode : {"floating", "tiled"}, locked : BOOLEAN]

\* What a session file has: windows and last states, of programs that are told apart.
Progs == {Unknown} \cup {ProgOf[w] : w \in Comers}
             \cup UNION {{e.prog : e \in Back!ToSet(f.queue) \cup Back!ToSet(f.last)} : f \in Files}
Entries == [title : Back!Titles, prog : Progs, focused : BOOLEAN, rank : Nat, at : Int, runs : BOOLEAN]
Slots == [title : Back!Titles, prog : Progs, at : Int]

\* Session files are as they are written (Back!SaveState).
ASSUME RestoreAssumption ==
    /\ IsFiniteSet(Comers) /\ None \notin Comers /\ Dialogs \subseteq Comers /\ NewPlaces \subseteq Int
    /\ \A f \in Files :
          f.queue \in Seq(Entries) /\ f.last \in Seq(Slots) /\ Back!OneSlot(f.last) /\ f.over \in BOOLEAN

\* Only the part chosen at the start runs; the others are pinned.
Init ==
    /\ part \in {"camera", "grid", "x11", "minimum", "surface", "night", "select", "modes",
                "restore"}
    /\ Cam!Init /\ Grid!Init
    /\ Geom!Init /\ (part # "x11" => xKind = "plain" /\ xMode = "tiled" /\ virt = 0 /\ mirror = real)
    /\ Mini!Init /\ (part # "minimum" => rounds)
    /\ Surf!Init /\ (part # "surface" => sKind = "app" /\ focus = Nobody)
    /\ Night!Init /\ (part # "night" => now = 0 /\ motion /\ config = None)
    /\ Sel!Init /\ (part # "select" => selW = {} /\ selI = {} /\ px = 0)
    /\ Modes!Init /\ (part # "modes" => wPan = 0)
    /\ Back!Init /\ (part # "restore" => ruled = {})

Next ==
    /\ \/ /\ part = "camera" /\ Cam!Next
          /\ UNCHANGED <<patchVars, geomVars, minVars, surfVars, nightVars, selVars, modeVars,
                         backVars>>
       \/ /\ part = "grid" /\ Grid!Next
          /\ UNCHANGED <<camVars, geomVars, minVars, surfVars, nightVars, selVars, modeVars,
                         backVars>>
       \/ /\ part = "x11" /\ Geom!Next
          /\ UNCHANGED <<camVars, patchVars, minVars, surfVars, nightVars, selVars, modeVars,
                         backVars>>
       \/ /\ part = "minimum" /\ Mini!Next
          /\ UNCHANGED <<camVars, patchVars, geomVars, surfVars, nightVars, selVars, modeVars,
                         backVars>>
       \/ /\ part = "surface" /\ Surf!Next
          /\ UNCHANGED <<camVars, patchVars, geomVars, minVars, nightVars, selVars, modeVars,
                         backVars>>
       \/ /\ part = "night" /\ Night!Next
          /\ UNCHANGED <<camVars, patchVars, geomVars, minVars, surfVars, selVars, modeVars,
                         backVars>>
       \/ /\ part = "select" /\ Sel!Next
          /\ UNCHANGED <<camVars, patchVars, geomVars, minVars, surfVars, nightVars, modeVars,
                         backVars>>
       \/ /\ part = "modes" /\ Modes!Next
          /\ UNCHANGED <<camVars, patchVars, geomVars, minVars, surfVars, nightVars, selVars,
                         backVars>>
       \/ /\ part = "restore" /\ Back!Next
          /\ UNCHANGED <<camVars, patchVars, geomVars, minVars, surfVars, nightVars, selVars,
                         modeVars>>
    /\ UNCHANGED part

\* The fairness each module states for itself, of the part that runs.
Spec ==
    /\ Init /\ [][Next]_vars
    /\ WF_camVars(part = "camera" /\ Cam!Frame)
    /\ WF_camVars(part = "camera" /\ Cam!Watchdog)
    /\ WF_camVars(part = "camera" /\ Cam!Settle)
    /\ WF_camVars(part = "camera" /\ Cam!PassStarts)
    /\ WF_camVars(part = "camera" /\ Cam!PassEnds)
    /\ WF_camVars(part = "camera" /\ Cam!Poll(FALSE))
    /\ WF_patchVars(part = "grid" /\ Grid!Step(TRUE))
    /\ WF_patchVars(part = "grid" /\ Grid!Settle)
    /\ WF_patchVars(part = "grid" /\ Grid!Pass)
    /\ WF_patchVars(part = "grid" /\ Grid!Ack)
    /\ WF_patchVars(part = "grid" /\ Grid!Commit)
    /\ WF_geomVars(part = "x11" /\ (Geom!PassStart \/ Geom!PassEnd))
    /\ WF_geomVars(part = "x11" /\ (Geom!Report \/ Geom!GrantSelfPlaced \/ Geom!GrantOther))
    /\ WF_surfVars(part = "surface" /\ Surf!Pass)
    /\ WF_nightVars(part = "night" /\ Night!OnTimer)
    /\ WF_nightVars(part = "night" /\ Night!Tick)
    /\ WF_nightVars(part = "night" /\ Night!Frames)
    /\ WF_selVars(part = "select" /\ Sel!Hears)
    /\ WF_selVars(part = "select" /\ Sel!Reported)
    /\ WF_modeVars(part = "modes" /\ Modes!Pass)
    /\ WF_modeVars(part = "modes" /\ Modes!Answer)
    /\ WF_modeVars(part = "modes" /\ Modes!Ease)
    /\ WF_backVars(part = "restore" /\ Back!Sweep)

\* The camera's buffers and blur are those of where it is, a grid patch is drawn
\* only at its own anchor and never asked for again and again, an X11 window is
\* what was asked of X and the minimum of a program with a floor is one, nothing
\* freed is still named, the colour table is the clock's, a selection holds only
\* what is there, a window's home outlives every mode, and a new window gets back
\* what is its own without taking the focus or a place from another.
DesktopIsSound ==
    /\ Cam!TypeOK /\ Cam!CameraIsSound
    /\ Grid!TypeOK /\ Grid!NoOldBufferAtNewAnchor /\ Grid!NoStorm
    /\ Geom!TypeOK /\ Geom!SettledAgrees /\ Geom!SizeWasAskedFor
    /\ Mini!TypeOK /\ Mini!MinimumIsSound /\ Surf!TypeOK /\ Surf!SurfaceIsSound
    /\ Night!TypeOK /\ Night!LutIsRight /\ Night!FollowsTheClock
    /\ Sel!TypeOK /\ Sel!SelectionIsLive /\ Sel!TiledIsAligned
    /\ Modes!TypeOK /\ Modes!HomeIsKept /\ Modes!PinnedCovers /\ Modes!ReopensWhereItWas
    /\ Back!TypeOK /\ Back!RestoreIsSound

\* What no step may do: move a settled camera, take the cells from under an
\* uncovered edge, write a table over a client's, redraw for nothing, or land a
\* group anywhere but where the one it was carried with lands.
DesktopSteps ==
    /\ Cam!SettledHoldsStill /\ Grid!CellsGoWhenCovered
    /\ Night!RampStands /\ Night!NoRedrawStorm
    /\ Sel!LandsTogether /\ Sel!LandsByGrid

\* What each part comes back to, over and over: the camera to a stop, the grid to
\* a filled view, the exchange with X to one geometry, dead X11 windows out of the
\* store, the night light to its clock, the images to one place, a window to its
\* mode, the plates of what never came off the desk.
DesktopSettles ==
    []<>\/ part = "camera" /\ Cam!AtRest
        \/ part = "grid" /\ Grid!Filled
        \/ part = "x11" /\ (Geom!Settled \/ crossed)
        \/ part = "surface" /\ Surf!NoOrphans
        \/ part = "night" /\ Night!Followed
        \/ part = "select" /\ Sel!Agree
        \/ part = "modes" /\ Modes!Rest
        \/ part = "restore" /\ Back!NoPlates
        \/ part = "minimum"
-----------------------------------------------------------------------------
(* The values of the run. *)

CONSTANTS o1

OneAsk == {<<3, 5>>}
OneTile == <<1, 3>>
TwoAnchors == {0, 150}
ThreeZooms == {0, 1, 3}
ThreeXKinds == {"plain", "parented", "exempt"}
ThreeXModes == {"floating", "tiled", "fullscreen"}
TwoXSpots == {0, 1}
OneXSize == {3}
ThreeDrags == 1 .. 3
TwoFloors == {5, 8}
FourKinds == {"app", "helper", "menu", "tray"}
OneOutput == {o1}
NoOutput == {}
\* Two configured nights: by the clock, and always on.
TwoNights == {[night |-> 2, day |-> 0, mode |-> "auto", sched |-> TRUE],
              [night |-> 4, day |-> 1, mode |-> "on", sched |-> FALSE]}
OneTemperature == {4}
TwoWindows == {"w1", "w2"}
OneImage == {"i1"}
TwoHomes == ("w1" :> 0 @@ "w2" :> 3)
OnePicture == ("i1" :> 6)
ThreeSpots == {0, 3, 6}
OnePlace == {9}
HomeOfTwo == [at |-> 1, size |-> 2]
TwoDragSpots == {3, 4}
ThreePans == 0 .. 2

\* Three windows of one app id and of two programs: a session whose focused window
\* was below another, and one with an entry that is not relaunched and slots from
\* before programs counted, under a title rule.
ThreeComers == {"w1", "w2", "d1"}
OneDialog == {"d1"}
TwoPrograms == ("w1" :> "p" @@ "w2" :> "q" @@ "d1" :> "p")
ThreeTitles == ("w1" :> {"a"} @@ "w2" :> {"a*", "b"} @@ "d1" :> {})
Entry(t, p, f, r, a, runs) ==
    [title |-> t, prog |-> p, focused |-> f, rank |-> r, at |-> a, runs |-> runs]
Slot(t, p, a) == [title |-> t, prog |-> p, at |-> a]
LikeA(t, u) == {t, u} \subseteq {"a", "a*"}
TwoFiles ==
    {[queue |-> <<Entry("b", "q", FALSE, 2, 1, TRUE), Entry("a", "p", TRUE, 1, 0, TRUE)>>,
      last |-> <<>>, ruled |-> {}, over |-> FALSE],
     [queue |-> <<Entry("a", "p", FALSE, 2, 1, FALSE), Entry("a", "q", FALSE, 1, 0, TRUE)>>,
      last |-> <<Slot("b", "?", 0), Slot("a*", "q", 2)>>, ruled |-> {"b"}, over |-> TRUE]}
OneNewPlace == {2}
=============================================================================

------------------------------ MODULE Selection ------------------------------
(***************************************************************************)
(* The drag-selection of overview (selection.rs) and the group move it is  *)
(* for (cursor/button.rs:210, seat.rs op_update and op_end).  The windows  *)
(* are the compositor's.  The desktop images are the grid client's: the    *)
(* compositor keeps the list the grid last reported over the control       *)
(* socket, moves its own copy, and tells the grid by lines of the status   *)
(* socket's "selection" topic.  Reports and lines cross on the way.        *)
(* One axis of the desk, the zoom is 1; windows and images are two wide,   *)
(* like the cells of the desk's grid.                                      *)
(***************************************************************************)
EXTENDS Integers, Sequences, FiniteSets

CONSTANTS
    Windows, Items,   \* windows; images of the grid
    Spots,            \* where the pointer can be on the output
    Homes, Pictures,  \* where windows and images first are
    Places,           \* where the grid may put an image
    MaxEvents,        \* bound: events from the user and the clients
    None

VARIABLES
    overview,         \* the mode is Overview
    status,           \* a window: "up", "min" (minimized) or "gone" (destroyed)
    at, tiled,        \* virtual_x; tiling_mode is Tiled, else Floating
    desk,             \* selection.desktop_items: an image's place or None
    selW, selI,       \* selection.windows, .items
    anchor, band,     \* selection.anchor, .marquee's far end
    op,               \* seat.op: [kind, win, x, pan, from, tiled] or None
    groupW, groupI,   \* seat.group_move, .group_items: places at the grab
    px, pan,          \* the pointer; desk_pan
    toGrid, toComp,   \* lines on the way to the grid, reports on the way back
    grid, saved,      \* the grid client's images, and its sidecar
    torn,             \* history: an op left the images to be put right later
    events

selectionVars == <<overview, status, at, tiled, desk, selW, selI, anchor, band, op, groupW, groupI,
                   px, pan, toGrid, toComp, grid, saved, torn, events>>
picked == <<selW, selI, anchor, band>>
wire == <<toGrid, toComp>>
client == <<grid, saved>>

Nowhere == [i \in Items |-> None]
\* The grid runs unless its value is None.
Alive == grid # None

Init ==
    /\ overview = TRUE /\ status = [w \in Windows |-> "up"]
    /\ at = Homes /\ tiled = [w \in Windows |-> at[w] % 2 = 0]
    /\ selW \in SUBSET Windows /\ selI \in SUBSET Items /\ anchor = None /\ band = None
    /\ op = None /\ groupW = <<>> /\ groupI = <<>>
    /\ px \in Spots /\ pan = 0
    /\ grid = Pictures /\ saved = grid /\ desk = grid
    /\ toGrid = <<>> /\ toComp = <<>> /\ torn = FALSE /\ events = 0

Event == events < MaxEvents /\ events' = events + 1
Live(w) == status[w] # "gone"
\* selectable: mapped, not minimized, with a place on the desk.
Selectable(w) == status[w] = "up"
Aligned(x) == x % 2 = 0
Snap(x) == ((x + 1) \div 2) * 2
Over(x, v) == x <= v /\ v < x + 2
\* touches: the windows or images the band from a to b touches.
Touches(a, b, x) == IF a < b THEN a < x + 2 /\ x < b ELSE b < x + 2 /\ x < a
HasSelection == selW # {} \/ selI # {}

\* policy::drag: a carry that starts on a tiled window at f lands it on a cell;
\* a floating one may be pulled to the cell it is near.
Offsets(f, d, hard) == IF hard THEN {Snap(f + d) - f} ELSE {d}
Landings(f, d, hard) == IF hard THEN {Snap(f + d)} ELSE {f + d, Snap(f + d)}
\* op_virtual_delta
Delta(x, p) == (x - op.x) + (p - op.pan)

\* Mutant: the selected images outlive their list.
ForgetsWindowsOnly(w, i) == FALSE
\* selection_forget and set_desktop_items: a selected image that is no longer
\* among those reported in l is dropped.
Drops(l, i) == l[i] = None

Op(k, w, x, f, t) == [kind |-> k, win |-> w, x |-> x, pan |-> pan, from |-> f, tiled |-> t]
Send(q, to, drop) == IF Alive THEN Append(q, [to |-> to, drop |-> drop]) ELSE q
OnWire == toGrid # <<>> \/ toComp # <<>>
\* The windows and images a grab carries.
CarriedW(w) == [u \in {v \in selW \ {w} : Selectable(v)} |-> at[u]]
CarriedI == [i \in {j \in selI : desk[j] # None} |-> desk[i]]
\* selection_clear
Clear == selW' = {} /\ selI' = {} /\ band' = None /\ anchor' = anchor

Hit(v) == {w \in Windows : Selectable(w) /\ Over(at[w], v)}
HitsGrid(v) == Alive /\ \E i \in Items : grid[i] # None /\ Over(grid[i], v)

\* A press on a window's body grabs it, with the rest of the selection if it is
\* of it.
PressWindow(x) ==
    /\ overview /\ op = None /\ Event /\ px' = x
    /\ \E w \in Hit(pan + x) :
          /\ op' = Op("move", w, x, at[w], tiled[w])
          /\ IF w \in selW
             THEN /\ groupW' = CarriedW(w) /\ groupI' = CarriedI /\ UNCHANGED picked
                  /\ torn' = (torn \/ (CarriedI # <<>> /\ OnWire))
             ELSE groupW' = <<>> /\ groupI' = <<>> /\ Clear /\ UNCHANGED torn
    /\ UNCHANGED <<overview, status, at, tiled, desk, pan, wire, client>>

\* A press on a selected image grabs the selection from its side, the first
\* tiled window the one that snaps; on another it goes to the grid.
PressImage(x) ==
    /\ overview /\ op = None /\ Event /\ px' = x
    /\ Hit(pan + x) = {} /\ HitsGrid(pan + x)
    /\ IF \E i \in selI : desk[i] # None /\ Over(desk[i], pan + x)
       THEN LET anchors == {w \in DOMAIN CarriedW(None) : tiled[w]}
            IN /\ \/ \E w \in anchors : op' = Op("group", None, x, at[w], TRUE)
                  \/ anchors = {} /\ op' = Op("group", None, x, 0, FALSE)
               /\ groupW' = CarriedW(None) /\ groupI' = CarriedI /\ UNCHANGED picked
               /\ torn' = (torn \/ OnWire)
       ELSE Clear /\ UNCHANGED <<op, groupW, groupI, torn>>
    /\ UNCHANGED <<overview, status, at, tiled, desk, pan, wire, client>>

\* A press on the bare desk arms a drag-selection.
PressBare(x) ==
    /\ overview /\ op = None /\ Event /\ px' = x
    /\ Hit(pan + x) = {} /\ ~HitsGrid(pan + x)
    /\ anchor' = pan + x /\ band' = None /\ groupW' = <<>>
    /\ op' = Op("select", None, x, 0, FALSE)
    /\ UNCHANGED <<overview, status, at, tiled, desk, selW, selI, groupI, pan, wire, client, torn>>

\* selection_motion: the band is up once the press has travelled.
Banded(x) == anchor # None /\ (band # None \/ x - op.x \notin -1 .. 1)
Stretch(x, p) ==
    IF Banded(x)
    THEN /\ band' = p + x
         /\ selW' = {w \in Windows : Selectable(w) /\ Touches(anchor, p + x, at[w])}
         /\ selI' = {i \in Items : desk[i] # None /\ Touches(anchor, p + x, desk[i])}
    ELSE UNCHANGED <<band, selW, selI>>

\* Mutant: a carried image moves by the last step, from where the list has it.
AddsToList(i, g) == IF g = 0 THEN groupI[i] ELSE desk[i] + g
\* Where a step of g puts a carried image: from its place at the grab.
CarryTo(i, g) == groupI[i] + g

\* The carried windows a step of g moves: none for a tap.
Moves(g) == {w \in DOMAIN groupW : Selectable(w) /\ (g # 0 \/ at[w] # groupW[w])}
\* carry_group_windows, the grabbed window landing at l; un-tiled as they go.
CarryWindows(g, l) ==
    at' = [w \in Windows |-> IF w = op.win /\ Live(w) THEN l ELSE IF w \in Moves(g) THEN groupW[w] + g ELSE at[w]]
Untiled(g) == [w \in Windows |-> tiled[w] /\ w \notin Moves(g) /\ w # op.win]
\* carry_group_items
Known == {i \in DOMAIN groupI : desk[i] # None}
Carried(g) == [i \in Items |-> IF i \in Known THEN CarryTo(i, g) ELSE desk[i]]
Told(g) == IF Carried(g) # desk THEN Send(toGrid, [i \in Known |-> CarryTo(i, g)], FALSE) ELSE toGrid

\* The offset and the place of a grabbed window a step may take.
Steps(x, p) ==
    IF op.kind = "group" THEN {<<g, None>> : g \in Offsets(op.from, Delta(x, p), op.tiled)}
    ELSE IF Live(op.win) THEN {<<l - op.from, l>> : l \in Landings(op.from, Delta(x, p), op.tiled)}
    ELSE {}

\* op_update
Update(x, p) ==
    /\ px' = x /\ pan' = p
    /\ \/ /\ op.kind = "select" /\ Stretch(x, p)
          /\ UNCHANGED <<at, tiled, desk, toGrid>>
       \/ /\ op.kind # "select"
          /\ \E s \in Steps(x, p) :
                /\ CarryWindows(s[1], s[2]) /\ tiled' = Untiled(s[1])
                /\ desk' = Carried(s[1]) /\ toGrid' = Told(s[1])
          /\ UNCHANGED <<selW, selI, band>>
    /\ UNCHANGED <<overview, status, anchor, op, groupW, groupI, toComp, client, torn>>

Motion(x) == op # None /\ x # px /\ Event /\ Update(x, pan)

\* handle_edge_pan_tick: the desk scrolls under a pointer held at an edge, for
\* a selection once the band is up.
EdgePan(d) ==
    /\ op # None /\ (op.kind = "select" => band # None)
    /\ \/ d = 1 /\ \A x \in Spots : x <= px
       \/ d = -1 /\ \A x \in Spots : px <= x
    /\ Event /\ Update(px, pan + d)

\* Mutant: the window that was grabbed is settled, those it carried are not.
SettlesGrabbed(w, g) == w = op.win /\ Live(w)
\* op_end: the windows settle_tiling looks at, after a step of g.
Settles(w, g) ==
    \/ w = op.win /\ Live(w)
    \/ w \in DOMAIN groupW /\ w # op.win /\ Selectable(w)
       /\ (IF w \in Moves(g) THEN g # 0 ELSE at[w] # groupW[w])

\* The button path's exit of a drag-selection or a tap: execute_action(Overview)
\* toggles.  Leaving overview clears the selection (set_mode).
Toggle == overview' = ~overview
Tap == op.kind = "move" /\ px - op.x \in -5 .. 5

\* The release: op_update once more, then op_end.
ReleaseBand ==
    /\ op # None /\ op.kind = "select" /\ Event
    /\ anchor' = None /\ band' = None /\ op' = None /\ groupW' = <<>> /\ groupI' = <<>>
    /\ IF Banded(px)
       THEN /\ selW' = {w \in Windows : Selectable(w) /\ Touches(anchor, pan + px, at[w])}
            /\ selI' = {i \in Items : desk[i] # None /\ Touches(anchor, pan + px, desk[i])}
            /\ UNCHANGED overview
       ELSE selW' = {} /\ selI' = {} /\ IF HasSelection THEN UNCHANGED overview ELSE Toggle
    /\ UNCHANGED <<status, at, tiled, desk, px, pan, wire, client, torn>>

ReleaseMove ==
    /\ op # None /\ op.kind # "select" /\ Event
    /\ \E s \in Steps(px, pan) :
          /\ CarryWindows(s[1], s[2])
          /\ tiled' = [w \in Windows |-> IF Settles(w, s[1]) THEN Aligned(at'[w]) ELSE Untiled(s[1])[w]]
          /\ desk' = Carried(s[1])
          /\ toGrid' = IF \E i \in Known : CarryTo(i, s[1]) # groupI[i]
                       THEN Send(Told(s[1]), <<>>, TRUE) ELSE Told(s[1])
    /\ IF Tap /\ Live(op.win)
       THEN Toggle /\ (IF overview THEN Clear ELSE UNCHANGED picked)
       ELSE UNCHANGED <<overview, picked>>
    /\ op' = None /\ groupW' = <<>> /\ groupI' = <<>>
    /\ UNCHANGED <<status, px, pan, toComp, client, torn>>

\* set_mode from the keyboard, with or without an op.
Key ==
    /\ Event /\ Toggle /\ (IF overview THEN Clear ELSE UNCHANGED picked)
    /\ UNCHANGED <<status, at, tiled, desk, op, groupW, groupI, px, pan, wire, client, torn>>

\* A window is minimized or comes back.
Minimize(w) ==
    /\ Live(w) /\ Event
    /\ status' = [status EXCEPT ![w] = IF @ = "up" THEN "min" ELSE "up"]
    /\ UNCHANGED <<overview, at, tiled, desk, picked, op, groupW, groupI, px, pan, wire, client, torn>>

\* Window::destroy drops the op on the window with no end of it.
Destroy(w) ==
    /\ Live(w) /\ Event
    /\ status' = [status EXCEPT ![w] = "gone"]
    /\ selW' = selW \ {w}
    /\ IF op # None /\ op.win = w
       THEN op' = None /\ torn' = (torn \/ groupI # <<>>) ELSE UNCHANGED <<op, torn>>
    /\ UNCHANGED <<overview, at, tiled, desk, selI, anchor, band, groupW, groupI, px, pan, wire, client>>

(* The grid's client. *)

\* It adds, removes or moves an image, saves it and reports the list.
Edit(i, p) ==
    /\ Alive /\ Event /\ grid[i] # p
    /\ grid' = [grid EXCEPT ![i] = p] /\ saved' = grid' /\ toComp' = Append(toComp, grid')
    /\ torn' = (torn \/ i \in DOMAIN groupI \/ toGrid # <<>>)
    /\ UNCHANGED <<overview, status, at, tiled, desk, picked, op, groupW, groupI, px, pan, toGrid>>

Hears ==
    /\ Alive /\ toGrid # <<>> /\ toGrid' = Tail(toGrid)
    /\ IF Head(toGrid).drop
       THEN saved' = grid /\ toComp' = Append(toComp, grid) /\ UNCHANGED grid
       ELSE /\ grid' = [i \in Items |-> IF i \in DOMAIN Head(toGrid).to /\ grid[i] # None
                                       THEN Head(toGrid).to[i] ELSE grid[i]]
            /\ UNCHANGED <<saved, toComp>>
    /\ UNCHANGED <<overview, status, at, tiled, desk, picked, op, groupW, groupI, px, pan, torn, events>>

\* Its window is destroyed: the images go with it.
Dies ==
    /\ Alive /\ Event
    /\ grid' = None /\ toGrid' = <<>>
    /\ desk' = Nowhere /\ selI' = {i \in selI : ~Drops(Nowhere, i)}
    /\ torn' = (torn \/ groupI # <<>>)
    /\ UNCHANGED <<overview, status, at, tiled, selW, anchor, band, op, groupW, groupI, px, pan, toComp, saved>>

Starts ==
    /\ ~Alive /\ grid' = saved /\ toComp' = Append(toComp, saved)
    /\ UNCHANGED <<overview, status, at, tiled, desk, picked, op, groupW, groupI, px, pan, toGrid, saved, torn, events>>

\* set_desktop_items: the report replaces the list.
Reported ==
    /\ toComp # <<>> /\ toComp' = Tail(toComp)
    /\ desk' = Head(toComp) /\ selI' = {i \in selI : ~Drops(Head(toComp), i)}
    /\ UNCHANGED <<overview, status, at, tiled, selW, anchor, band, op, groupW, groupI, px, pan, toGrid, client, torn, events>>

Next ==
    \/ \E x \in Spots : PressWindow(x) \/ PressImage(x) \/ PressBare(x) \/ Motion(x)
    \/ \E d \in {-1, 1} : EdgePan(d)
    \/ ReleaseBand \/ ReleaseMove \/ Key
    \/ \E w \in Windows : Minimize(w) \/ Destroy(w)
    \/ \E i \in Items, p \in Places \cup {None} : Edit(i, p)
    \/ Hears \/ Dies \/ Starts \/ Reported

Spec == Init /\ [][Next]_selectionVars /\ WF_selectionVars(Hears) /\ WF_selectionVars(Reported)

TypeOK ==
    /\ overview \in BOOLEAN /\ torn \in BOOLEAN /\ events \in 0 .. MaxEvents
    /\ status \in [Windows -> {"up", "min", "gone"}]
    /\ at \in [Windows -> Int] /\ tiled \in [Windows -> BOOLEAN]
    /\ selW \subseteq Windows /\ selI \subseteq Items
    /\ DOMAIN groupW \subseteq Windows /\ DOMAIN groupI \subseteq Items
    /\ px \in Spots /\ pan \in Int

\* Nothing is selected that is gone: no destroyed window, no image that is not
\* on the list, whatever reports cross with the band and however the grid dies.
SelectionIsLive == /\ \A w \in selW : Live(w)
                   /\ \A i \in selI : desk[i] # None

\* A tiled window rests on the cells of the desk, unless it is being moved.
TiledIsAligned == \A w \in Windows : Live(w) /\ tiled[w] => Aligned(at[w])

Released == op # None /\ op' = None /\ op.kind # "select"
\* A group lands together: the windows and images it carried have moved by one
\* offset, even if a report from before put an image back under the op.
LandsTogether ==
    [][Released /\ UNCHANGED status =>
          Cardinality({at'[w] - groupW[w] : w \in {v \in DOMAIN groupW : Selectable(v)}}
                      \cup {desk'[i] - groupI[i] : i \in Known}
                      \cup {at'[w] - op.from : w \in {op.win} \ {None}}) <= 1]_selectionVars

\* What was moved settles by where it landed: Tiled on the cells and Floating
\* off them.
LandsByGrid ==
    [][Released /\ UNCHANGED status =>
          \A w \in DOMAIN groupW \cup ({op.win} \ {None}) :
             Selectable(w) /\ (w = op.win \/ at'[w] # groupW[w]) => tiled'[w] = Aligned(at'[w])]_selectionVars

\* When the user is done, compositor and grid agree on where the images are and
\* the grid has it saved.
Agree == op # None \/ torn \/ ~Alive \/ (desk = grid /\ grid = saved)
ImagesAgree == []<>Agree
=============================================================================

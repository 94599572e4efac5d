------------------------------ MODULE Switcher ------------------------------
(***************************************************************************)
(* Switching windows by key (window_manager/switcher.rs; the focus cycle   *)
(* of window_manager.rs): the chooser is a process of its own, fed through *)
(* a pipe that is kept for further presses, waited for by a thread that    *)
(* asks for the window it picked; and focus-next/prev walks the order the  *)
(* cycle began with, though every step raises a window.                    *)
(*                                                                         *)
(* A window is a slot of the store with its generation, since the slot of  *)
(* one that closed may be taken by another while it is still listed.       *)
(* Names stand for the lines the chooser shows.                            *)
(***************************************************************************)
EXTENDS Integers, SequencesExt, Lists

CONSTANTS
    Slots,
    Tiled,          \* those whose windows are tiled, below all others
    NameOf,         \* of each slot, what the chooser shows
    MaxEvents,      \* bound: what the user and the windows do in a behaviour
    None

VARIABLES
    win,            \* the windows: a generation and a state by slot
    stack,          \* the render list, topmost first
    drawn,          \* the stack as the scene shows it
    recent,         \* focus_history, the last first
    focused,        \* the seat's: a window, or None
    cycle,          \* focus_cycle
    active,         \* ACTIVE_SWITCHER: its generation, 0 for none
    shown,          \* the choosers, by generation
    walk,           \* history: the windows of a cycle, empty after anything else
    events

switcherVars == <<win, stack, drawn, recent, focused, cycle, active, shown, walk, events>>
windowVars == <<win, stack, drawn, recent, focused>>

NoCycle == [order |-> <<>>, landed |-> None]
Now(s) == <<s, win[s].gen>>
IsLive(id) == win[id[1]].gen = id[2] /\ win[id[1]].st # "gone"
IsUp(id) == win[id[1]].gen = id[2] /\ win[id[1]].st = "up"
Ids(st) == {Now(s) : s \in {u \in Slots : win[u].st = st}}
\* focused_window: with no window focused it is the last that was, also one that
\* has been minimized.
InFocus == IF focused = None /\ recent # <<>> THEN recent[1] ELSE focused
Event == events < MaxEvents /\ events' = events + 1

\* Windows in two planes, by order of the render list (render_finish).
Planes(l) ==
    LET below == {id \in ToSet(l) : id[1] \in Tiled}
    IN Only(l, ToSet(l) \ below) \o Only(l, below)

Init ==
    /\ win = [s \in Slots |-> [gen |-> 1, st |-> "up"]]
    /\ stack = SetToSeq({<<s, 1>> : s \in Slots}) /\ drawn = Planes(stack)
    /\ recent = stack
    /\ focused \in ToSet(stack)
    /\ cycle = NoCycle /\ active = 0 /\ shown = <<>> /\ walk = <<>> /\ events = 0

-----------------------------------------------------------------------------
(* Focus and the stack.                                                    *)

ToFront(l, id) == <<id>> \o Drop(l, id)

\* Seat::focus of a window: it is raised and remembered.
Focus(id) ==
    /\ focused' = id /\ stack' = ToFront(stack, id) /\ recent' = ToFront(recent, id)

\* render_finish: what was raised is drawn raised, when the transaction ends.
Draw ==
    /\ drawn' = Planes(stack) /\ drawn # drawn'
    /\ UNCHANGED <<win, stack, recent, focused, cycle, active, shown, walk, events>>

\* A click, a chord, a socket command: another window is chosen.
Choose ==
    /\ Event /\ \E id \in Ids("up") : Focus(id)
    /\ walk' = <<>>
    /\ UNCHANGED <<win, drawn, cycle, active, shown>>

\* focus_next_visible_window: the last that was focused, else any.
NextVisible(rest) ==
    LET up == Only(recent, rest)
    IN IF up # <<>> THEN {up[1]} ELSE IF rest # {} THEN rest ELSE {None}

\* The action Minimize, of the focused window.
Minimize ==
    /\ Event /\ focused \in Ids("up")
    /\ win' = [win EXCEPT ![focused[1]].st = "low"]
    /\ \E next \in NextVisible(Ids("up") \ {focused}) :
          IF next # None THEN Focus(next) ELSE focused' = None /\ UNCHANGED <<stack, recent>>
    /\ walk' = <<>>
    /\ UNCHANGED <<drawn, cycle, active, shown>>

\* A window unmaps and is destroyed.
Close(s) ==
    /\ Event /\ win[s].st # "gone"
    /\ win' = [win EXCEPT ![s].st = "gone"]
    /\ drawn' = Drop(drawn, Now(s))
    /\ IF focused # Now(s)
       THEN stack' = Drop(stack, Now(s)) /\ recent' = Drop(recent, Now(s)) /\ UNCHANGED focused
       ELSE \E next \in NextVisible(Ids("up") \ {focused}) :
               /\ focused' = next
               /\ LET Left(l) == IF next = None THEN Drop(l, focused)
                                 ELSE ToFront(Drop(l, focused), next)
                  IN stack' = Left(stack) /\ recent' = Left(recent)
    /\ walk' = <<>>
    /\ UNCHANGED <<cycle, active, shown>>

\* A new window maps, in a slot of the store that is free, with the focus or
\* without it (Restore).
Open(s) ==
    /\ Event /\ win[s].st = "gone"
    /\ win' = [win EXCEPT ![s] = [gen |-> @.gen + 1, st |-> "up"]]
    /\ LET id == <<s, win[s].gen + 1>>
       IN /\ stack' = <<id>> \o stack
          /\ drawn' = Planes(<<id>> \o drawn)
          /\ \/ focused' = id /\ recent' = <<id>> \o recent
             \/ UNCHANGED <<focused, recent>>
    /\ walk' = <<>>
    /\ UNCHANGED <<cycle, active, shown>>

-----------------------------------------------------------------------------
(* focus-next, focus-prev.                                                 *)

\* Mutant: the order as drawn, always.
LiveOrder(ring) == Only(drawn, ring)
\* focus_cycle_order
CycleOrder(ring) ==
    IF /\ ToSet(cycle.order) = ring /\ Len(cycle.order) = Cardinality(ring)
       /\ cycle.order # <<>> /\ InFocus = cycle.landed
    THEN cycle.order
    ELSE Only(drawn, ring)

\* The policy's step: to the neighbour in that order.
Step(order, back) ==
    LET n == Len(order)
        at == IF InFocus \in ToSet(order) THEN CHOOSE i \in 1..n : order[i] = InFocus
              ELSE IF back THEN 1 ELSE n
    IN order[IF back THEN ((at + n - 2) % n) + 1 ELSE (at % n) + 1]

\* execute_action, note_focus_cycle
FocusNext ==
    /\ Event
    /\ LET order == CycleOrder(Ids("up"))
       IN /\ order # <<>>
          /\ \E back \in BOOLEAN :
                /\ Focus(Step(order, back))
                /\ walk' = IF back THEN <<Step(order, back)>>
                           ELSE Append(IF walk = <<>> THEN <<InFocus>> ELSE walk, Step(order, back))
                /\ cycle' = [order |-> order, landed |-> Step(order, back)]
    /\ UNCHANGED <<win, drawn, active, shown>>

-----------------------------------------------------------------------------
(* The chooser.                                                            *)

\* What it lists: as drawn, then the minimized, which are not.
Listed ==
    Only(drawn, Ids("up")) \o Only(recent, Ids("low"))
PlaceOf(l) == IF InFocus \in ToSet(l) THEN (CHOOSE i \in 1..Len(l) : l[i] = InFocus) - 1 ELSE 0

\* Mutant: the second of the list is the one offered, wherever the focus is.
Second(l, back) == IF back THEN Len(l) - 1 ELSE 1
\* What it highlights first, from 0: its own second line, moved by the steps that
\* are written after the list: to the line below the focused window, or back round
\* to the last.
Offered(l, back) == IF back THEN Len(l) - 1 ELSE 1 + PlaceOf(l)

\* at: the line it highlights; from: the window it is opened to leave; got: the
\* window that was focused for it.
Chooser(l, back) ==
    [st |-> "up", rows |-> l, at |-> Offered(l, back) % Len(l),
     from |-> IF back THEN None ELSE InFocus, got |-> None]
Reaped == [st |-> "reaped", rows |-> <<>>, at |-> 0, from |-> None, got |-> None]

IsOpen(g) == shown[g].st = "up"

\* launch_window_switcher with a chooser whose pipe is open: a line more, which
\* moves the highlight.
PressAgain(back) ==
    /\ active # 0 /\ IsOpen(active)
    /\ LET n == Len(shown[active].rows)
       IN shown' = [shown EXCEPT ![active].at = (@ + IF back THEN n - 1 ELSE 1) % n,
                                 ![active].from = None]
    /\ UNCHANGED active
\* With none, or one whose pipe is dead: a new one, unless nothing can be chosen
\* or it cannot be started.
PressFirst(back) ==
    /\ active # 0 => ~IsOpen(active)
    /\ \/ /\ Listed # <<>>
          /\ shown' = Append(shown, Chooser(Listed, back)) /\ active' = Len(shown) + 1
       \/ active' = 0 /\ UNCHANGED shown
Press ==
    /\ Event
    /\ \E back \in BOOLEAN : PressAgain(back) \/ PressFirst(back)
    /\ UNCHANGED <<windowVars, cycle, walk>>

Becomes(g, s) == shown' = [shown EXCEPT ![g] = s]

\* The user takes the highlighted line, or none; the chooser prints it and ends
\* (external).
End(g) ==
    /\ IsOpen(g)
    /\ \E st \in {"asked", "done"} : Becomes(g, [shown[g] EXCEPT !.st = st])
    /\ UNCHANGED <<windowVars, cycle, walk, active, events>>

\* run_window_switcher: the first line of the list that reads like it.
RowFor(c) == Min({i \in DOMAIN c.rows : NameOf[c.rows[i][1]] = NameOf[c.rows[c.at + 1][1]]})

\* Mutant: the slot is all that is looked at.
FindSlot(id) == IF win[id[1]].st = "gone" THEN None ELSE Now(id[1])
\* find_window_id: a window that is gone is not found.
FindWindow(id) == IF IsLive(id) THEN id ELSE None

\* focus-window, in the event loop: it comes back from the minimized, too.
FocusWindow(g) ==
    /\ shown[g].st = "asked"
    /\ LET id == FindWindow(shown[g].rows[RowFor(shown[g])])
       IN /\ IF id = None THEN UNCHANGED <<windowVars, walk>>
             ELSE /\ Focus(id) /\ win' = [win EXCEPT ![id[1]].st = "up"]
                  /\ walk' = <<>> /\ UNCHANGED drawn
          /\ Becomes(g, [shown[g] EXCEPT !.st = "done", !.got = id])
    /\ UNCHANGED <<cycle, active, events>>

\* Mutant: the thread lets go of whatever is there.
ClearAny(g) == 0
ClearOwn(g) == IF active = g THEN 0 ELSE active
\* The thread's end: the pipe goes, unless it is a newer chooser's.
CleanUp(g) ==
    /\ shown[g].st = "done"
    /\ active' = ClearOwn(g)
    /\ Becomes(g, Reaped)
    /\ UNCHANGED <<windowVars, cycle, walk, events>>

Thread == \E g \in DOMAIN shown : FocusWindow(g) \/ CleanUp(g)

Next ==
    \/ Draw \/ Choose \/ Minimize \/ FocusNext \/ Press \/ Thread
    \/ \E s \in Slots : Close(s) \/ Open(s)
    \/ \E g \in DOMAIN shown : End(g)

Spec == Init /\ [][Next]_switcherVars /\ WF_switcherVars(Thread)

-----------------------------------------------------------------------------
TypeOK ==
    /\ \A s \in Slots : win[s].st \in {"up", "low", "gone"} /\ win[s].gen \in Nat \ {0}
    /\ ToSet(stack) = Ids("up") \cup Ids("low") /\ Len(stack) = Cardinality(ToSet(stack))
    /\ focused \in Ids("up") \cup Ids("low") \cup {None}
    /\ active \in 0..Len(shown)

\* One chooser at a time, and its pipe is at hand: the thread of one that has
\* ended does not let go of the next one's (the generations of switcher.rs).
OneChooser == \A g \in DOMAIN shown : IsOpen(g) => active = g

\* One press and its release switch: what a chooser opened forwards offers is not
\* the window that has the focus, if there is another, wherever that one is
\* stacked (launch_window_switcher).
SwitchesAway ==
    \A g \in DOMAIN shown : LET c == shown[g] IN
        IsOpen(g) /\ Len(c.rows) > 1 /\ c.from # None =>
            c.rows[c.at + 1] # c.from

\* focus-next pressed again and again comes to every window before it comes to
\* one twice, whenever the raised ones are drawn (focus_cycle_order).
CycleVisitsAll ==
    \A i, j \in DOMAIN walk :
        i < j /\ j - i < Cardinality(Ids("up")) => walk[i] # walk[j]

\* A chooser gives the focus only to a window it listed, and to none that took
\* over the slot of one (find_window_id).
PicksAreListed ==
    \A g \in DOMAIN shown : shown[g].got \in ToSet(shown[g].rows) \cup {None}

SwitchingIsSound == OneChooser /\ SwitchesAway /\ CycleVisitsAll /\ PicksAreListed

\* The pipe of a chooser that has ended goes: its thread sees to that, or a newer
\* chooser has taken its place.
PipeGoes == []<>(active # 0 => IsOpen(active))

\* What the code says of them, and does not keep: that the line the user took is
\* the window it stood for (two may read alike) ...
TakenIsAsked ==
    \A g \in DOMAIN shown : shown[g].st = "asked" => RowFor(shown[g]) = shown[g].at + 1
\* ... that a click, the switcher or a chord ends a cycle: one that comes
\* back to the window it left off at goes on ...
ClickEndsCycle ==
    walk = <<>> => CycleOrder(Ids("up")) = Only(drawn, Ids("up"))
\* ... and that what focused_window falls back on is still on screen.
FocusedIsOnScreen == InFocus # None => IsUp(InFocus)
=============================================================================

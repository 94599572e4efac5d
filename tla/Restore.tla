------------------------------ MODULE Restore -------------------------------
(***************************************************************************)
(* What a new window gets back (window_manager/session.rs, placement.rs    *)
(* try_restore, window.rs map): the entries of the session file, given out *)
(* as windows come with an app id, a title and a parent in any order; the  *)
(* plates that stand for them until then; the last state of each program;  *)
(* and whether the window may take the focus and a place in the stack.     *)
(*                                                                         *)
(* All windows are of one app id, as those of Proton or Chromium are, and  *)
(* floating; the places are one number.  No app is being restarted         *)
(* (RestartApp), and the session is not ending (Session).                  *)
(***************************************************************************)
EXTENDS Integers, Sequences, FiniteSets, Lists

CONSTANTS
    Windows,
    X11,            \* the X11 ones among them
    Dialogs,        \* those that get a parent before they map
    ProgOf,         \* of each window: its program, or Unknown
    TitlesOf,       \* the titles each may set
    Alike(_, _),    \* titles_resemble, of titles that are not empty
    Files,          \* the session files and the rules: [queue, last, ruled, over]
    Places,         \* where the user may put a window
    MaxEvents,      \* bound: requests and events in a behaviour
    Untitled, Unknown, None

VARIABLES
    ruled, over,    \* mode_rules: the titles they name; they are over_sibling
    queue,          \* restore_queue
    last,           \* last_window_states
    plates,         \* restore_placeholders: how many, by title
    timer,          \* restore_placeholder_timer
    awaited,        \* has_restored_focused_window
    arrived,        \* restored_focused_window_mapped
    win,            \* the windows: see Away
    list,           \* the render list, bottom first
    focus,
    input,          \* startup_input_seen
    vanished,       \* vanished_windows: the programs
    userAt,         \* history: where the user put it, and was it restored then
    events

restoreVars == <<ruled, over, queue, last, plates, timer, awaited, arrived, win, list, focus, input,
                 vanished, userAt, events>>
saved == <<queue, last, plates, timer>>
session == <<ruled, over, awaited>>
settling == <<session, arrived, input>>

\* Lists and sets.  These few operators are as in SequencesExt and FiniteSetsExt, which
\* are left out for the provers: what a module extends is in view of every proof step.
ToSet(l) == {l[i] : i \in DOMAIN l}
Min(S) == CHOOSE x \in S : \A y \in S : x <= y
RemoveAt(l, i) == SubSeq(l, 1, i - 1) \o SubSeq(l, i + 1, Len(l))
SetToSeqs(S) == {l \in [1..Cardinality(S) -> S] : \A i, j \in DOMAIN l : i # j => l[i] # l[j]}
SetToSeq(S) == CHOOSE l \in SetToSeqs(S) : TRUE

Titles == {Untitled} \cup UNION {TitlesOf[w] : w \in Windows}
               \cup UNION {{e.title : e \in ToSet(f.queue) \cup ToSet(f.last)} : f \in Files}
Event == events < MaxEvents /\ events' = events + 1

\* named: the app id is set; done: restored; from: where its entry came from;
\* chosen: restored_focused; rank: restore_stack, 0 for none; sat: satellite.
Away == [state |-> "away", named |-> FALSE, title |-> Untitled, parent |-> FALSE,
         done |-> FALSE, from |-> "none", chosen |-> FALSE, rank |-> 0, at |-> 0,
         sat |-> FALSE]
Is(s) == {w \in Windows : win[w].state = s}

\* load_state and create_restore_placeholders: no plate for what is not
\* relaunched.
Init ==
    /\ \E f \in Files :
          /\ queue = f.queue /\ last = f.last /\ ruled = f.ruled /\ over = f.over
          /\ plates = [t \in Titles |->
                 Cardinality({i \in DOMAIN f.queue : f.queue[i].title = t /\ f.queue[i].runs})]
          /\ timer = (\E t \in Titles : plates[t] > 0)
          /\ awaited = (\E e \in ToSet(f.queue) : e.focused)
    /\ arrived = FALSE
    /\ win = [w \in Windows |-> Away] /\ list = <<>>
    /\ focus = None /\ input = FALSE /\ vanished = <<>>
    /\ userAt = [w \in Windows |-> None] /\ events = 0

-----------------------------------------------------------------------------
(* Matching.                                                               *)

SameProgram(e, p) == p = Unknown \/ e.prog = Unknown \/ e.prog = p
Resembles(t, u) == t # Untitled /\ u # Untitled /\ Alike(t, u)
Borrowable(e, p) == e.title # Untitled /\ SameProgram(e, p)

\* The entry of s a window gets, 0 for none: of the same title, then of one like
\* it, then lent by app id and program.
Match(s, t, p) ==
    LET Exact == {i \in DOMAIN s : t # Untitled /\ s[i].title = t}
        Near == {i \in DOMAIN s : Resembles(t, s[i].title)}
        Lent == {i \in DOMAIN s : Borrowable(s[i], p)}
        pass == IF Exact # {} THEN Exact ELSE IF Near # {} THEN Near ELSE Lent
    IN IF pass = {} THEN 0 ELSE Min(pass)

\* has_titled_saved_entry
HasOwn(t) ==
    \E e \in ToSet(queue) \cup ToSet(last) : t # Untitled /\ (t = e.title \/ Resembles(t, e.title))

\* find_sibling
HasSibling(w) == \E v \in Windows \ {w} : win[v].state = "mapped" /\ ~win[v].sat

\* cascade_off_siblings
Steps == 8
Cascaded(w, p) ==
    LET taken == {win[v].at : v \in {u \in Windows \ {w} : win[u].state = "mapped"}}
    IN Min({q \in p..(p + Steps) : q \notin taken} \cup {p + Steps})

\* Mutant: an X11 window is restored as soon as its class is in.
SkipsAny(w, r) == r.done \/ ~r.named \/ r.parent
\* try_restore's early returns.
Skips(w, r) ==
    \/ r.done \/ r.parent \/ ~r.named
    \/ w \in X11 /\ r.state # "mapped"
    \/ r.title = Untitled /\ r.state # "mapped" /\ ruled # {}
Overruled(w, r) == r.title \in ruled /\ ((over /\ HasSibling(w)) \/ ~HasOwn(r.title))

\* Mutant: the plate of a claimed entry stays.
KeepPlates(t) == plates
RemovePlate(t) == [plates EXCEPT ![t] = IF @ > 0 THEN @ - 1 ELSE 0]

\* try_restore, of w as r has it: what w becomes and what is left of the file.
TryRestore(w, r) ==
    LET i == Match(queue, r.title, ProgOf[w])
        j == Match(last, r.title, ProgOf[w])
        same == [r |-> r, queue |-> queue, plates |-> plates]
    IN CASE Skips(w, r) -> same
         [] ~Skips(w, r) /\ Overruled(w, r) ->
               [same EXCEPT !.r.done = TRUE, !.r.sat = over /\ HasSibling(w)]
         [] ~Skips(w, r) /\ ~Overruled(w, r) /\ i # 0 ->
               [r |-> [r EXCEPT !.done = TRUE, !.from = "queue", !.chosen = queue[i].focused,
                                !.rank = queue[i].rank, !.at = queue[i].at],
                queue |-> RemoveAt(queue, i), plates |-> RemovePlate(queue[i].title)]
         [] ~Skips(w, r) /\ ~Overruled(w, r) /\ i = 0 /\ j # 0 ->
               [same EXCEPT !.r.done = TRUE, !.r.from = "last", !.r.at = Cascaded(w, last[j].at)]
         [] OTHER -> same

\* What try_restore leaves: the plates' timer goes with the last of them.
Restores(t) ==
    /\ queue' = t.queue /\ plates' = t.plates
    /\ timer' = (timer /\ \E u \in Titles : t.plates[u] > 0)

\* The render lists a window may be placed in by its rank (restored_stack_slot
\* puts it between the ranked ones below and above), without one on top.
Ascending(l, W) ==
    \A i, j \in DOMAIN l : i < j /\ W[l[i]].rank > 0 /\ W[l[j]].rank > 0 => W[l[i]].rank < W[l[j]].rank
InOrder(l, m) == Only(l, ToSet(m)) = m
Placed(w, W) ==
    LET rest == Drop(list, w)
    IN {l \in SetToSeqs(ToSet(list) \cup {w}) : InOrder(l, rest) /\ Ascending(l, W)}
\* Mutant: a raised window keeps its saved place.
RaisedRanked(r) == r
\* raise_window: the saved place no longer applies.
Unranked(r) == [r EXCEPT !.rank = 0]
Raised(w) == Append(Drop(list, w), w)

-----------------------------------------------------------------------------
(* The clients.                                                            *)

\* notify_app_id, notify_title
Notify(w, r) ==
    \E t \in {TryRestore(w, r)} :
        /\ win' = [win EXCEPT ![w] = t.r] /\ Restores(t)
        /\ IF t.r.rank > 0 /\ ~r.done /\ w \in ToSet(list) THEN list' \in Placed(w, win')
           ELSE UNCHANGED list
        /\ UNCHANGED <<last, settling, focus, vanished, userAt>>

\* A window is there with the first of its requests.
Made(w) == IF win[w].state = "away" THEN [win[w] EXCEPT !.state = "ready"] ELSE win[w]
NotifyAppId(w) ==
    /\ Event /\ win[w].state # "mapped" /\ ~win[w].named
    /\ Notify(w, [Made(w) EXCEPT !.named = TRUE])
NotifyTitle(w) ==
    /\ Event
    /\ \E t \in TitlesOf[w] \ {win[w].title} : Notify(w, [Made(w) EXCEPT !.title = t])

SetParent(w) ==
    /\ w \in Dialogs /\ win[w].state = "ready" /\ ~win[w].parent
    /\ win' = [win EXCEPT ![w].parent = TRUE]
    /\ UNCHANGED <<saved, settling, list, focus, vanished, userAt, events>>

\* is_reconnect, of a window that vanished and one that maps.
IsReconnect(gone, p) == gone = Unknown \/ p = Unknown \/ gone = p
Reconnects(p) == {i \in DOMAIN vanished : IsReconnect(vanished[i], p)}

\* Mutant: the session's focused window does not hold the focus for itself.
HoldsNothing(r) ==
    IF r.from = "queue" /\ r.chosen THEN ~input
    ELSE ~awaited \/ ~arrived \/ (r.from # "queue" /\ input)
\* map's gates: may a window that maps take the focus.
ShouldFocus(r) ==
    IF r.from = "queue" /\ r.chosen THEN ~input
    ELSE IF awaited /\ ~arrived /\ ~input THEN FALSE
    ELSE awaited /\ arrived => r.from # "queue" /\ input

\* Window::map.  A client that reconnects does not take the focus; its record is
\* used up by that.
Map(w) ==
    /\ win[w].state = "ready" /\ (w \in Dialogs => win[w].parent)
    /\ \E t \in {TryRestore(w, [win[w] EXCEPT !.state = "mapped"])} :
          LET may == ShouldFocus(t.r)
              back == Reconnects(ProgOf[w])
              takes == may /\ back = {}
          IN /\ Restores(t)
             /\ arrived' = (arrived \/ (t.r.from = "queue" /\ t.r.chosen))
             /\ vanished' = IF may /\ back # {} THEN RemoveAt(vanished, Min(back)) ELSE vanished
             /\ win' = [win EXCEPT ![w] = IF takes THEN Unranked(t.r) ELSE t.r]
             /\ focus' = IF takes THEN w ELSE focus
             /\ IF takes THEN list' = Raised(w)
                ELSE IF t.r.rank > 0 /\ ~win[w].done /\ w \in ToSet(list)
                THEN list' \in Placed(w, win') ELSE UNCHANGED list
    /\ UNCHANGED <<last, session, input, userAt, events>>

\* Unmapped and destroyed, asked to or not; the next visible window takes the
\* focus over.
Close(w) ==
    /\ Event /\ win[w].state = "mapped"
    /\ win' = [win EXCEPT ![w] = Away]
    /\ list' = Drop(list, w)
    /\ \E v \in {vanished} \cup {Append(vanished, p) : p \in {ProgOf[w], Unknown}} : vanished' = v
    /\ IF focus = w THEN focus' \in (Is("mapped") \ {w}) \cup {None} ELSE UNCHANGED focus
    /\ userAt' = [userAt EXCEPT ![w] = None]
    /\ UNCHANGED <<saved, settling>>

-----------------------------------------------------------------------------
(* The compositor and the user.                                            *)

\* manage_start links the windows that are not in the render list yet.
Linked == Is("mapped") \cup (Is("ready") \ X11)
Manage ==
    /\ ~(Linked \subseteq ToSet(list))
    /\ list' \in {l \in SetToSeqs(Linked \cup ToSet(list)) :
           /\ InOrder(l, list) /\ Ascending(l, win)
           /\ \A i, j \in DOMAIN l : i < j /\ l[j] \in ToSet(list) =>
                  l[i] \in ToSet(list) \/ win[l[i]].rank > 0}
    /\ UNCHANGED <<saved, settling, win, focus, vanished, userAt, events>>

\* Mutant: the first slot of the app id is taken, and no other looked at.
SaveFirst(l, w) ==
    LET p == ProgOf[w]
        slots == {i \in DOMAIN l : SameProgram(l[i], p)}
        e == [title |-> win[w].title, prog |-> p, at |-> win[w].at]
    IN IF slots = {} THEN Append(l, e) ELSE [l EXCEPT ![Min(slots)] = e]
\* save_state, of one window: the slot of its program takes its state, and what
\* else the program had goes.
SaveOne(l, w) ==
    LET p == ProgOf[w]
        e == [title |-> win[w].title, prog |-> p, at |-> win[w].at]
        slots == {i \in DOMAIN l : SameProgram(l[i], p)}
        at == Min(slots)
        rest == Only(SubSeq(l, at + 1, Len(l)), {s \in ToSet(l) : p = Unknown \/ s.prog # p})
    IN IF slots = {} THEN Append(l, e) ELSE SubSeq(l, 1, at - 1) \o <<e>> \o rest
Kept(w) == w \in Linked /\ win[w].named /\ ~win[w].parent /\ ~win[w].sat /\ win[w].title # Untitled
\* A satellite's own entries are scrubbed.
Scrubbed(s) ==
    \E w \in Linked : win[w].named /\ ~win[w].parent /\ win[w].sat /\ win[w].title = s.title
                        /\ ProgOf[w] # Unknown /\ ProgOf[w] = s.prog
SaveAll(l, order) ==
    LET Saved[i \in 0..Len(order)] == IF i = 0 THEN l ELSE SaveOne(Saved[i - 1], order[i])
    IN Saved[Len(order)]
SaveState ==
    /\ \E l \in {SaveAll(last, SetToSeq({w \in Windows : Kept(w)}))} :
          last' = Only(l, {s \in ToSet(l) : s.title # Untitled /\ ~Scrubbed(s)})
    /\ UNCHANGED <<queue, plates, timer, settling, win, list, focus, vanished, userAt, events>>

\* handle_restore_placeholder_timeout
Sweep ==
    /\ timer /\ timer' = FALSE
    /\ plates' = [t \in Titles |-> 0]
    /\ UNCHANGED <<queue, last, settling, win, list, focus, vanished, userAt, events>>

\* A key, or a click on a window, which it focuses and raises.
Press ==
    /\ input' = TRUE
    /\ \/ ~input /\ UNCHANGED <<win, list, focus, events>>
       \/ /\ Event
          /\ \E w \in Is("mapped") :
                /\ focus' = w /\ list' = Raised(w)
                /\ win' = [win EXCEPT ![w] = Unranked(@)]
    /\ UNCHANGED <<saved, session, arrived, vanished, userAt>>

\* The user drags a window.
Move(w) ==
    /\ Event /\ win[w].state = "mapped" /\ input' = TRUE
    /\ \E p \in Places :
          /\ win' = [win EXCEPT ![w] = [Unranked(@) EXCEPT !.at = p]]
          /\ userAt' = [userAt EXCEPT ![w] = [at |-> p, done |-> win[w].done]]
    /\ list' = Raised(w) /\ focus' = w
    /\ UNCHANGED <<saved, session, arrived, vanished>>

\* RECONNECT_FOCUS_GRACE passes.
Expire ==
    /\ vanished # <<>> /\ vanished' = Tail(vanished)
    /\ UNCHANGED <<saved, settling, win, list, focus, userAt, events>>

Next ==
    \/ \E w \in Windows : NotifyAppId(w) \/ NotifyTitle(w) \/ SetParent(w)
                             \/ Map(w) \/ Close(w) \/ Move(w)
    \/ Manage \/ SaveState \/ Sweep \/ Press \/ Expire

Spec == Init /\ [][Next]_restoreVars /\ WF_restoreVars(Sweep)

-----------------------------------------------------------------------------
TypeOK ==
    /\ plates \in [Titles -> Nat]
    /\ {timer, awaited, arrived, input} \subseteq BOOLEAN
    /\ ToSet(list) \subseteq Linked /\ Len(list) = Cardinality(ToSet(list))
    /\ focus \in Is("mapped") \cup {None}

\* A plate stands only for an entry that is still to be claimed, and is swept in
\* time: while there is one, its timer runs (remove_placeholder_for).
PlatesStandForEntries ==
    /\ \A t \in Titles : plates[t] <= Cardinality({i \in DOMAIN queue : queue[i].title = t})
    /\ timer <=> \E t \in Titles : plates[t] > 0

\* The last states hold one entry of a program, and none without a title: what is
\* lent to a window by app id is the program's own latest (save_state).
OneSlot(l) ==
    /\ \A i, j \in DOMAIN l : i # j /\ l[i].prog # Unknown => l[i].prog # l[j].prog
    /\ \A e \in ToSet(l) : e.title # Untitled
OneSlotEach == OneSlot(last)
\* The stack is rebuilt as it was saved whatever order the apps come in, and
\* around what was raised since (render_list_place_restored).
StackAsSaved == Ascending(list, win)

\* Until the session's focused window is there, or the user has done something,
\* nobody has the focus (Window::map).
HeldForTheChosen == awaited /\ ~arrived /\ ~input => focus = None

\* An X11 dialog takes no entry: it is its parent's, whenever the property that
\* says so comes (try_restore).
DialogsTakeNothing == \A w \in Dialogs \cap X11 : win[w].from = "none"

\* A restored window stays where the user puts it, whatever titles it takes.
RestoredStay ==
    \A w \in Windows : userAt[w] # None /\ userAt[w].done => win[w].at = userAt[w].at

RestoreIsSound ==
    /\ PlatesStandForEntries /\ OneSlotEach /\ StackAsSaved
    /\ HeldForTheChosen /\ DialogsTakeNothing /\ RestoredStay

\* The plates of programs that never came back go (the sixty seconds' sweep).
NoPlates == \A t \in Titles : plates[t] = 0

\* What the code says of them, and does not keep.  An xdg dialog that sets its
\* parent after its app id has taken an entry by then.
NoDialogTakes == \A w \in Dialogs : win[w].from = "none"
\* A window the user put somewhere is not moved by a saved state: one that had
\* none when it mapped takes its own, from the last save, with its next title.
PlacedStay == \A w \in Windows : userAt[w] # None => win[w].at = userAt[w].at
\* The window that has an entry's title gets it: one whose app id came first has
\* been lent another's.
OwnEntryIsKept ==
    \A w \in Windows, i \in DOMAIN queue :
        win[w].state = "mapped" /\ win[w].from = "queue" => win[w].title # queue[i].title
=============================================================================

----------------------------- MODULE Keyboards ------------------------------
(***************************************************************************)
(* Keyboards and what becomes of their keys (keyboard.rs,                  *)
(* keyboard_group.rs, and the parts of seat.rs, input_device.rs,           *)
(* input_manager.rs and xwayland_override_redirect.rs that attach, detach  *)
(* and hand keys over).                                                    *)
(*                                                                         *)
(* Keyboards with the same configuration share a group, which counts a     *)
(* key's presses and decides once, at the first press, who takes it: a     *)
(* binding, a portal shortcut, an input method or the focused client.  The *)
(* release goes the same way, however the focus, the lock or the grab have *)
(* changed in between.                                                     *)
(*                                                                         *)
(* The window with the seat's focus belongs to an X11 client that may open *)
(* a menu: the keyboard then enters the menu with the keys that are held.  *)
(***************************************************************************)
EXTENDS Naturals, Sequences, FiniteSets, FiniteSetsExt, Lists

CONSTANTS
    Hardware, Virtual,  \* keyboards
    Keys, Mods,         \* keycodes, and those that are modifiers
    Configs,            \* repeat and keymap, what groups are keyed by
    MaxHeld,            \* keys a keyboard or group notes (32)
    MaxChanges,         \* bound: what happens besides keys in a behaviour
    None

VARIABLES
    st,         \* what the handlers below change, by field:
                \*   kbd, the keyboards; grp, the groups by slot;
                \*   order, a seat's groups, oldest first (Seat::keyboard_groups);
                \*   active, its wlr keyboard; entered, what that is in: "window", "menu" or None;
                \*   told, the keys the entered client takes for held, and mods, its modifiers;
                \*   listed, those of told that an enter listed though another took the press;
                \*   shortcuts, portal shortcuts announced and not ended;
                \*   imKeys and imMods, what an input method was given
    synthetic,  \* a seat's synthetic keyboard's group
    seats,      \* "absent", "live" or "leaving" (destroying)
    focused,    \* whether the X11 window has the seat's focus (Seat::focused)
    world,      \* of the session: locked, a grab exists, overview, a menu is open, and
                \* what claims a key: a binding, one kept while locked
                \* (allowed_while_locked), a portal's shortcut
    conf,       \* the configuration of new hardware keyboards
    changes     \* how much has happened besides keys

vars == <<st, synthetic, seats, focused, world, conf, changes>>

Devices == Hardware \cup Virtual
Seats == {"default", "other"}
Slots == 1..(Cardinality(Devices) + Cardinality(Seats))
Consumers == {"binding", "portal", "grab", "focus"}

TypeOK ==
    /\ st.kbd \in [Devices -> [plugged : BOOLEAN, seat : Seats \cup {None}, group : Slots \cup {None},
                               held : SUBSET Keys, down : SUBSET Keys, cfg : Configs]]
    /\ st.grp \in [Slots -> [refs : 0..(Cardinality(Devices) + 1), seat : Seats, virtual : BOOLEAN,
                             cfg : Configs, by : [Keys -> Consumers \cup {None}],
                             n : [Keys -> 0..Cardinality(Devices)]]]
    /\ \A q \in Seats : Range(st.order[q]) \subseteq Slots
    /\ {st.active, synthetic} \subseteq [Seats -> Slots \cup {None}]
    /\ st.entered \in [Seats -> {"window", "menu", None}]
    /\ {st.told, st.listed, st.mods} \subseteq [Seats -> SUBSET Keys]
    /\ {st.shortcuts, st.imKeys, st.imMods} \subseteq SUBSET Keys
    /\ seats \in [Seats -> {"absent", "live", "leaving"}]
    /\ focused \in [Seats -> BOOLEAN]
    /\ world \in [locked : BOOLEAN, grab : BOOLEAN, overview : BOOLEAN, menu : BOOLEAN,
                  claim : [Keys -> {"none", "binding", "kept", "portal"}]]
    /\ conf \in Configs
    /\ changes \in 0..MaxChanges

Free == [refs |-> 0, seat |-> "default", virtual |-> FALSE, cfg |-> CHOOSE c \in Configs : TRUE,
         by |-> [k \in Keys |-> None], n |-> [k \in Keys |-> 0]]
Unplugged == [plugged |-> FALSE, seat |-> None, group |-> None, held |-> {}, down |-> {},
              cfg |-> CHOOSE c \in Configs : TRUE]

Init ==
    /\ st = [kbd |-> [d \in Devices |-> Unplugged], grp |-> [g \in Slots |-> Free],
             order |-> [q \in Seats |-> <<>>],
             active |-> [q \in Seats |-> None], entered |-> [q \in Seats |-> None],
             told |-> [q \in Seats |-> {}], listed |-> [q \in Seats |-> {}],
             mods |-> [q \in Seats |-> {}],
             shortcuts |-> {}, imKeys |-> {}, imMods |-> {}]
    /\ synthetic = [q \in Seats |-> None]
    /\ seats = [q \in Seats |-> IF q = "default" THEN "live" ELSE "absent"]
    /\ focused = [q \in Seats |-> FALSE]
    /\ world = [locked |-> FALSE, grab |-> FALSE, overview |-> FALSE, menu |-> FALSE,
                claim |-> [k \in Keys |-> "none"]]
    /\ conf = CHOOSE c \in Configs : TRUE
    /\ changes = 0

-----------------------------------------------------------------------------
(* A key through its group.                                                *)

\* What a group holds down.
Held(s, g) == {k \in Keys : s.grp[g].by[k] # None}

\* wlr_seat_set_keyboard: a change of the seat's keyboard tells the client its
\* modifiers.
SetKeyboard(s, q, g) ==
    IF s.active[q] = g THEN s
    ELSE [s EXCEPT !.active[q] = g,
                   !.mods[q] = IF s.entered[q] = None \/ g = None THEN @ ELSE Held(s, g) \cap Mods]

\* Who takes a key, decided at its first press.
Consumer(s, g, k) ==
    CASE world.claim[k] = "kept" \/ (world.claim[k] = "binding" /\ ~world.locked) -> "binding"
      [] world.claim[k] = "portal" /\ ~world.locked -> "portal"
      [] world.claim[k] = "none" /\ ~world.locked /\ world.grab /\ ~s.grp[g].virtual -> "grab"
      [] OTHER -> "focus"

Toggled(S, k, on) == IF on THEN S \cup {k} ELSE S \ {k}

\* The event is handed to who takes it.  A press of the focused client's is
\* dropped in the overview; its releases never are.
Deliver(s, g, k, by, pressed) ==
    LET q == s.grp[g].seat
        kept == SetKeyboard(s, q, g)
    IN CASE by = "binding" -> s
         [] by = "portal" -> [s EXCEPT !.shortcuts = Toggled(@, k, pressed)]
         [] by = "grab" -> IF world.grab THEN [s EXCEPT !.imKeys = Toggled(@, k, pressed)] ELSE s
         [] by = "focus" ->
              IF pressed /\ world.overview THEN s
              ELSE IF s.entered[q] = None THEN kept
              ELSE [kept EXCEPT !.told[q] = Toggled(@, k, pressed),
                                !.listed[q] = @ \ {k}]

\* handle_group_modifiers: while a grab exists the input method is told, and
\* otherwise the focused client.
Modifiers(s, g) ==
    LET q == s.grp[g].seat
    IN IF world.grab /\ ~s.grp[g].virtual THEN [s EXCEPT !.imMods = Held(s, g) \cap Mods]
       ELSE LET kept == SetKeyboard(s, q, g)
            IN IF s.entered[q] = None THEN kept
               ELSE [kept EXCEPT !.mods[q] = Held(s, g) \cap Mods]

\* handle_group_key: the press is noted with who takes it, the release goes to
\* who took the press.
GroupKey(s, g, k, pressed) ==
    LET by == IF pressed THEN Consumer(s, g, k) ELSE s.grp[g].by[k]
        noted == [s EXCEPT !.grp[g].by[k] = IF pressed THEN by ELSE None,
                           !.grp[g].n[k] = IF pressed THEN 1 ELSE 0]
        handed == Deliver(noted, g, k, by, pressed)
    IN IF k \in Mods THEN Modifiers(handed, g) ELSE handed

\* Mutant: a release is counted whether or not the group noted the press.
ProcessAnyKey(s, g, k, pressed) ==
    CASE s.grp[g].by[k] # None /\ pressed -> [s EXCEPT !.grp[g].n[k] = @ + 1]
      [] s.grp[g].by[k] = None /\ pressed -> GroupKey(s, g, k, TRUE)
      [] s.grp[g].n[k] = 1 /\ ~pressed -> GroupKey(s, g, k, FALSE)
      [] OTHER -> [s EXCEPT !.grp[g].n[k] = @ - 1]

\* KeyboardGroup::process_key: only the first press and the last release of a
\* key reach the group's handler.
ProcessKey(s, g, k, pressed) ==
    CASE s.grp[g].by[k] # None /\ pressed -> [s EXCEPT !.grp[g].n[k] = @ + 1]
      [] s.grp[g].by[k] # None /\ ~pressed ->
           IF s.grp[g].n[k] = 1 THEN GroupKey(s, g, k, FALSE) ELSE [s EXCEPT !.grp[g].n[k] = @ - 1]
      [] s.grp[g].by[k] = None ->
           IF pressed /\ Cardinality(Held(s, g)) < MaxHeld THEN GroupKey(s, g, k, TRUE) ELSE s

\* handle_key: a keyboard notes the key and feeds its group.
DeviceKey(s, d, k, pressed) ==
    LET noted == [s EXCEPT !.kbd[d].held =
                      IF ~pressed THEN @ \ {k}
                      ELSE IF Cardinality(@) < MaxHeld THEN @ \cup {k} ELSE @]
    IN IF s.kbd[d].group = None THEN noted ELSE ProcessKey(noted, s.kbd[d].group, k, pressed)

Down(d, k) ==
    /\ st.kbd[d].plugged /\ k \notin st.kbd[d].down
    /\ st' = DeviceKey([st EXCEPT !.kbd[d].down = @ \cup {k}], d, k, TRUE)
    /\ UNCHANGED <<synthetic, seats, focused, world, conf, changes>>

Up(d, k) ==
    /\ k \in st.kbd[d].down
    /\ st' = DeviceKey([st EXCEPT !.kbd[d].down = @ \ {k}], d, k, FALSE)
    /\ UNCHANGED <<synthetic, seats, focused, world, conf, changes>>

-----------------------------------------------------------------------------
(* Groups.                                                                 *)

\* Keyboard::release_pressed.
ReleasePressed(s, d) ==
    LET g == s.kbd[d].group
        bare == [s EXCEPT !.kbd[d].held = {}]
    IN IF g = None THEN bare
       ELSE FoldSet(LAMBDA k, t : ProcessKey(t, g, k, FALSE), bare, s.kbd[d].held)

\* KeyboardGroup::unref: the last reference frees it, and the seat goes on to
\* its oldest other group.
Unref(s, g) ==
    LET q == s.grp[g].seat
        left == Drop(s.order[q], g)
    IN IF s.grp[g].refs > 1 THEN [s EXCEPT !.grp[g].refs = @ - 1]
       ELSE LET gone == [s EXCEPT !.order[q] = left]
                next == IF s.active[q] # g THEN gone
                        ELSE SetKeyboard(gone, q, IF left = <<>> THEN None ELSE Head(left))
            IN [next EXCEPT !.grp[g] = Free]

\* Keyboard::leave_group: keys are forgotten, not released.
LeaveGroup(s, d) ==
    LET g == s.kbd[d].group
    IN IF g = None THEN s
       ELSE Unref([s EXCEPT !.kbd[d].held = {}, !.kbd[d].group = None], g)

\* KeyboardGroup::create, in a free slot.
NewGroup(s) == CHOOSE g \in Slots : s.grp[g].refs = 0
Create(s, q, g, cfg, virtual) ==
    [s EXCEPT !.grp[g] = [Free EXCEPT !.refs = 1, !.seat = q, !.virtual = virtual, !.cfg = cfg],
              !.order[q] = Append(@, g)]

\* Keyboard::set_group: hardware joins the oldest hardware group of its
\* configuration; a virtual keyboard's group is its own.
SetGroup(s, d, q) ==
    LET cfg == s.kbd[d].cfg
        shared == Only(s.order[q], {g \in Slots : ~s.grp[g].virtual /\ s.grp[g].cfg = cfg})
        own == NewGroup(s)
    IN IF d \in Hardware /\ shared # <<>>
       THEN [s EXCEPT !.kbd[d].group = Head(shared), !.grp[Head(shared)].refs = @ + 1]
       ELSE [Create(s, q, own, cfg, d \in Virtual) EXCEPT !.kbd[d].group = own]

\* Seat::attach_device (the enter that follows finds the client entered).
Attach(s, d, q) ==
    LET in == SetGroup([s EXCEPT !.kbd[d].seat = q], d, q)
    IN SetKeyboard(in, q, in.kbd[d].group)

-----------------------------------------------------------------------------
(* Keyboards come, move and go.                                            *)

\* handle_new_input.
PlugIn(d) ==
    /\ d \in Hardware /\ ~st.kbd[d].plugged
    /\ st' = Attach([st EXCEPT !.kbd[d] = [Unplugged EXCEPT !.plugged = TRUE, !.cfg = conf]], d, "default")
    /\ UNCHANGED <<synthetic, seats, focused, world, conf>>

\* handle_new_virtual_keyboard: bound to a seat that is being destroyed it
\* joins none.
NewVirtual(d, q) ==
    /\ d \in Virtual /\ ~st.kbd[d].plugged /\ seats[q] # "absent"
    /\ LET new == [st EXCEPT !.kbd[d] = [Unplugged EXCEPT !.plugged = TRUE]]
       IN st' = IF seats[q] = "leaving" THEN new ELSE Attach(new, d, q)
    /\ UNCHANGED <<synthetic, seats, focused, world, conf>>

\* wlr_keyboard_finish lets go of what the device holds.
Finish(s, d) == FoldSet(LAMBDA k, t : DeviceKey(t, d, k, FALSE), s, s.kbd[d].down)

\* Mutant: a keyboard leaves its group with its keys down.
UnplugHolding(d) ==
    /\ st.kbd[d].plugged
    /\ st' = [LeaveGroup(st, d) EXCEPT !.kbd[d] = Unplugged]
    /\ UNCHANGED <<synthetic, seats, focused, world, conf>>

\* handle_device_destroy.
Unplug(d) ==
    /\ st.kbd[d].plugged
    /\ LET idle == ReleasePressed(Finish(st, d), d)
       IN st' = [LeaveGroup(idle, d) EXCEPT !.kbd[d] = Unplugged]
    /\ UNCHANGED <<synthetic, seats, focused, world, conf>>

\* InputDevice::assign_to_seat.
Reassign(s, d, q) ==
    LET left == IF s.kbd[d].seat = None THEN s ELSE LeaveGroup(s, d)
    IN IF q = None THEN [left EXCEPT !.kbd[d].seat = None] ELSE Attach(left, d, q)

\* input_device_assign_to_seat: a client's request.
AssignToSeat(d, q) ==
    /\ st.kbd[d].plugged /\ d \in Hardware /\ seats[q] = "live" /\ st.kbd[d].seat # q
    /\ st' = Reassign(ReleasePressed(st, d), d, q)
    /\ UNCHANGED <<synthetic, seats, focused, world, conf>>

\* A client's Keyboard::set_repeat_info or set_keymap: the keyboard regroups.
Regroup(d, c) ==
    /\ st.kbd[d].plugged /\ d \in Hardware
    /\ LET left == LeaveGroup(ReleasePressed(st, d), d)
           new == [left EXCEPT !.kbd[d].cfg = c]
       IN st' = IF new.kbd[d].seat = None THEN new ELSE SetGroup(new, d, new.kbd[d].seat)
    /\ UNCHANGED <<synthetic, seats, focused, world, conf>>

\* WindowManager::apply_key_repeat: every hardware keyboard and its group
\* change in place.
ApplyKeyRepeat(c) ==
    /\ conf' = c /\ c # conf
    /\ LET theirs == {st.kbd[d].group : d \in {e \in Hardware : st.kbd[e].plugged}}
       IN st' = [st EXCEPT
            !.kbd = [d \in Devices |-> IF d \in Hardware /\ st.kbd[d].plugged
                                       THEN [st.kbd[d] EXCEPT !.cfg = c] ELSE st.kbd[d]],
            !.grp = [g \in Slots |-> IF g \in theirs THEN [st.grp[g] EXCEPT !.cfg = c] ELSE st.grp[g]]]
    /\ UNCHANGED <<synthetic, seats, focused, world>>

\* Seat::ensure_synthetic_keyboard, before keys are made up.
EnsureSynthetic(q) ==
    /\ seats[q] # "absent" /\ st.active[q] = None
    /\ LET cfg == CHOOSE c \in Configs : TRUE
           g == NewGroup(st)
       IN /\ synthetic' = [synthetic EXCEPT ![q] = g]
          /\ st' = SetKeyboard(Create(st, q, g, cfg, TRUE), q, g)
    /\ UNCHANGED <<seats, focused, world, conf>>

-----------------------------------------------------------------------------
(* Seats and focus.                                                        *)

CreateSeat ==
    /\ seats["other"] = "absent"
    /\ seats' = [seats EXCEPT !["other"] = "live"]
    /\ UNCHANGED <<st, synthetic, focused, world, conf>>

\* input_manager_destroy_seat: keys go up, then its devices leave it, the
\* hardware for the default seat (InputManager::release_seat).
DestroySeat ==
    /\ seats["other"] = "live"
    /\ seats' = [seats EXCEPT !["other"] = "leaving"]
    /\ LET its == {d \in Devices : st.kbd[d].plugged /\ st.kbd[d].seat = "other"}
           idle == FoldSet(LAMBDA d, s : ReleasePressed(s, d), st, its)
       IN st' = FoldSet(LAMBDA d, s : Reassign(s, d, IF d \in Virtual THEN None ELSE "default"), idle, its)
    /\ UNCHANGED <<synthetic, focused, world, conf>>

\* The manage pass's Seat::destroy; wlr_seat_destroy takes the virtual
\* keyboards bound to it along.
FinishSeat ==
    /\ seats["other"] = "leaving"
    /\ LET bare == IF synthetic["other"] = None THEN st ELSE Unref(st, synthetic["other"])
       IN st' = [bare EXCEPT !.entered["other"] = None, !.told["other"] = {},
                             !.listed["other"] = {}, !.mods["other"] = {},
                             !.kbd = [d \in Devices |-> IF bare.kbd[d].plugged /\ bare.kbd[d].seat = None
                                                        THEN Unplugged ELSE bare.kbd[d]]]
    /\ synthetic' = [synthetic EXCEPT !["other"] = None]
    /\ seats' = [seats EXCEPT !["other"] = "absent"]
    /\ focused' = [focused EXCEPT !["other"] = FALSE]
    /\ UNCHANGED <<world, conf>>

\* The client leaves, and forgets what was held.
Leave(s, q) == [s EXCEPT !.entered[q] = None, !.told[q] = {}, !.listed[q] = {}]

\* wlr_seat_keyboard_notify_enter: nothing for the surface it is in already.
Enter(s, q, w, keys) ==
    IF s.entered[q] = w THEN s
    ELSE LET a == s.active[q]
             theirs == IF a = None THEN {} ELSE {k \in Keys : s.grp[a].by[k] = "focus"}
         IN [s EXCEPT !.entered[q] = w, !.told[q] = keys, !.listed[q] = keys \ theirs,
                      !.mods[q] = IF a = None THEN {} ELSE Held(s, a) \cap Mods]

\* Seat::keyboard_notify_enter lists every key the group holds.
EnterHolding(s, q, w) == Enter(s, q, w, IF s.active[q] = None THEN {} ELSE Held(s, s.active[q]))

\* Seat::focus: the window is entered with no keys listed.
Focus(q) ==
    /\ seats[q] # "absent"
    /\ focused' = [focused EXCEPT ![q] = ~@]
    /\ st' = IF focused[q] THEN Leave(st, q) ELSE Enter(Leave(st, q), q, "window", {})
    /\ UNCHANGED <<synthetic, seats, world, conf>>

\* XwaylandOverrideRedirect::focus_if_desired for a menu of the focused
\* window's client.
OpenMenu ==
    /\ ~world.menu /\ ~world.locked
    /\ world' = [world EXCEPT !.menu = TRUE]
    /\ st' = IF focused["default"] THEN EnterHolding(st, "default", "menu") ELSE st
    /\ UNCHANGED <<synthetic, seats, focused, conf>>

\* handle_unmap: the keyboard goes back to the window.
CloseMenu ==
    /\ world.menu
    /\ world' = [world EXCEPT !.menu = FALSE]
    /\ st' = IF st.entered["default"] # "menu" THEN st
             ELSE IF focused["default"] THEN EnterHolding(st, "default", "window")
             ELSE Leave(st, "default")
    /\ UNCHANGED <<synthetic, seats, focused, conf>>

\* The rest of the session changes under held keys: the lock, the overview,
\* what is bound (a reload, a portal), and an input method's grab, whose keys
\* go with it.
Around ==
    /\ \/ world' = [world EXCEPT !.locked = ~@] /\ UNCHANGED st
       \/ world' = [world EXCEPT !.overview = ~@] /\ UNCHANGED st
       \/ \E k \in Keys : \E c \in {"none", "binding", "kept", "portal"} \ {world.claim[k]} :
             world' = [world EXCEPT !.claim[k] = c] /\ UNCHANGED st
       \/ world' = [world EXCEPT !.grab = ~@] /\ st' = [st EXCEPT !.imKeys = {}, !.imMods = {}]
    /\ UNCHANGED <<synthetic, seats, focused, conf>>

Change ==
    \/ \E d \in Devices :
         \/ PlugIn(d) \/ Unplug(d)
         \/ \E q \in Seats : NewVirtual(d, q) \/ AssignToSeat(d, q)
         \/ \E c \in Configs : Regroup(d, c)
    \/ \E c \in Configs : ApplyKeyRepeat(c)
    \/ \E q \in Seats : EnsureSynthetic(q) \/ Focus(q)
    \/ CreateSeat \/ DestroySeat \/ FinishSeat
    \/ OpenMenu \/ CloseMenu \/ Around

Next ==
    \/ \E d \in Devices, k \in Keys : Down(d, k) \/ Up(d, k)
    \/ changes < MaxChanges /\ changes' = changes + 1 /\ Change

Spec == Init /\ [][Next]_vars

-----------------------------------------------------------------------------
\* The groups a seat has.
Groups(q) == Range(st.order[q])
Holding(q, who) == UNION {{k \in Keys : st.grp[g].by[k] = who} : g \in Groups(q)}

\* No key sticks: a key the focused client takes for held, an input method was
\* given or a portal's shortcut announced is held down in a group that will
\* bring its release there.  (Keys an enter listed although another took
\* their press are not: seat.rs:805.)
NothingSticks ==
    /\ \A q \in Seats : st.told[q] \ st.listed[q] \subseteq Holding(q, "focus")
    /\ st.imKeys \subseteq UNION {Holding(q, "grab") : q \in Seats}
    /\ st.shortcuts \subseteq UNION {Holding(q, "portal") : q \in Seats}

\* A group never counts a key more often than keyboards of it hold it, and so
\* is empty once they are; it has as many references as keyboards, and its
\* keyboards share its configuration (match_config).
GroupsCount ==
    \A g \in Slots :
       LET its == {d \in Devices : st.kbd[d].group = g}
       IN /\ st.grp[g].refs = Cardinality(its) + Cardinality({q \in Seats : synthetic[q] = g})
          /\ st.grp[g].refs > 0 <=> \E q \in Seats : g \in Groups(q)
          /\ \A k \in Keys : st.grp[g].n[k] <= Cardinality({d \in its : k \in st.kbd[d].held})
          /\ \A d \in its \cap Hardware : st.kbd[d].cfg = st.grp[g].cfg
          /\ \A d \in its \cap Virtual : its = {d}

\* A seat's keyboard is one of its groups, and a seat that goes has none left
\* (the assertion of Seat::destroy).
SeatsKeyboardLives ==
    \A q \in Seats :
       /\ st.active[q] = None \/ st.active[q] \in Groups(q)
       /\ seats[q] = "leaving" => Groups(q) \subseteq {synthetic[q]}
       /\ seats[q] = "absent" => st.order[q] = <<>>

KeysAreSound == NothingSticks /\ GroupsCount /\ SeatsKeyboardLives

\* A press that a group counts is one that its keyboard notes.  A keyboard that
\* holds MaxHeld keys notes no more, and its group may (keyboard.rs:331).
PressIsNoted ==
    \A d \in Devices, k \in Keys :
       Down(d, k) => k \in st'.kbd[d].held \/ st'.grp = st.grp
EveryPressIsNoted == [][PressIsNoted]_vars

\* Only the last release of a key reaches the group (keyboard_group.rs:288).
LastReleaseCounts ==
    \A d \in Devices, k \in Keys :
       k \in st.kbd[d].held /\ st.kbd[d].group # None => st.grp[st.kbd[d].group].by[k] # None

\* A key a portal's shortcut took does not reach the client (keyboard_group.rs:13).
ShortcutsStayOut == \A q \in Seats : st.told[q] \cap Holding(q, "portal") = {}

\* While the session is locked the focused client is told of the modifiers
\* held (keyboard_group.rs:403).
LockHearsModifiers ==
    \A q \in Seats : world.locked /\ st.entered[q] # None /\ st.active[q] # None =>
       st.mods[q] = Held(st, st.active[q]) \cap Mods

\* A made-up keyboard is for a seat without a real one (seat.rs:717).
SyntheticIsLast ==
    [][\A q \in Seats : synthetic[q] = None /\ synthetic'[q] # None =>
          ~\E d \in Hardware : st.kbd[d].plugged /\ st.kbd[d].seat = q]_vars
=============================================================================

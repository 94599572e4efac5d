----------------------------- MODULE TextRelay ------------------------------
(***************************************************************************)
(* Text fields, the input method and the on-screen keyboard                *)
(* (input_relay.rs, text_input.rs, input_popup.rs, osk.rs).                *)
(*                                                                         *)
(* Clients' text inputs are entered with their surface's focus; the one    *)
(* enabled is relayed to the seat's input method, whose popups follow the  *)
(* field.  A field enabled right after a touch raises the on-screen        *)
(* keyboard, and its loss takes it down after a while.                     *)
(***************************************************************************)
EXTENDS Naturals, FiniteSets

CONSTANTS
    Inputs,     \* text inputs
    Surfaces,   \* focusable surfaces
    ClientOf,   \* whose an input or a surface is
    Popups,     \* the input method's popups
    MaxEvents,  \* bound: steps of a behaviour
    None

VARIABLES
    input,      \* an input's surface (focused_surface), and whether wlroots has it enabled
    there,      \* surfaces that exist
    focus,      \* the seat's focused surface
    active,     \* InputRelay::text_input
    method,     \* the input method: "none", "idle" or "active" (what it was told)
    grab,       \* it holds a keyboard grab
    popup,      \* its popups: mapped, and the field's surface they hang under, or "hidden"
    touched,    \* Osk::armed_at: "no", "fresh" or "stale"
    board,      \* Osk::shown_by_us
    hiding,     \* the hide timer runs
    steps

textVars == <<input, there, focus, active, method, grab, popup, touched, board, hiding, steps>>

Out == [live |-> FALSE, at |-> None, on |-> FALSE]
Unmade == [live |-> FALSE, mapped |-> FALSE, under |-> "hidden"]

TypeOK ==
    /\ input \in [Inputs -> [live : BOOLEAN, at : Surfaces \cup {None}, on : BOOLEAN]]
    /\ there \subseteq Surfaces /\ focus \in Surfaces \cup {None}
    /\ active \in Inputs \cup {None} /\ method \in {"none", "idle", "active"} /\ grab \in BOOLEAN
    /\ popup \in [Popups -> [live : BOOLEAN, mapped : BOOLEAN, under : Surfaces \cup {"hidden"}]]
    /\ touched \in {"no", "fresh", "stale"} /\ board \in BOOLEAN /\ hiding \in BOOLEAN
    /\ steps \in 0..MaxEvents

Init ==
    /\ input = [t \in Inputs |-> Out] /\ there = Surfaces /\ focus = None
    /\ active = None /\ method = "none" /\ grab = FALSE
    /\ popup = [p \in Popups |-> Unmade]
    /\ touched = "no" /\ board = FALSE /\ hiding = FALSE /\ steps = 0

\* InputPopup::update: with no field it is hidden; under a mapped one's surface
\* otherwise, and where it was while that is unknown.
Placed(p, act, at) ==
    CASE act = None -> [p EXCEPT !.under = "hidden"]
      [] act # None /\ p.live /\ p.mapped /\ at # None -> [p EXCEPT !.under = at]
      [] OTHER -> p
PopupsFor(act, at) == [p \in Popups |-> IF popup[p].live THEN Placed(popup[p], act, at) ELSE popup[p]]

-----------------------------------------------------------------------------
(* The on-screen keyboard.                                                 *)

\* Osk::field_active: a fresh touch is spent on showing the board.
FieldActive ==
    /\ hiding' = FALSE /\ touched' = "no"
    /\ board' = (board \/ touched = "fresh")
\* Osk::field_gone.
FieldGone == hiding' = (hiding \/ board) /\ UNCHANGED <<touched, board>>

Touch == touched' = "fresh" /\ UNCHANGED <<input, there, focus, active, method, grab, popup, board, hiding>>
TouchAges == touched = "fresh" /\ touched' = "stale"
             /\ UNCHANGED <<input, there, focus, active, method, grab, popup, board, hiding>>
\* handle_hide_timer.
HideTimer ==
    /\ hiding /\ hiding' = FALSE /\ board' = FALSE
    /\ UNCHANGED <<input, there, focus, active, method, grab, popup, touched>>

-----------------------------------------------------------------------------
(* The relay.                                                              *)

\* Mutant: the input method is not told.
DisableQuietly ==
    /\ active' = None /\ FieldGone
    /\ UNCHANGED <<method, popup>>

\* InputRelay::disable_text_input.
DisableField ==
    /\ active' = None /\ FieldGone
    /\ method' = IF method = "none" THEN "none" ELSE "idle"
    /\ popup' = IF method = "none" THEN popup ELSE PopupsFor(None, None)
KeepField == UNCHANGED <<active, touched, board, hiding, method, popup>>

\* InputRelay::focus: inputs on another surface are left, the enabled one let
\* go unless its surface keeps the focus, and the new client's entered.
FocusOn(s) ==
    /\ focus' = s
    /\ LET kept(t) == input[t].at # None /\ input[t].at = s
           left == [t \in Inputs |-> IF kept(t) THEN input[t] ELSE [input[t] EXCEPT !.at = None]]
           enters(t) == input[t].live /\ left[t].at = None /\ s # None /\ ClientOf[t] = ClientOf[s]
       IN /\ input' = [t \in Inputs |-> IF enters(t) THEN [left[t] EXCEPT !.at = s] ELSE left[t]]
          /\ IF active # None /\ ~kept(active) THEN DisableField ELSE KeepField
    /\ UNCHANGED <<there, grab>>

FocusTo(s) == s \in there \cup {None} /\ FocusOn(s)

\* A client's surface goes: wlroots forgets it for the inputs on it, and the
\* seat's focus moves on at a later manage pass.
SurfaceGoes(s) ==
    /\ s \in there
    /\ there' = there \ {s}
    /\ input' = [t \in Inputs |-> IF input[t].at = s THEN [input[t] EXCEPT !.at = None] ELSE input[t]]
    /\ UNCHANGED <<focus, active, method, grab, popup, touched, board, hiding>>

\* TextInput::create: one bound after its surface took the focus is entered now.
BindInput(t) ==
    /\ ~input[t].live
    /\ input' = [input EXCEPT ![t] = [live |-> TRUE, on |-> FALSE,
                   at |-> IF focus \in there /\ ClientOf[t] = ClientOf[focus] THEN focus ELSE None]]
    /\ UNCHANGED <<there, focus, grab>> /\ KeepField

\* handle_enable: refused without a surface, and while another is enabled.
Enabled(t) ==
    IF input[t].at = None \/ active \notin {None, t} THEN KeepField
    ELSE /\ active' = t /\ FieldActive
         /\ method' = IF method = "none" THEN "none" ELSE "active"
         /\ popup' = IF method = "none" THEN popup ELSE PopupsFor(t, input[t].at)

\* handle_commit.
Committed(t) ==
    IF active # t THEN KeepField
    ELSE /\ UNCHANGED <<active, method>> /\ FieldActive
         /\ popup' = IF method = "none" THEN popup ELSE PopupsFor(t, input[t].at)

\* handle_disable.
Disabled(t) == IF active = t THEN DisableField ELSE KeepField

\* A client's commit: wlroots turns it into an enable, a disable or a commit by
\* what it had.
ClientCommits(t, on) ==
    /\ input[t].live
    /\ input' = [input EXCEPT ![t].on = on]
    /\ CASE on /\ ~input[t].on -> Enabled(t)
         [] ~on /\ input[t].on -> Disabled(t)
         [] OTHER -> Committed(t)
    /\ UNCHANGED <<there, focus, grab>>

\* handle_destroy.
DestroyInput(t) ==
    /\ input[t].live /\ input' = [input EXCEPT ![t] = Out]
    /\ Disabled(t)
    /\ UNCHANGED <<there, focus, grab>>

\* InputRelay::new_input_method: a second one is told it is unavailable; one
\* that comes late is told of the field enabled already.
NewMethod ==
    /\ method = "none"
    /\ method' = IF active # None THEN "active" ELSE "idle"
    /\ UNCHANGED <<input, there, focus, active, grab, popup, touched, board, hiding>>

\* handle_input_method_destroy: its popups and grab go with it, the fields stay.
DestroyMethod ==
    /\ method # "none" /\ method' = "none" /\ grab' = FALSE
    /\ popup' = [p \in Popups |-> Unmade]
    /\ UNCHANGED <<input, there, focus, active, touched, board, hiding>>

\* handle_input_method_grab_keyboard and its destroy.
Grab ==
    /\ method # "none" /\ grab' = ~grab
    /\ UNCHANGED <<input, there, focus, active, method, popup, touched, board, hiding>>

FieldAt == IF active = None THEN None ELSE input[active].at

\* InputPopup::create, its map, commit, unmap and destroy.
NewPopup(p) ==
    /\ method # "none" /\ ~popup[p].live
    /\ popup' = [popup EXCEPT ![p] = Placed([Unmade EXCEPT !.live = TRUE], active, FieldAt)]
    /\ UNCHANGED <<input, there, focus, active, method, grab, touched, board, hiding>>
MapPopup(p) ==
    /\ popup[p].live /\ ~popup[p].mapped
    /\ popup' = [popup EXCEPT ![p] = Placed([@ EXCEPT !.mapped = TRUE], active, FieldAt)]
    /\ UNCHANGED <<input, there, focus, active, method, grab, touched, board, hiding>>
UnmapPopup(p) ==
    /\ popup[p].mapped
    /\ popup' = [popup EXCEPT ![p].mapped = FALSE, ![p].under = "hidden"]
    /\ UNCHANGED <<input, there, focus, active, method, grab, touched, board, hiding>>
DestroyPopup(p) ==
    /\ popup[p].live /\ popup' = [popup EXCEPT ![p] = Unmade]
    /\ UNCHANGED <<input, there, focus, active, method, grab, touched, board, hiding>>

Next ==
    \/ /\ steps < MaxEvents /\ steps' = steps + 1
       /\ \/ \E s \in Surfaces \cup {None} : FocusTo(s) \/ SurfaceGoes(s)
          \/ \E t \in Inputs : BindInput(t) \/ DestroyInput(t) \/ \E on \in BOOLEAN : ClientCommits(t, on)
          \/ NewMethod \/ DestroyMethod \/ Grab \/ Touch
          \/ \E p \in Popups : NewPopup(p) \/ MapPopup(p) \/ UnmapPopup(p) \/ DestroyPopup(p)
    \/ UNCHANGED steps /\ (TouchAges \/ HideTimer)

Spec == Init /\ [][Next]_textVars /\ WF_textVars(UNCHANGED steps /\ HideTimer)

-----------------------------------------------------------------------------
\* A text input is in the focused surface or in none, and the enabled one is a
\* live input of it (or of a surface that has just gone).
FieldsFollowFocus ==
    /\ \A t \in Inputs : input[t].at \in {focus, None}
    /\ active # None => input[active].live

\* The input method is told of an enabled field exactly while there is one.
MethodKnowsField == method # "none" => (method = "active") = (active # None)

\* A popup shows under the enabled field's surface and nowhere else.
PopupsFollowField ==
    \A p \in Popups : popup[p].under # "hidden" => active # None /\ input[active].at \in {popup[p].under, None}

\* The board this module raised stays up only for a field, or until its timer.
BoardFollowsField == board /\ active = None => hiding

RelayIsSound == FieldsFollowFocus /\ MethodKnowsField /\ PopupsFollowField /\ BoardFollowsField

BoardGoes == (board /\ active = None) ~> (~board \/ active # None)
=============================================================================

------------------------------ MODULE MCInput -------------------------------
(***************************************************************************)
(* The seat: keyboards, focus, text input, pointer constraints, button     *)
(* grabs, played keys, fingers, gestures, the switching of windows and     *)
(* pens.  The parts share no state, and one runs at a time.  The constants *)
(* are any; the values TLC gives them are at the end.                      *)
(***************************************************************************)
EXTENDS TLC, Integers, FiniteSets

VARIABLES part,
  st, synthetic, seats, kFocused, world, kConf, changes,
  win, hidden, layer, asks, stack, closing, menu, focused, keyboard, scheduled, sent,
  history, lock, dirty, events,
  input, there, rFocus, rActive, method, grab, popup, touched, board, hiding, rSteps,
  on, region, active, held, focus, over, node, mode, op, locked, steps,
  down, pressed, notified, told, robbed, at, ptr, hover, gOp, disc, gMenu, drag,
  super, overview, pan, alive, gEvents,
  g, eAt, conf, crossed, moves,
  t, mouse, adjusting, touches,
  gest, fingers, allowed, mixed, strokes,
  sWin, sStack, drawn, recent, sFocused, cycle, sActive, shown, walk, sEvents,
  near, under, onto, tip, buttons, penMode, image, pGrab, fresh, pStrokes

keyVars == <<st, synthetic, seats, kFocused, world, kConf, changes>>
focusVars == <<win, hidden, layer, asks, stack, closing, menu, focused, keyboard, scheduled, sent,
               history, lock, dirty, events>>
textVars == <<input, there, rFocus, rActive, method, grab, popup, touched, board, hiding, rSteps>>
holdVars == <<on, region, active, held, focus, over, node, mode, op, locked, steps>>
grabVars == <<down, pressed, notified, told, robbed, at, ptr, hover, gOp, disc, gMenu, drag,
              super, overview, pan, alive, gEvents>>
emuVars == <<g, eAt, conf, crossed, moves>>
touchVars == <<t, mouse, adjusting, touches>>
gestVars == <<gest, fingers, allowed, mixed, strokes>>
switchVars == <<sWin, sStack, drawn, recent, sFocused, cycle, sActive, shown, walk, sEvents>>
penVars == <<near, under, onto, tip, buttons, penMode, image, pGrab, fresh, pStrokes>>
restVars == <<switchVars, penVars>>
vars == <<part, keyVars, focusVars, textVars, holdVars, grabVars, emuVars, touchVars, gestVars, restVars>>

CONSTANTS
  Hardware, Virtual, Keycodes, Mods, Configs, MaxHeld, MaxChanges,        \* Keyboards
  Toplevels, Stacked, Fullscreen, Layers, Menus, XWindow, Parented, FocusEvents,  \* SeatFocus
  Inputs, Surfaces, ClientOf, Popups, TextEvents,                         \* TextRelay
  Constraints, Oneshot, Locking, HoldEvents,                              \* PointerHold
  Windows, KindOf, GrabEvents,                                            \* PointerGrab
  PlayEvents,                                                             \* Emulation
  Fingers, MaxTouches,                                                    \* Touch
  MaxGestures,                                                            \* Gestures
  WindowSlots, Tiled, NameOf, SwitchEvents,                                    \* Switcher
  MaxStrokes,                                                             \* TabletTool
  None

Keys == INSTANCE Keyboards WITH Keys <- Keycodes, focused <- kFocused, conf <- kConf
Focus == INSTANCE SeatFocus WITH Windows <- Toplevels, MaxEvents <- FocusEvents
Text == INSTANCE TextRelay WITH MaxEvents <- TextEvents,
    focus <- rFocus, active <- rActive, steps <- rSteps
Hold == INSTANCE PointerHold WITH MaxEvents <- HoldEvents
Grab == INSTANCE PointerGrab WITH MaxEvents <- GrabEvents, op <- gOp, menu <- gMenu, events <- gEvents
Play == INSTANCE Emulation WITH MaxEvents <- PlayEvents, at <- eAt
Touch == INSTANCE Touch WITH overview <- adjusting
Gest == INSTANCE Gestures
Switch == INSTANCE Switcher WITH Slots <- WindowSlots, MaxEvents <- SwitchEvents,
    win <- sWin, stack <- sStack, focused <- sFocused, active <- sActive, events <- sEvents
Pen == INSTANCE TabletTool WITH grab <- pGrab, strokes <- pStrokes

\* What stands for no window, surface or constraint is none.
ASSUME NoneIsNone == None \notin Constraints \cup Surfaces \cup Windows \cup Fingers \cup Inputs

ASSUME BoundsAssumption ==
    {HoldEvents, GrabEvents, PlayEvents, TextEvents, FocusEvents, MaxTouches, MaxGestures} \subseteq Nat

ASSUME KindAssumption == KindOf \in [Windows -> {"app", "bar", "grid", "dock"}]

\* Keyboards are told apart from each other and from seats, and what is no seat, group,
\* surface or consumer of a key is none of them.
ASSUME KeyAssumption ==
    /\ IsFiniteSet(Hardware) /\ IsFiniteSet(Virtual) /\ Hardware \cap Virtual = {}
    /\ (Hardware \cup Virtual) \cap {"default", "other"} = {}
    /\ IsFiniteSet(Keycodes) /\ Configs # {} /\ {MaxHeld, MaxChanges} \subseteq Nat
    /\ None \notin Nat \cup {"default", "other", "window", "menu", "binding", "portal", "grab", "focus"}

\* Who may have the focus: windows, layer surfaces, menus and the lock, told apart.
ASSUME WhoAssumption ==
    /\ IsFiniteSet(Layers) /\ XWindow \in Toplevels /\ Parented \subseteq Layers
    /\ Stacked \subseteq Toplevels /\ Fullscreen \subseteq Toplevels
    /\ Toplevels \cap Layers = {} /\ (Toplevels \cup Layers) \cap Menus = {}
    /\ {"lock", None} \cap (Toplevels \cup Layers \cup Menus) = {} /\ None # "lock"

\* Windows are slots with a generation, which None is not.
ASSUME SlotAssumption == IsFiniteSet(WindowSlots) /\ None \notin WindowSlots \X Nat

\* Only the part chosen at the start runs.
Init ==
    /\ part \in {"keys", "focus", "text", "hold", "grab", "play", "touch", "gestures", "switch", "pen"}
    /\ Keys!Init /\ Focus!Init /\ Text!Init /\ Hold!Init /\ Grab!Init /\ Play!Init
    /\ Touch!Init /\ Gest!Init /\ Pen!Init /\ Switch!Init
    /\ part # "switch" => sFocused = sStack[1]

Next ==
    /\ \/ /\ part = "keys" /\ Keys!Next
          /\ UNCHANGED <<focusVars, textVars, holdVars, grabVars, emuVars, touchVars, gestVars, restVars>>
       \/ /\ part = "focus" /\ Focus!Next
          /\ UNCHANGED <<keyVars, textVars, holdVars, grabVars, emuVars, touchVars, gestVars, restVars>>
       \/ /\ part = "text" /\ Text!Next
          /\ UNCHANGED <<keyVars, focusVars, holdVars, grabVars, emuVars, touchVars, gestVars, restVars>>
       \/ /\ part = "hold" /\ Hold!Next
          /\ UNCHANGED <<keyVars, focusVars, textVars, grabVars, emuVars, touchVars, gestVars, restVars>>
       \/ /\ part = "grab" /\ Grab!Next
          /\ UNCHANGED <<keyVars, focusVars, textVars, holdVars, emuVars, touchVars, gestVars, restVars>>
       \/ /\ part = "play" /\ Play!Next
          /\ UNCHANGED <<keyVars, focusVars, textVars, holdVars, grabVars, touchVars, gestVars, restVars>>
       \/ /\ part = "touch" /\ Touch!Next
          /\ UNCHANGED <<keyVars, focusVars, textVars, holdVars, grabVars, emuVars, gestVars, restVars>>
       \/ /\ part = "gestures" /\ Gest!Next
          /\ UNCHANGED <<keyVars, focusVars, textVars, holdVars, grabVars, emuVars, touchVars, restVars>>
       \/ /\ part = "switch" /\ Switch!Next
          /\ UNCHANGED <<keyVars, focusVars, textVars, holdVars, grabVars, emuVars, touchVars, gestVars, penVars>>
       \/ /\ part = "pen" /\ Pen!Next
          /\ UNCHANGED <<keyVars, focusVars, textVars, holdVars, grabVars, emuVars, touchVars, gestVars, switchVars>>
    /\ UNCHANGED part

\* The fairness each module states for itself, of the part that runs.
Spec ==
    /\ Init /\ [][Next]_vars
    /\ WF_focusVars(part = "focus" /\ UNCHANGED events /\ Focus!ManagePass({}))
    /\ WF_textVars(part = "text" /\ UNCHANGED rSteps /\ Text!HideTimer)
    /\ WF_grabVars(part = "grab" /\ UNCHANGED gEvents /\ Grab!PanTick)
    /\ WF_emuVars(part = "play" /\ UNCHANGED moves /\ Play!Timeout)
    /\ WF_switchVars(part = "switch" /\ Switch!Thread)

\* A key's press and its release go the same way, and what the group holds is
\* what its keyboards hold (Keyboards).
KeysAreSound == Keys!TypeOK /\ Keys!KeysAreSound

\* The keyboard is with someone who is alive and has it, text goes to the field
\* that asked for it, and the keys that switch windows come to every window
\* (SeatFocus, TextRelay, Switcher).
FocusIsSound ==
    /\ Switch!TypeOK /\ Switch!SwitchingIsSound
    /\ Focus!TypeOK /\ Focus!FocusIsAlive /\ Focus!KeyboardFollowsFocus /\ Focus!ScheduledIsLive
    /\ Text!TypeOK /\ Text!RelayIsSound

\* What holds the pointer or a pen, a constraint, a drag or an op, is alive and
\* alone (PointerHold, PointerGrab, TabletTool).
PointerIsSound ==
    /\ Hold!TypeOK /\ Hold!HoldIsSound /\ Grab!TypeOK /\ Grab!GrabIsSound
    /\ Pen!TypeOK /\ Pen!PenIsSound

\* Every finger, stroke and played key is someone's and is taken back (Touch,
\* Gestures, Emulation).
FingersAreSound ==
    /\ Touch!TypeOK /\ Touch!TouchIsSound /\ Gest!TypeOK /\ Gest!StrokesAreSound
    /\ Play!TypeOK /\ Play!GesturesAreSound

\* The pointer is locked only where a constraint applies (PointerHold).
LocksOnlyWhereItMay == Hold!LocksOnlyWhereItMay

\* A layer that wants the keyboard gets it, the board of a field that left goes,
\* an edge pan stops, a played gesture ends and so does a chooser's pipe.
InputSettles ==
    part \in {"focus", "text", "grab", "play", "switch"} =>
        Switch!PipeGoes /\ Focus!LayerGetsKeyboard /\ Text!BoardGoes /\ Grab!PanStops /\ Play!GesturesEnd

\* What the documentation says of fingers and of releases.
EveryFingerIsClaimed == Touch!EveryFingerIsClaimed
ReleaseReachesClient == Grab!ReleaseReachesClient

-----------------------------------------------------------------------------
(* The values of the constants for TLC.                                    *)
CONSTANTS h1, h2, virt, p, w1, w2, l1, l2, m, t1, t2, s1, s2, c1, c2, appW, barW, gridW, f1, f2, f3, k1, k2, k3

TwoKeyboards == {h1, h2}
OneVirtual == {virt}
OneKey == {p}
TwoConfigs == {1, 2}
TwoToplevels == {w1, w2}
OneStacked == {w1}
TwoLayers == {l1, l2}
OneMenu == {m}
OneParented == {l2}
TwoInputs == {t1, t2}
TwoSurfaces == {s1, s2}
TwoClients == (t1 :> 1 @@ t2 :> 1 @@ s1 :> 1 @@ s2 :> 2)
OnePopup == {p}
TwoConstraints == {c1, c2}
OneServesOnce == {c2}
OneLocks == {c1}
ThreeWindows == {appW, barW, gridW}
ThreeKinds == (appW :> "app" @@ barW :> "bar" @@ gridW :> "grid")
ThreeFingers == {f1, f2, f3}
ThreeSlots == {k1, k2, k3}
OneTiled == {k1}
TwoNames == (k1 :> "one" @@ k2 :> "one" @@ k3 :> "other")
=============================================================================

---------------------------- MODULE Input_proofs -----------------------------
(***************************************************************************)
(* What holds of the seat for any surfaces, windows, constraints, popups,  *)
(* text fields and fingers, however long it is used: the pointer and its   *)
(* constraints, pens, played keys, gestures and fingers, the keyboard's    *)
(* focus, text fields and the switching of windows.                        *)
(*                                                                         *)
(* Each part has an inductive invariant of its own, proved by one lemma    *)
(* per handler, and a theorem puts its parts together as the run checks    *)
(* them.  Lists are filtered and folded over in these modules: what that   *)
(* gives for a list of any length is proved by counting up to it (a set of *)
(* numbers that holds zero and, with each, the next holds them all).       *)
(***************************************************************************)
EXTENDS MCInput, Lists, FiniteSetTheorems, FunctionTheorems, WellFoundedInduction, TLAPS

-----------------------------------------------------------------------------
(* Pointer constraints (PointerHold).                                      *)

\* A surface has one constraint at most, and the held one is still there.
OneEach == \A c, d \in Constraints : on[c] # None /\ on[c] = on[d] => c = d
HeldIsThere == held # None => on[held] # None

\* The inductive invariant; the rest of the state does not matter to it.
HoldInv ==
    /\ on \in [Constraints -> Surfaces \cup {None}] /\ active \subseteq Constraints
    /\ held \in Constraints \cup {None}
    /\ Hold!HoldIsSound /\ OneEach /\ HeldIsThere

-----------------------------------------------------------------------------
(* Facts about the operators the actions share.                            *)

\* What is active is what the cursor holds.
LEMMA ActiveHeld ==
    ASSUME HoldInv, NEW c \in active
    PROVE  c = held /\ held # None /\ active = {held}
BY DEF HoldInv, Hold!HoldIsSound, Hold!ActiveIsHeld

\* Leaving them alone keeps it.
LEMMA HoldKeeps ==
    ASSUME HoldInv, UNCHANGED <<on, active, held, focus>>
    PROVE  HoldInv'
BY DEF HoldInv, Hold!HoldIsSound, Hold!HeldFollowsFocus, Hold!ActiveIsHeld, OneEach, HeldIsThere

\* So does activating the held one.
LEMMA ActivateKeeps ==
    ASSUME HoldInv, held # None, active' = active \cup {held},
           UNCHANGED <<on, held, focus>>
    PROVE  HoldInv'
BY DEF HoldInv, Hold!HoldIsSound, Hold!HeldFollowsFocus, Hold!ActiveIsHeld, OneEach,
       HeldIsThere

\* And a deactivation, since only the held one is active.
LEMMA DeactivateKeeps ==
    ASSUME HoldInv, NEW c \in active, Hold!Deactivate(c), UNCHANGED focus
    PROVE  HoldInv'
<1>1. c = held /\ held # None /\ active = {held} /\ c \in Constraints
  BY ActiveHeld DEF HoldInv
<1>2. active' = {} BY <1>1 DEF Hold!Deactivate
<1>3. CASE c \in Oneshot
  <2>1. on' = [on EXCEPT ![c] = None] /\ held' = None BY <1>1, <1>3 DEF Hold!Deactivate
  <2>2. \A d \in Constraints : on'[d] = IF d = c THEN None ELSE on[d]
    BY <2>1 DEF HoldInv
  <2>3. on' \in [Constraints -> Surfaces \cup {None}] BY <2>1 DEF HoldInv
  <2>4. \A d \in Constraints : ~(on'[d] # None /\ on'[d] = focus)
    BY <1>1, <2>2 DEF HoldInv, Hold!HoldIsSound, Hold!HeldFollowsFocus
  <2>5. OneEach' BY <2>2 DEF HoldInv, OneEach
  <2> QED BY <1>2, <2>1, <2>3, <2>4, <2>5
          DEF HoldInv, Hold!HoldIsSound, Hold!HeldFollowsFocus, Hold!ActiveIsHeld, HeldIsThere
<1>4. CASE c \notin Oneshot
  <2>1. UNCHANGED <<on, held>> BY <1>4 DEF Hold!Deactivate
  <2> QED BY <1>2, <2>1
          DEF HoldInv, Hold!HoldIsSound, Hold!HeldFollowsFocus, Hold!ActiveIsHeld, OneEach, HeldIsThere
<1> QED BY <1>3, <1>4

-----------------------------------------------------------------------------
(* The handlers that touch the constraints.                                *)

\* A new constraint is held if its surface has the focus.
LEMMA CreateKeeps ==
    ASSUME HoldInv, NEW c \in Constraints, NEW s \in Surfaces, Hold!Create(c, s)
    PROVE  HoldInv'
<1>1. /\ on[c] = None /\ \A d \in Constraints : on[d] # s
      /\ on' = [on EXCEPT ![c] = s] /\ s # None /\ focus' = focus
  BY NoneIsNone DEF Hold!Create, HoldInv
<1>2. \A d \in Constraints : on'[d] = IF d = c THEN s ELSE on[d]
  BY <1>1 DEF HoldInv
<1>3. on' \in [Constraints -> Surfaces \cup {None}] BY <1>1 DEF HoldInv
<1>4. OneEach' BY <1>1, <1>2 DEF HoldInv, OneEach
<1>5. CASE focus = s
  <2>1. held = None
    BY <1>1, <1>5 DEF HoldInv, Hold!HoldIsSound, Hold!HeldFollowsFocus
  <2>2. held' = c /\ active = {} /\ active' \subseteq {c} /\ c # None
    BY <1>5, <2>1, NoneIsNone DEF Hold!Create, HoldInv, Hold!HoldIsSound, Hold!ActiveIsHeld
  <2>3. Hold!HeldFollowsFocus'
    BY <1>1, <1>2, <1>5, <2>2 DEF Hold!HeldFollowsFocus, HoldInv, OneEach
  <2> QED BY <1>1, <1>2, <1>3, <1>4, <2>2, <2>3 DEF HoldInv, Hold!HoldIsSound, Hold!ActiveIsHeld, HeldIsThere
<1>6. CASE focus # s
  <2>1. UNCHANGED <<held, active>> BY <1>6 DEF Hold!Create
  <2>2. held # None => held \in Constraints /\ held # c
    BY <1>1 DEF HoldInv, HeldIsThere
  <2>3. Hold!HeldFollowsFocus'
    BY <1>1, <1>2, <1>6, <2>1, <2>2 DEF Hold!HeldFollowsFocus, HoldInv, Hold!HoldIsSound
  <2>4. HeldIsThere' BY <1>2, <2>1, <2>2 DEF HeldIsThere, HoldInv
  <2> QED BY <1>3, <1>4, <2>1, <2>3, <2>4
          DEF HoldInv, Hold!HoldIsSound, Hold!ActiveIsHeld
<1> QED BY <1>5, <1>6

\* One that goes is no longer held.
LEMMA DestroyKeeps ==
    ASSUME HoldInv, NEW c \in Constraints, Hold!Destroy(c)
    PROVE  HoldInv'
<1>1. /\ on' = [on EXCEPT ![c] = None] /\ active' = active \ {c} /\ focus' = focus
      /\ held' = IF held = c THEN None ELSE held
  BY DEF Hold!Destroy
<1>2. \A d \in Constraints : on'[d] = IF d = c THEN None ELSE on[d]
  BY <1>1 DEF HoldInv
<1>3. on' \in [Constraints -> Surfaces \cup {None}] BY <1>1 DEF HoldInv
<1>4. OneEach' BY <1>2 DEF HoldInv, OneEach
<1>5. held' # None => held' = held /\ held \in Constraints /\ held # c
  BY <1>1 DEF HoldInv
<1>6. Hold!HeldFollowsFocus'
  BY <1>1, <1>2, <1>5 DEF Hold!HeldFollowsFocus, HoldInv, Hold!HoldIsSound
<1>7. HeldIsThere' BY <1>2, <1>5 DEF HeldIsThere, HoldInv
<1>8. Hold!ActiveIsHeld' BY <1>1 DEF HoldInv, Hold!HoldIsSound, Hold!ActiveIsHeld
<1> QED BY <1>1, <1>3, <1>4, <1>6, <1>7, <1>8 DEF HoldInv, Hold!HoldIsSound

\* The focus takes the held constraint along.
LEMMA FocusToKeeps ==
    ASSUME HoldInv, NEW s \in Surfaces \cup {None}, Hold!FocusTo(s)
    PROVE  HoldInv'
<1> DEFINE lost == held # None /\ on[held] # s
           left == IF lost /\ held \in active /\ held \in Oneshot
                   THEN [on EXCEPT ![held] = None] ELSE on
           theirs == {c \in Constraints : s # None /\ left[c] = s}
<1>1. /\ s # focus /\ focus' = s /\ on' = left
      /\ active' = IF lost THEN active \ {held} ELSE active
      /\ held' = IF held # None /\ ~lost THEN held
                 ELSE IF theirs # {} THEN CHOOSE c \in theirs : TRUE ELSE None
  BY DEF Hold!FocusTo
<1>2. held # None => lost BY <1>1 DEF HoldInv, Hold!HoldIsSound, Hold!HeldFollowsFocus
<1>3. held' = IF theirs # {} THEN CHOOSE c \in theirs : TRUE ELSE None BY <1>1, <1>2
<1>4. active' = {} BY <1>1, <1>2 DEF HoldInv, Hold!HoldIsSound, Hold!ActiveIsHeld
<1>5. left \in [Constraints -> Surfaces \cup {None}] BY DEF HoldInv
<1>6. \A c \in Constraints : left[c] # None => left[c] = on[c]
  BY DEF HoldInv
<1>7. OneEach' BY <1>1, <1>6 DEF HoldInv, OneEach
<1>8. held' # None => held' \in theirs BY <1>3
<1>9. Hold!HeldFollowsFocus'
  <2>1. held' # None => on'[held'] = focus' BY <1>1, <1>8
  <2>2. ASSUME NEW c \in Constraints, on'[c] # None, on'[c] = focus' PROVE held' = c
    <3>1. c \in theirs BY <1>1, <2>2
    <3>2. held' \in theirs BY <1>3, <3>1
    <3>3. on'[held'] = on'[c] /\ held' \in Constraints BY <1>1, <3>1, <3>2
    <3> QED BY <1>7, <2>2, <3>3 DEF OneEach
  <2> QED BY <2>1, <2>2 DEF Hold!HeldFollowsFocus
<1>10. HeldIsThere' BY <1>1, <1>8 DEF HeldIsThere
<1>11. held' \in Constraints \cup {None} BY <1>8
<1> HIDE DEF lost, left, theirs
<1> QED BY <1>1, <1>4, <1>5, <1>7, <1>9, <1>10, <1>11 DEF HoldInv, Hold!HoldIsSound, Hold!ActiveIsHeld

\* Without constraints there is nothing to hold.
LEMMA HoldInit == Hold!Init => HoldInv
BY DEF Hold!Init, HoldInv, Hold!HoldIsSound, Hold!HeldFollowsFocus, Hold!ActiveIsHeld, OneEach, HeldIsThere

\* Every handler of pointer_constraint.rs keeps it, and so does the seat's focus.
LEMMA HoldNext ==
    ASSUME HoldInv, [Hold!Next]_(Hold!holdVars)
    PROVE  HoldInv'
<1>1. ASSUME NEW c \in Constraints, NEW s \in Surfaces, Hold!Create(c, s) PROVE HoldInv'
  BY <1>1, CreateKeeps
<1>2. ASSUME NEW c \in Constraints, Hold!Destroy(c) PROVE HoldInv'
  BY <1>2, DestroyKeeps
<1>3. ASSUME NEW c \in Constraints, NEW inside \in BOOLEAN, Hold!Commit(c, inside) PROVE HoldInv'
  <2>1. focus' = focus BY <1>3 DEF Hold!Commit
  <2>2. CASE c \in active /\ inside
    BY <1>3, <2>1, <2>2, HoldKeeps DEF Hold!Commit, Hold!Keep
  <2>3. CASE c \in active /\ ~inside
    <3>1. Hold!Deactivate(c) BY <1>3, <2>3 DEF Hold!Commit
    <3> QED BY <2>1, <2>3, <3>1, DeactivateKeeps
  <2>4. CASE c \notin active
    <3>1. UNCHANGED <<on, held>> BY <1>3, <2>4 DEF Hold!Commit
    <3>2. active' = active \/ (held = c /\ active' = active \cup {held})
      BY <1>3, <2>4 DEF Hold!Commit
    <3>3. c # None BY NoneIsNone
    <3> QED BY <2>1, <3>1, <3>2, <3>3, HoldKeeps, ActivateKeeps
  <2> QED BY <2>2, <2>3, <2>4
<1>4. ASSUME NEW s \in Surfaces \cup {None}, Hold!FocusTo(s) PROVE HoldInv'
  BY <1>4, FocusToKeeps
<1>5. ASSUME NEW to, NEW within, Hold!Motion(to, within) PROVE HoldInv'
  <2>1. focus' = focus BY <1>5 DEF Hold!Motion
  <2>2. Hold!Keep \/ (held \in active /\ Hold!Deactivate(held)) BY <1>5 DEF Hold!Motion
  <2> QED BY <2>1, <2>2, HoldKeeps, DeactivateKeeps DEF Hold!Keep
<1>6. ASSUME NEW s \in Surfaces, Hold!NodeGoes(s) PROVE HoldInv'
  <2>1. focus' = focus BY <1>6 DEF Hold!NodeGoes
  <2>2. Hold!Keep \/ \E c \in active : Hold!Deactivate(c) BY <1>6 DEF Hold!NodeGoes
  <2> QED BY <2>1, <2>2, HoldKeeps, DeactivateKeeps DEF Hold!Keep
<1>7. CASE Hold!UpdateState
  <2>1. focus' = focus /\ held # None BY <1>7 DEF Hold!UpdateState
  <2>2. \/ Hold!Keep \/ (held \in active /\ Hold!Deactivate(held))
        \/ UNCHANGED <<on, held>> /\ active' = active \cup {held}
    BY <1>7 DEF Hold!UpdateState, Hold!Keep
  <2> QED BY <2>1, <2>2, HoldKeeps, DeactivateKeeps, ActivateKeeps DEF Hold!Keep
<1>8. CASE Hold!Around
  BY <1>8, HoldKeeps DEF Hold!Around
<1>9. CASE UNCHANGED Hold!holdVars
  BY <1>9, HoldKeeps DEF Hold!holdVars
<1> QED BY <1>1, <1>2, <1>3, <1>4, <1>5, <1>6, <1>7, <1>8, <1>9 DEF Hold!Next

\* The rest of the state keeps its types.
LEMMA HoldTypes ==
    ASSUME HoldInv, HoldInv', Hold!TypeOK, [Hold!Next]_(Hold!holdVars)
    PROVE  Hold!TypeOK'
<1>1. steps' \in 0..HoldEvents BY BoundsAssumption DEF Hold!Next, Hold!TypeOK, Hold!holdVars
<1>2. /\ on' \in [Constraints -> Surfaces \cup {None}] /\ active' \subseteq Constraints
      /\ held' \in Constraints \cup {None} /\ held \in Constraints \cup {None}
  BY DEF HoldInv
<1> USE DEF Hold!TypeOK
<1>3. ASSUME region' \subseteq Constraints, focus' \in Surfaces \cup {None}, over' \in Surfaces \cup {None},
             node' \subseteq Surfaces, mode' \in {"normal", "overview", "adjust"}, op' \in BOOLEAN, locked' \in BOOLEAN
      PROVE Hold!TypeOK'
  BY <1>1, <1>2, <1>3
<1>4. ASSUME NEW c \in Constraints, NEW s \in Surfaces, Hold!Create(c, s) PROVE Hold!TypeOK'
  BY <1>3, <1>4 DEF Hold!Create
<1>5. ASSUME NEW c \in Constraints, Hold!Destroy(c) PROVE Hold!TypeOK'
  BY <1>3, <1>5 DEF Hold!Destroy
<1>6. ASSUME NEW c \in Constraints, NEW inside \in BOOLEAN, Hold!Commit(c, inside) PROVE Hold!TypeOK'
  BY <1>3, <1>6 DEF Hold!Commit
<1>7. ASSUME NEW s \in Surfaces \cup {None}, Hold!FocusTo(s) PROVE Hold!TypeOK'
  BY <1>3, <1>7 DEF Hold!FocusTo
<1>8. ASSUME NEW s \in node \cup {None}, NEW within \in BOOLEAN, Hold!Motion(s, within) PROVE Hold!TypeOK'
  <2>1. /\ UNCHANGED <<focus, node, mode, op>>
        /\ UNCHANGED <<over, region>> \/ Hold!Moves(s, within)
        /\ locked' \in BOOLEAN
    <3>1. (held \in Locking) \in BOOLEAN /\ FALSE \in BOOLEAN OBVIOUS
    <3>2. locked' = FALSE \/ locked' = (held \in Locking) BY <1>8 DEF Hold!Motion
    <3>3. locked' \in BOOLEAN BY <3>1, <3>2
    <3>4. UNCHANGED <<focus, node, mode, op>> BY <1>8 DEF Hold!Motion
    <3>5. UNCHANGED <<over, region>> \/ Hold!Moves(s, within) BY <1>8 DEF Hold!Motion
    <3> QED BY <3>3, <3>4, <3>5
  <2>2. region' \subseteq Constraints /\ over' \in Surfaces \cup {None} BY <1>2, <2>1 DEF Hold!Moves
  <2> QED BY <1>3, <2>1, <2>2
<1>9. ASSUME NEW s \in Surfaces, Hold!NodeGoes(s) PROVE Hold!TypeOK'
  BY <1>3, <1>9 DEF Hold!NodeGoes
<1>10. CASE Hold!UpdateState
  BY <1>3, <1>10 DEF Hold!UpdateState
<1>11. CASE Hold!Around
  <2>1. (~op) \in BOOLEAN OBVIOUS
  <2> QED BY <1>3, <1>11, <2>1 DEF Hold!Around
<1>12. CASE UNCHANGED Hold!holdVars
  BY <1>3, <1>12 DEF Hold!holdVars
<1> QED BY <1>4, <1>5, <1>6, <1>7, <1>8, <1>9, <1>10, <1>11, <1>12 DEF Hold!Next

\* Only a motion finds the pointer locked, and only where a constraint applies.
LEMMA LocksHere ==
    ASSUME HoldInv, [Hold!Next]_(Hold!holdVars)
    PROVE  [~locked /\ locked' => held # None /\ on[held] = focus /\ Hold!AppliesNow]_(Hold!holdVars)
<1> SUFFICES ASSUME Hold!Next, ~locked, locked'
             PROVE  held # None /\ on[held] = focus /\ Hold!AppliesNow
  OBVIOUS
<1>1. \E to, within : Hold!Motion(to, within)
  BY DEF Hold!Next, Hold!Create, Hold!Destroy, Hold!Commit, Hold!FocusTo, Hold!NodeGoes, Hold!UpdateState, Hold!Around
<1>2. held # None /\ held \in active /\ Hold!AppliesNow BY <1>1 DEF Hold!Motion
<1> QED BY <1>2 DEF HoldInv, Hold!HoldIsSound, Hold!HeldFollowsFocus

-----------------------------------------------------------------------------
(* Button grabs (PointerGrab).                                             *)

\* Beside the types: a drag took the pointer from every client that heard a press, what
\* is under the pointer lives, and the two halves of the run's invariant.
GrabInv ==
    /\ Grab!TypeOK /\ Grab!PressesArePaired /\ Grab!OpsAreHeld
    /\ drag => \A b \in Grab!Buttons : told[b] = None
    /\ at[1] \in alive \cup {None}

\* Whoever is entered is a window, and stays if a press of it is held.
LEMMA EnteredKeeps ==
  ASSUME NEW ntf, NEW dragging \in BOOLEAN, NEW pos \in Grab!Places, NEW adj \in BOOLEAN,
         ptr \in Windows \cup {None}, hover \in Windows \cup {None}, alive \subseteq Windows
  PROVE  /\ Grab!Entered(ntf, dragging, pos, adj) \in Windows \cup {None}
         /\ Grab!Hovered(ntf, dragging, pos, adj) \in Windows \cup {None}
         /\ ntf # {} /\ ~dragging /\ ptr # None => Grab!Entered(ntf, dragging, pos, adj) = ptr
<1>1. pos[1] \in Windows \cup {None} BY DEF Grab!Places
<1>2. Grab!Kind(None) = "desk" BY DEF Grab!Kind
<1>3. Grab!Hovered(ntf, dragging, pos, adj) \in Windows \cup {None} BY <1>1 DEF Grab!Hovered
<1>4. ASSUME dragging, \E w \in alive : KindOf[w] = "grid"
      PROVE (CHOOSE w \in alive : KindOf[w] = "grid") \in Windows
  BY <1>4
<1>5. Grab!Entered(ntf, dragging, pos, adj) \in Windows \cup {None}
  BY <1>1, <1>4 DEF Grab!Entered
<1>6. ntf # {} /\ ~dragging /\ ptr # None => Grab!Entered(ntf, dragging, pos, adj) = ptr
  BY DEF Grab!Entered
<1> QED BY <1>3, <1>5, <1>6

\* So it is when the pointer is evaluated anew.
LEMMA PassKeeps ==
  ASSUME NEW ntf, NEW dragging \in BOOLEAN, NEW adj \in BOOLEAN, GrabInv, at' \in Grab!Places,
         Grab!PassThrough(ntf, dragging, adj)
  PROVE  /\ ptr' \in Windows \cup {None} /\ hover' \in Windows \cup {None}
         /\ ntf # {} /\ ~dragging /\ ptr # None => ptr' = ptr
<1> DEFINE e == Grab!Entered(ntf, dragging, at', adj)
           h == Grab!Hovered(ntf, dragging, at', adj)
<1>1. ptr' = e /\ hover' = h BY DEF Grab!PassThrough
<1>2. ptr \in Windows \cup {None} /\ hover \in Windows \cup {None} /\ alive \subseteq Windows BY DEF GrabInv, Grab!TypeOK
<1>3. /\ e \in Windows \cup {None} /\ h \in Windows \cup {None}
      /\ ntf # {} /\ ~dragging /\ ptr # None => e = ptr
  BY <1>2, EnteredKeeps
<1> HIDE DEF e, h
<1> QED BY <1>1, <1>3

\* No button is held at the start.
LEMMA GrabInit == Grab!Init => GrabInv
<1> SUFFICES ASSUME Grab!Init PROVE GrabInv OBVIOUS
<1> USE DEF Grab!Init
<1>1. gOp \in [kind : {"none", "move", "resize", "select", "group"}, win : Windows \cup {None}, over : BOOLEAN]
  BY DEF Grab!NoOp
<1>2. gEvents \in 0..GrabEvents BY BoundsAssumption
<1>3. at \in Grab!Places BY DEF Grab!Places
<1>4. Grab!TypeOK BY <1>1, <1>2, <1>3 DEF Grab!TypeOK, Grab!Buttons
<1>5. Grab!PressesArePaired /\ Grab!OpsAreHeld BY DEF Grab!PressesArePaired, Grab!OpsAreHeld, Grab!Ops, Grab!NoOp
<1> QED BY <1>4, <1>5 DEF GrabInv

\* The type of an op.
OpType == [kind : {"none", "move", "resize", "select", "group"}, win : Windows \cup {None}, over : BOOLEAN]

\* An op the press starts holds something that lives, and the press holds it.
LEMMA StartOpKeeps ==
  ASSUME GrabInv, NEW kind \in {"move", "resize", "select", "group"}, NEW w \in alive \cup {None}, Grab!StartOp(kind, w)
  PROVE  /\ gOp' \in OpType /\ gOp'.win = w /\ Grab!Ops'
         /\ ptr' \in Windows \cup {None} /\ robbed' \subseteq Grab!Buttons
         /\ \A b \in Grab!Buttons : told[b] # None => b \in robbed'
<1>1. w \in Windows \cup {None} /\ overview \in BOOLEAN /\ robbed \subseteq Grab!Buttons BY DEF GrabInv, Grab!TypeOK
<1>2. gOp' = [kind |-> kind, win |-> w, over |-> overview] BY DEF Grab!StartOp
<1>3. gOp' \in OpType /\ gOp'.win = w /\ gOp'.kind # "none" BY <1>1, <1>2 DEF OpType
<1> QED BY <1>1, <1>3 DEF Grab!StartOp, Grab!Ops

\* A press that goes to a client is remembered as its own.
LEMMA DeliverKeeps ==
  ASSUME GrabInv, NEW b \in Grab!Buttons, b \notin down, down' = down \cup {b}, Grab!Deliver(b), Grab!Quiet
  PROVE  /\ notified' \subseteq pressed' /\ pressed' \subseteq down' /\ pressed' # {}
         /\ told' \in [Grab!Buttons -> Windows \cup {None}]
         /\ drag => \A c \in Grab!Buttons : told'[c] = None
         /\ Grab!PressesArePaired'
<1> USE DEF GrabInv, Grab!TypeOK
<1>1. notified' \in {notified, notified \cup {b}} /\ pressed' = pressed \cup {b} BY DEF Grab!Deliver
<1>2. told' = told \/ (~drag /\ notified' = notified \cup {b} /\ told' = [told EXCEPT ![b] = ptr]) BY DEF Grab!Deliver
<1>3. notified \subseteq pressed /\ pressed \subseteq down BY DEF Grab!OpsAreHeld
<1>4. ptr' = ptr /\ robbed' = robbed BY DEF Grab!Quiet
<1>5. ASSUME NEW c \in Grab!Buttons, told'[c] # None, c \notin robbed PROVE c \in notified' /\ ptr = told'[c]
  <2>1. CASE told'[c] = told[c] BY <1>1, <1>5, <2>1 DEF Grab!PressesArePaired
  <2>2. CASE c = b /\ told'[c] = ptr /\ b \in notified' BY <1>5, <2>2
  <2> QED BY <1>2, <2>1, <2>2
<1> QED BY <1>1, <1>2, <1>3, <1>4, <1>5 DEF Grab!PressesArePaired

\* A press: an op, something else of the compositor's, or the client's.
LEMMA PressKeeps ==
  ASSUME GrabInv, gEvents' \in 0..GrabEvents, NEW b \in Grab!Buttons, Grab!Press(b)
  PROVE  GrabInv'
<1>1. /\ Grab!TypeOK /\ notified \subseteq pressed /\ pressed \subseteq down
      /\ b \notin down /\ down' = down \cup {b} /\ at[1] \in alive \cup {None}
      /\ UNCHANGED <<at, hover, drag, super, overview, pan, alive>>
  BY DEF GrabInv, Grab!Press, Grab!OpsAreHeld
<1>2. ASSUME NEW kind \in {"move", "resize", "select", "group"}, NEW w \in alive \cup {None}, Grab!StartOp(kind, w),
             Grab!Swallow(b), disc' = disc, gMenu' = gMenu
      PROVE GrabInv'
  <2>1. notified' = notified /\ told' = told /\ pressed' = pressed \cup {b} BY <1>2 DEF Grab!Swallow
  <2>2. /\ gOp' \in OpType /\ gOp'.win = w /\ Grab!Ops'
        /\ ptr' \in Windows \cup {None} /\ robbed' \subseteq Grab!Buttons
        /\ \A c \in Grab!Buttons : told[c] # None => c \in robbed'
    BY <1>2, StartOpKeeps
  <2>3. Grab!TypeOK' BY <1>1, <1>2, <2>1, <2>2 DEF Grab!TypeOK, OpType
  <2>4. Grab!PressesArePaired' BY <2>1, <2>2 DEF Grab!PressesArePaired
  <2>5. Grab!OpsAreHeld' BY <1>1, <2>1, <2>2 DEF Grab!OpsAreHeld
  <2> QED BY <1>1, <2>1, <2>3, <2>4, <2>5 DEF GrabInv
<1>3. ASSUME Grab!Deliver(b), Grab!Quiet, disc' = disc, gMenu' = gMenu PROVE GrabInv'
  <2>1. /\ notified' \subseteq pressed' /\ pressed' \subseteq down' /\ pressed' # {}
        /\ told' \in [Grab!Buttons -> Windows \cup {None}]
        /\ drag => \A c \in Grab!Buttons : told'[c] = None
        /\ Grab!PressesArePaired'
    BY <1>1, <1>3, DeliverKeeps
  <2>2. UNCHANGED <<gOp, ptr, robbed>> BY <1>3 DEF Grab!Quiet
  <2>3. Grab!TypeOK' BY <1>1, <1>3, <2>1, <2>2 DEF Grab!TypeOK
  <2>4. Grab!OpsAreHeld' BY <1>1, <2>1, <2>2 DEF GrabInv, Grab!OpsAreHeld, Grab!Ops
  <2> QED BY <1>1, <2>1, <2>3, <2>4 DEF GrabInv
<1>4. ASSUME notified' = notified, told' = told, pressed' \in {pressed, pressed \cup {b}}, Grab!Quiet,
             disc' \in Windows \cup {None}, gMenu' \in BOOLEAN
      PROVE GrabInv'
  <2>2. UNCHANGED <<gOp, ptr, robbed>> BY <1>4 DEF Grab!Quiet
  <2>3. Grab!TypeOK' BY <1>1, <1>4, <2>2 DEF Grab!TypeOK
  <2>4. Grab!OpsAreHeld' BY <1>1, <1>4, <2>2 DEF GrabInv, Grab!OpsAreHeld, Grab!Ops
  <2>5. Grab!PressesArePaired' BY <1>4, <2>2 DEF GrabInv, Grab!PressesArePaired
  <2> QED BY <1>1, <1>4, <2>3, <2>4, <2>5 DEF GrabInv
<1>5. /\ disc \in Windows \cup {None} /\ gMenu \in BOOLEAN /\ Grab!Under \in Windows \cup {None}
      /\ Grab!Under \in alive \cup {None}
  BY <1>1 DEF Grab!TypeOK, Grab!Under
<1>6. CASE Grab!Deliver(b) /\ Grab!Quiet /\ UNCHANGED <<disc, gMenu>> BY <1>3, <1>6
<1>7. CASE /\ \E kind \in {"move", "resize", "select", "group"}, w \in alive \cup {None} : Grab!StartOp(kind, w)
           /\ Grab!Swallow(b) /\ UNCHANGED <<disc, gMenu>>
  BY <1>2, <1>7
<1>8. CASE /\ notified' = notified /\ told' = told /\ pressed' \in {pressed, pressed \cup {b}} /\ Grab!Quiet
           /\ disc' \in Windows \cup {None} /\ gMenu' \in BOOLEAN
  BY <1>4, <1>8
<1>9. ASSUME NEW kind \in {"move", "resize", "select", "group"}, NEW w \in alive \cup {None},
             Grab!StartOp(kind, w) /\ Grab!Swallow(b) /\ UNCHANGED <<disc, gMenu>>
      PROVE GrabInv'
  BY <1>7, <1>9
<1>10. ASSUME Grab!Swallow(b), Grab!Quiet, disc' \in Windows \cup {None}, gMenu' \in BOOLEAN PROVE GrabInv'
  BY <1>8, <1>10 DEF Grab!Swallow
<1>11. \/ \E w \in {Grab!Under, None}, kind \in {"move", "resize", "select", "group"} :
             Grab!StartOp(kind, w) /\ Grab!Swallow(b) /\ UNCHANGED <<disc, gMenu>>
       \/ Grab!Deliver(b) /\ Grab!Quiet /\ UNCHANGED <<disc, gMenu>>
       \/ disc' = Grab!Under /\ Grab!Swallow(b) /\ Grab!Quiet /\ UNCHANGED gMenu
       \/ Grab!Swallow(b) /\ Grab!Quiet /\ UNCHANGED <<disc, gMenu>>
       \/ gMenu' = TRUE /\ Grab!Swallow(b) /\ Grab!Quiet /\ UNCHANGED disc
       \/ Grab!Quiet /\ UNCHANGED <<pressed, notified, told, disc, gMenu>>
  BY DEF Grab!Press
<1> QED BY <1>5, <1>6, <1>8, <1>9, <1>10, <1>11

\* A client's move or resize takes the pointer from it.
LEMMA ClientOpKeeps ==
  ASSUME GrabInv, gEvents' \in 0..GrabEvents, NEW kind \in {"move", "resize"}, NEW w \in Windows, Grab!ClientOp(kind, w)
  PROVE  GrabInv'
<1>1. /\ w \in alive /\ Grab!StartOp(kind, w) /\ notified # {}
      /\ UNCHANGED <<down, pressed, notified, told, at, hover, disc, gMenu, drag, super, overview, pan, alive>>
  BY DEF Grab!ClientOp
<1>2. /\ gOp' \in OpType /\ gOp'.win = w /\ Grab!Ops'
      /\ ptr' \in Windows \cup {None} /\ robbed' \subseteq Grab!Buttons
      /\ \A c \in Grab!Buttons : told[c] # None => c \in robbed'
  BY <1>1, StartOpKeeps
<1>3. Grab!TypeOK' BY <1>1, <1>2 DEF GrabInv, Grab!TypeOK, OpType
<1>4. Grab!PressesArePaired' BY <1>1, <1>2 DEF Grab!PressesArePaired
<1>5. Grab!OpsAreHeld' BY <1>1, <1>2 DEF GrabInv, Grab!OpsAreHeld
<1> QED BY <1>1, <1>3, <1>4, <1>5 DEF GrabInv

\* A release: the client hears it first, then what was held ends.
LEMMA ReleaseKeeps ==
  ASSUME GrabInv, gEvents' \in 0..GrabEvents, NEW b \in Grab!Buttons, Grab!Release(b)
  PROVE  GrabInv'
<1> DEFINE ntf == notified \ {b}
<1>1. /\ Grab!TypeOK /\ notified \subseteq pressed /\ pressed \subseteq down
      /\ down' = down \ {b} /\ notified' = ntf /\ told' = Grab!Heard(b)
      /\ robbed' = IF told'[b] = None THEN robbed \ {b} ELSE robbed
      /\ UNCHANGED <<at, super, alive>> /\ at[1] \in alive \cup {None} /\ at \in Grab!Places
  BY DEF GrabInv, Grab!Release, Grab!OpsAreHeld, Grab!TypeOK
<1>2. /\ told' \in [Grab!Buttons -> Windows \cup {None}] /\ robbed' \subseteq Grab!Buttons
      /\ \A c \in Grab!Buttons : told'[c] \in {told[c], None}
  BY <1>1 DEF Grab!Heard, Grab!TypeOK
<1>3. ASSUME NEW c \in Grab!Buttons, told'[c] # None, c \notin robbed'
      PROVE c \in ntf /\ ptr = told'[c] /\ ptr # None /\ ~drag
  <2>1. told'[c] = told[c] /\ told[c] # None BY <1>2, <1>3
  <2>2. CASE c = b
    <3>1. c \notin robbed BY <1>1, <1>3, <2>2
    <3>2. b \in notified /\ ptr = told[b] BY <2>1, <2>2, <3>1 DEF GrabInv, Grab!PressesArePaired
    <3>3. told'[b] = None BY <1>1, <2>1, <2>2, <3>2 DEF Grab!Heard, Grab!TypeOK
    <3> QED BY <1>3, <2>2, <3>3
  <2>3. CASE c # b
    <3>1. c \notin robbed BY <1>1, <1>3, <2>3
    <3> QED BY <2>1, <2>3, <3>1 DEF GrabInv, Grab!PressesArePaired
  <2> QED BY <2>2, <2>3
<1>4. \A adj, dragging \in BOOLEAN : Grab!PassThrough(ntf, dragging, adj) /\ (drag \/ ~dragging) =>
        /\ ptr' \in Windows \cup {None} /\ hover' \in Windows \cup {None}
        /\ \A c \in Grab!Buttons : told'[c] # None /\ c \notin robbed' => ptr' = ptr
  <2>1. SUFFICES ASSUME NEW adj \in BOOLEAN, NEW dragging \in BOOLEAN, Grab!PassThrough(ntf, dragging, adj), drag \/ ~dragging
        PROVE /\ ptr' \in Windows \cup {None} /\ hover' \in Windows \cup {None}
              /\ \A c \in Grab!Buttons : told'[c] # None /\ c \notin robbed' => ptr' = ptr
    OBVIOUS
  <2>2. at' \in Grab!Places BY <1>1
  <2>3. /\ ptr' \in Windows \cup {None} /\ hover' \in Windows \cup {None}
        /\ ntf # {} /\ ~dragging /\ ptr # None => ptr' = ptr
    <3> HIDE DEF ntf
    <3> QED BY <2>1, <2>2, PassKeeps
  <2> QED BY <1>3, <2>1, <2>3
<1>5. /\ super \in BOOLEAN /\ overview \in BOOLEAN /\ drag \in BOOLEAN /\ (overview \/ super) \in BOOLEAN
      /\ Grab!Adjusting \in BOOLEAN /\ TRUE \in BOOLEAN /\ FALSE \in BOOLEAN /\ (~overview) \in BOOLEAN
  BY <1>1 DEF Grab!TypeOK, Grab!Adjusting
<1>6. /\ pressed' = pressed \ {b} /\ ~Grab!Ops'
      /\ gOp' \in OpType /\ pan' \in BOOLEAN /\ overview' \in BOOLEAN
      /\ disc' \in Windows \cup {None} /\ gMenu' \in BOOLEAN /\ drag' \in BOOLEAN /\ (drag' => drag)
      /\ ptr' \in Windows \cup {None} /\ hover' \in Windows \cup {None}
      /\ \A c \in Grab!Buttons : told'[c] # None /\ c \notin robbed' => ptr' = ptr
  <2>1. CASE Grab!ReleaseOp(b)
    <3>1. pressed' = pressed \ {b} /\ UNCHANGED <<disc, gMenu, drag>> BY <2>1 DEF Grab!ReleaseOp
    <3>2. gOp' = Grab!NoOp /\ pan' \in BOOLEAN /\ overview' \in BOOLEAN
      BY <1>5, <2>1 DEF Grab!ReleaseOp, Grab!EndSelection, Grab!ReplayClick, Grab!DropBar, Grab!EndDrag, Grab!EndOp, Grab!TypeOK
    <3>3. \/ UNCHANGED <<ptr, hover>>
          \/ Grab!PassThrough(ntf, drag, overview \/ super)
          \/ Grab!PassThrough(ntf, drag, Grab!Adjusting)
      BY <2>1 DEF Grab!ReleaseOp, Grab!EndSelection, Grab!ReplayClick, Grab!DropBar, Grab!EndDrag, Grab!EndOp
    <3>4. /\ ptr' \in Windows \cup {None} /\ hover' \in Windows \cup {None}
          /\ \A c \in Grab!Buttons : told'[c] # None /\ c \notin robbed' => ptr' = ptr
      <4>1. CASE UNCHANGED <<ptr, hover>> BY <1>1, <4>1 DEF Grab!TypeOK
      <4> QED BY <1>4, <1>5, <3>3, <4>1
    <3>5. gOp' \in OpType /\ ~Grab!Ops'
      BY <3>2 DEF Grab!NoOp, OpType, Grab!Ops
    <3> QED BY <1>1, <3>1, <3>2, <3>4, <3>5 DEF Grab!TypeOK
  <2>2. CASE Grab!ReleasePlain(b)
    <3>1. /\ pressed' = pressed \ {b} /\ UNCHANGED <<gOp, pan, overview>> /\ ~Grab!Ops
          /\ disc' \in {None, disc} /\ gMenu' \in {FALSE, gMenu}
      BY <2>2 DEF Grab!ReleasePlain
    <3>2. \/ drag /\ drag' = FALSE /\ Grab!PassThrough(ntf, TRUE, Grab!Adjusting)
          \/ UNCHANGED <<drag, ptr, hover>>
      BY <2>2 DEF Grab!ReleasePlain, Grab!DragEnds
    <3>4. /\ ptr' \in Windows \cup {None} /\ hover' \in Windows \cup {None}
          /\ \A c \in Grab!Buttons : told'[c] # None /\ c \notin robbed' => ptr' = ptr
      <4>1. CASE UNCHANGED <<ptr, hover>> BY <1>1, <4>1 DEF Grab!TypeOK
      <4> QED BY <1>4, <1>5, <3>2, <4>1
    <3>5. drag' \in BOOLEAN /\ (drag' => drag)
      <4>1. drag' = FALSE \/ drag' = drag BY <3>2
      <4>2. CASE drag' = FALSE BY <1>5, <4>2
      <4>3. CASE drag' = drag BY <1>5, <4>3
      <4> QED BY <4>1, <4>2, <4>3
    <3>6. ~Grab!Ops' BY <3>1 DEF Grab!Ops
    <3> QED BY <1>1, <3>1, <3>4, <3>5, <3>6 DEF Grab!TypeOK, OpType
  <2> QED BY <2>1, <2>2 DEF Grab!Release
<1>7. Grab!TypeOK' BY <1>1, <1>2, <1>6 DEF Grab!TypeOK, OpType
<1>8. Grab!PressesArePaired' BY <1>1, <1>3, <1>6 DEF Grab!PressesArePaired
<1>9. Grab!OpsAreHeld' BY <1>1, <1>6 DEF Grab!OpsAreHeld
<1>10. drag' => \A c \in Grab!Buttons : told'[c] = None BY <1>2, <1>6 DEF GrabInv
<1> QED BY <1>1, <1>7, <1>8, <1>9, <1>10 DEF GrabInv

\* An evaluation of the pointer outside of a release.
LEMMA PassedKeeps ==
  ASSUME GrabInv, gEvents' \in 0..GrabEvents, at' \in Grab!Places, at'[1] \in alive \cup {None},
         NEW dragging \in BOOLEAN, drag \/ ~dragging, drag' \in {drag, FALSE},
         Grab!PassThrough(notified, dragging, Grab!Adjusting),
         UNCHANGED <<down, pressed, notified, told, robbed, gOp, disc, gMenu, super, overview, pan, alive>>
  PROVE  GrabInv'
<1>1. Grab!Adjusting \in BOOLEAN BY DEF GrabInv, Grab!TypeOK, Grab!Adjusting
<1>2. /\ ptr' \in Windows \cup {None} /\ hover' \in Windows \cup {None}
      /\ notified # {} /\ ~dragging /\ ptr # None => ptr' = ptr
  BY <1>1, PassKeeps
<1>8. drag' \in BOOLEAN
  <2>1. drag \in BOOLEAN /\ FALSE \in BOOLEAN BY DEF GrabInv, Grab!TypeOK
  <2> QED BY <2>1
<1>3. Grab!TypeOK' BY <1>2, <1>8 DEF GrabInv, Grab!TypeOK
<1>4. ASSUME NEW c \in Grab!Buttons, told[c] # None, c \notin robbed PROVE c \in notified /\ ptr' = told[c]
  BY <1>2, <1>4 DEF GrabInv, Grab!PressesArePaired
<1>5. Grab!PressesArePaired' BY <1>4 DEF Grab!PressesArePaired
<1>6. Grab!OpsAreHeld' BY DEF GrabInv, Grab!OpsAreHeld, Grab!Ops
<1>7. drag' => \A c \in Grab!Buttons : told'[c] = None
  <2>1. CASE drag' = FALSE BY <2>1
  <2>2. CASE drag' = drag BY <2>2 DEF GrabInv
  <2> QED BY <2>1, <2>2
<1> QED BY <1>3, <1>5, <1>6, <1>7 DEF GrabInv

\* A window goes, and with it its op and what it heard.
LEMMA WindowGoesKeeps ==
  ASSUME GrabInv, gEvents' \in 0..GrabEvents, NEW w \in Windows, Grab!WindowGoes(w)
  PROVE  GrabInv'
<1> USE DEF Grab!WindowGoes, Grab!Under
<1>1. Grab!TypeOK /\ <<None, "body">> \in Grab!Places /\ Grab!NoOp \in OpType BY DEF GrabInv, Grab!Places, Grab!NoOp, OpType
<1>2. at' \in Grab!Places /\ at'[1] \in alive' \cup {None} BY <1>1 DEF GrabInv, Grab!TypeOK
<1>3. /\ told' \in [Grab!Buttons -> Windows \cup {None}] /\ robbed' \subseteq Grab!Buttons
      /\ ptr' \in Windows \cup {None} /\ hover' \in Windows \cup {None} /\ disc' \in Windows \cup {None}
      /\ gOp' \in OpType /\ alive' \subseteq Windows
  BY <1>1 DEF Grab!TypeOK, OpType
<1>4. Grab!TypeOK' BY <1>1, <1>2, <1>3 DEF Grab!TypeOK, OpType
<1>5. ASSUME NEW c \in Grab!Buttons, told'[c] # None, c \notin robbed' PROVE c \in notified /\ ptr' = told'[c]
  <2>1. told'[c] = told[c] /\ told[c] # w BY <1>5
  <2>2. c \notin robbed BY <1>5, <2>1 DEF GrabInv, Grab!TypeOK
  <2>3. c \in notified /\ ptr = told[c] BY <1>5, <2>1, <2>2 DEF GrabInv, Grab!PressesArePaired
  <2> QED BY <2>1, <2>3
<1>6. Grab!PressesArePaired' BY <1>5 DEF Grab!PressesArePaired
<1>7. Grab!OpsAreHeld'
  <2>1. CASE gOp' = Grab!NoOp BY <2>1 DEF GrabInv, Grab!OpsAreHeld, Grab!Ops, Grab!NoOp
  <2>2. CASE gOp' = gOp /\ gOp.win # w BY <2>2 DEF GrabInv, Grab!OpsAreHeld, Grab!Ops
  <2> QED BY <2>1, <2>2
<1>8. drag' => \A c \in Grab!Buttons : told'[c] = None BY DEF GrabInv
<1> QED BY <1>2, <1>4, <1>6, <1>7, <1>8 DEF GrabInv

\* A client's drag takes the pointer from every press.
LEMMA StartDragKeeps ==
  ASSUME GrabInv, gEvents' \in 0..GrabEvents, NEW w \in Windows, Grab!StartDrag(w)
  PROVE  GrabInv'
<1> USE DEF Grab!StartDrag
<1>1. Grab!TypeOK' BY DEF GrabInv, Grab!TypeOK
<1>2. Grab!PressesArePaired' BY DEF Grab!PressesArePaired
<1>3. Grab!OpsAreHeld' BY DEF GrabInv, Grab!OpsAreHeld, Grab!Ops
<1> QED BY <1>1, <1>2, <1>3 DEF GrabInv

\* Nothing but who points where and whether the desk pans.
LEMMA QuietKeeps ==
  ASSUME GrabInv, gEvents' \in 0..GrabEvents, at' \in Grab!Places, at'[1] \in alive \cup {None},
         pan' \in BOOLEAN, super' \in BOOLEAN, overview' \in BOOLEAN,
         UNCHANGED <<down, pressed, notified, told, robbed, ptr, hover, gOp, disc, gMenu, drag, alive>>
  PROVE  GrabInv'
<1>1. Grab!TypeOK' BY DEF GrabInv, Grab!TypeOK
<1>2. Grab!PressesArePaired' BY DEF GrabInv, Grab!PressesArePaired
<1>3. Grab!OpsAreHeld' BY DEF GrabInv, Grab!OpsAreHeld, Grab!Ops
<1> QED BY <1>1, <1>2, <1>3 DEF GrabInv

\* Every step of the pointer keeps its invariant.
LEMMA GrabNext == GrabInv /\ [Grab!Next]_(Grab!grabVars) => GrabInv'
<1> SUFFICES ASSUME GrabInv, [Grab!Next]_(Grab!grabVars) PROVE GrabInv' OBVIOUS
<1>1. /\ gEvents \in 0..GrabEvents /\ at \in Grab!Places /\ at[1] \in alive \cup {None}
      /\ pan \in BOOLEAN /\ super \in BOOLEAN /\ overview \in BOOLEAN /\ drag \in BOOLEAN /\ FALSE \in BOOLEAN /\ TRUE \in BOOLEAN
      /\ (~super) \in BOOLEAN /\ (~overview) \in BOOLEAN
  BY DEF GrabInv, Grab!TypeOK
<1>2. CASE Grab!Next
  <2>1. gEvents' \in 0..GrabEvents BY <1>1, <1>2, BoundsAssumption DEF Grab!Next
  <2>2. ASSUME NEW b \in Grab!Buttons, Grab!Press(b) PROVE GrabInv' BY <2>1, <2>2, PressKeeps
  <2>3. ASSUME NEW pos \in Grab!Places, Grab!Motion(pos) PROVE GrabInv'
    <3>1. /\ at' \in Grab!Places /\ at'[1] \in alive \cup {None}
          /\ UNCHANGED <<down, pressed, notified, told, robbed, gOp, disc, gMenu, drag, super, overview, alive>>
      BY <2>3 DEF Grab!Motion
    <3>2. CASE Grab!Ops
      <4>1. pan' \in BOOLEAN /\ UNCHANGED <<ptr, hover>> BY <1>1, <2>3, <3>2 DEF Grab!Motion
      <4> QED BY <1>1, <2>1, <3>1, <4>1, QuietKeeps
    <3>3. CASE ~Grab!Ops
      <4>1. Grab!PassThrough(notified, drag, Grab!Adjusting) /\ pan' = pan BY <2>3, <3>3 DEF Grab!Motion
      <4> QED BY <1>1, <2>1, <3>1, <4>1, PassedKeeps
    <3> QED BY <3>2, <3>3
  <2>4. ASSUME NEW w \in Windows, NEW k \in {"move", "resize"}, Grab!ClientOp(k, w) PROVE GrabInv'
    BY <2>1, <2>4, ClientOpKeeps
  <2>5. ASSUME NEW w \in Windows, Grab!StartDrag(w) PROVE GrabInv' BY <2>1, <2>5, StartDragKeeps
  <2>6. ASSUME NEW w \in Windows, Grab!WindowGoes(w) PROVE GrabInv' BY <2>1, <2>6, WindowGoesKeeps
  <2>7. CASE Grab!CancelDrag
    <3>1. /\ drag /\ drag' = FALSE /\ at' = at /\ Grab!PassThrough(notified, TRUE, Grab!Adjusting)
          /\ UNCHANGED <<down, pressed, notified, told, robbed, gOp, disc, gMenu, super, overview, pan, alive>>
      BY <2>7 DEF Grab!CancelDrag
    <3>2. at' \in Grab!Places /\ at'[1] \in alive \cup {None} /\ drag' \in {drag, FALSE} BY <1>1, <3>1
    <3> QED BY <1>1, <2>1, <3>1, <3>2, PassedKeeps
  <2>8. CASE Grab!Modes
    <3>1. /\ super' \in BOOLEAN /\ overview' \in BOOLEAN /\ pan' \in BOOLEAN /\ at' = at
          /\ UNCHANGED <<down, pressed, notified, told, robbed, ptr, hover, gOp, disc, gMenu, drag, alive>>
      BY <1>1, <2>8 DEF Grab!Modes
    <3>2. at' \in Grab!Places /\ at'[1] \in alive \cup {None} BY <1>1, <3>1
    <3> QED BY <2>1, <3>1, <3>2, QuietKeeps
  <2>9. ASSUME NEW b \in Grab!Buttons, Grab!Release(b) PROVE GrabInv' BY <2>1, <2>9, ReleaseKeeps
  <2>10. CASE Grab!Refresh
    <3>1. /\ drag' = drag /\ at' = at /\ Grab!PassThrough(notified, drag, Grab!Adjusting)
          /\ UNCHANGED <<down, pressed, notified, told, robbed, gOp, disc, gMenu, super, overview, pan, alive>>
      BY <2>10 DEF Grab!Refresh
    <3>2. at' \in Grab!Places /\ at'[1] \in alive \cup {None} BY <1>1, <3>1
    <3> QED BY <1>1, <2>1, <3>1, <3>2, PassedKeeps
  <2>11. CASE Grab!PanTick
    <3>1. /\ pan' \in BOOLEAN /\ super' = super /\ overview' = overview /\ at' = at
          /\ UNCHANGED <<down, pressed, notified, told, robbed, ptr, hover, gOp, disc, gMenu, drag, alive>>
      BY <1>1, <2>11 DEF Grab!PanTick
    <3>2. at' \in Grab!Places /\ at'[1] \in alive \cup {None} /\ super' \in BOOLEAN /\ overview' \in BOOLEAN BY <1>1, <3>1
    <3> QED BY <2>1, <3>1, <3>2, QuietKeeps
  <2>12. "move" \in {"move", "resize"} /\ "resize" \in {"move", "resize"} OBVIOUS
  <2> QED BY <1>2, <2>2, <2>3, <2>4, <2>5, <2>6, <2>7, <2>8, <2>9, <2>10, <2>11, <2>12 DEF Grab!Next
<1>3. CASE UNCHANGED Grab!grabVars
  <2> USE DEF Grab!grabVars
  <2>1. at' = at /\ gEvents' = gEvents /\ pan' = pan /\ super' = super /\ overview' = overview BY <1>3
  <2>2. UNCHANGED <<down, pressed, notified, told, robbed, ptr, hover, gOp, disc, gMenu, drag, alive>> BY <1>3
  <2>3. /\ at' \in Grab!Places /\ at'[1] \in alive \cup {None} /\ gEvents' \in 0..GrabEvents /\ pan' \in BOOLEAN
        /\ super' \in BOOLEAN /\ overview' \in BOOLEAN
    BY <1>1, <2>1
  <2> QED BY <2>2, <2>3, QuietKeeps
<1> QED BY <1>2, <1>3

-----------------------------------------------------------------------------
(* Pens (TabletTool).                                                      *)

\* What is down is down at the tablet, and a drag has a surface it is measured
\* from.
HeldIsNear ==
    /\ tip \/ buttons > 0 => near
    /\ pGrab # None => Pen!Down

PenInv == Pen!TypeOK /\ Pen!PenIsSound /\ HeldIsNear

-----------------------------------------------------------------------------
(* Facts about the operators the actions share.                            *)

\* What is under the pen is a surface that can be focused, or none.
LEMMA SurfaceAtType == \A u : Pen!SurfaceAt(u) \in Surfaces \cup {None}
BY DEF Pen!SurfaceAt

\* Passing on keeps the types, and leaves the focus where the pen is.
LEMMA PassOnLooks ==
    ASSUME NEW u, NEW shows \in Surfaces \cup {"pencil", "hidden"}, Pen!PassOn(u, shows)
    PROVE  /\ onto' = Pen!SurfaceAt(u) /\ onto' \in Surfaces \cup {None}
           /\ image' \in Surfaces \cup {"pencil", "hidden"}
           /\ fresh' = TRUE
BY SurfaceAtType DEF Pen!PassOn

\* maybe_exit_down: with the tip and every button up the pen is passed on, and
\* nothing is left of a drag; otherwise nothing changes.
LEMMA ExitCases ==
    ASSUME Pen!TypeOK, HeldIsNear, NEW d \in BOOLEAN, NEW n \in Nat, Pen!MaybeExitDown(d, n)
    PROVE  \/ /\ ~d /\ n = 0 /\ penMode' = None /\ pGrab' = None
              /\ onto' \in Surfaces \cup {None} /\ image' \in Surfaces \cup {"pencil", "hidden"}
              /\ \/ onto' = Pen!SurfaceAt(under) /\ fresh' = TRUE
                 \/ ~Pen!Down /\ UNCHANGED <<onto, fresh>>
           \/ ~(~d /\ n = 0) /\ UNCHANGED <<penMode, onto, image, fresh, pGrab>>
<1>1. CASE Pen!Ends(d, n)
  <2>1. ~d /\ n = 0 /\ penMode' = None /\ pGrab' = None /\ Pen!PassOn(under, image)
    BY <1>1 DEF Pen!MaybeExitDown, Pen!Ends, Pen!BackToPassthrough, Pen!Passthrough
  <2>2. QED BY <2>1, PassOnLooks DEF Pen!TypeOK
<1>2. CASE ~Pen!Ends(d, n) /\ ~d /\ n = 0
  BY <1>2 DEF Pen!MaybeExitDown, Pen!Ends, HeldIsNear, Pen!Down, Pen!Passthrough, Pen!TypeOK
<1>3. CASE ~(~d /\ n = 0)
  BY <1>3 DEF Pen!MaybeExitDown, Pen!Ends
<1> QED BY <1>1, <1>2, <1>3

\* The pen starts away from the tablet.
LEMMA PenInit == Pen!Init => PenInv
<1> SUFFICES ASSUME Pen!Init PROVE PenInv OBVIOUS
<1>1. Pen!TypeOK
  <2>1. near \in BOOLEAN /\ tip \in BOOLEAN /\ fresh \in BOOLEAN BY Zenon DEF Pen!Init
  <2>2. buttons \in 0..2 BY DEF Pen!Init
  <2>3. under \in Pen!Scene /\ onto \in Surfaces \cup {None} BY Zenon DEF Pen!Init, Pen!Scene
  <2>4. penMode \in Surfaces \cup {Pen!Passthrough} /\ pGrab \in Surfaces \cup {None}
    BY Zenon DEF Pen!Init
  <2>5. image \in Surfaces \cup {"pencil", "hidden"} BY Zenon DEF Pen!Init
  <2> QED BY <2>1, <2>2, <2>3, <2>4, <2>5, Zenon DEF Pen!TypeOK
<1>2. ~tip /\ buttons = 0 /\ ~Pen!Down /\ pGrab = None /\ ~near BY DEF Pen!Init, Pen!Down
<1>3. ~(buttons > 0) BY <1>2
<1> QED BY <1>1, <1>2, <1>3 DEF PenInv, Pen!PenIsSound, Pen!DragsStay, Pen!FollowsPen, HeldIsNear

\* Every event of a pen keeps its invariant.
LEMMA PenNext ==
    ASSUME PenInv, [Pen!Next]_(Pen!tabletVars)
    PROVE  PenInv'
<1> USE NoneIsNone DEF PenInv, Pen!PenIsSound, Pen!Down, Pen!Passthrough
<1>1. CASE Pen!Enter
  <2>1. /\ ~Pen!Down /\ ~tip /\ buttons = 0 /\ pGrab = None
        /\ near' = TRUE /\ under' \in Pen!Scene /\ pStrokes' = pStrokes + 1
        /\ Pen!PassOn(under', "pencil") /\ UNCHANGED <<tip, buttons, penMode, pGrab>>
    BY <1>1 DEF Pen!Enter, Pen!Stroke, Pen!TypeOK, HeldIsNear, Pen!DragsStay
  <2>2. onto' = Pen!SurfaceAt(under)' /\ onto' \in Surfaces \cup {None} /\ fresh' = TRUE
        /\ image' \in Surfaces \cup {"pencil", "hidden"}
    <3>1. Pen!SurfaceAt(under') = Pen!SurfaceAt(under)' BY DEF Pen!SurfaceAt
    <3>2. QED BY <2>1, <3>1, PassOnLooks
  <2>3. Pen!TypeOK' BY <2>1, <2>2 DEF Pen!TypeOK, Pen!Scene
  <2>4. Pen!FollowsPen' BY <2>1, <2>2 DEF Pen!FollowsPen
  <2>5. Pen!DragsStay' /\ HeldIsNear' BY <2>1 DEF Pen!DragsStay, HeldIsNear
  <2> QED BY <2>3, <2>4, <2>5
<1>2. CASE Pen!Leave
  <2>1. /\ ~Pen!Down /\ ~tip /\ buttons = 0 /\ pGrab = None
        /\ near' = FALSE /\ onto' = None /\ image' = "hidden" /\ pStrokes' = pStrokes + 1
        /\ UNCHANGED <<under, tip, buttons, penMode, pGrab, fresh>>
    BY <1>2 DEF Pen!Leave, Pen!Stroke, Pen!TypeOK, HeldIsNear, Pen!DragsStay
  <2>2. Pen!TypeOK' BY <2>1 DEF Pen!TypeOK, Pen!Scene
  <2>3. ~tip' /\ ~(buttons' > 0) /\ ~Pen!Down' /\ pGrab' = None BY <2>1
  <2> QED BY <2>1, <2>2, <2>3 DEF Pen!DragsStay, Pen!FollowsPen, HeldIsNear
<1>3. CASE Pen!Motion
  <2>1. /\ near /\ under' \in Pen!Scene /\ Pen!Moves(under')
        /\ UNCHANGED <<near, tip, buttons, penMode, pGrab>>
    BY <1>3 DEF Pen!Motion
  <2>2. CASE Pen!Down
    BY <2>1, <2>2 DEF Pen!Moves, Pen!TypeOK, Pen!Scene, Pen!DragsStay, Pen!FollowsPen, HeldIsNear
  <2>3. CASE ~Pen!Down
    <3>1. Pen!PassOn(under', image) BY <2>1, <2>3 DEF Pen!Moves
    <3>2. Pen!SurfaceAt(under') = Pen!SurfaceAt(under)' BY DEF Pen!SurfaceAt
    <3>3. /\ onto' = Pen!SurfaceAt(under)' /\ onto' \in Surfaces \cup {None} /\ fresh' = TRUE
          /\ image' \in Surfaces \cup {"pencil", "hidden"}
      BY <3>1, <3>2, PassOnLooks DEF Pen!TypeOK
    <3>4. Pen!TypeOK' BY <2>1, <3>3 DEF Pen!TypeOK, Pen!Scene
    <3>5. Pen!FollowsPen' BY <3>3 DEF Pen!FollowsPen
    <3>6. Pen!DragsStay' /\ HeldIsNear' BY <2>1, <2>3 DEF Pen!DragsStay, HeldIsNear
    <3> QED BY <3>4, <3>5, <3>6
  <2> QED BY <2>2, <2>3
<1>4. CASE Pen!TipDown
  <2>1. Pen!TypeOK' BY <1>4 DEF Pen!TipDown, Pen!TypeOK, Pen!Scene
  <2>2. Pen!DragsStay' /\ HeldIsNear'
    BY <1>4 DEF Pen!TipDown, Pen!TypeOK, Pen!DragsStay, HeldIsNear
  <2>3. Pen!FollowsPen' BY <1>4 DEF Pen!TipDown, Pen!FollowsPen, Pen!SurfaceAt
  <2> QED BY <2>1, <2>2, <2>3
<1>5. CASE Pen!TipUp
  <2>1. near /\ tip /\ tip' = FALSE /\ UNCHANGED <<near, under, buttons, pStrokes>>
    BY <1>5 DEF Pen!TipUp
  <2>2. \/ /\ buttons = 0 /\ penMode' = None /\ pGrab' = None
           /\ onto' \in Surfaces \cup {None} /\ image' \in Surfaces \cup {"pencil", "hidden"}
           /\ \/ onto' = Pen!SurfaceAt(under) /\ fresh' = TRUE
              \/ ~Pen!Down /\ UNCHANGED <<onto, fresh>>
        \/ buttons # 0 /\ UNCHANGED <<penMode, onto, image, fresh, pGrab>>
    <3>1. Pen!MaybeExitDown(FALSE, buttons) BY <1>5 DEF Pen!TipUp
    <3>2. buttons \in Nat BY DEF Pen!TypeOK
    <3>3. QED BY <3>1, <3>2, ExitCases
  <2>3. Pen!TypeOK' BY <2>1, <2>2 DEF Pen!TypeOK, Pen!Scene
  <2>4. Pen!DragsStay' /\ HeldIsNear' BY <2>1, <2>2 DEF Pen!TypeOK, Pen!DragsStay, HeldIsNear
  <2>5. Pen!FollowsPen' BY <2>1, <2>2 DEF Pen!FollowsPen, Pen!SurfaceAt
  <2> QED BY <2>3, <2>4, <2>5
<1>6. CASE Pen!ButtonDown
  <2>1. /\ near /\ buttons' = buttons + 1 /\ buttons' \in 0..2 /\ buttons' > 0
        /\ UNCHANGED <<near, under, tip>>
    BY <1>6 DEF Pen!ButtonDown, Pen!TypeOK
  <2>2. UNCHANGED <<penMode, onto, image, fresh, pGrab>>
    <3>1. Pen!MaybeExitDown(tip, buttons + 1) /\ buttons + 1 \in Nat /\ buttons + 1 # 0
      BY <1>6 DEF Pen!ButtonDown, Pen!TypeOK
    <3>2. QED BY <3>1, ExitCases DEF Pen!TypeOK
  <2>3. Pen!TypeOK' BY <2>1, <2>2 DEF Pen!TypeOK, Pen!Scene
  <2>4. Pen!DragsStay' /\ HeldIsNear' BY <2>1, <2>2 DEF Pen!DragsStay, HeldIsNear
  <2>5. Pen!FollowsPen' BY <2>1, <2>2 DEF Pen!FollowsPen, Pen!SurfaceAt
  <2> QED BY <2>3, <2>4, <2>5
<1>7. CASE Pen!ButtonUp
  <2>1. /\ near /\ buttons > 0 /\ buttons' = buttons - 1 /\ buttons' \in 0..2
        /\ UNCHANGED <<near, under, tip, pStrokes>>
    BY <1>7 DEF Pen!ButtonUp, Pen!TypeOK
  <2>2. \/ /\ ~tip /\ buttons' = 0 /\ penMode' = None /\ pGrab' = None
           /\ onto' \in Surfaces \cup {None} /\ image' \in Surfaces \cup {"pencil", "hidden"}
           /\ \/ onto' = Pen!SurfaceAt(under) /\ fresh' = TRUE
              \/ ~Pen!Down /\ UNCHANGED <<onto, fresh>>
        \/ (tip \/ buttons' # 0) /\ UNCHANGED <<penMode, onto, image, fresh, pGrab>>
    <3>1. Pen!MaybeExitDown(tip, buttons - 1) /\ buttons - 1 \in Nat
      BY <1>7 DEF Pen!ButtonUp, Pen!TypeOK
    <3>2. QED BY <3>1, <2>1, ExitCases DEF Pen!TypeOK
  <2>3. Pen!TypeOK' BY <2>1, <2>2 DEF Pen!TypeOK, Pen!Scene
  <2>4. Pen!DragsStay' /\ HeldIsNear' BY <2>1, <2>2 DEF Pen!TypeOK, Pen!DragsStay, HeldIsNear
  <2>5. Pen!FollowsPen' BY <2>1, <2>2 DEF Pen!FollowsPen, Pen!SurfaceAt
  <2> QED BY <2>3, <2>4, <2>5
<1>8. CASE Pen!SetCursor
  BY <1>8 DEF Pen!SetCursor, Pen!TypeOK, Pen!Scene, Pen!DragsStay, Pen!FollowsPen, Pen!SurfaceAt, HeldIsNear
<1>9. CASE Pen!Restack
  <2>1. Pen!TypeOK' BY <1>9 DEF Pen!Restack, Pen!TypeOK, Pen!Scene
  <2>2. Pen!DragsStay' /\ Pen!FollowsPen' /\ HeldIsNear'
    BY <1>9 DEF Pen!Restack, Pen!DragsStay, Pen!FollowsPen, HeldIsNear
  <2> QED BY <2>1, <2>2
<1>10. CASE UNCHANGED Pen!tabletVars
  BY <1>10 DEF Pen!tabletVars, Pen!TypeOK, Pen!Scene, Pen!DragsStay, Pen!FollowsPen, Pen!SurfaceAt, HeldIsNear
<1> QED BY <1>1, <1>2, <1>3, <1>4, <1>5, <1>6, <1>7, <1>8, <1>9, <1>10 DEF Pen!Next

-----------------------------------------------------------------------------
(* Played keys (Emulation).                                                *)

\* The keys a gesture holds, and the type of a state.
HeldKeys == {"space", "button", "ctrl", "shift"}
PlayType == [view : [on : BOOLEAN, pinch : BOOLEAN, saved : 0..2],
              wheel : [on : BOOLEAN, pinch : {FALSE}, saved : 0..2],
              wide : [on : BOOLEAN, pinch : {FALSE}, saved : 0..2],
              repeat : 0..2, timer : BOOLEAN, held : SUBSET {"space", "button", "ctrl", "shift"}]

\* A gesture's key is down exactly while it is on, and the button only in the view.
HeldOk(s) ==
    /\ \A k \in Play!Gestures : (Play!KeyOf[k] \in s.held) <=> s[k].on
    /\ "button" \in s.held => s.view.on

\* Only one is on, it knows the repeat rate to restore, and with none on that is the
\* one in force.
SavedOk(s) ==
    /\ \A k \in Play!Gestures : s[k].on => s[k].saved = conf
    /\ \A j, k \in Play!Gestures : s[j].on /\ s[k].on => j = k
    /\ ~Play!AnyOn(s) => s.repeat = conf

\* r comes of s by what a path does to gesture k.
Stage(s, r, k) ==
    /\ r \in PlayType /\ HeldOk(r)
    /\ \A j \in Play!Gestures : j # k => r[j] = s[j]
    /\ SavedOk(s) /\ (r[k].on /\ ~s[k].on => ~Play!AnyOn(s)) => SavedOk(r)

\* Leaving a gesture alone is a stage.
LEMMA SameStage ==
   ASSUME NEW s \in PlayType, NEW k \in Play!Gestures, HeldOk(s)
   PROVE  Stage(s, s, k)
BY DEF Stage

\* What a path writes into the state keeps its type.
LEMMA PlayPutType ==
   ASSUME NEW s \in PlayType, NEW k \in Play!Gestures,
          NEW o \in [on : BOOLEAN, pinch : BOOLEAN, saved : 0..2], k # "view" => ~o.pinch,
          NEW n \in 0..2, NEW b \in BOOLEAN, NEW h \in SUBSET HeldKeys
   PROVE  [s EXCEPT ![k] = o, !.repeat = n, !.timer = b, !.held = h] \in PlayType
<1> USE DEF PlayType, HeldKeys
<1>1. CASE k = "view" BY <1>1
<1>2. CASE k # "view"
  <2>1. o \in [on : BOOLEAN, pinch : {FALSE}, saved : 0..2]
    <3>1. o.pinch = FALSE BY <1>2
    <3> QED BY <3>1
  <2>2. CASE k = "wheel" BY <2>1, <2>2
  <2>3. CASE k = "wide" BY <2>1, <2>3
  <2> QED BY <1>2, <2>2, <2>3 DEF Play!Gestures
<1> QED BY <1>1, <1>2

\* The end of a gesture lets its keys go and restores the repeat rate.
LEMMA EndedStage ==
   ASSUME NEW s \in PlayType, NEW k \in Play!Gestures, HeldOk(s)
   PROVE Stage(s, Play!Ended(s, k), k) /\ ~Play!Ended(s, k)[k].on
<1> DEFINE r == Play!Ended(s, k)
<1> USE DEF Play!Gestures, Play!Ended, Play!Off, PlayType, Play!KeyOf
<1>1. r \in PlayType
  <2>1. CASE s[k].on
    <3> DEFINE h == s.held \ (IF k = "view" THEN {"space", "button"} ELSE {Play!KeyOf[k]})
    <3>1. h \in SUBSET HeldKeys /\ s[k].saved \in 0..2 /\ Play!Off.pinch = FALSE
          /\ Play!Off \in [on : BOOLEAN, pinch : BOOLEAN, saved : 0..2]
      BY DEF HeldKeys
    <3>2. r = [s EXCEPT ![k] = Play!Off, !.repeat = s[k].saved, !.timer = FALSE, !.held = h]
      BY <2>1
    <3> HIDE DEF h, r, Play!Off, Play!Gestures, PlayType
    <3> QED BY <3>1, <3>2, PlayPutType
  <2> QED BY <2>1
<1>2. HeldOk(r)  BY DEF HeldOk
<1>3. SavedOk(s) => SavedOk(r)
 BY DEF SavedOk, Play!AnyOn
<1>4. (\A j \in Play!Gestures : j # k => r[j] = s[j]) /\ ~r[k].on
 OBVIOUS
<1> QED BY <1>1, <1>2, <1>3, <1>4 DEF Stage

\* Its beginning presses its key and remembers the rate.
LEMMA BegunStage ==
   ASSUME NEW s \in PlayType, NEW k \in Play!Gestures, HeldOk(s), ~s[k].on, NEW p1 \in BOOLEAN, k # "view" => ~p1
   PROVE Stage(s, Play!Begun(s, k, p1), k) /\ Play!Begun(s, k, p1)[k].on
<1> DEFINE r == Play!Begun(s, k, p1)
<1> USE DEF Play!Gestures, Play!Begun, PlayType, Play!KeyOf
<1>1. r \in PlayType
  <2> DEFINE o == [on |-> TRUE, pinch |-> p1, saved |-> s.repeat]
             h == s.held \cup {Play!KeyOf[k]}
  <2>1. h \in SUBSET HeldKeys /\ o \in [on : BOOLEAN, pinch : BOOLEAN, saved : 0..2]
    BY DEF HeldKeys
  <2>2. r = [s EXCEPT ![k] = o, !.repeat = 0, !.timer = TRUE, !.held = h] /\ o.pinch = p1
    OBVIOUS
  <2>3. k # "view" => ~o.pinch BY <2>2
  <2> HIDE DEF h, r, o, Play!Gestures, PlayType
  <2>4. 0 \in 0..2 /\ TRUE \in BOOLEAN OBVIOUS
  <2>5. [s EXCEPT ![k] = o, !.repeat = 0, !.timer = TRUE, !.held = h] \in PlayType
    BY <2>1, <2>3, <2>4, PlayPutType
  <2> QED BY <2>2, <2>5
<1>2. HeldOk(r)  BY DEF HeldOk
<1>3. SavedOk(s) /\ ~Play!AnyOn(s) => SavedOk(r)
 BY DEF SavedOk, Play!AnyOn
<1>4. (\A j \in Play!Gestures : j # k => r[j] = s[j]) /\ r[k].on
 OBVIOUS
<1> QED BY <1>1, <1>2, <1>3, <1>4 DEF Stage

\* The timer has no part in it.
LEMMA TimedStage ==
   ASSUME NEW s \in PlayType, NEW r \in PlayType, NEW k \in Play!Gestures, Stage(s, r, k), NEW b \in BOOLEAN
   PROVE Stage(s, [r EXCEPT !.timer = b], k)
BY DEF Stage, PlayType, HeldOk, SavedOk, Play!AnyOn, Play!Gestures

\* The first motion of a view adds the button.
LEMMA MovedStage ==
   ASSUME NEW s \in PlayType, NEW r \in PlayType, Stage(s, r, "view"), r.view.on
   PROVE Stage(s, Play!Moved(r), "view")
<1>1. Play!Moved(r) \in PlayType BY DEF Play!Moved, PlayType
<1> DEFINE m1 == Play!Moved(r)
<1>2. /\ \A k \in Play!Gestures : m1[k] = r[k]
      /\ m1.repeat = r.repeat /\ m1.held = r.held \cup {"button"}
  BY DEF Play!Moved, PlayType, Play!Gestures
<1>3. HeldOk(m1) BY <1>2 DEF Stage, HeldOk, Play!Gestures, Play!KeyOf
<1>4. SavedOk(r) => SavedOk(m1) BY <1>2 DEF SavedOk, Play!AnyOn, Play!Gestures
<1> HIDE DEF m1
<1> QED BY <1>1, <1>2, <1>3, <1>4 DEF Stage, Play!Gestures, m1

\* What an axis event may be.
AxisEvents == {"up", "side", "lift", "modifier"}

\* What an axis event does to the view's gesture,
LEMMA ViewStage ==
   ASSUME NEW s \in PlayType, HeldOk(s), NEW e \in AxisEvents
   PROVE  /\ Stage(s, Play!ViewAxis(s, e).s, "view") /\ Play!ViewAxis(s, e).done \in BOOLEAN
          /\ ~Play!ViewAxis(s, e).done /\ Play!ViewAxis(s, e).s.view.on => s.view.on
<1> "view" \in Play!Gestures BY DEF Play!Gestures
<1> DEFINE b == Play!Begun(s, "view", FALSE)
<1>1. Stage(s, s, "view") /\ Stage(s, Play!Ended(s, "view"), "view") /\ ~Play!Ended(s, "view").view.on BY SameStage, EndedStage
<1>2. s.view.on => Stage(s, Play!Moved(s), "view") BY <1>1, MovedStage
<1>3. ~s.view.on => Stage(s, Play!Moved(b), "view")
  <2>1. ~s.view.on => Stage(s, b, "view") /\ b.view.on BY BegunStage
  <2> QED BY <2>1, MovedStage DEF Stage
<1> HIDE DEF b
<1> QED BY <1>1, <1>2, <1>3 DEF Play!ViewAxis, Play!Taken, Play!Passed, AxisEvents, b

\* to the wheel's,
LEMMA WheelStage ==
   ASSUME NEW s \in PlayType, HeldOk(s), NEW e \in AxisEvents
   PROVE  /\ Stage(s, Play!WheelAxis(s, e).s, "wheel") /\ Play!WheelAxis(s, e).done \in BOOLEAN
          /\ ~Play!WheelAxis(s, e).done /\ Play!WheelAxis(s, e).s.wheel.on => s.wheel.on
<1> "wheel" \in Play!Gestures BY DEF Play!Gestures
<1> DEFINE b == IF s.wheel.on THEN s ELSE Play!Begun(s, "wheel", FALSE)
<1>1. Stage(s, s, "wheel") /\ Stage(s, Play!Ended(s, "wheel"), "wheel") /\ ~Play!Ended(s, "wheel").wheel.on BY SameStage, EndedStage
<1>3. Stage(s, b, "wheel")
  BY <1>1, BegunStage
<1>4. Stage(s, [b EXCEPT !.timer = TRUE], "wheel")
  <2>1. b \in PlayType BY <1>3 DEF Stage
  <2> QED BY <1>3, <2>1, TimedStage
<1> HIDE DEF b
<1> QED BY <1>1, <1>4 DEF Play!WheelAxis, Play!Taken, Play!Passed, AxisEvents, b

\* and to the wide one's.
LEMMA WideStage ==
   ASSUME NEW s \in PlayType, HeldOk(s), NEW e \in AxisEvents
   PROVE  Stage(s, Play!WideAxis(s, e).s, "wide")
<1> "wide" \in Play!Gestures BY DEF Play!Gestures
<1> DEFINE b == IF s.wide.on THEN s ELSE Play!Begun(s, "wide", FALSE)
<1>1. Stage(s, s, "wide") /\ Stage(s, Play!Ended(s, "wide"), "wide") BY SameStage, EndedStage
<1>3. Stage(s, b, "wide")
  BY <1>1, BegunStage
<1>4. Stage(s, [b EXCEPT !.timer = TRUE], "wide")
  <2>1. b \in PlayType BY <1>3 DEF Stage
  <2> QED BY <1>3, <2>1, TimedStage
<1> HIDE DEF b
<1> QED BY <1>1, <1>4 DEF Play!WideAxis, Play!Taken, Play!Passed, AxisEvents, b

\* No gesture began while another was on.
NoneCrossed(s, r) == \A k \in Play!Gestures : ~s[k].on /\ r[k].on => \A j \in Play!Gestures : j # k => ~s[j].on

\* The three paths of an axis event, one after the other.
LEMMA AxisSound ==
   ASSUME NEW s \in PlayType, HeldOk(s), NEW e \in AxisEvents
   PROVE  LET r == Play!OnAxis(s, e) IN
      /\ r \in PlayType /\ HeldOk(r) /\ (SavedOk(s) /\ NoneCrossed(s, r) => SavedOk(r))
<1> DEFINE v == Play!ViewAxis(s, e)
           w == IF v.done THEN v ELSE Play!WheelAxis(v.s, e)
           x == IF w.done THEN w.s ELSE Play!WideAxis(w.s, e).s
<1>1. Stage(s, v.s, "view") /\ v.done \in BOOLEAN /\ (~v.done /\ v.s.view.on => s.view.on) BY ViewStage
<1>2. /\ Stage(v.s, w.s, "wheel") /\ w.done \in BOOLEAN
      /\ (v.done => w = v) /\ (~w.done /\ w.s.wheel.on => v.s.wheel.on)
  BY <1>1, WheelStage, SameStage DEF Stage, Play!Gestures
<1>3. Stage(w.s, x, "wide") /\ (w.done => x = w.s)
  BY <1>2, WideStage, SameStage DEF Stage, Play!Gestures
<1>4. Play!OnAxis(s, e) = x BY DEF Play!OnAxis
<1> HIDE DEF v, w, x
<1>5. ASSUME SavedOk(s), NoneCrossed(s, x) PROVE SavedOk(x)
  <2>1. SavedOk(v.s)
    BY <1>1, <1>2, <1>3, <1>5 DEF Stage, NoneCrossed, Play!Gestures, Play!AnyOn
  <2>2. SavedOk(w.s)
    BY <1>1, <1>2, <1>3, <1>5, <2>1 DEF Stage, NoneCrossed, Play!Gestures, Play!AnyOn
  <2> QED BY <1>1, <1>2, <1>3, <1>5, <2>2 DEF Stage, NoneCrossed, Play!Gestures, Play!AnyOn
<1> QED BY <1>3, <1>4, <1>5 DEF Stage

\* The inductive invariant; one crossed by another gesture may lose the rate.
PlayInv ==
  /\ g \in PlayType /\ HeldOk(g) /\ (~crossed => SavedOk(g))
  /\ eAt \in {"view", "popup", "wide", "other"} /\ conf \in Play!Confs /\ crossed \in BOOLEAN
  /\ moves \in 0..PlayEvents

\* Nothing is played at the start.
LEMMA PlayInit == Play!Init => PlayInv
<1> SUFFICES ASSUME Play!Init PROVE PlayInv OBVIOUS
<1>1. g \in PlayType /\ moves \in 0..PlayEvents BY BoundsAssumption DEF Play!Init, PlayType, Play!Off
<1>2. HeldOk(g) /\ SavedOk(g) BY DEF Play!Init, Play!Off, HeldOk, SavedOk, Play!AnyOn, Play!Gestures, Play!KeyOf
<1> QED BY <1>1, <1>2 DEF PlayInv, Play!Init, Play!Confs

\* Any number of ends of gestures.
EndsOk(s, r) == r \in PlayType /\ HeldOk(r) /\ (SavedOk(s) => SavedOk(r))

\* One end more.
LEMMA EndOneSound ==
   ASSUME NEW s \in PlayType, NEW r, EndsOk(s, r), NEW k \in Play!Gestures
   PROVE  EndsOk(s, Play!Ended(r, k))
BY EndedStage DEF EndsOk, Stage

\* What the timeout and a leave do.
LEMMA EndAllSound ==
   ASSUME NEW s \in PlayType, HeldOk(s)
   PROVE  EndsOk(s, Play!AllEnded(s)) /\ EndsOk(s, Play!Ended(Play!Ended(s, "view"), "wide"))
<1>1. EndsOk(s, s) BY DEF EndsOk
<1>2. EndsOk(s, Play!Ended(s, "view")) BY <1>1, EndOneSound DEF Play!Gestures
<1>3. EndsOk(s, Play!Ended(Play!Ended(s, "view"), "wide")) BY <1>2, EndOneSound DEF Play!Gestures
<1>4. EndsOk(s, Play!Ended(Play!Ended(s, "view"), "wheel")) BY <1>2, EndOneSound DEF Play!Gestures
<1>5. EndsOk(s, Play!AllEnded(s)) BY <1>4, EndOneSound DEF Play!Gestures, Play!AllEnded
<1> QED BY <1>3, <1>5

\* Every step of the played keys keeps the invariant.
LEMMA PlayNext == PlayInv /\ [Play!Next]_(Play!emuVars) => PlayInv'
<1> SUFFICES ASSUME PlayInv, [Play!Next]_(Play!emuVars) PROVE PlayInv' OBVIOUS
<1> USE BoundsAssumption DEF PlayInv
<1>m. CASE /\ moves < PlayEvents /\ moves' = moves + 1
           /\ \/ \E event \in AxisEvents : Play!Axis(event)
              \/ \E p1 \in {"view", "popup", "wide", "other"} : Play!Motion(p1)
              \/ Play!PinchBegin \/ Play!PinchUpdate \/ Play!PinchEnd \/ Play!ButtonOrKey \/ Play!Reload
  <2> moves' \in 0..PlayEvents BY <1>m
  <2>1. ASSUME NEW event \in AxisEvents, Play!Axis(event) PROVE PlayInv'
    <3>1. g' = Play!OnAxis(g, event) /\ UNCHANGED <<eAt, conf>> BY <2>1 DEF Play!Axis
    <3>2. crossed' \in BOOLEAN /\ (~crossed' => ~crossed /\ NoneCrossed(g, g'))
      <4>1. crossed' = (crossed \/ \E k \in Play!Gestures : ~g[k].on /\ g'[k].on /\ Play!AnyOn([g EXCEPT ![k] = Play!Off]))
        BY <2>1 DEF Play!Axis, Play!Cross
      <4>2. \A k \in Play!Gestures : \A j \in Play!Gestures : j # k => [g EXCEPT ![k] = Play!Off][j] = g[j]
        BY DEF PlayType, Play!Gestures
      <4> QED BY <4>1, <4>2 DEF NoneCrossed, Play!AnyOn
    <3>3. g' \in PlayType /\ HeldOk(g') /\ (SavedOk(g) /\ NoneCrossed(g, g') => SavedOk(g'))
      BY <3>1, AxisSound
    <3>4. ~crossed' => SavedOk(g)' BY <3>1, <3>2, <3>3 DEF SavedOk, Play!AnyOn
    <3> QED BY <3>1, <3>2, <3>3, <3>4 DEF HeldOk
  <2>2. ASSUME NEW p1 \in {"view", "popup", "wide", "other"}, Play!Motion(p1) PROVE PlayInv'
    BY <2>2, EndAllSound DEF Play!Motion, EndsOk, HeldOk, SavedOk, Play!AnyOn
  <2>3. CASE Play!PinchBegin
    <3> DEFINE s == Play!Ended(g, "view")
               b == Play!Begun(s, "view", TRUE)
    <3>1. UNCHANGED <<eAt, conf>> /\ g' \in {s, b} BY <2>3 DEF Play!PinchBegin
    <3>2. crossed' \in BOOLEAN /\ (~crossed' => ~crossed /\ NoneCrossed(g, g'))
      <4>1. crossed' = (crossed \/ \E k \in Play!Gestures : ~g[k].on /\ g'[k].on /\ Play!AnyOn([g EXCEPT ![k] = Play!Off]))
        BY <2>3 DEF Play!PinchBegin, Play!Cross
      <4>2. \A k \in Play!Gestures : \A j \in Play!Gestures : j # k => [g EXCEPT ![k] = Play!Off][j] = g[j]
        BY DEF PlayType, Play!Gestures
      <4> QED BY <4>1, <4>2 DEF NoneCrossed, Play!AnyOn
    <3>3. Stage(g, s, "view") /\ ~s.view.on BY EndedStage DEF Play!Gestures
    <3>4. Stage(s, b, "view") /\ b.view.on BY <3>3, BegunStage DEF Stage, Play!Gestures
    <3> HIDE DEF s, b
    <3>5. CASE g' = s
      BY <3>1, <3>2, <3>3, <3>5 DEF Stage, HeldOk, SavedOk, Play!AnyOn
    <3>6. CASE g' = b
      <4>1. ~crossed' => SavedOk(g) /\ SavedOk(s) BY <3>2, <3>3 DEF Stage
      <4>2. ~crossed' => ~Play!AnyOn(s)
        <5> SUFFICES ASSUME ~crossed' PROVE ~Play!AnyOn(s) OBVIOUS
        <5>1. s.wheel = g.wheel /\ s.wide = g.wide BY <3>3 DEF Stage, Play!Gestures
        <5>2. g.view.on => ~g.wheel.on /\ ~g.wide.on BY <4>1 DEF SavedOk, Play!Gestures
        <5>3. ~g.view.on => ~g.wheel.on /\ ~g.wide.on
          BY <3>2, <3>4, <3>6 DEF NoneCrossed, Play!Gestures
        <5> QED BY <3>3, <5>1, <5>2, <5>3 DEF Play!AnyOn, Play!Gestures
      <4>3. ~crossed' => SavedOk(b) BY <3>4, <4>1, <4>2 DEF Stage
      <4>4. ~crossed' => SavedOk(g)' BY <3>1, <3>6, <4>3 DEF SavedOk, Play!AnyOn
      <4> QED BY <3>1, <3>2, <3>4, <3>6, <4>4 DEF Stage, HeldOk
    <3> QED BY <3>1, <3>5, <3>6
  <2>4. CASE Play!PinchUpdate
    <3>1. UNCHANGED <<eAt, conf, crossed>> /\ g' = Play!Moved(g) /\ g.view.on BY <2>4 DEF Play!PinchUpdate
    <3>2. Stage(g, g', "view") BY <3>1, SameStage, MovedStage DEF Play!Gestures
    <3> QED BY <3>1, <3>2 DEF Stage, HeldOk, SavedOk, Play!AnyOn, Play!Gestures
  <2>5. CASE Play!PinchEnd
    <3>1. UNCHANGED <<eAt, conf, crossed>> /\ g' = Play!Ended(g, "view") BY <2>5 DEF Play!PinchEnd
    <3>2. Stage(g, g', "view") /\ ~g'["view"].on BY <3>1, EndedStage DEF Play!Gestures
    <3> QED BY <3>1, <3>2 DEF Stage, HeldOk, SavedOk, Play!AnyOn, Play!Gestures
  <2>6. CASE Play!ButtonOrKey
    BY <2>6, EndAllSound DEF Play!ButtonOrKey, EndsOk, HeldOk, SavedOk, Play!AnyOn
  <2>7. CASE Play!Reload
    <3>1. /\ conf' \in Play!Confs /\ g' = [g EXCEPT !.repeat = conf'] /\ eAt' = eAt
          /\ crossed' = (crossed \/ Play!AnyOn(g))
      BY <2>7 DEF Play!Reload
    <3>2. g' \in PlayType
      <4>1. conf' \in 0..2 BY <3>1 DEF Play!Confs
      <4> QED BY <3>1, <4>1 DEF PlayType
    <3>3. (\A k \in Play!Gestures : g'[k] = g[k]) /\ g'.held = g.held /\ g'.repeat = conf'
      BY <3>1 DEF PlayType, Play!Gestures
    <3>4. HeldOk(g)' BY <3>3 DEF HeldOk, Play!Gestures
    <3>5. ~crossed' => SavedOk(g)' BY <3>1, <3>3 DEF SavedOk, Play!AnyOn
    <3>6. crossed' \in BOOLEAN BY <3>1 DEF Play!AnyOn
    <3> QED BY <3>1, <3>2, <3>4, <3>5, <3>6
  <2> QED BY <1>m, <2>1, <2>2, <2>3, <2>4, <2>5, <2>6, <2>7
<1>t. CASE UNCHANGED moves /\ Play!Timeout
  <2> DEFINE s == [g EXCEPT !.timer = FALSE]
  <2>1. Stage(g, s, "view") BY SameStage, TimedStage DEF Play!Gestures
  <2>2. s \in PlayType /\ HeldOk(s) /\ (SavedOk(g) => SavedOk(s))
    BY <2>1 DEF Stage, s, SavedOk, Play!AnyOn, PlayType, Play!Gestures
  <2>3. UNCHANGED <<eAt, conf, crossed>> /\ g' = Play!AllEnded(s) BY <1>t DEF Play!Timeout
  <2> HIDE DEF s
  <2> QED BY <1>t, <2>2, <2>3, EndAllSound DEF EndsOk, HeldOk, SavedOk, Play!AnyOn
<1>u. CASE UNCHANGED Play!emuVars
  BY <1>u DEF Play!emuVars, HeldOk, SavedOk, Play!AnyOn
<1> QED BY <1>m, <1>t, <1>u DEF Play!Next, AxisEvents

-----------------------------------------------------------------------------
(* Gestures (Gestures).                                                    *)

\* Nothing goes on; a stroke clients hear, until an action takes it.
GestIdle == gest.open = "none" /\ gest.off = 0 /\ gest.lean = 0 /\ ~gest.zoom /\ ~gest.triggered
Stroking(kind) == gest.open = IF gest.triggered THEN "none" ELSE kind

GestType == [triggered : BOOLEAN, spent : BOOLEAN, lean : -1..1, off : -2..2, zoom : BOOLEAN,
                 open : {"none", "swipe", "pinch"}, stray : BOOLEAN]

\* What a motion writes keeps the type.
LEMMA LeanType ==
    ASSUME NEW s \in GestType, NEW a \in BOOLEAN, NEW b \in BOOLEAN, NEW l \in -1..1, NEW o \in -2..2
    PROVE  /\ [s EXCEPT !.triggered = a, !.spent = b, !.lean = l] \in GestType
           /\ [s EXCEPT !.triggered = a, !.spent = b, !.lean = l, !.off = o] \in GestType
           /\ [s EXCEPT !.triggered = a, !.lean = l, !.off = o] \in GestType
BY DEF GestType

\* So does what clients are told.
LEMMA TellType ==
    ASSUME NEW s \in GestType, NEW kind \in {"swipe", "pinch"}
    PROVE  {Gest!Told(s, kind), Gest!Heard(s, kind), Gest!Over(s, kind)} \subseteq GestType
BY DEF GestType, Gest!Told, Gest!Heard, Gest!Over

\* While no source mixes with another: which stroke goes on, for whom.
GestPlain ==
    /\ ~gest.stray
    /\ fingers \in {{}, {"pad"}, {"touch"}, {"pinch"}}
    /\ fingers = {} => GestIdle
    /\ fingers = {"pad"} =>
         IF "swipe" \in allowed THEN Stroking("swipe") /\ gest.off = gest.lean /\ ~gest.zoom ELSE GestIdle
    /\ fingers = {"touch"} => gest.open = "none" /\ gest.off = gest.lean /\ ~gest.zoom
    /\ fingers = {"pinch"} =>
         IF "pinch" \notin allowed THEN GestIdle
         ELSE /\ gest.off = 0 /\ gest.lean = 0
              /\ IF gest.zoom THEN gest.open = "none" /\ ~gest.triggered ELSE Stroking("pinch")

\* The inductive invariant.
GestInv == Gest!TypeOK /\ (~mixed => GestPlain)

\* No stroke goes on at the start.
LEMMA GestInit == Gest!Init => GestInv
<1> SUFFICES ASSUME Gest!Init PROVE GestInv OBVIOUS
<1>1. gest \in GestType BY DEF Gest!Init, GestType
<1>2. strokes \in 0..MaxGestures BY BoundsAssumption DEF Gest!Init
<1> QED BY <1>1, <1>2 DEF GestInv, Gest!TypeOK, GestPlain, Gest!Init, GestIdle, GestType

\* Every gesture event keeps the invariant.
LEMMA GestNext == GestInv /\ [Gest!Next]_(Gest!gestVars) => GestInv'
<1> SUFFICES ASSUME GestInv, [Gest!Next]_(Gest!gestVars) PROVE GestInv' OBVIOUS
<1> USE BoundsAssumption DEF GestInv, Gest!TypeOK
<1>n. ASSUME Gest!Next, gest' \in GestType, fingers' \subseteq Gest!Sources, allowed' \subseteq Gest!Kinds, mixed' \in BOOLEAN,
             ~mixed' => ~mixed /\ GestPlain'
      PROVE GestInv'
  BY <1>n DEF Gest!Next, GestType
<1>t. gest \in GestType BY DEF GestType
<1> USE DEF Gest!Sources, Gest!Kinds
<1>1. ASSUME NEW src \in {"pad", "touch"}, Gest!SwipeBegin(src), Gest!Next PROVE GestInv'
  <2> USE DEF Gest!SwipeBegin, Gest!Lands, Gest!Listens
  <2> DEFINE s == [gest EXCEPT !.triggered = FALSE, !.spent = FALSE, !.lean = 0]
  <2>a. gest' \in {gest, s, Gest!Told(s, "swipe")} BY <1>1
  <2>c. 0 \in -1..1 /\ 0 \in -2..2 OBVIOUS
  <2>b. s \in GestType BY <1>t, <2>c, LeanType
  <2> HIDE DEF s
  <2>1. gest' \in GestType BY <1>t, <2>a, <2>b, TellType
  <2>2. ~mixed' => ~mixed /\ GestPlain' BY <1>1, <1>t DEF Gest!Told, GestType, GestPlain, GestIdle, Stroking
  <2> QED BY <1>1, <2>1, <2>2, <1>n
<1>2. ASSUME NEW src \in {"pad", "touch"}, Gest!SwipeEnd(src), Gest!Next PROVE GestInv'
  <2> USE DEF Gest!SwipeEnd, Gest!Lifts, Gest!Listens
  <2> DEFINE s == [gest EXCEPT !.triggered = FALSE, !.lean = 0, !.off = @ - gest.lean]
  <2>a. gest.off - gest.lean \in -2..2 /\ gest' \in {gest, s, Gest!Over(s, "swipe")} BY <1>2
  <2> DEFINE o == gest.off - gest.lean
  <2>c. o \in -2..2 BY <1>2
  <2>d. s = [gest EXCEPT !.triggered = FALSE, !.lean = 0, !.off = o] BY <1>t DEF GestType
  <2>e. 0 \in -1..1 OBVIOUS
  <2>b. s \in GestType
    <3> HIDE DEF o
    <3> QED BY <1>t, <2>c, <2>d, <2>e, LeanType
  <2> HIDE DEF s
  <2>1. gest' \in GestType BY <1>t, <2>a, <2>b, TellType
  <2>2. ~mixed' => ~mixed /\ GestPlain' BY <1>2, <1>t DEF GestType, GestPlain, GestIdle, Stroking, Gest!Over, Gest!Heard
  <2> QED BY <1>2, <2>1, <2>2, <1>n
<1>3. ASSUME NEW src \in {"pad", "touch"}, NEW b \in BOOLEAN, Gest!SwipeStep(src, b), Gest!Next PROVE GestInv'
  <2> USE DEF Gest!SwipeStep, Gest!Moves, Gest!Listens
  <2> DEFINE s == [gest EXCEPT !.triggered = TRUE, !.spent = ~b, !.lean = 0, !.off = 0]
  <2>a. gest' \in {s, Gest!Over(s, "swipe")} BY <1>3
  <2> DEFINE n == ~b
  <2>c. n \in BOOLEAN OBVIOUS
  <2>d. 0 \in -1..1 /\ 0 \in -2..2 OBVIOUS
  <2>b. s \in GestType
    <3> HIDE DEF n
    <3>1. [gest EXCEPT !.triggered = TRUE, !.spent = n, !.lean = 0, !.off = 0] \in GestType
      BY <1>t, <2>c, <2>d, LeanType
    <3> QED BY <3>1 DEF n
  <2> HIDE DEF s
  <2>1. gest' \in GestType BY <2>a, <2>b, TellType
  <2>2. ~mixed' => ~mixed /\ GestPlain' BY <1>3, <1>t DEF GestType, GestPlain, GestIdle, Stroking, Gest!Over, Gest!Heard
  <2> QED BY <1>3, <2>1, <2>2, <1>n
<1>4. ASSUME NEW src \in {"pad", "touch"}, NEW want \in -1..1, Gest!SwipeLean(src, want), Gest!Next PROVE GestInv'
  <2> USE DEF Gest!SwipeLean, Gest!Moves, Gest!Listens
  <2> DEFINE s == [gest EXCEPT !.lean = want, !.off = @ + want - gest.lean]
  <2>a. gest.off + want - gest.lean \in -2..2 /\ gest' \in {s, Gest!Heard(s, "swipe")} BY <1>4
  <2> DEFINE o == gest.off + want - gest.lean
  <2>c. o \in -2..2 BY <1>4
  <2>d. s = [gest EXCEPT !.lean = want, !.off = o] BY <1>t DEF GestType
  <2>b. s \in GestType
    <3> HIDE DEF o
    <3> QED BY <1>t, <2>c, <2>d DEF GestType
  <2> HIDE DEF s
  <2>1. gest' \in GestType BY <2>a, <2>b, TellType
  <2>2. ~mixed' => ~mixed /\ GestPlain' BY <1>4, <1>t DEF GestType, GestPlain, GestIdle, Stroking, Gest!Over, Gest!Heard
  <2> QED BY <1>4, <2>1, <2>2, <1>n
<1>5. ASSUME NEW b \in BOOLEAN, Gest!PinchBegin(b), Gest!Next PROVE GestInv'
  <2> USE DEF Gest!PinchBegin, Gest!Lands, Gest!Told
  <2>1. gest' \in GestType BY <1>5, <1>t DEF GestType
  <2>2. ~mixed' => ~mixed /\ GestPlain' BY <1>5, <1>t DEF GestType, GestPlain, GestIdle, Stroking
  <2> QED BY <1>5, <2>1, <2>2, <1>n
<1>6. ASSUME NEW b \in BOOLEAN, Gest!PinchUpdate(b), Gest!Next PROVE GestInv'
  <2> USE DEF Gest!PinchUpdate, Gest!Moves, Gest!Over, Gest!Heard
  <2>1. gest' \in GestType BY <1>6, <1>t DEF GestType
  <2>2. ~mixed' => ~mixed /\ GestPlain' BY <1>6, <1>t DEF GestType, GestPlain, GestIdle, Stroking
  <2> QED BY <1>6, <2>1, <2>2, <1>n
<1>7. ASSUME Gest!PinchEnd, Gest!Next PROVE GestInv'
  <2> USE DEF Gest!PinchEnd, Gest!Lifts, Gest!Over, Gest!Heard
  <2>1. gest' \in GestType BY <1>7, <1>t DEF GestType
  <2>2. ~mixed' => ~mixed /\ GestPlain' BY <1>7, <1>t DEF GestType, GestPlain, GestIdle, Stroking
  <2> QED BY <1>7, <2>1, <2>2, <1>n
<1>8. ASSUME Gest!Reload, Gest!Next PROVE GestInv'
  <2> USE DEF Gest!Reload
  <2>2. ~mixed' => ~mixed /\ GestPlain' BY <1>8, <1>t DEF GestType, GestPlain, GestIdle, Stroking
  <2> QED BY <1>8, <2>2, <1>n, <1>t
<1>u. CASE UNCHANGED Gest!gestVars
  BY <1>u DEF Gest!gestVars, GestPlain, GestIdle, Stroking
<1> QED BY <1>1, <1>2, <1>3, <1>4, <1>5, <1>6, <1>7, <1>8, <1>u DEF Gest!Next

-----------------------------------------------------------------------------
(* Fingers (Touch).                                                        *)

\* The type of a state; and that one finger at most plays or waits to play the pointer.
TouchType == [route : [Fingers -> Touch!Routes], place : [Fingers -> Touch!Places], far : SUBSET Fingers,
              claim : Touch!Claims, told : SUBSET Fingers, pressed : BOOLEAN, swipe : BOOLEAN]
Alone(s) == \A f, h \in Fingers : s.route[f] \in {"wait", "press"} /\ s.route[h] \in {"wait", "press"} => f = h

\* Everything but the claim, which has fingers exactly while there is one.
Core(s) ==
  /\ s \in TouchType
  /\ \A f \in Fingers : f \in s.told <=> s.route[f] = "client"
  /\ s.swipe <=> s.claim = Touch!Multi("swipe")
  /\ s.pressed => mouse \/ \E f \in Fingers : s.route[f] = "press"
  /\ Alone(s)

ClaimOk(s) ==
  /\ s.claim.kind # "none" <=> \E f \in Fingers : s.route[f] = "claimed"
  /\ s.claim.kind = "edge" => s.route[s.claim.of] = "claimed" /\ \A h \in Fingers : s.route[h] = "claimed" => h = s.claim.of

\* Nobody has claimed, except that f has not yet been let go.
Free(s, f) == s.claim = Touch!NoClaim /\ \A h \in Fingers : s.route[h] = "claimed" => h = f

\* The claims there are, and what tells them apart.
LEMMA ClaimFacts ==
   /\ Touch!NoClaim \in Touch!Claims /\ Touch!NoClaim.kind = "none" /\ Touch!NoClaim # Touch!Multi("swipe")
   /\ \A c \in Touch!Claims :
       /\ c.kind \in {"none", "edge", "desk", "multi"}
       /\ c.kind = "none" => c = Touch!NoClaim
       /\ c.kind = "edge" => c.of \in Fingers /\ c.what \in {"undecided", "fired"}
       /\ c.kind = "multi" => c = Touch!Multi(c.what) /\ c.what \in {"undecided", "swipe", "pinch", "fired"}
       /\ c.kind = "desk" => c = Touch!Desk(c.what) /\ c.what \in {"still", "moved"}
   /\ \A w \in {"undecided", "swipe", "pinch", "fired"} : Touch!Multi(w) \in Touch!Claims /\ Touch!Multi(w).kind = "multi" /\ Touch!Multi(w).what = w
   /\ \A w \in {"still", "moved"} : Touch!Desk(w) \in Touch!Claims /\ Touch!Desk(w).kind = "desk"
   /\ \A f \in Fingers, w \in {"undecided", "fired"} : [kind |-> "edge", of |-> f, what |-> w] \in Touch!Claims
BY DEF Touch!Claims, Touch!NoClaim, Touch!Multi, Touch!Desk

\* What a handler writes keeps the type.
LEMMA TouchPutType ==
   ASSUME NEW s \in TouchType, NEW f \in Fingers, NEW w \in Touch!Routes, NEW c \in Touch!Claims, NEW b \in BOOLEAN
   PROVE  /\ [s EXCEPT !.route[f] = w, !.claim = c] \in TouchType
          /\ [s EXCEPT !.route[f] = w, !.pressed = b] \in TouchType
          /\ [s EXCEPT !.claim = c] \in TouchType
          /\ [s EXCEPT !.route[f] = w, !.claim = c].told = s.told
          /\ [s EXCEPT !.route[f] = w, !.claim = c].swipe = s.swipe
          /\ [s EXCEPT !.route[f] = w, !.claim = c].pressed = s.pressed
          /\ [s EXCEPT !.route[f] = w, !.claim = c].claim = c
          /\ \A h \in Fingers : [s EXCEPT !.route[f] = w, !.claim = c].route[h] = IF h = f THEN w ELSE s.route[h]
BY DEF TouchType

\* A finger that begins goes to a client, to nobody or waits to press.
LEMMA BeginSound ==
   ASSUME NEW s, NEW f \in Fingers, Core(s), s.route[f] \in {"none", "claimed"},
          Free(s, f) \/ (ClaimOk(s) /\ s.route[f] = "none")
   PROVE  LET r == Touch!Begin(s, f) IN
      /\ Core(r) /\ ClaimOk(r) /\ r.claim = s.claim /\ r.route[f] \in {"client", "ignored", "wait"}
      /\ \A h \in Fingers \ {f} : r.route[h] = s.route[h]
      /\ r.place = s.place /\ r.far = s.far /\ r.pressed = s.pressed /\ r.told \ {f} = s.told \ {f}
<1> DEFINE r == Touch!Begin(s, f)
<1> USE ClaimFacts DEF Core, Free
<1>1. r \in TouchType
  BY DEF Touch!Begin, TouchType, Touch!Routes
<1>2. /\ \A h \in Fingers \ {f} : r.route[h] = s.route[h]
      /\ r.place = s.place /\ r.far = s.far /\ r.pressed = s.pressed /\ r.swipe = s.swipe /\ r.claim = s.claim
  BY DEF Touch!Begin, TouchType, Touch!Routes
<1>3. \/ r.route[f] = "client" /\ r.told = s.told \cup {f}
      \/ r.route[f] = "ignored" /\ r.told = s.told
      \/ /\ r.route[f] = "wait" /\ r.told = s.told /\ \A h \in Fingers : s.route[h] \notin {"wait", "press"}
  BY DEF Touch!Begin, TouchType, Touch!Routes, Touch!Routed
<1>4. Alone(r) BY <1>2, <1>3 DEF Alone
<1> HIDE DEF r
<1>5. Core(r) BY <1>1, <1>2, <1>3, <1>4 DEF TouchType
<1>6. ClaimOk(r)
  <2>1. s.claim \in Touch!Claims BY DEF TouchType
  <2>2. (r.claim.kind # "none" <=> \E h \in Fingers : r.route[h] = "claimed")
    BY <1>2, <1>3 DEF ClaimOk
  <2>3. r.claim.kind = "edge" => r.route[r.claim.of] = "claimed" /\ \A h \in Fingers : r.route[h] = "claimed" => h = r.claim.of
    BY <1>2, <1>3, <2>1 DEF ClaimOk
  <2> QED BY <2>2, <2>3 DEF ClaimOk
<1> QED BY <1>2, <1>3, <1>5, <1>6 DEF r

TouchOk(s) == Core(s) /\ ClaimOk(s)

\* A finger slides: a desk drag may begin.
LEMMA SlidesSound ==
   ASSUME NEW s, NEW f \in Fingers, TouchOk(s)
   PROVE  LET r == Touch!Slides(s, f) IN
      /\ TouchOk(r) /\ r.claim \in {s.claim, Touch!Desk("moved")}
      /\ \A h \in Fingers \ {f} : r.route[h] = s.route[h]
      /\ s.route[f] # "none" => r.route[f] # "none"
<1> DEFINE r == Touch!Slides(s, f)
<1> USE ClaimFacts DEF TouchOk, Core
<1>1. CASE f \notin s.far \/ s.route[f] # "wait"
  BY <1>1 DEF Touch!Slides
<1>2. CASE f \in s.far /\ s.route[f] = "wait" /\ s.place[f] = "desk" /\ ~adjusting /\ Touch!Down(s) = {f}
  <2>1. r = [s EXCEPT !.route[f] = "claimed", !.claim = Touch!Desk("moved")]
    BY <1>2 DEF Touch!Slides
  <2>0. "claimed" \in Touch!Routes /\ Touch!Desk("moved") \in Touch!Claims /\ s \in TouchType BY DEF Touch!Routes
  <2>10. [s EXCEPT !.route[f] = "claimed", !.claim = Touch!Desk("moved")] \in TouchType BY <2>0, TouchPutType
  <2>2. r \in TouchType BY <2>1, <2>10
  <2>3. /\ r.told = s.told /\ r.swipe = s.swipe /\ r.pressed = s.pressed /\ r.claim = Touch!Desk("moved")
        /\ \A h \in Fingers : r.route[h] = IF h = f THEN "claimed" ELSE s.route[h]
    BY <2>1 DEF TouchType
  <2>4. \A h \in Fingers : h # f => s.route[h] = "none" BY <1>2 DEF Touch!Down
  <2>5. s.claim.kind = "none" BY <1>2, <2>4 DEF ClaimOk
  <2>6. Touch!Desk("moved") # Touch!Multi("swipe") BY DEF Touch!Desk, Touch!Multi
  <2>7. ~s.swipe BY <2>5
  <2> HIDE DEF r
  <2>8. Core(r) BY <1>2, <2>2, <2>3, <2>4, <2>6, <2>7 DEF Alone
  <2>9. ClaimOk(r) BY <2>3 DEF ClaimOk
  <2> QED BY <1>2, <2>3, <2>8, <2>9 DEF r
<1>3. CASE f \in s.far /\ s.route[f] = "wait" /\ ~(s.place[f] = "desk" /\ ~adjusting /\ Touch!Down(s) = {f})
  <2>1. r = [s EXCEPT !.route[f] = "press", !.pressed = TRUE]
    BY <1>3 DEF Touch!Slides
  <2>0. "press" \in Touch!Routes /\ TRUE \in BOOLEAN /\ s \in TouchType BY DEF Touch!Routes
  <2>10. [s EXCEPT !.route[f] = "press", !.pressed = TRUE] \in TouchType
    <3>1. PICK c : c \in Touch!Claims BY ClaimFacts
    <3> QED BY <2>0, <3>1, TouchPutType
  <2>2. r \in TouchType BY <2>1, <2>10
  <2>3. /\ r.told = s.told /\ r.swipe = s.swipe /\ r.claim = s.claim
        /\ \A h \in Fingers : r.route[h] = IF h = f THEN "press" ELSE s.route[h]
    BY <2>1 DEF TouchType
  <2>4. s.claim \in Touch!Claims BY DEF TouchType
  <2> HIDE DEF r
  <2>8. Core(r) BY <1>3, <2>2, <2>3 DEF Alone
  <2>9. ClaimOk(r) BY <1>3, <2>3, <2>4 DEF ClaimOk
  <2> QED BY <1>3, <2>3, <2>8, <2>9 DEF r
<1> QED BY <1>1, <1>2, <1>3

\* An edge claim given back lets its finger begin as any other.
LEMMA EdgeReleaseSound ==
   ASSUME NEW s, TouchOk(s), s.claim.kind = "edge"
   PROVE  LET r == Touch!EdgeRelease(s) IN
      /\ TouchOk(r) /\ r.claim.kind \in {"none", "desk"}
      /\ \A h \in Fingers : s.route[h] = "none" => r.route[h] = "none"
<1> DEFINE f == s.claim.of
           freed == [s EXCEPT !.claim = Touch!NoClaim]
           b == Touch!Begin(freed, f)
<1> USE ClaimFacts DEF TouchOk, Core
<1>1. s.claim \in Touch!Claims BY DEF TouchType
<1>2. f \in Fingers /\ s.route[f] = "claimed" /\ \A h \in Fingers : s.route[h] = "claimed" => h = f
  BY <1>1 DEF ClaimOk
<1>3. freed \in TouchType BY DEF TouchType
<1>4. freed.claim = Touch!NoClaim /\ freed.route = s.route /\ freed.told = s.told /\ freed.swipe = s.swipe /\ freed.pressed = s.pressed
  BY DEF TouchType
<1>5. ~s.swipe BY <1>1 DEF TouchType
<1> HIDE DEF freed
<1>6. Core(freed) /\ Free(freed, f) BY <1>2, <1>3, <1>4, <1>5 DEF Alone, Free
<1>7. /\ TouchOk(b) /\ b.claim = Touch!NoClaim
      /\ \A h \in Fingers \ {f} : b.route[h] = s.route[h]
  BY <1>2, <1>4, <1>6, BeginSound
<1>8. Touch!EdgeRelease(s) = Touch!Slides(b, f) BY <1>2 DEF Touch!EdgeRelease, freed
<1> HIDE DEF b, f
<1> QED BY <1>2, <1>7, <1>8, SlidesSound

\* A gesture of several fingers claims them all.
LEMMA ClaimAllSound ==
   ASSUME NEW s, NEW f \in Fingers, TouchOk(s), s.claim.kind \in {"none", "desk"}, s.route[f] = "none",
          NEW c \in {Touch!Multi("undecided"), Touch!Desk("still")}
   PROVE  TouchOk([Touch!Claimed(Touch!ClaimAll(s), f) EXCEPT !.claim = c])
<1> DEFINE a == Touch!ClaimAll(s)
           r == [Touch!Claimed(a, f) EXCEPT !.claim = c]
<1> USE ClaimFacts DEF TouchOk, Core
<1>0. c \in Touch!Claims /\ c.kind \in {"multi", "desk"} /\ c # Touch!Multi("swipe")
  BY DEF Touch!Multi, Touch!Desk
<1>1. /\ a \in TouchType /\ a.told = {} /\ a.swipe = s.swipe
      /\ \A h \in Fingers : a.route[h] \in {"none", "claimed"}
      /\ a.pressed => mouse
  <2>1. a.route = [h \in Fingers |-> IF s.route[h] = "none" THEN "none" ELSE "claimed"]
    BY DEF Touch!ClaimAll, TouchType
  <2>2. a.route \in [Fingers -> Touch!Routes] BY <2>1 DEF Touch!Routes
  <2>3. a.told = {}
    BY DEF Touch!ClaimAll, TouchType, Touch!Routed
  <2>4. a.pressed = (s.pressed /\ Touch!Routed(s, "press") = {}) /\ a.pressed \in BOOLEAN
    BY DEF Touch!ClaimAll, TouchType
  <2>5. a.pressed => mouse
    <3> HIDE DEF a
    <3>1. s.pressed => mouse \/ Touch!Routed(s, "press") # {} BY DEF Touch!Routed
    <3> QED BY <2>4, <3>1
  <2>6. a.swipe = s.swipe BY DEF Touch!ClaimAll, TouchType
  <2>7. a = [s EXCEPT !.told = a.told, !.pressed = a.pressed, !.route = a.route]
    BY DEF Touch!ClaimAll, TouchType
  <2> HIDE DEF a
  <2>8. a \in TouchType BY <2>2, <2>3, <2>4, <2>7 DEF TouchType
  <2> QED BY <2>1, <2>3, <2>5, <2>6, <2>8
<1> HIDE DEF a
<1>2. r = [a EXCEPT !.route[f] = "claimed", !.claim = c] BY <1>1 DEF Touch!Claimed, TouchType
<1>9. "claimed" \in Touch!Routes BY DEF Touch!Routes
<1>10. a \in TouchType /\ c \in Touch!Claims /\ TRUE \in BOOLEAN BY <1>0, <1>1
<1> HIDE DEF r
<1>3. r \in TouchType BY <1>2, <1>9, <1>10, TouchPutType
<1>11. r.told = a.told /\ r.swipe = s.swipe /\ r.claim = c /\ r.pressed = a.pressed
  BY <1>1, <1>2, <1>10 DEF TouchType
<1>12. \A h \in Fingers : r.route[h] = IF h = f THEN "claimed" ELSE a.route[h]
  BY <1>2, <1>10 DEF TouchType
<1>4. /\ r.told = a.told /\ r.swipe = s.swipe /\ r.claim = c /\ r.pressed = a.pressed
      /\ \A h \in Fingers : r.route[h] = IF h = f THEN "claimed" ELSE a.route[h]
  BY <1>11, <1>12
<1>5. ~s.swipe BY DEF TouchType
<1> HIDE DEF r
<1>6. Core(r) BY <1>0, <1>1, <1>3, <1>4, <1>5 DEF Alone
<1>7. ClaimOk(r) BY <1>0, <1>1, <1>4 DEF ClaimOk
<1> QED BY <1>6, <1>7 DEF r, a

\* A first finger, at an edge or elsewhere.
LEMMA FreshSound ==
   ASSUME NEW s, NEW f \in Fingers, NEW edge \in BOOLEAN, TouchOk(s), s.claim.kind \in {"none", "desk"}, s.route[f] = "none"
   PROVE  TouchOk(Touch!Fresh(s, f, edge))
<1> DEFINE c == [kind |-> "edge", of |-> f, what |-> "undecided"]
           r == [Touch!Claimed(s, f) EXCEPT !.claim = c]
<1>0. c \in Touch!Claims /\ c.kind = "edge" /\ c.of = f /\ c # Touch!Multi("swipe") /\ "claimed" \in Touch!Routes
  BY DEF Touch!Claims, Touch!Multi, Touch!Routes
<1>1. CASE Touch!Down(s) = {} /\ edge
  <2>1. Touch!Fresh(s, f, edge) = r BY <1>1 DEF Touch!Fresh
  <2>2. \A h \in Fingers : s.route[h] = "none" BY <1>1 DEF Touch!Down
  <2> HIDE DEF c
  <2>3. s \in TouchType BY DEF TouchOk, Core
  <2>4. r = [s EXCEPT !.route[f] = "claimed", !.claim = c] BY <2>3 DEF Touch!Claimed, TouchType
  <2> HIDE DEF r
  <2>5. r \in TouchType BY <1>0, <2>3, <2>4, TouchPutType
  <2>6. r.told = s.told /\ r.swipe = s.swipe /\ r.claim = c /\ r.pressed = s.pressed
    BY <2>3, <2>4 DEF TouchType
  <2>7. \A h \in Fingers : r.route[h] = IF h = f THEN "claimed" ELSE "none"
    BY <2>2, <2>3, <2>4 DEF TouchType
  <2>8. ~s.swipe
    BY ClaimFacts DEF TouchOk, Core, ClaimOk
  <2>9. Core(r) BY <1>0, <2>2, <2>5, <2>6, <2>7, <2>8 DEF TouchOk, Core, Alone
  <2>10. ClaimOk(r) BY <1>0, <2>6, <2>7 DEF ClaimOk
  <2> QED BY <2>1, <2>9, <2>10 DEF TouchOk
<1>2. CASE ~(Touch!Down(s) = {} /\ edge)
  <2>1. Touch!Fresh(s, f, edge) \in
          {[Touch!Claimed(Touch!ClaimAll(s), f) EXCEPT !.claim = Touch!Multi("undecided")],
           [Touch!Claimed(Touch!ClaimAll(s), f) EXCEPT !.claim = Touch!Desk("still")], Touch!Begin(s, f)}
    BY <1>2 DEF Touch!Fresh
  <2>2. TouchOk(Touch!Begin(s, f)) BY BeginSound DEF TouchOk
  <2>3. TouchOk([Touch!Claimed(Touch!ClaimAll(s), f) EXCEPT !.claim = Touch!Multi("undecided")])
    BY ClaimAllSound
  <2>4. TouchOk([Touch!Claimed(Touch!ClaimAll(s), f) EXCEPT !.claim = Touch!Desk("still")])
    BY ClaimAllSound
  <2> QED BY <2>1, <2>2, <2>3, <2>4
<1> QED BY <1>1, <1>2

\* A claimed finger lifts, and the last one ends the claim.
LEMMA ClaimLiftSound ==
   ASSUME NEW s, NEW q, NEW f \in Fingers, NEW cancelled \in BOOLEAN, TouchOk(q), q.route[f] = "claimed",
          s = [q EXCEPT !.route[f] = "none"]
   PROVE  LET r == Touch!ClaimLift(s, f, cancelled) IN
      TouchOk(r) /\ r.route[f] = "none"
<1> DEFINE bare == [s EXCEPT !.claim = Touch!NoClaim]
           b == Touch!Begin(bare, f)
           tap == [b EXCEPT !.route[f] = "none", !.told = @ \ {f},
                               !.pressed = @ /\ b.route[f] # "wait"]
           last == [bare EXCEPT !.swipe = @ /\ s.claim.what # "swipe"]
<1> USE ClaimFacts
<1>1. q \in TouchType /\ q.claim \in Touch!Claims BY DEF TouchOk, Core, TouchType
<1>2. s \in TouchType /\ bare \in TouchType BY <1>1 DEF TouchType, Touch!Routes
<1>3. /\ s.claim = q.claim /\ s.told = q.told /\ s.swipe = q.swipe /\ s.pressed = q.pressed
      /\ \A h \in Fingers : s.route[h] = IF h = f THEN "none" ELSE q.route[h]
  BY <1>1 DEF TouchType
<1>4. /\ bare.claim = Touch!NoClaim /\ bare.told = q.told /\ bare.swipe = q.swipe /\ bare.pressed = q.pressed
      /\ bare.route = s.route
  BY <1>2, <1>3 DEF TouchType
<1>5. Core(s) BY <1>2, <1>3 DEF TouchOk, Core, Alone
<1>6. CASE s.claim.kind = "edge"
  <2>1. s.claim.of = f /\ \A h \in Fingers : s.route[h] # "claimed"
    BY <1>1, <1>3, <1>6 DEF TouchOk, ClaimOk
  <2>2. ~q.swipe BY <1>3, <1>6 DEF TouchOk, Core
  <2> HIDE DEF bare
  <2>3. Core(bare) BY <1>2, <1>3, <1>4, <1>5, <2>2 DEF Core, Alone
  <2>4. ClaimOk(bare) BY <1>4, <2>1 DEF ClaimOk
  <2>5. bare.route[f] = "none" /\ Free(bare, f) BY <1>3, <1>4, <2>1 DEF Free
  <2>6. /\ TouchOk(b) /\ b.claim = Touch!NoClaim
        /\ \A h \in Fingers \ {f} : b.route[h] = bare.route[h]
        /\ b.pressed = bare.pressed
    <3>1. bare.route[f] \in {"none", "claimed"} BY <2>5
    <3>2. Free(bare, f) BY <2>5
    <3>3. /\ Core(b) /\ ClaimOk(b) /\ b.claim = bare.claim /\ b.pressed = bare.pressed
          /\ \A h \in Fingers \ {f} : b.route[h] = bare.route[h]
      BY <2>3, <3>1, <3>2, BeginSound
    <3> QED BY <1>4, <3>3 DEF TouchOk
  <2> HIDE DEF b
  <2>7. TouchOk(tap) /\ tap.route[f] = "none"
    <3>1. b \in TouchType BY <2>6 DEF TouchOk, Core
    <3> DEFINE still == b.pressed /\ b.route[f] # "wait"
               to == b.told \ {f}
    <3>2. tap = [b EXCEPT !.route[f] = "none", !.told = to, !.pressed = still] BY <3>1 DEF TouchType
    <3>3. still \in BOOLEAN /\ to \subseteq Fingers /\ "none" \in Touch!Routes BY <3>1 DEF TouchType, Touch!Routes
    <3>4. still => b.pressed OBVIOUS
    <3>5. to = b.told \ {f} OBVIOUS
    <3> HIDE DEF still, to, tap
    <3>6. tap \in TouchType BY <3>1, <3>2, <3>3 DEF TouchType
    <3>7. /\ tap.told = to /\ tap.pressed = still /\ tap.swipe = b.swipe /\ tap.claim = b.claim
          /\ \A h \in Fingers : tap.route[h] = IF h = f THEN "none" ELSE b.route[h]
      BY <3>1, <3>2 DEF TouchType
    <3>8. tap.pressed => mouse \/ \E h \in Fingers : tap.route[h] = "press"
      <4> SUFFICES ASSUME tap.pressed, ~mouse PROVE \E h \in Fingers : tap.route[h] = "press" OBVIOUS
      <4>1. bare.pressed BY <2>6, <3>4, <3>7
      <4>2. PICK h \in Fingers : bare.route[h] = "press" BY <2>3, <4>1 DEF Core
      <4>3. h # f BY <2>5, <4>2
      <4> QED BY <2>6, <3>7, <4>2, <4>3
    <3>9. Core(tap) BY <2>6, <3>5, <3>6, <3>7, <3>8 DEF TouchOk, Core, Alone
    <3>10. ClaimOk(tap)
      BY <1>4, <2>1, <2>6, <3>7 DEF ClaimOk
    <3> QED BY <3>7, <3>9, <3>10 DEF TouchOk
  <2>8. Touch!ClaimLift(s, f, cancelled) \in {bare, tap}
    BY <1>6, <2>1 DEF Touch!ClaimLift, bare, b
  <2> HIDE DEF tap
  <2> QED BY <2>3, <2>4, <2>5, <2>7, <2>8 DEF TouchOk
<1>7. CASE s.claim.kind # "edge" /\ Touch!Routed(s, "claimed") # {}
  <2>1. Touch!ClaimLift(s, f, cancelled) = s BY <1>7 DEF Touch!ClaimLift
  <2>2. ClaimOk(s) BY <1>3, <1>7 DEF TouchOk, ClaimOk, Touch!Routed
  <2> QED BY <1>3, <1>5, <2>1, <2>2, ZenonT(60) DEF TouchOk
<1>8. CASE s.claim.kind # "edge" /\ Touch!Routed(s, "claimed") = {}
  <2>1. s.claim.kind # "none" BY <1>3 DEF TouchOk, ClaimOk
  <2>2. Touch!ClaimLift(s, f, cancelled) = last BY <1>8, <2>1 DEF Touch!ClaimLift
  <2> DEFINE w == bare.swipe /\ s.claim.what # "swipe"
  <2>3. ~w
    BY <1>1, <1>3, <1>4, <1>8, <2>1 DEF TouchOk, Core, Touch!Multi
  <2>4. last = [bare EXCEPT !.swipe = FALSE] BY <1>2, <2>3 DEF TouchType
  <2> HIDE DEF bare, last
  <2>5. last \in TouchType BY <1>2, <2>4 DEF TouchType
  <2>6. /\ last.told = bare.told /\ last.swipe = FALSE /\ last.pressed = bare.pressed /\ last.claim = bare.claim
        /\ last.route = bare.route
    BY <1>2, <2>4 DEF TouchType
  <2>7. Core(last) BY <1>3, <1>4, <1>5, <2>5, <2>6 DEF Core, Alone
  <2>8. ClaimOk(last) BY <1>4, <1>8, <2>6 DEF ClaimOk, Touch!Routed
  <2> QED BY <1>3, <1>4, <2>2, <2>6, <2>7, <2>8 DEF TouchOk
<1> QED BY <1>6, <1>7, <1>8

\* Any finger lifts.
LEMMA UpSound ==
   ASSUME NEW s, NEW f \in Fingers, NEW cancelled \in BOOLEAN, TouchOk(s), s.route[f] # "none"
   PROVE  LET r == Touch!Up(s, f, cancelled) IN TouchOk(r) /\ r.route[f] = "none"
<1> DEFINE gone == [s EXCEPT !.route[f] = "none", !.far = @ \ {f}]
<1> USE ClaimFacts
<1>1. s \in TouchType /\ s.claim \in Touch!Claims BY DEF TouchOk, Core, TouchType
<1>2. /\ gone \in TouchType /\ gone.claim = s.claim /\ gone.told = s.told /\ gone.swipe = s.swipe /\ gone.pressed = s.pressed
      /\ \A h \in Fingers : gone.route[h] = IF h = f THEN "none" ELSE s.route[h]
  BY <1>1 DEF TouchType, Touch!Routes
<1>3. CASE s.route[f] = "claimed"
  <2> DEFINE q == [gone EXCEPT !.far = s.far]
  <2>1. q = [s EXCEPT !.route[f] = "none"] BY <1>1 DEF TouchType
  <2>2. Touch!Up(s, f, cancelled) = Touch!ClaimLift(q, f, cancelled) BY <1>3 DEF Touch!Up
  <2> HIDE DEF q
  <2> QED BY <1>3, <2>1, <2>2, ClaimLiftSound
<1> DEFINE c == [gone EXCEPT !.told = @ \ {f}]
           p0 == Touch!Released(gone)
<1>4. /\ c \in TouchType /\ c.claim = s.claim /\ c.told = s.told \ {f} /\ c.swipe = s.swipe /\ c.pressed = s.pressed
      /\ c.route = gone.route
  <2> HIDE DEF gone
  <2> QED BY <1>2 DEF TouchType
<1>5. /\ p0 \in TouchType /\ p0.claim = s.claim /\ p0.told = s.told /\ p0.swipe = s.swipe /\ p0.pressed = FALSE
      /\ p0.route = gone.route
  <2> HIDE DEF gone
  <2> QED BY <1>2 DEF TouchType, Touch!Released
<1> HIDE DEF gone, c, p0
<1>6. ASSUME NEW r, r \in TouchType, r.claim = s.claim, r.swipe = s.swipe, r.route = gone.route,
             s.route[f] # "claimed", r.told = s.told \ {f},
             r.pressed => mouse \/ \E h \in Fingers : r.route[h] = "press"
      PROVE  TouchOk(r) /\ r.route[f] = "none"
  <2>1. Core(r) BY <1>1, <1>2, <1>6 DEF TouchOk, Core, Alone, TouchType
  <2>2. ClaimOk(r) BY <1>1, <1>2, <1>6 DEF TouchOk, ClaimOk
  <2> QED BY <1>2, <1>6, <2>1, <2>2 DEF TouchOk
<1>7. s.route[f] # "client" => s.told \ {f} = s.told BY <1>1 DEF TouchOk, Core
<1>8. s.route[f] # "press" /\ s.pressed => mouse \/ \E h \in Fingers : gone.route[h] = "press"
  BY <1>2 DEF TouchOk, Core
<1>9. CASE s.route[f] = "client"
  <2>1. Touch!Up(s, f, cancelled) = c BY <1>9 DEF Touch!Up, c, gone
  <2> QED BY <1>4, <1>6, <1>8, <1>9, <2>1
<1>10. CASE s.route[f] = "press" \/ (s.route[f] = "wait" /\ ~cancelled)
  <2>1. Touch!Up(s, f, cancelled) = p0 BY <1>10 DEF Touch!Up, p0, gone
  <2> QED BY <1>5, <1>6, <1>7, <1>10, <2>1
<1>11. CASE (s.route[f] = "wait" /\ cancelled) \/ s.route[f] = "ignored"
  <2>1. Touch!Up(s, f, cancelled) = gone BY <1>11 DEF Touch!Up, gone
  <2> QED BY <1>2, <1>6, <1>7, <1>8, <1>11, <2>1
<1> QED BY <1>1, <1>3, <1>9, <1>10, <1>11 DEF TouchType, Touch!Routes

\* Where a finger lands changes nothing yet.
LEMMA LandSound ==
   ASSUME NEW s, NEW f \in Fingers, NEW place \in Touch!Places, TouchOk(s)
   PROVE  TouchOk(Touch!Land(s, f, place)) /\ Touch!Land(s, f, place).route = s.route
<1> DEFINE r == Touch!Land(s, f, place)
<1>1. s \in TouchType BY DEF TouchOk, Core
<1>2. /\ r \in TouchType /\ r.claim = s.claim /\ r.told = s.told /\ r.swipe = s.swipe /\ r.pressed = s.pressed
      /\ r.route = s.route
  BY <1>1 DEF TouchType, Touch!Land
<1> HIDE DEF r
<1>3. TouchOk(r) BY <1>2 DEF TouchOk, Core, ClaimOk, Alone
<1> QED BY <1>2, <1>3 DEF r

\* A finger joins a gesture; it may become one of several fingers.
LEMMA JoinSound ==
   ASSUME NEW s, NEW f \in Fingers, TouchOk(s), s.route[f] = "none", s.claim.kind \in {"desk", "multi"}
   PROVE  /\ TouchOk(Touch!Claimed(s, f))
          /\ s.claim = Touch!Desk("still") => TouchOk([Touch!Claimed(s, f) EXCEPT !.claim = Touch!Multi("undecided")])
<1> USE ClaimFacts
<1>1. s \in TouchType BY DEF TouchOk, Core
<1>2. "claimed" \in Touch!Routes BY DEF Touch!Routes
<1>3. s.claim \in Touch!Claims BY <1>1 DEF TouchType
<1>4. ASSUME NEW c \in Touch!Claims, c.kind # "edge", c.kind # "none", c = Touch!Multi("swipe") <=> s.claim = Touch!Multi("swipe")
      PROVE  TouchOk([s EXCEPT !.route[f] = "claimed", !.claim = c])
  <2> DEFINE r == [s EXCEPT !.route[f] = "claimed", !.claim = c]
  <2>1. r \in TouchType BY <1>1, <1>2, <1>4, TouchPutType
  <2>2. r.told = s.told /\ r.swipe = s.swipe /\ r.claim = c /\ r.pressed = s.pressed BY <1>1 DEF TouchType
  <2>3. \A h \in Fingers : r.route[h] = IF h = f THEN "claimed" ELSE s.route[h] BY <1>1 DEF TouchType
  <2> HIDE DEF r
  <2>4. Core(r) BY <1>4, <2>1, <2>2, <2>3 DEF TouchOk, Core, Alone
  <2>5. ClaimOk(r) BY <1>4, <2>2, <2>3 DEF ClaimOk
  <2> QED BY <2>4, <2>5 DEF TouchOk, r
<1>5. Touch!Claimed(s, f) = [s EXCEPT !.route[f] = "claimed", !.claim = s.claim]
  BY <1>1 DEF Touch!Claimed, TouchType
<1>6. [Touch!Claimed(s, f) EXCEPT !.claim = Touch!Multi("undecided")]
       = [s EXCEPT !.route[f] = "claimed", !.claim = Touch!Multi("undecided")]
  BY <1>1 DEF Touch!Claimed, TouchType
<1>7. Touch!Multi("undecided") \in Touch!Claims /\ Touch!Multi("undecided").kind = "multi"
      /\ Touch!Multi("undecided") # Touch!Multi("swipe") /\ Touch!Desk("still") # Touch!Multi("swipe")
  BY DEF Touch!Multi, Touch!Desk
<1> QED BY <1>3, <1>4, <1>5, <1>6, <1>7, ZenonT(60)

\* A finger comes down: the first, one more, or one whose lift was missed.
LEMMA TouchDownSound ==
   ASSUME NEW f \in Fingers, NEW place \in Touch!Places, NEW edge \in BOOLEAN, TouchOk(t), Touch!TouchDown(f, place, edge)
   PROVE  TouchOk(t')
<1> DEFINE up == IF t.route[f] = "none" THEN t ELSE Touch!Up(t, f, FALSE)
           lifted == Touch!Land(up, f, place)
           joined == Touch!Claimed(lifted, f)
<1>1. TouchOk(up) /\ up.route[f] = "none" BY UpSound
<1> HIDE DEF up
<1>2. TouchOk(lifted) /\ lifted.route[f] = "none" BY <1>1, LandSound
<1>3. t' = CASE lifted.claim.kind = "edge" -> Touch!Fresh(Touch!EdgeRelease(lifted), f, edge)
              [] lifted.claim = Touch!Desk("still") /\ Cardinality(Touch!Down(joined)) >= 3 ->
                   [joined EXCEPT !.claim = Touch!Multi("undecided")]
              [] lifted.claim.kind \in {"desk", "multi"} -> joined
              [] OTHER -> Touch!Fresh(lifted, f, edge)
  BY DEF Touch!TouchDown, up
<1> HIDE DEF lifted, joined
<1>4. lifted.claim \in Touch!Claims BY <1>2 DEF TouchOk, Core, TouchType
<1>5. CASE lifted.claim.kind = "edge"
  <2> DEFINE r == Touch!EdgeRelease(lifted)
  <2>1. TouchOk(r) /\ r.claim.kind \in {"none", "desk"} /\ r.route[f] = "none"
    BY <1>2, <1>5, EdgeReleaseSound
  <2>3. lifted.claim # Touch!Desk("still") /\ lifted.claim.kind \notin {"desk", "multi"} BY <1>5, ClaimFacts
  <2>2. t' = Touch!Fresh(r, f, edge)
    BY <1>3, <1>5, <2>3 DEF r
  <2> HIDE DEF r
  <2> QED BY <2>1, <2>2, FreshSound
<1>6. CASE lifted.claim.kind = "none"
  <2>1. t' = Touch!Fresh(lifted, f, edge)
    <3>1. lifted.claim # Touch!Desk("still") BY <1>6, ClaimFacts
    <3> QED BY <1>3, <1>6, <3>1
  <2> QED BY <1>2, <1>6, <2>1, FreshSound
<1>7. CASE lifted.claim.kind \in {"desk", "multi"}
  <2>1. \/ t' = joined
        \/ lifted.claim = Touch!Desk("still") /\ t' = [joined EXCEPT !.claim = Touch!Multi("undecided")]
    BY <1>3, <1>7
  <2>2. TouchOk(Touch!Claimed(lifted, f)) BY <1>2, <1>7, JoinSound
  <2>3. lifted.claim = Touch!Desk("still") =>
          TouchOk([Touch!Claimed(lifted, f) EXCEPT !.claim = Touch!Multi("undecided")])
    BY <1>2, <1>7, JoinSound
  <2> QED BY <2>1, <2>2, <2>3 DEF joined
<1> QED BY <1>4, <1>5, <1>6, <1>7, ClaimFacts

\* How far a finger has moved has no part in it.
LEMMA FarSound ==
   ASSUME NEW s, NEW f \in Fingers, TouchOk(s)
   PROVE  TouchOk([s EXCEPT !.far = @ \cup {f}]) /\ [s EXCEPT !.far = @ \cup {f}].claim = s.claim
<1> DEFINE r == [s EXCEPT !.far = @ \cup {f}]
<1>1. s \in TouchType BY DEF TouchOk, Core
<1>2. /\ r \in TouchType /\ r.claim = s.claim /\ r.told = s.told /\ r.swipe = s.swipe /\ r.pressed = s.pressed
      /\ r.route = s.route
  BY <1>1 DEF TouchType
<1> HIDE DEF r
<1>3. TouchOk(r) BY <1>2 DEF TouchOk, Core, ClaimOk, Alone
<1> QED BY <1>2, <1>3 DEF r

\* What a gesture is decided to be changes neither whose its fingers are ...
LEMMA DecideSound ==
   ASSUME NEW s, TouchOk(s), NEW c \in Touch!Claims, NEW b \in BOOLEAN, c.kind = s.claim.kind, c.of = s.claim.of,
          b <=> c = Touch!Multi("swipe")
   PROVE  TouchOk([s EXCEPT !.claim = c, !.swipe = b])
<1> DEFINE r == [s EXCEPT !.claim = c, !.swipe = b]
<1>1. s \in TouchType BY DEF TouchOk, Core
<1>2. /\ r \in TouchType /\ r.claim = c /\ r.told = s.told /\ r.swipe = b /\ r.pressed = s.pressed
      /\ r.route = s.route
  BY <1>1 DEF TouchType
<1> HIDE DEF r
<1>3. TouchOk(r) BY <1>2 DEF TouchOk, Core, ClaimOk, Alone
<1> QED BY <1>2, <1>3 DEF r

\* A claimed finger moves, and the gesture may be decided.
LEMMA ClaimMotionSound ==
   ASSUME NEW f \in Fingers, NEW to \in {"undecided", "fired", "not", "moved", "swipe", "pinch"}, TouchOk(t), Touch!ClaimMotion(f, to)
   PROVE  TouchOk(t')
<1> DEFINE moved == [t EXCEPT !.far = @ \cup {f}]
           c == t.claim
<1> USE ClaimFacts
<1>1. TouchOk(moved) /\ moved.claim = c BY FarSound
<1>2. t \in TouchType /\ moved \in TouchType /\ c \in Touch!Claims BY <1>1 DEF TouchOk, Core, TouchType
<1>3. \/ /\ c.kind = "edge" /\ to = "undecided" /\ c.what = to
         /\ t' \in {t, moved}
      \/ /\ c.kind = "edge" /\ to = "fired" /\ c.what = "undecided"
         /\ t' = [moved EXCEPT !.claim.what = to]
      \/ c.kind = "edge" /\ to = "not" /\ c.what = "undecided" /\ t' = Touch!EdgeRelease(moved)
      \/ c.kind = "desk" /\ to = "moved" /\ t' = [t EXCEPT !.claim.what = to]
      \/ /\ c.kind = "multi" /\ c.what = "undecided" /\ to \in {"swipe", "pinch", "fired"}
         /\ t' = [t EXCEPT !.claim.what = to, !.swipe = @ \/ to = "swipe"]
      \/ c = Touch!Multi("pinch") /\ to = "fired" /\ t' = [t EXCEPT !.claim.what = to]
  BY DEF Touch!ClaimMotion
<1> HIDE DEF moved
<1>4. CASE c.kind = "edge" /\ to = "undecided" /\ c.what = to /\ t' \in {t, moved}
  BY <1>1, <1>4
<1>5. CASE c.kind = "edge" /\ to = "fired" /\ t' = [moved EXCEPT !.claim.what = to]
  <2> DEFINE d == [c EXCEPT !.what = "fired"]
  <2>1. d = [kind |-> "edge", of |-> c.of, what |-> "fired"] /\ d \in Touch!Claims /\ c.of \in Fingers
    BY <1>2, <1>5 DEF Touch!Claims, Touch!NoClaim
  <2>2. ~moved.swipe /\ moved.swipe \in BOOLEAN BY <1>1, <1>5 DEF TouchOk, Core, TouchType
  <2>3. t' = [moved EXCEPT !.claim = d, !.swipe = FALSE]
    BY <1>1, <1>2, <1>5, <2>2, ZenonT(60) DEF TouchType
  <2>4. d # Touch!Multi("swipe") BY <2>1 DEF Touch!Multi
  <2> HIDE DEF d
  <2>5. d.kind = moved.claim.kind /\ d.of = moved.claim.of BY <1>1, <1>5, <2>1
  <2> QED BY <1>1, <2>1, <2>3, <2>4, <2>5, DecideSound
<1>6. CASE c.kind = "edge" /\ t' = Touch!EdgeRelease(moved)
  BY <1>1, <1>6, EdgeReleaseSound
<1>7. ASSUME NEW d \in Touch!Claims, NEW b \in BOOLEAN, d.kind = c.kind, d.of = c.of, b <=> d = Touch!Multi("swipe"),
             t' = [t EXCEPT !.claim = d, !.swipe = b]
      PROVE  TouchOk(t')
  BY <1>7, DecideSound
<1>8. CASE c.kind = "desk" /\ to = "moved" /\ t' = [t EXCEPT !.claim.what = to]
  <2> DEFINE d == Touch!Desk("moved")
  <2>1. d = [c EXCEPT !.what = to] /\ d \in Touch!Claims /\ d.kind = c.kind /\ d.of = c.of /\ d # Touch!Multi("swipe")
    BY <1>2, <1>8 DEF Touch!Desk, Touch!Multi
  <2>2. ~t.swipe /\ t.swipe \in BOOLEAN BY <1>2, <1>8 DEF TouchOk, Core, TouchType
  <2> HIDE DEF d
  <2>4. t.swipe = FALSE /\ [c EXCEPT !.what = to] = d BY <2>1, <2>2
  <2>5. t \in TouchType /\ t.claim = c BY <1>2
  <2>6. t' = [t EXCEPT !.claim = d] BY <1>8, <2>4, <2>5
  <2>7. t' = [t EXCEPT !.claim = d, !.swipe = FALSE] BY <2>4, <2>5, <2>6 DEF TouchType
  <2> QED BY <1>7, <2>1, <2>7
<1>9. CASE /\ c.kind = "multi" /\ c.what = "undecided" /\ to \in {"swipe", "pinch", "fired"}
           /\ t' = [t EXCEPT !.claim.what = to, !.swipe = @ \/ to = "swipe"]
  <2> DEFINE d == Touch!Multi(to)
             b == to = "swipe"
  <2>1. d = [c EXCEPT !.what = to] /\ d \in Touch!Claims /\ d.kind = c.kind /\ d.of = c.of /\ (b <=> d = Touch!Multi("swipe"))
    BY <1>2, <1>9 DEF Touch!Multi
  <2>2. ~t.swipe /\ t.swipe \in BOOLEAN BY <1>2, <1>9 DEF TouchOk, Core, TouchType, Touch!Multi
  <2>3. b \in BOOLEAN /\ (t.swipe \/ to = "swipe") = b BY <2>2
  <2> HIDE DEF d
  <2>4. t' = [t EXCEPT !.claim = d, !.swipe = b] BY <1>2, <1>9, <2>1, <2>3 DEF TouchType
  <2> HIDE DEF b
  <2> QED BY <1>7, <2>1, <2>3, <2>4
<1>10. CASE c = Touch!Multi("pinch") /\ to = "fired" /\ t' = [t EXCEPT !.claim.what = to]
  <2> DEFINE d == Touch!Multi("fired")
  <2>1. d = [c EXCEPT !.what = to] /\ d \in Touch!Claims /\ d.kind = c.kind /\ d.of = c.of /\ d # Touch!Multi("swipe")
        /\ c # Touch!Multi("swipe")
    BY <1>2, <1>10 DEF Touch!Desk, Touch!Multi
  <2>2. ~t.swipe /\ t.swipe \in BOOLEAN BY <1>2, <2>1 DEF TouchOk, Core, TouchType
  <2> HIDE DEF d
  <2>3. t' = [t EXCEPT !.claim = d, !.swipe = FALSE] BY <1>2, <1>10, <2>1, <2>2, ZenonT(60) DEF TouchType
  <2> QED BY <1>7, <2>1, <2>3
<1> QED BY <1>3, <1>4, <1>5, <1>6, <1>8, <1>9, <1>10

\* The inductive invariant.
TouchInv ==
  /\ TouchOk(t) /\ mouse \in BOOLEAN /\ adjusting \in BOOLEAN /\ touches \in 0..MaxTouches

\* No finger is down at the start.
LEMMA TouchInit == Touch!Init => TouchInv
<1> SUFFICES ASSUME Touch!Init PROVE TouchInv OBVIOUS
<1> USE ClaimFacts
<1>1. /\ t.claim = Touch!NoClaim /\ t.told = {} /\ t.swipe = FALSE /\ t.pressed = FALSE
      /\ \A f \in Fingers : t.route[f] = "none"
  BY DEF Touch!Init
<1>2. t \in TouchType BY DEF Touch!Init, TouchType, Touch!Routes, Touch!Places
<1>3. TouchOk(t) BY <1>1, <1>2 DEF TouchOk, Core, ClaimOk, Alone
<1>4. touches \in 0..MaxTouches BY BoundsAssumption DEF Touch!Init
<1> QED BY <1>3, <1>4 DEF TouchInv, Touch!Init

\* Every touch event keeps the invariant.
LEMMA TouchNext == TouchInv /\ [Touch!Next]_(Touch!touchVars) => TouchInv'
<1> SUFFICES ASSUME TouchInv, [Touch!Next]_(Touch!touchVars) PROVE TouchInv' OBVIOUS
<1> USE BoundsAssumption DEF TouchInv
<1>1. TouchOk(t') /\ mouse' = mouse => TouchOk(t)' BY DEF TouchOk, Core, ClaimOk, Alone
<1>2. CASE Touch!Next
  <2>1. touches' \in 0..MaxTouches BY <1>2 DEF Touch!Next
  <2>2. ASSUME NEW f \in Fingers, NEW place \in Touch!Places, NEW edge \in BOOLEAN, Touch!TouchDown(f, place, edge),
               UNCHANGED <<mouse, adjusting>>
        PROVE TouchInv'
    BY <1>1, <2>1, <2>2, TouchDownSound
  <2>3. ASSUME NEW f \in Fingers, NEW to \in {"undecided", "fired", "not", "moved", "swipe", "pinch"}, Touch!ClaimMotion(f, to)
        PROVE TouchInv'
    <3>1. UNCHANGED <<mouse, adjusting>> BY <2>3 DEF Touch!ClaimMotion
    <3> QED BY <1>1, <2>1, <2>3, <3>1, ClaimMotionSound
  <2>4. ASSUME NEW f \in Fingers, Touch!TouchMotion(f) PROVE TouchInv'
    <3>1. UNCHANGED <<mouse, adjusting>> /\ t' = Touch!Slides([t EXCEPT !.far = @ \cup {f}], f) BY <2>4 DEF Touch!TouchMotion
    <3>2. TouchOk(t') BY <3>1, FarSound, SlidesSound
    <3> QED BY <1>1, <2>1, <3>1, <3>2
  <2>5. ASSUME NEW f \in Fingers, NEW b \in BOOLEAN, Touch!TouchUp(f, b) PROVE TouchInv'
    <3>1. UNCHANGED <<mouse, adjusting>> /\ t.route[f] # "none" /\ t' = Touch!Up(t, f, b) BY <2>5 DEF Touch!TouchUp
    <3>2. TouchOk(t') BY <3>1, UpSound
    <3> QED BY <1>1, <2>1, <3>1, <3>2
  <2>6. CASE Touch!Mouse
    <3>1. mouse' = ~mouse /\ t' = [t EXCEPT !.pressed = mouse'] /\ adjusting' = adjusting /\ mouse' \in BOOLEAN BY <2>6 DEF Touch!Mouse
    <3>2. t \in TouchType BY DEF TouchOk, Core
    <3>3. /\ t' \in TouchType /\ t'.claim = t.claim /\ t'.told = t.told /\ t'.swipe = t.swipe /\ t'.pressed = mouse'
          /\ t'.route = t.route
      BY <3>1, <3>2 DEF TouchType
    <3>4. TouchOk(t)' BY <3>3 DEF TouchOk, Core, ClaimOk, Alone
    <3> QED BY <2>1, <3>1, <3>4
  <2>7. CASE Touch!Adjust
    <3>1. adjusting' \in BOOLEAN /\ t' = t /\ mouse' = mouse BY <2>7 DEF Touch!Adjust
    <3> QED BY <1>1, <2>1, <3>1
  <2> QED BY <1>2, <2>2, <2>3, <2>4, <2>5, <2>6, <2>7 DEF Touch!Next
<1>3. CASE UNCHANGED Touch!touchVars
  BY <1>1, <1>3 DEF Touch!touchVars
<1> QED BY <1>2, <1>3

\* It says of fingers what the run checks.
LEMMA TouchSound == TouchInv => Touch!TypeOK /\ Touch!TouchIsSound
<1> SUFFICES ASSUME TouchInv PROVE Touch!TypeOK /\ Touch!TouchIsSound OBVIOUS
<1> USE DEF TouchInv, TouchOk, Core
<1>1. Touch!TypeOK BY DEF Touch!TypeOK, TouchType
<1>2. t.told = Touch!Routed(t, "client") BY DEF Touch!Routed, TouchType
<1>3. /\ (t.claim.kind # "none") = (Touch!Routed(t, "claimed") # {})
      /\ t.claim.kind = "edge" => Touch!Routed(t, "claimed") = {t.claim.of}
  <2>1. t.claim.kind = "edge" => t.claim.of \in Fingers BY ClaimFacts DEF TouchType
  <2> QED BY <2>1 DEF ClaimOk, Touch!Routed
<1>4. t.swipe = (t.claim = Touch!Multi("swipe")) BY DEF TouchType
<1>5. t.pressed => mouse \/ Touch!Routed(t, "press") # {} BY DEF Touch!Routed
<1>6. Cardinality(Touch!Routed(t, "wait") \cup Touch!Routed(t, "press")) <= 1
  <2> DEFINE S == Touch!Routed(t, "wait") \cup Touch!Routed(t, "press")
  <2>1. \A f, h \in S : f = h BY DEF Touch!Routed, Alone
  <2> HIDE DEF S
  <2>2. S = {} => Cardinality(S) = 0 BY FS_EmptySet
  <2>3. ASSUME NEW f \in S PROVE Cardinality(S) = 1
    <3>1. S = {f} BY <2>1
    <3> QED BY <3>1, FS_Singleton
  <2>4. Cardinality(S) \in {0, 1} BY <2>2, <2>3
  <2>5. Cardinality(S) <= 1 BY <2>4
  <2> QED BY <2>5 DEF S
<1> HIDE DEF TouchInv, TouchOk, Core
<1>7. \A S : Touch!Cardinality(S) = Cardinality(S) BY DEF Touch!Cardinality, Cardinality
<1>8. Touch!TouchIsSound BY <1>2, <1>3, <1>4, <1>5, <1>6, <1>7, Zenon DEF Touch!TouchIsSound
<1> QED BY <1>1, <1>8

\* It says of played keys what the run checks.
LEMMA PlaySound == PlayInv => Play!TypeOK /\ Play!GesturesAreSound
<1> SUFFICES ASSUME PlayInv PROVE Play!TypeOK /\ Play!GesturesAreSound OBVIOUS
<1>1. Play!TypeOK BY DEF PlayInv, Play!TypeOK, PlayType
<1>2. \A k \in Play!Gestures : (Play!KeyOf[k] \in g.held) = g[k].on
  <2>1. \A k \in Play!Gestures : g[k].on \in BOOLEAN BY DEF PlayInv, PlayType, Play!Gestures
  <2> QED BY <2>1 DEF PlayInv, HeldOk
<1>3. ("button" \in g.held => g.view.on) /\ (~Play!AnyOn(g) /\ ~crossed => g.repeat = conf)
  BY DEF PlayInv, HeldOk, SavedOk
<1> QED BY <1>1, <1>2, <1>3 DEF Play!GesturesAreSound

\* It says of gestures what the run checks.
LEMMA GestSound == GestInv => Gest!TypeOK /\ Gest!StrokesAreSound
BY DEF GestInv, GestPlain, GestIdle, Gest!StrokesAreSound

-----------------------------------------------------------------------------
(* The parts together.                                                     *)

\* A step is one of a part, or leaves it alone.
LEMMA PartSteps ==
    ASSUME [Next]_vars
    PROVE  /\ [Hold!Next]_(Hold!holdVars) /\ [Grab!Next]_(Grab!grabVars) /\ [Pen!Next]_(Pen!tabletVars)
           /\ [Play!Next]_(Play!emuVars)
           /\ [Gest!Next]_(Gest!gestVars) /\ [Touch!Next]_(Touch!touchVars)
<1> USE DEF vars, restVars, holdVars, Hold!holdVars, grabVars, Grab!grabVars, penVars, Pen!tabletVars,
            emuVars, Play!emuVars, gestVars, Gest!gestVars, touchVars, Touch!touchVars
<1>1. [Hold!Next]_(Hold!holdVars) BY DEF Next
<1>2. [Grab!Next]_(Grab!grabVars) BY DEF Next
<1>3. [Pen!Next]_(Pen!tabletVars) BY DEF Next
<1>5. [Play!Next]_(Play!emuVars) BY DEF Next
<1>6. [Gest!Next]_(Gest!gestVars) BY DEF Next
<1>7. [Touch!Next]_(Touch!touchVars) BY DEF Next
<1> QED BY <1>1, <1>2, <1>3, <1>5, <1>6, <1>7

\* Each part keeps its invariant, whoever moves.
LEMMA PartInvariants ==
    /\ Init => HoldInv /\ Hold!TypeOK /\ GrabInv /\ PenInv /\ PlayInv /\ GestInv /\ TouchInv
    /\ HoldInv /\ Hold!TypeOK /\ [Next]_vars => HoldInv' /\ Hold!TypeOK'
    /\ GrabInv /\ [Next]_vars => GrabInv'
    /\ PenInv /\ [Next]_vars => PenInv'
    /\ PlayInv /\ [Next]_vars => PlayInv'
    /\ GestInv /\ [Next]_vars => GestInv'
    /\ TouchInv /\ [Next]_vars => TouchInv'
<1>1. Init => HoldInv /\ GrabInv /\ PenInv /\ PlayInv /\ GestInv /\ TouchInv
  BY HoldInit, GrabInit, PenInit, PlayInit, GestInit, TouchInit DEF Init
<1>2. Init => Hold!TypeOK
  <2> SUFFICES ASSUME Hold!Init PROVE Hold!TypeOK BY DEF Init
  <2>1. steps \in 0..HoldEvents /\ FALSE \in BOOLEAN BY BoundsAssumption DEF Hold!Init
  <2> QED BY <2>1 DEF Hold!Init, Hold!TypeOK
<1>3. HoldInv /\ Hold!TypeOK /\ [Next]_vars => HoldInv' /\ Hold!TypeOK'
  <2> SUFFICES ASSUME HoldInv, Hold!TypeOK, [Next]_vars PROVE HoldInv' /\ Hold!TypeOK' OBVIOUS
  <2>1. [Hold!Next]_(Hold!holdVars) BY PartSteps
  <2>2. HoldInv' BY <2>1, HoldNext
  <2> QED BY <2>1, <2>2, HoldTypes
<1>4. GrabInv /\ [Next]_vars => GrabInv' BY PartSteps, GrabNext
<1>5. PenInv /\ [Next]_vars => PenInv' BY PartSteps, PenNext
<1>7. PlayInv /\ [Next]_vars => PlayInv' BY PartSteps, PlayNext
<1>8. GestInv /\ [Next]_vars => GestInv' BY PartSteps, GestNext
<1>9. TouchInv /\ [Next]_vars => TouchInv' BY PartSteps, TouchNext
<1> QED BY <1>1, <1>2, <1>3, <1>4, <1>5, <1>7, <1>8, <1>9

\* The cursor holds the constraint of the focused surface (pointer_constraint.rs,
\* seat.rs, sync_pointer_constraint); a client hears the release of every press it
\* heard unless an op took the pointer, and an op always has a pressed button and a
\* live window (cursor/button.rs, seat.rs, op_start_pointer); a pen's drag stays with
\* its surface (tablet_tool.rs).
THEOREM PointerSound == Spec => []PointerIsSound
<1>1. HoldInv /\ Hold!TypeOK /\ GrabInv /\ PenInv => PointerIsSound
  BY DEF PointerIsSound, HoldInv, GrabInv, Grab!GrabIsSound, PenInv
<1> QED BY <1>1, PartInvariants, PTL DEF Spec

\* Every finger that is down is the compositor's or its client's, a claim has its
\* fingers, and one at most plays the pointer (touch.rs); a swipe or pinch that
\* clients hear begins and ends (gestures.rs); a played gesture's keys are down
\* exactly while it lasts, and the repeat rate comes back (cursor/axis.rs).
THEOREM FingersSound == Spec => []FingersAreSound
<1>1. TouchInv /\ GestInv /\ PlayInv => FingersAreSound
  BY TouchSound, GestSound, PlaySound DEF FingersAreSound
<1> QED BY <1>1, PartInvariants, PTL DEF Spec

\* The pointer is locked only by a constraint of the focused surface, and never in
\* the overview or while a window is adjusted (cursor.rs, constrain_motion).
THEOREM LocksAsAllowed == Spec => LocksOnlyWhereItMay
<1>1. HoldInv /\ [Next]_vars =>
        [~locked /\ locked' => held # None /\ on[held] = focus /\ Hold!AppliesNow]_(Hold!holdVars)
  BY PartSteps, LocksHere
<1> QED BY <1>1, PartInvariants, PTL DEF Spec, LocksOnlyWhereItMay, Hold!LocksOnlyWhereItMay

-----------------------------------------------------------------------------
(* Induction, and lists.                                                   *)

\* Every set of naturals has a least one.
LEMMA LeastNatural ==
  ASSUME NEW T \in SUBSET Nat, T # {}
  PROVE  \E n \in T : \A j \in T : n <= j
<1> DEFINE R == {ss \in Nat \X Nat : ss[1] < ss[2]}
<1>1. IsWellFoundedOn(R, Nat)
  BY NatLessThanWellFounded DEF OpToRel
<1> HIDE DEF R
<1>2. PICK n \in T : \A j \in T : ~(<<j, n>> \in R)
  BY <1>1, WFMin
<1>3. \A j \in T : ~(j < n)
  BY <1>2 DEF R
<1> QED BY <1>3

\* Induction: a set that holds zero, and with each number up to n the next, holds all
\* of them up to n.
LEMMA CountUp ==
  ASSUME NEW n \in Nat, NEW G, 0 \in G, \A i \in 1..n : i - 1 \in G => i \in G
  PROVE  \A i \in 0..n : i \in G
<1> DEFINE B == {i \in 0..n : i \notin G}
<1> SUFFICES ASSUME B # {} PROVE FALSE OBVIOUS
<1>1. B \in SUBSET Nat OBVIOUS
<1> HIDE DEF B
<1>2. PICK i \in B : \A j \in B : i <= j BY <1>1, LeastNatural
<1>3. i \in 0..n /\ i \notin G BY <1>2 DEF B
<1>4. i # 0 BY <1>3
<1>5. i \in 1..n /\ i - 1 \in 0..n /\ ~(i <= i - 1) BY <1>3, <1>4
<1>6. i - 1 \in G BY <1>2, <1>5 DEF B
<1> QED BY <1>3, <1>5, <1>6

\* What a list is after one more element.
With(k, x, S) == IF x \in S THEN Append(k, x) ELSE k
Runs(f, l, S, E, n) == /\ f \in [0..n -> Seq(E)] /\ f[0] = <<>>
                       /\ \A i \in 1..n : f[i] = With(f[i - 1], l[i], S)

\* The lists Only is made of exist.
LEMMA OnlyRuns ==
  ASSUME NEW E, NEW l \in Seq(E), NEW S
  PROVE  \E left : /\ left[0] = <<>> /\ \A i \in 1..Len(l) : left[i] = With(left[i - 1], l[i], S)
                /\ Only(l, S) = left[Len(l)]
<1> DEFINE G == {n \in Nat : \E f : Runs(f, l, S, E, n)}
<1>1. Len(l) \in Nat OBVIOUS
<1>2. 0 \in G
  <2> DEFINE f == [i \in 0..0 |-> <<>>]
  <2>1. Runs(f, l, S, E, 0) BY DEF Runs
  <2> QED BY <2>1
<1>3. ASSUME NEW n \in 1..Len(l), n - 1 \in G PROVE n \in G
  <2>1. PICK f : Runs(f, l, S, E, n - 1) BY <1>3
  <2> DEFINE h == [i \in 0..n |-> IF i = n THEN With(f[n - 1], l[n], S) ELSE f[i]]
  <2>2. DOMAIN h = 0..n /\ h[0] = <<>> BY <2>1, <1>1 DEF Runs
  <2>3. ASSUME NEW i \in 1..n PROVE h[i] = With(h[i - 1], l[i], S)
    <3>1. i \in 0..n /\ i - 1 \in 0..n /\ i - 1 # n /\ n - 1 # n BY <1>1
    <3>2. CASE i = n BY <3>1, <3>2
    <3>3. CASE i # n
      <4>1. i \in 1..(n - 1) BY <1>1, <3>3
      <4>2. f[i] = With(f[i - 1], l[i], S) BY <2>1, <4>1 DEF Runs
      <4> QED BY <3>1, <3>3, <4>2
    <3> QED BY <3>2, <3>3
  <2>6. h \in [0..n -> Seq(E)]
    <3>1. \A i \in 0..(n - 1) : f[i] \in Seq(E) BY <2>1 DEF Runs
    <3>2. l[n] \in E /\ n - 1 \in 0..(n - 1) BY <1>1
    <3>3. With(f[n - 1], l[n], S) \in Seq(E) BY <3>1, <3>2 DEF With
    <3>4. \A i \in 0..n : i # n => i \in 0..(n - 1) BY <1>1
    <3> QED BY <3>1, <3>3, <3>4
  <2> HIDE DEF h
  <2>4. Runs(h, l, S, E, n) BY <2>2, <2>3, <2>6 DEF Runs
  <2>5. n \in Nat BY <1>1
  <2> QED BY <2>4, <2>5
<1> HIDE DEF G
<1>4. Len(l) \in G
  <2>1. \A i \in 0..Len(l) : i \in G BY <1>1, <1>2, <1>3, CountUp
  <2>2. Len(l) \in 0..Len(l) BY <1>1
  <2> QED BY <2>1, <2>2
<1>5. PICK f : Runs(f, l, S, E, Len(l)) BY <1>4 DEF G
<1> DEFINE Eq(k) == k = [i \in 0..Len(l) |-> IF i = 0 THEN <<>> ELSE IF l[i] \in S THEN Append(k[i - 1], l[i]) ELSE k[i - 1]]
           left == CHOOSE k : Eq(k)
<1>6. Only(l, S) = left[Len(l)] BY DEF Only
<1>7. Eq(f)
  <2> DEFINE r == [i \in 0..Len(l) |-> IF i = 0 THEN <<>> ELSE IF l[i] \in S THEN Append(f[i - 1], l[i]) ELSE f[i - 1]]
  <2>1. DOMAIN f = 0..Len(l) /\ DOMAIN r = 0..Len(l) BY <1>5 DEF Runs
  <2>2. ASSUME NEW i \in 0..Len(l) PROVE f[i] = r[i]
    <3>1. CASE i = 0 BY <1>5, <3>1 DEF Runs
    <3>2. CASE i # 0
      <4>1. i \in 1..Len(l) BY <1>1, <3>2
      <4> QED BY <1>5, <3>2, <4>1 DEF Runs, With
    <3> QED BY <3>1, <3>2
  <2> HIDE DEF r
  <2>3. f = [i \in 0..Len(l) |-> f[i]] BY <1>5 DEF Runs
  <2>4. r = [i \in 0..Len(l) |-> r[i]] BY DEF r
  <2> QED BY <2>2, <2>3, <2>4 DEF r
<1>8. Eq(left)
  <2> HIDE DEF Eq
  <2> QED BY <1>7
<1> HIDE DEF left
<1>9. /\ left[0] = <<>>
      /\ \A i \in 1..Len(l) : left[i] = IF l[i] \in S THEN Append(left[i - 1], l[i]) ELSE left[i - 1]
  <2>1. left = [i \in 0..Len(l) |-> IF i = 0 THEN <<>> ELSE IF l[i] \in S THEN Append(left[i - 1], l[i]) ELSE left[i - 1]]
    BY <1>8
  <2>2. 0 \in 0..Len(l) /\ \A i \in 1..Len(l) : i \in 0..Len(l) /\ i # 0 BY <1>1
  <2> HIDE DEF Eq
  <2> QED BY <2>1, <2>2
<1> QED BY <1>6, <1>9 DEF With

Distinct(l) == \A i, j \in DOMAIN l : l[i] = l[j] => i = j
Elems(l) == {l[i] : i \in DOMAIN l}

\* What is left holds the elements that are in the set, each once if it was.
LEMMA OnlyHolds ==
  ASSUME NEW E, NEW l \in Seq(E), NEW S
  PROVE  /\ Only(l, S) \in Seq(E) /\ Elems(Only(l, S)) = Elems(l) \cap S
         /\ Distinct(l) => Distinct(Only(l, S))
<1>1. PICK left : /\ left[0] = <<>> /\ \A i \in 1..Len(l) : left[i] = With(left[i - 1], l[i], S)
               /\ Only(l, S) = left[Len(l)]
  BY OnlyRuns
<1>2. Len(l) \in Nat /\ DOMAIN l = 1..Len(l) /\ \A i \in 1..Len(l) : l[i] \in E OBVIOUS
<1> DEFINE Fine(i) == /\ left[i] \in Seq(E) /\ Elems(left[i]) = {l[j] : j \in 1..i} \cap S
                      /\ Distinct(l) => Distinct(left[i])
           G == {i \in 0..Len(l) : Fine(i)}
<1>3. Fine(0)
  <2>1. <<>> \in Seq(E) /\ DOMAIN <<>> = {} OBVIOUS
  <2> QED BY <1>1, <2>1 DEF Elems, Distinct
<1>4. ASSUME NEW i \in 1..Len(l), Fine(i - 1) PROVE Fine(i)
  <2> DEFINE k == left[i - 1]
  <2>1. /\ k \in Seq(E) /\ Elems(k) = {l[j] : j \in 1..(i - 1)} \cap S
        /\ Distinct(l) => Distinct(k)
    BY <1>4
  <2>2. left[i] = With(k, l[i], S) BY <1>1
  <2>3. l[i] \in E /\ 1..i = 1..(i - 1) \cup {i} BY <1>2
  <2> HIDE DEF k
  <2>4. CASE l[i] \notin S
    <3>1. left[i] = k BY <2>2, <2>4 DEF With
    <3> QED BY <2>1, <2>3, <2>4, <3>1
  <2>5. CASE l[i] \in S
    <3>1. left[i] = Append(k, l[i]) BY <2>2, <2>5 DEF With
    <3>2. /\ left[i] \in Seq(E) /\ Len(k) \in Nat /\ DOMAIN k = 1..Len(k) /\ DOMAIN left[i] = 1..(Len(k) + 1)
          /\ \A j \in 1..Len(k) : left[i][j] = k[j]
          /\ left[i][Len(k) + 1] = l[i]
      BY <2>1, <2>3, <3>1
    <3>3. 1..(Len(k) + 1) = 1..Len(k) \cup {Len(k) + 1} BY <3>2
    <3>4. Elems(left[i]) = Elems(k) \cup {l[i]} BY <3>2, <3>3 DEF Elems
    <3>5. Elems(left[i]) = {l[j] : j \in 1..i} \cap S BY <2>1, <2>3, <2>5, <3>4
    <3>6. ASSUME Distinct(l) PROVE Distinct(left[i])
      <4>1. \A j \in 1..(i - 1) : l[j] # l[i]
        <5> SUFFICES ASSUME NEW j \in 1..(i - 1) PROVE l[j] # l[i] OBVIOUS
        <5>1. j \in DOMAIN l /\ i \in DOMAIN l /\ i # j BY <1>2
        <5> QED BY <3>6, <5>1 DEF Distinct
      <4>2. l[i] \notin Elems(k) BY <2>1, <4>1
      <4>3. \A j \in 1..Len(k) : left[i][j] # left[i][Len(k) + 1] BY <3>2, <4>2 DEF Elems
      <4>4. Distinct(k) BY <2>1, <3>6
      <4> QED BY <3>2, <3>3, <4>3, <4>4 DEF Distinct
    <3> QED BY <3>2, <3>5, <3>6
  <2> QED BY <2>4, <2>5
<1> HIDE DEF Fine
<1>5. 0 \in G BY <1>2, <1>3
<1>6. \A i \in 1..Len(l) : i - 1 \in G => i \in G BY <1>2, <1>4
<1> HIDE DEF G
<1>7. \A i \in 0..Len(l) : i \in G BY <1>2, <1>5, <1>6, CountUp
<1>8. Len(l) \in 0..Len(l) BY <1>2
<1>9. Fine(Len(l)) BY <1>7, <1>8 DEF G
<1>10. Elems(l) = {l[j] : j \in 1..Len(l)} BY <1>2 DEF Elems
<1> QED BY <1>1, <1>9, <1>10 DEF Fine

\* The greatest of some numbers up to n.
LEMMA GreatestUpTo ==
  ASSUME NEW n \in Nat, NEW T \in SUBSET (1..n), T # {}
  PROVE  \E i \in T : \A j \in T : i >= j
<1> DEFINE B == {n - i : i \in T}
<1>0. \A i \in T : n - i \in Nat OBVIOUS
<1>1. B \in SUBSET Nat /\ B # {} BY <1>0
<1> HIDE DEF B
<1>2. PICK b \in B : \A c \in B : b <= c BY <1>1, LeastNatural
<1>3. PICK i \in T : b = n - i BY <1>2 DEF B
<1>4. \A j \in T : n - i <= n - j BY <1>2, <1>3 DEF B
<1> QED BY <1>4

\* A list in which nothing is twice is as long as what it holds is large.
LEMMA DistinctLength ==
  ASSUME NEW E, NEW l \in Seq(E), Distinct(l)
  PROVE  IsFiniteSet(Elems(l)) /\ Cardinality(Elems(l)) = Len(l)
<1>1. Len(l) \in Nat /\ DOMAIN l = 1..Len(l) OBVIOUS
<1>2. l \in Bijection(1..Len(l), Elems(l))
  <2>0. l = [i \in 1..Len(l) |-> l[i]] OBVIOUS
  <2>1. \A i \in 1..Len(l) : l[i] \in Elems(l) BY <1>1 DEF Elems
  <2>2. l \in [1..Len(l) -> Elems(l)] BY <2>0, <2>1
  <2>3. l \in Injection(1..Len(l), Elems(l)) BY <1>1, <2>2, Fun_IsInj DEF Distinct
  <2>4. l \in Surjection(1..Len(l), Elems(l)) BY <1>1, <2>2, Fun_IsSurj DEF Elems
  <2> QED BY <2>3, <2>4 DEF Bijection
<1>3. ExistsBijection(1..Len(l), Elems(l)) BY <1>2 DEF ExistsBijection
<1>4. IsFiniteSet(1..Len(l)) BY <1>1, FS_Interval
<1> QED BY <1>1, <1>3, <1>4, FS_Bijection, FS_CountingElements

\* One at the front.
LEMMA FrontHolds ==
  ASSUME NEW E, NEW l \in Seq(E), NEW x \in E
  PROVE  /\ <<x>> \o l \in Seq(E) /\ Elems(<<x>> \o l) = Elems(l) \cup {x}
         /\ (<<x>> \o l)[1] = x
         /\ Distinct(l) /\ x \notin Elems(l) => Distinct(<<x>> \o l)
<1> DEFINE k == <<x>> \o l
<1>1. Len(l) \in Nat /\ DOMAIN l = 1..Len(l) OBVIOUS
<1>2. /\ k \in Seq(E) /\ Len(k) = Len(l) + 1 /\ k[1] = x /\ DOMAIN k = 1..(Len(l) + 1)
      /\ \A i \in 1..Len(l) : k[i + 1] = l[i]
  BY <1>1
<1>3. \A i \in 1..(Len(l) + 1) : i = 1 \/ (i - 1 \in 1..Len(l) /\ i = (i - 1) + 1) BY <1>1
<1>4. 1 \in 1..(Len(l) + 1) /\ \A i \in 1..Len(l) : i + 1 \in 1..(Len(l) + 1) BY <1>1
<1> HIDE DEF k
<1>5. \A i \in 1..(Len(l) + 1) : i # 1 => k[i] = l[i - 1] BY <1>2, <1>3
<1>6. Elems(k) = Elems(l) \cup {x}
  <2>1. ASSUME NEW i \in 1..(Len(l) + 1) PROVE k[i] \in Elems(l) \cup {x}
    <3>1. CASE i = 1 BY <1>2, <3>1
    <3>2. CASE i # 1
      <4>1. i - 1 \in DOMAIN l /\ k[i] = l[i - 1] BY <1>1, <1>3, <1>5, <3>2
      <4> QED BY <4>1 DEF Elems
    <3> QED BY <3>1, <3>2
  <2>2. Elems(k) \subseteq Elems(l) \cup {x} BY <1>2, <2>1 DEF Elems
  <2>3. ASSUME NEW i \in DOMAIN l PROVE l[i] \in Elems(k)
    <3>1. i + 1 \in DOMAIN k /\ k[i + 1] = l[i] BY <1>1, <1>2, <1>4
    <3> QED BY <3>1 DEF Elems
  <2>4. x \in Elems(k) BY <1>2, <1>4 DEF Elems
  <2>5. Elems(l) \cup {x} \subseteq Elems(k) BY <2>3, <2>4 DEF Elems
  <2> QED BY <2>2, <2>5
<1>7. ASSUME Distinct(l), x \notin Elems(l) PROVE Distinct(k)
  <2> SUFFICES ASSUME NEW i \in 1..(Len(l) + 1), NEW j \in 1..(Len(l) + 1), k[i] = k[j] PROVE i = j
    BY <1>2 DEF Distinct
  <2>1. \A h \in 1..(Len(l) + 1) : h # 1 => k[h] # x BY <1>1, <1>3, <1>5, <1>7 DEF Elems
  <2>2. CASE i = 1 \/ j = 1 BY <1>2, <2>1, <2>2
  <2>3. CASE i # 1 /\ j # 1
    <3>1. l[i - 1] = l[j - 1] /\ i - 1 \in 1..Len(l) /\ j - 1 \in 1..Len(l) BY <1>3, <1>5, <2>3
    <3>2. i - 1 = j - 1 BY <1>1, <1>7, <3>1 DEF Distinct
    <3> QED BY <3>2
  <2> QED BY <2>2, <2>3
<1> QED BY <1>2, <1>6, <1>7 DEF k

\* One list after the other.
LEMMA BothHold ==
  ASSUME NEW E, NEW l \in Seq(E), NEW r \in Seq(E)
  PROVE  /\ l \o r \in Seq(E) /\ Elems(l \o r) = Elems(l) \cup Elems(r)
         /\ Distinct(l) /\ Distinct(r) /\ Elems(l) \cap Elems(r) = {} => Distinct(l \o r)
<1> DEFINE k == l \o r
           n == Len(l)
           q == Len(r)
<1>1. n \in Nat /\ q \in Nat /\ DOMAIN l = 1..n /\ DOMAIN r = 1..q OBVIOUS
<1>2. /\ k \in Seq(E) /\ DOMAIN k = 1..(n + q)
      /\ \A i \in 1..n : k[i] = l[i]
      /\ \A i \in 1..q : k[n + i] = r[i]
  BY <1>1
<1> HIDE DEF k, n, q
<1>3. \A i \in 1..(n + q) : i \in 1..n \/ (i - n \in 1..q /\ i = n + (i - n)) BY <1>1
<1>4. (\A i \in 1..n : i \in 1..(n + q)) /\ (\A i \in 1..q : n + i \in 1..(n + q)) BY <1>1
<1>5. \A i \in 1..(n + q) : i \notin 1..n => k[i] = r[i - n] BY <1>2, <1>3
<1>6. Elems(k) = Elems(l) \cup Elems(r)
  <2>1. ASSUME NEW i \in 1..(n + q) PROVE k[i] \in Elems(l) \cup Elems(r)
    <3>1. CASE i \in 1..n
      <4>1. i \in DOMAIN l /\ k[i] = l[i] BY <1>1, <1>2, <3>1
      <4> QED BY <4>1 DEF Elems
    <3>2. CASE i \notin 1..n
      <4>1. i - n \in DOMAIN r /\ k[i] = r[i - n] BY <1>1, <1>3, <1>5, <3>2
      <4> QED BY <4>1 DEF Elems
    <3> QED BY <3>1, <3>2
  <2>2. Elems(k) \subseteq Elems(l) \cup Elems(r) BY <1>2, <2>1 DEF Elems
  <2>3. ASSUME NEW i \in DOMAIN l PROVE l[i] \in Elems(k)
    <3>1. i \in DOMAIN k /\ k[i] = l[i] BY <1>1, <1>2, <1>4
    <3> QED BY <3>1 DEF Elems
  <2>4. ASSUME NEW i \in DOMAIN r PROVE r[i] \in Elems(k)
    <3>1. n + i \in DOMAIN k /\ k[n + i] = r[i] BY <1>1, <1>2, <1>4
    <3> QED BY <3>1 DEF Elems
  <2>5. Elems(l) \cup Elems(r) \subseteq Elems(k) BY <2>3, <2>4 DEF Elems
  <2> QED BY <2>2, <2>5
<1>7. ASSUME Distinct(l), Distinct(r), Elems(l) \cap Elems(r) = {} PROVE Distinct(k)
  <2> SUFFICES ASSUME NEW i \in 1..(n + q), NEW j \in 1..(n + q), k[i] = k[j] PROVE i = j
    BY <1>2 DEF Distinct
  <2>1. CASE i \in 1..n /\ j \in 1..n BY <1>1, <1>2, <1>7, <2>1 DEF Distinct
  <2>2. CASE i \notin 1..n /\ j \notin 1..n
    <3>1. r[i - n] = r[j - n] /\ i - n \in 1..q /\ j - n \in 1..q BY <1>3, <1>5, <2>2
    <3>2. i - n = j - n BY <1>1, <1>7, <3>1 DEF Distinct
    <3> QED BY <1>1, <3>2
  <2>3. CASE i \in 1..n /\ j \notin 1..n
    <3>1. l[i] = r[j - n] /\ j - n \in 1..q BY <1>2, <1>3, <1>5, <2>3
    <3> QED BY <1>1, <1>7, <2>3, <3>1 DEF Elems
  <2>4. CASE i \notin 1..n /\ j \in 1..n
    <3>1. l[j] = r[i - n] /\ i - n \in 1..q BY <1>2, <1>3, <1>5, <2>4
    <3> QED BY <1>1, <1>7, <2>4, <3>1 DEF Elems
  <2> QED BY <2>1, <2>2, <2>3, <2>4
<1> QED BY <1>2, <1>6, <1>7 DEF k

\* SetToSeq lists what a finite set holds, each once.
LEMMA ListsTheSet ==
  ASSUME NEW S, IsFiniteSet(S)
  PROVE  LET l == Switch!SetToSeq(S) IN l \in Seq(S) /\ Elems(l) = S /\ Distinct(l)
<1> DEFINE n == Cardinality(S)
           l == Switch!SetToSeq(S)
<1>1. n \in Nat /\ ExistsBijection(1..n, S) BY FS_CardinalityType
<1>2. Switch!Cardinality(S) = n BY DEF Switch!Cardinality, Cardinality
<1> HIDE DEF n
<1>3. l = CHOOSE f \in [1..n -> S] : Switch!IsInjective(f) BY <1>2 DEF Switch!SetToSeq
<1> HIDE DEF l
<1>4. PICK b : b \in Bijection(1..n, S) BY <1>1 DEF ExistsBijection
<1>5. b \in [1..n -> S] /\ \A i, j \in 1..n : b[i] = b[j] => i = j
  BY <1>4 DEF Bijection, Injection, IsInjective
<1>6. Switch!IsInjective(b) BY <1>5 DEF Switch!IsInjective
<1>7. l \in [1..n -> S] /\ Switch!IsInjective(l) BY <1>3, <1>5, <1>6
<1>8. l \in Seq(S) /\ DOMAIN l = 1..n BY <1>1, <1>7
<1>9. Distinct(l) BY <1>7 DEF Distinct, Switch!IsInjective
<1>10. Cardinality(Elems(l)) = n /\ IsFiniteSet(Elems(l))
  <2>1. Len(l) = n BY <1>1, <1>8
  <2> QED BY <1>8, <1>9, <2>1, DistinctLength
<1>11. Elems(l) \in SUBSET S BY <1>7 DEF Elems
<1>12. Elems(l) = S BY <1>10, <1>11, FS_Subset DEF n
<1> QED BY <1>8, <1>9, <1>12 DEF l

-----------------------------------------------------------------------------
(* Who holds the keyboard (SeatFocus).                                     *)

Who == Toplevels \cup Layers \cup Menus \cup {"lock", None}

\* x is there to have the focus, as the windows, the layer surfaces, the menus and the
\* lock are.
Alive(x, wi, la, me, lo) ==
    /\ x \in Toplevels => wi[x] # "out"
    /\ x \in Layers => la[x] = "mapped"
    /\ x \in Menus => me[x] = "mapped"
    /\ x = "lock" => lo = "shown"

Follows(k, f, me) == k = f \/ (f = XWindow /\ k \in Menus /\ me[k] = "mapped")

\* What a handler has made of the focus on its way.
Good(s, wi, la, me, lo) ==
    /\ {"f", "k", "h", "d"} \subseteq DOMAIN s
    /\ s.f \in Who /\ s.k \in Who /\ s.h \in Seq(Toplevels) /\ s.d \in BOOLEAN
    /\ Alive(s.f, wi, la, me, lo) /\ Follows(s.k, s.f, me)

FocusTypes ==
    /\ win \in [Toplevels -> {"out", "mapped", "closing"}] /\ hidden \subseteq Toplevels
    /\ layer \in [Layers -> {"out", "made", "mapped"}]
    /\ asks \in [Layers -> {"none", "on_demand", "exclusive"}]
    /\ closing \subseteq Layers /\ stack \in Seq(Layers)
    /\ menu \in [Menus -> {"out", "made", "mapped"}]
    /\ {scheduled, sent} \subseteq Focus!Schedules
    /\ lock \in {"unlocked", "locked", "shown"} /\ events \in 0..FocusEvents

\* The inductive invariant.
FocusInv ==
    /\ FocusTypes /\ Good(Focus!Now, win, layer, menu, lock)
    /\ Focus!ScheduledIsLive

\* What is alive is what Seat::focus takes.
LEMMA AliveIsLive ==
  ASSUME NEW x \in Who, NEW la, Alive(x, win, la, menu, lock), la = layer \/ x \notin Layers, FocusTypes
  PROVE  Focus!Live(x) /\ (x \in Toplevels => Focus!Live(x))
<1>1. CASE x \in Toplevels
  BY <1>1, WhoAssumption DEF Alive, Focus!Live
<1>2. CASE x \in Layers
  BY <1>2, WhoAssumption DEF Alive, Focus!Live
<1>3. CASE x \in Menus
  BY <1>3, WhoAssumption DEF Alive, Focus!Live
<1>4. CASE x \in {"lock", None}
  BY <1>4, WhoAssumption DEF Alive, Focus!Live
<1> QED BY <1>1, <1>2, <1>3, <1>4 DEF Who

\* Other fields of a handler's record.
Beside(s, r) == DOMAIN r = DOMAIN s /\ \A x \in DOMAIN s \ {"f", "k", "h", "d"} : r[x] = s[x]

\* Seat::focus gives the focus to what is alive.
LEMMA FocusGives ==
  ASSUME NEW s, NEW la, NEW x \in Who, FocusTypes, Good(s, win, la, menu, lock),
         Alive(x, win, la, menu, lock), la = layer \/ x \notin Layers
  PROVE  LET r == Focus!Focus(s, x) IN Good(r, win, la, menu, lock) /\ r.f = x /\ Beside(s, r)
<1> DEFINE raised == [s EXCEPT !.d = @ \/ x \in Stacked]
           list == IF x \in Toplevels THEN <<x>> \o Focus!Drop(s.h, x) ELSE s.h
           moved == [raised EXCEPT !.f = x, !.k = x, !.d = @ \/ Focus!Restacks(x), !.h = list]
<1>1. Focus!Live(x) BY AliveIsLive
<1>2. Focus!Focus(s, x) = IF s.f = x THEN raised ELSE moved
  <2>1. raised.f = s.f /\ raised.h = s.h BY DEF Good
  <2> QED BY <1>1, <2>1 DEF Focus!Focus
<1>3. list \in Seq(Toplevels)
  <2>1. CASE x \in Toplevels
    <3>1. Focus!Drop(s.h, x) = Only(s.h, Elems(s.h) \ {x})
      BY DEF Focus!Drop, Focus!Only, Only, Elems
    <3>2. Focus!Drop(s.h, x) \in Seq(Toplevels) BY <3>1, OnlyHolds DEF Good
    <3> QED BY <2>1, <3>2
  <2> QED BY <2>1 DEF Good
<1>4. (s.d \/ x \in Stacked) \in BOOLEAN /\ (raised.d \/ Focus!Restacks(x)) \in BOOLEAN OBVIOUS
<1> HIDE DEF list
<1>5. Good(raised, win, la, menu, lock) /\ Beside(s, raised) /\ raised.f = s.f
  BY DEF Good, Beside
<1>6. moved.f = x /\ moved.k = x /\ moved.h = list /\ moved.d \in BOOLEAN /\ Beside(s, moved)
  BY <1>4, <1>5 DEF Good, Beside
<1>7. Good(moved, win, la, menu, lock)
  BY <1>3, <1>5, <1>6 DEF Good, Beside, Follows
<1> HIDE DEF raised, moved
<1> QED BY <1>2, <1>5, <1>6, <1>7

\* focus_next_visible_window ends on a window that shows, or on none.
LEMMA FocusNextGives ==
  ASSUME NEW s, NEW la, FocusTypes, Good(s, win, la, menu, lock)
  PROVE  LET r == Focus!FocusNext(s) IN
           /\ Good(r, win, la, menu, lock) /\ Beside(s, r)
           /\ r.f \in {w \in Toplevels : Focus!Visible(w)} \cup {None}
<1> DEFINE used == {i \in DOMAIN s.h : Focus!Visible(s.h[i])}
           seen == {w \in Toplevels : Focus!Visible(w)}
           y == IF used # {} THEN s.h[Focus!Min(used)] ELSE IF seen # {} THEN CHOOSE w \in seen : TRUE ELSE None
<1>1. Focus!FocusNext(s) = Focus!Focus(s, y) BY DEF Focus!FocusNext
<1>2. y \in seen \cup {None}
  <2>1. ASSUME used # {} PROVE s.h[Focus!Min(used)] \in seen
    <3>1. used \in SUBSET Nat /\ \A i \in DOMAIN s.h : s.h[i] \in Toplevels BY DEF Good
    <3>2. \E i \in used : \A j \in used : i <= j
      <4> HIDE DEF used
      <4> QED BY <2>1, <3>1, LeastNatural
    <3>3. Focus!Min(used) \in used
      <4> HIDE DEF used
      <4> QED BY <3>2 DEF Focus!Min
    <3> QED BY <3>1, <3>3
  <2> HIDE DEF used, seen
  <2> QED BY <2>1
<1> HIDE DEF y
<1>3. y \in Who /\ (y \notin Layers) BY <1>2, WhoAssumption DEF Who
<1>4. Alive(y, win, la, menu, lock)
  BY <1>2, WhoAssumption DEF Alive, Focus!Visible
<1> QED BY <1>1, <1>2, <1>3, <1>4, FocusGives

\* What is scheduled can take the keyboard.
Fit(sch, la) == sch \in Focus!Schedules /\ (sch.key # None => la[sch.key] = "mapped")

\* check_exclusive_focus leaves no surface scheduled that is not mapped.
LEMMA CheckedFits ==
  ASSUME NEW sch \in Focus!Schedules, NEW la, NEW ask, NEW stk \in Seq(Layers), NEW cls,
         sch.how = "on_demand" => la[sch.key] = "mapped"
  PROVE  Fit(Focus!Checked(sch, la, ask, stk, cls), la)
<1> DEFINE claims == {i \in DOMAIN stk : la[stk[i]] = "mapped" /\ ask[stk[i]] = "exclusive" /\ stk[i] \notin cls}
<1>1. CASE claims # {}
  <2>1. Len(stk) \in Nat /\ DOMAIN stk = 1..Len(stk) /\ \A i \in DOMAIN stk : stk[i] \in Layers OBVIOUS
  <2>2. claims \in SUBSET (1..Len(stk)) BY <2>1
  <2>3. \E i \in claims : \A j \in claims : i >= j
    <3> HIDE DEF claims
    <3> QED BY <1>1, <2>1, <2>2, GreatestUpTo
  <2>4. Focus!Max(claims) \in claims
    <3> HIDE DEF claims
    <3> QED BY <2>3 DEF Focus!Max
  <2>5. Focus!Checked(sch, la, ask, stk, cls) = Focus!Exclusive(stk[Focus!Max(claims)])
    BY <1>1 DEF Focus!Checked
  <2>6. stk[Focus!Max(claims)] \in Layers /\ la[stk[Focus!Max(claims)]] = "mapped" BY <2>1, <2>4
  <2> HIDE DEF claims
  <2> QED BY <2>5, <2>6 DEF Fit, Focus!Exclusive, Focus!Schedules
<1>2. CASE claims = {}
  <2>1. Focus!Checked(sch, la, ask, stk, cls) =
           IF sch.how = "exclusive" \/ (sch.how = "on_demand" /\ sch.key \in cls) THEN Focus!Nobody ELSE sch
    BY <1>2 DEF Focus!Checked
  <2>2. sch.how \in {"none", "exclusive", "on_demand"} /\ (sch.how = "none" => sch.key = None)
    BY DEF Focus!Schedules, Focus!Nobody, Focus!Exclusive, Focus!OnDemand
  <2>3. Fit(Focus!Nobody, la) BY DEF Fit, Focus!Nobody, Focus!Schedules
  <2> QED BY <2>1, <2>2, <2>3 DEF Fit
<1> QED BY <1>1, <1>2

\* What a handler has made of the layer surfaces, too.
Full(s) ==
    /\ {"sch", "lay", "stk", "cls"} \subseteq DOMAIN s
    /\ Good(s, win, s.lay, menu, lock) /\ Fit(s.sch, s.lay)
    /\ s.lay \in [Layers -> {"out", "made", "mapped"}] /\ s.stk \in Seq(Layers) /\ s.cls \subseteq Layers

\* Nobody and the windows are as alive whatever the layer surfaces are.
LEMMA OffLayers ==
  ASSUME NEW x \in Who, x \notin Layers, NEW la, NEW lb, Alive(x, win, la, menu, lock)
  PROVE  Alive(x, win, lb, menu, lock)
BY DEF Alive

\* The focus leaves the surface that unmaps.
LEMMA LeftByGives ==
  ASSUME NEW s, NEW l \in Layers, FocusTypes, Full(s)
  PROVE  LET r == Focus!LeftBy(s, l) IN Good(r, win, s.lay, menu, lock) /\ Beside(s, r) /\ r.f # l
<1> DEFINE none == Focus!Focus(s, None)
           la == s.lay
<1>1. Good(s, win, la, menu, lock) BY DEF Full
<1> HIDE DEF la
<1>2. None \in Who /\ None \notin Layers /\ Alive(None, win, la, menu, lock) /\ None # l
  BY WhoAssumption DEF Who, Alive
<1>3. Good(none, win, la, menu, lock) /\ Beside(s, none) /\ none.f = None BY <1>1, <1>2, FocusGives
<1>4. CASE s.f # l
  <2>1. Focus!LeftBy(s, l) = s BY <1>4 DEF Focus!LeftBy
  <2> QED BY <1>1, <1>4, <2>1 DEF Beside, la
<1>5. CASE s.f = l /\ l \in Parented /\ Focus!Visible(XWindow)
  <2>1. Focus!LeftBy(s, l) = Focus!Focus(none, XWindow) BY <1>5 DEF Focus!LeftBy
  <2>2. XWindow \in Who /\ XWindow \notin Layers /\ XWindow # l /\ Alive(XWindow, win, la, menu, lock)
    BY <1>5, WhoAssumption DEF Who, Alive, Focus!Visible
  <2> HIDE DEF none
  <2>3. LET r == Focus!Focus(none, XWindow) IN Good(r, win, la, menu, lock) /\ r.f = XWindow /\ Beside(none, r)
    BY <1>3, <2>2, FocusGives
  <2> QED BY <1>3, <2>1, <2>2, <2>3 DEF Beside, la
<1>6. CASE s.f = l /\ l \in Parented /\ ~Focus!Visible(XWindow)
  <2>1. Focus!LeftBy(s, l) = none BY <1>6 DEF Focus!LeftBy
  <2> QED BY <1>2, <1>3, <2>1 DEF la
<1>7. CASE s.f = l /\ l \notin Parented
  <2>1. Focus!LeftBy(s, l) = Focus!FocusNext(none) BY <1>7 DEF Focus!LeftBy
  <2> HIDE DEF none
  <2>2. LET r == Focus!FocusNext(none) IN
           /\ Good(r, win, la, menu, lock) /\ Beside(none, r)
           /\ r.f \in {w \in Toplevels : Focus!Visible(w)} \cup {None}
    BY <1>3, FocusNextGives
  <2>3. l \notin Toplevels BY WhoAssumption
  <2> QED BY <1>2, <1>3, <2>1, <2>2, <2>3 DEF Beside, la
<1> QED BY <1>4, <1>5, <1>6, <1>7

\* A surface unmaps: nothing names it any more.
LEMMA UnmappedFull ==
  ASSUME NEW s, NEW l \in Layers, FocusTypes, Full(s)
  PROVE  LET r == Focus!Unmapped(s, l) IN
           Full(r) /\ r.lay = [s.lay EXCEPT ![l] = "made"] /\ r.stk = s.stk /\ r.cls = s.cls
<1> DEFINE wish == IF s.sch = Focus!OnDemand(l) THEN Focus!Nobody ELSE s.sch
           lay == [s.lay EXCEPT ![l] = "made"]
           to1 == Focus!Checked(wish, lay, asks, s.stk, s.cls)
           q == Focus!LeftBy(s, l)
           r == [q EXCEPT !.d = @ \/ to1 # s.sch, !.sch = to1, !.lay = lay]
<1>1. Focus!Unmapped(s, l) = r BY DEF Focus!Unmapped
<1>2. /\ s.lay \in [Layers -> {"out", "made", "mapped"}] /\ s.stk \in Seq(Layers)
      /\ {"sch", "lay", "stk", "cls"} \subseteq DOMAIN s /\ s.cls \subseteq Layers /\ Fit(s.sch, s.lay)
  BY DEF Full
<1>3. lay \in [Layers -> {"out", "made", "mapped"}] /\ \A k \in Layers : k # l => lay[k] = s.lay[k]
  BY <1>2
<1>4. wish \in Focus!Schedules BY <1>2 DEF Fit, Focus!Schedules
<1>5. wish.how = "on_demand" => lay[wish.key] = "mapped"
  <2>1. SUFFICES ASSUME wish.how = "on_demand" PROVE lay[wish.key] = "mapped" OBVIOUS
  <2>2. wish = s.sch /\ wish # Focus!OnDemand(l) BY <2>1 DEF Focus!Nobody
  <2>3. PICK k \in Layers : wish = Focus!OnDemand(k)
    BY <1>4, <2>1 DEF Focus!Schedules, Focus!Nobody, Focus!Exclusive
  <2>4. k # l /\ wish.key = k /\ k # None BY <2>2, <2>3, WhoAssumption DEF Focus!OnDemand
  <2>5. s.lay[k] = "mapped" BY <1>2, <2>2, <2>4 DEF Fit
  <2> QED BY <1>3, <2>4, <2>5
<1> HIDE DEF wish, lay
<1>6. Fit(to1, lay) BY <1>2, <1>4, <1>5, CheckedFits
<1>7. Good(q, win, s.lay, menu, lock) /\ Beside(s, q) /\ q.f # l BY LeftByGives
<1> HIDE DEF to1, q
<1>8. /\ r.f = q.f /\ r.k = q.k /\ r.h = q.h /\ r.d \in BOOLEAN /\ r.sch = to1 /\ r.lay = lay
      /\ r.stk = s.stk /\ r.cls = s.cls /\ DOMAIN r = DOMAIN s
  BY <1>2, <1>7 DEF Good, Beside
<1> HIDE DEF r
<1>9. Good(r, win, lay, menu, lock)
  BY <1>3, <1>7, <1>8 DEF Good, Beside, Alive
<1>10. Full(r) BY <1>2, <1>3, <1>6, <1>8, <1>9 DEF Full
<1> QED BY <1>1, <1>8, <1>10 DEF lay

\* Whoever is scheduled or focused is not the one that goes.
LEMMA DestroyedFull ==
  ASSUME NEW s, NEW l \in Layers, FocusTypes, Full(s)
  PROVE  Full(Focus!Destroyed(s, l)) /\ Focus!Destroyed(s, l).cls = s.cls
<1> DEFINE off == IF s.lay[l] = "mapped" THEN Focus!Unmapped(s, l) ELSE s
           r == [off EXCEPT !.lay[l] = "out", !.stk = Focus!Drop(@, l)]
<1>1. Focus!Destroyed(s, l) = r BY DEF Focus!Destroyed
<1>2. Full(off) /\ off.lay[l] # "mapped" /\ off.cls = s.cls
  <2>1. CASE s.lay[l] = "mapped"
    <3>1. off = Focus!Unmapped(s, l) BY <2>1
    <3>2. off.lay = [s.lay EXCEPT ![l] = "made"] /\ Full(off) /\ off.cls = s.cls BY <3>1, UnmappedFull
    <3> HIDE DEF off
    <3>3. s.lay \in [Layers -> {"out", "made", "mapped"}] BY DEF Full
    <3> QED BY <3>2, <3>3
  <2>2. CASE s.lay[l] # "mapped" BY <2>2
  <2> QED BY <2>1, <2>2
<1> HIDE DEF off
<1>3. /\ off.lay \in [Layers -> {"out", "made", "mapped"}] /\ off.stk \in Seq(Layers)
      /\ {"f", "k", "h", "d", "sch", "lay", "stk", "cls"} \subseteq DOMAIN off /\ Fit(off.sch, off.lay)
  BY <1>2 DEF Full, Good
<1>4. /\ r.f = off.f /\ r.k = off.k /\ r.h = off.h /\ r.d = off.d /\ r.sch = off.sch /\ r.cls = off.cls
      /\ r.lay = [off.lay EXCEPT ![l] = "out"] /\ r.stk = Focus!Drop(off.stk, l) /\ DOMAIN r = DOMAIN off
  BY <1>3
<1> HIDE DEF r
<1>5. r.stk \in Seq(Layers)
  <2>1. Focus!Drop(off.stk, l) = Only(off.stk, Elems(off.stk) \ {l})
    BY DEF Focus!Drop, Focus!Only, Only, Elems
  <2> QED BY <1>3, <1>4, <2>1, OnlyHolds
<1>6. r.lay \in [Layers -> {"out", "made", "mapped"}] /\ \A k \in Layers : off.lay[k] = "mapped" => r.lay[k] = "mapped"
  BY <1>2, <1>3, <1>4
<1>7. Fit(r.sch, r.lay)
  <2>1. off.sch.key \in Layers \cup {None}
    BY <1>3 DEF Fit, Focus!Schedules, Focus!Nobody, Focus!Exclusive, Focus!OnDemand
  <2> QED BY <1>3, <1>4, <1>6, <2>1 DEF Fit
<1>8. Good(r, win, r.lay, menu, lock)
  BY <1>2, <1>4, <1>6 DEF Full, Good, Alive
<1> QED BY <1>1, <1>2, <1>3, <1>4, <1>5, <1>6, <1>7, <1>8 DEF Full

\* What close_oversized does in some order.
Closed(base, order) == Focus!FoldLeft(Focus!Destroyed, base, order)

\* The surfaces close one after the other: what the fold over their order runs through.
LEMMA ClosingRuns ==
  ASSUME NEW n \in Nat, NEW base, NEW order, DOMAIN order = 1..n
  PROVE  \E made : made[0] = base /\ (\A i \in 1..n : made[i] = Focus!Destroyed(made[i - 1], order[i])) /\ Closed(base, order) = made[n]
<1> DEFINE Step(f, x) == IF x = {} THEN base ELSE Focus!Destroyed(f[x \ {Focus!Max(x)}], order[Focus!Max(x)])
           Runs1(f, k) == f = [x \in SUBSET (1..k) |-> Step(f, x)]
           G == {k \in 0..n : \E f : Runs1(f, k)}
<1>1. ASSUME NEW k \in 1..n, NEW x \in SUBSET (1..k), x \notin SUBSET (1..(k - 1))
      PROVE  Focus!Max(x) = k /\ x \ {k} \in SUBSET (1..(k - 1))
  <2>0. \A y \in 1..k : y \in 1..(k - 1) \/ y = k OBVIOUS
  <2>1. k \in x /\ \A y \in x : k >= y BY <1>1, <2>0
  <2>2. ASSUME NEW y \in x, \A z \in x : y >= z PROVE y = k
    <3>1. y >= k /\ k >= y /\ y \in Int /\ k \in Int BY <1>1, <2>1, <2>2
    <3> QED BY <3>1
  <2>3. Focus!Max(x) = k BY <2>1, <2>2 DEF Focus!Max
  <2> QED BY <1>1, <2>0, <2>3
<1>2. 0 \in G
  <2> DEFINE f == [x \in SUBSET (1..0) |-> base]
  <2>1. \A x \in SUBSET (1..0) : x = {} OBVIOUS
  <2>2. Runs1(f, 0) BY <2>1
  <2> QED BY <2>2
<1>3. ASSUME NEW k \in 1..n, k - 1 \in G PROVE k \in G
  <2>1. PICK f : Runs1(f, k - 1) BY <1>3
  <2> DEFINE h == [x \in SUBSET (1..k) |-> IF x \in SUBSET (1..(k - 1)) THEN f[x] ELSE Step(f, x)]
  <2>2. ASSUME NEW x \in SUBSET (1..k) PROVE h[x] = Step(h, x)
    <3> DEFINE y == x \ {Focus!Max(x)}
    <3>0. y \in SUBSET (1..(k - 1))
      <4>1. CASE x \in SUBSET (1..(k - 1)) BY <4>1
      <4>2. CASE x \notin SUBSET (1..(k - 1)) BY <1>1, <4>2
      <4> QED BY <4>1, <4>2
    <3>1. 1..(k - 1) \subseteq 1..k OBVIOUS
    <3>2. y \in SUBSET (1..k) /\ h[y] = f[y] BY <3>0, <3>1
    <3>3. Step(h, x) = Step(f, x) BY <3>2
    <3>4. CASE x \in SUBSET (1..(k - 1))
      <4>1. h[x] = f[x] BY <3>4
      <4>2. f[x] = Step(f, x)
        <5> HIDE DEF Step
        <5> QED BY <2>1, <3>4
      <4> QED BY <3>3, <4>1, <4>2
    <3>5. CASE x \notin SUBSET (1..(k - 1))
      <4> HIDE DEF Step
      <4> QED BY <3>3, <3>5
    <3> QED BY <3>4, <3>5
  <2> HIDE DEF Step
  <2>3. h = [x \in SUBSET (1..k) |-> h[x]] OBVIOUS
  <2> HIDE DEF h
  <2>4. Runs1(h, k) BY <2>2, <2>3
  <2>5. k \in 0..n OBVIOUS
  <2> QED BY <2>4, <2>5
<1> HIDE DEF G
<1>4. PICK f : Runs1(f, n)
  <2>1. \A i \in 0..n : i \in G BY <1>2, <1>3, CountUp
  <2>2. n \in 0..n OBVIOUS
  <2> QED BY <2>1, <2>2 DEF G
<1> DEFINE iter == CHOOSE ff : Runs1(ff, n)
<1>5. Closed(base, order) = iter[1..n]
  BY DEF Closed, Focus!FoldLeft, Focus!MapThenFoldSet
<1> HIDE DEF Step
<1>6. iter = [x \in SUBSET (1..n) |-> Step(iter, x)] BY <1>4
<1> HIDE DEF iter
<1> DEFINE z == [i \in 0..n |-> iter[1..i]]
<1>7. z[0] = base
  <2>1. 1..0 = {} /\ 0 \in 0..n OBVIOUS
  <2>2. iter[{}] = Step(iter, {}) BY <1>6
  <2> QED BY <2>1, <2>2 DEF Step
<1>8. ASSUME NEW i \in 1..n PROVE z[i] = Focus!Destroyed(z[i - 1], order[i])
  <2> DEFINE x == 1..i
  <2>0. i \in x /\ i \notin 1..(i - 1) /\ 1..i \subseteq 1..n OBVIOUS
  <2>1. x \in SUBSET (1..i) /\ x \notin SUBSET (1..(i - 1)) /\ x \in SUBSET (1..n) /\ x # {} BY <2>0
  <2>2. Focus!Max(x) = i BY <1>1, <2>1
  <2>3. x \ {i} = 1..(i - 1) OBVIOUS
  <2>4. iter[x] = Step(iter, x) BY <1>6, <2>1
  <2>5. i \in 0..n /\ i - 1 \in 0..n OBVIOUS
  <2> QED BY <2>1, <2>2, <2>3, <2>4, <2>5 DEF Step
<1>9. z[n] = iter[1..n] OBVIOUS
<1>10. Closed(base, order) = z[n] BY <1>5, <1>9
<1> HIDE DEF z
<1> QED BY <1>7, <1>8, <1>10

\* close_oversized leaves the focus with somebody, in whatever order it takes them.
LEMMA ClosedFull ==
  ASSUME NEW n \in Nat, NEW base, Full(base), NEW order \in [1..n -> Layers], FocusTypes
  PROVE  Full(Closed(base, order))
<1>0. DOMAIN order = 1..n OBVIOUS
<1>1. PICK f : f[0] = base /\ (\A i \in 1..n : f[i] = Focus!Destroyed(f[i - 1], order[i])) /\ Closed(base, order) = f[n]
  BY <1>0, ClosingRuns
<1> DEFINE G == {i \in 0..n : Full(f[i])}
<1>2. 0 \in G BY <1>1
<1>3. ASSUME NEW i \in 1..n, i - 1 \in G PROVE i \in G
  <2>1. Full(f[i - 1]) /\ order[i] \in Layers BY <1>3
  <2>2. Full(Focus!Destroyed(f[i - 1], order[i])) BY <2>1, DestroyedFull
  <2>3. i \in 0..n OBVIOUS
  <2> QED BY <1>1, <2>2, <2>3
<1> HIDE DEF G
<1>4. \A i \in 0..n : i \in G BY <1>2, <1>3, CountUp
<1>5. n \in 0..n OBVIOUS
<1> QED BY <1>1, <1>4, <1>5 DEF G

\* What a handler leaves, written back.
LEMMA FocusWritten ==
  ASSUME NEW r, Focus!Set(r), FocusTypes', Good(r, win', layer', menu', lock'), Fit(scheduled', layer')
  PROVE  FocusInv'
<1>1. focused' = r.f /\ keyboard' = r.k /\ history' = r.h /\ dirty' = r.d BY DEF Focus!Set
<1>2. Good(Focus!Now, win, layer, menu, lock)' BY <1>1 DEF Good, Focus!Now
<1> QED BY <1>2 DEF FocusInv, Focus!ScheduledIsLive, Fit

\* What it starts from, and what stays alive in what changes.
LEMMA FocusRead ==
  ASSUME FocusInv
  PROVE  /\ FocusTypes /\ Good(Focus!Now, win, layer, menu, lock) /\ Fit(scheduled, layer)
         /\ Focus!Now.f = focused /\ Focus!Now.k = keyboard /\ Focus!Now.h = history /\ Focus!Now.d = dirty
         /\ DOMAIN Focus!Now = {"f", "k", "h", "d"}
         /\ scheduled.key \in Layers \cup {None}
<1>1. FocusTypes /\ Good(Focus!Now, win, layer, menu, lock) BY DEF FocusInv
<1>2. Fit(scheduled, layer) BY DEF FocusInv, FocusTypes, Fit, Focus!ScheduledIsLive
<1>3. /\ Focus!Now.f = focused /\ Focus!Now.k = keyboard /\ Focus!Now.h = history /\ Focus!Now.d = dirty
      /\ DOMAIN Focus!Now = {"f", "k", "h", "d"}
  BY DEF Focus!Now
<1>4. scheduled.key \in Layers \cup {None}
  BY <1>2 DEF Fit, Focus!Schedules, Focus!Nobody, Focus!Exclusive, Focus!OnDemand
<1> QED BY <1>1, <1>2, <1>3, <1>4

\* Whoever was alive is, when no window goes, no surface and no menu unmaps.
LEMMA GoodStays ==
  ASSUME NEW s, NEW wi, NEW la, NEW me, NEW lo, NEW wi2, NEW la2, NEW me2,
         Good(s, wi, la, me, lo),
         \A x \in Toplevels : wi[x] # "out" => wi2[x] # "out",
         \A x \in Layers : la[x] = "mapped" => la2[x] = "mapped",
         \A x \in Menus : me[x] = "mapped" => me2[x] = "mapped"
  PROVE  Good(s, wi2, la2, me2, lo)
BY DEF Good, Alive, Follows

\* The list of windows used last loses one.
LEMMA DropKeeps ==
  ASSUME NEW E, NEW l \in Seq(E), NEW x
  PROVE  /\ Focus!Drop(l, x) \in Seq(E) /\ Elems(Focus!Drop(l, x)) = Elems(l) \ {x}
         /\ Distinct(l) => Distinct(Focus!Drop(l, x))
<1>1. Focus!Drop(l, x) = Only(l, Elems(l) \ {x}) BY DEF Focus!Drop, Focus!Only, Only, Elems
<1> QED BY <1>1, OnlyHolds

\* A window that maps and takes the focus leaves the focus sound (SeatFocus!MapWindow).
LEMMA MapWindowKeeps ==
  ASSUME FocusInv, NEW w \in Toplevels, NEW should \in BOOLEAN, Focus!MapWindow(w, should),
         events' \in 0..FocusEvents
  PROVE  FocusInv'
<1> DEFINE n == Focus!Now
           on2 == [n EXCEPT !.f = w, !.k = w, !.h = <<w>> \o @, !.d = TRUE]
           off == [n EXCEPT !.d = TRUE]
<1>1. /\ FocusTypes /\ Good(n, win, layer, menu, lock) /\ Fit(scheduled, layer)
      /\ DOMAIN n = {"f", "k", "h", "d"}
  BY FocusRead
<1> HIDE DEF n
<1>2. /\ win' = [win EXCEPT ![w] = "mapped"] /\ Focus!Set(IF should THEN on2 ELSE off)
      /\ UNCHANGED <<hidden, layer, asks, stack, closing, menu, scheduled, sent, lock>>
  BY DEF Focus!MapWindow, n
<1>3. FocusTypes' BY <1>1, <1>2 DEF FocusTypes
<1>4. Good(n, win', layer', menu', lock')
  <2>1. \A x \in Toplevels : win[x] # "out" => win'[x] # "out" BY <1>1, <1>2 DEF FocusTypes
  <2> QED BY <1>1, <1>2, <2>1, GoodStays
<1>5. Good(off, win', layer', menu', lock') BY <1>1, <1>4 DEF Good
<1>6. Good(on2, win', layer', menu', lock')
  <2>1. on2.f = w /\ on2.k = w /\ on2.h = <<w>> \o n.h /\ on2.d = TRUE /\ DOMAIN on2 = DOMAIN n BY <1>1
  <2>2. n.h \in Seq(Toplevels) BY <1>4 DEF Good
  <2>3. <<w>> \o n.h \in Seq(Toplevels) BY <2>2
  <2>4. Alive(w, win', layer', menu', lock') BY <1>1, <1>2, WhoAssumption DEF Alive, FocusTypes
  <2> HIDE DEF on2
  <2> QED BY <1>1, <2>1, <2>3, <2>4 DEF Good, Follows, Who
<1> HIDE DEF on2, off
<1> QED BY <1>1, <1>2, <1>3, <1>5, <1>6, FocusWritten

\* So does one that unmaps, the focus having moved on first (SeatFocus!UnmapWindow).
LEMMA UnmapWindowKeeps ==
  ASSUME FocusInv, NEW w \in Toplevels, Focus!UnmapWindow(w) \/ Focus!Minimize(w),
         events' \in 0..FocusEvents
  PROVE  FocusInv'
<1> DEFINE n == Focus!Now
           off == [n EXCEPT !.d = TRUE]
<1>1. /\ FocusTypes /\ Good(n, win, layer, menu, lock) /\ Fit(scheduled, layer)
      /\ DOMAIN n = {"f", "k", "h", "d"}
      /\ n.f = focused /\ n.k = keyboard /\ n.h = history
  BY FocusRead
<1> HIDE DEF n
<1>2. /\ \/ win' = win
         \/ win' = [win EXCEPT ![w] = "closing"]
      /\ hidden' \subseteq hidden \cup {w}
      /\ UNCHANGED <<layer, asks, stack, closing, menu, focused, keyboard, scheduled, sent, history, lock>>
      /\ dirty' = TRUE
  BY DEF Focus!UnmapWindow, Focus!Minimize
<1>3. FocusTypes' BY <1>1, <1>2 DEF FocusTypes
<1>4. Good(n, win', layer', menu', lock')
  <2>1. \A x \in Toplevels : win[x] # "out" => win'[x] # "out" BY <1>1, <1>2 DEF FocusTypes
  <2> QED BY <1>1, <1>2, <2>1, GoodStays
<1>5. Good(off, win', layer', menu', lock') BY <1>1, <1>4 DEF Good
<1>6. Focus!Set(off) BY <1>1, <1>2 DEF Focus!Set
<1> HIDE DEF off
<1> QED BY <1>1, <1>2, <1>3, <1>5, <1>6, FocusWritten

\* And one that is destroyed: nothing the seat keeps names it (SeatFocus!DestroyWindow).
LEMMA DestroyWindowKeeps ==
  ASSUME FocusInv, NEW w \in Toplevels, Focus!DestroyWindow(w), events' \in 0..FocusEvents
  PROVE  FocusInv'
<1> DEFINE n == Focus!Now
           none == Focus!Focus(n, None)
           s == IF focused = w THEN Focus!FocusNext(none) ELSE n
           r == [s EXCEPT !.h = Focus!Drop(@, w)]
<1>1. /\ FocusTypes /\ Good(n, win, layer, menu, lock) /\ Fit(scheduled, layer) /\ n.f = focused
  BY FocusRead
<1> HIDE DEF n
<1>2. /\ win[w] = "closing" /\ win' = [win EXCEPT ![w] = "out"] /\ hidden' = hidden \ {w} /\ Focus!Set(r)
      /\ UNCHANGED <<layer, asks, stack, closing, menu, scheduled, sent, lock>>
  BY DEF Focus!DestroyWindow, n
<1>3. None \in Who /\ None \notin Layers /\ Alive(None, win, layer, menu, lock) /\ None # w
  BY WhoAssumption DEF Who, Alive
<1>4. Good(none, win, layer, menu, lock) BY <1>1, <1>3, FocusGives
<1> HIDE DEF none
<1>5. Good(s, win, layer, menu, lock) /\ s.f # w
  <2>1. CASE focused # w BY <1>1, <2>1
  <2>2. CASE focused = w
    <3>1. s = Focus!FocusNext(none) BY <2>2
    <3>2. Good(s, win, layer, menu, lock) /\ s.f \in {v \in Toplevels : Focus!Visible(v)} \cup {None}
      BY <1>1, <1>4, <3>1, FocusNextGives
    <3> QED BY <1>2, <1>3, <3>2 DEF Focus!Visible
  <2> QED BY <2>1, <2>2
<1> HIDE DEF s
<1>6. /\ r.f = s.f /\ r.k = s.k /\ r.d = s.d /\ r.h = Focus!Drop(s.h, w) /\ DOMAIN r = DOMAIN s
  BY <1>5 DEF Good
<1>7. r.h \in Seq(Toplevels) BY <1>5, <1>6, DropKeeps DEF Good
<1> HIDE DEF r
<1>8. Good(r, win', layer', menu', lock')
  <2>1. \A x \in Toplevels : x # w => win'[x] = win[x] BY <1>1, <1>2 DEF FocusTypes
  <2> QED BY <1>2, <1>5, <1>6, <1>7, <2>1 DEF Good, Alive, Follows
<1>9. FocusTypes' BY <1>1, <1>2 DEF FocusTypes
<1> QED BY <1>1, <1>2, <1>8, <1>9, FocusWritten

\* A handler focuses one and perhaps wants a pass.
LEMMA FocusOne ==
  ASSUME FocusInv, NEW x \in Who, Alive(x, win, layer, menu, lock), NEW b \in BOOLEAN,
         Focus!Set([Focus!Focus(Focus!Now, x) EXCEPT !.d = @ \/ b]),
         UNCHANGED <<win, layer, menu, scheduled, lock>>, FocusTypes'
  PROVE  FocusInv'
<1> DEFINE n == Focus!Now
           s == Focus!Focus(n, x)
           r == [s EXCEPT !.d = @ \/ b]
<1>1. FocusTypes /\ Good(n, win, layer, menu, lock) /\ Fit(scheduled, layer)
  BY FocusRead
<1>2. Good(s, win, layer, menu, lock)
  <2> HIDE DEF n
  <2> QED BY <1>1, FocusGives
<1>3. Focus!Set(r) OBVIOUS
<1> HIDE DEF s
<1>4. (s.d \/ b) \in BOOLEAN OBVIOUS
<1>5. Good(r, win, layer, menu, lock) BY <1>2, <1>4 DEF Good
<1> HIDE DEF r
<1> QED BY <1>1, <1>3, <1>5, FocusWritten

\* A command that gives a window the focus keeps the focus sound.
LEMMA FocusWindowKeeps ==
  ASSUME FocusInv, NEW w \in Toplevels, NEW a \in BOOLEAN, Focus!FocusWindow(w, a),
         events' \in 0..FocusEvents
  PROVE  FocusInv'
<1> DEFINE s == Focus!Focus(Focus!Now, w)
<1>1. FocusTypes BY FocusRead
<1>2. /\ win[w] = "mapped" /\ hidden' = hidden \ {w} /\ Focus!Set([s EXCEPT !.d = TRUE])
      /\ UNCHANGED <<win, layer, asks, stack, closing, menu, scheduled, sent, lock>>
  BY DEF Focus!FocusWindow
<1>3. FocusTypes' BY <1>1, <1>2 DEF FocusTypes
<1>4. w \in Who /\ Alive(w, win, layer, menu, lock) BY <1>2, WhoAssumption DEF Who, Alive
<1> HIDE DEF s
<1>5. [s EXCEPT !.d = TRUE] = [s EXCEPT !.d = @ \/ TRUE] OBVIOUS
<1>6. Focus!Set([Focus!Focus(Focus!Now, w) EXCEPT !.d = @ \/ TRUE]) BY <1>2, <1>5 DEF s
<1> QED BY <1>2, <1>3, <1>4, <1>6, FocusOne

\* So does a click, on a window, a layer surface or nothing.
LEMMA ClickKeeps ==
  ASSUME FocusInv, NEW x \in Toplevels \cup Layers \cup {None}, Focus!Click(x),
         events' \in 0..FocusEvents
  PROVE  FocusInv'
<1>1. FocusTypes BY FocusRead
<1>2. /\ lock = "unlocked"
      /\ \/ x \in Toplevels /\ Focus!Visible(x)
         \/ x \in Layers /\ layer[x] = "mapped" /\ asks[x] # "none"
         \/ x = None
      /\ Focus!Set([Focus!Focus(Focus!Now, x) EXCEPT !.d = @ \/ (x = None)])
      /\ UNCHANGED <<win, hidden, layer, asks, stack, closing, menu, scheduled, sent, lock>>
  BY DEF Focus!Click
<1>3. FocusTypes' BY <1>1, <1>2 DEF FocusTypes
<1>4. x \in Who /\ Alive(x, win, layer, menu, lock)
  BY <1>2, WhoAssumption DEF Who, Alive, Focus!Visible
<1>5. (x = None) \in BOOLEAN OBVIOUS
<1>6. UNCHANGED <<win, layer, menu, scheduled, lock>> BY <1>2
<1> DEFINE b == (x = None)
<1>7. b \in BOOLEAN /\ Focus!Set([Focus!Focus(Focus!Now, x) EXCEPT !.d = @ \/ b]) BY <1>2
<1> HIDE DEF b
<1> QED BY <1>3, <1>4, <1>6, <1>7, FocusOne

\* A layer surface that is created keeps the focus sound.
LEMMA NewLayerKeeps ==
  ASSUME FocusInv, NEW l \in Layers, NEW ask \in {"none", "on_demand", "exclusive"},
         Focus!NewLayer(l, ask), events' \in 0..FocusEvents
  PROVE  FocusInv'
<1> DEFINE n == Focus!Now
<1>1. /\ FocusTypes /\ Good(n, win, layer, menu, lock) /\ Fit(scheduled, layer)
      /\ n.f = focused /\ n.k = keyboard /\ n.h = history /\ n.d = dirty
      /\ scheduled.key \in Layers \cup {None}
  BY FocusRead
<1> HIDE DEF n
<1>2. /\ layer[l] = "out" /\ layer' = [layer EXCEPT ![l] = "made"] /\ asks' = [asks EXCEPT ![l] = ask]
      /\ stack' = Append(stack, l)
      /\ UNCHANGED <<win, hidden, closing, menu, focused, keyboard, scheduled, sent, history, lock, dirty>>
  BY DEF Focus!NewLayer
<1>3. FocusTypes' BY <1>1, <1>2 DEF FocusTypes
<1>4. \A k \in Layers : layer[k] = "mapped" => layer'[k] = "mapped" BY <1>1, <1>2 DEF FocusTypes
<1>5. Good(n, win', layer', menu', lock')
  <2>1. Good(n, win, layer', menu, lock) BY <1>1, <1>4, GoodStays
  <2> QED BY <1>2, <2>1
<1>6. Focus!Set(n) BY <1>1, <1>2 DEF Focus!Set
<1>7. Fit(scheduled', layer') BY <1>1, <1>2, <1>4 DEF Fit
<1> QED BY <1>3, <1>5, <1>6, <1>7, FocusWritten

\* A surface that maps or commits has the schedule checked.
LEMMA CheckKeeps ==
  ASSUME FocusInv, FocusTypes', NEW wish \in Focus!Schedules,
         wish.how = "on_demand" => layer'[wish.key] = "mapped",
         \A k \in Layers : layer[k] = "mapped" => layer'[k] = "mapped",
         scheduled' = Focus!Checked(wish, layer', asks', stack, closing'),
         dirty' \in BOOLEAN, UNCHANGED <<win, stack, menu, focused, keyboard, history, lock>>
  PROVE  FocusInv'
<1> DEFINE n == Focus!Now
           r == [n EXCEPT !.d = dirty']
<1>1. /\ FocusTypes /\ Good(n, win, layer, menu, lock) /\ Fit(scheduled, layer)
      /\ n.f = focused /\ n.k = keyboard /\ n.h = history
  BY FocusRead
<1> HIDE DEF n
<1>2. stack \in Seq(Layers) BY <1>1 DEF FocusTypes
<1>3. Fit(scheduled', layer') BY <1>2, CheckedFits
<1>4. Good(n, win', layer', menu', lock') BY <1>1, GoodStays
<1>5. r.d = dirty' /\ r.f = n.f /\ r.k = n.k /\ r.h = n.h /\ DOMAIN r = DOMAIN n BY <1>4 DEF Good
<1> HIDE DEF r
<1>6. Good(r, win', layer', menu', lock') BY <1>4, <1>5 DEF Good
<1>7. Focus!Set(r) BY <1>1, <1>5 DEF Focus!Set
<1> QED BY <1>3, <1>6, <1>7, FocusWritten

\* So does one that maps, asking for the keyboard or not.
LEMMA MapLayerKeeps ==
  ASSUME FocusInv, NEW l \in Layers, NEW big, Focus!MapLayer(l, big), events' \in 0..FocusEvents
  PROVE  FocusInv'
<1> DEFINE wish == IF asks[l] = "on_demand" /\ scheduled.how # "exclusive" THEN Focus!OnDemand(l) ELSE scheduled
<1>1. FocusTypes /\ Fit(scheduled, layer) BY FocusRead
<1>2. /\ layer[l] = "made" /\ big \subseteq Layers /\ closing' = closing \cup big
      /\ layer' = [layer EXCEPT ![l] = "mapped"]
      /\ scheduled' = Focus!Checked(wish, layer', asks, stack, closing')
      /\ dirty' = (dirty \/ scheduled' # scheduled)
      /\ UNCHANGED <<win, hidden, asks, stack, menu, focused, keyboard, sent, history, lock>>
  BY DEF Focus!MapLayer, Focus!Arranged
<1>3. \A k \in Layers : layer[k] = "mapped" => layer'[k] = "mapped" BY <1>1, <1>2 DEF FocusTypes
<1>4. wish \in Focus!Schedules BY <1>1 DEF Fit, Focus!Schedules
<1>5. wish.how = "on_demand" => layer'[wish.key] = "mapped"
  <2>1. CASE wish = Focus!OnDemand(l)
    <3>1. wish.key = l BY <2>1 DEF Focus!OnDemand
    <3> QED BY <1>1, <1>2, <3>1 DEF FocusTypes
  <2>2. CASE wish = scheduled
    <3>1. ASSUME scheduled.how = "on_demand" PROVE scheduled.key \in Layers /\ scheduled.key # None
      <4>1. PICK k \in Layers : scheduled = Focus!OnDemand(k)
        BY <1>1, <3>1 DEF Fit, Focus!Schedules, Focus!Nobody, Focus!Exclusive
      <4> QED BY <4>1, WhoAssumption DEF Focus!OnDemand
    <3> QED BY <1>1, <1>3, <2>2, <3>1 DEF Fit
  <2> QED BY <2>1, <2>2
<1> HIDE DEF wish
<1>6. scheduled' \in Focus!Schedules
  <2>1. stack \in Seq(Layers) BY <1>1 DEF FocusTypes
  <2> QED BY <1>2, <1>4, <1>5, <2>1, CheckedFits DEF Fit
<1>7. FocusTypes' BY <1>1, <1>2, <1>6 DEF FocusTypes
<1>8. scheduled' = Focus!Checked(wish, layer', asks', stack, closing') BY <1>2
<1>9. dirty' \in BOOLEAN BY <1>2 
<1> QED BY <1>2, <1>3, <1>4, <1>5, <1>7, <1>8, <1>9, CheckKeeps

\* And one whose commit changes its layer or what it asks of the keyboard.
LEMMA CommitLayerKeeps ==
  ASSUME FocusInv, NEW l \in Layers, NEW ask \in {"none", "on_demand", "exclusive"}, NEW big,
         Focus!CommitLayer(l, ask, big), events' \in 0..FocusEvents
  PROVE  FocusInv'
<1>1. FocusTypes /\ Fit(scheduled, layer) BY FocusRead
<1>2. /\ big \subseteq Layers /\ closing' = closing \cup big
      /\ asks' = [asks EXCEPT ![l] = ask]
      /\ scheduled' = Focus!Checked(scheduled, layer', asks', stack, closing')
      /\ dirty' = (dirty \/ scheduled' # scheduled)
      /\ UNCHANGED <<win, hidden, layer, stack, menu, focused, keyboard, sent, history, lock>>
  BY DEF Focus!CommitLayer, Focus!Arranged
<1>3. \A k \in Layers : layer[k] = "mapped" => layer'[k] = "mapped" BY <1>2
<1>4. scheduled \in Focus!Schedules BY <1>1 DEF Fit
<1>5. scheduled.how = "on_demand" => layer'[scheduled.key] = "mapped"
  <2>1. ASSUME scheduled.how = "on_demand" PROVE scheduled.key \in Layers /\ scheduled.key # None
    <3>1. PICK k \in Layers : scheduled = Focus!OnDemand(k)
      BY <1>4, <2>1 DEF Focus!Schedules, Focus!Nobody, Focus!Exclusive
    <3> QED BY <3>1, WhoAssumption DEF Focus!OnDemand
  <2> QED BY <1>1, <1>3, <2>1 DEF Fit
<1>6. scheduled' \in Focus!Schedules
  <2>1. stack \in Seq(Layers) BY <1>1 DEF FocusTypes
  <2> QED BY <1>2, <1>4, <1>5, <2>1, CheckedFits DEF Fit
<1>7. FocusTypes' BY <1>1, <1>2, <1>6 DEF FocusTypes
<1>8. dirty' \in BOOLEAN BY <1>2 
<1> QED BY <1>2, <1>3, <1>4, <1>5, <1>7, <1>8, CheckKeeps

\* A handler that changed the surfaces, written back.
LEMMA FullWritten ==
  ASSUME FocusTypes, NEW r, Full(r), Focus!SetAll(r), UNCHANGED <<win, hidden, asks, menu, sent, lock>>,
         events' \in 0..FocusEvents
  PROVE  FocusInv'
<1>1. /\ focused' = r.f /\ keyboard' = r.k /\ history' = r.h /\ dirty' = r.d
      /\ scheduled' = r.sch /\ layer' = r.lay /\ stack' = r.stk /\ closing' = r.cls
  BY DEF Focus!SetAll
<1>2. Good(r, win', layer', menu', lock') /\ Fit(scheduled', layer') BY <1>1 DEF Full
<1>3. FocusTypes' BY <1>1 DEF FocusTypes, Full, Fit
<1>4. Focus!Set(r) BY <1>1 DEF Focus!Set
<1> QED BY <1>2, <1>3, <1>4, FocusWritten

\* What such a handler starts from.
LEMMA FullRead ==
  ASSUME FocusInv
  PROVE  /\ FocusTypes /\ Full(Focus!All)
         /\ DOMAIN Focus!All = {"f", "k", "h", "d", "sch", "lay", "stk", "cls"}
<1>1. FocusTypes /\ Good(Focus!Now, win, layer, menu, lock) /\ Fit(scheduled, layer) BY FocusRead
<1>2. /\ Focus!All.f = focused /\ Focus!All.k = keyboard /\ Focus!All.h = history /\ Focus!All.d = dirty
      /\ Focus!All.sch = scheduled /\ Focus!All.lay = layer /\ Focus!All.stk = stack /\ Focus!All.cls = closing
      /\ DOMAIN Focus!All = {"f", "k", "h", "d", "sch", "lay", "stk", "cls"}
  BY DEF Focus!All
<1>3. Good(Focus!All, win, layer, menu, lock) BY <1>1, <1>2, FocusRead DEF Good
<1> QED BY <1>1, <1>2, <1>3 DEF Full, FocusTypes

\* A layer surface that unmaps is no longer what the seat focuses.
LEMMA UnmapLayerKeeps ==
  ASSUME FocusInv, NEW l \in Layers, Focus!UnmapLayer(l) \/ Focus!DestroyLayer(l), events' \in 0..FocusEvents
  PROVE  FocusInv'
<1>1. FocusTypes /\ Full(Focus!All) BY FullRead
<1>2. CASE Focus!UnmapLayer(l)
  <2>1. Full(Focus!Unmapped(Focus!All, l))
    <3> DEFINE b == Focus!All
    <3>1. Full(b) BY <1>1
    <3> HIDE DEF b
    <3>2. Full(Focus!Unmapped(b, l)) BY <1>1, <3>1, UnmappedFull
    <3> QED BY <3>2 DEF b
  <2>2. Focus!SetAll(Focus!Unmapped(Focus!All, l)) /\ UNCHANGED <<win, hidden, asks, menu, sent, lock>>
    BY <1>2 DEF Focus!UnmapLayer
  <2> QED BY <1>1, <2>1, <2>2, FullWritten
<1>3. CASE Focus!DestroyLayer(l)
  <2> DEFINE s == Focus!Destroyed(Focus!All, l)
             r == [s EXCEPT !.cls = @ \ {l}]
  <2>1. Full(s)
    <3> DEFINE b == Focus!All
    <3>1. Full(b) BY <1>1
    <3> HIDE DEF b
    <3>2. Full(Focus!Destroyed(b, l)) BY <1>1, <3>1, DestroyedFull
    <3> QED BY <3>2 DEF b
  <2>2. Focus!SetAll(r) /\ UNCHANGED <<win, hidden, asks, menu, sent, lock>>
    BY <1>3 DEF Focus!DestroyLayer
  <2> HIDE DEF s
  <2>3. /\ r.f = s.f /\ r.k = s.k /\ r.h = s.h /\ r.d = s.d /\ r.sch = s.sch /\ r.lay = s.lay /\ r.stk = s.stk
        /\ r.cls \subseteq Layers /\ DOMAIN r = DOMAIN s
    BY <2>1 DEF Full, Good
  <2> HIDE DEF r
  <2>4. Full(r) BY <2>1, <2>3 DEF Full, Good
  <2> QED BY <1>1, <2>2, <2>4, FullWritten
<1> QED BY <1>2, <1>3

\* An output that goes takes its layer surfaces with it.
LEMMA OutputGoneKeeps ==
  ASSUME FocusInv, Focus!OutputGone, events' \in 0..FocusEvents
  PROVE  FocusInv'
<1> DEFINE n == Focus!Now
           r == [n EXCEPT !.d = TRUE]
<1>1. /\ FocusTypes /\ Good(n, win, layer, menu, lock) /\ Fit(scheduled, layer)
      /\ n.f = focused /\ n.k = keyboard /\ n.h = history
  BY FocusRead
<1> HIDE DEF n
<1>2. /\ closing' \subseteq Layers /\ dirty' = TRUE
      /\ UNCHANGED <<win, hidden, layer, asks, stack, menu, focused, keyboard, scheduled, sent, history, lock>>
  BY DEF Focus!OutputGone
<1>3. FocusTypes' BY <1>1, <1>2 DEF FocusTypes
<1>4. Good(r, win', layer', menu', lock') BY <1>1, <1>2 DEF Good
<1>5. Focus!Set(r) BY <1>1, <1>2 DEF Focus!Set, Good
<1> HIDE DEF r
<1> QED BY <1>1, <1>2, <1>3, <1>4, <1>5, FocusWritten

\* Closing a layer surface that is too large keeps the focus sound.
LEMMA CloseOversizedKeeps ==
  ASSUME FocusInv, Focus!CloseOversized, events' \in 0..FocusEvents
  PROVE  FocusInv'
<1> DEFINE b == Focus!All
           base == [b EXCEPT !.cls = {}]
<1>1. FocusTypes /\ Full(b) BY FullRead
<1>2. PICK order \in [1..Focus!Cardinality(closing) -> closing] : Focus!SetAll(Closed(base, order))
  BY DEF Focus!CloseOversized, Closed
<1>3. UNCHANGED <<win, hidden, asks, menu, sent, lock>> BY DEF Focus!CloseOversized
<1> HIDE DEF b
<1>4. /\ base.f = b.f /\ base.k = b.k /\ base.h = b.h /\ base.d = b.d /\ base.sch = b.sch /\ base.lay = b.lay
      /\ base.stk = b.stk /\ base.cls = {} /\ DOMAIN base = DOMAIN b
  BY <1>1 DEF Full, Good
<1> HIDE DEF base
<1>5. Full(base) BY <1>1, <1>4 DEF Full, Good
<1>6. Focus!Cardinality(closing) \in Nat
  <2>1. closing \subseteq Layers BY <1>1 DEF FocusTypes
  <2>2. IsFiniteSet(closing) BY <2>1, WhoAssumption, FS_Subset
  <2>3. Cardinality(closing) \in Nat BY <2>2, FS_CardinalityType
  <2>4. Focus!Cardinality(closing) = Cardinality(closing) BY DEF Focus!Cardinality, Cardinality
  <2> QED BY <2>3, <2>4
<1>7. order \in [1..Focus!Cardinality(closing) -> Layers] BY <1>1 DEF FocusTypes
<1>8. Full(Closed(base, order)) BY <1>1, <1>5, <1>6, <1>7, ClosedFull
<1> QED BY <1>1, <1>2, <1>3, <1>8, FullWritten

\* An override-redirect menu that is created keeps the focus sound.
LEMMA NewMenuKeeps ==
  ASSUME FocusInv, NEW mn \in Menus, Focus!NewMenu(mn), events' \in 0..FocusEvents
  PROVE  FocusInv'
<1> DEFINE n == Focus!Now
<1>1. /\ FocusTypes /\ Good(n, win, layer, menu, lock) /\ Fit(scheduled, layer)
      /\ n.f = focused /\ n.k = keyboard /\ n.h = history /\ n.d = dirty
  BY FocusRead
<1> HIDE DEF n
<1>2. /\ menu[mn] = "out" /\ menu' = [menu EXCEPT ![mn] = "made"]
      /\ UNCHANGED <<win, hidden, layer, asks, stack, closing, focused, keyboard, scheduled, sent, history, lock, dirty>>
  BY DEF Focus!NewMenu
<1>3. FocusTypes' BY <1>1, <1>2 DEF FocusTypes
<1>4. \A x \in Menus : menu[x] = "mapped" => menu'[x] = "mapped" BY <1>1, <1>2 DEF FocusTypes
<1>5. Good(n, win', layer', menu', lock')
  <2>1. Good(n, win, layer, menu', lock) BY <1>1, <1>4, GoodStays
  <2> QED BY <1>2, <2>1
<1>6. Focus!Set(n) BY <1>1, <1>2 DEF Focus!Set
<1> QED BY <1>1, <1>2, <1>3, <1>5, <1>6, FocusWritten

\* A menu takes the keyboard from its own client's window, or the focus from nobody.
LEMMA MapMenuKeeps ==
  ASSUME FocusInv, NEW mn \in Menus, Focus!MapMenu(mn), events' \in 0..FocusEvents
  PROVE  FocusInv'
<1> DEFINE n == Focus!Now
           lent == [n EXCEPT !.k = mn]
           taken == [n EXCEPT !.f = mn, !.k = mn]
<1>1. /\ FocusTypes /\ Good(n, win, layer, menu, lock) /\ Fit(scheduled, layer) /\ n.f = focused
  BY FocusRead
<1> HIDE DEF n
<1>2. /\ menu' = [menu EXCEPT ![mn] = "mapped"]
      /\ UNCHANGED <<win, hidden, layer, asks, stack, closing, scheduled, sent, lock>>
      /\ \/ Focus!Set(n)
         \/ focused = XWindow /\ Focus!Set(lent)
         \/ Focus!Set(taken)
  BY DEF Focus!MapMenu, n
<1>3. FocusTypes' BY <1>1, <1>2 DEF FocusTypes
<1>4. menu'[mn] = "mapped" /\ \A x \in Menus : menu[x] = "mapped" => menu'[x] = "mapped"
  BY <1>1, <1>2 DEF FocusTypes
<1>5. Good(n, win', layer', menu', lock')
  <2>1. Good(n, win, layer, menu', lock) BY <1>1, <1>4, GoodStays
  <2> QED BY <1>2, <2>1
<1>6. mn \in Who /\ Alive(mn, win', layer', menu', lock') BY <1>4, WhoAssumption DEF Who, Alive
<1>7. Good(lent, win', layer', menu', lock') \/ focused # XWindow
  BY <1>1, <1>4, <1>5, <1>6 DEF Good, Follows
<1>8. Good(taken, win', layer', menu', lock') BY <1>5, <1>6 DEF Good, Follows
<1> HIDE DEF lent, taken
<1> QED BY <1>1, <1>2, <1>3, <1>5, <1>7, <1>8, FocusWritten

\* Once a menu dropped the focus it does not have it.
LEMMA DropFocusGives ==
  ASSUME FocusInv, NEW mn \in Menus
  PROVE  Good(Focus!DropFocus(mn), win, layer, menu, lock) /\ Focus!DropFocus(mn).f # mn
<1> DEFINE n == Focus!Now
<1>1. FocusTypes /\ Good(n, win, layer, menu, lock) /\ n.f = focused BY FocusRead
<1>2. Focus!DropFocus(mn) = IF focused = mn THEN Focus!Focus(n, None) ELSE n BY DEF Focus!DropFocus
<1> HIDE DEF n
<1>3. None \in Who /\ None \notin Layers /\ Alive(None, win, layer, menu, lock) /\ None # mn
  BY WhoAssumption DEF Who, Alive
<1>4. LET r == Focus!Focus(n, None) IN Good(r, win, layer, menu, lock) /\ r.f = None
  BY <1>1, <1>3, FocusGives
<1> QED BY <1>1, <1>2, <1>3, <1>4

\* The keyboard goes back to the window it was borrowed from.
LEMMA MenuGoneKeeps ==
  ASSUME FocusInv, NEW mn \in Menus, Focus!UnmapMenu(mn) \/ Focus!DestroyMenu(mn), events' \in 0..FocusEvents
  PROVE  FocusInv'
<1> DEFINE s == Focus!DropFocus(mn)
           back == [s EXCEPT !.k = IF s.f = XWindow /\ @ = mn THEN XWindow ELSE @, !.d = TRUE]
<1>1. /\ FocusTypes /\ Fit(scheduled, layer)
  BY FocusRead
<1>2. Good(s, win, layer, menu, lock) /\ s.f # mn BY DropFocusGives
<1>3. /\ \/ menu[mn] = "mapped" /\ menu' = [menu EXCEPT ![mn] = "made"] /\ Focus!Set(back)
         \/ menu[mn] = "made" /\ menu' = [menu EXCEPT ![mn] = "out"] /\ Focus!Set(s)
      /\ UNCHANGED <<win, hidden, layer, asks, stack, closing, scheduled, sent, lock>>
  BY DEF Focus!UnmapMenu, Focus!DestroyMenu
<1> HIDE DEF s
<1>4. FocusTypes' BY <1>1, <1>3 DEF FocusTypes
<1>5. \A x \in Menus : x # mn => menu'[x] = menu[x] BY <1>1, <1>3 DEF FocusTypes
<1>6. CASE menu[mn] = "mapped"
  <2>1. Focus!Set(back) BY <1>3, <1>6
  <2>2. /\ back.f = s.f /\ back.k = (IF s.f = XWindow /\ s.k = mn THEN XWindow ELSE s.k)
        /\ back.h = s.h /\ back.d = TRUE /\ DOMAIN back = DOMAIN s
    BY <1>2 DEF Good
  <2>3. Alive(s.f, win', layer', menu', lock') BY <1>2, <1>3, <1>5 DEF Good, Alive
  <2>4. back.k \in Who BY <1>2, <2>2, WhoAssumption DEF Good, Who
  <2>5. Follows(back.k, s.f, menu') BY <1>2, <1>5, <2>2 DEF Good, Follows
  <2> HIDE DEF back
  <2>6. Good(back, win', layer', menu', lock') BY <1>2, <2>2, <2>3, <2>4, <2>5 DEF Good
  <2> QED BY <1>1, <1>3, <1>4, <2>1, <2>6, FocusWritten
<1>7. CASE menu[mn] # "mapped"
  <2>1. Focus!Set(s) BY <1>3, <1>7
  <2>2. Good(s, win', layer', menu', lock') BY <1>2, <1>3, <1>5, <1>7 DEF Good, Alive, Follows
  <2> QED BY <1>1, <1>3, <1>4, <2>1, <2>2, FocusWritten
<1> QED BY <1>6, <1>7

\* Locking and unlocking the session keep the focus sound.
LEMMA LockKeeps ==
  ASSUME FocusInv, Focus!LockUp \/ Focus!LockSurface \/ Focus!Unlock, events' \in 0..FocusEvents
  PROVE  FocusInv'
<1> DEFINE n == Focus!Now
           none == Focus!Focus(n, None)
           free == [none EXCEPT !.d = TRUE]
           shut == [n EXCEPT !.f = "lock", !.k = "lock"]
<1>1. /\ FocusTypes /\ Good(n, win, layer, menu, lock) /\ Fit(scheduled, layer)
  BY FocusRead
<1> HIDE DEF n
<1>2. /\ \/ lock' \in {"unlocked", "locked"} /\ (Focus!Set(none) \/ Focus!Set(free))
         \/ lock' = "shown" /\ Focus!Set(shut)
      /\ UNCHANGED <<win, hidden, layer, asks, stack, closing, menu, scheduled, sent>>
  BY DEF Focus!LockUp, Focus!LockSurface, Focus!Unlock, n
<1>3. FocusTypes' BY <1>1, <1>2 DEF FocusTypes
<1>4. None \in Who /\ None \notin Layers /\ Alive(None, win, layer, menu, lock)
  BY WhoAssumption DEF Who, Alive
<1>5. Good(none, win, layer, menu, lock) /\ none.f = None
  BY <1>1, <1>4, FocusGives
<1> HIDE DEF none
<1>6. Good(none, win', layer', menu', lock')
  BY <1>2, <1>5, WhoAssumption DEF Good, Alive, Follows
<1>7. Good(free, win', layer', menu', lock') BY <1>6 DEF Good
<1>8. lock' = "shown" => Good(shut, win', layer', menu', lock')
  BY <1>1, WhoAssumption DEF Good, Alive, Follows, Who
<1> HIDE DEF free, shut
<1> QED BY <1>1, <1>2, <1>3, <1>6, <1>7, <1>8, FocusWritten

\* A manage pass gives the keyboard to the surface scheduled, which is mapped.
LEMMA ManagePassKeeps ==
  ASSUME FocusInv, NEW big, Focus!ManagePass(big), events' \in 0..FocusEvents
  PROVE  FocusInv'
<1> DEFINE n == Focus!Now
           re == Focus!Refocused
           key == scheduled.key
           s == IF key = None THEN re ELSE Focus!Focus(re, key)
           idle == [re EXCEPT !.d = FALSE]
           again == [re EXCEPT !.d = TRUE]
           done == [s EXCEPT !.d = FALSE]
<1>1. /\ FocusTypes /\ Good(n, win, layer, menu, lock) /\ Fit(scheduled, layer) /\ key \in Layers \cup {None}
  BY FocusRead
<1>2. re = IF focused \in Toplevels /\ ~Focus!Visible(focused) THEN Focus!FocusNext(n) ELSE n
  BY DEF Focus!Refocused
<1>3. /\ big \subseteq Layers /\ closing' = closing \cup big /\ sent' = scheduled
      /\ \/ Focus!Set(idle) /\ UNCHANGED scheduled
         \/ Focus!Set(again) /\ scheduled' = Focus!Nobody
         \/ Focus!Set(done) /\ UNCHANGED scheduled
      /\ UNCHANGED <<win, hidden, layer, asks, stack, menu, lock>>
  BY DEF Focus!ManagePass, Focus!Arranged, Focus!TakeUp
<1> HIDE DEF n
<1>4. Good(re, win, layer, menu, lock) BY <1>1, <1>2, FocusNextGives
<1> HIDE DEF re
<1>5. Good(s, win, layer, menu, lock)
  <2>1. CASE key = None BY <1>4, <2>1
  <2>2. CASE key # None
    <3>1. key \in Who /\ Alive(key, win, layer, menu, lock)
      BY <1>1, <2>2, WhoAssumption DEF Who, Alive, Fit
    <3> HIDE DEF key
    <3>2. LET r == Focus!Focus(re, key) IN Good(r, win, layer, menu, lock) BY <1>1, <1>4, <3>1, FocusGives
    <3> QED BY <2>2, <3>2
  <2> QED BY <2>1, <2>2
<1> HIDE DEF s
<1>6. /\ Good(idle, win, layer, menu, lock) /\ Good(again, win, layer, menu, lock)
      /\ Good(done, win, layer, menu, lock)
  BY <1>4, <1>5 DEF Good
<1>7. Fit(scheduled', layer')
  <2>1. Fit(Focus!Nobody, layer) BY DEF Fit, Focus!Nobody, Focus!Schedules
  <2> QED BY <1>1, <1>3, <2>1
<1>8. FocusTypes' BY <1>1, <1>3, <1>7 DEF FocusTypes, Fit
<1> HIDE DEF idle, again, done
<1> QED BY <1>3, <1>6, <1>7, <1>8, FocusWritten

\* The focus goes to none but the living, whatever comes.
LEMMA FocusInvInit ==
  ASSUME Focus!Init, FocusEvents \in Nat
  PROVE  FocusInv
<1>1. /\ win = [w \in Toplevels |-> "out"] /\ hidden = {}
      /\ layer = [l \in Layers |-> "out"] /\ asks = [l \in Layers |-> "none"]
      /\ stack = <<>> /\ closing = {} /\ menu = [mn \in Menus |-> "out"]
      /\ focused = None /\ keyboard = None /\ scheduled = Focus!Nobody /\ sent = Focus!Nobody
      /\ history = <<>> /\ lock = "unlocked" /\ dirty = FALSE /\ events = 0
  BY DEF Focus!Init
<1>2. <<>> \in Seq(Layers) /\ <<>> \in Seq(Toplevels) /\ 0 \in 0..FocusEvents OBVIOUS
<1>3. FocusTypes BY <1>1, <1>2 DEF FocusTypes, Focus!Schedules
<1>4. Good(Focus!Now, win, layer, menu, lock)
  BY <1>1, <1>2, WhoAssumption DEF Good, Focus!Now, Alive, Follows, Who
<1>5. Focus!ScheduledIsLive BY <1>1 DEF Focus!ScheduledIsLive, Focus!Nobody
<1> QED BY <1>3, <1>4, <1>5 DEF FocusInv

\* Every step of SeatFocus keeps FocusInv: one case per action.
LEMMA FocusInvStep ==
  ASSUME FocusInv, Focus!Next, FocusEvents \in Nat
  PROVE  FocusInv'
<1>1. events \in 0..FocusEvents BY DEF FocusInv, FocusTypes
<1>2. CASE events < FocusEvents /\ events' = events + 1 /\ Focus!Client
  <2>1. events' \in 0..FocusEvents BY <1>1, <1>2
  <2>2. ASSUME NEW w \in Toplevels, \E should \in BOOLEAN : Focus!MapWindow(w, should) PROVE FocusInv'
    BY <2>1, <2>2, MapWindowKeeps
  <2>3. ASSUME NEW w \in Toplevels, Focus!UnmapWindow(w) \/ Focus!Minimize(w) PROVE FocusInv'
    BY <2>1, <2>3, UnmapWindowKeeps
  <2>4. ASSUME NEW w \in Toplevels, \E a \in BOOLEAN : Focus!FocusWindow(w, a) PROVE FocusInv'
    BY <2>1, <2>4, FocusWindowKeeps
  <2>5. ASSUME NEW x \in Toplevels \cup Layers \cup {None}, Focus!Click(x) PROVE FocusInv'
    BY <2>1, <2>5, ClickKeeps
  <2>6. ASSUME NEW l \in Layers, NEW ask \in {"none", "on_demand", "exclusive"}, Focus!NewLayer(l, ask)
        PROVE FocusInv'
    BY <2>1, <2>6, NewLayerKeeps
  <2>7. ASSUME NEW l \in Layers, NEW ask \in {"none", "on_demand", "exclusive"},
               \E big \in {{}, {l}} : Focus!CommitLayer(l, ask, big)
        PROVE FocusInv'
    BY <2>1, <2>7, CommitLayerKeeps
  <2>8. ASSUME NEW l \in Layers, \E big \in {{}, {l}} : Focus!MapLayer(l, big) PROVE FocusInv'
    BY <2>1, <2>8, MapLayerKeeps
  <2>9. ASSUME NEW l \in Layers, Focus!UnmapLayer(l) \/ Focus!DestroyLayer(l) PROVE FocusInv'
    BY <2>1, <2>9, UnmapLayerKeeps
  <2>10. ASSUME NEW mn \in Menus, Focus!NewMenu(mn) PROVE FocusInv'
    BY <2>1, <2>10, NewMenuKeeps
  <2>11. ASSUME NEW mn \in Menus, Focus!MapMenu(mn) PROVE FocusInv'
    BY <2>1, <2>11, MapMenuKeeps
  <2>12. ASSUME NEW mn \in Menus, Focus!UnmapMenu(mn) \/ Focus!DestroyMenu(mn) PROVE FocusInv'
    BY <2>1, <2>12, MenuGoneKeeps
  <2>13. ASSUME Focus!OutputGone PROVE FocusInv'
    BY <2>1, <2>13, OutputGoneKeeps
  <2>14. ASSUME Focus!LockUp \/ Focus!LockSurface \/ Focus!Unlock PROVE FocusInv'
    BY <2>1, <2>14, LockKeeps
  <2> QED
    BY <1>2, <2>2, <2>3, <2>4, <2>5, <2>6, <2>7, <2>8, <2>9, <2>10, <2>11, <2>12, <2>13, <2>14 DEF Focus!Client
<1>3. CASE /\ UNCHANGED events
           /\ \/ \E w \in Toplevels : Focus!DestroyWindow(w)
              \/ Focus!CloseOversized
              \/ \E big \in {{}, Layers \cap Focus!Range(stack)} : Focus!ManagePass(big)
  <2>1. events' \in 0..FocusEvents BY <1>1, <1>3
  <2>2. ASSUME NEW w \in Toplevels, Focus!DestroyWindow(w) PROVE FocusInv'
    BY <2>1, <2>2, DestroyWindowKeeps
  <2>3. ASSUME Focus!CloseOversized PROVE FocusInv' BY <2>1, <2>3, CloseOversizedKeeps
  <2>4. ASSUME NEW big, Focus!ManagePass(big) PROVE FocusInv' BY <2>1, <2>4, ManagePassKeeps
  <2> QED BY <1>3, <2>2, <2>3, <2>4
<1> QED BY <1>2, <1>3 DEF Focus!Next

\* FocusInv reads the variables of SeatFocus alone.
LEMMA FocusInvStutter ==
  ASSUME FocusInv, UNCHANGED focusVars
  PROVE  FocusInv'
BY DEF FocusInv, FocusTypes, Focus!ScheduledIsLive, Focus!Now, focusVars

\* What the invariant says of the focus.
LEMMA FocusInvSays ==
  ASSUME FocusInv
  PROVE  Focus!TypeOK /\ Focus!FocusIsAlive /\ Focus!KeyboardFollowsFocus /\ Focus!ScheduledIsLive
<1>1. /\ FocusTypes /\ Good(Focus!Now, win, layer, menu, lock) /\ Focus!Now.f = focused
      /\ Focus!Now.k = keyboard /\ Focus!Now.h = history /\ Focus!Now.d = dirty
  BY FocusRead
<1>2. focused \in Who /\ Alive(focused, win, layer, menu, lock) BY <1>1 DEF Good
<1>3. Focus!Live(focused) BY <1>1, <1>2, AliveIsLive
<1>4. Focus!Range(stack) \subseteq Layers /\ Focus!Range(history) \subseteq Toplevels
  BY <1>1 DEF FocusTypes, Good, Focus!Range
<1>5. Focus!TypeOK BY <1>1, <1>4 DEF Focus!TypeOK, FocusTypes, Good, Who
<1>6. Focus!KeyboardFollowsFocus BY <1>1 DEF Good, Follows, Focus!KeyboardFollowsFocus
<1> QED BY <1>2, <1>3, <1>5, <1>6 DEF FocusInv, Focus!FocusIsAlive, Alive

-----------------------------------------------------------------------------
(* Switching windows (Switcher).                                           *)

AllIds == WindowSlots \X Nat
UpIds == Switch!Ids("up")
LiveIds == Switch!Ids("up") \cup Switch!Ids("low")

\* The lists name the windows there are, each once.
WinInv ==
    /\ sWin \in [WindowSlots -> [gen : Nat \ {0}, st : {"up", "low", "gone"}]]
    /\ sStack \in Seq(AllIds) /\ Distinct(sStack) /\ Elems(sStack) = LiveIds
    /\ drawn \in Seq(AllIds) /\ Distinct(drawn) /\ Elems(drawn) = LiveIds
    /\ recent \in Seq(AllIds) /\ Distinct(recent) /\ Elems(recent) \subseteq LiveIds
    /\ sFocused \in LiveIds \cup {None}

\* A chooser still up or asked points at a line it has.
ChooserOK(c) ==
    /\ c.st \in {"up", "asked", "done", "reaped"}
    /\ c.rows \in Seq(AllIds)
    /\ c.st \in {"up", "asked"} => c.at \in 0..(Len(c.rows) - 1)
    /\ c.got \in Elems(c.rows) \cup {None}
    /\ c.st = "up" /\ Len(c.rows) > 1 /\ c.from # None => c.rows[c.at + 1] # c.from

ShownInv ==
    /\ sActive \in 0..Len(shown)
    /\ shown \in Seq([st : {"up", "asked", "done", "reaped"}, rows : Seq(AllIds), at : Nat,
                      from : AllIds \cup {None}, got : AllIds \cup {None}])
    /\ \A i \in DOMAIN shown : ChooserOK(shown[i])
    /\ Switch!OneChooser

\* Where a list takes one around: p2 is the next place after p1.
Around(n, p1, p2) == p2 = IF p1 = n THEN 1 ELSE p1 + 1

\* Places in the cycle's order for the windows of a walk: the last is the focused one,
\* and a walk of less than a round comes to no place twice.
Places(P, n, ws, order) ==
    /\ P \in [1..Len(ws) -> 1..n]
    /\ \A i \in 1..Len(ws) : ws[i] = order[P[i]] \/ (i = 1 /\ i # Len(ws) /\ ws[i] \notin Elems(order))
    /\ \A i, j \in 1..Len(ws) : i < j /\ j - i < n => P[j] - P[i] \in {j - i, j - i - n}

WalkInv ==
    /\ cycle.order \in Seq(AllIds) /\ Distinct(cycle.order)
    /\ walk \in Seq(AllIds \cup {None})
    /\ walk # <<>> =>
          /\ Elems(cycle.order) = UpIds
          /\ Switch!InFocus = cycle.landed /\ walk[Len(walk)] = cycle.landed
          /\ \E P \in [1..Len(walk) -> 1..Len(cycle.order)] : Places(P, Len(cycle.order), walk, cycle.order)

SwitchInv == WinInv /\ ShownInv /\ WalkInv

\* The windows there are, as ids.
LEMMA IdsAre ==
  ASSUME WinInv
  PROVE  /\ UpIds \subseteq LiveIds /\ LiveIds \subseteq AllIds
         /\ LiveIds = {<<s, sWin[s].gen>> : s \in {u \in WindowSlots : sWin[u].st # "gone"}}
         /\ UpIds = {<<s, sWin[s].gen>> : s \in {u \in WindowSlots : sWin[u].st = "up"}}
         /\ UpIds \cap Switch!Ids("low") = {}
         /\ None \notin AllIds
<1>1. \A s \in WindowSlots : sWin[s].gen \in Nat /\ sWin[s].st \in {"up", "low", "gone"} BY DEF WinInv
<1>2. /\ Switch!Ids("up") = {<<s, sWin[s].gen>> : s \in {u \in WindowSlots : sWin[u].st = "up"}}
      /\ Switch!Ids("low") = {<<s, sWin[s].gen>> : s \in {u \in WindowSlots : sWin[u].st = "low"}}
  BY DEF Switch!Ids, Switch!Now
<1> QED BY <1>1, <1>2, SlotAssumption DEF UpIds, LiveIds, AllIds

\* The module's own lists are those of Lists.
LEMMA SwitchLists ==
  ASSUME NEW l, NEW S, NEW x
  PROVE  /\ Switch!Only(l, S) = Only(l, S)
         /\ Switch!Drop(l, x) = Only(l, Elems(l) \ {x})
         /\ Switch!ToSet(l) = Elems(l)
         /\ Switch!ToFront(l, x) = <<x>> \o Only(l, Elems(l) \ {x})
BY DEF Switch!Only, Switch!Drop, Switch!ToSet, Switch!ToFront, Only, Elems

\* Raising one keeps a list a list of the same, and it.
LEMMA FrontKeeps ==
  ASSUME NEW E, NEW l \in Seq(E), Distinct(l), NEW x \in E
  PROVE  LET r == Switch!ToFront(l, x) IN
           r \in Seq(E) /\ Distinct(r) /\ Elems(r) = Elems(l) \cup {x} /\ r[1] = x
<1> DEFINE k == Only(l, Elems(l) \ {x})
<1>1. k \in Seq(E) /\ Distinct(k) /\ Elems(k) = Elems(l) \ {x} BY OnlyHolds
<1>2. Switch!ToFront(l, x) = <<x>> \o k BY SwitchLists
<1> HIDE DEF k
<1> QED BY <1>1, <1>2, FrontHolds

\* Dropping a window from the order drops its slot from the ids.
LEMMA DropIds ==
  ASSUME NEW E, NEW l \in Seq(E), Distinct(l), NEW x
  PROVE  LET r == Switch!Drop(l, x) IN r \in Seq(E) /\ Distinct(r) /\ Elems(r) = Elems(l) \ {x}
<1>1. Switch!Drop(l, x) = Only(l, Elems(l) \ {x}) BY SwitchLists
<1> QED BY <1>1, OnlyHolds

\* The two planes hold what the list held.
LEMMA PlanesHold ==
  ASSUME NEW E, NEW l \in Seq(E), Distinct(l)
  PROVE  LET r == Switch!Planes(l) IN r \in Seq(E) /\ Distinct(r) /\ Elems(r) = Elems(l)
<1> DEFINE below == {id \in Elems(l) : id[1] \in Tiled}
           up == Only(l, Elems(l) \ below)
           low == Only(l, below)
<1>1. Switch!Planes(l) = up \o low
  <2>1. Switch!ToSet(l) = Elems(l) BY SwitchLists
  <2>2. Switch!Planes(l) = Switch!Only(l, Elems(l) \ below) \o Switch!Only(l, below) BY <2>1 DEF Switch!Planes
  <2> HIDE DEF below
  <2> QED BY <2>2, SwitchLists
<1>2. below \subseteq Elems(l) OBVIOUS
<1> HIDE DEF below
<1>3. /\ up \in Seq(E) /\ Distinct(up) /\ Elems(up) = Elems(l) \ below
      /\ low \in Seq(E) /\ Distinct(low) /\ Elems(low) = below
  <2> DEFINE above == Elems(l) \ below
  <2>1. Elems(l) \cap above = above /\ Elems(l) \cap below = below BY <1>2
  <2>2. up \in Seq(E) /\ Distinct(up) /\ Elems(up) = Elems(l) \cap above
    <3> HIDE DEF above
    <3>1. up = Only(l, above) BY DEF above
    <3> HIDE DEF up
    <3> QED BY <3>1, OnlyHolds
  <2>3. low \in Seq(E) /\ Distinct(low) /\ Elems(low) = Elems(l) \cap below BY OnlyHolds
  <2> HIDE DEF up, low
  <2> QED BY <2>1, <2>2, <2>3
<1> HIDE DEF up, low
<1>4. Elems(up) \cap Elems(low) = {} /\ Elems(up) \cup Elems(low) = Elems(l) BY <1>2, <1>3
<1>5. up \o low \in Seq(E) /\ Distinct(up \o low) /\ Elems(up \o low) = Elems(l)
  BY <1>3, <1>4, BothHold
<1> QED BY <1>1, <1>5

\* The ids of the windows in some states.
IdsOf(w, S) == {<<s, w[s].gen>> : s \in {u \in WindowSlots : w[u].st \in S}}

\* The ids the order has after a step are those of the order then.
LEMMA IdsAreOf ==
  /\ UpIds = IdsOf(sWin, {"up"}) /\ LiveIds = IdsOf(sWin, {"up", "low"})
  /\ UpIds' = IdsOf(sWin', {"up"}) /\ LiveIds' = IdsOf(sWin', {"up", "low"})
<1>1. UpIds = IdsOf(sWin, {"up"}) BY DEF UpIds, IdsOf, Switch!Ids, Switch!Now
<1>2. LiveIds = IdsOf(sWin, {"up", "low"}) BY DEF LiveIds, IdsOf, Switch!Ids, Switch!Now
<1>3. UpIds' = IdsOf(sWin', {"up"}) BY DEF UpIds, IdsOf, Switch!Ids, Switch!Now
<1>4. LiveIds' = IdsOf(sWin', {"up", "low"}) BY DEF LiveIds, IdsOf, Switch!Ids, Switch!Now
<1> QED BY <1>1, <1>2, <1>3, <1>4

WinStates == [WindowSlots -> [gen : Nat \ {0}, st : {"up", "low", "gone"}]]

\* A window there is gets the focus: it is raised and remembered, once.
LEMMA RaisedWin ==
  ASSUME WinInv, NEW id \in LiveIds, sWin' \in WinStates, LiveIds' = LiveIds, drawn' = drawn,
         Switch!Focus(id)
  PROVE  WinInv'
<1>1. sFocused' = id /\ sStack' = Switch!ToFront(sStack, id) /\ recent' = Switch!ToFront(recent, id)
  BY DEF Switch!Focus
<1>2. id \in AllIds BY IdsAre
<1>3. /\ sStack' \in Seq(AllIds) /\ Distinct(sStack') /\ Elems(sStack') = LiveIds \cup {id}
      /\ recent' \in Seq(AllIds) /\ Distinct(recent') /\ Elems(recent') \subseteq LiveIds \cup {id}
  <2>1. sStack \in Seq(AllIds) /\ Distinct(sStack) /\ Elems(sStack) = LiveIds BY DEF WinInv
  <2>2. recent \in Seq(AllIds) /\ Distinct(recent) /\ Elems(recent) \subseteq LiveIds BY DEF WinInv
  <2>3. sStack' \in Seq(AllIds) /\ Distinct(sStack') /\ Elems(sStack') = Elems(sStack) \cup {id}
    BY <1>1, <1>2, <2>1, FrontKeeps
  <2>4. recent' \in Seq(AllIds) /\ Distinct(recent') /\ Elems(recent') = Elems(recent) \cup {id}
    BY <1>1, <1>2, <2>2, FrontKeeps
  <2> QED BY <2>1, <2>2, <2>3, <2>4
<1>4. drawn \in Seq(AllIds) /\ Distinct(drawn) /\ Elems(drawn) = LiveIds BY DEF WinInv
<1>5. LiveIds \cup {id} = LiveIds OBVIOUS
<1> QED BY <1>1, <1>3, <1>4, <1>5 DEF WinInv, WinStates

\* focus_next_visible_window gives one of those that show, or none.
LEMMA NextIsUp ==
  ASSUME WinInv, NEW rest, NEW next \in Switch!NextVisible(rest)
  PROVE  next \in rest \cup {None}
<1> DEFINE up == Only(recent, rest)
<1>1. Switch!NextVisible(rest) = IF up # <<>> THEN {up[1]} ELSE IF rest # {} THEN rest ELSE {None}
  BY SwitchLists DEF Switch!NextVisible
<1>2. up \in Seq(AllIds) /\ Elems(up) \subseteq rest
  <2>1. recent \in Seq(AllIds) BY DEF WinInv
  <2> QED BY <2>1, OnlyHolds
<1> HIDE DEF up
<1>3. up # <<>> => up[1] \in Elems(up)
  <2>1. up # <<>> => 1 \in DOMAIN up BY <1>2
  <2> QED BY <2>1 DEF Elems
<1> QED BY <1>1, <1>2, <1>3

\* A window is minimized or comes back: the windows are the same.
LEMMA SameWindows ==
  ASSUME WinInv, NEW s \in WindowSlots, sWin[s].st # "gone", NEW state \in {"up", "low"},
         sWin' = [sWin EXCEPT ![s].st = state]
  PROVE  sWin' \in WinStates /\ LiveIds' = LiveIds
<1>1. sWin \in WinStates BY DEF WinInv, WinStates
<1>2. sWin' \in WinStates BY <1>1 DEF WinStates
<1>3. \A u \in WindowSlots : sWin'[u].gen = sWin[u].gen /\ (sWin'[u].st \in {"up", "low"} <=> sWin[u].st \in {"up", "low"})
  BY <1>1 DEF WinStates
<1>4. IdsOf(sWin', {"up", "low"}) = IdsOf(sWin, {"up", "low"}) BY <1>3 DEF IdsOf
<1> QED BY <1>2, <1>4, IdsAreOf

\* Drawing a frame keeps WinInv.
LEMMA DrawKeepsWin ==
  ASSUME WinInv, Switch!Draw
  PROVE  WinInv'
<1>1. drawn' = Switch!Planes(sStack) /\ UNCHANGED <<sWin, sStack, recent, sFocused>> BY DEF Switch!Draw
<1>2. sStack \in Seq(AllIds) /\ Distinct(sStack) /\ Elems(sStack) = LiveIds BY DEF WinInv
<1>3. drawn' \in Seq(AllIds) /\ Distinct(drawn') /\ Elems(drawn') = LiveIds BY <1>1, <1>2, PlanesHold
<1>4. LiveIds' = LiveIds BY <1>1, IdsAreOf
<1> QED BY <1>1, <1>3, <1>4 DEF WinInv

\* So does a window chosen by a click or a command.
LEMMA ChooseKeepsWin ==
  ASSUME WinInv, Switch!Choose
  PROVE  WinInv'
<1>1. PICK id \in UpIds : Switch!Focus(id) BY DEF Switch!Choose, UpIds
<1>2. UNCHANGED <<sWin, drawn>> BY DEF Switch!Choose
<1>3. LiveIds' = LiveIds /\ sWin' \in WinStates BY <1>2, IdsAreOf DEF WinInv, WinStates
<1> QED BY <1>1, <1>2, <1>3, IdsAre, RaisedWin

\* So does minimizing the focused window, which hands the focus on.
LEMMA MinimizeKeepsWin ==
  ASSUME WinInv, Switch!Minimize
  PROVE  WinInv'
<1>1. sFocused \in UpIds /\ sWin' = [sWin EXCEPT ![sFocused[1]].st = "low"] /\ drawn' = drawn
  BY DEF Switch!Minimize, UpIds
<1>2. PICK next \in Switch!NextVisible(UpIds \ {sFocused}) :
        IF next # None THEN Switch!Focus(next) ELSE sFocused' = None /\ UNCHANGED <<sStack, recent>>
  BY DEF Switch!Minimize, UpIds
<1>3. PICK s \in WindowSlots : sFocused = <<s, sWin[s].gen>> /\ sWin[s].st = "up"
  BY <1>1, IdsAreOf DEF IdsOf
<1>4. sFocused[1] = s BY <1>3
<1>5. sWin' \in WinStates /\ LiveIds' = LiveIds
  <2>1. sWin' = [sWin EXCEPT ![s].st = "low"] BY <1>1, <1>4
  <2> QED BY <1>3, <2>1, SameWindows
<1>6. next \in UpIds \cup {None} BY NextIsUp
<1>7. CASE next # None
  <2>1. next \in LiveIds BY <1>6, <1>7, IdsAre
  <2> QED BY <1>1, <1>2, <1>5, <1>7, <2>1, RaisedWin
<1>8. CASE next = None
  <2>1. sFocused' = None /\ UNCHANGED <<sStack, recent>> BY <1>2, <1>8
  <2> QED BY <1>1, <1>5, <2>1 DEF WinInv, WinStates
<1> QED BY <1>7, <1>8

\* And closing one, whose id leaves the order with it.
LEMMA CloseKeepsWin ==
  ASSUME WinInv, NEW s \in WindowSlots, Switch!Close(s)
  PROVE  WinInv'
<1> DEFINE id == <<s, sWin[s].gen>>
<1>1. /\ sWin[s].st # "gone" /\ sWin' = [sWin EXCEPT ![s].st = "gone"] /\ drawn' = Switch!Drop(drawn, id)
      /\ IF sFocused # id
         THEN sStack' = Switch!Drop(sStack, id) /\ recent' = Switch!Drop(recent, id) /\ UNCHANGED sFocused
         ELSE \E next \in Switch!NextVisible(UpIds \ {sFocused}) :
                /\ sFocused' = next
                /\ sStack' = (IF next = None THEN Switch!Drop(sStack, sFocused)
                              ELSE Switch!ToFront(Switch!Drop(sStack, sFocused), next))
                /\ recent' = (IF next = None THEN Switch!Drop(recent, sFocused)
                              ELSE Switch!ToFront(Switch!Drop(recent, sFocused), next))
  BY DEF Switch!Close, Switch!Now, UpIds
<1>2. sWin \in WinStates BY DEF WinInv, WinStates
<1>3. sWin' \in WinStates BY <1>1, <1>2 DEF WinStates
<1>4. LiveIds' = LiveIds \ {id}
  <2>1. \A u \in WindowSlots : /\ sWin'[u].gen = sWin[u].gen
                               /\ sWin'[u].st \in {"up", "low"} <=> u # s /\ sWin[u].st \in {"up", "low"}
    BY <1>1, <1>2 DEF WinStates
  <2>2. IdsOf(sWin', {"up", "low"}) = IdsOf(sWin, {"up", "low"}) \ {id} BY <2>1 DEF IdsOf
  <2> QED BY <2>2, IdsAreOf
<1> HIDE DEF id
<1>5. /\ sStack \in Seq(AllIds) /\ Distinct(sStack) /\ Elems(sStack) = LiveIds
      /\ drawn \in Seq(AllIds) /\ Distinct(drawn) /\ Elems(drawn) = LiveIds
      /\ recent \in Seq(AllIds) /\ Distinct(recent) /\ Elems(recent) \subseteq LiveIds
      /\ sFocused \in LiveIds \cup {None}
  BY DEF WinInv
<1>6. drawn' \in Seq(AllIds) /\ Distinct(drawn') /\ Elems(drawn') = LiveIds'
  BY <1>1, <1>4, <1>5, DropIds
<1> DEFINE k == Switch!Drop(sStack, id)
           r == Switch!Drop(recent, id)
<1>7. k \in Seq(AllIds) /\ Distinct(k) /\ Elems(k) = LiveIds' BY <1>4, <1>5, DropIds
<1>8. r \in Seq(AllIds) /\ Distinct(r) /\ Elems(r) \subseteq LiveIds'
  <2>1. r \in Seq(AllIds) /\ Distinct(r) /\ Elems(r) = Elems(recent) \ {id} BY <1>5, DropIds
  <2> HIDE DEF r
  <2> QED BY <1>4, <1>5, <2>1
<1>9. CASE sFocused # id
  <2>1. sStack' = k /\ recent' = r /\ sFocused' = sFocused BY <1>1, <1>9
  <2>2. sFocused' \in LiveIds' \cup {None} BY <1>4, <1>5, <1>9, <2>1
  <2> HIDE DEF k, r
  <2> QED BY <1>3, <1>6, <1>7, <1>8, <2>1, <2>2 DEF WinInv, WinStates
<1>10. CASE sFocused = id
  <2>1. PICK next \in Switch!NextVisible(UpIds \ {id}) :
          /\ sFocused' = next
          /\ sStack' = IF next = None THEN k ELSE Switch!ToFront(k, next)
          /\ recent' = IF next = None THEN r ELSE Switch!ToFront(r, next)
    BY <1>1, <1>10
  <2> HIDE DEF k, r
  <2>2. next \in (UpIds \ {id}) \cup {None} BY NextIsUp
  <2>3. CASE next = None BY <1>3, <1>6, <1>7, <1>8, <2>1, <2>3 DEF WinInv, WinStates
  <2>4. CASE next # None
    <3>1. next \in LiveIds' /\ next \in AllIds BY <1>4, <2>2, <2>4, IdsAre
    <3>2. sStack' \in Seq(AllIds) /\ Distinct(sStack') /\ Elems(sStack') = Elems(k) \cup {next}
      BY <1>7, <2>1, <2>4, <3>1, FrontKeeps
    <3>3. recent' \in Seq(AllIds) /\ Distinct(recent') /\ Elems(recent') = Elems(r) \cup {next}
      BY <1>8, <2>1, <2>4, <3>1, FrontKeeps
    <3>4. Elems(sStack') = LiveIds' /\ Elems(recent') \subseteq LiveIds' BY <1>7, <1>8, <3>1, <3>2, <3>3
    <3> QED BY <1>3, <1>6, <2>1, <3>1, <3>2, <3>3, <3>4 DEF WinInv, WinStates
  <2> QED BY <2>3, <2>4
<1> QED BY <1>9, <1>10

\* A new window is new to every list, though its slot be an old one.
LEMMA OpenKeepsWin ==
  ASSUME WinInv, NEW s \in WindowSlots, Switch!Open(s)
  PROVE  WinInv'
<1> DEFINE id == <<s, sWin[s].gen + 1>>
<1>1. /\ sWin[s].st = "gone"
      /\ sWin' = [sWin EXCEPT ![s] = [gen |-> sWin[s].gen + 1, st |-> "up"]]
      /\ sStack' = <<id>> \o sStack /\ drawn' = Switch!Planes(<<id>> \o drawn)
      /\ \/ sFocused' = id /\ recent' = <<id>> \o recent
         \/ UNCHANGED <<sFocused, recent>>
  BY DEF Switch!Open
<1>2. sWin \in WinStates BY DEF WinInv, WinStates
<1>3. sWin' \in WinStates BY <1>1, <1>2 DEF WinStates
<1>4. id \in AllIds BY <1>2 DEF WinStates, AllIds
<1>5. LiveIds' = LiveIds \cup {id} /\ id \notin LiveIds
  <2>1. \A u \in WindowSlots :
           /\ u # s => sWin'[u] = sWin[u]
           /\ u = s => sWin'[u].gen = sWin[s].gen + 1 /\ sWin'[u].st = "up"
    BY <1>1, <1>2 DEF WinStates
  <2>2. IdsOf(sWin', {"up", "low"}) = IdsOf(sWin, {"up", "low"}) \cup {id}
    BY <1>1, <2>1 DEF IdsOf
  <2>3. id \notin IdsOf(sWin, {"up", "low"}) BY <1>1 DEF IdsOf
  <2> QED BY <2>2, <2>3, IdsAreOf
<1> HIDE DEF id
<1>6. /\ sStack \in Seq(AllIds) /\ Distinct(sStack) /\ Elems(sStack) = LiveIds
      /\ drawn \in Seq(AllIds) /\ Distinct(drawn) /\ Elems(drawn) = LiveIds
      /\ recent \in Seq(AllIds) /\ Distinct(recent) /\ Elems(recent) \subseteq LiveIds
      /\ sFocused \in LiveIds \cup {None}
  BY DEF WinInv
<1>7. sStack' \in Seq(AllIds) /\ Distinct(sStack') /\ Elems(sStack') = LiveIds'
  BY <1>1, <1>4, <1>5, <1>6, FrontHolds
<1>8. drawn' \in Seq(AllIds) /\ Distinct(drawn') /\ Elems(drawn') = LiveIds'
  <2> DEFINE d == <<id>> \o drawn
  <2>1. d \in Seq(AllIds) /\ Distinct(d) /\ Elems(d) = LiveIds' BY <1>4, <1>5, <1>6, FrontHolds
  <2>2. drawn' = Switch!Planes(d) BY <1>1
  <2> HIDE DEF d
  <2> QED BY <2>1, <2>2, PlanesHold
<1>9. recent' \in Seq(AllIds) /\ Distinct(recent') /\ Elems(recent') \subseteq LiveIds'
  <2>1. CASE recent' = recent BY <1>5, <1>6, <2>1
  <2>2. CASE recent' = <<id>> \o recent
    <3>1. id \notin Elems(recent) BY <1>5, <1>6
    <3>2. recent' \in Seq(AllIds) /\ Distinct(recent') /\ Elems(recent') = Elems(recent) \cup {id}
      BY <1>4, <1>6, <2>2, <3>1, FrontHolds
    <3> QED BY <1>5, <1>6, <3>2
  <2> QED BY <1>1, <2>1, <2>2
<1>10. sFocused' \in LiveIds' \cup {None} BY <1>1, <1>5, <1>6
<1> QED BY <1>3, <1>7, <1>8, <1>9, <1>10 DEF WinInv, WinStates

\* The line the switcher finds is one of the chooser's.
LEMMA RowForIs ==
  ASSUME NEW c, ChooserOK(c), c.st = "asked"
  PROVE  Switch!RowFor(c) \in DOMAIN c.rows /\ c.rows[Switch!RowFor(c)] \in AllIds
<1> DEFINE like == {i \in DOMAIN c.rows : NameOf[c.rows[i][1]] = NameOf[c.rows[c.at + 1][1]]}
<1>1. c.rows \in Seq(AllIds) /\ c.at \in 0..(Len(c.rows) - 1) BY DEF ChooserOK
<1>2. c.at + 1 \in like /\ like \in SUBSET Nat BY <1>1
<1>3. Switch!RowFor(c) = Switch!Min(like) BY DEF Switch!RowFor
<1>4. like \subseteq DOMAIN c.rows OBVIOUS
<1> HIDE DEF like
<1>5. \E i \in like : \A j \in like : i <= j BY <1>2, LeastNatural
<1>6. Switch!Min(like) \in like BY <1>5 DEF Switch!Min
<1> QED BY <1>1, <1>3, <1>4, <1>6

\* Going around a list by remainders.
LEMMA AroundIs ==
  ASSUME NEW n \in Nat \ {0}, NEW i \in 1..n
  PROVE  /\ Around(n, i, (i % n) + 1) /\ (i % n) \in 0..(n - 1)
         /\ ((i + n - 2) % n) + 1 \in 1..n
<1>1. (i + n - 2) % n \in 0..(n - 1)
  <2>1. i + n - 2 \in Int /\ n > 0 OBVIOUS
  <2> QED BY <2>1
<1>2. CASE i = n
  <2>1. i % n = 0 BY <1>2
  <2> QED BY <1>1, <1>2, <2>1 DEF Around
<1>3. CASE i # n
  <2>1. i < n BY <1>3
  <2>2. i % n = i BY <2>1
  <2> QED BY <1>1, <1>3, <2>1, <2>2 DEF Around
<1> QED BY <1>2, <1>3

\* The order a cycle goes by lists the windows that show, each once; a walk under way
\* keeps it.
LEMMA CycleOrderIs ==
  ASSUME WinInv, WalkInv
  PROVE  LET order == Switch!CycleOrder(UpIds) IN
           /\ order \in Seq(AllIds) /\ Distinct(order) /\ Elems(order) = UpIds
           /\ walk # <<>> => order = cycle.order
<1> DEFINE order == Switch!CycleOrder(UpIds)
           kept == /\ Elems(cycle.order) = UpIds /\ Len(cycle.order) = Cardinality(UpIds)
                   /\ cycle.order # <<>> /\ Switch!InFocus = cycle.landed
<1>0. Switch!Cardinality(UpIds) = Cardinality(UpIds) BY DEF Switch!Cardinality, Cardinality
<1>1. order = IF kept THEN cycle.order ELSE Only(drawn, UpIds)
  <2>1. Switch!ToSet(cycle.order) = Elems(cycle.order) BY SwitchLists
  <2>2. Switch!Only(drawn, UpIds) = Only(drawn, UpIds) BY SwitchLists
  <2> QED BY <1>0, <2>1, <2>2 DEF Switch!CycleOrder
<1> HIDE DEF order
<1>2. CASE kept
  <2>1. order = cycle.order BY <1>1, <1>2
  <2> QED BY <1>2, <2>1 DEF WalkInv, order
<1>3. CASE ~kept
  <2>1. drawn \in Seq(AllIds) /\ Distinct(drawn) /\ Elems(drawn) = LiveIds BY DEF WinInv
  <2>2. order = Only(drawn, UpIds) BY <1>1, <1>3
  <2>3. UpIds \subseteq LiveIds BY IdsAre
  <2>4. order \in Seq(AllIds) /\ Distinct(order) /\ Elems(order) = LiveIds \cap UpIds
    BY <2>1, <2>2, OnlyHolds
  <2>5. walk = <<>>
    <3> SUFFICES ASSUME walk # <<>> PROVE FALSE OBVIOUS
    <3>1. /\ cycle.order \in Seq(AllIds) /\ Distinct(cycle.order) /\ Elems(cycle.order) = UpIds
          /\ Switch!InFocus = cycle.landed /\ walk \in Seq(AllIds \cup {None})
      BY DEF WalkInv
    <3>2. PICK P \in [1..Len(walk) -> 1..Len(cycle.order)] : Places(P, Len(cycle.order), walk, cycle.order)
      BY DEF WalkInv
    <3>3. Len(cycle.order) = Cardinality(UpIds) BY <3>1, DistinctLength
    <3>4. Len(walk) \in Nat /\ Len(walk) # 0 BY <3>1
    <3>5. P[1] \in 1..Len(cycle.order) BY <3>2, <3>4
    <3>6. cycle.order # <<>> BY <3>5
    <3> QED BY <1>3, <3>1, <3>3, <3>6
  <2> QED BY <2>3, <2>4, <2>5 DEF order
<1> QED BY <1>2, <1>3

\* Where one is in an order: the place of the focused window, or one before either end.
PlaceIn(order, back) ==
    IF Switch!InFocus \in Elems(order) THEN CHOOSE i \in 1..Len(order) : order[i] = Switch!InFocus
    ELSE IF back THEN 1 ELSE Len(order)

\* A step of the cycle lands on a place of the order, the next one forward (step_focus).
LEMMA StepIs ==
  ASSUME NEW order \in Seq(AllIds), order # <<>>, NEW back \in BOOLEAN
  PROVE  /\ PlaceIn(order, back) \in 1..Len(order)
         /\ Switch!InFocus \in Elems(order) => order[PlaceIn(order, back)] = Switch!InFocus
         /\ \E p2 \in 1..Len(order) :
               /\ Switch!Step(order, back) = order[p2]
               /\ ~back => Around(Len(order), PlaceIn(order, back), p2)
<1> DEFINE n == Len(order)
           q == PlaceIn(order, back)
           p2 == IF back THEN ((q + n - 2) % n) + 1 ELSE (q % n) + 1
<1>1. n \in Nat \ {0} OBVIOUS
<1>2. Switch!Step(order, back) = order[p2]
  <2>1. Switch!ToSet(order) = Elems(order) BY SwitchLists
  <2> QED BY <2>1 DEF Switch!Step, PlaceIn
<1>3. q \in 1..n /\ (Switch!InFocus \in Elems(order) => order[q] = Switch!InFocus)
  <2>1. CASE Switch!InFocus \in Elems(order)
    <3>1. \E i \in 1..n : order[i] = Switch!InFocus BY <2>1 DEF Elems
    <3> QED BY <2>1, <3>1 DEF PlaceIn
  <2>2. CASE Switch!InFocus \notin Elems(order)
    <3>1. q = 1 \/ q = n BY <2>2 DEF PlaceIn
    <3> QED BY <1>1, <2>2, <3>1
  <2> QED BY <2>1, <2>2
<1> HIDE DEF n, q
<1>4. p2 \in 1..n /\ (~back => Around(n, q, p2))
  <2>1. /\ Around(n, q, (q % n) + 1) /\ (q % n) \in 0..(n - 1)
        /\ ((q + n - 2) % n) + 1 \in 1..n
    BY <1>1, <1>3, AroundIs
  <2>2. CASE back BY <2>1, <2>2
  <2>3. CASE ~back
    <3>1. p2 = (q % n) + 1 BY <2>3
    <3> QED BY <1>1, <2>1, <2>3, <3>1
  <2> QED BY <2>2, <2>3
<1> HIDE DEF p2
<1> QED BY <1>2, <1>3, <1>4 DEF n, q

\* The focus cycle keeps WinInv: it only moves the windows about.
LEMMA FocusNextKeepsWin ==
  ASSUME WinInv, WalkInv, Switch!FocusNext
  PROVE  WinInv'
<1> DEFINE order == Switch!CycleOrder(UpIds)
<1>1. order \in Seq(AllIds) /\ Elems(order) = UpIds BY CycleOrderIs
<1>2. order # <<>> /\ UNCHANGED <<sWin, drawn>> /\ \E back \in BOOLEAN : Switch!Focus(Switch!Step(order, back))
  BY DEF Switch!FocusNext, UpIds
<1> HIDE DEF order
<1>3. PICK back \in BOOLEAN : Switch!Focus(Switch!Step(order, back)) BY <1>2
<1>4. PICK p2 \in 1..Len(order) : Switch!Step(order, back) = order[p2] BY <1>1, <1>2, StepIs
<1>5. order[p2] \in Elems(order) BY <1>1 DEF Elems
<1>6. order[p2] \in LiveIds BY <1>1, <1>5, IdsAre
<1>7. LiveIds' = LiveIds /\ sWin' \in WinStates BY <1>2, IdsAreOf DEF WinInv, WinStates
<1> QED BY <1>2, <1>3, <1>4, <1>6, <1>7, RaisedWin

\* So does focusing a window, which brings it to the front.
LEMMA FocusWindowKeepsWin ==
  ASSUME WinInv, ShownInv, NEW i \in DOMAIN shown, Switch!FocusWindow(i)
  PROVE  WinInv'
<1> DEFINE c == shown[i]
           row == c.rows[Switch!RowFor(c)]
           id == Switch!FindWindow(row)
<1>1. /\ c.st = "asked"
      /\ IF id = None THEN UNCHANGED <<sWin, sStack, drawn, recent, sFocused>>
         ELSE /\ Switch!Focus(id) /\ sWin' = [sWin EXCEPT ![id[1]].st = "up"] /\ drawn' = drawn
  BY DEF Switch!FocusWindow, Switch!windowVars
<1>2. ChooserOK(c) BY DEF ShownInv
<1> HIDE DEF c
<1>3. id = None \/ (id = row /\ Switch!IsLive(row)) BY DEF Switch!FindWindow
<1>4. CASE id = None
  <2>1. UNCHANGED <<sWin, sStack, drawn, recent, sFocused>> BY <1>1, <1>4
  <2>2. LiveIds' = LiveIds BY <2>1, IdsAreOf
  <2> QED BY <2>1, <2>2 DEF WinInv
<1>5. CASE id # None
  <2>1. row \in AllIds BY <1>1, <1>2, RowForIs DEF Elems
  <2> HIDE DEF row
  <2>2. PICK s \in WindowSlots : \E n \in Nat : row = <<s, n>> BY <2>1 DEF AllIds
  <2>3. PICK n \in Nat : row = <<s, n>> BY <2>2
  <2>4. row[1] = s /\ row[2] = n BY <2>3
  <2>5. sWin[s].gen = n /\ sWin[s].st # "gone" BY <1>3, <1>5, <2>4 DEF Switch!IsLive
  <2>6. id = row /\ id[1] = s BY <1>3, <1>5, <2>4
  <2> HIDE DEF id
  <2>7. sWin' = [sWin EXCEPT ![s].st = "up"] BY <1>1, <1>5, <2>6
  <2>8. sWin' \in WinStates /\ LiveIds' = LiveIds BY <2>5, <2>7, SameWindows
  <2>9. row \in LiveIds
    <3>1. sWin[s].st \in {"up", "low", "gone"} BY DEF WinInv
    <3>2. row \in IdsOf(sWin, {"up", "low"}) BY <2>3, <2>5, <3>1 DEF IdsOf
    <3> QED BY <3>2, IdsAreOf
  <2> QED BY <1>1, <1>5, <2>6, <2>8, <2>9, RaisedWin
<1> QED BY <1>4, <1>5

\* WinInv holds at the start, with no window.
LEMMA InitWin ==
  ASSUME Switch!Init
  PROVE  WinInv
<1> DEFINE ids == {<<s, 1>> : s \in WindowSlots}
<1>1. /\ sWin = [s \in WindowSlots |-> [gen |-> 1, st |-> "up"]]
      /\ sStack = Switch!SetToSeq(ids) /\ drawn = Switch!Planes(sStack) /\ recent = sStack
      /\ sFocused \in Elems(sStack)
  BY SwitchLists DEF Switch!Init
<1>2. ids \subseteq AllIds /\ IsFiniteSet(ids)
  <2>1. ids \subseteq AllIds BY DEF AllIds
  <2> DEFINE f == [s \in WindowSlots |-> <<s, 1>>]
  <2>2. f \in Surjection(WindowSlots, ids)
    <3>1. f \in [WindowSlots -> ids] OBVIOUS
    <3>2. \A y \in ids : \E s \in WindowSlots : f[s] = y OBVIOUS
    <3> HIDE DEF f, ids
    <3> QED BY <3>1, <3>2, Fun_IsSurj
  <2> HIDE DEF f
  <2>3. IsFiniteSet(WindowSlots) BY SlotAssumption
  <2> HIDE DEF ids
  <2>4. IsFiniteSet(ids) BY <2>2, <2>3, FS_Surjection
  <2> QED BY <2>1, <2>4
<1>3. LiveIds = ids
  <2>1. IdsOf(sWin, {"up", "low"}) = ids BY <1>1 DEF IdsOf
  <2> QED BY <2>1, IdsAreOf
<1> HIDE DEF ids
<1>4. sStack \in Seq(AllIds) /\ Elems(sStack) = ids /\ Distinct(sStack)
  <2>1. sStack \in Seq(ids) /\ Elems(sStack) = ids /\ Distinct(sStack) BY <1>1, <1>2, ListsTheSet
  <2> QED BY <1>2, <2>1
<1>5. drawn \in Seq(AllIds) /\ Distinct(drawn) /\ Elems(drawn) = ids BY <1>1, <1>4, PlanesHold
<1>6. sWin \in WinStates BY <1>1 DEF WinStates
<1> QED BY <1>1, <1>3, <1>4, <1>5, <1>6 DEF WinInv, WinStates

-----------------------------------------------------------------------------
(* The choosers.                                                           *)

ShownOf == [st : {"up", "asked", "done", "reaped"}, rows : Seq(AllIds), at : Nat,
            from : AllIds \cup {None}, got : AllIds \cup {None}]

\* Each chooser spawned is one ShownInv knows of.
LEMMA ShownRead ==
  ASSUME ShownInv, NEW i \in DOMAIN shown
  PROVE  shown[i] \in ShownOf /\ ChooserOK(shown[i])
<1>1. shown \in Seq(ShownOf) BY DEF ShownInv, ShownOf
<1>2. ChooserOK(shown[i]) BY DEF ShownInv
<1> QED BY <1>1, <1>2

\* One chooser changes, and none that was closed opens.
LEMMA BecomesKeeps ==
  ASSUME ShownInv, NEW i \in DOMAIN shown, NEW c \in ShownOf, ChooserOK(c),
         Switch!Becomes(i, c), c.st = "up" => sActive = i,
         sActive' \in 0..Len(shown), sActive' = sActive \/ (sActive' = 0 /\ sActive = i /\ c.st # "up")
  PROVE  ShownInv'
<1>1. shown \in Seq(ShownOf) BY DEF ShownInv, ShownOf
<1>2. shown' = [shown EXCEPT ![i] = c] BY DEF Switch!Becomes
<1>3. /\ shown' \in Seq(ShownOf) /\ Len(shown') = Len(shown) /\ DOMAIN shown' = DOMAIN shown
      /\ shown'[i] = c /\ \A j \in DOMAIN shown : j # i => shown'[j] = shown[j]
  BY <1>1, <1>2
<1>4. \A j \in DOMAIN shown' : ChooserOK(shown'[j])
  <2>1. \A j \in DOMAIN shown : ChooserOK(shown[j]) BY DEF ShownInv
  <2> QED BY <1>3, <2>1
<1>5. \A j \in DOMAIN shown' : shown'[j].st = "up" => sActive' = j
  <2>1. \A j \in DOMAIN shown : shown[j].st = "up" => sActive = j
    BY DEF ShownInv, Switch!OneChooser, Switch!IsOpen
  <2> QED BY <1>3, <2>1
<1>6. Switch!OneChooser' BY <1>5 DEF Switch!OneChooser, Switch!IsOpen
<1> QED BY <1>3, <1>4, <1>6 DEF ShownInv, ShownOf

\* A chooser that ends, on its own or after a pick, keeps ShownInv.
LEMMA EndKeepsShown ==
  ASSUME ShownInv, NEW i \in DOMAIN shown, Switch!End(i)
  PROVE  ShownInv'
<1> DEFINE b == shown[i]
<1>1. b \in ShownOf /\ ChooserOK(b) BY ShownRead
<1>2. PICK state \in {"asked", "done"} : Switch!Becomes(i, [b EXCEPT !.st = state]) BY DEF Switch!End
<1>3. b.st = "up" /\ sActive' = sActive /\ sActive \in 0..Len(shown) BY DEF Switch!End, Switch!IsOpen, ShownInv
<1> HIDE DEF b
<1> DEFINE c == [b EXCEPT !.st = state]
<1>4. c \in ShownOf BY <1>1 DEF ShownOf
<1>5. /\ c.st = state /\ c.rows = b.rows /\ c.at = b.at /\ c.got = b.got /\ c.from = b.from
  BY <1>1 DEF ShownOf
<1>6. Switch!Becomes(i, c) BY <1>2
<1> HIDE DEF c
<1>7. ChooserOK(c) BY <1>1, <1>3, <1>5 DEF ChooserOK
<1>8. c.st # "up" BY <1>5
<1> QED BY <1>3, <1>4, <1>6, <1>7, <1>8, BecomesKeeps

\* Cleaning up after a chooser keeps ShownInv.
LEMMA CleanUpKeepsShown ==
  ASSUME ShownInv, NEW i \in DOMAIN shown, Switch!CleanUp(i)
  PROVE  ShownInv'
<1> DEFINE c == Switch!Reaped
<1>1. /\ Switch!Becomes(i, c) /\ sActive' = IF sActive = i THEN 0 ELSE sActive
  BY DEF Switch!CleanUp, Switch!ClearOwn
<1>2. sActive \in 0..Len(shown) BY DEF ShownInv
<1>3. c = [st |-> "reaped", rows |-> <<>>, at |-> 0, from |-> None, got |-> None] BY DEF Switch!Reaped
<1> HIDE DEF c
<1>4. <<>> \in Seq(AllIds) OBVIOUS
<1>5. c \in ShownOf BY <1>3, <1>4 DEF ShownOf
<1>6. c.st = "reaped" /\ c.rows = <<>> /\ c.got = None BY <1>3
<1>7. ChooserOK(c) BY <1>4, <1>6 DEF ChooserOK
<1>8. /\ sActive' \in 0..Len(shown)
      /\ sActive' = sActive \/ (sActive' = 0 /\ sActive = i /\ c.st # "up")
  BY <1>1, <1>2, <1>6
<1>9. c.st # "up" BY <1>6
<1> QED BY <1>1, <1>5, <1>7, <1>8, <1>9, BecomesKeeps

\* What was focused for a chooser is the line it stood at, or one that reads like it.
LEMMA FocusWindowKeepsShown ==
  ASSUME ShownInv, NEW i \in DOMAIN shown, Switch!FocusWindow(i)
  PROVE  ShownInv'
<1> DEFINE b == shown[i]
           row == b.rows[Switch!RowFor(b)]
           id == Switch!FindWindow(row)
           c == [b EXCEPT !.st = "done", !.got = id]
<1>1. b \in ShownOf /\ ChooserOK(b) BY ShownRead
<1>2. b.st = "asked" /\ Switch!Becomes(i, c) /\ sActive' = sActive BY DEF Switch!FocusWindow
<1>3. sActive \in 0..Len(shown) BY DEF ShownInv
<1> HIDE DEF b
<1>4. Switch!RowFor(b) \in DOMAIN b.rows /\ row \in AllIds BY <1>1, <1>2, RowForIs
<1>5. row \in Elems(b.rows) BY <1>4 DEF Elems
<1> HIDE DEF row
<1>6. id \in {row, None} BY DEF Switch!FindWindow
<1> HIDE DEF id
<1>7. c \in ShownOf BY <1>1, <1>4, <1>6 DEF ShownOf
<1>8. /\ c.st = "done" /\ c.rows = b.rows /\ c.got = id
  BY <1>1 DEF ShownOf
<1> HIDE DEF c
<1>9. ChooserOK(c) BY <1>1, <1>5, <1>6, <1>8 DEF ChooserOK
<1>10. c.st # "up" BY <1>8
<1> QED BY <1>2, <1>3, <1>7, <1>9, <1>10, BecomesKeeps

\* What a chooser lists: the windows there are that it can reach, each once.
LEMMA ListedIs ==
  ASSUME WinInv
  PROVE  Switch!Listed \in Seq(AllIds) /\ Distinct(Switch!Listed)
<1> DEFINE up == Only(drawn, UpIds)
           low == Only(recent, Switch!Ids("low"))
<1>1. Switch!Listed = up \o low BY SwitchLists DEF Switch!Listed, UpIds
<1>2. drawn \in Seq(AllIds) /\ Distinct(drawn) /\ recent \in Seq(AllIds) /\ Distinct(recent) BY DEF WinInv
<1>3. up \in Seq(AllIds) /\ Distinct(up) /\ Elems(up) \subseteq UpIds BY <1>2, OnlyHolds
<1>4. low \in Seq(AllIds) /\ Distinct(low) /\ Elems(low) \subseteq Switch!Ids("low") BY <1>2, OnlyHolds
<1> HIDE DEF up, low
<1>5. Elems(up) \cap Elems(low) = {} BY <1>3, <1>4, IdsAre
<1> QED BY <1>1, <1>3, <1>4, <1>5, BothHold

\* A chooser opened forwards offers another than the focused window.
LEMMA NewChooser ==
  ASSUME WinInv, NEW back \in BOOLEAN, Switch!Listed # <<>>
  PROVE  LET c == Switch!Chooser(Switch!Listed, back) IN c \in ShownOf /\ ChooserOK(c) /\ c.st = "up"
<1> DEFINE l == Switch!Listed
           n == Len(l)
           x == Switch!InFocus
           k == IF x \in Elems(l) THEN CHOOSE i \in 1..n : l[i] = x ELSE 1
           c == Switch!Chooser(l, back)
<1>1. l \in Seq(AllIds) /\ Distinct(l) /\ l # <<>> BY ListedIs
<1> HIDE DEF l
<1>2. n \in Nat \ {0} /\ DOMAIN l = 1..n BY <1>1
<1>3. k \in 1..n /\ (x \in Elems(l) => l[k] = x)
  <2>1. CASE x \in Elems(l)
    <3>1. \E i \in 1..n : l[i] = x BY <1>2, <2>1 DEF Elems
    <3> HIDE DEF x
    <3> QED BY <2>1, <3>1
  <2>2. CASE x \notin Elems(l) BY <1>2, <2>2
  <2> QED BY <2>1, <2>2
<1>4. Switch!Offered(l, back) = IF back THEN n - 1 ELSE k
  <2>1. Switch!ToSet(l) = Elems(l) BY SwitchLists
  <2>2. CASE x \in Elems(l)
    <3>1. Switch!PlaceOf(l) = k - 1 BY <2>1, <2>2 DEF Switch!PlaceOf
    <3> HIDE DEF k, x
    <3> QED BY <1>2, <1>3, <3>1 DEF Switch!Offered
  <2>3. CASE x \notin Elems(l)
    <3>1. Switch!PlaceOf(l) = 0 BY <2>1, <2>3 DEF Switch!PlaceOf
    <3>2. k = 1 BY <2>3
    <3> HIDE DEF k, x
    <3> QED BY <3>1, <3>2 DEF Switch!Offered
  <2> QED BY <2>2, <2>3
<1> HIDE DEF k
<1>5. /\ c.st = "up" /\ c.rows = l /\ c.at = Switch!Offered(l, back) % n
      /\ c.from = (IF back THEN None ELSE x) /\ c.got = None
      /\ c = [st |-> "up", rows |-> l, at |-> Switch!Offered(l, back) % n,
              from |-> IF back THEN None ELSE x, got |-> None]
  BY DEF Switch!Chooser
<1>6. x \in AllIds \cup {None}
  <2>1. recent # <<>> => recent[1] \in AllIds BY DEF WinInv
  <2>2. sFocused \in AllIds \cup {None} BY IdsAre DEF WinInv
  <2> QED BY <2>1, <2>2 DEF Switch!InFocus
<1> HIDE DEF c, x, n
<1>7. ASSUME back PROVE c \in ShownOf /\ ChooserOK(c)
  <2>1. c.at = (n - 1) % n BY <1>4, <1>5, <1>7
  <2>2. n - 1 \in Int /\ n > 0 BY <1>2
  <2>3. c.at \in 0..(n - 1) BY <1>2, <2>1, <2>2
  <2>4. c \in ShownOf BY <1>1, <1>2, <1>5, <1>6, <2>3 DEF ShownOf
  <2> QED BY <1>1, <1>5, <1>7, <2>3, <2>4 DEF ChooserOK, n
<1>8. ASSUME ~back PROVE c \in ShownOf /\ ChooserOK(c)
  <2>1. c.at = k % n /\ c.from = x BY <1>4, <1>5, <1>8
  <2>2. Around(n, k, (k % n) + 1) /\ (k % n) \in 0..(n - 1) BY <1>2, <1>3, AroundIs
  <2>3. c.at \in 0..(n - 1) /\ Around(n, k, c.at + 1) BY <2>1, <2>2
  <2>4. c \in ShownOf BY <1>1, <1>2, <1>5, <1>6, <2>1, <2>3 DEF ShownOf
  <2>5. ASSUME n > 1 PROVE l[c.at + 1] # x
    <3>1. c.at + 1 \in 1..n BY <1>2, <2>3
    <3>2. c.at + 1 # k BY <1>2, <1>3, <2>3, <2>5 DEF Around
    <3>3. l[c.at + 1] # l[k] BY <1>1, <1>2, <1>3, <3>1, <3>2 DEF Distinct
    <3>4. l[c.at + 1] \in Elems(l) BY <1>2, <3>1 DEF Elems
    <3> QED BY <1>3, <3>3, <3>4
  <2> QED BY <1>1, <1>5, <2>1, <2>3, <2>4, <2>5 DEF ChooserOK, n
<1> QED BY <1>5, <1>7, <1>8 DEF c, l

\* Opening the chooser, or pressing its key again, keeps ShownInv.
LEMMA PressKeepsShown ==
  ASSUME WinInv, ShownInv, Switch!Press
  PROVE  ShownInv'
<1>1. shown \in Seq(ShownOf) /\ sActive \in 0..Len(shown) BY DEF ShownInv, ShownOf
<1>2. \A j \in DOMAIN shown : ChooserOK(shown[j]) BY DEF ShownInv
<1>3. \A j \in DOMAIN shown : shown[j].st = "up" => sActive = j
  BY DEF ShownInv, Switch!OneChooser, Switch!IsOpen
<1>4. PICK back \in BOOLEAN : Switch!PressAgain(back) \/ Switch!PressFirst(back) BY DEF Switch!Press
<1>5. CASE Switch!PressAgain(back)
  <2> DEFINE b == shown[sActive]
             n == Len(b.rows)
             m2 == (b.at + IF back THEN n - 1 ELSE 1) % n
             c == [b EXCEPT !.at = m2, !.from = None]
  <2>1. sActive \in DOMAIN shown BY <1>1, <1>5 DEF Switch!PressAgain
  <2>2. b \in ShownOf /\ ChooserOK(b) BY <1>1, <1>2, <2>1
  <2>3. b.st = "up" BY <1>5 DEF Switch!PressAgain, Switch!IsOpen
  <2>4. shown' = [shown EXCEPT ![sActive] = c] /\ sActive' = sActive
    <3>1. shown' = [shown EXCEPT ![sActive].at = (@ + IF back THEN n - 1 ELSE 1) % n, ![sActive].from = None]
          /\ sActive' = sActive
      BY <1>5 DEF Switch!PressAgain
    <3> QED BY <1>1, <2>1, <3>1
  <2> HIDE DEF b
  <2>5. n \in Nat /\ b.at \in 0..(n - 1) BY <2>2, <2>3 DEF ChooserOK
  <2>6. m2 \in 0..(n - 1)
    <3>1. n > 0 BY <2>5
    <3>2. (b.at + IF back THEN n - 1 ELSE 1) \in Int BY <2>5
    <3> QED BY <2>5, <3>1, <3>2
  <2> HIDE DEF n, m2
  <2>7. c \in ShownOf
    <3>1. m2 \in Nat BY <2>6
    <3> QED BY <2>2, <3>1 DEF ShownOf
  <2>8. c.st = "up" /\ c.rows = b.rows /\ c.at = m2 /\ c.from = None /\ c.got = b.got
    BY <2>2, <2>3 DEF ShownOf
  <2> HIDE DEF c
  <2>9. ChooserOK(c) BY <2>2, <2>6, <2>8 DEF ChooserOK, n
  <2>10. Switch!Becomes(sActive, c) BY <2>4 DEF Switch!Becomes
  <2> QED BY <1>1, <2>1, <2>4, <2>7, <2>9, <2>10, BecomesKeeps
<1>6. CASE Switch!PressFirst(back)
  <2>1. \A j \in DOMAIN shown : shown[j].st # "up" 
    <3>1. sActive # 0 => shown[sActive].st # "up" BY <1>6 DEF Switch!PressFirst, Switch!IsOpen
    <3>2. \A j \in DOMAIN shown : j # 0 BY <1>1
    <3> QED BY <1>3, <3>1, <3>2
  <2>2. CASE sActive' = 0 /\ shown' = shown
    <3>1. 0 \in 0..Len(shown) BY <1>1
    <3>2. Switch!OneChooser' BY <2>1, <2>2 DEF Switch!OneChooser, Switch!IsOpen
    <3> QED BY <1>1, <1>2, <2>2, <3>1, <3>2 DEF ShownInv, ShownOf
  <2>3. CASE Switch!Listed # <<>> /\ shown' = Append(shown, Switch!Chooser(Switch!Listed, back))
             /\ sActive' = Len(shown) + 1
    <3> DEFINE c == Switch!Chooser(Switch!Listed, back)
    <3>1. c \in ShownOf /\ ChooserOK(c) /\ c.st = "up" BY <2>3, NewChooser
    <3>2. shown' = Append(shown, c) /\ sActive' = Len(shown) + 1 BY <2>3
    <3> HIDE DEF c
    <3>3. /\ shown' \in Seq(ShownOf) /\ Len(shown') = Len(shown) + 1 /\ Len(shown) \in Nat
          /\ DOMAIN shown' = 1..(Len(shown) + 1) /\ DOMAIN shown = 1..Len(shown)
          /\ shown'[Len(shown) + 1] = c /\ \A j \in 1..Len(shown) : shown'[j] = shown[j]
      BY <1>1, <3>1, <3>2
    <3>4. \A j \in 1..(Len(shown) + 1) : j = Len(shown) + 1 \/ j \in 1..Len(shown) BY <3>3
    <3>5. \A j \in DOMAIN shown' : ChooserOK(shown'[j]) BY <1>2, <3>1, <3>3, <3>4
    <3>6. \A j \in DOMAIN shown' : shown'[j].st = "up" => sActive' = j BY <2>1, <3>2, <3>3, <3>4
    <3>7. Switch!OneChooser' BY <3>6 DEF Switch!OneChooser, Switch!IsOpen
    <3>8. sActive' \in 0..Len(shown') BY <3>2, <3>3
    <3> QED BY <3>3, <3>5, <3>7, <3>8 DEF ShownInv, ShownOf
  <2> QED BY <1>6, <2>2, <2>3 DEF Switch!PressFirst
<1> QED BY <1>4, <1>5, <1>6

-----------------------------------------------------------------------------
(* The cycle of focus-next and focus-prev.                                 *)

\* A step around is one step on, or one round less one back.
LEMMA NextIsAsFar ==
  ASSUME NEW n \in Nat \ {0}, NEW k \in Nat, NEW i \in 1..k,
         NEW pk \in 1..n, NEW pi \in 1..n, NEW p2 \in 1..n, Around(n, pk, p2), k + 1 - i < n,
         i = k => pk = pi, i # k => pk - pi \in {k - i, k - i - n}
  PROVE  p2 - pi \in {k + 1 - i, k + 1 - i - n}
<1>1. p2 = IF pk = n THEN 1 ELSE pk + 1 BY DEF Around
<1>2. CASE i = k BY <1>1, <1>2
<1>3. CASE i # k /\ pk = n
  <2>1. pk - pi >= 0 /\ k - i - n < 0 BY <1>3
  <2>2. pk - pi = k - i BY <1>3, <2>1
  <2> QED BY <1>1, <1>3, <2>2
<1>4. CASE i # k /\ pk # n BY <1>1, <1>4
<1> QED BY <1>2, <1>3, <1>4

\* One step on: the next place is as far from every other as the walk is long.
LEMMA PlacesGrow ==
  ASSUME NEW n \in Nat \ {0}, NEW E, NEW ws \in Seq(E), ws # <<>>, NEW order, NEW P \in [1..Len(ws) -> 1..n],
         \A i \in 1..Len(ws) : ws[i] = order[P[i]] \/ (i = 1 /\ ws[i] \notin Elems(order)),
         \A i, j \in 1..Len(ws) : i < j /\ j - i < n => P[j] - P[i] \in {j - i, j - i - n},
         NEW p2 \in 1..n, Around(n, P[Len(ws)], p2), order[p2] \in E
  PROVE  \E Q \in [1..Len(Append(ws, order[p2])) -> 1..n] : Places(Q, n, Append(ws, order[p2]), order)
<1> DEFINE k == Len(ws)
           wt == Append(ws, order[p2])
           Q == [i \in 1..(k + 1) |-> IF i = k + 1 THEN p2 ELSE P[i]]
<1>1. /\ k \in Nat \ {0} /\ Len(wt) = k + 1 /\ wt[k + 1] = order[p2]
      /\ \A i \in 1..k : wt[i] = ws[i]
  OBVIOUS
<1>2. \A i \in 1..(k + 1) : i = k + 1 \/ i \in 1..k BY <1>1
<1>3. /\ Q \in [1..(k + 1) -> 1..n] /\ Q[k + 1] = p2 /\ \A i \in 1..k : Q[i] = P[i]
  BY <1>1, <1>2
<1> HIDE DEF Q, wt
<1>4. ASSUME NEW i \in 1..(k + 1)
      PROVE  wt[i] = order[Q[i]] \/ (i = 1 /\ i # k + 1 /\ wt[i] \notin Elems(order))
  <2>1. CASE i = k + 1 BY <1>1, <1>3, <2>1
  <2>2. CASE i \in 1..k
    <3>1. ws[i] = order[P[i]] \/ (i = 1 /\ ws[i] \notin Elems(order)) BY <2>2
    <3>2. wt[i] = ws[i] /\ Q[i] = P[i] /\ i # k + 1 BY <1>1, <1>3, <2>2
    <3> QED BY <3>1, <3>2
  <2> QED BY <1>2, <2>1, <2>2
<1>5. ASSUME NEW i \in 1..(k + 1), NEW j \in 1..(k + 1), i < j, j - i < n
      PROVE  Q[j] - Q[i] \in {j - i, j - i - n}
  <2>1. i \in 1..k BY <1>1, <1>5
  <2>2. CASE j \in 1..k
    <3>1. P[j] - P[i] \in {j - i, j - i - n} BY <1>5, <2>1, <2>2
    <3> QED BY <1>3, <2>1, <2>2, <3>1
  <2>3. CASE j = k + 1
    <3> DEFINE pk == P[k]
               pi == P[i]
    <3>1. pk \in 1..n /\ pi \in 1..n /\ p2 = IF pk = n THEN 1 ELSE pk + 1
      BY <1>1, <2>1 DEF Around
    <3>2. Q[j] = p2 /\ Q[i] = pi BY <1>3, <2>1, <2>3
    <3>3. i # k => pk - pi \in {k - i, k - i - n}
      <4> SUFFICES ASSUME i # k PROVE pk - pi \in {k - i, k - i - n} OBVIOUS
      <4>1. k \in 1..k /\ i < k /\ k - i < n BY <1>1, <1>5, <2>1, <2>3
      <4> QED BY <2>1, <4>1
    <3>4. i = k => pk = pi OBVIOUS
    <3> HIDE DEF pk, pi
    <3>5. p2 - pi \in {k + 1 - i, k + 1 - i - n}
      <4>1. k \in Nat /\ k + 1 - i < n BY <1>1, <1>5, <2>3
      <4>2. Around(n, pk, p2) BY <3>1 DEF Around
      <4> HIDE DEF k
      <4> QED BY <2>1, <3>1, <3>3, <3>4, <4>1, <4>2, NextIsAsFar
    <3> QED BY <2>3, <3>2, <3>5
  <2> QED BY <1>2, <2>2, <2>3
<1>6. Places(Q, n, wt, order) BY <1>1, <1>3, <1>4, <1>5 DEF Places
<1> HIDE DEF k
<1>7. Q \in [1..Len(wt) -> 1..n] BY <1>1, <1>3 DEF k
<1> QED BY <1>6, <1>7 DEF wt

\* A walk of less than a round comes to no window twice.
LEMMA PlacesApart ==
  ASSUME NEW E, NEW order \in Seq(E), Distinct(order), NEW F, NEW ws \in Seq(F),
         NEW P, Places(P, Len(order), ws, order),
         NEW i \in 1..Len(ws), NEW j \in 1..Len(ws), i < j, j - i < Len(order)
  PROVE  ws[i] # ws[j]
<1> DEFINE n == Len(order)
<1>1. n \in Nat /\ Len(ws) \in Nat /\ DOMAIN order = 1..n OBVIOUS
<1> HIDE DEF n
<1>2. P[i] \in 1..n /\ P[j] \in 1..n BY <1>1 DEF Places, n
<1>3. ws[j] = order[P[j]] BY <1>1 DEF Places
<1>4. ws[j] \in Elems(order) BY <1>1, <1>2, <1>3 DEF Elems
<1>5. ws[i] = order[P[i]] \/ ws[i] \notin Elems(order) BY DEF Places
<1>6. P[j] - P[i] \in {j - i, j - i - n} BY DEF Places, n
<1>7. P[i] # P[j] BY <1>1, <1>2, <1>6 DEF n
<1>8. order[P[i]] # order[P[j]] BY <1>1, <1>2, <1>7 DEF Distinct
<1> QED BY <1>3, <1>4, <1>5, <1>8

\* A step of the focus cycle keeps WalkInv: it visits a place not visited yet.
LEMMA FocusNextKeepsWalk ==
  ASSUME WinInv, WalkInv, Switch!FocusNext
  PROVE  WalkInv'
<1> DEFINE order == Switch!CycleOrder(UpIds)
<1>1. /\ order \in Seq(AllIds) /\ Distinct(order) /\ Elems(order) = UpIds
      /\ walk # <<>> => order = cycle.order
  BY CycleOrderIs
<1>2. /\ order # <<>> /\ UNCHANGED <<sWin, drawn>>
      /\ \E back \in BOOLEAN :
            /\ Switch!Focus(Switch!Step(order, back))
            /\ walk' = IF back THEN <<Switch!Step(order, back)>>
                       ELSE Append(IF walk = <<>> THEN <<Switch!InFocus>> ELSE walk, Switch!Step(order, back))
            /\ cycle' = [order |-> order, landed |-> Switch!Step(order, back)]
  BY DEF Switch!FocusNext, UpIds
<1> HIDE DEF order
<1>3. PICK back \in BOOLEAN :
            /\ Switch!Focus(Switch!Step(order, back))
            /\ walk' = IF back THEN <<Switch!Step(order, back)>>
                       ELSE Append(IF walk = <<>> THEN <<Switch!InFocus>> ELSE walk, Switch!Step(order, back))
            /\ cycle' = [order |-> order, landed |-> Switch!Step(order, back)]
  BY <1>2
<1> DEFINE n == Len(order)
           q == PlaceIn(order, back)
           x == Switch!InFocus
<1>4. q \in 1..n /\ (x \in Elems(order) => order[q] = x) BY <1>1, <1>2, StepIs
<1>5. PICK p2 \in 1..n : Switch!Step(order, back) = order[p2] /\ (~back => Around(n, q, p2))
  BY <1>1, <1>2, StepIs
<1>6. n \in Nat \ {0} /\ DOMAIN order = 1..n BY <1>1, <1>2
<1>7. order[p2] \in AllIds /\ order[p2] # None BY <1>1, <1>6, IdsAre
<1>8. UpIds' = UpIds BY <1>2, IdsAreOf
<1>9. /\ cycle'.order = order /\ cycle'.landed = order[p2] BY <1>3, <1>5
<1>10. Switch!InFocus' = order[p2]
  <2>1. sFocused' = order[p2] BY <1>3, <1>5 DEF Switch!Focus
  <2> QED BY <1>7, <2>1 DEF Switch!InFocus
<1>11. x \in AllIds \cup {None}
  <2>1. recent # <<>> => recent[1] \in AllIds BY DEF WinInv
  <2>2. sFocused \in AllIds \cup {None} BY IdsAre DEF WinInv
  <2> QED BY <2>1, <2>2 DEF Switch!InFocus
<1> HIDE DEF q, x
<1>12. /\ walk' \in Seq(AllIds \cup {None}) /\ walk'[Len(walk')] = order[p2]
       /\ \E Q \in [1..Len(walk') -> 1..n] : Places(Q, n, walk', order)
  <2>1. CASE back
    <3> DEFINE Q == [i \in 1..1 |-> p2]
    <3>1. walk' = <<order[p2]>> BY <1>3, <1>5, <2>1
    <3>2. walk' \in Seq(AllIds \cup {None}) /\ Len(walk') = 1 /\ walk'[1] = order[p2] BY <1>7, <3>1
    <3>3. Q \in [1..1 -> 1..n] /\ \A i \in 1..1 : i = 1 /\ Q[i] = p2 OBVIOUS
    <3> HIDE DEF Q
    <3>4. \A i, j \in 1..1 : ~(i < j) OBVIOUS
    <3>5. Places(Q, n, walk', order) BY <3>2, <3>3, <3>4 DEF Places
    <3> QED BY <3>2, <3>3, <3>5
  <2>2. CASE ~back /\ walk = <<>>
    <3> DEFINE ws == <<x>>
               P == [i \in 1..1 |-> q]
    <3>1. walk' = Append(ws, order[p2]) BY <1>3, <1>5, <2>2 DEF x
    <3>2. ws \in Seq(AllIds \cup {None}) /\ Len(ws) = 1 /\ ws[1] = x /\ ws # <<>> BY <1>11
    <3>3. P \in [1..1 -> 1..n] /\ \A i \in 1..1 : i = 1 /\ P[i] = q BY <1>4
    <3> HIDE DEF P, ws
    <3>4. \A i \in 1..Len(ws) : ws[i] = order[P[i]] \/ (i = 1 /\ ws[i] \notin Elems(order))
      BY <1>4, <3>2, <3>3
    <3>5. \A i, j \in 1..Len(ws) : i < j /\ j - i < n => P[j] - P[i] \in {j - i, j - i - n}
      BY <3>2
    <3>6. Around(n, P[Len(ws)], p2) BY <1>5, <2>2, <3>2, <3>3
    <3>7. P \in [1..Len(ws) -> 1..n] BY <3>2, <3>3
    <3>8. \E Q \in [1..Len(Append(ws, order[p2])) -> 1..n] : Places(Q, n, Append(ws, order[p2]), order)
      <4> HIDE DEF n
      <4> QED BY <1>5, <1>6, <1>7, <3>2, <3>4, <3>5, <3>6, <3>7, PlacesGrow
    <3>9. /\ walk' \in Seq(AllIds \cup {None}) /\ walk'[Len(walk')] = order[p2]
      BY <1>7, <3>1, <3>2
    <3> QED BY <3>1, <3>8, <3>9
  <2>3. CASE ~back /\ walk # <<>>
    <3>1. walk' = Append(walk, order[p2]) /\ order = cycle.order BY <1>1, <1>3, <1>5, <2>3
    <3>2. walk \in Seq(AllIds \cup {None}) /\ x = cycle.landed /\ walk[Len(walk)] = x
      BY <2>3 DEF WalkInv, x
    <3>3. PICK P \in [1..Len(walk) -> 1..n] : Places(P, n, walk, order)
      BY <2>3, <3>1 DEF WalkInv
    <3>4. Len(walk) \in Nat \ {0} /\ Len(walk) \in 1..Len(walk) BY <2>3, <3>2
    <3>5. x = order[P[Len(walk)]] /\ P[Len(walk)] \in 1..n BY <3>2, <3>3, <3>4 DEF Places
    <3>6. x \in Elems(order) BY <1>6, <3>5 DEF Elems
    <3>7. q = P[Len(walk)] BY <1>1, <1>4, <1>6, <3>5, <3>6 DEF Distinct
    <3>8. Around(n, P[Len(walk)], p2) BY <1>5, <2>3, <3>7
    <3>9. /\ \A i \in 1..Len(walk) : walk[i] = order[P[i]] \/ (i = 1 /\ walk[i] \notin Elems(order))
          /\ \A i, j \in 1..Len(walk) : i < j /\ j - i < n => P[j] - P[i] \in {j - i, j - i - n}
      BY <3>3 DEF Places
    <3>10. \E Q \in [1..Len(Append(walk, order[p2])) -> 1..n] : Places(Q, n, Append(walk, order[p2]), order)
      <4>1. order[p2] \in AllIds \cup {None} BY <1>7
      <4>2. walk # <<>> BY <2>3
      <4> HIDE DEF n
      <4> QED BY <1>6, <3>2, <3>8, <3>9, <4>1, <4>2, PlacesGrow
    <3>11. /\ walk' \in Seq(AllIds \cup {None}) /\ walk'[Len(walk')] = order[p2]
      BY <1>7, <3>1, <3>2
    <3> QED BY <3>1, <3>10, <3>11
  <2> QED BY <2>1, <2>2, <2>3
<1> QED BY <1>1, <1>8, <1>9, <1>10, <1>12 DEF WalkInv

\* WalkInv is kept by a step that leaves the windows, the focus and the walk alone.
LEMMA WalkKept ==
  ASSUME WalkInv, UNCHANGED <<sWin, sFocused, recent, cycle, walk>>
  PROVE  WalkInv'
<1>1. UpIds' = UpIds BY IdsAreOf
<1>2. Switch!InFocus' = Switch!InFocus BY DEF Switch!InFocus
<1> QED BY <1>1, <1>2 DEF WalkInv

\* An empty walk keeps WalkInv.
LEMMA WalkReset ==
  ASSUME WalkInv, UNCHANGED cycle, walk' = <<>>
  PROVE  WalkInv'
BY DEF WalkInv

\* The switcher starts in a state of SwitchInv.
LEMMA SwitchInit ==
  ASSUME Switch!Init
  PROVE  SwitchInv
<1>1. /\ cycle = [order |-> <<>>, landed |-> None] /\ sActive = 0 /\ shown = <<>> /\ walk = <<>>
  BY DEF Switch!Init, Switch!NoCycle
<1>2. WalkInv
  <2>1. <<>> \in Seq(AllIds) /\ <<>> \in Seq(AllIds \cup {None}) /\ cycle.order = <<>> BY <1>1
  <2>2. Distinct(<<>>) BY DEF Distinct
  <2> QED BY <1>1, <2>1, <2>2 DEF WalkInv
<1>3. ShownInv BY <1>1 DEF ShownInv, Switch!OneChooser
<1> QED BY <1>2, <1>3, InitWin DEF SwitchInv

\* Every step of Switcher keeps SwitchInv: one case per action.
LEMMA SwitchStep ==
  ASSUME SwitchInv, Switch!Next
  PROVE  SwitchInv'
<1>1. WinInv /\ ShownInv /\ WalkInv BY DEF SwitchInv
<1>2. ASSUME UNCHANGED <<sWin, sStack, drawn, recent, sFocused>> PROVE WinInv'
  <2>1. LiveIds' = LiveIds BY <1>2, IdsAreOf
  <2> QED BY <1>1, <1>2, <2>1 DEF WinInv
<1>3. ASSUME UNCHANGED <<sActive, shown>> PROVE ShownInv'
  BY <1>1, <1>3 DEF ShownInv, Switch!OneChooser, Switch!IsOpen
<1>4. CASE Switch!Draw
  <2>1. UNCHANGED <<sWin, recent, sFocused, cycle, sActive, shown, walk>> BY <1>4 DEF Switch!Draw
  <2> QED BY <1>1, <1>3, <1>4, <2>1, DrawKeepsWin, WalkKept DEF SwitchInv
<1>5. CASE Switch!Choose
  <2>1. walk' = <<>> /\ UNCHANGED <<cycle, sActive, shown>> BY <1>5 DEF Switch!Choose
  <2> QED BY <1>1, <1>3, <1>5, <2>1, ChooseKeepsWin, WalkReset DEF SwitchInv
<1>6. CASE Switch!Minimize
  <2>1. walk' = <<>> /\ UNCHANGED <<cycle, sActive, shown>> BY <1>6 DEF Switch!Minimize
  <2> QED BY <1>1, <1>3, <1>6, <2>1, MinimizeKeepsWin, WalkReset DEF SwitchInv
<1>7. CASE Switch!FocusNext
  <2>1. UNCHANGED <<sActive, shown>> BY <1>7 DEF Switch!FocusNext
  <2> QED BY <1>1, <1>3, <1>7, <2>1, FocusNextKeepsWin, FocusNextKeepsWalk DEF SwitchInv
<1>8. CASE Switch!Press
  <2>1. UNCHANGED <<sWin, sStack, drawn, recent, sFocused, cycle, walk>>
    BY <1>8 DEF Switch!Press, Switch!windowVars
  <2> QED BY <1>1, <1>2, <1>8, <2>1, PressKeepsShown, WalkKept DEF SwitchInv
<1>9. ASSUME NEW i \in DOMAIN shown, Switch!FocusWindow(i) PROVE SwitchInv'
  <2>1. /\ cycle' = cycle
        /\ \/ UNCHANGED <<sWin, sStack, drawn, recent, sFocused, walk>>
           \/ walk' = <<>>
    BY <1>9 DEF Switch!FocusWindow, Switch!windowVars
  <2>2. WalkInv' BY <1>1, <2>1, WalkKept, WalkReset
  <2>3. WinInv' /\ ShownInv' BY <1>1, <1>9, FocusWindowKeepsWin, FocusWindowKeepsShown
  <2> QED BY <2>2, <2>3 DEF SwitchInv
<1>10. ASSUME NEW i \in DOMAIN shown, Switch!CleanUp(i) PROVE SwitchInv'
  <2>1. UNCHANGED <<sWin, sStack, drawn, recent, sFocused, cycle, walk>>
    BY <1>10 DEF Switch!CleanUp, Switch!windowVars
  <2> QED BY <1>1, <1>2, <1>10, <2>1, CleanUpKeepsShown, WalkKept DEF SwitchInv
<1>11. ASSUME NEW i \in DOMAIN shown, Switch!End(i) PROVE SwitchInv'
  <2>1. UNCHANGED <<sWin, sStack, drawn, recent, sFocused, cycle, walk>>
    BY <1>11 DEF Switch!End, Switch!windowVars
  <2> QED BY <1>1, <1>2, <1>11, <2>1, EndKeepsShown, WalkKept DEF SwitchInv
<1>12. ASSUME NEW s \in WindowSlots, Switch!Close(s) PROVE SwitchInv'
  <2>1. walk' = <<>> /\ UNCHANGED <<cycle, sActive, shown>> BY <1>12 DEF Switch!Close
  <2> QED BY <1>1, <1>3, <1>12, <2>1, CloseKeepsWin, WalkReset DEF SwitchInv
<1>13. ASSUME NEW s \in WindowSlots, Switch!Open(s) PROVE SwitchInv'
  <2>1. walk' = <<>> /\ UNCHANGED <<cycle, sActive, shown>> BY <1>13 DEF Switch!Open
  <2> QED BY <1>1, <1>3, <1>13, <2>1, OpenKeepsWin, WalkReset DEF SwitchInv
<1> QED
  BY <1>4, <1>5, <1>6, <1>7, <1>8, <1>9, <1>10, <1>11, <1>12, <1>13 DEF Switch!Next, Switch!Thread

\* SwitchInv reads the variables of Switcher alone.
LEMMA SwitchStutter ==
  ASSUME SwitchInv, UNCHANGED switchVars
  PROVE  SwitchInv'
<1>1. WinInv /\ ShownInv /\ WalkInv BY DEF SwitchInv
<1>2. UNCHANGED <<sWin, sStack, drawn, recent, sFocused, cycle, sActive, shown, walk>> BY DEF switchVars
<1>3. LiveIds' = LiveIds BY <1>2, IdsAreOf
<1>4. WinInv' BY <1>1, <1>2, <1>3 DEF WinInv
<1>5. ShownInv' BY <1>1, <1>2 DEF ShownInv, Switch!OneChooser, Switch!IsOpen
<1>6. WalkInv' BY <1>1, <1>2, WalkKept
<1> QED BY <1>4, <1>5, <1>6 DEF SwitchInv

\* What the invariant says of the switching.
LEMMA SwitchInvSays ==
  ASSUME SwitchInv
  PROVE  Switch!TypeOK /\ Switch!SwitchingIsSound
<1>1. WinInv /\ ShownInv /\ WalkInv BY DEF SwitchInv
<1>2. Switch!TypeOK
  <2>1. \A s \in WindowSlots : sWin[s].st \in {"up", "low", "gone"} /\ sWin[s].gen \in Nat \ {0}
    BY <1>1 DEF WinInv
  <2>2. Switch!ToSet(sStack) = LiveIds BY <1>1, SwitchLists DEF WinInv
  <2>3. Len(sStack) = Switch!Cardinality(Switch!ToSet(sStack))
    <3>1. sStack \in Seq(AllIds) /\ Distinct(sStack) /\ Elems(sStack) = LiveIds BY <1>1 DEF WinInv
    <3>2. Cardinality(LiveIds) = Len(sStack) BY <3>1, DistinctLength
    <3>3. Switch!Cardinality(LiveIds) = Cardinality(LiveIds) BY DEF Switch!Cardinality, Cardinality
    <3> QED BY <2>2, <3>2, <3>3
  <2>4. sFocused \in LiveIds \cup {None} /\ sActive \in 0..Len(shown) BY <1>1 DEF WinInv, ShownInv
  <2> QED BY <2>1, <2>2, <2>3, <2>4 DEF Switch!TypeOK, LiveIds
<1>3. Switch!OneChooser BY <1>1 DEF ShownInv
<1>4. Switch!SwitchesAway
  <2>1. \A i \in DOMAIN shown : ChooserOK(shown[i]) BY <1>1 DEF ShownInv
  <2> QED BY <2>1 DEF Switch!SwitchesAway, Switch!IsOpen, ChooserOK
<1>5. Switch!PicksAreListed
  <2>1. \A i \in DOMAIN shown : ChooserOK(shown[i]) BY <1>1 DEF ShownInv
  <2>2. \A i \in DOMAIN shown : Switch!ToSet(shown[i].rows) = Elems(shown[i].rows) BY SwitchLists
  <2> QED BY <2>1, <2>2 DEF Switch!PicksAreListed, ChooserOK
<1>6. Switch!CycleVisitsAll
  <2> SUFFICES ASSUME NEW i \in DOMAIN walk, NEW j \in DOMAIN walk, i < j,
                      j - i < Switch!Cardinality(UpIds)
               PROVE  walk[i] # walk[j]
    BY DEF Switch!CycleVisitsAll, UpIds
  <2>1. walk \in Seq(AllIds \cup {None}) /\ cycle.order \in Seq(AllIds) /\ Distinct(cycle.order)
    BY <1>1 DEF WalkInv
  <2>2. walk # <<>> /\ DOMAIN walk = 1..Len(walk) BY <2>1
  <2>3. Elems(cycle.order) = UpIds /\ \E P \in [1..Len(walk) -> 1..Len(cycle.order)] : Places(P, Len(cycle.order), walk, cycle.order)
    BY <1>1, <2>2 DEF WalkInv
  <2>4. Switch!Cardinality(UpIds) = Len(cycle.order)
    <3>1. Cardinality(UpIds) = Len(cycle.order) BY <2>1, <2>3, DistinctLength
    <3> QED BY <3>1 DEF Switch!Cardinality, Cardinality
  <2>5. PICK P : Places(P, Len(cycle.order), walk, cycle.order) BY <2>3
  <2> QED BY <2>1, <2>2, <2>4, <2>5, PlacesApart
<1> QED BY <1>2, <1>3, <1>4, <1>5, <1>6 DEF Switch!SwitchingIsSound

-----------------------------------------------------------------------------
(* Text input (TextRelay).                                                 *)

\* The types of a field and of a popup.
FieldType == [live : BOOLEAN, at : Surfaces \cup {None}, on : BOOLEAN]
PopupType == [live : BOOLEAN, mapped : BOOLEAN, under : Surfaces \cup {"hidden"}]

\* A popup that is not mapped is hidden, and without an input method there is none.
PopupsAreMade ==
    /\ \A q \in Popups : ~popup[q].mapped => popup[q].under = "hidden"
    /\ \A q \in Popups : popup[q].mapped => popup[q].live
    /\ method = "none" => \A q \in Popups : ~popup[q].live

\* The inductive invariant.
TextInv == Text!TypeOK /\ Text!RelayIsSound /\ PopupsAreMade

\* Nobody has bound a text input at the start.
LEMMA TextInit == Text!Init => TextInv
<1> SUFFICES ASSUME Text!Init PROVE TextInv OBVIOUS
<1> USE DEF Text!Init
<1>1. Text!Out \in FieldType /\ Text!Out.at = None BY DEF Text!Out, FieldType
<1>2. Text!Unmade \in PopupType /\ Text!Unmade.under = "hidden" /\ ~Text!Unmade.mapped /\ ~Text!Unmade.live
  BY DEF Text!Unmade, PopupType
<1>3. rSteps \in 0..TextEvents BY BoundsAssumption
<1>4. Text!TypeOK BY <1>1, <1>2, <1>3 DEF Text!TypeOK, FieldType, PopupType
<1>5. Text!RelayIsSound
  BY <1>1, <1>2 DEF Text!RelayIsSound, Text!FieldsFollowFocus, Text!MethodKnowsField, Text!PopupsFollowField, Text!BoardFollowsField
<1>6. PopupsAreMade BY <1>2 DEF PopupsAreMade
<1> QED BY <1>4, <1>5, <1>6 DEF TextInv

\* Where a popup is put: under the field's surface if it is mapped, else hidden.
LEMMA PlacedWell ==
  ASSUME NEW q \in PopupType, ~q.mapped => q.under = "hidden", q.mapped => q.live,
         NEW act \in Inputs \cup {None}, NEW place \in Surfaces \cup {None}
  PROVE  LET r == Text!Placed(q, act, place) IN
         /\ r \in PopupType /\ r.live = q.live /\ r.mapped = q.mapped
         /\ ~r.mapped => r.under = "hidden"
         /\ act = None => r.under = "hidden"
         /\ act # None /\ place # None => r.under \in {"hidden", place}
         /\ act # None /\ place = None => r = q
<1> DEFINE r == Text!Placed(q, act, place)
<1>1. CASE act = None
  <2>1. r = [q EXCEPT !.under = "hidden"] BY <1>1 DEF Text!Placed
  <2> QED BY <1>1, <2>1 DEF PopupType
<1>2. CASE act # None /\ q.live /\ q.mapped /\ place # None
  <2>1. r = [q EXCEPT !.under = place] BY <1>2 DEF Text!Placed
  <2>2. place \in Surfaces BY <1>2
  <2> QED BY <1>2, <2>1, <2>2 DEF PopupType
<1>3. CASE act # None /\ ~(q.live /\ q.mapped /\ place # None)
  <2>1. r = q BY <1>3 DEF Text!Placed
  <2> QED BY <1>3, <2>1
<1> QED BY <1>1, <1>2, <1>3

\* What every path that sets the field does to the popups.
LEMMA PopupsForWell ==
  ASSUME TextInv, NEW act \in Inputs \cup {None}, NEW place \in Surfaces \cup {None},
         popup' = Text!PopupsFor(act, place), method # "none", method' # "none"
  PROVE  /\ popup' \in [Popups -> PopupType] /\ PopupsAreMade'
         /\ \A q \in Popups : act = None => popup'[q].under = "hidden"
         /\ \A q \in Popups : act # None /\ place # None => popup'[q].under \in {"hidden", place}
         /\ \A q \in Popups : act # None /\ place = None => popup'[q] = popup[q]
<1> USE DEF TextInv
<1>1. ASSUME NEW q \in Popups
      PROVE LET r == popup'[q] IN
            /\ r \in PopupType /\ r.live = popup[q].live /\ r.mapped = popup[q].mapped
            /\ ~r.mapped => r.under = "hidden"
            /\ act = None => r.under = "hidden"
            /\ act # None /\ place # None => r.under \in {"hidden", place}
            /\ act # None /\ place = None => r = popup[q]
  <2>1. popup[q] \in PopupType /\ (~popup[q].mapped => popup[q].under = "hidden") /\ (popup[q].mapped => popup[q].live)
    BY DEF Text!TypeOK, PopupType, PopupsAreMade
  <2>2. popup'[q] = IF popup[q].live THEN Text!Placed(popup[q], act, place) ELSE popup[q] BY DEF Text!PopupsFor
  <2>3. CASE popup[q].live
    <3> DEFINE r == Text!Placed(popup[q], act, place)
    <3>1. /\ r \in PopupType /\ r.live = popup[q].live /\ r.mapped = popup[q].mapped
          /\ ~r.mapped => r.under = "hidden"
          /\ act = None => r.under = "hidden"
          /\ act # None /\ place # None => r.under \in {"hidden", place}
          /\ act # None /\ place = None => r = popup[q]
      BY <2>1, PlacedWell
    <3> HIDE DEF r
    <3>2. popup'[q] = r BY <2>2, <2>3 DEF r
    <3> QED BY <3>1, <3>2
  <2>4. CASE ~popup[q].live BY <2>1, <2>2, <2>4
  <2> QED BY <2>3, <2>4
<1>2. popup' = [q \in Popups |-> popup'[q]] BY DEF Text!PopupsFor
<1>3. popup' \in [Popups -> PopupType] BY <1>1, <1>2
<1> QED BY <1>1, <1>3 DEF PopupsAreMade

\* The field let go.
LEMMA DisableWell ==
  ASSUME TextInv, Text!DisableField
  PROVE  /\ rActive' = None /\ method' \in {"none", "idle"} /\ hiding' \in BOOLEAN /\ UNCHANGED <<touched, board>>
         /\ (method' = "none") = (method = "none") /\ (board' => hiding')
         /\ popup' \in [Popups -> PopupType] /\ PopupsAreMade' /\ \A q \in Popups : popup'[q].under = "hidden"
<1> USE DEF Text!DisableField, Text!FieldGone
<1>1. hiding' \in BOOLEAN /\ (board' => hiding') BY DEF TextInv, Text!TypeOK
<1>2. CASE method = "none" BY <1>1, <1>2 DEF TextInv, Text!TypeOK, PopupType, PopupsAreMade
<1>3. CASE method # "none"
  <2>1. method' = "idle" /\ popup' = Text!PopupsFor(None, None) BY <1>3
  <2>2. /\ popup' \in [Popups -> PopupType] /\ PopupsAreMade'
        /\ \A q \in Popups : popup'[q].under = "hidden"
    BY <1>3, <2>1, PopupsForWell
  <2> QED BY <1>1, <1>3, <2>1, <2>2
<1> QED BY <1>2, <1>3

\* What the parts of the invariant need of a step that only handles one field.
Handled(new) ==
    /\ rActive' \in Inputs \cup {None} /\ method' \in {"none", "idle", "active"}
    /\ touched' \in {"no", "fresh", "stale"} /\ board' \in BOOLEAN /\ hiding' \in BOOLEAN
    /\ popup' \in [Popups -> PopupType] /\ PopupsAreMade'
    /\ rActive' # None => new[rActive'].live
    /\ Text!MethodKnowsField' /\ Text!BoardFollowsField'
    /\ \A q \in Popups : popup'[q].under # "hidden" => rActive' # None /\ new[rActive'].at \in {popup'[q].under, None}

\* With the field let go nothing is left to be wrong.
LEMMA DisabledHandled ==
  ASSUME TextInv, Text!DisableField, NEW new
  PROVE  Handled(new)
<1>1. /\ rActive' = None /\ method' \in {"none", "idle"} /\ hiding' \in BOOLEAN /\ UNCHANGED <<touched, board>>
      /\ (board' => hiding')
      /\ popup' \in [Popups -> PopupType] /\ PopupsAreMade' /\ \A q \in Popups : popup'[q].under = "hidden"
  BY DisableWell
<1> QED BY <1>1 DEF Handled, Text!MethodKnowsField, Text!BoardFollowsField, TextInv, Text!TypeOK

\* A step that leaves the field alone.
LEMMA KeptHandled ==
  ASSUME TextInv, Text!KeepField, NEW new,
         rActive # None => new[rActive].live /\ new[rActive].at \in {input[rActive].at, None}
  PROVE  Handled(new)
<1> USE DEF Text!KeepField, TextInv, Text!RelayIsSound
<1>1. ASSUME NEW q \in Popups, popup'[q].under # "hidden"
      PROVE rActive' # None /\ new[rActive'].at \in {popup'[q].under, None}
  BY <1>1 DEF Text!PopupsFollowField
<1>2. popup' \in [Popups -> PopupType] BY DEF Text!TypeOK, PopupType
<1>3. PopupsAreMade' BY DEF PopupsAreMade
<1> QED BY <1>1, <1>2, <1>3 DEF Handled, Text!TypeOK, Text!MethodKnowsField, Text!BoardFollowsField

\* From the field to the whole invariant.
LEMMA HandledSound ==
  ASSUME TextInv, Handled(input'), rSteps' \in 0..TextEvents, input' \in [Inputs -> FieldType],
         there' \subseteq Surfaces, rFocus' \in Surfaces \cup {None}, grab' \in BOOLEAN,
         \A f \in Inputs : input'[f].at \in {rFocus', None}
  PROVE  TextInv'
<1>1. Text!TypeOK' BY DEF Handled, Text!TypeOK, FieldType, PopupType
<1>2. Text!FieldsFollowFocus' BY DEF Handled, Text!FieldsFollowFocus
<1>3. Text!PopupsFollowField' BY DEF Handled, Text!PopupsFollowField
<1> QED BY <1>1, <1>2, <1>3 DEF TextInv, Handled, Text!RelayIsSound

\* The focus moves: the fields on the old surface are left.
LEMMA FocusWell ==
  ASSUME TextInv, rSteps' \in 0..TextEvents, NEW s \in Surfaces \cup {None}, Text!FocusTo(s)
  PROVE  TextInv'
<1> DEFINE kept(f) == input[f].at # None /\ input[f].at = s
           left == [f \in Inputs |-> IF kept(f) THEN input[f] ELSE [input[f] EXCEPT !.at = None]]
           enters(f) == input[f].live /\ left[f].at = None /\ s # None /\ ClientOf[f] = ClientOf[s]
<1>1. /\ rFocus' = s /\ there' = there /\ grab' = grab
      /\ input' = [f \in Inputs |-> IF enters(f) THEN [left[f] EXCEPT !.at = s] ELSE left[f]]
      /\ IF rActive # None /\ ~kept(rActive) THEN Text!DisableField ELSE Text!KeepField
  BY DEF Text!FocusTo, Text!FocusOn
<1>2. Text!TypeOK /\ input \in [Inputs -> FieldType] BY DEF TextInv, Text!TypeOK, FieldType
<1>3. ASSUME NEW f \in Inputs
      PROVE /\ left[f] \in FieldType /\ left[f].live = input[f].live /\ left[f].at \in {s, None}
            /\ kept(f) => left[f].at = s /\ s # None
    BY <1>2 DEF FieldType
<1>4. ASSUME NEW f \in Inputs
      PROVE /\ input'[f] \in FieldType /\ input'[f].live = input[f].live /\ input'[f].at \in {s, None}
            /\ kept(f) => input'[f].at = s
  <2>1. left[f] \in FieldType /\ [left[f] EXCEPT !.at = s] \in FieldType BY <1>3 DEF FieldType
  <2>2. input'[f] = IF enters(f) THEN [left[f] EXCEPT !.at = s] ELSE left[f] BY <1>1
  <2> QED BY <1>3, <2>1, <2>2 DEF FieldType
<1>5. input' \in [Inputs -> FieldType]
  <2> HIDE DEF left, enters
  <2>1. input' = [f \in Inputs |-> input'[f]] BY <1>1
  <2> QED BY <1>4, <2>1
<1>6. Handled(input')
  <2>1. CASE rActive # None /\ ~kept(rActive) BY <1>1, <2>1, DisabledHandled
  <2>2. CASE ~(rActive # None /\ ~kept(rActive))
    <3>1. Text!KeepField BY <1>1, <2>2
    <3>2. rActive # None => input'[rActive].live /\ input'[rActive].at \in {input[rActive].at, None}
      <4>1. rActive # None => rActive \in Inputs /\ kept(rActive) BY <1>2, <2>2 DEF Text!TypeOK
      <4>2. rActive # None => input[rActive].live BY DEF TextInv, Text!RelayIsSound, Text!FieldsFollowFocus
      <4> QED BY <1>4, <4>1, <4>2
    <3> QED BY <3>1, <3>2, KeptHandled
  <2> QED BY <2>1, <2>2
<1>7. \A f \in Inputs : input'[f].at \in {rFocus', None} BY <1>1, <1>4
<1>8. there' \subseteq Surfaces /\ rFocus' \in Surfaces \cup {None} /\ grab' \in BOOLEAN BY <1>1, <1>2 DEF Text!TypeOK
<1> QED BY <1>5, <1>6, <1>7, <1>8, HandledSound

\* A surface goes: its fields are nowhere until the focus moves on.
LEMMA SurfaceGoesWell ==
  ASSUME TextInv, rSteps' \in 0..TextEvents, NEW s \in Surfaces \cup {None}, Text!SurfaceGoes(s)
  PROVE  TextInv'
<1> USE DEF Text!SurfaceGoes
<1>1. Text!TypeOK /\ input \in [Inputs -> FieldType] BY DEF TextInv, Text!TypeOK, FieldType
<1>2. ASSUME NEW f \in Inputs
      PROVE input'[f] \in FieldType /\ input'[f].live = input[f].live /\ input'[f].at \in {input[f].at, None}
  BY <1>1 DEF FieldType
<1>3. input' \in [Inputs -> FieldType]
  <2>1. input' = [f \in Inputs |-> input'[f]] OBVIOUS
  <2> QED BY <1>2, <2>1
<1>4. rActive # None => input'[rActive].live /\ input'[rActive].at \in {input[rActive].at, None}
  BY <1>1, <1>2 DEF TextInv, Text!RelayIsSound, Text!FieldsFollowFocus, Text!TypeOK
<1>5. Handled(input') BY <1>4, KeptHandled DEF Text!KeepField
<1>6. \A f \in Inputs : input'[f].at \in {rFocus', None} BY <1>2 DEF TextInv, Text!RelayIsSound, Text!FieldsFollowFocus
<1>7. there' \subseteq Surfaces /\ rFocus' \in Surfaces \cup {None} /\ grab' \in BOOLEAN BY <1>1 DEF Text!TypeOK
<1> QED BY <1>3, <1>5, <1>6, <1>7, HandledSound

\* A text input is made, and entered if its surface has the focus.
LEMMA BindWell ==
  ASSUME TextInv, rSteps' \in 0..TextEvents, NEW f \in Inputs, Text!BindInput(f)
  PROVE  TextInv'
<1>1. Text!TypeOK /\ input \in [Inputs -> FieldType] BY DEF TextInv, Text!TypeOK, FieldType
<1> DEFINE place == IF rFocus \in there /\ ClientOf[f] = ClientOf[rFocus] THEN rFocus ELSE None
           made == [live |-> TRUE, on |-> FALSE, at |-> place]
<1>2. /\ ~input[f].live /\ input' = [input EXCEPT ![f] = made] /\ UNCHANGED <<there, rFocus, grab>> /\ Text!KeepField
  BY DEF Text!BindInput
<1>3. place \in Surfaces \cup {None} /\ place \in {rFocus, None} BY <1>1 DEF Text!TypeOK
<1> HIDE DEF place
<1>4. made \in FieldType /\ made.at = place BY <1>3 DEF FieldType
<1> HIDE DEF made
<1>5. input' \in [Inputs -> FieldType] BY <1>1, <1>2, <1>4
<1>6. rActive # None => rActive \in Inputs /\ input[rActive].live
  BY <1>1 DEF TextInv, Text!RelayIsSound, Text!FieldsFollowFocus, Text!TypeOK
<1>7. rActive # None => input'[rActive] = input[rActive] BY <1>1, <1>2, <1>6
<1>8. Handled(input') BY <1>2, <1>6, <1>7, KeptHandled
<1>9. \A h \in Inputs : input'[h].at \in {rFocus', None}
  BY <1>1, <1>2, <1>3, <1>4 DEF TextInv, Text!RelayIsSound, Text!FieldsFollowFocus
<1>10. there' \subseteq Surfaces /\ rFocus' \in Surfaces \cup {None} /\ grab' \in BOOLEAN BY <1>1, <1>2 DEF Text!TypeOK
<1> QED BY <1>5, <1>8, <1>9, <1>10, HandledSound

\* An enabled field or its commit.
LEMMA ActiveHandled ==
  ASSUME TextInv, NEW f \in Inputs, Text!FieldActive, rActive' = f, NEW new, new[f].live, new[f].at = input[f].at,
         rActive = None => input[f].at # None, rActive \in {None, f},
         method' = IF method = "none" THEN "none" ELSE "active",
         popup' = IF method = "none" THEN popup ELSE Text!PopupsFor(f, input[f].at)
  PROVE  Handled(new)
<1>1. Text!TypeOK /\ f # None /\ input[f].at \in Surfaces \cup {None} /\ f \in Inputs \cup {None}
  BY NoneIsNone DEF TextInv, Text!TypeOK
<1>2. /\ rActive' \in Inputs \cup {None} /\ method' \in {"none", "idle", "active"} /\ touched' = "no" /\ board' \in BOOLEAN
      /\ hiding' = FALSE /\ hiding' \in BOOLEAN
      /\ Text!MethodKnowsField' /\ Text!BoardFollowsField'
  BY <1>1 DEF Text!FieldActive, Text!TypeOK, Text!MethodKnowsField, Text!BoardFollowsField
<1>3. /\ popup' \in [Popups -> PopupType] /\ PopupsAreMade'
      /\ \A q \in Popups : popup'[q].under # "hidden" => input[f].at \in {popup'[q].under, None}
  <2>1. CASE method = "none"
    <3>1. popup' = popup /\ method' = "none" BY <2>1
    <3>2. \A q \in Popups : popup[q].under = "hidden" BY <2>1 DEF TextInv, PopupsAreMade
    <3> QED BY <1>1, <2>1, <3>1, <3>2 DEF TextInv, Text!TypeOK, PopupType, PopupsAreMade
  <2>2. CASE method # "none"
    <3>1. popup' = Text!PopupsFor(f, input[f].at) /\ method' = "active" BY <2>2
    <3>2. /\ popup' \in [Popups -> PopupType] /\ PopupsAreMade'
          /\ \A q \in Popups : input[f].at # None => popup'[q].under \in {"hidden", input[f].at}
          /\ \A q \in Popups : input[f].at = None => popup'[q] = popup[q]
      BY <1>1, <2>2, <3>1, PopupsForWell
    <3> QED BY <3>2
  <2> QED BY <2>1, <2>2
<1> QED BY <1>1, <1>2, <1>3 DEF Handled

\* A client's commit enables, disables or updates its field.
LEMMA CommitWell ==
  ASSUME TextInv, rSteps' \in 0..TextEvents, NEW f \in Inputs, NEW b \in BOOLEAN, Text!ClientCommits(f, b)
  PROVE  TextInv'
<1>1. Text!TypeOK /\ input \in [Inputs -> FieldType] BY DEF TextInv, Text!TypeOK, FieldType
<1>2. /\ input[f].live /\ input' = [input EXCEPT ![f].on = b] /\ UNCHANGED <<there, rFocus, grab>>
      /\ Text!Enabled(f) \/ Text!Disabled(f) \/ Text!Committed(f)
  BY DEF Text!ClientCommits
<1>3. /\ input' \in [Inputs -> FieldType]
      /\ \A h \in Inputs : input'[h].live = input[h].live /\ input'[h].at = input[h].at
  BY <1>1, <1>2 DEF FieldType
<1>4. rActive \in Inputs \cup {None} /\ (rActive # None => input[rActive].live)
  BY <1>1 DEF TextInv, Text!RelayIsSound, Text!FieldsFollowFocus, Text!TypeOK
<1>5. CASE Text!KeepField
  <2>1. rActive # None => input'[rActive].live /\ input'[rActive].at \in {input[rActive].at, None} BY <1>3, <1>4
  <2> QED BY <1>1, <1>2, <1>3, <1>5, <2>1, KeptHandled, HandledSound
        DEF Text!TypeOK, TextInv, Text!RelayIsSound, Text!FieldsFollowFocus
<1>6. CASE Handled(input')
  BY <1>1, <1>2, <1>3, <1>6, HandledSound DEF Text!TypeOK, TextInv, Text!RelayIsSound, Text!FieldsFollowFocus
<1>7. CASE Text!Enabled(f)
  <2>1. CASE input[f].at = None \/ rActive \notin {None, f} BY <1>5, <1>7, <2>1 DEF Text!Enabled
  <2>2. CASE ~(input[f].at = None \/ rActive \notin {None, f})
    <3>1. /\ rActive' = f /\ Text!FieldActive /\ method' = (IF method = "none" THEN "none" ELSE "active")
          /\ popup' = IF method = "none" THEN popup ELSE Text!PopupsFor(f, input[f].at)
      BY <1>7, <2>2 DEF Text!Enabled
    <3>2. Handled(input') BY <1>2, <1>3, <2>2, <3>1, ActiveHandled
    <3> QED BY <1>6, <3>2
  <2> QED BY <2>1, <2>2
<1>8. CASE Text!Committed(f)
  <2>1. CASE rActive # f BY <1>5, <1>8, <2>1 DEF Text!Committed
  <2>2. CASE rActive = f
    <3>1. /\ rActive' = f /\ Text!FieldActive /\ method' = method
          /\ popup' = IF method = "none" THEN popup ELSE Text!PopupsFor(f, input[f].at)
      BY <1>8, <2>2 DEF Text!Committed
    <3>2. f # None BY NoneIsNone
    <3>3. method = "none" \/ method = "active"
      BY <2>2, <3>2 DEF TextInv, Text!RelayIsSound, Text!MethodKnowsField, Text!TypeOK
    <3>4. Handled(input') BY <1>2, <1>3, <2>2, <3>1, <3>2, <3>3, ActiveHandled
    <3> QED BY <1>6, <3>4
  <2> QED BY <2>1, <2>2
<1>9. CASE Text!Disabled(f)
  <2>1. Text!DisableField \/ Text!KeepField BY <1>9 DEF Text!Disabled
  <2> QED BY <1>5, <1>6, <2>1, DisabledHandled
<1> QED BY <1>2, <1>7, <1>8, <1>9

\* A text input goes.
LEMMA DestroyInputWell ==
  ASSUME TextInv, rSteps' \in 0..TextEvents, NEW f \in Inputs, Text!DestroyInput(f)
  PROVE  TextInv'
<1>1. Text!TypeOK /\ input \in [Inputs -> FieldType] BY DEF TextInv, Text!TypeOK, FieldType
<1>2. /\ input' = [input EXCEPT ![f] = Text!Out] /\ UNCHANGED <<there, rFocus, grab>>
      /\ IF rActive = f THEN Text!DisableField ELSE Text!KeepField
  BY DEF Text!DestroyInput, Text!Disabled
<1>3. Text!Out \in FieldType /\ Text!Out.at = None BY DEF Text!Out, FieldType
<1>4. input' \in [Inputs -> FieldType] BY <1>1, <1>2, <1>3
<1>5. \A h \in Inputs : input'[h].at \in {rFocus', None}
  BY <1>1, <1>2, <1>3 DEF TextInv, Text!RelayIsSound, Text!FieldsFollowFocus
<1>6. Handled(input')
  <2>1. CASE rActive = f BY <1>2, <2>1, DisabledHandled
  <2>2. CASE rActive # f
    <3>1. rActive # None => rActive \in Inputs /\ input[rActive].live
      BY <1>1 DEF TextInv, Text!RelayIsSound, Text!FieldsFollowFocus, Text!TypeOK
    <3>2. rActive # None => input'[rActive] = input[rActive] BY <1>1, <1>2, <2>2, <3>1
    <3> QED BY <1>2, <2>2, <3>1, <3>2, KeptHandled
  <2> QED BY <2>1, <2>2
<1>7. there' \subseteq Surfaces /\ rFocus' \in Surfaces \cup {None} /\ grab' \in BOOLEAN BY <1>1, <1>2 DEF Text!TypeOK
<1> QED BY <1>4, <1>5, <1>6, <1>7, HandledSound

\* A popup alone changes.
LEMMA PopupWell ==
  ASSUME TextInv, rSteps' \in 0..TextEvents, NEW q \in Popups, NEW r \in PopupType, popup' = [popup EXCEPT ![q] = r],
         UNCHANGED <<input, there, rFocus, rActive, method, grab, touched, board, hiding>>,
         ~r.mapped => r.under = "hidden", r.mapped => r.live, method = "none" => ~r.live,
         r.under # "hidden" => rActive # None /\ input[rActive].at \in {r.under, None}
  PROVE  TextInv'
<1>1. popup \in [Popups -> PopupType] BY DEF TextInv, Text!TypeOK, PopupType
<1>2. popup' \in [Popups -> PopupType] /\ \A o \in Popups : popup'[o] = IF o = q THEN r ELSE popup[o] BY <1>1
<1>3. Text!TypeOK' BY <1>2 DEF TextInv, Text!TypeOK, PopupType
<1>4. PopupsAreMade' BY <1>2 DEF TextInv, PopupsAreMade
<1>5. Text!PopupsFollowField' BY <1>2 DEF TextInv, Text!RelayIsSound, Text!PopupsFollowField
<1> QED BY <1>3, <1>4, <1>5 DEF TextInv, Text!RelayIsSound, Text!FieldsFollowFocus, Text!MethodKnowsField, Text!BoardFollowsField

\* A popup put under the field.
LEMMA PutWell ==
  ASSUME TextInv, rSteps' \in 0..TextEvents, NEW q \in Popups, NEW o \in PopupType, o.under = "hidden", o.live, method # "none",
         popup' = [popup EXCEPT ![q] = Text!Placed(o, rActive, Text!FieldAt)],
         UNCHANGED <<input, there, rFocus, rActive, method, grab, touched, board, hiding>>
  PROVE  TextInv'
<1> DEFINE r == Text!Placed(o, rActive, Text!FieldAt)
<1>1. rActive \in Inputs \cup {None} /\ Text!FieldAt \in Surfaces \cup {None}
  BY DEF TextInv, Text!TypeOK, Text!FieldAt
<1>2. /\ r \in PopupType /\ r.live = o.live /\ r.mapped = o.mapped
      /\ ~r.mapped => r.under = "hidden"
      /\ rActive = None => r.under = "hidden"
      /\ rActive # None /\ Text!FieldAt # None => r.under \in {"hidden", Text!FieldAt}
      /\ rActive # None /\ Text!FieldAt = None => r = o
  BY <1>1, PlacedWell
<1>3. r.under # "hidden" => rActive # None /\ input[rActive].at \in {r.under, None} BY <1>2 DEF Text!FieldAt
<1> HIDE DEF r
<1>4. popup' = [popup EXCEPT ![q] = r] BY DEF r
<1> QED BY <1>2, <1>3, <1>4, PopupWell

\* Every step of the relay keeps its invariant.
LEMMA TextNext == TextInv /\ [Text!Next]_(Text!textVars) => TextInv'
<1> SUFFICES ASSUME TextInv, [Text!Next]_(Text!textVars) PROVE TextInv' OBVIOUS
<1>1. /\ Text!TypeOK /\ popup \in [Popups -> PopupType] /\ rSteps \in 0..TextEvents
      /\ \A q \in Popups : popup[q].mapped => popup[q].live
      /\ \A q \in Popups : ~popup[q].mapped => popup[q].under = "hidden"
      /\ method = "none" => \A q \in Popups : ~popup[q].live
  BY DEF TextInv, Text!TypeOK, PopupsAreMade, PopupType
<1>u. Text!Unmade \in PopupType /\ Text!Unmade.under = "hidden" /\ ~Text!Unmade.live /\ ~Text!Unmade.mapped
  BY DEF Text!Unmade, PopupType
<1>q. ASSUME rSteps' \in 0..TextEvents, UNCHANGED <<input, there, rFocus, rActive, popup>>,
             method' \in {"none", "idle", "active"}, method' = "none" => method = "none", Text!MethodKnowsField',
             grab' \in BOOLEAN, touched' \in {"no", "fresh", "stale"}, board' \in BOOLEAN, hiding' \in BOOLEAN, Text!BoardFollowsField'
      PROVE TextInv'
  <2>1. Text!TypeOK' BY <1>1, <1>q DEF Text!TypeOK
  <2>2. PopupsAreMade' BY <1>q DEF TextInv, PopupsAreMade
  <2> QED BY <1>q, <2>1, <2>2 DEF TextInv, Text!RelayIsSound, Text!FieldsFollowFocus, Text!PopupsFollowField
<1>2. CASE Text!Next
  <2>1. rSteps' \in 0..TextEvents BY <1>1, <1>2, BoundsAssumption DEF Text!Next
  <2>2. ASSUME NEW s \in Surfaces \cup {None}, Text!FocusTo(s) \/ Text!SurfaceGoes(s) PROVE TextInv'
    BY <2>1, <2>2, FocusWell, SurfaceGoesWell
  <2>3. ASSUME NEW f \in Inputs, Text!BindInput(f) \/ Text!DestroyInput(f) \/ \E b \in BOOLEAN : Text!ClientCommits(f, b) PROVE TextInv'
    BY <2>1, <2>3, BindWell, DestroyInputWell, CommitWell
  <2>4. CASE Text!NewMethod
    <3> USE DEF Text!NewMethod
    <3>1. Text!MethodKnowsField' BY <2>4 DEF Text!MethodKnowsField
    <3>2. Text!BoardFollowsField' BY <2>4 DEF Text!BoardFollowsField, TextInv, Text!RelayIsSound
    <3>3. method' \in {"none", "idle", "active"} /\ method' # "none" /\ UNCHANGED <<input, there, rFocus, rActive, popup, grab, touched, board, hiding>>
      BY <2>4
    <3> HIDE DEF Text!NewMethod
    <3> QED BY <1>1, <1>q, <2>1, <3>1, <3>2, <3>3 DEF Text!TypeOK
  <2>5. CASE Text!DestroyMethod
    <3> USE DEF Text!DestroyMethod
    <3>1. popup' \in [Popups -> PopupType] /\ \A q \in Popups : popup'[q] = Text!Unmade BY <1>u, <2>5
    <3>2. Text!TypeOK' BY <1>1, <2>1, <2>5, <3>1 DEF Text!TypeOK, PopupType
    <3>3. PopupsAreMade' BY <1>u, <3>1 DEF PopupsAreMade
    <3>4. Text!PopupsFollowField' BY <1>u, <3>1 DEF Text!PopupsFollowField
    <3>5. Text!MethodKnowsField' /\ Text!FieldsFollowFocus' /\ Text!BoardFollowsField'
      BY <2>5 DEF Text!MethodKnowsField, TextInv, Text!RelayIsSound, Text!FieldsFollowFocus, Text!BoardFollowsField
    <3> QED BY <3>2, <3>3, <3>4, <3>5 DEF TextInv, Text!RelayIsSound
  <2>6. CASE Text!Grab
    <3>1. (~grab) \in BOOLEAN OBVIOUS
    <3> QED BY <1>1, <1>q, <2>1, <2>6, <3>1 DEF Text!Grab, Text!TypeOK, Text!MethodKnowsField, Text!BoardFollowsField, TextInv, Text!RelayIsSound
  <2>7. CASE Text!Touch
    BY <1>1, <1>q, <2>1, <2>7 DEF Text!Touch, Text!TypeOK, Text!MethodKnowsField, Text!BoardFollowsField, TextInv, Text!RelayIsSound
  <2>8. ASSUME NEW q \in Popups, Text!NewPopup(q) PROVE TextInv'
    <3> DEFINE o == [Text!Unmade EXCEPT !.live = TRUE]
    <3>1. o \in PopupType /\ o.under = "hidden" /\ o.live BY DEF Text!Unmade, PopupType
    <3>2. /\ method # "none" /\ popup' = [popup EXCEPT ![q] = Text!Placed(o, rActive, Text!FieldAt)]
          /\ UNCHANGED <<input, there, rFocus, rActive, method, grab, touched, board, hiding>>
      BY <2>8 DEF Text!NewPopup
    <3> HIDE DEF o
    <3> QED BY <2>1, <3>1, <3>2, PutWell
  <2>9. ASSUME NEW q \in Popups, Text!MapPopup(q) PROVE TextInv'
    <3> DEFINE o == [popup[q] EXCEPT !.mapped = TRUE]
    <3>1. popup[q] \in PopupType /\ popup[q].live /\ ~popup[q].mapped /\ popup[q].under = "hidden" /\ method # "none"
      BY <1>1, <2>9 DEF Text!MapPopup
    <3>2. o \in PopupType /\ o.under = "hidden" /\ o.live BY <3>1 DEF PopupType
    <3>3. /\ popup' = [popup EXCEPT ![q] = Text!Placed(o, rActive, Text!FieldAt)]
          /\ UNCHANGED <<input, there, rFocus, rActive, method, grab, touched, board, hiding>>
      BY <1>1, <2>9 DEF Text!MapPopup
    <3> HIDE DEF o
    <3> QED BY <2>1, <3>1, <3>2, <3>3, PutWell
  <2>10. ASSUME NEW q \in Popups, Text!UnmapPopup(q) PROVE TextInv'
    <3> DEFINE o == [popup[q] EXCEPT !.mapped = FALSE, !.under = "hidden"]
    <3>1. popup[q] \in PopupType /\ (method = "none" => ~popup[q].live) BY <1>1
    <3>2. o \in PopupType /\ o.under = "hidden" /\ o.live = popup[q].live /\ ~o.mapped BY <3>1 DEF PopupType
    <3>3. /\ popup' = [popup EXCEPT ![q] = o]
          /\ UNCHANGED <<input, there, rFocus, rActive, method, grab, touched, board, hiding>>
      BY <1>1, <2>10 DEF Text!UnmapPopup
    <3> HIDE DEF o
    <3> QED BY <2>1, <3>1, <3>2, <3>3, PopupWell
  <2>11. ASSUME NEW q \in Popups, Text!DestroyPopup(q) PROVE TextInv'
    BY <1>u, <2>1, <2>11, PopupWell DEF Text!DestroyPopup
  <2>12. CASE Text!TouchAges
    BY <1>1, <1>q, <2>1, <2>12 DEF Text!TouchAges, Text!TypeOK, Text!MethodKnowsField, Text!BoardFollowsField, TextInv, Text!RelayIsSound
  <2>13. CASE Text!HideTimer
    <3>1. FALSE \in BOOLEAN OBVIOUS
    <3> QED BY <1>1, <1>q, <2>1, <2>13, <3>1 DEF Text!HideTimer, Text!TypeOK, Text!MethodKnowsField, Text!BoardFollowsField, TextInv, Text!RelayIsSound
  <2> QED BY <1>2, <2>2, <2>3, <2>4, <2>5, <2>6, <2>7, <2>8, <2>9, <2>10, <2>11, <2>12, <2>13 DEF Text!Next
<1>3. CASE UNCHANGED Text!textVars
  <2>1. UNCHANGED <<input, there, rFocus, rActive, popup, method, grab, touched, board, hiding, rSteps>> BY <1>3 DEF Text!textVars
  <2> QED BY <1>1, <1>q, <2>1 DEF Text!TypeOK, Text!MethodKnowsField, Text!BoardFollowsField, TextInv, Text!RelayIsSound
<1> QED BY <1>2, <1>3

-----------------------------------------------------------------------------
(* The parts together.                                                     *)

\* Each part keeps its invariant, whoever moves.
LEMMA FocusPartSteps ==
  ASSUME [Next]_vars
  PROVE  /\ Focus!Next \/ UNCHANGED focusVars
         /\ [Text!Next]_(Text!textVars)
         /\ Switch!Next \/ UNCHANGED switchVars
<1> USE DEF vars, restVars, focusVars, textVars, Text!textVars, switchVars
<1>1. Focus!Next \/ UNCHANGED focusVars BY DEF Next
<1>2. [Text!Next]_(Text!textVars) BY DEF Next
<1>3. Switch!Next \/ UNCHANGED switchVars BY DEF Next
<1> QED BY <1>1, <1>2, <1>3

\* The keyboard is with a window, layer surface, menu or lock that is there, and the
\* surface scheduled for it is mapped (seat.rs, layer_shell.rs,
\* xwayland_override_redirect.rs); text goes to the field that asked (input_relay.rs);
\* there is one chooser, which offers and gives the focus to what it listed, and
\* focus-next comes to every window before it comes to one twice
\* (window_manager/switcher.rs, focus_cycle_order).
THEOREM FocusSound == Spec => []FocusIsSound
<1>1. Init => FocusInv /\ TextInv /\ SwitchInv
  BY FocusInvInit, TextInit, SwitchInit, BoundsAssumption DEF Init
<1>2. FocusInv /\ [Next]_vars => FocusInv'
  BY FocusPartSteps, FocusInvStep, FocusInvStutter, BoundsAssumption
<1>3. TextInv /\ [Next]_vars => TextInv' BY FocusPartSteps, TextNext
<1>4. SwitchInv /\ [Next]_vars => SwitchInv' BY FocusPartSteps, SwitchStep, SwitchStutter
<1>5. FocusInv /\ TextInv /\ SwitchInv => FocusIsSound
  BY FocusInvSays, SwitchInvSays DEF FocusIsSound, TextInv
<1> QED BY <1>1, <1>2, <1>3, <1>4, <1>5, PTL DEF Spec
=============================================================================

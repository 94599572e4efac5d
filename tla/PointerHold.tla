---------------------------- MODULE PointerHold -----------------------------
(***************************************************************************)
(* Pointer constraints (pointer_constraint.rs, seat.rs:846).               *)
(*                                                                         *)
(* A client may ask that the pointer be locked to, or confined in, one of  *)
(* its surfaces.  The cursor holds the constraint of the surface with the  *)
(* keyboard focus, and the constraint is active once the pointer is over   *)
(* its region; a oneshot constraint goes with its first deactivation.      *)
(***************************************************************************)
EXTENDS Naturals, FiniteSets

CONSTANTS
    Constraints,
    Surfaces,
    Oneshot,    \* constraints that serve once
    Locking,    \* constraints that lock rather than confine
    MaxEvents,  \* bound: steps of a behaviour
    None

VARIABLES
    on,         \* the surface a constraint is for, or None
    region,     \* constraints whose region holds the pointer's place in the surface
    active,     \* constraints that hold the pointer (PointerConstraintState)
    held,       \* Cursor::constraint
    focus,      \* the surface with the keyboard
    over,       \* the surface under the pointer
    node,       \* surfaces that show (an enabled scene node)
    mode,       \* "normal", "overview" or "adjust"
    op,         \* the seat has a pointer op
    locked,     \* the last motion found the pointer locked
    steps

holdVars == <<on, region, active, held, focus, over, node, mode, op, locked, steps>>

TypeOK ==
    /\ on \in [Constraints -> Surfaces \cup {None}]
    /\ region \subseteq Constraints /\ active \subseteq Constraints
    /\ held \in Constraints \cup {None}
    /\ {focus, over} \subseteq Surfaces \cup {None} /\ node \subseteq Surfaces
    /\ mode \in {"normal", "overview", "adjust"} /\ op \in BOOLEAN /\ locked \in BOOLEAN
    /\ steps \in 0..MaxEvents

Init ==
    /\ on = [c \in Constraints |-> None] /\ region = {} /\ active = {} /\ held = None
    /\ focus = None /\ over = None /\ node = Surfaces /\ mode = "normal" /\ op = FALSE
    /\ locked = FALSE /\ steps = 0

AppliesNow == mode = "normal"

\* PointerConstraint::maybe_activate.
MayActivate(c) ==
    /\ held' = c /\ ~op /\ AppliesNow
    /\ over = on'[c] /\ c \in region' /\ over # None

\* A deactivation: a oneshot constraint is destroyed by it, and leaves the cursor
\* (flush_deactivation, handle_destroy).
Deactivate(c) ==
    /\ active' = active \ {c}
    /\ on' = IF c \in Oneshot THEN [on EXCEPT ![c] = None] ELSE on
    /\ held' = IF c \in Oneshot /\ held = c THEN None ELSE held

Keep == UNCHANGED <<on, active, held>>

\* PointerConstraint::create: one for the focused surface is held at once.
Create(c, s) ==
    /\ on[c] = None /\ \A d \in Constraints : on[d] # s
    /\ on' = [on EXCEPT ![c] = s]
    /\ region' \in {region \cup {c}, region \ {c}}
    /\ held' = IF focus = s /\ held = None THEN c ELSE held
    /\ active' = IF focus = s /\ held = None /\ MayActivate(c) THEN active \cup {c} ELSE active
    /\ UNCHANGED <<focus, over, node, mode, op, locked>>

\* handle_destroy, by the client.
Destroy(c) ==
    /\ on[c] # None
    /\ on' = [on EXCEPT ![c] = None] /\ active' = active \ {c}
    /\ held' = IF held = c THEN None ELSE held
    /\ UNCHANGED <<region, focus, over, node, mode, op, locked>>

\* Seat::sync_pointer_constraint: one on another surface stops, and the new
\* surface's is the cursor's from now on.
FocusTo(s) ==
    /\ s # focus /\ focus' = s
    /\ LET lost == held # None /\ on[held] # s
           stops == lost /\ held \in active
           left == IF stops /\ held \in Oneshot THEN [on EXCEPT ![held] = None] ELSE on
           theirs == {c \in Constraints : s # None /\ left[c] = s}
       IN /\ on' = left
          /\ active' = IF lost THEN active \ {held} ELSE active
          /\ held' = IF held # None /\ ~lost THEN held
                     ELSE IF theirs # {} THEN CHOOSE c \in theirs : TRUE ELSE None
    /\ UNCHANGED <<region, over, node, mode, op, locked>>

\* constrain_motion: an active constraint no longer wanted stops, a locking one
\* keeps the pointer, a confining one keeps it in the region; free, the pointer
\* may come over another surface or leave the region, and the cursor's next
\* state update activates the held one.
Moves(to, within) ==
    /\ over' = to
    /\ region' = IF held = None THEN region ELSE IF within THEN region \cup {held} ELSE region \ {held}

\* Mutant: an active constraint holds in any mode.
MotionHolds(to, within) ==
    /\ Keep /\ UNCHANGED <<focus, node, mode, op>>
    /\ IF held # None /\ held \in active
       THEN locked' = (held \in Locking) /\ UNCHANGED <<over, region>>
       ELSE locked' = FALSE /\ Moves(to, within)

Motion(to, within) ==
    /\ IF held # None /\ held \in active
       THEN IF ~AppliesNow THEN Deactivate(held) /\ Moves(to, within) /\ locked' = FALSE
            ELSE /\ Keep /\ UNCHANGED <<over, region>>
                 /\ locked' = (held \in Locking)
       ELSE Keep /\ Moves(to, within) /\ locked' = FALSE
    /\ UNCHANGED <<focus, node, mode, op>>

\* PointerConstraint::update_state, at the manage pass's end and after a
\* commit: it stops where it no longer applies, its node is hidden or its
\* region has moved from under the pointer.
UpdateState ==
    /\ held # None
    /\ IF ~AppliesNow
       THEN IF held \in active THEN Deactivate(held) ELSE Keep
       ELSE IF held \in active
            THEN IF on[held] \notin node \/ held \notin region THEN Deactivate(held) ELSE Keep
            ELSE /\ UNCHANGED <<on, held>>
                 /\ active' = IF ~op /\ over = on[held] /\ over \in node /\ held \in region
                              THEN active \cup {held} ELSE active
    /\ UNCHANGED <<region, focus, over, node, mode, op, locked>>

\* handle_commit: the client's region, or its surface's contents, have changed.
Commit(c, inside) ==
    /\ on[c] # None
    /\ region' = IF inside THEN region \cup {c} ELSE region \ {c}
    /\ IF c \in active THEN IF inside THEN Keep ELSE Deactivate(c)
       ELSE /\ UNCHANGED <<on, held>>
            /\ active' = IF held = c /\ MayActivate(c) THEN active \cup {c} ELSE active
    /\ UNCHANGED <<focus, over, node, mode, op, locked>>

\* handle_node_destroy: the surface's scene node goes.
NodeGoes(s) ==
    /\ s \in node /\ node' = node \ {s}
    /\ LET its == {c \in active : on[c] = s}
       IN IF its = {} THEN Keep ELSE Deactivate(CHOOSE c \in its : TRUE)
    /\ over' = IF over = s THEN None ELSE over
    /\ UNCHANGED <<region, focus, mode, op, locked>>

\* The session changes: overview, a Super-held adjust, an op; a surface shows
\* again.
Around ==
    /\ \/ mode' \in {"normal", "overview", "adjust"} \ {mode} /\ UNCHANGED <<op, node>>
       \/ op' = ~op /\ UNCHANGED <<mode, node>>
       \/ \E s \in Surfaces \ node : node' = node \cup {s} /\ UNCHANGED <<mode, op>>
    /\ UNCHANGED <<on, region, active, held, focus, over, locked>>

Next ==
    /\ steps < MaxEvents /\ steps' = steps + 1
    /\ \/ \E c \in Constraints :
            \/ \E s \in Surfaces : Create(c, s)
            \/ Destroy(c) \/ \E inside \in BOOLEAN : Commit(c, inside)
       \/ \E s \in Surfaces \cup {None} : FocusTo(s)
       \/ \E s \in node \cup {None}, within \in BOOLEAN : Motion(s, within)
       \/ \E s \in Surfaces : NodeGoes(s)
       \/ UpdateState \/ Around

Spec == Init /\ [][Next]_holdVars

-----------------------------------------------------------------------------
\* The cursor holds the constraint of the surface with the keyboard, whenever it
\* has one: no constraint is forgotten over a change of focus, and none outlives
\* its own surface's.
HeldFollowsFocus ==
    /\ held # None => on[held] = focus
    /\ \A c \in Constraints : on[c] # None /\ on[c] = focus => held = c

\* Only the held constraint is active.
ActiveIsHeld == active \subseteq {held} \ {None}

\* A pointer is locked only by a constraint of the focused surface, and never in
\* the overview or while a window is adjusted.
LocksOnlyWhereItMay ==
    [][~locked /\ locked' => held # None /\ on[held] = focus /\ AppliesNow]_holdVars

HoldIsSound == HeldFollowsFocus /\ ActiveIsHeld
=============================================================================

----------------------------- MODULE IdleInhibit -----------------------------
(***************************************************************************)
(* What keeps an idle machine awake: the inhibitors of Wayland clients, as *)
(* IdleInhibitManager (src/server/idle_inhibit_manager.rs) counts them, and *)
(* the leases of other processes that idle.rs grants over the control      *)
(* socket and drops when their holder does not renew them.                 *)
(*                                                                         *)
(* Time is counted in seconds, as in Idle, whose FlipInhibited is a change *)
(* of `awakeFlag` here.                                                    *)
(***************************************************************************)
EXTENDS Integers, FiniteSets, FiniteSetsExt

CONSTANTS
    Surfaces,       \* surfaces of clients
    Tokens,         \* tokens of leases
    Holder,         \* who asks for the lease of a token
    MaxLease        \* MAX_LEASE_S

VARIABLES
    registered,     \* the surfaces with an inhibitor in the registry
    inScene,        \* the surfaces with a scene node (SceneNodeData)
    passWanted,     \* a render pass is to come
    wayland,        \* wayland_inhibitors
    leases,         \* the tokens of `external`
    left,           \* per token: seconds to expires_ms
    leaseTimer,     \* lease_timer: seconds left, or Off
    names,          \* inhibitors, the merged list
    awakeFlag       \* IdleManager.inhibited

vars == <<registered, inScene, passWanted, wayland, leases, left, leaseTimer,
          names, awakeFlag>>

Off == -1

Init ==
    /\ registered = {}
    /\ inScene = {}
    /\ passWanted = FALSE
    /\ wayland = {}
    /\ leases = {}
    /\ left = [t \in Tokens |-> 0]
    /\ leaseTimer = Off
    /\ names = {}
    /\ awakeFlag = FALSE

-----------------------------------------------------------------------------
(* apply_inhibitors: the holders, and nothing to do while they are the same. *)
Merged(way, ext) == way \cup {Holder[t] : t \in ext}

ApplyInhibitors(way, ext) ==
    IF Merged(way, ext) = names
    THEN UNCHANGED <<names, awakeFlag>>
    ELSE names' = Merged(way, ext) /\ awakeFlag' = (Merged(way, ext) # {})

\* holders: the registered inhibitors whose surface is in the scene.
Holders(reg, scene) == reg \cap scene

\* publish, set_inhibitors.
Publish(reg, scene) ==
    /\ wayland' = Holders(reg, scene)
    /\ ApplyInhibitors(Holders(reg, scene), leases)

\* handle_new_idle_inhibitor and handle_inhibitor_destroy recount at once.
NewInhibitor(s) ==
    /\ s \notin registered
    /\ registered' = registered \cup {s}
    /\ Publish(registered', inScene)
    /\ UNCHANGED <<inScene, passWanted, leases, left, leaseTimer>>

DestroyInhibitor(s) ==
    /\ s \in registered
    /\ registered' = registered \ {s}
    /\ Publish(registered', inScene)
    /\ UNCHANGED <<inScene, passWanted, leases, left, leaseTimer>>

\* A window or layer surface comes or goes, which wants a new layout.
ChangeScene(s) ==
    /\ inScene' = IF s \in inScene THEN inScene \ {s} ELSE inScene \cup {s}
    /\ passWanted' = TRUE
    /\ UNCHANGED <<registered, wayland, leases, left, leaseTimer, names, awakeFlag>>

\* Mutant: a pass does not recount.
RenderFinishQuiet ==
    /\ passWanted
    /\ passWanted' = FALSE
    /\ UNCHANGED <<registered, inScene, wayland, leases, left, leaseTimer, names, awakeFlag>>

\* The end of a pass recounts (render_finish).
RenderFinish ==
    /\ passWanted
    /\ passWanted' = FALSE
    /\ Publish(registered, inScene)
    /\ UNCHANGED <<registered, inScene, leases, left, leaseTimer>>

-----------------------------------------------------------------------------
(* Leases.                                                                 *)

\* Mutant: a timer that runs is left as it is.
ArmLeaseTimerOnce(ext, rest) ==
    leaseTimer' = IF ext = {} THEN Off
                  ELSE IF leaseTimer # Off THEN leaseTimer
                  ELSE Min({rest[t] : t \in ext})

\* arm_lease_timer: to the first expiry.
ArmLeaseTimer(ext, rest) ==
    leaseTimer' = IF ext = {} THEN Off ELSE Min({rest[t] : t \in ext})

\* `idle inhibit`: grant_lease grants or renews.
Grant(t, ttl) ==
    /\ leases' = leases \cup {t}
    /\ left' = [left EXCEPT ![t] = ttl]
    /\ ArmLeaseTimer(leases', left')
    /\ ApplyInhibitors(wayland, leases')
    /\ UNCHANGED <<registered, inScene, passWanted, wayland>>

\* Mutant: the holders are not told apart anew.
EndLeasesQuiet(gone) ==
    /\ leases' = leases \ gone
    /\ ArmLeaseTimer(leases', left)
    /\ UNCHANGED <<left, registered, inScene, passWanted, wayland, names, awakeFlag>>

\* end_leases, expire_leases: the leases in `gone` end.
EndLeases(gone) ==
    /\ leases' = leases \ gone
    /\ ArmLeaseTimer(leases', left)
    /\ ApplyInhibitors(wayland, leases')
    /\ UNCHANGED <<left, registered, inScene, passWanted, wayland>>

\* `idle uninhibit` and `idle inhibit-clear`.
Uninhibit(t) == EndLeases({t})
InhibitClear == EndLeases(leases)

\* Mutant: the lease that is due at this very second is kept.
LeaseExpiryStrict ==
    /\ leaseTimer = 0
    /\ EndLeases({t \in leases : left[t] < 0})

\* handle_lease_expiry.
LeaseExpiry ==
    /\ leaseTimer = 0
    /\ EndLeases({t \in leases : left[t] <= 0})

\* A second passes; a timer that is due fires before.
Tick ==
    /\ leaseTimer # 0
    /\ leaseTimer' = IF leaseTimer = Off THEN Off ELSE leaseTimer - 1
    /\ left' = [t \in Tokens |-> IF t \in leases /\ left[t] >= 0 THEN left[t] - 1 ELSE left[t]]
    /\ UNCHANGED <<registered, inScene, passWanted, wayland, leases, names, awakeFlag>>

Next ==
    \/ \E s \in Surfaces : NewInhibitor(s)
    \/ \E s \in Surfaces : DestroyInhibitor(s)
    \/ \E s \in Surfaces : ChangeScene(s)
    \/ RenderFinish
    \/ \E t \in Tokens, ttl \in 1..MaxLease : Grant(t, ttl)
    \/ \E t \in leases : Uninhibit(t)
    \/ InhibitClear
    \/ LeaseExpiry
    \/ Tick

\* Time passes, a due timer fires, and a pass that is wanted comes.
Fairness ==
    /\ WF_vars(Tick)
    /\ WF_vars(LeaseExpiry)
    /\ WF_vars(RenderFinish)

Spec == Init /\ [][Next]_vars /\ Fairness

-----------------------------------------------------------------------------
(* Properties.                                                             *)

TypeOK ==
    /\ registered \subseteq Surfaces
    /\ inScene \subseteq Surfaces
    /\ passWanted \in BOOLEAN
    /\ wayland \subseteq Surfaces
    /\ leases \subseteq Tokens
    /\ left \in [Tokens -> Off..MaxLease]
    /\ leaseTimer \in Off..MaxLease
    /\ awakeFlag \in BOOLEAN

\* The machine is held awake exactly while somebody holds it: the early return of
\* apply_inhibitors never hides the last holder that leaves or the first to come,
\* also when two leases bear one name.
AwakeIffHeld ==
    /\ names = Merged(wayland, leases)
    /\ awakeFlag <=> wayland # {} \/ leases # {}

\* A lease never outlives its time ("bounds how long a dead holder's lease can
\* outlive it"): the one timer is always armed for the first lease to end.
NoLeaseOutlivesItself == \A t \in leases : left[t] >= 0

\* Between passes the holders counted are the inhibitors that are in the scene.
HoldersAreCurrent ==
    ~passWanted => wayland = Holders(registered, inScene)

\* Who is counted as holding the machine awake holds it awake, and nobody else does.
AwakeAsHeld == AwakeIffHeld /\ NoLeaseOutlivesItself /\ HoldersAreCurrent

\* A holder that stops renewing its lease loses it.
DeadHolderLetsGo ==
    \A t \in Tokens :
        <>[][\A ttl \in 1..MaxLease : ~Grant(t, ttl)]_vars => <>[](t \notin leases)
=============================================================================

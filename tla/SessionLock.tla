---------------------------- MODULE SessionLock ----------------------------
(***************************************************************************)
(* The session lock: LockManager (src/server/lock_manager.rs), the part of *)
(* each Output that tells it what the screen shows (src/server/output.rs,  *)
(* output_manager.rs), and the lock client as wlroots presents it.         *)
(*                                                                         *)
(* A lock starts in two ways.  A client asks for it (NewLock): the desktop *)
(* stays visible until every enabled output shows the client's surface, or *)
(* 200 ms have passed.  Or the compositor asks for it (LockNow): the       *)
(* desktop is hidden at once and each enabled output has to show a blank   *)
(* frame.  Either way maybe_lock completes the lock, and only the client   *)
(* that was told `locked` can undo it.                                     *)
(*                                                                         *)
(* A frame takes two steps: it is committed (Frame) and, later, it is on   *)
(* the screen (Present).  `flip` is the frame in between; `screen` is what *)
(* a person in front of the machine sees.  The code has neither: it infers *)
(* them from lock_render_state, and the properties ask if it infers right. *)
(***************************************************************************)
EXTENDS Naturals, FiniteSets, TLC

CONSTANTS
    Outputs,        \* the monitors that may be connected
    Callers,        \* control-socket callers of `lock`
    RespawnSteps,   \* RESPAWN_BACKOFF_MS.len(): lockers started in a row
    MayHappen       \* what the surroundings may do; see Surroundings

\* "surface": a lock client creates lock surfaces; "destroy": a lock client goes
\* away without unlocking; "modeset": an output that is on gets a new mode;
\* "power": outputs are plugged, unplugged, switched on and off (by modesets);
\* "lost": a committed frame is not presented (another session has the screens).
Surroundings == {"surface", "destroy", "modeset", "power", "lost"}

ASSUME RespawnAssumption == RespawnSteps \in Nat \ {0}
ASSUME SurroundingsAssumption == MayHappen \subseteq Surroundings

\* The outputs are told apart by nothing but their names (for TLC).
OutputSymmetry == Permutations(Outputs)

VARIABLES
    state,            \* LockManager.state
    lock,             \* LockManager.lock is not null: a client holds the lock
    told,             \* wlroots: that client was sent `locked`
    lockedTree,       \* scene.locked_tree is enabled
    normalTree,       \* scene.normal_tree, the desktop, is enabled
    surfacesTimer,    \* lock_surfaces_timer is armed
    respawnTimer,     \* respawn_timer is armed
    respawnAttempts,  \* LockManager.respawn_attempts
    waiters,          \* LockManager.lock_waiters
    power,            \* per output: "gone", or the wlr_output is "off" or "on"
    lockRender,       \* per output: lock_render_state
    needsFrame,       \* per output: it has damage or a frame was scheduled
    flip,             \* per output: the committed frame not yet presented, or "lost"
    screen,           \* per output: what it shows
    surface           \* per output: the client's lock surface on it

lockVars == <<state, lock, told, lockedTree, normalTree, surfacesTimer,
              respawnTimer, respawnAttempts, waiters>>
outputVars == <<power, lockRender, needsFrame, flip, screen, surface>>
vars == <<state, lock, told, lockedTree, normalTree, surfacesTimer,
          respawnTimer, respawnAttempts, waiters,
          power, lockRender, needsFrame, flip, screen, surface>>

LockState == {"Unlocked", "Locked", "WaitingForBlank", "WaitingForLockSurfaces"}
Waiting == {"WaitingForBlank", "WaitingForLockSurfaces"}
LockRenderState == {"PendingUnlock", "Unlocked", "PendingBlank", "Blanked",
                    "PendingLockSurface", "LockSurface"}
Content == {"desktop", "blank", "prompt"}

Plugged == {o \in Outputs : power[o] # "gone"}
On == {o \in Outputs : power[o] = "on"}

(* State, as the manager is initialised.  Unless outputs come and go, the  *)
(* start is a session that has been up for a while.                        *)
Init ==
    LET up == "power" \notin MayHappen IN
    /\ state = "Unlocked"
    /\ lock = FALSE
    /\ told = FALSE
    /\ lockedTree = FALSE
    /\ normalTree = TRUE
    /\ surfacesTimer = FALSE
    /\ respawnTimer = FALSE
    /\ respawnAttempts = 0
    /\ waiters = {}
    /\ power = [o \in Outputs |-> IF up THEN "on" ELSE "gone"]
    /\ lockRender = [o \in Outputs |-> IF up THEN "Unlocked" ELSE "Blanked"]
    /\ needsFrame = [o \in Outputs |-> FALSE]
    /\ flip = [o \in Outputs |-> "none"]
    /\ screen = [o \in Outputs |-> IF up THEN "desktop" ELSE "dark"]
    /\ surface = [o \in Outputs |-> "none"]

-----------------------------------------------------------------------------
(* What several handlers share.                                            *)

\* Mutant: a part of the desktop is not under the tree that is switched off.
DrawnBeside(o) == IF surface[o] = "mapped" THEN "prompt" ELSE "desktop"

\* What the scene draws on o: the lock surface covers the output; without one
\* the locked tree is transparent and the desktop, if enabled, shows through.
Drawn(o) ==
    IF surface[o] = "mapped" THEN "prompt"
    ELSE IF normalTree THEN "desktop" ELSE "blank"

\* The outputs in D have something new to show.
Damage(D) == needsFrame' = [o \in Outputs |-> needsFrame[o] \/ o \in D]

\* Enabling or disabling the desktop damages every output that is on.
DamageOfTree == IF normalTree' # normalTree THEN On ELSE {}

\* Mutant: a frame on its way counts as shown.
AllBlankedEarly(render) ==
    \A o \in On : render[o] \in {"Blanked", "LockSurface", "PendingBlank"}

AllBlanked(render) ==
    \A o \in On : render[o] \in {"Blanked", "LockSurface"}

AllShowLockSurface(render) == \A o \in On : render[o] = "LockSurface"

\* What maybe_lock tests: `st` is the state and `render` the outputs'
\* lock_render_state, as the handler that calls it has left them.
Completes(st, render) ==
    \/ st = "WaitingForLockSurfaces" /\ AllShowLockSurface(render)
    \/ st = "WaitingForBlank" /\ AllBlanked(render)

\* Mutant: the waiters are not answered.
SendLockedKeepsWaiters ==
    state' = "Locked" /\ told' = lock /\ UNCHANGED waiters

\* send_locked: the client is told, the waiters are answered.
SendLocked ==
    state' = "Locked" /\ told' = lock /\ waiters' = {}

\* maybe_lock.  `tree`, `timer` and `waiting` are the desktop tree, the surfaces
\* timer and the lock waiters as the calling handler has left them.
MaybeLock(st, render, tree, timer, waiting) ==
    IF Completes(st, render)
    THEN /\ SendLocked
         /\ normalTree' = (tree /\ st # "WaitingForLockSurfaces")
         /\ surfacesTimer' = (timer /\ st # "WaitingForLockSurfaces")
    ELSE /\ state' = st
         /\ told' = told
         /\ waiters' = waiting
         /\ normalTree' = tree
         /\ surfacesTimer' = timer

\* Mutant: the timer is left armed.
RespawnNotCancelled == UNCHANGED respawnTimer

\* cancel_locker_respawn.
CancelLockerRespawn == respawnTimer' = FALSE

\* Mutant: one step past the end of the backoff.
ScheduleOneTooMany(armed) ==
    IF respawnAttempts <= RespawnSteps
    THEN respawnTimer' = TRUE /\ respawnAttempts' = respawnAttempts + 1
    ELSE respawnTimer' = armed /\ UNCHANGED respawnAttempts

\* schedule_locker_respawn: arm the next step of the backoff, or give up and
\* leave the timer as it is.
ScheduleLockerRespawn(armed) ==
    IF respawnAttempts < RespawnSteps
    THEN /\ respawnTimer' = TRUE
         /\ respawnAttempts' = respawnAttempts + 1
    ELSE /\ respawnTimer' = armed
         /\ UNCHANGED respawnAttempts

-----------------------------------------------------------------------------
(* Locking from the compositor's side.                                     *)

\* lock_now on an unlocked session; `waiting` as for MaybeLock.
LockNow(waiting) ==
    /\ state = "Unlocked"
    /\ lockedTree' = TRUE
    /\ MaybeLock("WaitingForBlank", lockRender, FALSE, surfacesTimer, waiting)
    /\ Damage(On)
    /\ respawnAttempts' = 0
    /\ respawnTimer' = TRUE
    /\ UNCHANGED <<lock, power, lockRender, flip, screen, surface>>

\* `ccectl lock`: lock_now, which does nothing once a lock is under way, and
\* then reply_when_locked, which answers at once if the session is locked.
LockCommand(c) ==
    \/ LockNow(waiters \cup {c})
    \/ /\ state \in Waiting
       /\ waiters' = waiters \cup {c}
       /\ UNCHANGED <<state, lock, told, lockedTree, normalTree, surfacesTimer,
                      respawnTimer, respawnAttempts, outputVars>>

\* Mutant: the timeout leaves the desktop on.
TimeoutKeepsDesktop ==
    /\ surfacesTimer
    /\ MaybeLock("WaitingForBlank", lockRender, normalTree, FALSE, waiters)
    /\ Damage(On)
    /\ UNCHANGED <<lock, lockedTree, respawnTimer, respawnAttempts,
                   power, lockRender, flip, screen, surface>>

\* handle_lock_surfaces_timeout.
LockSurfacesTimeout ==
    /\ surfacesTimer
    /\ MaybeLock("WaitingForBlank", lockRender, FALSE, FALSE, waiters)
    /\ Damage(DamageOfTree)
    /\ UNCHANGED <<lock, lockedTree, respawnTimer, respawnAttempts,
                   power, lockRender, flip, screen, surface>>

\* Mutant: a locker that was started is taken to have come up.
RespawnOnce ==
    /\ respawnTimer
    /\ respawnTimer' = FALSE
    /\ UNCHANGED <<state, lock, told, lockedTree, normalTree, surfacesTimer,
                   respawnAttempts, waiters, outputVars>>

\* handle_respawn_timeout.  The locker it starts is a client like any other
\* and may bind later (NewLock), or never.
RespawnTimeout ==
    /\ respawnTimer
    /\ IF state = "Unlocked" \/ lock
       THEN respawnTimer' = FALSE /\ UNCHANGED respawnAttempts
       ELSE ScheduleLockerRespawn(FALSE)
    /\ UNCHANGED <<state, lock, told, lockedTree, normalTree, surfacesTimer,
                   waiters, outputVars>>

-----------------------------------------------------------------------------
(* The lock client.                                                        *)

\* Mutant: a client given a locked session is not told so.
NeverTell == told' = FALSE

\* A client given a session that is locked already is told so at once.
TellIfLocked == told' = (state = "Locked")

\* Mutant: any new client starts the lock over.
StartOver ==
    state' = "WaitingForLockSurfaces" /\ lockedTree' = TRUE /\ surfacesTimer' = TRUE

\* On an unlocked session a new lock waits for its surfaces.
WaitForSurfaces ==
    IF state = "Unlocked"
    THEN /\ state' = "WaitingForLockSurfaces"
         /\ lockedTree' = TRUE
         /\ surfacesTimer' = TRUE
    ELSE UNCHANGED <<state, lockedTree, surfacesTimer>>

\* handle_new_lock.  A second client, while one holds the lock, is denied and
\* changes nothing.
NewLock ==
    /\ ~lock
    /\ lock' = TRUE
    /\ CancelLockerRespawn
    /\ WaitForSurfaces
    /\ TellIfLocked
    /\ UNCHANGED <<normalTree, respawnAttempts, waiters, outputVars>>

\* handle_surface: the client creates its surface on o; nothing of it is on the
\* screen before it is configured, acknowledged and mapped.
CreateSurface(o) ==
    /\ "surface" \in MayHappen
    /\ lock
    /\ power[o] # "gone"
    /\ surface[o] = "none"
    /\ surface' = [surface EXCEPT ![o] = "created"]
    /\ respawnAttempts' = 0
    /\ UNCHANGED <<state, lock, told, lockedTree, normalTree, surfacesTimer,
                   respawnTimer, waiters, power, lockRender, needsFrame, flip,
                   screen>>

\* handle_lock_surface_map, and the first buffer in the scene.
MapSurface(o) ==
    /\ surface[o] = "created"
    /\ surface' = [surface EXCEPT ![o] = "mapped"]
    /\ Damage({o} \cap On)
    /\ UNCHANGED <<lockVars, power, lockRender, flip, screen>>

\* handle_lock_surface_destroy: the client destroys one of its surfaces.
DestroySurface(o) ==
    /\ surface[o] # "none"
    /\ surface' = [surface EXCEPT ![o] = "none"]
    /\ Damage(IF surface[o] = "mapped" THEN {o} \cap On ELSE {})
    /\ UNCHANGED <<lockVars, power, lockRender, flip, screen>>

\* Mutant: the timer is left armed.
StopWaitingKeepsTimer ==
    /\ state' = IF state = "WaitingForLockSurfaces" THEN "WaitingForBlank" ELSE state
    /\ UNCHANGED surfacesTimer

\* Mutant: a client that dies before its lock was complete takes the lock along.
StopWaitingOpens ==
    /\ state' = IF state = "WaitingForLockSurfaces" THEN "Unlocked" ELSE state
    /\ surfacesTimer' = FALSE

\* A lock whose client is gone waits for blank outputs instead of surfaces.
StopWaitingForSurfaces ==
    IF state = "WaitingForLockSurfaces"
    THEN state' = "WaitingForBlank" /\ surfacesTimer' = FALSE
    ELSE UNCHANGED <<state, surfacesTimer>>

\* handle_destroy from wlroots: the client died, or destroyed its lock before it
\* was told `locked`; wlroots destroys its surfaces first.
LockDestroyed ==
    /\ "destroy" \in MayHappen
    /\ lock
    /\ lock' = FALSE
    /\ told' = FALSE
    /\ StopWaitingForSurfaces
    /\ IF state' # "Unlocked"
       THEN ScheduleLockerRespawn(respawnTimer)
       ELSE UNCHANGED <<respawnTimer, respawnAttempts>>
    /\ surface' = [o \in Outputs |-> "none"]
    /\ Damage({o \in On : surface[o] = "mapped"})
    /\ UNCHANGED <<lockedTree, normalTree, waiters, power, lockRender, flip, screen>>

\* Mutant: the locked tree is left on.
ShowDesktopUnderLock == normalTree' = TRUE /\ UNCHANGED lockedTree

\* The desktop comes back.
ShowDesktop == normalTree' = TRUE /\ lockedTree' = FALSE

\* handle_unlock, and the handle_destroy it calls.  wlroots lets only a client
\* that was told `locked` unlock.
Unlock ==
    /\ lock
    /\ told
    /\ state' = "Unlocked"
    /\ waiters' = {}
    /\ CancelLockerRespawn
    /\ respawnAttempts' = 0
    /\ ShowDesktop
    /\ lock' = FALSE
    /\ told' = FALSE
    /\ surface' = [o \in Outputs |-> "none"]
    /\ Damage(On)
    /\ UNCHANGED <<surfacesTimer, power, lockRender, flip, screen>>

-----------------------------------------------------------------------------
(* The outputs.                                                            *)

\* note_lock_state, after a committed frame.
NoteLockState(o) ==
    CASE state = "Locked" -> lockRender[o]
      [] state = "WaitingForBlank" ->
            IF lockRender[o] = "Blanked" THEN "Blanked" ELSE "PendingBlank"
      [] state = "WaitingForLockSurfaces" /\ surface[o] # "none" ->
            IF lockRender[o] = "LockSurface" THEN "LockSurface" ELSE "PendingLockSurface"
      [] OTHER ->
            IF lockRender[o] = "Unlocked" THEN "Unlocked" ELSE "PendingUnlock"

\* handle_frame: render_and_commit and note_lock_state.  A commit the backend
\* refuses schedules another frame and so changes nothing here.
Frame(o) ==
    /\ power[o] = "on"
    /\ needsFrame[o]
    /\ flip[o] \notin Content
    /\ flip' = [flip EXCEPT ![o] = Drawn(o)]
    /\ needsFrame' = [needsFrame EXCEPT ![o] = FALSE]
    /\ lockRender' = [lockRender EXCEPT ![o] = NoteLockState(o)]
    /\ UNCHANGED <<lockVars, power, screen, surface>>

\* What a presented frame makes of lock_render_state.
Presented(render) ==
    CASE render = "PendingUnlock" -> "Unlocked"
      [] render = "PendingBlank" -> "Blanked"
      [] render = "PendingLockSurface" -> "LockSurface"
      [] OTHER -> render

\* Mutant: only a lock surface can complete the lock.
OnlySurfaceCompletes(render) == render = "PendingLockSurface"

\* Whether presenting that frame may complete the lock.
MayComplete(render) == render \in {"PendingBlank", "PendingLockSurface"}

\* handle_present.
Present(o) ==
    /\ flip[o] \in Content
    /\ screen' = [screen EXCEPT ![o] = flip[o]]
    /\ flip' = [flip EXCEPT ![o] = "none"]
    /\ lockRender' = [lockRender EXCEPT ![o] = Presented(lockRender[o])]
    /\ IF MayComplete(lockRender[o])
       THEN MaybeLock(state, lockRender', normalTree, surfacesTimer, waiters)
       ELSE UNCHANGED <<state, told, normalTree, surfacesTimer, waiters>>
    /\ Damage(DamageOfTree)
    /\ UNCHANGED <<lock, lockedTree, respawnTimer, respawnAttempts, power, surface>>

\* handle_present's early return: that frame never reached the screen.
Discard(o) ==
    /\ "lost" \in MayHappen
    /\ flip[o] \in Content
    /\ flip' = [flip EXCEPT ![o] = "lost"]
    /\ UNCHANGED <<lockVars, power, lockRender, needsFrame, screen, surface>>

\* Something on o changes its looks: a window, the cursor, an animation.
Draw(o) ==
    /\ power[o] = "on"
    /\ Damage({o})
    /\ UNCHANGED <<lockVars, power, lockRender, flip, screen, surface>>

\* commit_output_state: the outputs in `on` are switched on, the other plugged
\* ones off.  A modeset, needed if that changes anything and sometimes when it
\* does not (a new mode), puts a frame of its own on every output that is on,
\* without note_lock_state.
CommitOutputs(on, modeset) ==
    /\ on \subseteq Plugged
    /\ on # On => "power" \in MayHappen /\ modeset
    /\ modeset => {"modeset", "power"} \cap MayHappen # {}
    /\ power' = [o \in Outputs |-> IF o \in on THEN "on"
                                    ELSE IF o \in Plugged THEN "off" ELSE "gone"]
    /\ lockRender' = [o \in Outputs |-> IF o \in Plugged \ on THEN "Blanked"
                                         ELSE lockRender[o]]
    /\ needsFrame' = [o \in Outputs |-> o \in on]
    /\ flip' = [o \in Outputs |-> IF o \notin on THEN "none"
                                   ELSE IF modeset THEN Drawn(o) ELSE flip[o]]
    /\ screen' = [o \in Outputs |-> IF o \in on THEN screen[o] ELSE "dark"]
    /\ UNCHANGED <<lockVars, surface>>

\* Output::create.
Plug(o) ==
    /\ "power" \in MayHappen
    /\ power[o] = "gone"
    /\ power' = [power EXCEPT ![o] = "off"]
    /\ lockRender' = [lockRender EXCEPT ![o] = "Blanked"]
    /\ UNCHANGED <<lockVars, needsFrame, flip, screen, surface>>

\* handle_destroy of an output; wlroots destroys the lock surface on it.
Unplug(o) ==
    /\ "power" \in MayHappen
    /\ power[o] # "gone"
    /\ power' = [power EXCEPT ![o] = "gone"]
    /\ needsFrame' = [needsFrame EXCEPT ![o] = FALSE]
    /\ flip' = [flip EXCEPT ![o] = "none"]
    /\ screen' = [screen EXCEPT ![o] = "dark"]
    /\ surface' = [surface EXCEPT ![o] = "none"]
    /\ UNCHANGED <<lockVars, lockRender>>

-----------------------------------------------------------------------------
Next ==
    \/ LockNow(waiters)
    \/ \E c \in Callers : LockCommand(c)
    \/ LockSurfacesTimeout
    \/ RespawnTimeout
    \/ NewLock
    \/ \E o \in Outputs : CreateSurface(o)
    \/ \E o \in Outputs : MapSurface(o)
    \/ \E o \in Outputs : DestroySurface(o)
    \/ LockDestroyed
    \/ Unlock
    \/ \E o \in Outputs : Frame(o)
    \/ \E o \in Outputs : Present(o)
    \/ \E o \in Outputs : Discard(o)
    \/ \E o \in Outputs : Draw(o)
    \/ \E on \in SUBSET Outputs, modeset \in BOOLEAN : CommitOutputs(on, modeset)
    \/ \E o \in Outputs : Plug(o)
    \/ \E o \in Outputs : Unplug(o)

Spec == Init /\ [][Next]_vars

(* The compositor draws a frame that is due, the backend presents a frame  *)
(* that was committed, and an armed timer fires.  Nothing is assumed of    *)
(* clients, of the person at the machine, or of when the desktop draws.    *)
Fairness ==
    /\ \A o \in Outputs : WF_vars(Frame(o)) /\ WF_vars(Present(o))
    /\ WF_vars(LockSurfacesTimeout)
    /\ WF_vars(RespawnTimeout)

FairSpec == Spec /\ Fairness

-----------------------------------------------------------------------------
(* Properties.                                                             *)

\* The type invariant, of the manager and of the outputs.
ManagerType ==
    /\ state \in LockState
    /\ lock \in BOOLEAN
    /\ told \in BOOLEAN
    /\ lockedTree \in BOOLEAN
    /\ normalTree \in BOOLEAN
    /\ surfacesTimer \in BOOLEAN
    /\ respawnTimer \in BOOLEAN
    /\ respawnAttempts \in 0..RespawnSteps
    /\ waiters \subseteq Callers

OutputType ==
    /\ power \in [Outputs -> {"gone", "off", "on"}]
    /\ lockRender \in [Outputs -> LockRenderState]
    /\ needsFrame \in [Outputs -> BOOLEAN]
    /\ flip \in [Outputs -> Content \cup {"none", "lost"}]
    /\ screen \in [Outputs -> Content \cup {"dark"}]
    /\ surface \in [Outputs -> {"none", "created", "mapped"}]

\* Every variable has its type, and the respawn counter its bound: the array
\* RESPAWN_BACKOFF_MS is never read past its end (schedule_locker_respawn).
TypeOK == ManagerType /\ OutputType

\* The 200 ms timer runs exactly while the lock waits for the client's surfaces,
\* so the assertion in handle_lock_surfaces_timeout cannot fail and that wait
\* always ends.
SurfacesTimerMatchesState ==
    surfacesTimer <=> state = "WaitingForLockSurfaces"

\* A locker is only ever started for a locked session that no client holds: no
\* order of binding, dying, unlocking and locking leaves the respawn timer armed
\* over an open session (cancel_locker_respawn), where it would lock it again.
RespawnOnlyWithoutLocker ==
    respawnTimer => state # "Unlocked" /\ ~lock

\* A locked session is no dead end: while no client holds it, a locker is about
\* to be started, or the backoff is used up (schedule_locker_respawn).
PromptOnItsWay ==
    state # "Unlocked" /\ ~lock => respawnTimer \/ respawnAttempts = RespawnSteps

\* The client that holds a locked session has been told so, and only then:
\* wlroots lets it unlock exactly when the compositor considers it locked.
HolderWasTold ==
    told <=> lock /\ state = "Locked"

\* No caller of `ccectl lock` is left waiting once the lock is done or undone.
WaitersAreWaiting ==
    waiters # {} => state \in Waiting

\* What runs or waits does so for the state the lock is in: the timer for lock
\* surfaces, and whoever asked for the lock.
WaitsFollowLock == SurfacesTimerMatchesState /\ WaitersAreWaiting

\* The lock has the client its state calls for: told when it is locked, started
\* again when a locked session has none, and never started beside another.
LockerFollowsLock == RespawnOnlyWithoutLocker /\ PromptOnItsWay /\ HolderWasTold

\* The locked tree is on exactly while the session is not unlocked, and an
\* unlocked session shows its desktop.
TreesFollowState ==
    /\ lockedTree <=> state # "Unlocked"
    /\ state = "Unlocked" => normalTree

\* The lock never opens by itself: a session that is locked, or on its way there,
\* becomes unlocked only from Locked and at the hand of the client told so.
OnlyHolderUnlocks ==
    [][state # "Unlocked" /\ state' = "Unlocked" => state = "Locked" /\ told]_vars

\* A locked session has its desktop switched off in the scene (output.rs,
\* note_lock_state: "Assert normal tree disabled").
DesktopOffWhenLocked ==
    state = "Locked" => ~normalTree

\* When the lock completes, the desktop is off and no output that is on still shows
\* it (maybe_lock: "every enabled output shows what the state waits for"), other than
\* one that was counted for its lock surface: that may not have been drawn yet.
LockedHidesDesktop ==
    /\ DesktopOffWhenLocked
    /\ state = "Locked" =>
        \A o \in On : lockRender[o] # "LockSurface" => screen[o] # "desktop"

\* Once the desktop is switched off no output keeps it: one that still shows it, or
\* whose frame on its way does, is due another frame, whatever outputs are lit or get
\* a mode and whatever becomes of lock surfaces (lock_now and commit_output_state
\* schedule the frames).  Only a frame that is lost is not drawn again.
HiddenDesktopGoes ==
    ~normalTree =>
        \A o \in On : "desktop" \in {screen[o], flip[o]} =>
            needsFrame[o] \/ flip[o] \in {"blank", "prompt", "lost"}

\* The scene follows the lock, and the screens follow the scene.
SceneFollowsLock == TreesFollowState /\ HiddenDesktopGoes

\* A lock that was started completes.
LockCompletes ==
    state \in Waiting ~> state = "Locked"

(* The manager keeps the promise of AbstractLock.                          *)
Phase == CASE state = "Unlocked" -> "open"
           [] state = "Locked" -> "closed"
           [] OTHER -> "closing"

Promise == INSTANCE AbstractLock WITH phase <- Phase, keyed <- told

\* Every step of the lock manager is a step of the promised lock or none: a
\* refinement of AbstractLock with `told` for the key.
KeepsPromise == Promise!Spec
=============================================================================

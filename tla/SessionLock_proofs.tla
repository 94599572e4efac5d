------------------------- MODULE SessionLock_proofs -------------------------
(***************************************************************************)
(* What holds of the session lock for any outputs, callers and length of   *)
(* the respawn backoff, whatever the surroundings may do.                  *)
(*                                                                         *)
(* The invariants are proved together, since each one needs another: that  *)
(* the respawn timer runs only without a locker needs that an open session *)
(* has no lock client, and the promise to the client that holds the lock   *)
(* needs the state it was told in.  The manager and the outputs only meet  *)
(* in the type invariant, so a step is looked at from each side in turn.   *)
(***************************************************************************)
EXTENDS SessionLock, TLAPS

\* No client holds the lock of an open session.
OpenHasNoHolder == state = "Unlocked" => ~lock

\* The inductive invariant, of the manager and of everything.
MInv ==
    /\ ManagerType
    /\ SurfacesTimerMatchesState
    /\ RespawnOnlyWithoutLocker
    /\ PromptOnItsWay
    /\ HolderWasTold
    /\ WaitersAreWaiting
    /\ TreesFollowState
    /\ OpenHasNoHolder

IInv == MInv /\ OutputType

-----------------------------------------------------------------------------
(* Facts about the operators the actions share.                            *)

\* Presenting a frame leaves a lock render state.
LEMMA PresentedType ==
    \A r \in LockRenderState : Presented(r) \in LockRenderState
BY DEF Presented, LockRenderState

\* So does committing one.
LEMMA NoteLockStateType ==
    ASSUME OutputType, NEW o \in Outputs
    PROVE  NoteLockState(o) \in LockRenderState
BY DEF OutputType, NoteLockState, LockRenderState

\* What the scene draws is a content.
LEMMA DrawnType == \A o \in Outputs : Drawn(o) \in Content
BY DEF Drawn, Content

\* Damage keeps the type of needsFrame.
LEMMA DamageType ==
    ASSUME OutputType, NEW D, Damage(D)
    PROVE  needsFrame' \in [Outputs -> BOOLEAN]
BY DEF Damage, OutputType

\* maybe_lock either completes the lock, telling the client and the waiters, or
\* leaves the state as the handler set it.
LEMMA MaybeLockCases ==
    ASSUME NEW st, NEW render, NEW tree \in BOOLEAN, NEW timer \in BOOLEAN, NEW waiting,
           MaybeLock(st, render, tree, timer, waiting)
    PROVE  /\ normalTree' \in BOOLEAN
           /\ surfacesTimer' \in BOOLEAN
           /\ \/ /\ st \in Waiting
                 /\ state' = "Locked"
                 /\ told' = lock
                 /\ waiters' = {}
                 /\ surfacesTimer' = (timer /\ st # "WaitingForLockSurfaces")
              \/ /\ state' = st
                 /\ told' = told
                 /\ waiters' = waiting
                 /\ surfacesTimer' = timer
                 /\ normalTree' = tree
BY DEF MaybeLock, Completes, SendLocked, Waiting

\* The backoff can start over.
LEMMA BackoffStart == 0 \in 0..RespawnSteps
BY RespawnAssumption

\* schedule_locker_respawn arms the timer, or has no step of the backoff left.
LEMMA ScheduleCases ==
    ASSUME ManagerType, NEW armed \in BOOLEAN, ScheduleLockerRespawn(armed)
    PROVE  /\ respawnTimer' \in BOOLEAN
           /\ respawnAttempts' \in 0..RespawnSteps
           /\ respawnTimer' \/ respawnAttempts' = RespawnSteps
<1>1. /\ respawnAttempts < RespawnSteps => respawnAttempts + 1 \in 0..RespawnSteps
      /\ ~(respawnAttempts < RespawnSteps) => respawnAttempts = RespawnSteps
      /\ respawnAttempts \in 0..RespawnSteps
  BY RespawnAssumption DEF ManagerType
<1>2. CASE respawnAttempts < RespawnSteps
  <2>1. respawnTimer' = TRUE /\ respawnAttempts' = respawnAttempts + 1
    BY <1>2 DEF ScheduleLockerRespawn
  <2> QED
    BY <1>1, <1>2, <2>1
<1>3. CASE ~(respawnAttempts < RespawnSteps)
  <2>1. respawnTimer' = armed /\ respawnAttempts' = respawnAttempts
    BY <1>3 DEF ScheduleLockerRespawn
  <2> QED
    BY <1>1, <1>3, <2>1
<1> QED
  BY <1>2, <1>3

-----------------------------------------------------------------------------
(* The outputs keep their type.                                            *)

\* Every step leaves an output a frame to show and one to lock with.
LEMMA OutputTypeStep ==
    ASSUME IInv, [Next]_vars
    PROVE  OutputType'
<1> USE DEF IInv
<1>1. ASSUME NEW waiting, LockNow(waiting) PROVE OutputType'
  BY <1>1, DamageType DEF LockNow, OutputType
<1>2. ASSUME NEW c \in Callers, LockCommand(c) PROVE OutputType'
  BY <1>1, <1>2 DEF LockCommand, OutputType, outputVars
<1>3. CASE LockSurfacesTimeout
  BY <1>3, DamageType DEF LockSurfacesTimeout, OutputType
<1>4. CASE UNCHANGED outputVars
  BY <1>4 DEF OutputType, outputVars
<1>5. ASSUME NEW o \in Outputs, CreateSurface(o) PROVE OutputType'
  BY <1>5 DEF CreateSurface, OutputType
<1>6. ASSUME NEW o \in Outputs, MapSurface(o) PROVE OutputType'
  BY <1>6, DamageType DEF MapSurface, OutputType
<1>7. ASSUME NEW o \in Outputs, DestroySurface(o) PROVE OutputType'
  BY <1>7, DamageType DEF DestroySurface, OutputType
<1>8. CASE LockDestroyed
  BY <1>8, DamageType DEF LockDestroyed, OutputType
<1>9. CASE Unlock
  BY <1>9, DamageType DEF Unlock, OutputType
<1>10. ASSUME NEW o \in Outputs, Frame(o) PROVE OutputType'
  BY <1>10, NoteLockStateType, DrawnType DEF Frame, OutputType
<1>11. ASSUME NEW o \in Outputs, Present(o) PROVE OutputType'
  BY <1>11, PresentedType, DamageType DEF Present, OutputType
<1>12. ASSUME NEW o \in Outputs, Draw(o) \/ Discard(o) PROVE OutputType'
  BY <1>12, DamageType DEF Draw, Discard, OutputType
<1>13. ASSUME NEW on \in SUBSET Outputs, NEW modeset \in BOOLEAN,
              CommitOutputs(on, modeset)
       PROVE  OutputType'
  <2>1. /\ power' \in [Outputs -> {"gone", "off", "on"}]
        /\ needsFrame' \in [Outputs -> BOOLEAN]
        /\ surface' \in [Outputs -> {"none", "created", "mapped"}]
    BY <1>13 DEF CommitOutputs, OutputType
  <2>2. lockRender' \in [Outputs -> LockRenderState]
    BY <1>13 DEF CommitOutputs, OutputType, LockRenderState
  <2>3. flip' \in [Outputs -> Content \cup {"none", "lost"}]
    BY <1>13, DrawnType DEF CommitOutputs, OutputType
  <2>4. screen' \in [Outputs -> Content \cup {"dark"}]
    BY <1>13 DEF CommitOutputs, OutputType
  <2> QED
    BY <2>1, <2>2, <2>3, <2>4 DEF OutputType
<1>14. ASSUME NEW o \in Outputs, Plug(o) PROVE OutputType'
  BY <1>14 DEF Plug, OutputType, LockRenderState
<1>15. ASSUME NEW o \in Outputs, Unplug(o) PROVE OutputType'
  BY <1>15 DEF Unplug, OutputType
<1>16. CASE RespawnTimeout \/ NewLock
  BY <1>4, <1>16 DEF RespawnTimeout, NewLock
<1>17. CASE UNCHANGED vars
  BY <1>4, <1>17 DEF vars, outputVars
<1> QED
  BY <1>1, <1>2, <1>3, <1>5, <1>6, <1>7, <1>8, <1>9, <1>10, <1>11, <1>12, <1>13,
     <1>14, <1>15, <1>16, <1>17 DEF Next

-----------------------------------------------------------------------------
(* The manager keeps its invariant.                                        *)

\* So does a step that leaves the manager alone.
LEMMA OutputStep ==
    ASSUME MInv, UNCHANGED lockVars
    PROVE  MInv'
BY DEF MInv, ManagerType, lockVars, SurfacesTimerMatchesState,
       RespawnOnlyWithoutLocker, PromptOnItsWay, HolderWasTold, WaitersAreWaiting,
       TreesFollowState, OpenHasNoHolder, Waiting

\* Locking now, with or without a locker on its way.
LEMMA LockNowStep ==
    ASSUME MInv, NEW waiting \in SUBSET Callers, LockNow(waiting)
    PROVE  MInv'
<1> DEFINE Facts ==
        /\ lock' = lock /\ lockedTree' = TRUE
        /\ respawnAttempts' = 0 /\ respawnTimer' = TRUE
<1>1. Facts /\ ~lock /\ ~told /\ surfacesTimer = FALSE /\ told = FALSE /\ lock = FALSE
  BY DEF LockNow, MInv, ManagerType, OpenHasNoHolder, HolderWasTold,
         SurfacesTimerMatchesState
<1>2. /\ normalTree' \in BOOLEAN /\ surfacesTimer' = FALSE /\ told' = FALSE
      /\ \/ state' = "Locked" /\ waiters' = {}
         \/ state' = "WaitingForBlank" /\ waiters' = waiting
  <2>1. MaybeLock("WaitingForBlank", lockRender, FALSE, FALSE, waiting)
    BY <1>1 DEF LockNow
  <2>2. FALSE \in BOOLEAN
    OBVIOUS
  <2> QED
    BY <1>1, <2>1, <2>2, MaybeLockCases
<1>3. ManagerType'
  BY <1>1, <1>2, BackoffStart DEF ManagerType, LockState, MInv
<1> QED
  BY <1>1, <1>2, <1>3 DEF MInv, SurfacesTimerMatchesState, RespawnOnlyWithoutLocker,
     PromptOnItsWay, HolderWasTold, WaitersAreWaiting, TreesFollowState,
     OpenHasNoHolder, Waiting

\* A step that goes on waiting, or completes the lock, touching nothing else.
LEMMA MaybeLockStep ==
    ASSUME MInv, NEW st \in LockState, NEW render, NEW tree \in BOOLEAN,
           NEW timer \in BOOLEAN,
           MaybeLock(st, render, tree, timer, waiters),
           UNCHANGED <<lock, lockedTree, respawnTimer, respawnAttempts>>,
           timer <=> st = "WaitingForLockSurfaces",
           \/ st = state /\ tree = normalTree
           \/ state \in Waiting /\ st \in Waiting
    PROVE  MInv'
<1>1. /\ normalTree' \in BOOLEAN /\ surfacesTimer' \in BOOLEAN
      /\ \/ /\ st \in Waiting /\ state' = "Locked" /\ told' = lock /\ waiters' = {}
            /\ surfacesTimer' = FALSE
         \/ /\ state' = st /\ told' = told /\ waiters' = waiters
            /\ surfacesTimer' = timer /\ normalTree' = tree
  <2>1. (timer /\ st # "WaitingForLockSurfaces") = FALSE
    OBVIOUS
  <2>2. CASE Completes(st, render)
    <3>1. SendLocked /\ normalTree' \in BOOLEAN /\ surfacesTimer' = FALSE
      BY <2>1, <2>2 DEF MaybeLock
    <3>2. st \in Waiting
      BY <2>2 DEF Completes, Waiting
    <3> QED
      BY <3>1, <3>2 DEF SendLocked
  <2>3. CASE ~Completes(st, render)
    BY <2>3 DEF MaybeLock
  <2> QED
    BY <2>2, <2>3
<1>2. ManagerType'
  BY <1>1 DEF ManagerType, LockState, MInv
<1>3. CASE st \in Waiting /\ state' = "Locked" /\ told' = lock /\ waiters' = {}
           /\ surfacesTimer' = FALSE
  BY <1>2, <1>3 DEF MInv, ManagerType, SurfacesTimerMatchesState,
     RespawnOnlyWithoutLocker, PromptOnItsWay, HolderWasTold, WaitersAreWaiting,
     TreesFollowState, OpenHasNoHolder, Waiting
<1>4. CASE state' = st /\ told' = told /\ waiters' = waiters
           /\ surfacesTimer' = timer /\ normalTree' = tree
  BY <1>2, <1>4 DEF MInv, ManagerType, SurfacesTimerMatchesState,
     RespawnOnlyWithoutLocker, PromptOnItsWay, HolderWasTold, WaitersAreWaiting,
     TreesFollowState, OpenHasNoHolder, Waiting
<1> QED
  BY <1>1, <1>3, <1>4

\* The locker is spawned again.
LEMMA RespawnTimeoutStep ==
    ASSUME MInv, RespawnTimeout
    PROVE  MInv'
<1>1. /\ respawnTimer' \in BOOLEAN
      /\ respawnAttempts' \in 0..RespawnSteps
      /\ state # "Unlocked" /\ ~lock => respawnTimer' \/ respawnAttempts' = RespawnSteps
      /\ state = "Unlocked" \/ lock => ~respawnTimer'
  BY ScheduleCases DEF RespawnTimeout, MInv, ManagerType
<1> QED
  BY <1>1 DEF RespawnTimeout, MInv, ManagerType, SurfacesTimerMatchesState,
     RespawnOnlyWithoutLocker, PromptOnItsWay, HolderWasTold, WaitersAreWaiting,
     TreesFollowState, OpenHasNoHolder, Waiting

\* A locker takes the lock.
LEMMA NewLockStep ==
    ASSUME MInv, NewLock
    PROVE  MInv'
<1>1. ManagerType'
  BY DEF MInv, ManagerType, NewLock, CancelLockerRespawn, WaitForSurfaces,
         TellIfLocked, LockState
<1> QED
  BY <1>1 DEF MInv, NewLock, CancelLockerRespawn, WaitForSurfaces, TellIfLocked,
     SurfacesTimerMatchesState, RespawnOnlyWithoutLocker, PromptOnItsWay,
     HolderWasTold, WaitersAreWaiting, TreesFollowState, OpenHasNoHolder, Waiting

\* A locker dies while it holds the lock.
LEMMA LockDestroyedStep ==
    ASSUME MInv, LockDestroyed
    PROVE  MInv'
<1>1. state # "Unlocked" /\ state' # "Unlocked" /\ state' \in LockState
  BY DEF MInv, ManagerType, LockDestroyed, StopWaitingForSurfaces, OpenHasNoHolder,
         LockState
<1>2. /\ respawnTimer' \in BOOLEAN
      /\ respawnAttempts' \in 0..RespawnSteps
      /\ respawnTimer' \/ respawnAttempts' = RespawnSteps
  BY <1>1, ScheduleCases DEF LockDestroyed, MInv, ManagerType
<1>3. ManagerType'
  BY <1>1, <1>2 DEF MInv, ManagerType, LockDestroyed, StopWaitingForSurfaces
<1> QED
  BY <1>1, <1>2, <1>3 DEF MInv, LockDestroyed, StopWaitingForSurfaces,
     SurfacesTimerMatchesState, RespawnOnlyWithoutLocker, PromptOnItsWay,
     HolderWasTold, WaitersAreWaiting, TreesFollowState, OpenHasNoHolder, Waiting

\* The holder unlocks.
LEMMA UnlockStep ==
    ASSUME MInv, Unlock
    PROVE  MInv'
<1>1. state = "Locked" /\ ~surfacesTimer
  BY DEF MInv, Unlock, HolderWasTold, SurfacesTimerMatchesState
<1>2. ManagerType'
  BY <1>1, BackoffStart
     DEF MInv, ManagerType, Unlock, CancelLockerRespawn, ShowDesktop, LockState
<1> QED
  BY <1>1, <1>2 DEF MInv, Unlock, CancelLockerRespawn, ShowDesktop,
     SurfacesTimerMatchesState, RespawnOnlyWithoutLocker, PromptOnItsWay,
     HolderWasTold, WaitersAreWaiting, TreesFollowState, OpenHasNoHolder, Waiting

\* An output shows the frame it was given.
LEMMA PresentStep ==
    ASSUME MInv, NEW o \in Outputs, Present(o)
    PROVE  MInv'
<1>1. CASE MayComplete(lockRender[o])
  <2>1. MaybeLock(state, lockRender', normalTree, surfacesTimer, waiters)
    BY <1>1 DEF Present
  <2>2. /\ state \in LockState /\ normalTree \in BOOLEAN /\ surfacesTimer \in BOOLEAN
        /\ surfacesTimer <=> state = "WaitingForLockSurfaces"
    BY DEF MInv, ManagerType, SurfacesTimerMatchesState
  <2>3. UNCHANGED <<lock, lockedTree, respawnTimer, respawnAttempts>>
    BY DEF Present
  <2> QED
    BY <2>1, <2>2, <2>3, MaybeLockStep
<1>2. CASE ~MayComplete(lockRender[o])
  BY <1>2, OutputStep DEF Present, lockVars
<1> QED
  BY <1>1, <1>2

\* The lock surfaces took too long.
LEMMA LockSurfacesTimeoutStep ==
    ASSUME MInv, LockSurfacesTimeout
    PROVE  MInv'
<1>1. /\ MaybeLock("WaitingForBlank", lockRender, FALSE, FALSE, waiters)
      /\ UNCHANGED <<lock, lockedTree, respawnTimer, respawnAttempts>>
  BY DEF LockSurfacesTimeout
<1>2. state \in Waiting /\ "WaitingForBlank" \in LockState \cap Waiting /\ FALSE \in BOOLEAN
  BY DEF LockSurfacesTimeout, MInv, SurfacesTimerMatchesState, Waiting, LockState
<1>3. FALSE <=> "WaitingForBlank" = "WaitingForLockSurfaces"
  OBVIOUS
<1> QED
  BY <1>1, <1>2, <1>3, MaybeLockStep

\* A caller asks to lock, and may be answered at once.
LEMMA LockCommandStep ==
    ASSUME MInv, NEW c \in Callers, LockCommand(c)
    PROVE  MInv'
<1>1. waiters \cup {c} \in SUBSET Callers
  BY DEF MInv, ManagerType
<1>2. CASE LockNow(waiters \cup {c})
  BY <1>1, <1>2, LockNowStep
<1>3. CASE ~LockNow(waiters \cup {c})
  <2>1. /\ state \in Waiting /\ waiters' = waiters \cup {c}
        /\ UNCHANGED <<state, lock, told, lockedTree, normalTree, surfacesTimer,
                       respawnTimer, respawnAttempts>>
    BY <1>3 DEF LockCommand
  <2>2. ManagerType'
    BY <1>1, <2>1 DEF MInv, ManagerType
  <2> QED
    BY <2>1, <2>2 DEF MInv, SurfacesTimerMatchesState, RespawnOnlyWithoutLocker,
       PromptOnItsWay, HolderWasTold, WaitersAreWaiting, TreesFollowState,
       OpenHasNoHolder, Waiting
<1> QED
  BY <1>2, <1>3

\* Every step keeps what holds of the lock manager.
LEMMA MInvStep ==
    ASSUME IInv, [Next]_vars
    PROVE  MInv'
<1> USE DEF IInv
<1>1. CASE LockNow(waiters)
  <2>1. waiters \in SUBSET Callers
    BY DEF MInv, ManagerType
  <2> QED
    BY <1>1, <2>1, LockNowStep
<1>2. CASE UNCHANGED lockVars
  BY <1>2, OutputStep
<1>3. ASSUME NEW o \in Outputs, CreateSurface(o) PROVE MInv'
  BY <1>3, BackoffStart
     DEF CreateSurface, MInv, ManagerType, SurfacesTimerMatchesState,
         RespawnOnlyWithoutLocker, PromptOnItsWay, HolderWasTold, WaitersAreWaiting,
         TreesFollowState, OpenHasNoHolder, Waiting
<1>4. ASSUME NEW o \in Outputs,
             MapSurface(o) \/ DestroySurface(o) \/ Frame(o) \/ Discard(o) \/ Draw(o)
             \/ Plug(o) \/ Unplug(o)
      PROVE  UNCHANGED lockVars
  BY <1>4 DEF MapSurface, DestroySurface, Frame, Discard, Draw, Plug, Unplug
<1>5. ASSUME NEW on \in SUBSET Outputs, NEW modeset \in BOOLEAN,
             CommitOutputs(on, modeset)
      PROVE  UNCHANGED lockVars
  BY <1>5 DEF CommitOutputs
<1>6. CASE UNCHANGED vars
  BY <1>2, <1>6 DEF vars, lockVars
<1> QED
  BY <1>1, <1>2, <1>3, <1>4, <1>5, <1>6, LockCommandStep, LockSurfacesTimeoutStep,
     RespawnTimeoutStep, NewLockStep, LockDestroyedStep, UnlockStep, PresentStep
     DEF Next

\* The two halves keep each other.
LEMMA IInvStep == IInv /\ [Next]_vars => IInv'
BY OutputTypeStep, MInvStep DEF IInv

\* The session starts open.
LEMMA InitIInv == Init => IInv
<1> SUFFICES ASSUME Init PROVE IInv
  OBVIOUS
<1>1. ManagerType
  BY BackoffStart DEF Init, ManagerType, LockState
<1>2. OutputType
  <2>1. /\ power \in [Outputs -> {"gone", "off", "on"}]
        /\ lockRender \in [Outputs -> LockRenderState]
    BY DEF Init, LockRenderState
  <2>2. /\ needsFrame \in [Outputs -> BOOLEAN]
        /\ flip \in [Outputs -> Content \cup {"none", "lost"}]
        /\ screen \in [Outputs -> Content \cup {"dark"}]
        /\ surface \in [Outputs -> {"none", "created", "mapped"}]
    BY DEF Init, Content
  <2> QED
    BY <2>1, <2>2 DEF OutputType
<1>3. MInv
  BY <1>1 DEF Init, MInv, SurfacesTimerMatchesState, RespawnOnlyWithoutLocker,
     PromptOnItsWay, HolderWasTold, WaitersAreWaiting, TreesFollowState,
     OpenHasNoHolder, Waiting
<1> QED
  BY <1>2, <1>3 DEF IInv

\* So they hold in every state.
LEMMA Inductive == Spec => []IInv
BY InitIInv, IInvStep, PTL DEF Spec

-----------------------------------------------------------------------------
(* What is proved of the session lock.                                     *)

\* Every variable keeps its type, the respawn counter its bound: the array
\* RESPAWN_BACKOFF_MS is never read past its end.
THEOREM TypeCorrect == Spec => []TypeOK
<1>1. IInv => TypeOK
  BY DEF IInv, MInv, TypeOK
<1> QED
  BY <1>1, Inductive, PTL

\* The 200 ms timer runs exactly while the lock waits for surfaces, so the
\* assertion in handle_lock_surfaces_timeout never fails.
THEOREM SurfacesTimerSound == Spec => []SurfacesTimerMatchesState
<1>1. IInv => SurfacesTimerMatchesState
  BY DEF IInv, MInv
<1> QED
  BY <1>1, Inductive, PTL

\* No locker is ever started over an open session or beside another one.
THEOREM RespawnSound == Spec => []RespawnOnlyWithoutLocker
<1>1. IInv => RespawnOnlyWithoutLocker
  BY DEF IInv, MInv
<1> QED
  BY <1>1, Inductive, PTL

\* A locked session without a lock client has a locker coming until the backoff is
\* used up.
THEOREM RespawnComplete == Spec => []PromptOnItsWay
<1>1. IInv => PromptOnItsWay
  BY DEF IInv, MInv
<1> QED
  BY <1>1, Inductive, PTL

\* A lock client was told `locked` exactly if it holds a locked session.
THEOREM LockedIsTold == Spec => []HolderWasTold
<1>1. IInv => HolderWasTold
  BY DEF IInv, MInv
<1> QED
  BY <1>1, Inductive, PTL

\* No caller of `ccectl lock` waits for a lock that is done or undone.
THEOREM NoWaiterForgotten == Spec => []WaitersAreWaiting
<1>1. IInv => WaitersAreWaiting
  BY DEF IInv, MInv
<1> QED
  BY <1>1, Inductive, PTL

\* The timer for lock surfaces and the callers that wait follow the state of the lock.
THEOREM WaitsSound == Spec => []WaitsFollowLock
<1>1. SurfacesTimerMatchesState /\ WaitersAreWaiting => WaitsFollowLock
  BY DEF WaitsFollowLock
<1> QED
  BY <1>1, SurfacesTimerSound, NoWaiterForgotten, PTL

\* The lock has the client its state calls for.
THEOREM LockerSound == Spec => []LockerFollowsLock
<1>1. RespawnOnlyWithoutLocker /\ PromptOnItsWay /\ HolderWasTold => LockerFollowsLock
  BY DEF LockerFollowsLock
<1> QED
  BY <1>1, RespawnSound, RespawnComplete, LockedIsTold, PTL

\* The scene trees follow the state.
THEOREM TreesSound == Spec => []TreesFollowState
<1>1. IInv => TreesFollowState
  BY DEF IInv, MInv
<1> QED
  BY <1>1, Inductive, PTL

-----------------------------------------------------------------------------
(* The way out of a lock.                                                  *)

\* maybe_lock completes a lock or leaves the state as it was given.
LEMMA MaybeLockState ==
    ASSUME NEW st, NEW render, NEW tree, NEW timer, NEW waiting,
           MaybeLock(st, render, tree, timer, waiting)
    PROVE  state' = st \/ (st \in Waiting /\ state' = "Locked")
BY DEF MaybeLock, Completes, SendLocked, Waiting

\* A session leaves the locked state, and reaches the open one, only by Unlock; and
\* only without a client is it locked in one step.
LEMMA OnlyUnlockOpens ==
    ASSUME IInv, [Next]_vars, ~Unlock
    PROVE  /\ state' = "Unlocked" => state = "Unlocked"
           /\ state = "Locked" => state' = "Locked"
           /\ state = "Unlocked" /\ state' = "Locked" => ~lock'
<1> DEFINE Goal == /\ state' = "Unlocked" => state = "Unlocked"
                   /\ state = "Locked" => state' = "Locked"
                   /\ state = "Unlocked" /\ state' = "Locked" => ~lock'
<1>1. ASSUME NEW waiting, LockNow(waiting) PROVE Goal
  <2>1. state = "Unlocked" /\ ~lock'
    BY <1>1 DEF LockNow, IInv, MInv, OpenHasNoHolder
  <2> QED
    BY <2>1
<1>2. ASSUME NEW c \in Callers, LockCommand(c) PROVE Goal
  BY <1>1, <1>2 DEF LockCommand
<1>3. CASE LockSurfacesTimeout
  <2>1. state = "WaitingForLockSurfaces"
    BY <1>3 DEF LockSurfacesTimeout, IInv, MInv, SurfacesTimerMatchesState
  <2>2. MaybeLock("WaitingForBlank", lockRender, FALSE, FALSE, waiters)
    BY <1>3 DEF LockSurfacesTimeout
  <2> QED
    BY <2>1, <2>2, MaybeLockState
<1>4. CASE UNCHANGED state
  BY <1>4
<1>5. CASE RespawnTimeout
  BY <1>4, <1>5 DEF RespawnTimeout
<1>6. CASE NewLock
  BY <1>6 DEF NewLock, WaitForSurfaces
<1>7. CASE LockDestroyed
  BY <1>7 DEF LockDestroyed, StopWaitingForSurfaces
<1>8. ASSUME NEW o \in Outputs,
             \/ CreateSurface(o) \/ MapSurface(o) \/ DestroySurface(o) \/ Frame(o)
             \/ Discard(o) \/ Draw(o) \/ Plug(o) \/ Unplug(o)
      PROVE  UNCHANGED state
  BY <1>8 DEF CreateSurface, MapSurface, DestroySurface, Frame, Discard, Draw, Plug, Unplug,
              lockVars
<1>9. ASSUME NEW o \in Outputs, Present(o) PROVE Goal
  <2>1. \/ UNCHANGED state
        \/ MaybeLock(state, lockRender', normalTree, surfacesTimer, waiters)
    BY <1>9 DEF Present
  <2>2. state' = state \/ (state \in Waiting /\ state' = "Locked")
    BY <2>1, MaybeLockState
  <2> QED
    BY <2>2 DEF Waiting
<1>10. ASSUME NEW on \in SUBSET Outputs, NEW modeset \in BOOLEAN,
              CommitOutputs(on, modeset)
       PROVE  UNCHANGED state
  BY <1>10 DEF CommitOutputs, lockVars
<1>11. CASE UNCHANGED vars
  BY <1>11 DEF vars
<1> QED
  BY <1>1, <1>2, <1>3, <1>4, <1>5, <1>6, <1>7, <1>8, <1>9, <1>10, <1>11 DEF Next

\* However locking, dying, rebinding, timeouts and monitors interleave, a session
\* that is locked or locking opens only for a client that was told it is locked.
THEOREM NoWayOutButUnlock == Spec => OnlyHolderUnlocks
<1>1. IInv /\ [Next]_vars
      => [state # "Unlocked" /\ state' = "Unlocked" => state = "Locked" /\ told]_vars
  <2> SUFFICES ASSUME IInv, [Next]_vars, state # "Unlocked", state' = "Unlocked"
               PROVE  state = "Locked" /\ told
    OBVIOUS
  <2>1. Unlock
    BY OnlyUnlockOpens
  <2>2. told
    BY <2>1 DEF Unlock
  <2>3. HolderWasTold
    BY DEF IInv, MInv
  <2> QED
    BY <2>2, <2>3 DEF HolderWasTold
<1> QED
  BY <1>1, Inductive, PTL DEF Spec, OnlyHolderUnlocks

\* The lock manager implements the abstract lock: a step that begins, completes,
\* hands over or opens the lock is that step of AbstractLock, the rest are none.
THEOREM Refinement == Spec => KeepsPromise
<1>1. Init => Promise!Init
  BY DEF Init, Promise!Init, Phase
<1>2. IInv /\ IInv' /\ [Next]_vars => [Promise!Next]_(Promise!vars)
  <2> SUFFICES ASSUME IInv, IInv', [Next]_vars
               PROVE  [Promise!Next]_(Promise!vars)
    OBVIOUS
  <2>1. /\ state \in LockState /\ state' \in LockState
        /\ told \in BOOLEAN /\ told' \in BOOLEAN
        /\ state # "Locked" => told = FALSE
        /\ state' # "Locked" => told' = FALSE
    BY DEF IInv, MInv, ManagerType, HolderWasTold
  <2>2. CASE Unlock
    <3>1. state = "Locked" /\ told = TRUE /\ state' = "Unlocked" /\ told' = FALSE
      BY <2>1, <2>2 DEF Unlock
    <3>2. Phase = "closed" /\ Phase' = "open"
      BY <3>1 DEF Phase
    <3> QED
      BY <3>1, <3>2 DEF Promise!Next, Promise!Open
  <2>3. CASE ~Unlock
    <3>1. /\ state' = "Unlocked" => state = "Unlocked"
          /\ state = "Locked" => state' = "Locked"
          /\ state = "Unlocked" /\ state' = "Locked" => ~lock'
      BY <2>3, OnlyUnlockOpens
    <3>2. CASE state = "Unlocked" /\ state' = "Unlocked"
      <4>1. UNCHANGED <<Phase, told>>
        BY <2>1, <3>2 DEF Phase
      <4> QED
        BY <4>1 DEF Promise!vars
    <3>3. CASE state = "Unlocked" /\ state' # "Unlocked"
      <4>1. Phase = "open" /\ Phase' \in {"closing", "closed"}
        BY <2>1, <3>3 DEF Phase, LockState
      <4>2. told' => state' = "Locked" /\ lock'
        BY DEF IInv, MInv, HolderWasTold
      <4>3. told' = FALSE
        BY <2>1, <3>1, <3>3, <4>2
      <4> QED
        BY <4>1, <4>3 DEF Promise!Next, Promise!Begin
    <3>4. CASE state \in Waiting /\ state' = "Locked"
      <4>1. Phase = "closing" /\ Phase' = "closed"
        BY <3>4 DEF Phase, Waiting
      <4> QED
        BY <2>1, <4>1 DEF Promise!Next, Promise!Close
    <3>5. CASE state \in Waiting /\ state' \in Waiting
      <4>1. UNCHANGED <<Phase, told>>
        BY <2>1, <3>5 DEF Phase, Waiting
      <4> QED
        BY <4>1 DEF Promise!vars
    <3>6. CASE state = "Locked" /\ state' = "Locked"
      <4>1. Phase = "closed" /\ UNCHANGED Phase
        BY <3>6 DEF Phase
      <4> QED
        BY <2>1, <4>1 DEF Promise!Next, Promise!PassKey
    <3> QED
      BY <2>1, <3>1, <3>2, <3>3, <3>4, <3>5, <3>6 DEF LockState, Waiting
  <2> QED
    BY <2>2, <2>3
<1> QED
  BY <1>1, <1>2, Inductive, PTL DEF Spec, KeepsPromise, Promise!Spec

-----------------------------------------------------------------------------
(* While no lock client dies, a session locks only with its desktop off.   *)

\* The desktop is off from the start of a wait for blank outputs.
BlankMeansOff == state \in {"WaitingForBlank", "Locked"} => ~normalTree

\* maybe_lock keeps that, and establishes it when all surfaces are shown.
LEMMA MaybeLockBlank ==
    ASSUME NEW st \in LockState, NEW render, NEW tree \in BOOLEAN, NEW timer, NEW waiting,
           st \in {"WaitingForBlank", "Locked"} => ~tree,
           MaybeLock(st, render, tree, timer, waiting)
    PROVE  BlankMeansOff'
<1>1. CASE Completes(st, render)
  <2>1. st = "WaitingForLockSurfaces" \/ st = "WaitingForBlank"
    BY <1>1 DEF Completes
  <2>2. normalTree' = (tree /\ st # "WaitingForLockSurfaces")
    BY <1>1 DEF MaybeLock
  <2>3. ~normalTree'
    BY <2>1, <2>2
  <2> QED
    BY <2>3 DEF BlankMeansOff
<1>2. CASE ~Completes(st, render)
  <2>1. state' = st /\ normalTree' = tree
    BY <1>2 DEF MaybeLock
  <2> QED
    BY <2>1 DEF BlankMeansOff
<1> QED
  BY <1>1, <1>2

\* Every step keeps it but the death of a lock client (handle_destroy), which
\* starts a wait for blank outputs without switching the desktop off.
LEMMA BlankStep ==
    ASSUME "destroy" \notin MayHappen, MInv, BlankMeansOff, [Next]_vars
    PROVE  BlankMeansOff'
<1>0. state \in LockState /\ normalTree \in BOOLEAN
  BY DEF MInv, ManagerType
<1>1. ASSUME NEW waiting, LockNow(waiting) PROVE BlankMeansOff'
  <2>1. MaybeLock("WaitingForBlank", lockRender, FALSE, surfacesTimer, waiting)
    BY <1>1 DEF LockNow
  <2> QED
    BY <2>1, MaybeLockBlank DEF LockState
<1>2. ASSUME NEW c \in Callers, LockCommand(c) PROVE BlankMeansOff'
  <2>1. CASE LockNow(waiters \cup {c})
    BY <1>1, <2>1
  <2>2. CASE UNCHANGED <<state, normalTree>>
    BY <2>2 DEF BlankMeansOff
  <2> QED
    BY <1>2, <2>1, <2>2 DEF LockCommand
<1>3. CASE LockSurfacesTimeout
  <2>1. MaybeLock("WaitingForBlank", lockRender, FALSE, FALSE, waiters)
    BY <1>3 DEF LockSurfacesTimeout
  <2> QED
    BY <2>1, MaybeLockBlank DEF LockState
<1>4. CASE NewLock
  <2>1. normalTree' = normalTree
    BY <1>4 DEF NewLock
  <2>2. state' = "WaitingForLockSurfaces" \/ state' = state
    BY <1>4 DEF NewLock, WaitForSurfaces
  <2> QED
    BY <2>1, <2>2 DEF BlankMeansOff
<1>5. CASE Unlock
  BY <1>5 DEF Unlock, BlankMeansOff
<1>6. ASSUME NEW o \in Outputs, Present(o) PROVE BlankMeansOff'
  <2>1. CASE MayComplete(lockRender[o])
    <3>1. MaybeLock(state, lockRender', normalTree, surfacesTimer, waiters)
      BY <1>6, <2>1 DEF Present
    <3>2. state \in {"WaitingForBlank", "Locked"} => ~normalTree
      BY DEF BlankMeansOff
    <3> QED
      BY <1>0, <3>1, <3>2, MaybeLockBlank
  <2>2. CASE ~MayComplete(lockRender[o])
    BY <1>6, <2>2 DEF Present, BlankMeansOff
  <2> QED
    BY <2>1, <2>2
<1>7. CASE UNCHANGED <<state, normalTree>>
  BY <1>7 DEF BlankMeansOff
<1>8. ASSUME NEW o \in Outputs,
             CreateSurface(o) \/ MapSurface(o) \/ DestroySurface(o) \/ Frame(o)
               \/ Discard(o) \/ Draw(o) \/ Plug(o) \/ Unplug(o)
      PROVE  BlankMeansOff'
  <2>1. UNCHANGED <<state, normalTree>>
    BY <1>8 DEF CreateSurface, MapSurface, DestroySurface, Frame, Discard, Draw, Plug, Unplug,
                lockVars
  <2> QED
    BY <1>7, <2>1
<1>9. ASSUME NEW on \in SUBSET Outputs, NEW modeset \in BOOLEAN, CommitOutputs(on, modeset)
      PROVE  BlankMeansOff'
  BY <1>7, <1>9 DEF CommitOutputs, lockVars
<1>10. CASE RespawnTimeout
  BY <1>7, <1>10 DEF RespawnTimeout
<1>11. CASE UNCHANGED vars
  BY <1>7, <1>11 DEF vars
<1>12. ~LockDestroyed
  BY DEF LockDestroyed
<1> QED
  BY <1>1, <1>2, <1>3, <1>4, <1>5, <1>6, <1>8, <1>9, <1>10, <1>11, <1>12 DEF Next

\* As long as no lock client dies, a locked session has its desktop switched off
\* in the scene (output.rs, note_lock_state), on any number of outputs, with
\* surfaces that are created, mapped and destroyed at any time and outputs that
\* come and go.  The condition is needed: a client that dies while the lock waits
\* for its surfaces leaves a wait for blank outputs with the desktop on.
THEOREM DesktopOff ==
    ASSUME "destroy" \notin MayHappen
    PROVE  Spec => []DesktopOffWhenLocked
<1>1. Init => BlankMeansOff
  BY DEF Init, BlankMeansOff
<1>2. MInv /\ BlankMeansOff /\ [Next]_vars => BlankMeansOff'
  BY BlankStep
<1>3. IInv => MInv
  BY DEF IInv
<1>4. BlankMeansOff => DesktopOffWhenLocked
  BY DEF BlankMeansOff, DesktopOffWhenLocked
<1> QED
  BY <1>1, <1>2, <1>3, <1>4, Inductive, PTL DEF Spec

-----------------------------------------------------------------------------
(* While outputs stay as they are and no lock client dies, a lock hides    *)
(* the desktop.  The inductive invariant says what the manager may infer   *)
(* from lock_render_state: an output that counts as blanked shows no       *)
(* desktop and has none on its way, one that is about to be has none on    *)
(* its way, and a locked session has counted every output.                 *)

BlankedIsBlank ==
    \A o \in Outputs :
        /\ lockRender[o] = "Blanked" => screen[o] # "desktop"
        /\ lockRender[o] \in {"Blanked", "PendingBlank"} => flip[o] # "desktop"

LockedIsCounted ==
    state = "Locked" => \A o \in Outputs : lockRender[o] \in {"Blanked", "LockSurface"}

OutputsOn == \A o \in Outputs : power[o] = "on"

HideInv == OutputsOn /\ BlankedIsBlank /\ LockedIsCounted

\* A lock completes only once every output is counted.
LEMMA CompletesCounted ==
    ASSUME OutputsOn, NEW st, NEW render, Completes(st, render)
    PROVE  \A o \in Outputs : render[o] \in {"Blanked", "LockSurface"}
<1>1. On = Outputs
  BY DEF On, OutputsOn
<1> QED
  BY <1>1 DEF Completes, AllShowLockSurface, AllBlanked

\* maybe_lock, called with the outputs as they are, keeps the invariant.
LEMMA MaybeLockHides ==
    ASSUME HideInv, NEW st, NEW tree, NEW timer, NEW waiting, st # "Locked",
           MaybeLock(st, lockRender, tree, timer, waiting),
           UNCHANGED <<power, lockRender, flip, screen>>
    PROVE  HideInv'
<1>1. OutputsOn' /\ BlankedIsBlank'
  BY DEF HideInv, OutputsOn, BlankedIsBlank
<1>2. CASE Completes(st, lockRender)
  BY <1>1, <1>2, CompletesCounted DEF HideInv, LockedIsCounted
<1>3. CASE ~Completes(st, lockRender)
  <2>1. state' = st
    BY <1>3 DEF MaybeLock
  <2> QED
    BY <1>1, <2>1 DEF HideInv, LockedIsCounted
<1> QED
  BY <1>2, <1>3

\* A frame of a session that waits for blank outputs, or is locked, shows no desktop;
\* any other unmakes a blanked output.
LEMMA FrameHides ==
    ASSUME HideInv, BlankMeansOff, IInv, NEW o \in Outputs, Frame(o)
    PROVE  HideInv'
<1>1. /\ flip' = [flip EXCEPT ![o] = Drawn(o)]
      /\ lockRender' = [lockRender EXCEPT ![o] = NoteLockState(o)]
      /\ UNCHANGED <<state, power, screen, normalTree>>
  BY DEF Frame, lockVars
<1>2. /\ lockRender \in [Outputs -> LockRenderState]
      /\ flip \in [Outputs -> Content \cup {"none", "lost"}]
      /\ state \in LockState
  BY DEF IInv, MInv, ManagerType, OutputType
<1>3. \A p \in Outputs : p # o => flip'[p] = flip[p] /\ lockRender'[p] = lockRender[p]
  BY <1>1, <1>2
<1>4. flip'[o] = Drawn(o) /\ lockRender'[o] = NoteLockState(o)
  BY <1>1, <1>2
<1>5. OutputsOn'
  BY <1>1 DEF HideInv, OutputsOn
<1>6. CASE state = "WaitingForBlank"
  <2>1. flip'[o] # "desktop"
    BY <1>4, <1>6 DEF Drawn, BlankMeansOff
  <2>2. lockRender'[o] \in {"Blanked", "PendingBlank"}
        /\ (lockRender'[o] = "Blanked" => lockRender[o] = "Blanked")
    BY <1>4, <1>6 DEF NoteLockState
  <2> QED
    BY <1>1, <1>3, <1>5, <1>6, <2>1, <2>2 DEF HideInv, BlankedIsBlank, LockedIsCounted
<1>7. CASE state = "Locked"
  <2>1. flip'[o] # "desktop"
    BY <1>4, <1>7 DEF Drawn, BlankMeansOff
  <2>2. lockRender'[o] = lockRender[o]
    BY <1>4, <1>7 DEF NoteLockState
  <2> QED
    BY <1>1, <1>3, <1>5, <2>1, <2>2 DEF HideInv, BlankedIsBlank, LockedIsCounted
<1>8. CASE state \in {"Unlocked", "WaitingForLockSurfaces"}
  <2>1. lockRender'[o] \in {"Unlocked", "PendingUnlock", "LockSurface", "PendingLockSurface"}
    BY <1>4, <1>8 DEF NoteLockState
  <2> QED
    BY <1>1, <1>3, <1>5, <1>8, <2>1 DEF HideInv, BlankedIsBlank, LockedIsCounted
<1> QED
  BY <1>2, <1>6, <1>7, <1>8 DEF LockState

\* What is presented was committed, and an output that counts as blanked from then
\* on shows no desktop.
LEMMA PresentHides ==
    ASSUME HideInv, IInv, NEW o \in Outputs, Present(o)
    PROVE  HideInv'
<1>1. /\ screen' = [screen EXCEPT ![o] = flip[o]]
      /\ flip' = [flip EXCEPT ![o] = "none"]
      /\ lockRender' = [lockRender EXCEPT ![o] = Presented(lockRender[o])]
      /\ power' = power
  BY DEF Present
<1>2. /\ lockRender \in [Outputs -> LockRenderState]
      /\ flip \in [Outputs -> Content \cup {"none", "lost"}]
      /\ screen \in [Outputs -> Content \cup {"dark"}]
  BY DEF IInv, OutputType
<1>3. \A p \in Outputs : p # o =>
        flip'[p] = flip[p] /\ lockRender'[p] = lockRender[p] /\ screen'[p] = screen[p]
  BY <1>1, <1>2
<1>4. flip'[o] = "none" /\ lockRender'[o] = Presented(lockRender[o]) /\ screen'[o] = flip[o]
  BY <1>1, <1>2
<1>5. lockRender'[o] = "Blanked" => lockRender[o] \in {"Blanked", "PendingBlank"}
  BY <1>4 DEF Presented
<1>6. OutputsOn' /\ BlankedIsBlank'
  BY <1>1, <1>3, <1>4, <1>5 DEF HideInv, OutputsOn, BlankedIsBlank
<1>7. lockRender[o] \in {"Blanked", "LockSurface"} => lockRender'[o] = lockRender[o]
  BY <1>4 DEF Presented
<1>8. LockedIsCounted'
  <2>1. CASE state' = state
    BY <1>3, <1>7, <2>1 DEF HideInv, LockedIsCounted
  <2>2. CASE state' # state
    <3>1. MaybeLock(state, lockRender', normalTree, surfacesTimer, waiters)
      BY <2>2 DEF Present
    <3>2. Completes(state, lockRender')
      BY <2>2, <3>1 DEF MaybeLock
    <3> QED
      BY <3>2, CompletesCounted DEF HideInv, LockedIsCounted
  <2> QED
    BY <2>1, <2>2
<1> QED
  BY <1>6, <1>8 DEF HideInv

\* Every step keeps the invariant.
LEMMA HideStep ==
    ASSUME MayHappen \subseteq {"surface", "lost"}, HideInv, BlankMeansOff, IInv, [Next]_vars
    PROVE  HideInv'
<1>1. ASSUME UNCHANGED <<state, power, lockRender, flip, screen>> PROVE HideInv'
  BY <1>1 DEF HideInv, OutputsOn, BlankedIsBlank, LockedIsCounted
<1>2. ASSUME NEW waiting, LockNow(waiting) PROVE HideInv'
  BY <1>2, MaybeLockHides DEF LockNow
<1>3. ASSUME NEW c \in Callers, LockCommand(c) PROVE HideInv'
  <2>1. CASE LockNow(waiters \cup {c})
    BY <1>2, <2>1
  <2>2. CASE UNCHANGED <<state, outputVars>>
    BY <1>1, <2>2 DEF outputVars
  <2> QED
    BY <1>3, <2>1, <2>2 DEF LockCommand
<1>4. CASE LockSurfacesTimeout
  BY <1>4, MaybeLockHides DEF LockSurfacesTimeout
<1>5. CASE NewLock
  BY <1>1, <1>5 DEF NewLock, WaitForSurfaces, outputVars, HideInv, OutputsOn, BlankedIsBlank,
                    LockedIsCounted
<1>6. CASE Unlock
  <2>1. state' = "Unlocked" /\ UNCHANGED <<power, lockRender, flip, screen>>
    BY <1>6 DEF Unlock
  <2> QED
    BY <2>1 DEF HideInv, OutputsOn, BlankedIsBlank, LockedIsCounted
<1>7. ASSUME NEW o \in Outputs, Frame(o) PROVE HideInv'
  BY <1>7, FrameHides
<1>8. ASSUME NEW o \in Outputs, Present(o) PROVE HideInv'
  BY <1>8, PresentHides
<1>9. ASSUME NEW o \in Outputs, Discard(o) PROVE HideInv'
  <2>1. /\ flip' = [flip EXCEPT ![o] = "lost"]
        /\ UNCHANGED <<state, power, lockRender, screen>>
    BY <1>9 DEF Discard, lockVars
  <2>2. \A p \in Outputs : flip'[p] = "desktop" => flip[p] = "desktop"
    BY <2>1 DEF IInv, OutputType
  <2> QED
    BY <2>1, <2>2 DEF HideInv, OutputsOn, BlankedIsBlank, LockedIsCounted
<1>10. ASSUME NEW o \in Outputs,
              CreateSurface(o) \/ MapSurface(o) \/ DestroySurface(o) \/ Draw(o)
       PROVE  HideInv'
  <2>1. UNCHANGED <<state, power, lockRender, flip, screen>>
    BY <1>10 DEF CreateSurface, MapSurface, DestroySurface, Draw, lockVars
  <2> QED
    BY <1>1, <2>1
<1>11. ASSUME NEW on \in SUBSET Outputs, NEW modeset \in BOOLEAN, CommitOutputs(on, modeset)
       PROVE  HideInv'
  <2>1. On = Outputs /\ Plugged = Outputs
    BY DEF On, Plugged, HideInv, OutputsOn
  <2>2. on = Outputs /\ modeset = FALSE
    BY <1>11, <2>1 DEF CommitOutputs
  <2>3. /\ power' = [o \in Outputs |-> "on"]
        /\ lockRender' = [o \in Outputs |-> lockRender[o]]
        /\ flip' = [o \in Outputs |-> flip[o]]
        /\ screen' = [o \in Outputs |-> screen[o]]
        /\ state' = state
    BY <1>11, <2>1, <2>2 DEF CommitOutputs, lockVars
  <2> QED
    BY <2>3 DEF HideInv, OutputsOn, BlankedIsBlank, LockedIsCounted
<1>12. CASE RespawnTimeout
  BY <1>1, <1>12 DEF RespawnTimeout, outputVars
<1>13. CASE UNCHANGED vars
  BY <1>1, <1>13 DEF vars
<1>14. ~LockDestroyed /\ \A o \in Outputs : ~Plug(o) /\ ~Unplug(o)
  BY DEF LockDestroyed, Plug, Unplug
<1> QED
  BY <1>2, <1>3, <1>4, <1>5, <1>6, <1>7, <1>8, <1>9, <1>10, <1>11, <1>12, <1>13, <1>14 DEF Next

\* On any number of outputs that are on and stay as they are, with any order of
\* locks, unlocks, timeouts, frames (shown or lost), repaints, and lock surfaces that
\* are created, mapped and destroyed, an output that a complete lock counted as blanked
\* does not show the desktop (maybe_lock: "every enabled output shows what the state
\* waits for"), be the frame that was on its way the desktop's.
THEOREM LockHides ==
    ASSUME MayHappen \subseteq {"surface", "lost"}
    PROVE  Spec => []LockedHidesDesktop
<1>1. Init => BlankMeansOff /\ HideInv
  BY DEF Init, BlankMeansOff, HideInv, OutputsOn, BlankedIsBlank, LockedIsCounted
<1>2. MInv /\ BlankMeansOff /\ [Next]_vars => BlankMeansOff'
  BY BlankStep
<1>3. HideInv /\ BlankMeansOff /\ IInv /\ [Next]_vars => HideInv'
  BY HideStep
<1>4. IInv => MInv
  BY DEF IInv
<1>5. BlankMeansOff /\ HideInv => LockedHidesDesktop
  BY DEF BlankMeansOff, HideInv, LockedIsCounted, BlankedIsBlank, LockedHidesDesktop,
         DesktopOffWhenLocked, On
<1> QED
  BY <1>1, <1>2, <1>3, <1>4, <1>5, Inductive, PTL DEF Spec

-----------------------------------------------------------------------------
(* A desktop that is switched off goes from every screen.                  *)

\* A frame is due on each of the outputs in D.
Due(D) == \A o \in D : needsFrame'[o]

\* Switching the desktop off makes a frame due wherever it may be seen.
LEMMA TreeOffIsDue ==
    ASSUME IInv, Damage(DamageOfTree), normalTree, ~normalTree'
    PROVE  Due(On)
BY DEF Damage, DamageOfTree, Due, On, IInv, MInv, ManagerType

\* Damage takes no frame back that was due.
LEMMA DamageAdds ==
    ASSUME NEW D, Damage(D)
    PROVE  \A o \in Outputs : needsFrame[o] \/ o \in D => needsFrame'[o]
BY DEF Damage

\* Every step leaves a frame due for a desktop that is to go, unless one was lost.
LEMMA GoesStep ==
    ASSUME HiddenDesktopGoes, IInv, [Next]_vars
    PROVE  HiddenDesktopGoes'
<1>0. /\ flip \in [Outputs -> Content \cup {"none", "lost"}]
      /\ screen \in [Outputs -> Content \cup {"dark"}]
      /\ needsFrame \in [Outputs -> BOOLEAN]
      /\ normalTree \in BOOLEAN /\ On \subseteq Outputs
  BY DEF IInv, MInv, ManagerType, OutputType, On
<1>1. ASSUME UNCHANGED <<normalTree, power, flip, screen>>,
             \A o \in On : needsFrame[o] => needsFrame'[o]
      PROVE  HiddenDesktopGoes'
  BY <1>1 DEF HiddenDesktopGoes, On
<1>2. ASSUME Due(On), UNCHANGED power PROVE HiddenDesktopGoes'
  BY <1>2 DEF HiddenDesktopGoes, On, Due
<1>3. ASSUME NEW waiting, LockNow(waiting) PROVE HiddenDesktopGoes'
  BY <1>0, <1>2, <1>3, DamageAdds DEF LockNow, Due
<1>4. ASSUME NEW c \in Callers, LockCommand(c) PROVE HiddenDesktopGoes'
  BY <1>1, <1>3, <1>4 DEF LockCommand, outputVars
<1>5. CASE LockSurfacesTimeout
  <2>1. Damage(DamageOfTree) /\ UNCHANGED <<power, flip, screen>>
    BY <1>5 DEF LockSurfacesTimeout
  <2>2. CASE normalTree /\ ~normalTree'
    BY <1>2, <2>1, <2>2, TreeOffIsDue
  <2>3. CASE ~normalTree /\ ~normalTree'
    BY <1>0, <2>1, <2>3, DamageAdds DEF HiddenDesktopGoes, On
  <2>4. CASE normalTree'
    BY <2>4 DEF HiddenDesktopGoes
  <2> QED
    BY <1>0, <2>2, <2>3, <2>4
<1>6. CASE NewLock \/ RespawnTimeout
  BY <1>1, <1>6 DEF NewLock, RespawnTimeout, outputVars
<1>7. CASE LockDestroyed
  BY <1>0, <1>1, <1>7, DamageAdds DEF LockDestroyed
<1>8. CASE Unlock
  BY <1>8 DEF Unlock, ShowDesktop, HiddenDesktopGoes
<1>9. ASSUME NEW o \in Outputs,
             CreateSurface(o) \/ MapSurface(o) \/ DestroySurface(o) \/ Draw(o)
      PROVE  HiddenDesktopGoes'
  <2>1. UNCHANGED <<normalTree, power, flip, screen>>
    BY <1>9 DEF CreateSurface, MapSurface, DestroySurface, Draw, lockVars
  <2>2. \A p \in On : needsFrame[p] => needsFrame'[p]
    BY <1>0, <1>9, DamageAdds DEF CreateSurface, MapSurface, DestroySurface, Draw
  <2> QED
    BY <1>1, <2>1, <2>2
<1>10. ASSUME NEW o \in Outputs, Frame(o) PROVE HiddenDesktopGoes'
  <2>1. /\ flip' = [flip EXCEPT ![o] = Drawn(o)]
        /\ needsFrame' = [needsFrame EXCEPT ![o] = FALSE]
        /\ UNCHANGED <<normalTree, power, screen>>
    BY <1>10 DEF Frame, lockVars
  <2>2. ~normalTree => Drawn(o) \in {"blank", "prompt"}
    BY DEF Drawn
  <2> QED
    BY <1>0, <2>1, <2>2 DEF HiddenDesktopGoes, On
<1>11. ASSUME NEW o \in Outputs, Present(o) PROVE HiddenDesktopGoes'
  <2>1. /\ screen' = [screen EXCEPT ![o] = flip[o]]
        /\ flip' = [flip EXCEPT ![o] = "none"]
        /\ Damage(DamageOfTree) /\ power' = power
    BY <1>11 DEF Present
  <2>2. CASE normalTree /\ ~normalTree'
    BY <1>2, <2>1, <2>2, TreeOffIsDue
  <2>3. CASE ~normalTree /\ ~normalTree'
    <3>1. \A p \in On : needsFrame[p] => needsFrame'[p]
      BY <1>0, <2>1, DamageAdds
    <3> QED
      BY <1>0, <2>1, <2>3, <3>1 DEF HiddenDesktopGoes, On
  <2>4. CASE normalTree'
    BY <2>4 DEF HiddenDesktopGoes
  <2> QED
    BY <1>0, <2>2, <2>3, <2>4
<1>12. ASSUME NEW on \in SUBSET Outputs, NEW modeset \in BOOLEAN, CommitOutputs(on, modeset)
       PROVE  HiddenDesktopGoes'
  BY <1>12 DEF CommitOutputs, HiddenDesktopGoes, On
<1>13. ASSUME NEW o \in Outputs, Plug(o) PROVE HiddenDesktopGoes'
  BY <1>0, <1>13 DEF Plug, HiddenDesktopGoes, On, lockVars, IInv, OutputType
<1>14. ASSUME NEW o \in Outputs, Unplug(o) PROVE HiddenDesktopGoes'
  BY <1>0, <1>14 DEF Unplug, HiddenDesktopGoes, On, lockVars, IInv, OutputType
<1>15. CASE UNCHANGED vars
  BY <1>1, <1>15 DEF vars
<1>16. ASSUME NEW o \in Outputs, Discard(o) PROVE HiddenDesktopGoes'
  <2>1. /\ flip' = [flip EXCEPT ![o] = "lost"]
        /\ UNCHANGED <<normalTree, power, needsFrame, screen>>
    BY <1>16 DEF Discard, lockVars
  <2> QED
    BY <1>0, <2>1 DEF HiddenDesktopGoes, On
<1> QED
  BY <1>3, <1>4, <1>5, <1>6, <1>7, <1>8, <1>9, <1>10, <1>11, <1>12, <1>13, <1>14, <1>15, <1>16
     DEF Next

\* Whatever lock clients, surfaces, timers and monitors do (a client that dies, an
\* output that is plugged in, lit or given a mode while the session is locked), a
\* desktop that is switched off goes from every output that is on: the frame that hides
\* it is due, on its way, or was lost (lock_now, commit_output_state).
THEOREM HiddenDesktopIsGoing == Spec => []HiddenDesktopGoes
<1>1. Init => HiddenDesktopGoes
  BY DEF Init, HiddenDesktopGoes
<1>2. HiddenDesktopGoes /\ IInv /\ [Next]_vars => HiddenDesktopGoes'
  BY GoesStep
<1> QED
  BY <1>1, <1>2, Inductive, PTL DEF Spec

\* Both of it: the trees of the scene are those of the lock's state, and every screen
\* comes to show the scene without the desktop that it has.
THEOREM SceneSound == Spec => []SceneFollowsLock
<1>1. TreesFollowState /\ HiddenDesktopGoes => SceneFollowsLock
  BY DEF SceneFollowsLock
<1> QED
  BY <1>1, TreesSound, HiddenDesktopIsGoing, PTL
=============================================================================

------------------------------ MODULE MCPower ------------------------------
(***************************************************************************)
(* What darkens, locks and suspends the machine: four parts that share no  *)
(* state, one of which runs at a time.  The constants are any; the values  *)
(* TLC gives them are at the end.                                          *)
(***************************************************************************)
EXTENDS TLC, Integers, Sequences

VARIABLES part,
  limit, timer, fresh, quiet, inhibited, sched, idleOff, byClient, displaysOff,
  sleeping, sleepAfterLock, fallback, phase, keyed,
  config, planFile, dirThere, planRead, watching, unread, dirGone, pollStep, everRead,
  registered, inScene, passWanted, wayland, leases, left, leaseTimer, names, awakeFlag,
  thread, holding, signals, queued, answer, logind, expired, guarded, began, shown, late,
  sPhase, sKeyed

idleVars == <<limit, timer, fresh, quiet, inhibited, sched, idleOff, byClient, displaysOff,
               sleeping, sleepAfterLock, fallback, phase, keyed>>
planVars == <<config, planFile, dirThere, planRead, watching, unread, dirGone, pollStep, everRead>>
inhibitVars == <<registered, inScene, passWanted, wayland, leases, left, leaseTimer, names, awakeFlag>>
sleepVars == <<thread, holding, signals, queued, answer, logind, expired, guarded, began, shown, late,
               sPhase, sKeyed>>

CONSTANTS
  Monitors, Longest, LockTicks, Settings,   \* Idle
  Timeouts, Absent,                         \* IdlePlan
  Surfaces, Tokens, Holder, MaxLease,       \* IdleInhibit
  MaxSignals                                \* SleepLock

Idle == INSTANCE Idle
Plan == INSTANCE IdlePlan
Inhibit == INSTANCE IdleInhibit
Sleep == INSTANCE SleepLock WITH phase <- sPhase, keyed <- sKeyed

ASSUME IdleAssumption ==
    /\ Longest \in Nat /\ LockTicks \in Nat /\ LockTicks <= Longest
    /\ Settings \subseteq [Idle!Timers -> 0..Longest]

ASSUME InhibitAssumption == MaxLease \in Nat

vars == <<part, idleVars, planVars, inhibitVars, sleepVars>>

\* Only the part chosen at the start runs.
Init ==
    /\ part \in {"idle", "plan", "inhibit", "sleep"}
    /\ Idle!Init
    /\ Plan!Init
    /\ Inhibit!Init
    /\ Sleep!Init
    /\ part # "plan" => planFile = Absent /\ ~dirThere /\ config = CHOOSE t \in Timeouts : TRUE

Next ==
    /\ \/ part = "idle" /\ Idle!Next /\ UNCHANGED <<planVars, inhibitVars, sleepVars>>
       \/ part = "plan" /\ Plan!Next /\ UNCHANGED <<idleVars, inhibitVars, sleepVars>>
       \/ part = "inhibit" /\ Inhibit!Next /\ UNCHANGED <<idleVars, planVars, sleepVars>>
       \/ part = "sleep" /\ Sleep!Next /\ UNCHANGED <<idleVars, planVars, inhibitVars>>
    /\ UNCHANGED part

\* The fairness each module states for itself, of the part that runs.
Spec ==
    /\ Init /\ [][Next]_vars
    /\ WF_idleVars(part = "idle" /\ Idle!Tick)
    /\ WF_idleVars(part = "idle" /\ Idle!DisplayTimeout)
    /\ WF_idleVars(part = "idle" /\ Idle!SleepTimeout)
    /\ WF_idleVars(part = "idle" /\ Idle!LockFallback)
    /\ WF_planVars(part = "plan" /\ Plan!Start)
    /\ WF_planVars(part = "plan" /\ Plan!HandleInotify)
    /\ WF_planVars(part = "plan" /\ Plan!PollLooks)
    /\ WF_planVars(part = "plan" /\ Plan!PollWatches)
    /\ WF_planVars(part = "plan" /\ Plan!PollLooksAgain)
    /\ WF_inhibitVars(part = "inhibit" /\ Inhibit!Tick)
    /\ WF_inhibitVars(part = "inhibit" /\ Inhibit!LeaseExpiry)
    /\ WF_inhibitVars(part = "inhibit" /\ Inhibit!RenderFinish)
    /\ WF_sleepVars(part = "sleep" /\ Sleep!Subscribe)
    /\ WF_sleepVars(part = "sleep" /\ Sleep!Take)
    /\ WF_sleepVars(part = "sleep" /\ Sleep!WaitSleep)
    /\ WF_sleepVars(part = "sleep" /\ Sleep!Ask)
    /\ WF_sleepVars(part = "sleep" /\ Sleep!AnswerLate)
    /\ WF_sleepVars(part = "sleep" /\ Sleep!LetGo)
    /\ WF_sleepVars(part = "sleep" /\ Sleep!WaitResume)
    /\ WF_sleepVars(part = "sleep" /\ Sleep!Retry)

\* The machine sleeps when it is agreed and never unguarded: what fell due, what
\* held it off, and the lock that comes first (Idle, SleepLock).
SleepsAsAgreed == Idle!TypeOK /\ Idle!SleepsAsAgreed /\ Sleep!GuardsSleeps

\* The countdowns run for the time left since the last use and no longer than
\* anyone holds them off, and a use lights again what they darkened (Idle,
\* IdleInhibit).
TimersFollowUse ==
    /\ Inhibit!TypeOK /\ Inhibit!AwakeAsHeld
    /\ Idle!TimersFollowUse /\ Idle!WakesWhatItDarkened

\* No change of the plan directory goes unnoticed (IdlePlan).
WatchMissesNothing == Plan!WatchMissesNothing

\* An idle machine darkens and sleeps, a holder that is gone lets go, the plan
\* is caught up with and the delay of sleeps taken again (all four).
PowerSettles ==
    /\ Idle!IdleEnds /\ Inhibit!DeadHolderLetsGo
    /\ Plan!PlanCatchesUp
    /\ part = "sleep" => Sleep!HoldsAgain

\* What the documentation says of a plan that is there at the start.
PlanIsInForce == Plan!PlanIsInForce

-----------------------------------------------------------------------------
(* The values of the constants for TLC.                                    *)
CONSTANTS m1, m2, s1, s2, t1, t2, app

T(d, s) == [k \in {"display", "sleep"} |-> IF k = "display" THEN d ELSE s]

TwoMonitors == {m1, m2}
ThreeSettings == {T(0, 2), T(2, 0), T(2, 3)}
TwoTimeouts == {T(1, 2), T(2, 0)}
TwoSurfaces == {s1, s2}
TwoTokens == {t1, t2}
OneHolder == [t \in {t1, t2} |-> app]
=============================================================================

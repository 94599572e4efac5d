-------------------------------- MODULE Idle --------------------------------
(***************************************************************************)
(* The idle manager (src/server/idle.rs): two countdowns that restart at   *)
(* every input, one that darkens the displays and one that locks the       *)
(* session and puts the machine to sleep.                                  *)
(*                                                                         *)
(* Time is counted in seconds, the unit of every timeout here and the      *)
(* length of the throttle REARM_MIN_MS.  Events happen at whole seconds and *)
(* a timer that is due fires before the next one (Tick).  The session lock *)
(* is AbstractLock, the promise SessionLock is shown to keep; the timeouts *)
(* in force come from IdlePlan and the inhibited flag from IdleInhibit.    *)
(***************************************************************************)
EXTENDS Integers

CONSTANTS
    Monitors,       \* the outputs that may be plugged in
    Settings,       \* the pairs of timeouts in force, [display, sleep], 0 = never
    Longest,        \* a bound on the timeouts and on what `quiet` counts to
    LockTicks       \* LOCK_BEFORE_SLEEP_MS

VARIABLES
    limit,          \* display_off_ms and sleep_ms
    timer,          \* display_timer and sleep_timer: seconds left, or Off
    fresh,          \* the timers were armed less than REARM_MIN_MS ago
    quiet,          \* seconds since the last activity, up to Longest
    inhibited,      \* IdleManager.inhibited
    sched,          \* per output: scheduled.state, or "gone"
    idleOff,        \* the outputs whose idle_off is set
    byClient,       \* the outputs a power client darkened last
    displaysOff,    \* IdleManager.displays_off
    sleeping,       \* IdleManager.sleeping
    sleepAfterLock, \* IdleManager.sleep_after_lock
    fallback,       \* lock_fallback_timer: seconds left, or Off
    phase, keyed    \* the session lock

displayVars == <<sched, idleOff, byClient, displaysOff>>
sleepVars == <<sleeping, sleepAfterLock, fallback>>
lockVars == <<phase, keyed>>
vars == <<limit, timer, fresh, quiet, inhibited, displayVars, sleepVars, lockVars>>

Lock == INSTANCE AbstractLock

Timers == {"display", "sleep"}
Off == -1

Init ==
    /\ limit = [k \in Timers |-> 0]
    /\ timer = [k \in Timers |-> Off]
    /\ fresh = FALSE
    /\ quiet = 0
    /\ inhibited = FALSE
    /\ sched = [o \in Monitors |-> "gone"]
    /\ idleOff = {}
    /\ byClient = {}
    /\ displaysOff = FALSE
    /\ sleeping = FALSE
    /\ sleepAfterLock = FALSE
    /\ fallback = Off
    /\ Lock!Init

-----------------------------------------------------------------------------
(* What the handlers share.                                                *)

\* rearm: both countdowns start over, at most once a second unless forced.
Rearm(force, held, lim) ==
    IF force \/ ~fresh
    THEN /\ timer' = [k \in Timers |-> IF held \/ lim[k] = 0 THEN Off ELSE lim[k]]
         /\ fresh' = TRUE
    ELSE UNCHANGED <<timer, fresh>>

\* Mutant: an output is darkened and not marked.
DarkenUnmarked ==
    /\ sched' = [o \in Monitors |-> IF sched[o] = "Enabled" THEN "DisabledSoft" ELSE sched[o]]
    /\ displaysOff' = TRUE
    /\ UNCHANGED idleOff

\* set_displays(false).
Darken ==
    /\ sched' = [o \in Monitors |-> IF sched[o] = "Enabled" THEN "DisabledSoft" ELSE sched[o]]
    /\ idleOff' = idleOff \cup {o \in Monitors : sched[o] = "Enabled"}
    /\ displaysOff' = TRUE

\* set_displays(true): only what this module darkened is lit again.
Light ==
    /\ sched' = [o \in Monitors |-> IF o \in idleOff /\ sched[o] = "DisabledSoft"
                                     THEN "Enabled" ELSE sched[o]]
    /\ idleOff' = {}
    /\ displaysOff' = FALSE

\* sleep_now.  Without a login session nothing runs, and the fork may fail.
SleepNow == sleeping' \in BOOLEAN

\* Mutant: whoever came back is put to sleep all the same.
SleepStandsCallOff == UNCHANGED <<sleepAfterLock, fallback>>

\* Someone is here: a sleep that waits for its lock is called off.
CallOff == sleepAfterLock' = FALSE /\ fallback' = Off

\* Mutant: only an input that wakes something restarts the countdowns.
ActivityOnlyWakes ==
    /\ quiet' = 0
    /\ IF displaysOff THEN Light ELSE UNCHANGED <<sched, idleOff, displaysOff>>
    /\ sleeping' = FALSE
    /\ CallOff
    /\ IF displaysOff \/ sleeping THEN Rearm(TRUE, inhibited, limit)
                                ELSE UNCHANGED <<timer, fresh>>
    /\ UNCHANGED <<limit, inhibited, byClient, lockVars>>

\* on_activity.
Activity ==
    /\ quiet' = 0
    /\ IF displaysOff THEN Light ELSE UNCHANGED <<sched, idleOff, displaysOff>>
    /\ sleeping' = FALSE
    /\ CallOff
    /\ Rearm(displaysOff \/ sleeping, inhibited, limit)
    /\ UNCHANGED <<limit, inhibited, byClient, lockVars>>

\* Mutant: nothing bounds the wait for the lock.
LockThenSleepForever ==
    /\ IF sleeping \/ sleepAfterLock
       THEN UNCHANGED <<sleepVars, lockVars>>
       ELSE /\ IF phase = "open" THEN Lock!Begin ELSE UNCHANGED lockVars
            /\ IF phase' = "closed"
               THEN SleepNow /\ UNCHANGED <<sleepAfterLock, fallback>>
               ELSE sleepAfterLock' = TRUE /\ UNCHANGED <<fallback, sleeping>>

\* lock_then_sleep: lock_now, and sleep at once if that completed the lock.
LockThenSleep ==
    IF sleeping \/ sleepAfterLock
    THEN UNCHANGED <<sleepVars, lockVars>>
    ELSE /\ IF phase = "open" THEN Lock!Begin ELSE UNCHANGED lockVars
         /\ IF phase' = "closed"
            THEN SleepNow /\ UNCHANGED <<sleepAfterLock, fallback>>
            ELSE sleepAfterLock' = TRUE /\ fallback' = LockTicks /\ UNCHANGED sleeping

\* Mutant: the completed lock is not reported.
OnLockedUnheard == UNCHANGED sleepVars

\* on_locked.
OnLocked ==
    IF sleepAfterLock
    THEN sleepAfterLock' = FALSE /\ fallback' = Off /\ SleepNow
    ELSE UNCHANGED sleepVars

-----------------------------------------------------------------------------
(* Timers.                                                                 *)

Due == \E k \in Timers : timer[k] = 0

\* Mutant: a disarmed timer counts too.
TickDownAlways(t) == t - 1

TickDown(t) == IF t = Off THEN Off ELSE t - 1

\* A second passes.
Tick ==
    /\ ~Due /\ fallback # 0
    /\ timer' = [k \in Timers |-> TickDown(timer[k])]
    /\ fallback' = TickDown(fallback)
    /\ fresh' = FALSE
    /\ quiet' = IF quiet < Longest THEN quiet + 1 ELSE quiet
    /\ UNCHANGED <<limit, inhibited, displayVars, sleeping, sleepAfterLock, lockVars>>

\* Mutant: a machine that was told to sleep keeps its displays lit.
DisplayTimeoutAwakeOnly ==
    /\ timer["display"] = 0
    /\ timer' = [timer EXCEPT !["display"] = Off]
    /\ IF ~inhibited /\ ~displaysOff /\ ~sleeping
       THEN Darken /\ UNCHANGED byClient
       ELSE UNCHANGED displayVars
    /\ UNCHANGED <<limit, fresh, quiet, inhibited, sleepVars, lockVars>>

\* handle_display_timeout.
DisplayTimeout ==
    /\ timer["display"] = 0
    /\ timer' = [timer EXCEPT !["display"] = Off]
    /\ IF ~inhibited /\ ~displaysOff
       THEN Darken /\ UNCHANGED byClient
       ELSE UNCHANGED displayVars
    /\ UNCHANGED <<limit, fresh, quiet, inhibited, sleepVars, lockVars>>

\* handle_sleep_timeout.
SleepTimeout ==
    /\ timer["sleep"] = 0
    /\ timer' = [timer EXCEPT !["sleep"] = Off]
    /\ IF ~inhibited /\ ~sleeping
       THEN LockThenSleep
       ELSE UNCHANGED <<sleepVars, lockVars>>
    /\ UNCHANGED <<limit, fresh, quiet, inhibited, displayVars>>

\* handle_lock_fallback: the lock did not complete, and the machine sleeps anyway.
LockFallback ==
    /\ fallback = 0
    /\ fallback' = Off
    /\ IF sleepAfterLock
       THEN sleepAfterLock' = FALSE /\ SleepNow
       ELSE UNCHANGED <<sleepAfterLock, sleeping>>
    /\ UNCHANGED <<limit, timer, fresh, quiet, inhibited, displayVars, lockVars>>

-----------------------------------------------------------------------------
(* Commands, clients and the rest of the compositor.                       *)

\* Mutant: new timeouts count although something keeps the machine awake.
ConfigureArms(s) ==
    /\ limit' = s
    /\ Rearm(TRUE, FALSE, s)
    /\ UNCHANGED <<quiet, inhibited, displayVars, sleepVars, lockVars>>

\* configure, poll_plan: new timeouts are in force from now.
Configure(s) ==
    /\ limit' = s
    /\ Rearm(TRUE, inhibited, s)
    /\ UNCHANGED <<quiet, inhibited, displayVars, sleepVars, lockVars>>

\* apply_inhibitors, when the flag flips.
FlipInhibited ==
    /\ inhibited' = ~inhibited
    /\ Rearm(TRUE, inhibited', limit)
    /\ UNCHANGED <<limit, quiet, displayVars, sleepVars, lockVars>>

\* `ccectl idle display on` and `off`, and `ccectl idle sleep`.
DisplayCommand ==
    /\ Darken \/ Light
    /\ UNCHANGED <<limit, timer, fresh, quiet, inhibited, byClient, sleepVars, lockVars>>

SleepCommand ==
    /\ LockThenSleep
    /\ UNCHANGED <<limit, timer, fresh, quiet, inhibited, displayVars>>

\* handle_power_manager_set_mode: a power client (wlopm) lights or darkens o,
\* whatever darkened it before.
SetPower(o, on) ==
    /\ sched[o] # "gone"
    /\ sched' = [sched EXCEPT ![o] = IF on THEN "Enabled" ELSE "DisabledSoft"]
    /\ byClient' = IF on THEN byClient \ {o} ELSE byClient \cup {o}
    /\ UNCHANGED <<limit, timer, fresh, quiet, inhibited, idleOff, displaysOff,
                   sleepVars, lockVars>>

\* Output::create, and the handle_destroy that frees it with its mark.
Plug(o) ==
    /\ sched[o] = "gone"
    /\ sched' = [sched EXCEPT ![o] = "Enabled"]
    /\ UNCHANGED <<limit, timer, fresh, quiet, inhibited, idleOff, byClient,
                   displaysOff, sleepVars, lockVars>>

Unplug(o) ==
    /\ sched[o] # "gone"
    /\ sched' = [sched EXCEPT ![o] = "gone"]
    /\ idleOff' = idleOff \ {o}
    /\ byClient' = byClient \ {o}
    /\ UNCHANGED <<limit, timer, fresh, quiet, inhibited, displaysOff, sleepVars, lockVars>>

\* A lock begins at the hand of a client or of `ccectl lock`, and completes:
\* whoever completes it reports to on_locked.
LockBegins ==
    /\ Lock!Begin
    /\ IF phase' = "closed" THEN OnLocked ELSE UNCHANGED sleepVars
    /\ UNCHANGED <<limit, timer, fresh, quiet, inhibited, displayVars>>

LockCloses ==
    /\ Lock!Close
    /\ OnLocked
    /\ UNCHANGED <<limit, timer, fresh, quiet, inhibited, displayVars>>

LockOpens ==
    /\ Lock!Open \/ Lock!PassKey
    /\ UNCHANGED <<limit, timer, fresh, quiet, inhibited, displayVars, sleepVars>>

Next ==
    \/ Activity
    \/ Tick
    \/ DisplayTimeout
    \/ SleepTimeout
    \/ LockFallback
    \/ \E s \in Settings : Configure(s)
    \/ FlipInhibited
    \/ DisplayCommand
    \/ SleepCommand
    \/ \E o \in Monitors : \E on \in BOOLEAN : SetPower(o, on)
    \/ \E o \in Monitors : Plug(o)
    \/ \E o \in Monitors : Unplug(o)
    \/ LockBegins
    \/ LockCloses
    \/ LockOpens

\* Time passes and a timer that is due fires.
Fairness ==
    /\ WF_vars(Tick)
    /\ WF_vars(DisplayTimeout)
    /\ WF_vars(SleepTimeout)
    /\ WF_vars(LockFallback)

Spec == Init /\ [][Next]_vars /\ Fairness

-----------------------------------------------------------------------------
(* Properties.                                                             *)

TypeOK ==
    /\ limit \in [Timers -> 0..Longest]
    /\ timer \in [Timers -> Off..Longest]
    /\ fresh \in BOOLEAN
    /\ quiet \in 0..Longest
    /\ inhibited \in BOOLEAN
    /\ sched \in [Monitors -> {"gone", "Enabled", "DisabledSoft"}]
    /\ idleOff \subseteq Monitors
    /\ byClient \subseteq Monitors
    /\ displaysOff \in BOOLEAN
    /\ sleeping \in BOOLEAN
    /\ sleepAfterLock \in BOOLEAN
    /\ fallback \in Off..LockTicks

\* A running countdown measures the time since the last input: it never ends
\* sooner than its timeout after it, but for the second the throttle of rearm
\* may cost, however inputs, inhibitors and new timeouts fall.
CountsFromInput ==
    \A k \in Timers : timer[k] # Off => timer[k] + quiet >= limit[k] - 1

\* A machine that inhibitors keep awake counts nothing down.
InhibitedHoldsTimers ==
    inhibited => \A k \in Timers : timer[k] = Off

\* The display countdown is never lost: it ends in dark displays unless it is
\* held or switched off (handle_display_timeout, rearm).
CountdownEndsInDark ==
    [][timer["display"] # Off /\ timer'["display"] = Off
        => inhibited' \/ limit'["display"] = 0 \/ displaysOff']_vars

\* A sleep that waits does so for a lock still under way, and not for ever: its
\* completion is always reported (on_locked), and the fallback timer is armed
\* exactly while it waits.
SleepWaitsForLock ==
    /\ sleepAfterLock <=> fallback # Off
    /\ sleepAfterLock => phase = "closing"

\* Whoever comes back while the lock completes is not put to sleep: a sleep that
\* still waits has seen no input since it was asked for (on_activity).
SleepIsCalledOff ==
    sleepAfterLock => quiet + fallback >= LockTicks

\* A sleep that waits for its lock is one that is still wanted and still to come.
SleepsAsAgreed == SleepWaitsForLock /\ SleepIsCalledOff

\* The countdowns and the darkened outputs follow the inputs and the inhibitors.
TimersFollowUse == CountsFromInput /\ InhibitedHoldsTimers

\* Waking lights every output the idle manager darkened: once the displays are
\* on, an output is dark only because a power client left it so.
WakesWhatItDarkened ==
    ~displaysOff => \A o \in Monitors : sched[o] = "DisabledSoft" => o \in byClient

\* "Only outputs this module darkened are woken again: one a client turned off
\* with wlopm stays as that client left it" (the doc of idle.rs).
StaysAsClientLeftIt ==
    \A o \in Monitors : o \in byClient => sched[o] = "DisabledSoft"

\* A sleep that waits for its lock ends, in sleep or called off, also when the
\* lock never completes ("staying awake forever on a wedged output would be the
\* worse failure").
WaitForLockEnds == sleepAfterLock ~> ~sleepAfterLock

\* What is counted down or waited for comes to its end.
IdleEnds == CountdownEndsInDark /\ WaitForLockEnds
=============================================================================

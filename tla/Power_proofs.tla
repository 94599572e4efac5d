---------------------------- MODULE Power_proofs ----------------------------
(***************************************************************************)
(* What holds of the parts that darken, lock and suspend the machine, for  *)
(* any outputs, timeouts, leases and any number of signals.  The parts     *)
(* share no state: an invariant of each is kept by the steps of the others, *)
(* which leave its variables alone (PartSteps).                            *)
(***************************************************************************)
EXTENDS MCPower, SequenceTheorems, WellFoundedInduction, TLAPS

-----------------------------------------------------------------------------
(* The idle manager (Idle).                                                *)

IdleOff == Idle!Off
IdleTimers == Idle!Timers

\* The throttle of rearm is closed only over countdowns that have not begun.
FreshIsFull ==
    fresh => \A k \in IdleTimers : timer[k] # IdleOff => timer[k] = limit[k]

\* What is dark is somebody's.
DarkIsMarked ==
    \A o \in Monitors : sched[o] = "DisabledSoft" => o \in idleOff \cup byClient

\* The inductive invariant, by what its parts are about.
CountdownInv ==
    /\ limit \in [IdleTimers -> 0..Longest] /\ timer \in [IdleTimers -> IdleOff..Longest]
    /\ fresh \in BOOLEAN /\ quiet \in 0..Longest /\ inhibited \in BOOLEAN
    /\ FreshIsFull /\ Idle!TimersFollowUse

DisplayInv ==
    /\ sched \in [Monitors -> {"gone", "Enabled", "DisabledSoft"}]
    /\ idleOff \subseteq Monitors /\ byClient \subseteq Monitors /\ displaysOff \in BOOLEAN
    /\ DarkIsMarked /\ Idle!WakesWhatItDarkened

AgreedInv ==
    /\ quiet \in 0..Longest
    /\ sleeping \in BOOLEAN /\ sleepAfterLock \in BOOLEAN /\ fallback \in IdleOff..LockTicks
    /\ phase \in {"open", "closing", "closed"}
    /\ Idle!SleepsAsAgreed

IdleInv == CountdownInv /\ DisplayInv /\ AgreedInv

\* The idle manager starts well.
LEMMA IdleInit == Idle!Init => IdleInv
<1> SUFFICES ASSUME Idle!Init PROVE IdleInv OBVIOUS
<1> USE IdleAssumption
    DEF Idle!Init, Idle!Lock!Init, IdleOff, IdleTimers, Idle!Off, Idle!Timers
<1>1. CountdownInv
  <2>1. /\ limit \in [IdleTimers -> 0..Longest] /\ timer \in [IdleTimers -> IdleOff..Longest]
        /\ quiet \in 0..Longest
    OBVIOUS
  <2> QED BY <2>1 DEF CountdownInv, FreshIsFull, Idle!TimersFollowUse, Idle!CountsFromInput,
                      Idle!InhibitedHoldsTimers
<1>2. DisplayInv BY DEF DisplayInv, DarkIsMarked, Idle!WakesWhatItDarkened
<1>3. AgreedInv
  <2>1. quiet \in 0..Longest /\ fallback \in IdleOff..LockTicks OBVIOUS
  <2>2. Idle!SleepsAsAgreed
    BY DEF Idle!SleepsAsAgreed, Idle!SleepWaitsForLock, Idle!SleepIsCalledOff
  <2> QED BY <2>1, <2>2 DEF AgreedInv
<1> QED BY <1>1, <1>2, <1>3 DEF IdleInv

\* What a step leaves alone stays right.
LEMMA CountdownsKept ==
    ASSUME CountdownInv, UNCHANGED <<limit, timer, fresh, quiet, inhibited>>
    PROVE  CountdownInv'
BY DEF CountdownInv, FreshIsFull, Idle!TimersFollowUse, Idle!CountsFromInput,
       Idle!InhibitedHoldsTimers

\* Likewise the outputs.
LEMMA DisplaysKept ==
    ASSUME DisplayInv, UNCHANGED <<sched, idleOff, byClient, displaysOff>>
    PROVE  DisplayInv'
BY DEF DisplayInv, DarkIsMarked, Idle!WakesWhatItDarkened

\* Likewise what is agreed of a sleep.
LEMMA AgreedKept ==
    ASSUME AgreedInv, UNCHANGED <<quiet, sleeping, sleepAfterLock, fallback, phase>>
    PROVE  AgreedInv'
BY DEF AgreedInv, Idle!SleepsAsAgreed, Idle!SleepWaitsForLock, Idle!SleepIsCalledOff

\* rearm, for timeouts and an inhibited flag that may be new when it is forced.
LEMMA RearmSound ==
    ASSUME CountdownInv, NEW force \in BOOLEAN, NEW held \in BOOLEAN,
           NEW lim \in [IdleTimers -> 0..Longest], Idle!Rearm(force, held, lim),
           limit' = lim, inhibited' = held, quiet' \in 0..Longest,
           force \/ (lim = limit /\ held = inhibited)
    PROVE  CountdownInv'
<1> USE IdleAssumption DEF CountdownInv, IdleOff, IdleTimers, Idle!Off, Idle!Timers
<1>1. CASE force \/ ~fresh
  <2>1. /\ timer' = [k \in IdleTimers |-> IF held \/ lim[k] = 0 THEN IdleOff ELSE lim[k]]
        /\ fresh' = TRUE
    BY <1>1 DEF Idle!Rearm
  <2>2. /\ timer' \in [IdleTimers -> IdleOff..Longest]
        /\ \A k \in IdleTimers : timer'[k] # IdleOff => timer'[k] = lim[k] /\ ~held
    BY <2>1
  <2> QED BY <2>1, <2>2 DEF FreshIsFull, Idle!TimersFollowUse, Idle!CountsFromInput,
                            Idle!InhibitedHoldsTimers
<1>2. CASE ~(force \/ ~fresh)
  <2>1. UNCHANGED <<limit, timer, fresh, inhibited>> /\ fresh BY <1>2 DEF Idle!Rearm
  <2> QED BY <2>1 DEF FreshIsFull, Idle!TimersFollowUse, Idle!CountsFromInput,
                      Idle!InhibitedHoldsTimers
<1> QED BY <1>1, <1>2

\* set_displays, either way.
LEMMA DarkenSound ==
    ASSUME DisplayInv, Idle!Darken, UNCHANGED byClient
    PROVE  DisplayInv'
BY DEF DisplayInv, Idle!Darken, DarkIsMarked, Idle!WakesWhatItDarkened

\* The other way.
LEMMA LightSound ==
    ASSUME DisplayInv, Idle!Light, UNCHANGED byClient
    PROVE  DisplayInv'
BY DEF DisplayInv, Idle!Light, DarkIsMarked, Idle!WakesWhatItDarkened

\* A sleep begins, or waits for the lock that begins with it or was on its way.
LEMMA LockThenSleepSound ==
    ASSUME AgreedInv, Idle!LockThenSleep, UNCHANGED quiet
    PROVE  AgreedInv'
<1> USE IdleAssumption
    DEF AgreedInv, IdleOff, Idle!Off, Idle!SleepsAsAgreed, Idle!SleepWaitsForLock,
        Idle!SleepIsCalledOff
<1>1. CASE sleeping \/ sleepAfterLock
  BY <1>1 DEF Idle!LockThenSleep, Idle!sleepVars, Idle!lockVars
<1>2. CASE ~(sleeping \/ sleepAfterLock)
  <2>1. phase' \in {"closing", "closed"}
    BY <1>2 DEF Idle!LockThenSleep, Idle!Lock!Begin, Idle!lockVars
  <2>2. CASE phase' = "closed"
    BY <1>2, <2>2 DEF Idle!LockThenSleep, Idle!SleepNow
  <2>3. CASE phase' = "closing"
    BY <1>2, <2>3 DEF Idle!LockThenSleep
  <2> QED BY <2>1, <2>2, <2>3
<1> QED BY <1>1, <1>2

\* A lock that completes ends the wait for it.
LEMMA OnLockedSound ==
    ASSUME AgreedInv, Idle!OnLocked, phase' = "closed", UNCHANGED quiet
    PROVE  AgreedInv'
<1> USE IdleAssumption
    DEF AgreedInv, Idle!OnLocked, Idle!sleepVars, IdleOff, Idle!Off, Idle!SleepsAsAgreed,
        Idle!SleepWaitsForLock, Idle!SleepIsCalledOff
<1>1. CASE sleepAfterLock
  <2>1. fallback' \in IdleOff..LockTicks BY <1>1
  <2> QED BY <1>1, <2>1 DEF Idle!SleepNow
<1>2. CASE ~sleepAfterLock BY <1>2
<1> QED BY <1>1, <1>2

\* A countdown that fired is over.
LEMMA FiredSound ==
    ASSUME CountdownInv, NEW k \in IdleTimers, timer' = [timer EXCEPT ![k] = IdleOff],
           UNCHANGED <<limit, fresh, quiet, inhibited>>
    PROVE  CountdownInv'
<1>1. IdleOff \in IdleOff..Longest BY IdleAssumption DEF IdleOff, Idle!Off
<1>2. timer' \in [IdleTimers -> IdleOff..Longest] BY <1>1 DEF CountdownInv
<1> QED BY <1>2 DEF CountdownInv, FreshIsFull, Idle!TimersFollowUse, Idle!CountsFromInput,
                    Idle!InhibitedHoldsTimers, IdleOff, IdleTimers

\* A second passes for the countdowns and for a sleep that waits.
LEMMA TickSound ==
    ASSUME IdleInv, Idle!Tick
    PROVE  CountdownInv' /\ AgreedInv'
<1> USE IdleAssumption
    DEF IdleInv, IdleOff, IdleTimers, Idle!Off, Idle!Timers, Idle!Tick
<1>1. /\ quiet' \in 0..Longest
      /\ quiet < Longest => quiet' = quiet + 1
      /\ quiet >= Longest => quiet' = Longest
  BY DEF CountdownInv
<1>2. \A k \in IdleTimers :
        /\ timer'[k] \in IdleOff..Longest
        /\ timer[k] = IdleOff => timer'[k] = IdleOff
        /\ timer[k] # IdleOff => timer'[k] = timer[k] - 1 /\ timer'[k] >= 0
  BY DEF CountdownInv, Idle!Due, Idle!TickDown
<1>3. CountdownInv'
  <2>1. timer' \in [IdleTimers -> IdleOff..Longest] BY <1>2
  <2>2. Idle!CountsFromInput'
    BY <1>1, <1>2 DEF CountdownInv, Idle!CountsFromInput, Idle!TimersFollowUse
  <2>3. Idle!InhibitedHoldsTimers'
    BY <1>2 DEF CountdownInv, Idle!InhibitedHoldsTimers, Idle!TimersFollowUse
  <2> QED BY <1>1, <2>1, <2>2, <2>3 DEF CountdownInv, FreshIsFull, Idle!TimersFollowUse
<1>4. /\ fallback' \in IdleOff..LockTicks
      /\ fallback = IdleOff => fallback' = IdleOff
      /\ fallback # IdleOff => fallback' = fallback - 1 /\ fallback' >= 0
  BY DEF AgreedInv, Idle!TickDown
<1>5. AgreedInv'
  BY <1>1, <1>4 DEF AgreedInv, Idle!SleepsAsAgreed, Idle!SleepWaitsForLock, Idle!SleepIsCalledOff,
     Idle!lockVars
<1> QED BY <1>3, <1>5

\* Every step of the idle manager keeps its invariant.
LEMMA IdleNext ==
    ASSUME IdleInv, Idle!Next
    PROVE  IdleInv'
<1> USE DEF IdleInv
<1>0. /\ CountdownInv /\ DisplayInv /\ AgreedInv
      /\ limit \in [IdleTimers -> 0..Longest] /\ inhibited \in BOOLEAN
  BY DEF CountdownInv
<1>1. CASE Idle!Activity
  <2>1. CountdownInv'
    <3>1. /\ Idle!Rearm(displaysOff \/ sleeping, inhibited, limit)
          /\ UNCHANGED <<limit, inhibited>> /\ quiet' = 0 /\ quiet' \in 0..Longest
      BY <1>1, IdleAssumption DEF Idle!Activity
    <3> QED BY <1>0, <3>1, RearmSound
  <2>2. DisplayInv'
    <3>1. \/ Idle!Light /\ UNCHANGED byClient
          \/ UNCHANGED <<sched, idleOff, byClient, displaysOff>>
      BY <1>1 DEF Idle!Activity
    <3> QED BY <1>0, <3>1, LightSound, DisplaysKept
  <2>3. AgreedInv'
    <3>1. /\ quiet' = 0 /\ sleeping' = FALSE /\ sleepAfterLock' = FALSE
          /\ fallback' = IdleOff /\ phase' = phase
      BY <1>1 DEF Idle!Activity, Idle!CallOff, Idle!lockVars, IdleOff
    <3>2. quiet' \in 0..Longest /\ fallback' \in IdleOff..LockTicks
      BY <3>1, IdleAssumption DEF IdleOff, Idle!Off
    <3> QED BY <1>0, <3>1, <3>2 DEF AgreedInv, Idle!SleepsAsAgreed, Idle!SleepWaitsForLock,
                                    Idle!SleepIsCalledOff, IdleOff
  <2> QED BY <2>1, <2>2, <2>3
<1>2. CASE Idle!Tick
  BY <1>0, <1>2, TickSound, DisplaysKept DEF Idle!Tick, Idle!displayVars
<1>3. CASE Idle!DisplayTimeout
  <2>1. CountdownInv'
    <3>1. "display" \in IdleTimers BY DEF IdleTimers, Idle!Timers
    <3> QED BY <1>0, <1>3, <3>1, FiredSound DEF Idle!DisplayTimeout, IdleOff
  <2>2. DisplayInv'
    BY <1>0, <1>3, DarkenSound, DisplaysKept DEF Idle!DisplayTimeout, Idle!displayVars
  <2>3. AgreedInv'
    BY <1>0, <1>3, AgreedKept DEF Idle!DisplayTimeout, Idle!sleepVars, Idle!lockVars
  <2> QED BY <2>1, <2>2, <2>3
<1>4. CASE Idle!SleepTimeout
  <2>1. CountdownInv'
    <3>1. "sleep" \in IdleTimers BY DEF IdleTimers, Idle!Timers
    <3> QED BY <1>0, <1>4, <3>1, FiredSound DEF Idle!SleepTimeout, IdleOff
  <2>2. DisplayInv'
    BY <1>0, <1>4, DisplaysKept DEF Idle!SleepTimeout, Idle!displayVars
  <2>3. AgreedInv'
    BY <1>0, <1>4, LockThenSleepSound, AgreedKept
       DEF Idle!SleepTimeout, Idle!sleepVars, Idle!lockVars
  <2> QED BY <2>1, <2>2, <2>3
<1>5. CASE Idle!LockFallback
  <2>1. CountdownInv' BY <1>0, <1>5, CountdownsKept DEF Idle!LockFallback
  <2>2. DisplayInv' BY <1>0, <1>5, DisplaysKept DEF Idle!LockFallback, Idle!displayVars
  <2>3. AgreedInv'
    <3>1. /\ fallback' = IdleOff /\ sleepAfterLock' = FALSE /\ sleeping' \in BOOLEAN
          /\ UNCHANGED <<phase, quiet>>
      BY <1>0, <1>5 DEF AgreedInv, Idle!LockFallback, Idle!SleepNow, Idle!lockVars, IdleOff,
         Idle!SleepsAsAgreed, Idle!SleepWaitsForLock
    <3>2. fallback' \in IdleOff..LockTicks BY <3>1, IdleAssumption DEF IdleOff, Idle!Off
    <3> QED BY <1>0, <3>1, <3>2 DEF AgreedInv, Idle!SleepsAsAgreed, Idle!SleepWaitsForLock,
                                    Idle!SleepIsCalledOff, IdleOff
  <2> QED BY <2>1, <2>2, <2>3
<1>6. ASSUME NEW s \in Settings, Idle!Configure(s) PROVE IdleInv'
  <2>1. s \in [IdleTimers -> 0..Longest] BY IdleAssumption DEF IdleTimers
  <2>2. CountdownInv'
    BY <1>0, <1>6, <2>1, RearmSound DEF CountdownInv, Idle!Configure
  <2> QED BY <1>0, <1>6, <2>2, DisplaysKept, AgreedKept
          DEF Idle!Configure, Idle!displayVars, Idle!sleepVars, Idle!lockVars
<1>7. CASE Idle!FlipInhibited
  <2>1. CountdownInv'
    BY <1>0, <1>7, RearmSound DEF CountdownInv, Idle!FlipInhibited
  <2> QED BY <1>0, <1>7, <2>1, DisplaysKept, AgreedKept
          DEF Idle!FlipInhibited, Idle!displayVars, Idle!sleepVars, Idle!lockVars
<1>8. CASE Idle!DisplayCommand
  <2>1. DisplayInv' BY <1>0, <1>8, DarkenSound, LightSound DEF Idle!DisplayCommand
  <2> QED BY <1>0, <1>8, <2>1, CountdownsKept, AgreedKept
          DEF Idle!DisplayCommand, Idle!sleepVars, Idle!lockVars
<1>9. CASE Idle!SleepCommand
  <2>1. AgreedInv' BY <1>0, <1>9, LockThenSleepSound DEF Idle!SleepCommand
  <2> QED BY <1>0, <1>9, <2>1, CountdownsKept, DisplaysKept DEF Idle!SleepCommand, Idle!displayVars
<1>10. ASSUME NEW o \in Monitors, NEW lit \in BOOLEAN, Idle!SetPower(o, lit) PROVE IdleInv'
  <2>1. DisplayInv'
    BY <1>0, <1>10 DEF DisplayInv, Idle!SetPower, DarkIsMarked, Idle!WakesWhatItDarkened
  <2> QED BY <1>0, <1>10, <2>1, CountdownsKept, AgreedKept
          DEF Idle!SetPower, Idle!sleepVars, Idle!lockVars
<1>11. ASSUME NEW o \in Monitors, Idle!Plug(o) PROVE IdleInv'
  <2>1. DisplayInv'
    BY <1>0, <1>11 DEF DisplayInv, Idle!Plug, DarkIsMarked, Idle!WakesWhatItDarkened
  <2> QED BY <1>0, <1>11, <2>1, CountdownsKept, AgreedKept
          DEF Idle!Plug, Idle!sleepVars, Idle!lockVars
<1>12. ASSUME NEW o \in Monitors, Idle!Unplug(o) PROVE IdleInv'
  <2>1. DisplayInv'
    BY <1>0, <1>12 DEF DisplayInv, Idle!Unplug, DarkIsMarked, Idle!WakesWhatItDarkened
  <2> QED BY <1>0, <1>12, <2>1, CountdownsKept, AgreedKept
          DEF Idle!Unplug, Idle!sleepVars, Idle!lockVars
<1>13. CASE Idle!LockBegins
  <2>1. ~sleepAfterLock /\ phase' \in {"closing", "closed"}
    BY <1>0, <1>13 DEF Idle!LockBegins, Idle!Lock!Begin, AgreedInv, Idle!SleepsAsAgreed,
       Idle!SleepWaitsForLock
  <2>2. UNCHANGED <<sleeping, sleepAfterLock, fallback, quiet>>
    BY <1>13, <2>1 DEF Idle!LockBegins, Idle!OnLocked, Idle!sleepVars
  <2>3. AgreedInv'
    BY <1>0, <2>1, <2>2 DEF AgreedInv, Idle!SleepsAsAgreed, Idle!SleepWaitsForLock,
       Idle!SleepIsCalledOff
  <2> QED BY <1>0, <1>13, <2>3, CountdownsKept, DisplaysKept DEF Idle!LockBegins, Idle!displayVars
<1>14. CASE Idle!LockCloses
  <2>1. AgreedInv'
    BY <1>0, <1>14, OnLockedSound DEF Idle!LockCloses, Idle!Lock!Close
  <2> QED BY <1>0, <1>14, <2>1, CountdownsKept, DisplaysKept DEF Idle!LockCloses, Idle!displayVars
<1>15. CASE Idle!LockOpens
  <2>1. AgreedInv'
    BY <1>0, <1>15 DEF Idle!LockOpens, Idle!Lock!Open, Idle!Lock!PassKey, Idle!sleepVars,
       AgreedInv, Idle!SleepsAsAgreed, Idle!SleepWaitsForLock, Idle!SleepIsCalledOff
  <2> QED BY <1>0, <1>15, <2>1, CountdownsKept, DisplaysKept DEF Idle!LockOpens, Idle!displayVars
<1> QED BY <1>1, <1>2, <1>3, <1>4, <1>5, <1>6, <1>7, <1>8, <1>9, <1>10, <1>11, <1>12,
           <1>13, <1>14, <1>15 DEF Idle!Next

\* A step that ends the display countdown.
LEMMA DarkStep ==
    ASSUME IdleInv, Idle!Next
    PROVE  timer["display"] # Idle!Off /\ timer'["display"] = Idle!Off
             => inhibited' \/ limit'["display"] = 0 \/ displaysOff'
<1> SUFFICES ASSUME timer["display"] # IdleOff, timer'["display"] = IdleOff
             PROVE  inhibited' \/ limit'["display"] = 0 \/ displaysOff'
  BY DEF IdleOff
<1> USE DEF IdleInv, CountdownInv, IdleOff, Idle!Off, IdleTimers, Idle!Timers
<1>0. /\ timer \in [IdleTimers -> IdleOff..Longest] /\ limit \in [IdleTimers -> 0..Longest]
      /\ Longest \in Nat /\ "display" \in IdleTimers /\ "sleep" \in IdleTimers
  BY IdleAssumption
<1>1. ASSUME NEW force, NEW held, NEW lim, Idle!Rearm(force, held, lim)
      PROVE  held \/ lim["display"] = 0 \/ lim["display"] = IdleOff
  BY <1>0, <1>1 DEF Idle!Rearm
<1>2. ASSUME NEW force, NEW held, NEW lim \in [IdleTimers -> 0..Longest],
             Idle!Rearm(force, held, lim)
      PROVE  held \/ lim["display"] = 0
  <2>1. lim["display"] \in 0..Longest BY <1>0
  <2> QED BY <1>0, <1>1, <1>2, <2>1
<1>3. CASE Idle!Activity
  BY <1>0, <1>2, <1>3 DEF Idle!Activity
<1>4. CASE Idle!Tick
  BY <1>0, <1>4 DEF Idle!Tick, Idle!TickDown, Idle!Due
<1>5. CASE Idle!DisplayTimeout
  BY <1>5 DEF Idle!DisplayTimeout, Idle!Darken, Idle!displayVars
<1>6. CASE Idle!SleepTimeout
  BY <1>0, <1>6 DEF Idle!SleepTimeout
<1>7. ASSUME NEW s \in Settings, Idle!Configure(s)
      PROVE  inhibited' \/ limit'["display"] = 0 \/ displaysOff'
  BY <1>2, <1>7, IdleAssumption DEF Idle!Configure
<1>8. CASE Idle!FlipInhibited
  BY <1>0, <1>2, <1>8 DEF Idle!FlipInhibited
<1>9. CASE UNCHANGED timer
  BY <1>9
<1> QED BY <1>3, <1>4, <1>5, <1>6, <1>7, <1>8, <1>9
        DEF Idle!Next, Idle!LockFallback, Idle!DisplayCommand, Idle!SleepCommand, Idle!SetPower,
            Idle!Plug, Idle!Unplug, Idle!LockBegins, Idle!LockCloses, Idle!LockOpens

-----------------------------------------------------------------------------
(* The watch of the plan directory (IdlePlan).                             *)

\* What inotify has to report it can report, and a directory that is gone is part
\* of that; between its looks the poll is where it says; and whoever has looked, and
\* has nothing to report, knows what is there.
PlanInv ==
    /\ watching \in {"none", "watch", "poll"} /\ pollStep \in {"idle", "looked", "watched"}
    /\ unread \in BOOLEAN /\ dirGone \in BOOLEAN /\ everRead \in BOOLEAN
    /\ dirGone => unread
    /\ unread => watching = "watch"
    /\ pollStep = "looked" => watching = "poll"
    /\ pollStep = "watched" => watching = "watch"
    /\ watching = "none" => ~everRead
    /\ watching = "watch" /\ ~unread /\ pollStep = "idle" /\ everRead => planRead = planFile

\* The watch starts well.
LEMMA PlanInit == Plan!Init => PlanInv
BY DEF Plan!Init, PlanInv

\* Every step of the watch, of the plan and of its directory keeps it.
LEMMA PlanNext ==
    ASSUME PlanInv, Plan!Next
    PROVE  PlanInv'
<1> USE DEF PlanInv
<1>1. CASE Plan!Start BY <1>1 DEF Plan!Start
<1>2. ASSUME NEW c \in Timeouts, Plan!Configure(c) PROVE PlanInv'
  BY <1>2 DEF Plan!Configure
<1>3. CASE Plan!HandleInotify BY <1>3 DEF Plan!HandleInotify, Plan!PollPlan
<1>4. CASE Plan!PollLooks BY <1>4 DEF Plan!PollLooks, Plan!PollPlan
<1>5. CASE Plan!PollWatches BY <1>5 DEF Plan!PollWatches
<1>6. CASE Plan!PollLooksAgain BY <1>6 DEF Plan!PollLooksAgain, Plan!PollPlan
<1>7. ASSUME NEW q \in Timeouts \cup {Absent}, Plan!WritePlan(q) PROVE PlanInv'
  BY <1>7 DEF Plan!WritePlan, Plan!Watched
<1>8. CASE Plan!MakeDir BY <1>8 DEF Plan!MakeDir
<1>9. CASE Plan!RemoveDir BY <1>9 DEF Plan!RemoveDir, Plan!Watched
<1> QED BY <1>1, <1>2, <1>3, <1>4, <1>5, <1>6, <1>7, <1>8, <1>9 DEF Plan!Next

-----------------------------------------------------------------------------
(* What keeps the machine awake (IdleInhibit).                             *)

\* A set of natural numbers has a least one, which is its Min.
LEMMA NatMin ==
    ASSUME NEW S, S \subseteq Nat, S # {}
    PROVE  /\ Inhibit!Min(S) \in S
           /\ \A y \in S : Inhibit!Min(S) <= y
<1> DEFINE Less == {ss \in Nat \X Nat : ss[1] < ss[2]}
<1>1. IsWellFoundedOn(Less, Nat) BY NatLessThanWellFounded, Zenon DEF OpToRel
<1>2. PICK x \in S : \A y \in S : ~(<<y, x>> \in Less) BY <1>1, WFMin, Zenon
<1>3. ASSUME NEW y \in S PROVE x <= y
  <2>1. <<y, x>> \in Less <=> y < x OBVIOUS
  <2> QED BY <1>2, <2>1
<1> QED BY <1>3 DEF Inhibit!Min

\* The one timer runs for the first lease to end.
TimerIsFirst(ext, rest, t) ==
    IF ext = {} THEN t = Inhibit!Off
    ELSE t \in {rest[k] : k \in ext} /\ \A k \in ext : t <= rest[k]

InhibitInv ==
    /\ Inhibit!TypeOK /\ Inhibit!AwakeAsHeld
    /\ TimerIsFirst(leases, left, leaseTimer)

\* arm_lease_timer does that.
LEMMA ArmSound ==
    ASSUME NEW ext, NEW rest, \A k \in ext : rest[k] \in Nat,
           Inhibit!ArmLeaseTimer(ext, rest)
    PROVE  TimerIsFirst(ext, rest, leaseTimer')
<1>1. CASE ext = {} BY <1>1 DEF Inhibit!ArmLeaseTimer, TimerIsFirst
<1>2. CASE ext # {}
  <2> DEFINE S == {rest[k] : k \in ext}
  <2>1. S \subseteq Nat /\ S # {} BY <1>2
  <2>2. leaseTimer' = Inhibit!Min(S) BY <1>2 DEF Inhibit!ArmLeaseTimer
  <2>3. leaseTimer' \in S /\ \A y \in S : leaseTimer' <= y BY <2>1, <2>2, NatMin
  <2> QED BY <1>2, <2>3 DEF TimerIsFirst
<1> QED BY <1>1, <1>2

\* apply_inhibitors: the flag says whether there are holders, also when it returns
\* early because they are the same.
LEMMA ApplySound ==
    ASSUME InhibitInv, NEW way, NEW ext, Inhibit!ApplyInhibitors(way, ext),
           wayland' = way, leases' = ext
    PROVE  Inhibit!AwakeIffHeld' /\ awakeFlag' \in BOOLEAN
<1>1. /\ names = Inhibit!Merged(wayland, leases) /\ awakeFlag \in BOOLEAN
      /\ awakeFlag <=> names # {}
  BY DEF InhibitInv, Inhibit!AwakeAsHeld, Inhibit!AwakeIffHeld, Inhibit!Merged, Inhibit!TypeOK
<1>2. /\ names' = Inhibit!Merged(way, ext) /\ awakeFlag' \in BOOLEAN
      /\ awakeFlag' <=> names' # {}
  BY <1>1 DEF Inhibit!ApplyInhibitors
<1>3. Inhibit!Merged(way, ext) # {} <=> way # {} \/ ext # {} BY DEF Inhibit!Merged
<1> QED BY <1>2, <1>3 DEF Inhibit!AwakeIffHeld

\* A recount, from the scene as it is.
LEMMA PublishSound ==
    ASSUME InhibitInv, Inhibit!Publish(registered', inScene'), registered' \subseteq Surfaces,
           inScene' \subseteq Surfaces, passWanted' \in BOOLEAN,
           UNCHANGED <<leases, left, leaseTimer>>
    PROVE  InhibitInv'
<1>1. wayland' = Inhibit!Holders(registered', inScene')
  BY DEF Inhibit!Publish
<1>2. Inhibit!AwakeIffHeld' /\ awakeFlag' \in BOOLEAN
  BY <1>1, ApplySound DEF Inhibit!Publish
<1>3. wayland' \subseteq Surfaces BY <1>1 DEF Inhibit!Holders
<1>4. Inhibit!HoldersAreCurrent' BY <1>1 DEF Inhibit!HoldersAreCurrent
<1> QED BY <1>2, <1>3, <1>4 DEF InhibitInv, Inhibit!TypeOK, Inhibit!AwakeAsHeld, TimerIsFirst,
           Inhibit!NoLeaseOutlivesItself

\* Leases are granted, renewed or ended, none of which is over.
LEMMA LeasesSound ==
    ASSUME InhibitInv, leases' \subseteq Tokens, left' \in [Tokens -> Inhibit!Off..MaxLease],
           \A k \in leases' : left'[k] \in Nat,
           Inhibit!ArmLeaseTimer(leases', left'), Inhibit!ApplyInhibitors(wayland, leases'),
           UNCHANGED <<registered, inScene, passWanted, wayland>>
    PROVE  InhibitInv'
<1>1. Inhibit!AwakeIffHeld' /\ awakeFlag' \in BOOLEAN BY ApplySound
<1>2. TimerIsFirst(leases', left', leaseTimer') BY ArmSound
<1>3. leaseTimer' \in Inhibit!Off..MaxLease
  <2>1. CASE leases' = {}
    BY <1>2, <2>1, InhibitAssumption DEF TimerIsFirst, Inhibit!Off
  <2>2. CASE leases' # {}
    <3>1. PICK k \in leases' : leaseTimer' = left'[k] BY <1>2, <2>2 DEF TimerIsFirst
    <3> QED BY <3>1
  <2> QED BY <2>1, <2>2
<1>4. Inhibit!NoLeaseOutlivesItself' BY DEF Inhibit!NoLeaseOutlivesItself
<1>5. Inhibit!HoldersAreCurrent' BY DEF InhibitInv, Inhibit!AwakeAsHeld, Inhibit!HoldersAreCurrent
<1> QED BY <1>1, <1>2, <1>3, <1>4, <1>5 DEF InhibitInv, Inhibit!TypeOK, Inhibit!AwakeAsHeld

\* Nothing is held at the start.
LEMMA InhibitInit == Inhibit!Init => InhibitInv
<1> SUFFICES ASSUME Inhibit!Init PROVE InhibitInv OBVIOUS
<1> USE InhibitAssumption DEF Inhibit!Init, Inhibit!Off
<1>1. Inhibit!TypeOK
  <2>1. left \in [Tokens -> Inhibit!Off..MaxLease] /\ leaseTimer \in Inhibit!Off..MaxLease
    OBVIOUS
  <2> QED BY <2>1 DEF Inhibit!TypeOK
<1>2. Inhibit!AwakeAsHeld
  BY DEF Inhibit!AwakeAsHeld, Inhibit!AwakeIffHeld, Inhibit!Merged,
     Inhibit!NoLeaseOutlivesItself, Inhibit!HoldersAreCurrent, Inhibit!Holders
<1> QED BY <1>1, <1>2 DEF InhibitInv, TimerIsFirst

\* Every step of inhibitors, leases and time keeps it.
LEMMA InhibitNext ==
    ASSUME InhibitInv, Inhibit!Next
    PROVE  InhibitInv'
<1>0. /\ Inhibit!TypeOK /\ left \in [Tokens -> Inhibit!Off..MaxLease] /\ leases \subseteq Tokens
      /\ \A k \in leases : left[k] \in Nat
  <2>1. /\ Inhibit!TypeOK /\ left \in [Tokens -> Inhibit!Off..MaxLease] /\ leases \subseteq Tokens
        /\ \A k \in leases : left[k] >= 0
    BY DEF InhibitInv, Inhibit!TypeOK, Inhibit!AwakeAsHeld, Inhibit!NoLeaseOutlivesItself
  <2> QED BY <2>1, InhibitAssumption DEF Inhibit!Off
<1>1. ASSUME NEW s \in Surfaces, Inhibit!NewInhibitor(s) PROVE InhibitInv'
  BY <1>0, <1>1, PublishSound DEF Inhibit!NewInhibitor, Inhibit!TypeOK
<1>2. ASSUME NEW s \in Surfaces, Inhibit!DestroyInhibitor(s) PROVE InhibitInv'
  BY <1>0, <1>2, PublishSound DEF Inhibit!DestroyInhibitor, Inhibit!TypeOK
<1>3. ASSUME NEW s \in Surfaces, Inhibit!ChangeScene(s) PROVE InhibitInv'
  <2>1. inScene' \subseteq Surfaces BY <1>0, <1>3 DEF Inhibit!ChangeScene, Inhibit!TypeOK
  <2> QED BY <1>3, <2>1 DEF Inhibit!ChangeScene, InhibitInv, Inhibit!TypeOK, Inhibit!AwakeAsHeld,
      Inhibit!AwakeIffHeld, Inhibit!NoLeaseOutlivesItself, Inhibit!HoldersAreCurrent, TimerIsFirst
<1>4. CASE Inhibit!RenderFinish
  BY <1>0, <1>4, PublishSound DEF Inhibit!RenderFinish, Inhibit!TypeOK
<1>5. ASSUME NEW t \in Tokens, NEW ttl \in 1..MaxLease, Inhibit!Grant(t, ttl)
      PROVE  InhibitInv'
  <2>1. ttl \in Nat /\ ttl \in Inhibit!Off..MaxLease BY InhibitAssumption DEF Inhibit!Off
  <2>2. /\ leases' = leases \cup {t} /\ left' = [left EXCEPT ![t] = ttl]
        /\ leases' \subseteq Tokens /\ left' \in [Tokens -> Inhibit!Off..MaxLease]
    BY <1>0, <1>5, <2>1 DEF Inhibit!Grant
  <2>3. \A k \in leases' : left'[k] \in Nat BY <1>0, <2>1, <2>2
  <2> QED BY <1>5, <2>2, <2>3, LeasesSound DEF Inhibit!Grant
<1>6. ASSUME NEW ended, Inhibit!EndLeases(ended) PROVE InhibitInv'
  <2>1. /\ leases' = leases \ ended /\ left' = left BY <1>6 DEF Inhibit!EndLeases
  <2>2. \A k \in leases' : left'[k] \in Nat BY <1>0, <2>1
  <2> QED BY <1>0, <1>6, <2>1, <2>2, LeasesSound DEF Inhibit!EndLeases
<1>7. CASE Inhibit!Tick
  <2>1. \A k \in leases : left[k] > 0
    BY <1>0, <1>7 DEF Inhibit!Tick, InhibitInv, TimerIsFirst
  <2>2. /\ left' = [k \in Tokens |-> IF k \in leases /\ left[k] >= 0 THEN left[k] - 1 ELSE left[k]]
        /\ leases' = leases
        /\ leaseTimer' = IF leaseTimer = Inhibit!Off THEN Inhibit!Off ELSE leaseTimer - 1
        /\ leaseTimer # 0 /\ leaseTimer \in Inhibit!Off..MaxLease
    BY <1>0, <1>7 DEF Inhibit!Tick, Inhibit!TypeOK
  <2>3. \A k \in leases : left'[k] = left[k] - 1 /\ left'[k] >= 0 /\ left'[k] \in Int
    BY <1>0, <2>1, <2>2
  <2>4. left' \in [Tokens -> Inhibit!Off..MaxLease]
    BY <1>0, <2>1, <2>2, InhibitAssumption DEF Inhibit!Off
  <2>5. leaseTimer' \in Inhibit!Off..MaxLease
    BY <2>2, InhibitAssumption DEF Inhibit!Off
  <2>6. TimerIsFirst(leases', left', leaseTimer')
    <3>1. CASE leases = {}
      BY <2>2, <3>1 DEF InhibitInv, TimerIsFirst
    <3>2. CASE leases # {}
      <4>1. PICK k \in leases : leaseTimer = left[k] /\ \A j \in leases : leaseTimer <= left[j]
        BY <3>2 DEF InhibitInv, TimerIsFirst
      <4>2. leaseTimer' = leaseTimer - 1 BY <1>0, <2>1, <2>2, <4>1 DEF Inhibit!Off
      <4>3. leaseTimer' = left'[k] /\ \A j \in leases : leaseTimer' <= left'[j]
        BY <1>0, <2>3, <4>1, <4>2
      <4> QED BY <2>2, <3>2, <4>3 DEF TimerIsFirst
    <3> QED BY <3>1, <3>2
  <2> QED BY <1>7, <2>2, <2>3, <2>4, <2>5, <2>6 DEF Inhibit!Tick, InhibitInv, Inhibit!TypeOK,
      Inhibit!AwakeAsHeld, Inhibit!AwakeIffHeld, Inhibit!NoLeaseOutlivesItself,
      Inhibit!HoldersAreCurrent
<1> QED BY <1>1, <1>2, <1>3, <1>4, <1>5, <1>6, <1>7 DEF Inhibit!Next, Inhibit!Uninhibit,
        Inhibit!InhibitClear, Inhibit!LeaseExpiry

-----------------------------------------------------------------------------
(* The thread that locks before a sleep (SleepLock).                       *)

Threads == {"start", "take", "waitSleep", "ask", "asked", "waitResume", "retry"}

SleepTypes ==
    /\ thread \in Threads /\ holding \in BOOLEAN /\ signals \in Seq(BOOLEAN)
    /\ logind \in {"awake", "preparing", "asleep"}
    /\ expired \in BOOLEAN /\ guarded \in BOOLEAN

\* The last signal a thread has not read is logind's last.
LastTells ==
    signals # <<>> => signals[Len(signals)] = (logind # "awake")

\* With nothing left to read, a thread that waits for a sleep has seen the resume,
\* and one that has seen the sleep has not.
StepTold ==
    signals = <<>> =>
        /\ (thread = "waitSleep" => logind = "awake")
        /\ (thread \in {"ask", "asked", "waitResume"} => logind # "awake")

\* A thread that has not subscribed has nothing to read.
NothingUnasked == ~Sleep!Subscribed => signals = <<>>

\* The lock was shown since this sleep began, or is late and on its way.
LockCame == shown \/ (late /\ (began \/ queued))

\* A request is queued, parked behind a lock, answered by one, or given up on while the
\* lock is on its way; what the lock is now was seen since the sleep began.
RequestFollowed ==
    /\ sPhase # "open" => began
    /\ sPhase = "closed" => shown
    /\ guarded /\ logind # "awake" /\ thread = "asked" =>
        /\ answer = "none" => queued
        /\ answer = "parked" => began
        /\ answer \notin {"none", "parked"} => LockCame

\* A guarded sleep is held up until that lock came, or to logind's deadline.
SleepIsHeld ==
    guarded =>
        /\ (logind = "preparing" =>
                LockCame \/ (holding /\ thread \in {"waitSleep", "ask", "asked"}))
        /\ (logind = "asleep" => LockCame \/ expired)

\* The inductive invariant.
SleepInv ==
    SleepTypes /\ LastTells /\ StepTold /\ NothingUnasked /\ RequestFollowed /\ SleepIsHeld

-----------------------------------------------------------------------------
(* Facts about the queue.                                                  *)

\* Reading a signal leaves the last of the others where it was.
LEMMA ReadLast ==
    ASSUME NEW s \in Seq(BOOLEAN), s # <<>>
    PROVE  /\ Tail(s) \in Seq(BOOLEAN) /\ Head(s) \in BOOLEAN
           /\ Tail(s) # <<>> => Tail(s)[Len(Tail(s))] = s[Len(s)]
           /\ Tail(s) = <<>> => Head(s) = s[Len(s)]
<1>1. Tail(s) \in Seq(BOOLEAN) /\ Head(s) \in BOOLEAN /\ Len(s) \in Nat /\ Len(s) >= 1
  BY HeadTailProperties, EmptySeq, LenProperties
<1>2. Len(Tail(s)) = Len(s) - 1 /\ \A i \in 1..Len(Tail(s)) : Tail(s)[i] = s[i + 1]
  BY HeadTailProperties, <1>1
<1>3. Head(s) = s[1] OBVIOUS
<1> QED BY <1>1, <1>2, <1>3, EmptySeq

\* What logind emits is the last to read, and only a subscribed thread can read it.
LEMMA EmitLast ==
    ASSUME signals \in Seq(BOOLEAN), NEW going \in BOOLEAN, Sleep!Emit(going)
    PROVE  /\ signals' \in Seq(BOOLEAN)
           /\ Sleep!Subscribed => signals' # <<>> /\ signals'[Len(signals')] = going
           /\ ~Sleep!Subscribed => signals' = signals
<1>1. CASE Sleep!Subscribed
  <2>1. signals' = Append(signals, going) BY <1>1 DEF Sleep!Emit
  <2>2. /\ Append(signals, going) \in Seq(BOOLEAN)
        /\ Append(signals, going) # <<>>
        /\ Append(signals, going)[Len(Append(signals, going))] = going
    BY AppendProperties
  <2> QED BY <1>1, <2>1, <2>2
<1>2. CASE ~Sleep!Subscribed BY <1>2 DEF Sleep!Emit
<1> QED BY <1>1, <1>2

-----------------------------------------------------------------------------
(* The invariant is inductive.                                             *)

\* The thread starts well.
LEMMA SleepInit == Sleep!Init => SleepInv
BY EmptySeq DEF Sleep!Init, SleepInv, SleepTypes, Threads, LastTells, StepTold, NothingUnasked,
       RequestFollowed, SleepIsHeld, Sleep!Lock!Init

\* A thread that waits reads what it waits for and goes on, or skips a signal; when
\* it has read the last it knows logind's state.
LEMMA WaitForSound ==
    ASSUME SleepInv, NEW going \in BOOLEAN, NEW next, Sleep!WaitFor(going, next)
    PROVE  /\ signals' \in Seq(BOOLEAN)
           /\ logind' = logind => LastTells'
           /\ \/ thread' = next /\ (signals' = <<>> => going = (logind # "awake"))
              \/ thread' = thread /\ (signals' = <<>> => going # (logind # "awake"))
<1>1. signals \in Seq(BOOLEAN) /\ signals # <<>> /\ signals' = Tail(signals)
  BY DEF SleepInv, SleepTypes, Sleep!WaitFor
<1>2. signals[Len(signals)] = (logind # "awake") BY <1>1 DEF SleepInv, LastTells
<1>3. logind' = logind => LastTells' BY <1>1, <1>2, ReadLast DEF LastTells
<1>4. signals' = <<>> => Head(signals) = (logind # "awake") BY <1>1, <1>2, ReadLast
<1>5. signals' \in Seq(BOOLEAN) BY <1>1, ReadLast
<1>6. CASE Head(signals) = going BY <1>3, <1>4, <1>5, <1>6 DEF Sleep!WaitFor
<1>7. CASE Head(signals) # going BY <1>3, <1>4, <1>5, <1>7 DEF Sleep!WaitFor
<1> QED BY <1>6, <1>7

\* Every step of the thread, of logind and of the lock keeps it.
LEMMA SleepNext ==
    ASSUME SleepInv, [Sleep!Next]_(Sleep!vars)
    PROVE  SleepInv'
<1> USE DEF SleepInv, SleepTypes, Threads, StepTold, SleepIsHeld, RequestFollowed, LockCame,
             Sleep!sinceVars, Sleep!lockVars
<1>0. UNCHANGED <<signals, logind>> => LastTells' BY DEF LastTells
<1>1. CASE Sleep!Subscribe
  BY <1>0, <1>1 DEF Sleep!Subscribe, NothingUnasked, Sleep!Subscribed, Sleep!logindVars
<1>2. CASE Sleep!Take
  <2>1. CASE holding'
    BY <1>0, <1>2, <2>1 DEF Sleep!Take, NothingUnasked, Sleep!Subscribed, Sleep!logindVars
  <2>2. CASE ~holding'
    BY <1>2, <2>2, EmptySeq DEF Sleep!Take, NothingUnasked, Sleep!Subscribed, Sleep!logindVars, LastTells
  <2> QED BY <2>1, <2>2
<1>3. CASE Sleep!WaitSleep
  <2>1. Sleep!WaitFor(TRUE, "ask") /\ thread = "waitSleep" BY <1>3 DEF Sleep!WaitSleep
  <2>2. UNCHANGED <<holding, queued, answer, logind, expired, guarded, began, shown, late, sPhase>>
    BY <1>3 DEF Sleep!WaitSleep, Sleep!logindVars
  <2>3. /\ signals' \in Seq(BOOLEAN) /\ LastTells'
        /\ \/ thread' = "ask" /\ (signals' = <<>> => TRUE = (logind # "awake"))
           \/ thread' = "waitSleep" /\ (signals' = <<>> => TRUE # (logind # "awake"))
    BY <2>1, <2>2, WaitForSound
  <2> QED BY <2>1, <2>2, <2>3 DEF NothingUnasked, Sleep!Subscribed
<1>4. CASE Sleep!Ask
  BY <1>0, <1>4 DEF Sleep!Ask, NothingUnasked, Sleep!Subscribed, Sleep!logindVars
<1>5. CASE Sleep!RunRequests
  <2>1. sPhase' # "open"
    BY <1>5 DEF Sleep!RunRequests, Sleep!Lock!Begin, Sleep!lockVars
  <2>2. began' /\ (sPhase' = "closed" => shown') /\ (shown => shown')
    BY <1>5, <2>1 DEF Sleep!RunRequests, Sleep!SeenSince
  <2>3. /\ UNCHANGED <<thread, holding, signals, logind, expired, guarded, late>>
        /\ answer' = "none" => thread # "asked"
        /\ answer' = "locked" => answer = "locked" \/ shown'
        /\ answer' = answer \/ answer' \in {"parked", "locked"}
    BY <1>5, <2>2 DEF Sleep!RunRequests, Sleep!AnswerParked, Sleep!logindVars
  <2> QED BY <1>0, <2>1, <2>2, <2>3 DEF NothingUnasked, Sleep!Subscribed
<1>6. CASE Sleep!AnswerLate
  BY <1>0, <1>6 DEF Sleep!AnswerLate, NothingUnasked, Sleep!Subscribed, Sleep!logindVars
<1>7. CASE Sleep!AskInVain
  BY <1>0, <1>7 DEF Sleep!AskInVain, NothingUnasked, Sleep!Subscribed, Sleep!logindVars
<1>8. CASE Sleep!LetGo
  BY <1>0, <1>8 DEF Sleep!LetGo, NothingUnasked, Sleep!Subscribed, Sleep!logindVars
<1>9. CASE Sleep!WaitResume
  <2>1. Sleep!WaitFor(FALSE, "take") /\ thread = "waitResume" BY <1>9 DEF Sleep!WaitResume
  <2>2. UNCHANGED <<holding, queued, answer, logind, expired, guarded, began, shown, late, sPhase>>
    BY <1>9 DEF Sleep!WaitResume, Sleep!logindVars
  <2>3. /\ signals' \in Seq(BOOLEAN) /\ LastTells'
        /\ \/ thread' = "take" /\ (signals' = <<>> => FALSE = (logind # "awake"))
           \/ thread' = "waitResume" /\ (signals' = <<>> => FALSE # (logind # "awake"))
    BY <2>1, <2>2, WaitForSound
  <2> QED BY <2>1, <2>2, <2>3 DEF NothingUnasked, Sleep!Subscribed
<1>10. CASE Sleep!BusFails
  BY <1>10, EmptySeq DEF Sleep!BusFails, NothingUnasked, Sleep!Subscribed, Sleep!logindVars, LastTells
<1>11. CASE Sleep!Retry
  BY <1>0, <1>11 DEF Sleep!Retry, NothingUnasked, Sleep!Subscribed, Sleep!logindVars
<1>12. CASE Sleep!Prepare
  <2>1. Sleep!Emit(TRUE) BY <1>12 DEF Sleep!Prepare
  <2>2. LastTells' /\ NothingUnasked'
    BY <1>12, <2>1, EmitLast DEF Sleep!Prepare, NothingUnasked, Sleep!Subscribed, LastTells
  <2> QED BY <1>12, <2>1, <2>2, EmitLast DEF Sleep!Prepare, Sleep!Subscribed
<1>13. CASE Sleep!Deadline
  BY <1>0, <1>13 DEF Sleep!Deadline, NothingUnasked, Sleep!Subscribed, Sleep!threadVars
<1>14. CASE Sleep!Suspend
  <2>1. LastTells' BY <1>14 DEF Sleep!Suspend, LastTells, Sleep!threadVars
  <2> QED BY <1>14, <2>1 DEF Sleep!Suspend, NothingUnasked, Sleep!Subscribed, Sleep!threadVars
<1>15. CASE Sleep!Resume
  <2>1. Sleep!Emit(FALSE) BY <1>15 DEF Sleep!Resume
  <2>2. LastTells' /\ NothingUnasked'
    BY <1>15, <2>1, EmitLast DEF Sleep!Resume, NothingUnasked, Sleep!Subscribed, LastTells
  <2> QED BY <1>15, <2>1, <2>2, EmitLast DEF Sleep!Resume, Sleep!Subscribed
<1>16. CASE Sleep!LockStep
  <2>1. /\ sPhase' # "open" => began'
        /\ sPhase' = "closed" => shown'
        /\ (began => began') /\ (shown => shown')
    BY <1>16 DEF Sleep!LockStep, Sleep!SeenSince
  <2>2. /\ UNCHANGED <<thread, holding, signals, queued, logind, expired, guarded, late>>
        /\ answer' = answer \/ (answer' = "locked" /\ shown')
    BY <1>16, <2>1 DEF Sleep!LockStep, Sleep!AnswerParked, Sleep!logindVars
  <2> QED BY <1>0, <2>1, <2>2 DEF NothingUnasked, Sleep!Subscribed
<1>17. CASE UNCHANGED Sleep!vars
  BY <1>0, <1>17 DEF Sleep!vars, NothingUnasked, Sleep!Subscribed, Sleep!threadVars, Sleep!logindVars
<1> QED BY <1>1, <1>2, <1>3, <1>4, <1>5, <1>6, <1>7, <1>8, <1>9, <1>10, <1>11, <1>12,
           <1>13, <1>14, <1>15, <1>16, <1>17 DEF Sleep!Next


-----------------------------------------------------------------------------
(* The parts together.                                                     *)

\* A step is one of a part, or leaves it alone.
LEMMA PartSteps ==
    ASSUME [Next]_vars
    PROVE  /\ [Idle!Next]_(Idle!vars) /\ [Plan!Next]_(Plan!vars)
           /\ [Inhibit!Next]_(Inhibit!vars) /\ [Sleep!Next]_(Sleep!vars)
BY DEF Next, vars, idleVars, planVars, inhibitVars, sleepVars,
       Idle!vars, Idle!displayVars, Idle!sleepVars, Idle!lockVars, Plan!vars, Inhibit!vars,
       Sleep!vars, Sleep!threadVars, Sleep!logindVars, Sleep!sinceVars, Sleep!lockVars

\* Each part keeps its invariant, whoever moves.
LEMMA PartInvariants ==
    /\ Init => IdleInv /\ PlanInv /\ InhibitInv /\ SleepInv
    /\ IdleInv /\ [Next]_vars => IdleInv'
    /\ PlanInv /\ [Next]_vars => PlanInv'
    /\ InhibitInv /\ [Next]_vars => InhibitInv'
    /\ SleepInv /\ [Next]_vars => SleepInv'
<1>1. Init => IdleInv /\ PlanInv /\ InhibitInv /\ SleepInv
  BY IdleInit, PlanInit, InhibitInit, SleepInit DEF Init
<1>2. IdleInv /\ [Next]_vars => IdleInv'
  BY PartSteps, IdleNext, CountdownsKept, DisplaysKept, AgreedKept
     DEF IdleInv, Idle!vars, Idle!displayVars, Idle!sleepVars, Idle!lockVars
<1>3. PlanInv /\ [Next]_vars => PlanInv'
  <2>1. PlanInv /\ UNCHANGED Plan!vars => PlanInv' BY DEF PlanInv, Plan!vars
  <2> QED BY <2>1, PartSteps, PlanNext
<1>4. InhibitInv /\ [Next]_vars => InhibitInv'
  <2>1. InhibitInv /\ UNCHANGED Inhibit!vars => InhibitInv'
    BY DEF Inhibit!vars, InhibitInv, Inhibit!TypeOK, Inhibit!AwakeAsHeld, Inhibit!AwakeIffHeld,
       Inhibit!NoLeaseOutlivesItself, Inhibit!HoldersAreCurrent, TimerIsFirst
  <2> QED BY <2>1, PartSteps, InhibitNext
<1>5. SleepInv /\ [Next]_vars => SleepInv'
  BY PartSteps, SleepNext
<1> QED BY <1>1, <1>2, <1>3, <1>4, <1>5

\* A sleep that waits for its lock waits for one under way and is called off by any
\* use (idle.rs, lock_then_sleep, on_locked, on_activity); a sleep the thread guards
\* finds that the locked scene was shown, unless logind's deadline passed or the thread
\* gave up on its request, which then has locked or still will; and the thread is never
\* a whole sleep behind or ahead (sleep_lock.rs, run; ipc_server.rs, handle_client).
THEOREM SleepsAgreed == Spec => []SleepsAsAgreed
<1>1. IdleInv /\ SleepInv => SleepsAsAgreed
  BY DEF SleepsAsAgreed, IdleInv, CountdownInv, DisplayInv, AgreedInv, Idle!TypeOK, IdleOff, IdleTimers,
     SleepInv, StepTold, SleepIsHeld, LockCame, Sleep!GuardsSleeps, Sleep!SleepsBehindLock, Sleep!InStep
<1> QED BY <1>1, PartInvariants, PTL DEF Spec

\* The countdowns measure from the last use and stand still while inhibited; what was
\* darkened is lit again (idle.rs, rearm, set_displays); the machine is held awake
\* exactly while somebody holds it, and no lease outlives its time
\* (apply_inhibitors, arm_lease_timer).
THEOREM TimersFollow == Spec => []TimersFollowUse
<1>1. IdleInv /\ InhibitInv => TimersFollowUse
  BY DEF TimersFollowUse, IdleInv, CountdownInv, DisplayInv, InhibitInv
<1> QED BY <1>1, PartInvariants, PTL DEF Spec

\* Once the plan was looked at, a watch with nothing to report means that the plan in
\* force is the one on disk (idle.rs, handle_plan_poll, handle_plan_inotify).
THEOREM WatchComplete == Spec => []WatchMissesNothing
<1>1. PlanInv => WatchMissesNothing
  BY DEF PlanInv, WatchMissesNothing, Plan!WatchMissesNothing, Plan!Settled
<1> QED BY <1>1, PartInvariants, PTL DEF Spec

\* A display countdown ends in dark displays, unless it is held or switched off
\* (handle_display_timeout, rearm).
THEOREM CountdownsEndInDark == Spec => Idle!CountdownEndsInDark
<1>1. IdleInv /\ [Next]_vars =>
        [timer["display"] # Idle!Off /\ timer'["display"] = Idle!Off
            => inhibited' \/ limit'["display"] = 0 \/ displaysOff']_(Idle!vars)
  BY PartSteps, DarkStep
<1> QED BY <1>1, PartInvariants, PTL DEF Spec, Idle!CountdownEndsInDark
=============================================================================

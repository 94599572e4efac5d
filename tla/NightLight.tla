------------------------------ MODULE NightLight -------------------------------
(***************************************************************************)
(* The night light (night_light.rs): the outputs are warmed through their  *)
(* gamma LUTs, after the clock, a fixed mode or a client's ramp, by frames *)
(* that are asked for only when the LUT has to change.                     *)
(* A temperature is its warmth: 0 is neutral, an integer further is one    *)
(* JUMP_K of mireds.  A tick of the clock is a step through a transition.  *)
(***************************************************************************)
EXTENDS Integers, FiniteSets

CONSTANTS
    Outputs, NoLut,   \* the outputs; those with no gamma LUT
    Configs,          \* night_light blocks: [night, day, mode, sched]
    Temperatures,     \* what `ccectl night-light temperature` may set
    DayLen, Start, End, Transition, \* the clock's day and the night in it
    Recheck,          \* IDLE_RECHECK_MS in ticks
    FadeSteps,        \* steps of a fade
    MaxEvents,        \* bound: events from outside in a behaviour
    None, Ramp        \* no value; a client's LUT

VARIABLES
    now, jumped,      \* the local clock; it was set since the last step
    motion,           \* animations are on
    config, mode,     \* the block or None; Mode
    shown, target, fade, lut, \* shown_k, target_k, [from, to, p] or None; transforms_k
    wait,             \* ticks until the timer fires, None when disarmed
    fresh, owned, client, refused, \* per output: sent_gen = gen, owned, client; status Refused
    held,             \* per output: a gamma-control client holds it
    change,           \* ... gamma_lut_changed
    damage, tearing,  \* ... a frame is due; the frames tear
    soft, hw,         \* ... its color_transform; the LUT its CRTC has
    missed,           \* ... a client's coming or going went unnoticed (history)
    events

nightVars == <<now, jumped, motion, config, mode, shown, target, fade, lut, wait, fresh, owned, client,
               refused, held, change, damage, tearing, soft, hw, missed, events>>
perOutput == <<owned, client, refused, held, change, tearing, soft, hw, missed>>

Init ==
    /\ now \in {0, Start} /\ jumped = FALSE /\ motion \in BOOLEAN
    \* the startup's config load has set the block and not yet stepped
    /\ config \in Configs \cup {None} /\ mode = (IF config = None THEN "auto" ELSE config.mode)
    /\ shown = 0 /\ target = 0 /\ fade = None /\ lut = 0 /\ wait = 0
    /\ fresh = [o \in Outputs |-> FALSE] /\ owned = [o \in Outputs |-> FALSE]
    /\ client = [o \in Outputs |-> FALSE] /\ refused = [o \in Outputs |-> FALSE]
    /\ held = [o \in Outputs |-> FALSE] /\ change = [o \in Outputs |-> FALSE]
    /\ damage = [o \in Outputs |-> TRUE] /\ tearing = [o \in Outputs |-> FALSE]
    /\ hw = [o \in Outputs |-> 0] /\ soft = hw /\ missed = [o \in Outputs |-> FALSE] /\ events = 0

Least(a, b) == IF a < b THEN a ELSE b
Most(a, b) == IF a < b THEN b ELSE a
Clamp(x, lo, hi) == Most(lo, Least(x, hi))
Far(a, b) == a - b > 1 \/ b - a > 1

-----------------------------------------------------------------------------
(* The schedule. *)

NightLen == (End - Start) % DayLen
FadeLen == Most(1, Clamp(Transition, 0, Least(NightLen, DayLen - NightLen)))

\* night_factor, over 2 * FadeLen.
NightFactor(t) ==
    LET ramp(x) == Clamp(FadeLen + 2 * x, 0, 2 * FadeLen)
        u == (t - Start) % DayLen
    IN CASE NightLen = 0 -> 0
         [] u < NightLen -> Least(ramp(u), ramp(NightLen - u))
         [] OTHER -> Most(ramp(NightLen - u), ramp(u - DayLen))

\* ms_until_transition: 0 while the factor moves.
UntilTransition(t) ==
    LET until(b) == (b - FadeLen \div 2 - t) % DayLen
    IN IF NightFactor(t) \in 1 .. 2 * FadeLen - 1 THEN 0 ELSE Least(until(Start), until(End))

Blend(c, f) == c.day + ((c.night - c.day) * f) \div (2 * FadeLen)

Scheduled(c, m) == c # None /\ m = "auto" /\ c.sched

\* State::target.
TargetNow(c, m) ==
    IF c = None THEN 0
    ELSE CASE m = "off" -> c.day
           [] Scheduled(c, m) -> Blend(c, NightFactor(now))
           [] OTHER -> c.night

-----------------------------------------------------------------------------
(* A step towards the target. *)

\* Mutant: a change of the target does not restart the fade under way.
FadeKeepsEnd(c, m) == IF fade # None THEN fade
                      ELSE IF Far(shown, TargetNow(c, m)) /\ motion
                           THEN [from |-> shown, to |-> TargetNow(c, m), p |-> 0] ELSE None
\* The fade of this step: a jump starts one, a small move carries its end.
FadeTo(c, m) ==
    LET t == TargetNow(c, m)
        from == IF fade # None THEN fade.to ELSE shown
    IN IF Far(from, t) THEN IF motion THEN [from |-> shown, to |-> t, p |-> 0] ELSE None
       ELSE IF fade # None THEN [fade EXCEPT !.to = t] ELSE None

\* Mutant: a schedule's timer sleeps its longest whatever comes.
SleepsLong(c, m, f) == IF f # None THEN 0 ELSE IF Scheduled(c, m) THEN Recheck ELSE None
\* When to step next.
NextStep(c, m, f) ==
    IF f # None THEN 0
    ELSE IF ~Scheduled(c, m) THEN None
    ELSE IF UntilTransition(now) = 0 THEN 1 ELSE Least(UntilTransition(now), Recheck)

\* Show: a new temperature is a new generation.
Show(k, regen) ==
    /\ shown' = k /\ lut' = shown'
    /\ fresh' = IF lut' # lut \/ regen THEN [o \in Outputs |-> FALSE] ELSE fresh

\* wants_commit, for the state after the step.
WantsCommit(c, fr, o) == IF client[o] THEN ~held[o] ELSE ~fr[o] /\ (c # None \/ owned[o])

\* kick: step, ask for the frames, arm the timer. q is how far the fade is.
Kick(c, m, q, regen) ==
    \E t \in {TargetNow(c, m)}, f \in {FadeTo(c, m)} :
       /\ f # None => q >= f.p
       /\ target' = t
       /\ fade' = IF f = None \/ q = FadeSteps THEN None ELSE [f EXCEPT !.p = q]
       /\ Show(IF f = None THEN t ELSE f.from + ((f.to - f.from) * q) \div FadeSteps, regen)
       /\ damage' = [o \in Outputs |-> damage[o] \/ WantsCommit(c, fresh', o)]
       /\ wait' = NextStep(c, m, fade')
       /\ jumped' = FALSE

Steps == 0 .. FadeSteps

OnTimer ==
    /\ wait = 0
    /\ \E q \in Steps : /\ fade # None => q > fade.p \/ FadeTo(config, mode) # [fade EXCEPT !.to = TargetNow(config, mode)]
                        /\ Kick(config, mode, q, FALSE)
    /\ UNCHANGED <<now, motion, config, mode, events, perOutput>>

\* The clock moves on; the timer and the frames that are due are faster.
Due(o) == damage[o] \/ change[o]
Tick ==
    /\ wait # 0 /\ \A o \in Outputs : ~Due(o)
    /\ now' = (now + 1) % DayLen
    /\ wait' = IF wait = None THEN None ELSE wait - 1
    /\ UNCHANGED <<jumped, motion, config, mode, shown, target, fade, lut, fresh, damage, events, perOutput>>

-----------------------------------------------------------------------------
(* From outside. *)

Event == events < MaxEvents /\ events' = events + 1

\* configure: a config load, with or without the block.
Configure ==
    /\ Event
    /\ \E c \in Configs \cup {None}, q \in Steps :
        /\ config' = c
        /\ mode' = IF c = None THEN "auto" ELSE c.mode
        /\ Kick(c, mode', q, TRUE)
    /\ UNCHANGED <<now, motion, perOutput>>

\* ccectl night-light on|off|auto|toggle.
NewMode(m) ==
    IF m # "toggle" THEN m
    ELSE LET d(a) == IF target < a THEN a - target ELSE target - a
         IN IF d(config.night) < d(config.day) THEN "off" ELSE "on"
IpcMode ==
    /\ Event /\ config # None
    /\ \E m \in {"on", "off", "auto", "toggle"}, q \in Steps : mode' = NewMode(m) /\ Kick(config, mode', q, FALSE)
    /\ UNCHANGED <<now, motion, config, perOutput>>
IpcTemperature ==
    /\ Event /\ config # None
    /\ \E k \in Temperatures, q \in Steps :
        config' = [config EXCEPT !.night = k] /\ Kick(config', mode, q, FALSE)
    /\ UNCHANGED <<now, motion, mode, perOutput>>

\* The clock is set, or the zone changes.
ClockSet ==
    /\ Event /\ now' \in {0, Start, End} \ {now} /\ jumped' = TRUE
    /\ UNCHANGED <<motion, config, mode, shown, target, fade, lut, wait, fresh, damage, perOutput>>

\* Mutant: a resume steps, but re-sends nothing that did not change.
SessionResumed(h) == fresh' = fresh /\ wait' = 0 /\ hw' = h
\* session_active: the CRTCs may have lost their LUTs.
SessionActive(h) == fresh' = [o \in Outputs |-> FALSE] /\ wait' = 0 /\ hw' = h
Resume ==
    /\ Event
    /\ \E lost \in SUBSET Outputs : SessionActive([o \in Outputs |-> IF o \in lost THEN 0 ELSE hw[o]])
    /\ now' \in {now, Start, End} /\ jumped' = (jumped \/ now' # now)
    /\ UNCHANGED <<motion, config, mode, shown, target, fade, lut, damage, owned, client, refused, held, change,
                   tearing, soft, missed>>

\* A modeset: `forget`, and the scene damages the output.
Modeset(o) ==
    /\ Event
    /\ fresh' = [fresh EXCEPT ![o] = FALSE] /\ hw' = [hw EXCEPT ![o] = 0]
    /\ damage' = [damage EXCEPT ![o] = TRUE]
    /\ \E enables \in BOOLEAN : change' = [change EXCEPT ![o] = change[o] \/ enables]
    /\ UNCHANGED <<now, jumped, motion, config, mode, shown, target, fade, lut, wait, owned, client, refused,
                   held, tearing, soft, missed>>

\* A gamma-control client takes the output or lets it go: scenefx will commit
\* its ramp or the identity with the next frame.
GammaClient(o) ==
    /\ Event /\ o \notin NoLut
    /\ held' = [held EXCEPT ![o] = ~held[o]] /\ change' = [change EXCEPT ![o] = TRUE]
    /\ missed' = [missed EXCEPT ![o] = missed[o] \/ (held[o] /\ ~client[o])]
    /\ UNCHANGED <<now, jumped, motion, config, mode, shown, target, fade, lut, wait, fresh, owned, client,
                   refused, damage, tearing, soft, hw>>

\* A tearing episode begins or ends; its end redraws.
Tear(o) ==
    /\ Event
    /\ tearing' = [tearing EXCEPT ![o] = ~tearing[o]] /\ damage' = [damage EXCEPT ![o] = TRUE]
    /\ UNCHANGED <<now, jumped, motion, config, mode, shown, target, fade, lut, wait, fresh, owned, client,
                   refused, held, change, soft, hw, missed>>

-----------------------------------------------------------------------------
(* A frame of an output. *)

\* Mutant: the LUT is sent whoever holds the output.
PrepareOver(o) == IF tearing[o] \/ (fresh[o] /\ ~client[o]) THEN "no"
                  ELSE IF config = None /\ ~owned[o] THEN "none" ELSE "send"
\* What `prepare` does of the LUT: nothing; notes there is none to send, before
\* or after it looked for a client; stands aside for one; or sends it.
Prepare(o) ==
    IF tearing[o] \/ (fresh[o] /\ ~client[o]) THEN "no"
    ELSE IF (config = None /\ ~owned[o]) \/ o \in NoLut THEN "none"
    ELSE IF held[o] THEN "aside"
    ELSE IF (config = None \/ lut = 0) /\ ~owned[o] /\ soft[o] = 0 THEN "neutral" ELSE "send"

OwnLut == IF config = None THEN 0 ELSE lut

\* The color transform the frame commits: the scene's, unless `prepare` put
\* its own over it; a frame without one leaves what is there.
Commits(o, does, lands) ==
    IF does = "send" /\ lands THEN OwnLut
    ELSE IF ~change[o] THEN None
    ELSE IF held[o] THEN Ramp ELSE 0

\* Mutant: what a failed commit carried counts as sent.
SentAnyway(o, does, ok) == does # "no"
\* The generation is behind the output: noted, or sent and committed.
GenerationDone(o, does, ok) == does \notin {"no", "send"} \/ (does = "send" /\ ok)

\* render_and_commit: lands is the LUT's test commit, ok the frame's.
Frame(o, lands, ok) ==
    \E does \in {Prepare(o)} : LET lutIn == Commits(o, does, lands)
                               done == GenerationDone(o, does, ok \/ ~lands) IN
       /\ Due(o) \/ (~tearing[o] /\ WantsCommit(config, fresh, o))
       /\ lands \/ does = "send"
       /\ IF ok /\ lands THEN events' = events ELSE Event
       /\ damage' = [damage EXCEPT ![o] = ~ok]
       /\ change' = [change EXCEPT ![o] = FALSE]
       /\ client' = [client EXCEPT ![o] = CASE does \in {"no", "none"} -> client[o] [] OTHER -> does = "aside"]
       /\ refused' = [refused EXCEPT ![o] = IF does = "no" THEN refused[o] ELSE does = "send" /\ ~lands]
       /\ fresh' = [fresh EXCEPT ![o] = fresh[o] \/ done]
       /\ owned' = [owned EXCEPT ![o] = CASE does = "aside" -> FALSE
                                          [] does = "send" /\ lands /\ done -> OwnLut # 0
                                          [] OTHER -> owned[o]]
       /\ soft' = [soft EXCEPT ![o] = IF ok /\ lutIn # None THEN lutIn ELSE soft[o]]
       /\ hw' = [hw EXCEPT ![o] = IF ok /\ lutIn # None THEN lutIn ELSE hw[o]]
       /\ missed' = [missed EXCEPT ![o] =
                        CASE does \in {"send", "neutral"} -> ~ok /\ (missed[o] \/ client[o] \/ change[o])
                          [] does = "aside" -> FALSE
                          [] OTHER -> missed[o] \/ (~ok /\ change[o])]
       /\ UNCHANGED <<now, jumped, motion, config, mode, shown, target, fade, lut, wait, held, tearing>>

-----------------------------------------------------------------------------
Next ==
    \/ OnTimer \/ Tick \/ Configure \/ IpcMode \/ IpcTemperature \/ ClockSet \/ Resume
    \/ \E o \in Outputs : Modeset(o) \/ GammaClient(o) \/ Tear(o)
    \/ \E o \in Outputs, lands, ok \in BOOLEAN : Frame(o, lands, ok)

Frames == \E o \in Outputs, lands, ok \in BOOLEAN : Due(o) /\ Frame(o, lands, ok)
Spec == Init /\ [][Next]_nightVars /\ WF_nightVars(OnTimer) /\ WF_nightVars(Tick) /\ WF_nightVars(Frames)

-----------------------------------------------------------------------------
(* Properties. *)

TypeOK ==
    /\ now \in 0 .. DayLen - 1 /\ wait \in (0 .. Recheck) \cup {None}
    /\ config = None \/ config.night \in Int
    /\ fade = None \/ fade.p \in 0 .. FadeSteps - 1
    /\ mode \in {"auto", "on", "off"} /\ events \in 0 .. MaxEvents
    /\ \A o \in Outputs : hw[o] \in Int \cup {Ramp}

\* With no frame or step due, an output has the LUT of the temperature shown
\* (night_light.rs:10-22): whatever order modesets, resumes, tearing, refused
\* commits and gamma clients come in, short of the two the module overlooks.
LutIsRight ==
    \A o \in Outputs \ NoLut :
        (~Due(o) /\ wait # 0 /\ ~held[o] /\ ~tearing[o] /\ ~refused[o] /\ ~missed[o])
            => \/ hw[o] = OwnLut
               \/ config = None /\ ~owned[o]

\* Short of a clock that was set, an idle schedule shows what the clock asks:
\* the timer never sleeps into a transition (night_light.rs:41-44).
FollowsTheClock ==
    (Scheduled(config, mode) /\ ~jumped /\ wait # 0) => shown = TargetNow(config, mode) /\ fade = None

\* A client's ramp stands while it holds its output (night_light.rs:17-22).
RampStands ==
    [][\A o \in Outputs : (held[o] /\ hw'[o] # hw[o]) => hw'[o] \in {Ramp, 0}]_nightVars

\* A frame is drawn for the LUT only while it has to change: one that went out
\* leaves none to send (night_light.rs:41-44), in a session with the block.
NoRedrawStorm ==
    [][\A o \in Outputs : (damage[o] /\ ~damage'[o] /\ ~tearing[o] /\ config # None)
                               => ~WantsCommit(config, fresh, o)']_nightVars

\* Every fade ends, and a clock that was set is followed while a schedule runs
\* (night_light.rs:69-73).
Followed == fade = None /\ (jumped => ~Scheduled(config, mode))
ClockIsFollowed == []<>Followed
================================================================================

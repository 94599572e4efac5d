---------------------------- MODULE OutputConfig ----------------------------
(***************************************************************************)
(* How outputs are configured (output_manager.rs, output.rs).              *)
(*                                                                         *)
(* Every output has three states: what was asked of it last (scheduled),   *)
(* what the manage pass under way has taken over (sent), and what the      *)
(* backend has accepted (current).  A manage pass copies scheduled to sent *)
(* and takes along the configuration of a client that is to be answered;   *)
(* the render pass that ends it commits the sent states of all outputs     *)
(* together.  A commit the backend refuses puts every output back to its   *)
(* current state.  Meanwhile outputs come and go, clients and the idle     *)
(* manager ask for more, and the passes wait for clients.                  *)
(***************************************************************************)
EXTENDS FiniteSets

CONSTANTS
    Outputs,  \* the outputs a machine can have
    Modes,    \* what an output can show: mode, scale and adaptive sync in one
    NoMode,   \* the mode of an output that never had one, or has gone
    None,     \* no client configuration waits
    Fails,    \* whether the backend may refuse a commit
    Overlap   \* whether outputs are configured and unplugged during a pass

ASSUME OutputsAssumption ==
    /\ NoMode \notin Modes
    /\ Fails \in BOOLEAN /\ Overlap \in BOOLEAN

VARIABLES
    phase,      \* the window manager is "Idle" or has a pass "Inflight"
    manage,     \* Pending.windowing
    store,      \* per output: in wm.outputs or not, and whether plugged
    on,         \* wlr_output.enabled
    shown,      \* wlr_output.current_mode
    scheduled, sent, current,  \* the Output's three states
    listed,     \* Sent.outputs
    asked,      \* the client configuration of WindowManager.scheduled, or None
    answering,  \* that of Sent
    first,      \* OutputManager.first_modeset
    failed      \* the assertion that has failed, or why the server stops

passVars == <<phase, manage>>
vars == <<phase, manage, store, on, shown, scheduled, sent, current,
          listed, asked, answering, first, failed>>

P == INSTANCE Passes

StateValue == {"Enabled", "DisabledSoft", "DisabledHard", "Destroying"}
OutputState == [st: StateValue, mode: Modes \cup {NoMode}]
Committable == {s \in OutputState : s.st # "Destroying"}
Initial == [st |-> "DisabledHard", mode |-> NoMode]

\* A client's configuration, as far as it is still to be carried out: the
\* outputs it set that nobody has set anew, with what it scheduled for them.
Configs == UNION {[D -> OutputState] : D \in SUBSET Outputs}

Live == {o \in Outputs : store[o] = "live"}

Init ==
    /\ P!Init
    /\ store = [o \in Outputs |-> "none"]
    /\ on = [o \in Outputs |-> FALSE]
    /\ shown = [o \in Outputs |-> NoMode]
    /\ scheduled = [o \in Outputs |-> Initial]
    /\ sent = [o \in Outputs |-> Initial]
    /\ current = [o \in Outputs |-> Initial]
    /\ listed = {}
    /\ asked = None /\ answering = None
    /\ first = TRUE /\ failed = "none"

-----------------------------------------------------------------------------
(* Asking for a configuration                                              *)

\* dirty_windowing.
DirtyWindowing == P!Want

\* What others set is no longer up to a client's configuration.
Without(config, D) ==
    IF config = None THEN None ELSE [o \in (DOMAIN config) \ D |-> config[o]]

\* The outputs of D are to be in the states to[o] from now on.
Schedule(D, to) ==
    /\ scheduled' = [o \in Outputs |-> IF o \in D THEN to[o] ELSE scheduled[o]]
    /\ UNCHANGED <<on, shown, current, answering, first, failed>>

\* Mutant: the change waits for somebody else's pass.
ScheduleOnly(D, to) ==
    /\ Schedule(D, to)
    /\ asked' = Without(asked, D)
    /\ UNCHANGED <<store, listed, sent, passVars>>

\* A handler that sets outputs without answering anybody.
ScheduleAndDirty(D, to) ==
    /\ Schedule(D, to)
    /\ asked' = Without(asked, D)
    /\ DirtyWindowing
    /\ UNCHANGED <<store, listed, sent>>

\* handle_manager_apply: an output that is darkened stays dark with its new
\* mode; an older configuration not taken up yet is answered `failed'.
Apply ==
    /\ Overlap \/ phase = "Idle"
    /\ \E D \in (SUBSET Live) \ {{}} :
         \E ask \in [D -> {"off"} \cup Modes] :
           LET to == [o \in D |->
                        IF ask[o] = "off" THEN [scheduled[o] EXCEPT !.st = "DisabledHard"]
                        ELSE [st |-> IF scheduled[o].st = "DisabledSoft" THEN "DisabledSoft" ELSE "Enabled",
                              mode |-> ask[o]]]
           IN  /\ Schedule(D, to)
               /\ asked' = to
    /\ DirtyWindowing
    /\ UNCHANGED <<store, listed, sent>>

\* handle_power_manager_set_mode: a client darkens an output or lights it.
SetPower(o) ==
    /\ o \in Live
    /\ scheduled[o].st \in {"Enabled", "DisabledSoft"}
    /\ ScheduleAndDirty({o}, [p \in {o} |->
          [scheduled[o] EXCEPT !.st = IF @ = "Enabled" THEN "DisabledSoft" ELSE "Enabled"]])

\* IdleManager::set_displays: all outputs go dark together, or those it
\* darkened light up.
SetDisplays ==
    LET bright == {o \in Live : scheduled[o].st = "Enabled"}
        dark   == {o \in Live : scheduled[o].st = "DisabledSoft"}
    IN  \/ /\ bright # {}
           /\ ScheduleAndDirty(bright, [o \in bright |-> [scheduled[o] EXCEPT !.st = "DisabledSoft"]])
        \/ \E D \in (SUBSET dark) \ {{}} :
             ScheduleAndDirty(D, [o \in D |-> [scheduled[o] EXCEPT !.st = "Enabled"]])

\* handle_request_state: a backend asks for a mode.
RequestState(o) ==
    /\ o \in Live
    /\ \E m \in Modes : ScheduleAndDirty({o}, [p \in {o} |-> [scheduled[o] EXCEPT !.mode = m]])

-----------------------------------------------------------------------------
(* Monitors come and go                                                    *)

\* Output::create.
Plug(o) ==
    /\ store[o] = "none"
    /\ \E m \in Modes : scheduled' = [scheduled EXCEPT ![o] = [st |-> "Enabled", mode |-> m]]
    /\ store' = [store EXCEPT ![o] = "live"]
    /\ sent' = [sent EXCEPT ![o] = Initial]
    /\ current' = [current EXCEPT ![o] = Initial]
    /\ DirtyWindowing
    /\ UNCHANGED <<on, shown, listed, asked, answering, first, failed>>

\* Mutant: no manage pass is asked for.
UnplugQuietly(o) ==
    /\ Overlap \/ phase = "Idle"
    /\ o \in Live
    /\ store' = [store EXCEPT ![o] = "gone"]
    /\ on' = [on EXCEPT ![o] = FALSE]
    /\ shown' = [shown EXCEPT ![o] = NoMode]
    /\ scheduled' = [scheduled EXCEPT ![o] = [st |-> "Destroying", mode |-> NoMode]]
    /\ sent' = [sent EXCEPT ![o].mode = NoMode]
    /\ current' = [current EXCEPT ![o].mode = NoMode]
    /\ asked' = Without(asked, {o}) /\ answering' = Without(answering, {o})
    /\ UNCHANGED <<passVars, listed, first, failed>>

\* Mutant: the output is not marked as in destruction.
UnplugUnmarked(o) ==
    /\ Overlap \/ phase = "Idle"
    /\ o \in Live
    /\ store' = [store EXCEPT ![o] = "gone"]
    /\ on' = [on EXCEPT ![o] = FALSE]
    /\ shown' = [shown EXCEPT ![o] = NoMode]
    /\ scheduled' = [scheduled EXCEPT ![o].mode = NoMode]
    /\ sent' = [sent EXCEPT ![o].mode = NoMode]
    /\ current' = [current EXCEPT ![o].mode = NoMode]
    /\ asked' = Without(asked, {o}) /\ answering' = Without(answering, {o})
    /\ DirtyWindowing
    /\ UNCHANGED <<listed, first, failed>>

\* handle_destroy: the Output outlives its wlr_output until the next manage
\* pass takes it out of the store.
Unplug(o) ==
    /\ Overlap \/ phase = "Idle"
    /\ o \in Live
    /\ store' = [store EXCEPT ![o] = "gone"]
    /\ on' = [on EXCEPT ![o] = FALSE]
    /\ shown' = [shown EXCEPT ![o] = NoMode]
    /\ scheduled' = [scheduled EXCEPT ![o] = [st |-> "Destroying", mode |-> NoMode]]
    /\ sent' = [sent EXCEPT ![o].mode = NoMode]
    /\ current' = [current EXCEPT ![o].mode = NoMode]
    /\ asked' = Without(asked, {o}) /\ answering' = Without(answering, {o})
    /\ DirtyWindowing
    /\ UNCHANGED <<listed, first, failed>>

-----------------------------------------------------------------------------
(* The passes                                                              *)

\* The server stops where it is: an assertion fails, or it has no output.
Stop(why) ==
    /\ failed' = why
    /\ UNCHANGED <<phase, manage, store, on, shown, scheduled, sent, current,
                   listed, asked, answering, first>>

\* Output::manage_start asserts that nothing is to be shown without a mode.
ModeMissing ==
    \E o \in Outputs : /\ store[o] # "none"
                       /\ scheduled[o].st \in {"Enabled", "DisabledSoft"}
                       /\ scheduled[o].mode = NoMode

Destroyed == {o \in Outputs : store[o] # "none" /\ scheduled[o].st = "Destroying"}

\* Mutant: Output::manage_start says `destroyed' and nobody heeds it.
KeptAll == store

\* WindowManager::manage_start, for the outputs: those in destruction leave
\* the store and are forgotten, ...
Kept == [o \in Outputs |-> IF o \in Destroyed THEN "none" ELSE store[o]]
Remembered(f) == [o \in Outputs |-> IF Kept[o] = "none" THEN Initial ELSE f[o]]

\* Mutant: a darkened output leaves the list.
RelistedBright ==
    (listed \ (Destroyed \cup {o \in Outputs : scheduled[o].st = "DisabledSoft"}))
      \cup {o \in Outputs : Kept[o] # "none" /\ scheduled[o].st = "Enabled"}

\* ... and those that are to be lit or darkened join the list.
Relisted ==
    (listed \ Destroyed)
      \cup {o \in Outputs : Kept[o] # "none" /\ scheduled[o].st \in {"Enabled", "DisabledSoft"}}

\* Mutant: only what is to be lit is sent.
TakenBright ==
    [o \in Outputs |-> IF scheduled[o].st = "Enabled" THEN Remembered(scheduled)[o]
                       ELSE Remembered(sent)[o]]

\* The sent states a manage pass leaves.
Taken == Remembered(scheduled)

\* Whether the plugged outputs W in the states s have to be committed anew.
NeedsModeset(W, s) ==
    \E o \in W : \/ on[o] # (s[o].st = "Enabled")
                 \/ s[o].mode \notin {NoMode, shown[o]}
                 \/ s[o].st = "Enabled" /\ current[o].mode = NoMode

\* Mutant: the configuration is left for the next pass to answer.
ModesetFailedSilently(lst, to, config) ==
    /\ scheduled' = [o \in Outputs |-> IF o \in lst THEN current[o] ELSE to.scheduled[o]]
    /\ sent' = [o \in Outputs |-> IF o \in lst THEN current[o] ELSE to.sent[o]]
    /\ answering' = config
    /\ current' = to.current /\ listed' = lst
    /\ UNCHANGED <<on, shown, first>>

\* modeset_failed: everything goes back to what it was, and the configuration
\* the pass took along is answered `failed'.
ModesetFailed(lst, to, config) ==
    /\ scheduled' = [o \in Outputs |-> IF o \in lst THEN current[o] ELSE to.scheduled[o]]
    /\ sent' = [o \in Outputs |-> IF o \in lst THEN current[o] ELSE to.sent[o]]
    /\ answering' = None
    /\ current' = to.current /\ listed' = lst
    /\ UNCHANGED <<on, shown, first>>

\* Mutant: what was sent is not noted as current.
CommittedForgetful(W, lst, to) ==
    /\ on' = [o \in Outputs |-> IF o \in W THEN to.sent[o].st = "Enabled" ELSE on[o]]
    /\ shown' = [o \in Outputs |-> IF o \in W /\ to.sent[o].st = "Enabled"
                                   THEN to.sent[o].mode ELSE shown[o]]
    /\ current' = to.current
    /\ listed' = lst \ {o \in W : to.sent[o].st = "DisabledHard"}
    /\ scheduled' = to.scheduled /\ sent' = to.sent /\ answering' = None
    /\ first' = (first /\ ~NeedsModeset(W, to.sent))

\* The backend has taken the states: the configuration is answered
\* `succeeded', and outputs that are disabled for good leave the list.
Committed(W, lst, to) ==
    /\ on' = [o \in Outputs |-> IF o \in W THEN to.sent[o].st = "Enabled" ELSE on[o]]
    /\ shown' = [o \in Outputs |-> IF o \in W /\ to.sent[o].st = "Enabled"
                                   THEN to.sent[o].mode ELSE shown[o]]
    /\ current' = [o \in Outputs |-> IF o \in W THEN to.sent[o] ELSE to.current[o]]
    /\ listed' = lst \ {o \in W : to.sent[o].st = "DisabledHard"}
    /\ scheduled' = to.scheduled /\ sent' = to.sent /\ answering' = None
    /\ first' = (first /\ ~NeedsModeset(W, to.sent))

\* commit_output_state on the list lst, with the store st and the Output
\* states `to' as they are then: whether the backend has taken them, the
\* configuration to answer, and what becomes of the window manager's passes.
CommitOutputState(lst, st, to, taken, config, others) ==
    LET W == {o \in lst : st[o] = "live"}
    IN  /\ taken \/ (Fails /\ NeedsModeset(W, to.sent))
        /\ CASE \E o \in lst : to.sent[o].st = "Destroying" -> Stop("sent a destruction")
             [] \E o \in W : to.sent[o].mode = NoMode /\ to.sent[o].st # "DisabledHard" ->
                   Stop("sent without a mode")
             [] ~taken /\ first -> Stop("no first modeset")
             [] OTHER -> /\ IF taken THEN Committed(W, lst, to) ELSE ModesetFailed(lst, to, config)
                         /\ store' = st /\ others /\ UNCHANGED failed

States == [scheduled |-> scheduled, sent |-> sent, current |-> current]
TakenStates ==
    [scheduled |-> Remembered(scheduled), sent |-> Taken, current |-> Remembered(current)]

\* A manage pass that waits for clients before it commits.  A configuration
\* still to be answered would be answered `failed'.
BeginPass ==
    /\ manage /\ phase = "Idle"
    /\ IF ModeMissing THEN Stop("scheduled without a mode")
       ELSE /\ P!Begin
            /\ sent' = Taken /\ store' = Kept /\ listed' = Relisted
            /\ scheduled' = Remembered(scheduled) /\ current' = Remembered(current)
            /\ answering' = asked /\ asked' = None
            /\ UNCHANGED <<on, shown, first, failed>>

\* A manage pass that waits for nobody; a modeset that fails asks for another.
WholePass(taken) ==
    /\ manage /\ phase = "Idle"
    /\ IF ModeMissing THEN Stop("scheduled without a mode")
       ELSE CommitOutputState(Relisted, Kept, TakenStates, taken, asked,
                              (IF taken THEN P!Pass ELSE P!Want) /\ asked' = None)

\* A render pass alone commits what was sent last.
RenderPass(taken) ==
    /\ phase = "Idle" /\ ~manage
    /\ CommitOutputState(listed, store, States, taken, answering,
                         (IF taken THEN UNCHANGED passVars ELSE P!Want) /\ UNCHANGED asked)

\* The render pass that ends a manage pass that waited.
FinishPass(taken) ==
    /\ phase = "Inflight"
    /\ CommitOutputState(listed, store, States, taken, answering,
                         P!Finish /\ manage' = (manage \/ ~taken) /\ UNCHANGED asked)

\* Any other handler that asks for a manage pass.
LayoutChanged ==
    /\ P!Want
    /\ UNCHANGED <<store, on, shown, scheduled, sent, current, listed, asked,
                   answering, first, failed>>

Next ==
    /\ failed = "none"
    /\ \/ Apply \/ SetDisplays
       \/ \E o \in Outputs : SetPower(o) \/ RequestState(o) \/ Plug(o) \/ Unplug(o)
       \/ BeginPass \/ LayoutChanged
       \/ \E taken \in BOOLEAN : WholePass(taken) \/ RenderPass(taken) \/ FinishPass(taken)

Spec == Init /\ [][Next]_vars

\* What Passes promises: a pass that is wanted begins, one that waits ends.
Fairness ==
    /\ WF_vars(failed = "none" /\ (BeginPass \/ \E taken \in BOOLEAN : WholePass(taken)))
    /\ WF_vars(failed = "none" /\ \E taken \in BOOLEAN : FinishPass(taken))

FairSpec == Spec /\ Fairness

-----------------------------------------------------------------------------
(* Properties                                                              *)

\* The variables have the values the code's types give them, and no output is
\* sent its own destruction (commit_output_state and send_config assert it).
TypeOK ==
    /\ phase \in {"Idle", "Inflight"} /\ manage \in BOOLEAN
    /\ store \in [Outputs -> {"none", "live", "gone"}]
    /\ on \in [Outputs -> BOOLEAN] /\ shown \in [Outputs -> Modes \cup {NoMode}]
    /\ scheduled \in [Outputs -> OutputState]
    /\ sent \in [Outputs -> Committable] /\ current \in [Outputs -> Committable]
    /\ listed \subseteq Outputs
    /\ asked = None \/ asked \in Configs
    /\ answering = None \/ answering \in Configs
    /\ first \in BOOLEAN

\* No assertion of the output handlers fails; a server whose first modeset
\* fails stops on purpose (output_manager.rs, modeset_failed).
AssertionsHold == failed \in {"none", "no first modeset"}

\* Between transactions no configuration waits for its answer, so a manage
\* pass finds none that an older one left behind (transaction.rs warns of it).
NoStaleConfig == phase = "Idle" => answering = None

\* Once no pass is wanted or under way the hardware shows what was asked for,
\* whatever was refused, replaced, darkened or plugged in on the way.
HardwareFollowsSchedule ==
    failed = "none" /\ phase = "Idle" /\ ~manage =>
       \A o \in Live :
          /\ on[o] = (scheduled[o].st = "Enabled")
          /\ on[o] => shown[o] = scheduled[o].mode
          /\ on[o] => current[o] = scheduled[o]

\* Every lit output is in the list that passes commit and the lock screen and
\* the layouts walk, and the list names no output that has left the store.
LitIsListed ==
    /\ \A o \in Outputs : on[o] => o \in listed
    /\ \A o \in listed : store[o] # "none"

\* Of the outputs o, the hardware shows what the configuration asked.
Shows(config) ==
    \A o \in DOMAIN config :
       /\ on'[o] = (config[o].st = "Enabled")
       /\ on'[o] => shown'[o] = config[o].mode

\* A client is told its configuration `succeeded' only when every output in it
\* that nobody has set anew since then does what the client asked.
SucceededIsShown ==
    [][failed' = "none" =>
         /\ WholePass(TRUE) /\ asked # None => Shows(asked)
         /\ FinishPass(TRUE) /\ answering # None => Shows(answering)]_vars

\* An unplugged output is freed.
GoneAreFreed == \A o \in Outputs : store[o] = "gone" ~> store[o] = "none"
=============================================================================

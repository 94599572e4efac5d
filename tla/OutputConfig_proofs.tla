------------------------ MODULE OutputConfig_proofs ------------------------
(***************************************************************************)
(* What holds of the output configuration for any outputs and modes.       *)
(*                                                                         *)
(* The invariant says how the three states of an output, the list of the   *)
(* passes and the hardware agree.  While a manage pass is wanted an output *)
(* may be scheduled anything; a pass that is not followed by another takes *)
(* what is scheduled, and what it has committed is current and shown.      *)
(* Every pass ends in commit_output_state, so it is looked at once, from   *)
(* what a pass hands to it (PassInv), and each kind of pass is shown to    *)
(* hand it that.                                                           *)
(***************************************************************************)
EXTENDS OutputConfig, TLAPS

\* An output that is not plugged is not lit.
DarkUnlessLive == \A o \in Outputs : store[o] # "live" => ~on[o]

\* Only an output that was unplugged is scheduled for its destruction.
DyingIsGone ==
    \A o \in Outputs : scheduled[o].st = "Destroying" => store[o] = "gone"

\* What the backend has accepted is what it shows.
HardwareIsCurrent ==
    \A o \in Live :
       /\ on[o] = (current[o].st = "Enabled")
       /\ on[o] => shown[o] = current[o].mode

\* What the passes do not commit is disabled.
UnlistedIsHard == \A o \in Live \ listed : sent[o].st = "DisabledHard"

\* Nothing is scheduled that no pass has taken, and, between passes, nothing
\* taken that the backend has not accepted, unless a manage pass is wanted.
SentIsScheduled == ~manage => \A o \in Live : scheduled[o] = sent[o]
CurrentIsSent ==
    (phase = "Idle" /\ ~manage) => \A o \in Live \cap listed : current[o] = sent[o]

IInv ==
    /\ TypeOK /\ NoStaleConfig /\ LitIsListed
    /\ DarkUnlessLive /\ DyingIsGone /\ HardwareIsCurrent
    /\ UnlistedIsHard /\ SentIsScheduled /\ CurrentIsSent

-----------------------------------------------------------------------------
(* The handlers that schedule.                                             *)

\* What is left of a configuration is a configuration.
LEMMA WithoutType ==
    ASSUME NEW config, config = None \/ config \in Configs, NEW D
    PROVE  Without(config, D) = None \/ Without(config, D) \in Configs
<1>1. CASE config = None
  BY <1>1 DEF Without
<1>2. CASE config # None
  <2>1. PICK E \in SUBSET Outputs : config \in [E -> OutputState]
    BY <1>2 DEF Configs
  <2>2. Without(config, D) \in [E \ D -> OutputState]
    BY <1>2, <2>1 DEF Without
  <2>3. E \ D \in SUBSET Outputs
    BY <2>1
  <2> QED
    BY <2>2, <2>3 DEF Configs
<1> QED
  BY <1>1, <1>2

\* A handler may schedule what it likes for plugged outputs, but a destruction,
\* as long as it asks for a manage pass.
LEMMA ScheduleStep ==
    ASSUME IInv, NEW D \in SUBSET Live, NEW to, \A o \in D : to[o] \in Committable,
           Schedule(D, to), DirtyWindowing, UNCHANGED <<store, listed, sent>>,
           asked' = None \/ asked' \in Configs
    PROVE  IInv'
<1> USE DEF IInv, Schedule, DirtyWindowing, P!Want
<1>1. scheduled' \in [Outputs -> OutputState]
  BY DEF TypeOK, Committable, Live
<1>2. TypeOK'
  BY <1>1 DEF TypeOK
<1>3. Live' = Live
  BY DEF Live
<1>4. DyingIsGone'
  BY DEF DyingIsGone, Committable
<1>5. NoStaleConfig' /\ LitIsListed' /\ DarkUnlessLive'
  BY DEF NoStaleConfig, LitIsListed, DarkUnlessLive
<1>6. HardwareIsCurrent' /\ UnlistedIsHard'
  BY <1>3 DEF HardwareIsCurrent, UnlistedIsHard
<1>7. SentIsScheduled' /\ CurrentIsSent'
  BY DEF SentIsScheduled, CurrentIsSent
<1> QED
  BY <1>2, <1>4, <1>5, <1>6, <1>7

\* Of those that answer nobody.
LEMMA ScheduleAndDirtyStep ==
    ASSUME IInv, NEW D \in SUBSET Live, NEW to, \A o \in D : to[o] \in Committable,
           ScheduleAndDirty(D, to)
    PROVE  IInv'
<1>1. asked = None \/ asked \in Configs
  BY DEF IInv, TypeOK
<1>2. asked' = None \/ asked' \in Configs
  BY <1>1, WithoutType DEF ScheduleAndDirty
<1> QED
  BY <1>2, ScheduleStep DEF ScheduleAndDirty

\* A client applies a configuration.
LEMMA ApplyStep == IInv /\ Apply => IInv'
<1> SUFFICES ASSUME IInv, Apply PROVE IInv'
  OBVIOUS
<1>1. PICK D \in (SUBSET Live) \ {{}} :
        \E ask \in [D -> {"off"} \cup Modes] :
          LET to == [o \in D |->
                       IF ask[o] = "off" THEN [scheduled[o] EXCEPT !.st = "DisabledHard"]
                       ELSE [st |-> IF scheduled[o].st = "DisabledSoft" THEN "DisabledSoft" ELSE "Enabled",
                             mode |-> ask[o]]]
          IN  Schedule(D, to) /\ asked' = to
  BY DEF Apply
<1>2. PICK ask \in [D -> {"off"} \cup Modes] :
          LET to == [o \in D |->
                       IF ask[o] = "off" THEN [scheduled[o] EXCEPT !.st = "DisabledHard"]
                       ELSE [st |-> IF scheduled[o].st = "DisabledSoft" THEN "DisabledSoft" ELSE "Enabled",
                             mode |-> ask[o]]]
          IN  Schedule(D, to) /\ asked' = to
  BY <1>1
<1> DEFINE to == [o \in D |->
                    IF ask[o] = "off" THEN [scheduled[o] EXCEPT !.st = "DisabledHard"]
                    ELSE [st |-> IF scheduled[o].st = "DisabledSoft" THEN "DisabledSoft" ELSE "Enabled",
                          mode |-> ask[o]]]
<1>3. D \in SUBSET Live /\ D \in SUBSET Outputs
  BY DEF Live
<1>4. \A o \in D : to[o] \in Committable
  <2> SUFFICES ASSUME NEW o \in D PROVE to[o] \in Committable
    OBVIOUS
  <2>1. scheduled[o] \in OutputState
    BY <1>3 DEF IInv, TypeOK
  <2>2. CASE ask[o] = "off"
    BY <2>1, <2>2 DEF Committable, OutputState, StateValue
  <2>3. CASE ask[o] # "off"
    <3>1. ask[o] \in Modes
      BY <2>3
    <3> QED
      BY <2>3, <3>1 DEF Committable, OutputState, StateValue
  <2> QED
    BY <2>2, <2>3
<1>5. to \in [D -> OutputState]
  BY <1>4 DEF Committable
<1>6. Schedule(D, to) /\ asked' = to
  BY <1>2
<1>7. asked' \in Configs
  BY <1>3, <1>5, <1>6 DEF Configs
<1>8. DirtyWindowing /\ UNCHANGED <<store, listed, sent>>
  BY DEF Apply
<1> QED
  BY <1>3, <1>4, <1>6, <1>7, <1>8, ScheduleStep

\* A client turns an output on or off.
LEMMA SetPowerStep == \A o \in Outputs : IInv /\ SetPower(o) => IInv'
<1> SUFFICES ASSUME NEW o \in Outputs, IInv, SetPower(o) PROVE IInv'
  OBVIOUS
<1> DEFINE to == [p \in {o} |->
          [scheduled[o] EXCEPT !.st = IF @ = "Enabled" THEN "DisabledSoft" ELSE "Enabled"]]
<1>1. {o} \in SUBSET Live /\ ScheduleAndDirty({o}, to)
  BY DEF SetPower
<1>2. scheduled[o] \in OutputState
  BY DEF IInv, TypeOK
<1>3. \A p \in {o} : to[p] \in Committable
  BY <1>2 DEF Committable, OutputState, StateValue
<1> QED
  BY <1>1, <1>3, ScheduleAndDirtyStep

\* A backend asks for a state of its own.
LEMMA RequestStateStep == \A o \in Outputs : IInv /\ RequestState(o) => IInv'
<1> SUFFICES ASSUME NEW o \in Outputs, IInv, RequestState(o) PROVE IInv'
  OBVIOUS
<1>1. PICK m \in Modes :
        ScheduleAndDirty({o}, [p \in {o} |-> [scheduled[o] EXCEPT !.mode = m]])
  BY DEF RequestState
<1> DEFINE to == [p \in {o} |-> [scheduled[o] EXCEPT !.mode = m]]
<1>2. {o} \in SUBSET Live
  BY DEF RequestState
<1>3. scheduled[o] \in OutputState /\ scheduled[o].st # "Destroying"
  BY <1>2 DEF IInv, TypeOK, DyingIsGone, Live
<1>4. \A p \in {o} : to[p] \in Committable
  BY <1>3 DEF Committable, OutputState
<1> QED
  BY <1>1, <1>2, <1>4, ScheduleAndDirtyStep

\* The command that turns displays on or off.
LEMMA SetDisplaysStep == IInv /\ SetDisplays => IInv'
<1> SUFFICES ASSUME IInv, SetDisplays PROVE IInv'
  OBVIOUS
<1> DEFINE bright == {o \in Live : scheduled[o].st = "Enabled"}
           dark   == {o \in Live : scheduled[o].st = "DisabledSoft"}
<1>1. \A o \in Live : scheduled[o] \in OutputState
  BY DEF IInv, TypeOK, Live
<1>2. CASE ScheduleAndDirty(bright, [o \in bright |-> [scheduled[o] EXCEPT !.st = "DisabledSoft"]])
  <2>1. \A o \in bright : [scheduled[o] EXCEPT !.st = "DisabledSoft"] \in Committable
    BY <1>1 DEF Committable, OutputState, StateValue
  <2>2. bright \in SUBSET Live
    OBVIOUS
  <2> QED
    BY <1>2, <2>1, <2>2, ScheduleAndDirtyStep
<1>3. ASSUME NEW D \in (SUBSET dark) \ {{}},
             ScheduleAndDirty(D, [o \in D |-> [scheduled[o] EXCEPT !.st = "Enabled"]])
      PROVE  IInv'
  <2>1. \A o \in D : [scheduled[o] EXCEPT !.st = "Enabled"] \in Committable
    BY <1>1 DEF Committable, OutputState, StateValue
  <2>2. D \in SUBSET Live
    OBVIOUS
  <2> QED
    BY <1>3, <2>1, <2>2, ScheduleAndDirtyStep
<1> QED
  BY <1>2, <1>3 DEF SetDisplays

-----------------------------------------------------------------------------
(* Monitors come and go.                                                   *)

\* An output appears.
LEMMA PlugStep == \A o \in Outputs : IInv /\ Plug(o) => IInv'
<1> SUFFICES ASSUME NEW o \in Outputs, IInv, Plug(o) PROVE IInv'
  OBVIOUS
<1>1. PICK m \in Modes : scheduled' = [scheduled EXCEPT ![o] = [st |-> "Enabled", mode |-> m]]
  BY DEF Plug
<1>2. Initial \in Committable /\ Initial.st = "DisabledHard"
  BY DEF Initial, Committable, OutputState, StateValue
<1>3. manage' = TRUE /\ phase' = phase
  BY DEF Plug, DirtyWindowing, P!Want
<1>4. /\ scheduled' \in [Outputs -> OutputState] /\ scheduled'[o].st = "Enabled"
      /\ store[o] = "none" /\ store' \in [Outputs -> {"none", "live", "gone"}]
      /\ sent' \in [Outputs -> Committable] /\ current' \in [Outputs -> Committable]
      /\ UNCHANGED <<on, shown, listed, asked, answering, first>>
  BY <1>1, <1>2 DEF IInv, TypeOK, Plug, OutputState, StateValue
<1>5. TypeOK'
  BY <1>3, <1>4 DEF IInv, TypeOK
<1>6. NoStaleConfig' /\ LitIsListed' /\ DarkUnlessLive'
  BY <1>3, <1>4 DEF IInv, TypeOK, Plug, NoStaleConfig, LitIsListed, DarkUnlessLive
<1>7. DyingIsGone'
  BY <1>1, <1>4 DEF IInv, TypeOK, Plug, DyingIsGone
<1>8. HardwareIsCurrent' /\ UnlistedIsHard'
  BY <1>2, <1>4 DEF IInv, TypeOK, Plug, HardwareIsCurrent, UnlistedIsHard, Live, DarkUnlessLive
<1>9. SentIsScheduled' /\ CurrentIsSent'
  BY <1>3 DEF SentIsScheduled, CurrentIsSent
<1> QED
  BY <1>5, <1>6, <1>7, <1>8, <1>9 DEF IInv

\* An output goes.
LEMMA UnplugStep == \A o \in Outputs : IInv /\ Unplug(o) => IInv'
<1> SUFFICES ASSUME NEW o \in Outputs, IInv, Unplug(o) PROVE IInv'
  OBVIOUS
<1>1. manage' = TRUE /\ phase' = phase
  BY DEF Unplug, DirtyWindowing, P!Want
<1>2. /\ scheduled' \in [Outputs -> OutputState]
      /\ store' \in [Outputs -> {"none", "live", "gone"}]
      /\ sent' \in [Outputs -> Committable] /\ current' \in [Outputs -> Committable]
      /\ on' \in [Outputs -> BOOLEAN] /\ shown' \in [Outputs -> Modes \cup {NoMode}]
  BY DEF IInv, TypeOK, Unplug, Committable, OutputState, StateValue
<1>3. /\ asked' = None \/ asked' \in Configs
      /\ answering' = None \/ answering' \in Configs
  BY WithoutType DEF IInv, TypeOK, Unplug
<1>4. TypeOK'
  BY <1>1, <1>2, <1>3 DEF IInv, TypeOK, Unplug
<1>5. NoStaleConfig'
  BY <1>1 DEF IInv, Unplug, NoStaleConfig, Without
<1>6. LitIsListed' /\ DarkUnlessLive' /\ DyingIsGone'
  BY DEF IInv, TypeOK, Unplug, LitIsListed, DarkUnlessLive, DyingIsGone
<1>7. /\ Live' = Live \ {o}
      /\ \A p \in Live' : on'[p] = on[p] /\ shown'[p] = shown[p] /\ sent'[p] = sent[p]
                          /\ current'[p] = current[p]
  BY DEF IInv, TypeOK, Unplug, Live
<1>8. HardwareIsCurrent' /\ UnlistedIsHard'
  BY <1>7 DEF IInv, Unplug, HardwareIsCurrent, UnlistedIsHard
<1>9. SentIsScheduled' /\ CurrentIsSent'
  BY <1>1 DEF SentIsScheduled, CurrentIsSent
<1> QED
  BY <1>4, <1>5, <1>6, <1>8, <1>9 DEF IInv

-----------------------------------------------------------------------------
(* The passes.                                                             *)

\* What a pass hands to commit_output_state: the list lst, the store st and the
\* states `to'; `again' says whether a manage pass is wanted after it.
PassInv(lst, st, to, again) ==
    /\ lst \subseteq Outputs /\ st \in [Outputs -> {"none", "live", "gone"}]
    /\ to.scheduled \in [Outputs -> OutputState]
    /\ to.sent \in [Outputs -> Committable] /\ to.current \in [Outputs -> Committable]
    /\ on \in [Outputs -> BOOLEAN] /\ shown \in [Outputs -> Modes \cup {NoMode}]
    /\ first \in BOOLEAN
    /\ \A o \in Outputs : on[o] => o \in lst /\ st[o] = "live"
    /\ \A o \in lst : st[o] # "none" /\ to.current[o] = current[o]
    /\ \A o \in Outputs : to.scheduled[o].st = "Destroying" => st[o] = "gone"
    /\ \A o \in Outputs : st[o] = "live" =>
          /\ on[o] = (to.current[o].st = "Enabled")
          /\ on[o] => shown[o] = to.current[o].mode
          /\ o \notin lst => to.sent[o].st = "DisabledHard"
          /\ again \/ to.scheduled[o] = to.sent[o]

\* What the end of a pass leaves beside the outputs.
PassEnds(st, again) ==
    /\ store' = st /\ phase' = "Idle" /\ manage' = again /\ again \in BOOLEAN
    /\ asked' = None \/ asked' \in Configs

\* A commit the backend accepts.
LEMMA CommittedStep ==
    ASSUME NEW lst, NEW st, NEW to, NEW again, PassInv(lst, st, to, again), PassEnds(st, again),
           Committed({o \in lst : st[o] = "live"}, lst, to)
    PROVE  IInv'
<1> DEFINE W == {o \in lst : st[o] = "live"}
<1>1. /\ on' = [o \in Outputs |-> IF o \in W THEN to.sent[o].st = "Enabled" ELSE on[o]]
      /\ shown' = [o \in Outputs |-> IF o \in W /\ to.sent[o].st = "Enabled"
                                     THEN to.sent[o].mode ELSE shown[o]]
      /\ current' = [o \in Outputs |-> IF o \in W THEN to.sent[o] ELSE to.current[o]]
      /\ listed' = lst \ {o \in W : to.sent[o].st = "DisabledHard"}
      /\ scheduled' = to.scheduled /\ sent' = to.sent /\ answering' = None
      /\ first' = (first /\ ~NeedsModeset(W, to.sent))
  BY DEF Committed
<1> HIDE DEF W
<1>2. W = {o \in lst : st[o] = "live"}
  BY DEF W
<1>3. /\ on' \in [Outputs -> BOOLEAN] /\ shown' \in [Outputs -> Modes \cup {NoMode}]
      /\ current' \in [Outputs -> Committable] /\ listed' \subseteq Outputs /\ first' \in BOOLEAN
  <2>1. on' \in [Outputs -> BOOLEAN]
    BY <1>1 DEF PassInv
  <2>2. shown' \in [Outputs -> Modes \cup {NoMode}]
    BY <1>1 DEF PassInv, Committable, OutputState
  <2>3. current' \in [Outputs -> Committable]
    BY <1>1 DEF PassInv
  <2>4. first' \in BOOLEAN
    BY <1>1 DEF PassInv
  <2> QED
    BY <1>1, <2>1, <2>2, <2>3, <2>4 DEF PassInv
<1>4. TypeOK'
  BY <1>1, <1>3 DEF TypeOK, PassInv, PassEnds
<1>5. NoStaleConfig' /\ DyingIsGone'
  BY <1>1 DEF NoStaleConfig, DyingIsGone, PassInv, PassEnds
<1>6. LitIsListed' /\ DarkUnlessLive'
  BY <1>1, <1>2 DEF LitIsListed, DarkUnlessLive, PassInv, PassEnds
<1>7. Live' = {o \in Outputs : st[o] = "live"}
  BY DEF Live, PassEnds
<1>8. HardwareIsCurrent'
  BY <1>1, <1>2, <1>7 DEF HardwareIsCurrent, PassInv
<1>9. UnlistedIsHard'
  BY <1>1, <1>2, <1>7 DEF UnlistedIsHard, PassInv
<1>10. SentIsScheduled'
  BY <1>1, <1>7 DEF SentIsScheduled, PassInv, PassEnds
<1>11. CurrentIsSent'
  BY <1>1, <1>2, <1>7 DEF CurrentIsSent, PassInv
<1> QED
  BY <1>4, <1>5, <1>6, <1>8, <1>9, <1>10, <1>11 DEF IInv

\* A commit it refuses.
LEMMA ModesetFailedStep ==
    ASSUME NEW lst, NEW st, NEW to, NEW config, PassInv(lst, st, to, TRUE), PassEnds(st, TRUE),
           ModesetFailed(lst, to, config)
    PROVE  IInv'
<1>1. /\ scheduled' = [o \in Outputs |-> IF o \in lst THEN current[o] ELSE to.scheduled[o]]
      /\ sent' = [o \in Outputs |-> IF o \in lst THEN current[o] ELSE to.sent[o]]
      /\ answering' = None /\ current' = to.current /\ listed' = lst
      /\ UNCHANGED <<on, shown, first>>
  BY DEF ModesetFailed
<1>2. scheduled' \in [Outputs -> OutputState] /\ sent' \in [Outputs -> Committable]
  BY <1>1 DEF PassInv, Committable
<1>3. TypeOK'
  BY <1>1, <1>2 DEF TypeOK, PassInv, PassEnds
<1>4. NoStaleConfig' /\ LitIsListed' /\ DarkUnlessLive'
  BY <1>1 DEF NoStaleConfig, LitIsListed, DarkUnlessLive, PassInv, PassEnds
<1>5. DyingIsGone'
  BY <1>1 DEF DyingIsGone, PassInv, PassEnds, Committable
<1>6. Live' = {o \in Outputs : st[o] = "live"}
  BY DEF Live, PassEnds
<1>7. HardwareIsCurrent' /\ UnlistedIsHard'
  BY <1>1, <1>6 DEF HardwareIsCurrent, UnlistedIsHard, PassInv
<1>8. SentIsScheduled' /\ CurrentIsSent'
  BY DEF SentIsScheduled, CurrentIsSent, PassEnds
<1> QED
  BY <1>3, <1>4, <1>5, <1>7, <1>8 DEF IInv

\* A server that stops changes nothing.
LEMMA StopStep == ASSUME NEW why, IInv, Stop(why) PROVE IInv'
BY DEF Stop, IInv, TypeOK, NoStaleConfig, LitIsListed, DarkUnlessLive, DyingIsGone,
       HardwareIsCurrent, UnlistedIsHard, SentIsScheduled, CurrentIsSent, Live

\* commit_output_state stops the server, or the backend accepts or refuses.
LEMMA CommitCases ==
    ASSUME NEW lst, NEW st, NEW to, NEW taken \in BOOLEAN, NEW config, ACTION others,
           CommitOutputState(lst, st, to, taken, config, others)
    PROVE  \/ \E why : Stop(why)
           \/ /\ IF taken THEN Committed({o \in lst : st[o] = "live"}, lst, to)
                          ELSE ModesetFailed(lst, to, config)
              /\ store' = st /\ others
BY DEF CommitOutputState

\* The states that a manage pass takes over.
LEMMA TakenInv ==
    ASSUME IInv, NEW again
    PROVE  PassInv(Relisted, Kept, TakenStates, again)
<1>1. Initial \in Committable /\ Initial \in OutputState /\ Initial.st = "DisabledHard"
  BY DEF Initial, Committable, OutputState, StateValue
<1>2. /\ Kept \in [Outputs -> {"none", "live", "gone"}]
      /\ \A o \in Outputs :
            /\ Kept[o] # "none" => Kept[o] = store[o]
            /\ Kept[o] # "none" => scheduled[o].st # "Destroying"
            /\ store[o] = "live" => Kept[o] = "live"
  BY DEF Kept, Destroyed, IInv, TypeOK, DyingIsGone
<1>3. \A o \in Outputs :
         /\ TakenStates.scheduled[o] = IF Kept[o] = "none" THEN Initial ELSE scheduled[o]
         /\ TakenStates.sent[o] = IF Kept[o] = "none" THEN Initial ELSE scheduled[o]
         /\ TakenStates.current[o] = IF Kept[o] = "none" THEN Initial ELSE current[o]
  BY DEF TakenStates, Taken, Remembered
<1>4. /\ TakenStates.scheduled \in [Outputs -> OutputState]
      /\ TakenStates.sent \in [Outputs -> Committable]
      /\ TakenStates.current \in [Outputs -> Committable]
  BY <1>1, <1>2 DEF TakenStates, Taken, Remembered, IInv, TypeOK, Committable
<1>5. Relisted \subseteq Outputs /\ \A o \in Relisted : Kept[o] # "none"
  BY DEF Relisted, Kept, Destroyed, IInv, TypeOK, LitIsListed
<1>6. \A o \in Outputs : on[o] => o \in Relisted /\ Kept[o] = "live"
  BY <1>2 DEF Relisted, Destroyed, IInv, TypeOK, LitIsListed, DarkUnlessLive, DyingIsGone
<1>7. \A o \in Relisted : TakenStates.current[o] = current[o]
  BY <1>3, <1>5
<1>8. \A o \in Outputs : TakenStates.scheduled[o].st # "Destroying"
  BY <1>1, <1>2, <1>3
<1>9. ASSUME NEW o \in Outputs, Kept[o] = "live"
      PROVE  /\ on[o] = (TakenStates.current[o].st = "Enabled")
             /\ on[o] => shown[o] = TakenStates.current[o].mode
             /\ o \notin Relisted => TakenStates.sent[o].st = "DisabledHard"
             /\ TakenStates.scheduled[o] = TakenStates.sent[o]
  <2>1. o \in Live /\ TakenStates.current[o] = current[o]
    BY <1>2, <1>3, <1>9 DEF Live
  <2>2. scheduled[o].st \in StateValue /\ scheduled[o].st # "Destroying"
    BY <1>2, <1>9 DEF IInv, TypeOK, OutputState
  <2>3. o \notin Relisted => scheduled[o].st = "DisabledHard"
    BY <1>9, <2>2 DEF Relisted, StateValue
  <2> QED
    BY <1>3, <1>9, <2>1, <2>3 DEF IInv, HardwareIsCurrent
<1> QED
  BY <1>2, <1>4, <1>5, <1>6, <1>7, <1>8, <1>9 DEF PassInv, IInv, TypeOK

\* A manage pass that waits for clients.
LEMMA BeginPassStep == IInv /\ BeginPass => IInv'
<1> SUFFICES ASSUME IInv, BeginPass, ~ModeMissing PROVE IInv'
  BY StopStep DEF BeginPass
<1>1. PassInv(Relisted, Kept, TakenStates, FALSE)
  BY TakenInv
<1>2. /\ sent' = TakenStates.sent /\ scheduled' = TakenStates.scheduled
      /\ current' = TakenStates.current /\ store' = Kept /\ listed' = Relisted
      /\ phase' = "Inflight" /\ manage' = FALSE /\ answering' = asked /\ asked' = None
      /\ UNCHANGED <<on, shown, first>>
  BY DEF BeginPass, P!Begin, TakenStates
<1>3. Live' = {o \in Outputs : Kept[o] = "live"}
  BY <1>2 DEF Live
<1>4. TypeOK'
  BY <1>1, <1>2 DEF TypeOK, PassInv, IInv
<1>5. LitIsListed' /\ DarkUnlessLive' /\ DyingIsGone'
  BY <1>1, <1>2 DEF LitIsListed, DarkUnlessLive, DyingIsGone, PassInv
<1>6. HardwareIsCurrent' /\ UnlistedIsHard' /\ SentIsScheduled'
  BY <1>1, <1>2, <1>3 DEF HardwareIsCurrent, UnlistedIsHard, SentIsScheduled, PassInv
<1>7. NoStaleConfig' /\ CurrentIsSent'
  BY <1>2 DEF NoStaleConfig, CurrentIsSent
<1> QED
  BY <1>4, <1>5, <1>6, <1>7 DEF IInv

\* A manage pass that waits for nobody.
LEMMA WholePassStep == \A taken \in BOOLEAN : IInv /\ WholePass(taken) => IInv'
<1> SUFFICES ASSUME NEW taken \in BOOLEAN, IInv, WholePass(taken), ~ModeMissing PROVE IInv'
  BY StopStep DEF WholePass
<1> DEFINE others == (IF taken THEN P!Pass ELSE P!Want) /\ asked' = None
<1>1. phase = "Idle" /\ CommitOutputState(Relisted, Kept, TakenStates, taken, asked, others)
  BY DEF WholePass
<1>2. CASE \E why : Stop(why)
  BY <1>2, StopStep
<1>3. CASE /\ IF taken THEN Committed({o \in Relisted : Kept[o] = "live"}, Relisted, TakenStates)
                       ELSE ModesetFailed(Relisted, TakenStates, asked)
           /\ store' = Kept /\ others
  <2>1. CASE taken
    <3>1. PassInv(Relisted, Kept, TakenStates, FALSE) /\ PassEnds(Kept, FALSE)
      BY <1>1, <1>3, <2>1, TakenInv DEF P!Pass, PassEnds
    <3> QED
      BY <1>3, <2>1, <3>1, CommittedStep
  <2>2. CASE ~taken
    <3>1. PassInv(Relisted, Kept, TakenStates, TRUE) /\ PassEnds(Kept, TRUE)
      BY <1>1, <1>3, <2>2, TakenInv DEF P!Want, PassEnds
    <3> QED
      BY <1>3, <2>2, <3>1, ModesetFailedStep
  <2> QED
    BY <2>1, <2>2
<1> QED
  BY <1>1, <1>2, <1>3, CommitCases

\* The states that a render pass finds.
LEMMA FoundInv ==
    ASSUME IInv
    PROVE  PassInv(listed, store, States, manage)
<1>1. /\ States.scheduled = scheduled /\ States.sent = sent /\ States.current = current
      /\ manage \in BOOLEAN
  BY DEF States, IInv, TypeOK
<1> QED
  BY <1>1 DEF PassInv, IInv, TypeOK, LitIsListed, DarkUnlessLive, DyingIsGone,
              HardwareIsCurrent, UnlistedIsHard, SentIsScheduled, Live

\* With a pass to come, nothing is asked of what a pass finds that was not.
LEMMA PassInvWeaker ==
    ASSUME NEW lst, NEW st, NEW to, NEW again, PassInv(lst, st, to, again)
    PROVE  PassInv(lst, st, to, TRUE)
BY DEF PassInv

\* The end of a render pass, whatever began it.
LEMMA RenderEnds ==
    ASSUME IInv, NEW taken \in BOOLEAN, NEW ACTION others,
           CommitOutputState(listed, store, States, taken, answering, others),
           others => /\ phase' = "Idle" /\ manage' = (manage \/ ~taken) /\ UNCHANGED asked
    PROVE  IInv'
<1>1. CASE \E why : Stop(why)
  BY <1>1, StopStep
<1>2. CASE /\ IF taken THEN Committed({o \in listed : store[o] = "live"}, listed, States)
                       ELSE ModesetFailed(listed, States, answering)
           /\ store' = store /\ others
  <2>1. PassInv(listed, store, States, manage) /\ PassInv(listed, store, States, TRUE)
    BY FoundInv, PassInvWeaker
  <2>2. asked' = None \/ asked' \in Configs
    BY <1>2 DEF IInv, TypeOK
  <2>3. CASE taken
    <3>1. PassEnds(store, manage)
      BY <1>2, <2>2, <2>3 DEF PassEnds, IInv, TypeOK
    <3> QED
      BY <1>2, <2>1, <2>3, <3>1, CommittedStep
  <2>4. CASE ~taken
    <3>1. PassEnds(store, TRUE)
      BY <1>2, <2>2, <2>4 DEF PassEnds, IInv, TypeOK
    <3> QED
      BY <1>2, <2>1, <2>4, <3>1, ModesetFailedStep
  <2> QED
    BY <2>3, <2>4
<1> QED
  BY <1>1, <1>2, CommitCases

\* A pass ends in the commit of the frames.
LEMMA RenderPassStep == \A taken \in BOOLEAN : IInv /\ RenderPass(taken) => IInv'
<1> SUFFICES ASSUME NEW taken \in BOOLEAN, IInv, RenderPass(taken) PROVE IInv'
  OBVIOUS
<1> DEFINE others == (IF taken THEN UNCHANGED passVars ELSE P!Want) /\ UNCHANGED asked
<1>1. CommitOutputState(listed, store, States, taken, answering, others)
  BY DEF RenderPass
<1>2. others => /\ phase' = "Idle" /\ manage' = (manage \/ ~taken) /\ UNCHANGED asked
  BY DEF RenderPass, passVars, P!Want, IInv, TypeOK
<1> HIDE DEF others
<1> QED
  BY <1>1, <1>2, RenderEnds

\* A pass that waited for windows ends in the same commit.
LEMMA FinishPassStep == \A taken \in BOOLEAN : IInv /\ FinishPass(taken) => IInv'
<1> SUFFICES ASSUME NEW taken \in BOOLEAN, IInv, FinishPass(taken) PROVE IInv'
  OBVIOUS
<1> DEFINE others == P!Finish /\ manage' = (manage \/ ~taken) /\ UNCHANGED asked
<1>1. CommitOutputState(listed, store, States, taken, answering, others)
  BY DEF FinishPass
<1>2. others => /\ phase' = "Idle" /\ manage' = (manage \/ ~taken) /\ UNCHANGED asked
  BY DEF P!Finish
<1> HIDE DEF others
<1> QED
  BY <1>1, <1>2, RenderEnds

-----------------------------------------------------------------------------
(* The invariant, and what it says.                                        *)

\* No output is there yet.
LEMMA InitIInv == Init => IInv
<1> SUFFICES ASSUME Init PROVE IInv
  OBVIOUS
<1>1. Initial \in Committable /\ Initial \in OutputState
      /\ Initial.st = "DisabledHard"
  BY DEF Initial, Committable, OutputState, StateValue
<1>2. TypeOK
  BY <1>1 DEF Init, P!Init, TypeOK
<1> QED
  BY <1>1, <1>2 DEF Init, P!Init, IInv, NoStaleConfig, LitIsListed, DarkUnlessLive, DyingIsGone,
                    HardwareIsCurrent, UnlistedIsHard, SentIsScheduled, CurrentIsSent, Live

\* A handler that only asks for a pass.
LEMMA LayoutChangedStep == IInv /\ LayoutChanged => IInv'
BY DEF LayoutChanged, P!Want, IInv, TypeOK, NoStaleConfig, LitIsListed, DarkUnlessLive,
       DyingIsGone, HardwareIsCurrent, UnlistedIsHard, SentIsScheduled, CurrentIsSent, Live

\* Every step keeps the invariant.
LEMMA NextStep == IInv /\ [Next]_vars => IInv'
<1> SUFFICES ASSUME IInv, [Next]_vars PROVE IInv'
  OBVIOUS
<1>1. CASE UNCHANGED vars
  BY <1>1 DEF vars, IInv, TypeOK, NoStaleConfig, LitIsListed, DarkUnlessLive, DyingIsGone,
              HardwareIsCurrent, UnlistedIsHard, SentIsScheduled, CurrentIsSent, Live
<1>2. CASE Apply \/ SetDisplays
  BY <1>2, ApplyStep, SetDisplaysStep
<1>3. CASE \E o \in Outputs : SetPower(o) \/ RequestState(o) \/ Plug(o) \/ Unplug(o)
  BY <1>3, SetPowerStep, RequestStateStep, PlugStep, UnplugStep
<1>4. CASE BeginPass \/ LayoutChanged
  BY <1>4, BeginPassStep, LayoutChangedStep
<1>5. CASE \E taken \in BOOLEAN : WholePass(taken) \/ RenderPass(taken) \/ FinishPass(taken)
  BY <1>5, WholePassStep, RenderPassStep, FinishPassStep
<1> QED
  BY <1>1, <1>2, <1>3, <1>4, <1>5 DEF Next

\* So it holds in every state.
LEMMA Inductive == Spec => []IInv
BY InitIInv, NextStep, PTL DEF Spec

\* The variables keep their types, and no output is sent its own destruction,
\* which commit_output_state and send_config assert.
THEOREM TypeCorrect == Spec => []TypeOK
<1>1. IInv => TypeOK
  BY DEF IInv
<1> QED
  BY <1>1, Inductive, PTL

\* Between transactions no client's configuration waits for its answer: a manage
\* pass never finds one that an older pass left behind (transaction.rs).
THEOREM ConfigsAnswered == Spec => []NoStaleConfig
<1>1. IInv => NoStaleConfig
  BY DEF IInv
<1> QED
  BY <1>1, Inductive, PTL

\* Every lit output is in the list that passes commit, and the list names no
\* output that has left the store, whatever is plugged, pulled out or refused.
THEOREM ListSound == Spec => []LitIsListed
<1>1. IInv => LitIsListed
  BY DEF IInv
<1> QED
  BY <1>1, Inductive, PTL

\* Once no manage pass is wanted or under way the hardware shows what was asked
\* for: also with a backend that refuses commits while outputs are configured
\* and pulled out in the middle of a pass, which no run checks together.
THEOREM HardwareSettles == Spec => []HardwareFollowsSchedule
<1>1. IInv => HardwareFollowsSchedule
  <2> SUFFICES ASSUME IInv, phase = "Idle", ~manage, NEW o \in Live
               PROVE  /\ on[o] = (scheduled[o].st = "Enabled")
                      /\ on[o] => shown[o] = scheduled[o].mode
                      /\ on[o] => current[o] = scheduled[o]
    BY DEF HardwareFollowsSchedule
  <2>1. scheduled[o] = sent[o]
    BY DEF IInv, SentIsScheduled
  <2>2. CASE o \in listed
    <3>1. current[o] = sent[o]
      BY <2>2 DEF IInv, CurrentIsSent
    <3> QED
      BY <2>1, <3>1 DEF IInv, HardwareIsCurrent
  <2>3. CASE o \notin listed
    <3>1. sent[o].st = "DisabledHard" /\ ~on[o]
      BY <2>3 DEF IInv, UnlistedIsHard, LitIsListed, Live
    <3>2. on[o] \in BOOLEAN
      BY DEF IInv, TypeOK, Live
    <3> QED
      BY <2>1, <3>1, <3>2
  <2> QED
    BY <2>2, <2>3
<1> QED
  BY <1>1, Inductive, PTL

-----------------------------------------------------------------------------
(* Refusals and overlap apart.                                             *)
(*                                                                         *)
(* modeset_failed puts every listed output back to its current state, and  *)
(* so loses what was scheduled while the pass waited, a destruction        *)
(* included.  Where a backend refuses nothing, or nothing happens to       *)
(* outputs while a pass waits, a configuration that is to be               *)
(* answered is what its outputs are scheduled or sent, and what is to be   *)
(* shown has a mode.                                                       *)

\* Every output of a configuration is plugged and in the state it asks for.
Follows(config, s) ==
    (config # None) => \A o \in DOMAIN config : o \in Live /\ config[o] = s[o]

AnswerInv ==
    /\ Follows(asked, scheduled) /\ Follows(answering, sent)
    /\ asked # None => manage
    /\ (~Overlap /\ phase = "Inflight") => asked = None

\* A plugged output that is to be lit or darkened has a mode.
HasMode(s) ==
    \A o \in Live : s[o].st \in {"Enabled", "DisabledSoft"} => s[o].mode # NoMode

ModeInv ==
    /\ HasMode(scheduled) /\ HasMode(sent) /\ HasMode(current)
    /\ \A o \in Outputs : store[o] = "gone" => scheduled[o].st = "Destroying" /\ manage
    /\ (~Overlap /\ phase = "Inflight") => \A o \in Outputs : store[o] # "gone"

ApartInv == AnswerInv /\ ModeInv /\ AssertionsHold

\* What is left of a configuration asks for what is scheduled of the rest.
LEMMA WithoutFollows ==
    ASSUME NEW config, NEW s, Follows(config, s), NEW D
    PROVE  /\ config = None => Without(config, D) = None
           /\ Without(config, D) # None =>
                 \A o \in DOMAIN Without(config, D) :
                    o \notin D /\ o \in Live /\ Without(config, D)[o] = s[o]
<1>1. CASE config = None
  BY <1>1 DEF Without
<1>2. CASE config # None
  <2>1. Without(config, D) = [o \in (DOMAIN config) \ D |-> config[o]]
    BY <1>2 DEF Without
  <2> QED
    BY <1>2, <2>1 DEF Follows
<1> QED
  BY <1>1, <1>2

\* Handlers that schedule modes for plugged outputs.
LEMMA ScheduleApart ==
    ASSUME IInv, ApartInv, NEW D \in SUBSET Live, NEW to,
           \A o \in D : to[o].st \in {"Enabled", "DisabledSoft"} => to[o].mode # NoMode,
           Schedule(D, to), DirtyWindowing, UNCHANGED <<store, listed, sent>>,
           asked' # None =>
              \A o \in DOMAIN asked' :
                 o \in Live /\ asked'[o] = IF o \in D THEN to[o] ELSE scheduled[o],
           (~Overlap /\ phase = "Inflight") => asked' = None
    PROVE  ApartInv'
<1> USE DEF Schedule, DirtyWindowing, P!Want
<1>1. Live' = Live /\ phase' = phase /\ manage' = TRUE
  BY DEF Live
<1>2. scheduled' = [o \in Outputs |-> IF o \in D THEN to[o] ELSE scheduled[o]]
      /\ D \subseteq Live /\ Live \subseteq Outputs
  BY DEF Live
<1>3. Follows(asked, scheduled)'
  BY <1>1, <1>2 DEF Follows
<1>4. Follows(answering, sent)'
  BY <1>1 DEF Follows, ApartInv, AnswerInv
<1>5. AnswerInv'
  BY <1>1, <1>3, <1>4 DEF AnswerInv
<1>6. HasMode(scheduled)' /\ HasMode(sent)' /\ HasMode(current)'
  BY <1>1, <1>2 DEF HasMode, ApartInv, ModeInv
<1>7. \A o \in Outputs : store'[o] = "gone" => scheduled'[o].st = "Destroying" /\ manage'
  BY <1>1, <1>2 DEF ApartInv, ModeInv, Live
<1>8. ModeInv'
  BY <1>1, <1>6, <1>7 DEF ApartInv, ModeInv
<1> QED
  BY <1>5, <1>8 DEF ApartInv, AssertionsHold

\* Scheduling drops from the pending configuration what it schedules.
LEMMA ScheduleAndDirtyApart ==
    ASSUME IInv, ApartInv, NEW D \in SUBSET Live, NEW to,
           \A o \in D : to[o].st \in {"Enabled", "DisabledSoft"} => to[o].mode # NoMode,
           ScheduleAndDirty(D, to)
    PROVE  ApartInv'
<1>1. asked' = Without(asked, D)
  BY DEF ScheduleAndDirty
<1>2. Follows(asked, scheduled) /\ ((~Overlap /\ phase = "Inflight") => asked = None)
  BY DEF ApartInv, AnswerInv
<1>3. /\ asked = None => asked' = None
      /\ asked' # None =>
            \A o \in DOMAIN asked' : o \notin D /\ o \in Live /\ asked'[o] = scheduled[o]
  BY <1>1, <1>2, WithoutFollows
<1>4. /\ asked' # None =>
            \A o \in DOMAIN asked' :
               o \in Live /\ asked'[o] = IF o \in D THEN to[o] ELSE scheduled[o]
      /\ (~Overlap /\ phase = "Inflight") => asked' = None
  BY <1>2, <1>3
<1> QED
  BY <1>4, ScheduleApart DEF ScheduleAndDirty

\* The same invariant, handler by handler: a client applies a configuration.
LEMMA ApplyApart == IInv /\ ApartInv /\ Apply => ApartInv'
<1> SUFFICES ASSUME IInv, ApartInv, Apply PROVE ApartInv'
  OBVIOUS
<1> DEFINE To(D, ask) ==
      [o \in D |-> IF ask[o] = "off" THEN [scheduled[o] EXCEPT !.st = "DisabledHard"]
                   ELSE [st |-> IF scheduled[o].st = "DisabledSoft" THEN "DisabledSoft" ELSE "Enabled",
                         mode |-> ask[o]]]
<1>1. PICK D \in (SUBSET Live) \ {{}} :
        \E ask \in [D -> {"off"} \cup Modes] : Schedule(D, To(D, ask)) /\ asked' = To(D, ask)
  BY DEF Apply
<1>2. PICK ask \in [D -> {"off"} \cup Modes] : Schedule(D, To(D, ask)) /\ asked' = To(D, ask)
  BY <1>1
<1>3. \A o \in D : To(D, ask)[o].st \in {"Enabled", "DisabledSoft"} => To(D, ask)[o].mode # NoMode
  <2> SUFFICES ASSUME NEW o \in D, To(D, ask)[o].st \in {"Enabled", "DisabledSoft"}
               PROVE  To(D, ask)[o].mode # NoMode
    OBVIOUS
  <2>1. scheduled[o] \in OutputState
    BY DEF IInv, TypeOK, Live
  <2>2. ask[o] # "off"
    BY <2>1 DEF OutputState
  <2>3. ask[o] \in Modes /\ To(D, ask)[o].mode = ask[o]
    BY <2>2
  <2> QED
    BY <2>3, OutputsAssumption
<1>4. asked' = To(D, ask) /\ DOMAIN asked' = D
  BY <1>2
<1>5. (~Overlap /\ phase = "Inflight") => FALSE
  BY DEF Apply
<1>6. DirtyWindowing /\ UNCHANGED <<store, listed, sent>> /\ Schedule(D, To(D, ask))
  BY <1>2 DEF Apply
<1> HIDE DEF To
<1>7. asked' # None =>
         \A o \in DOMAIN asked' :
            o \in Live /\ asked'[o] = IF o \in D THEN To(D, ask)[o] ELSE scheduled[o]
  BY <1>4
<1> QED
  BY <1>3, <1>5, <1>6, <1>7, ScheduleApart

\* A client or a backend asks for a state.
LEMMA PowerApart ==
    \A o \in Outputs : IInv /\ ApartInv /\ (SetPower(o) \/ RequestState(o)) => ApartInv'
<1> SUFFICES ASSUME NEW o \in Outputs, IInv, ApartInv, SetPower(o) \/ RequestState(o)
             PROVE  ApartInv'
  OBVIOUS
<1>1. o \in Live /\ scheduled[o] \in OutputState
  BY DEF SetPower, RequestState, IInv, TypeOK
<1>2. CASE SetPower(o)
  <2> DEFINE to == [p \in {o} |->
               [scheduled[o] EXCEPT !.st = IF @ = "Enabled" THEN "DisabledSoft" ELSE "Enabled"]]
  <2>1. scheduled[o].st \in {"Enabled", "DisabledSoft"} /\ ScheduleAndDirty({o}, to)
    BY <1>2 DEF SetPower
  <2>2. \A p \in {o} : to[p].st \in {"Enabled", "DisabledSoft"} => to[p].mode # NoMode
    BY <1>1, <2>1 DEF OutputState, ApartInv, ModeInv, HasMode
  <2> QED
    BY <1>1, <2>1, <2>2, ScheduleAndDirtyApart
<1>3. CASE RequestState(o)
  <2>1. PICK m \in Modes :
          ScheduleAndDirty({o}, [p \in {o} |-> [scheduled[o] EXCEPT !.mode = m]])
    BY <1>3 DEF RequestState
  <2> DEFINE to == [p \in {o} |-> [scheduled[o] EXCEPT !.mode = m]]
  <2>2. \A p \in {o} : to[p].st \in {"Enabled", "DisabledSoft"} => to[p].mode # NoMode
    BY <1>1, OutputsAssumption DEF OutputState
  <2> QED
    BY <1>1, <2>1, <2>2, ScheduleAndDirtyApart
<1> QED
  BY <1>2, <1>3

\* The displays are turned on or off.
LEMMA SetDisplaysApart == IInv /\ ApartInv /\ SetDisplays => ApartInv'
<1> SUFFICES ASSUME IInv, ApartInv, SetDisplays PROVE ApartInv'
  OBVIOUS
<1> DEFINE bright == {o \in Live : scheduled[o].st = "Enabled"}
           dark   == {o \in Live : scheduled[o].st = "DisabledSoft"}
<1>1. \A o \in Live : scheduled[o] \in OutputState
  BY DEF IInv, TypeOK, Live
<1>2. \A o \in bright \cup dark : scheduled[o].mode # NoMode
  BY DEF ApartInv, ModeInv, HasMode
<1>3. CASE ScheduleAndDirty(bright, [o \in bright |-> [scheduled[o] EXCEPT !.st = "DisabledSoft"]])
  <2>1. \A o \in bright : [scheduled[o] EXCEPT !.st = "DisabledSoft"].mode # NoMode
    BY <1>1, <1>2 DEF OutputState
  <2>2. bright \in SUBSET Live
    OBVIOUS
  <2> QED
    BY <1>3, <2>1, <2>2, ScheduleAndDirtyApart
<1>4. ASSUME NEW D \in (SUBSET dark) \ {{}},
             ScheduleAndDirty(D, [o \in D |-> [scheduled[o] EXCEPT !.st = "Enabled"]])
      PROVE  ApartInv'
  <2>1. \A o \in D : [scheduled[o] EXCEPT !.st = "Enabled"].mode # NoMode
    BY <1>1, <1>2 DEF OutputState
  <2>2. D \in SUBSET Live
    OBVIOUS
  <2> QED
    BY <1>4, <2>1, <2>2, ScheduleAndDirtyApart
<1> QED
  BY <1>3, <1>4 DEF SetDisplays

\* An output appears.
LEMMA PlugApart == \A o \in Outputs : IInv /\ ApartInv /\ Plug(o) => ApartInv'
<1> SUFFICES ASSUME NEW o \in Outputs, IInv, ApartInv, Plug(o) PROVE ApartInv'
  OBVIOUS
<1>1. PICK m \in Modes : scheduled' = [scheduled EXCEPT ![o] = [st |-> "Enabled", mode |-> m]]
  BY DEF Plug
<1>2. manage' = TRUE /\ phase' = phase /\ store[o] = "none"
  BY DEF Plug, DirtyWindowing, P!Want
<1>3. /\ Live' = Live \cup {o} /\ o \notin Live
      /\ \A p \in Live : scheduled'[p] = scheduled[p] /\ sent'[p] = sent[p] /\ current'[p] = current[p]
      /\ scheduled'[o].mode # NoMode /\ sent'[o] = Initial /\ current'[o] = Initial
  BY <1>1, <1>2, OutputsAssumption DEF Plug, IInv, TypeOK, Live
<1>4. AnswerInv'
  BY <1>2, <1>3 DEF Plug, ApartInv, AnswerInv, Follows
<1>5. HasMode(scheduled)' /\ HasMode(sent)' /\ HasMode(current)'
  BY <1>3 DEF HasMode, ApartInv, ModeInv, Initial
<1>6. \A p \in Outputs : store'[p] = "gone" =>
         store[p] = "gone" /\ scheduled'[p].st = "Destroying" /\ manage'
  BY <1>1, <1>2 DEF Plug, IInv, TypeOK, ApartInv, ModeInv
<1>7. ModeInv'
  BY <1>2, <1>5, <1>6 DEF ApartInv, ModeInv
<1> QED
  BY <1>4, <1>7 DEF Plug, ApartInv, AssertionsHold

\* An output goes.
LEMMA UnplugApart == \A o \in Outputs : IInv /\ ApartInv /\ Unplug(o) => ApartInv'
<1> SUFFICES ASSUME NEW o \in Outputs, IInv, ApartInv, Unplug(o) PROVE ApartInv'
  OBVIOUS
<1>1. manage' = TRUE /\ phase' = phase /\ (Overlap \/ phase = "Idle")
  BY DEF Unplug, DirtyWindowing, P!Want
<1>2. /\ Live' = Live \ {o}
      /\ \A p \in Live' : scheduled'[p] = scheduled[p] /\ sent'[p] = sent[p] /\ current'[p] = current[p]
  BY DEF Unplug, IInv, TypeOK, Live
<1>3. Follows(asked, scheduled) /\ Follows(answering, sent)
  BY DEF ApartInv, AnswerInv
<1>4. asked' = Without(asked, {o}) /\ answering' = Without(answering, {o})
  BY DEF Unplug
<1>5. /\ asked' # None =>
            \A p \in DOMAIN asked' : p \notin {o} /\ p \in Live /\ asked'[p] = scheduled[p]
      /\ asked = None => asked' = None
  BY <1>3, <1>4, WithoutFollows
<1>6. answering' # None =>
         \A p \in DOMAIN answering' : p \notin {o} /\ p \in Live /\ answering'[p] = sent[p]
  BY <1>3, <1>4, WithoutFollows
<1>7. Follows(asked, scheduled)' /\ Follows(answering, sent)'
  BY <1>2, <1>5, <1>6 DEF Follows
<1>8. AnswerInv'
  BY <1>1, <1>5, <1>7 DEF ApartInv, AnswerInv
<1>9. HasMode(scheduled)' /\ HasMode(sent)' /\ HasMode(current)'
  BY <1>2 DEF HasMode, ApartInv, ModeInv
<1>10. \A p \in Outputs : store'[p] = "gone" => scheduled'[p].st = "Destroying" /\ manage'
  BY <1>1 DEF Unplug, IInv, TypeOK, ApartInv, ModeInv
<1>11. ModeInv'
  BY <1>1, <1>9, <1>10 DEF ModeInv
<1> QED
  BY <1>8, <1>11 DEF Unplug, ApartInv, AssertionsHold

\* What a pass hands to commit_output_state, beside PassInv.
ApartPass(lst, st, to, config) ==
    /\ \A o \in Outputs : st[o] = "live" =>
          /\ to.scheduled[o].st \in {"Enabled", "DisabledSoft"} => to.scheduled[o].mode # NoMode
          /\ to.sent[o].st \in {"Enabled", "DisabledSoft"} => to.sent[o].mode # NoMode
          /\ to.current[o].st \in {"Enabled", "DisabledSoft"} => to.current[o].mode # NoMode
    /\ \A o \in Outputs : st[o] = "gone" => to.scheduled[o].st = "Destroying"
    /\ config # None => \A o \in DOMAIN config : o \in Outputs /\ st[o] = "live" /\ config[o] = to.sent[o]

\* Of what follows such a pass only a first modeset that fails is a stop.
LEMMA ApartCases ==
    ASSUME NEW lst, NEW st, NEW to, NEW taken \in BOOLEAN, NEW config, NEW ACTION others, NEW again,
           PassInv(lst, st, to, again), ApartPass(lst, st, to, config),
           CommitOutputState(lst, st, to, taken, config, others)
    PROVE  \/ Stop("no first modeset")
           \/ /\ IF taken THEN Committed({o \in lst : st[o] = "live"}, lst, to)
                          ELSE Fails /\ ModesetFailed(lst, to, config)
              /\ store' = st /\ others /\ UNCHANGED failed
<1>1. \A o \in lst : o \in Outputs /\ to.sent[o] \in Committable
  BY DEF PassInv
<1>2. ~\E o \in lst : to.sent[o].st = "Destroying"
  BY <1>1 DEF Committable
<1>3. ~\E o \in {o \in lst : st[o] = "live"} :
          to.sent[o].mode = NoMode /\ to.sent[o].st # "DisabledHard"
  BY <1>1 DEF Committable, OutputState, StateValue, ApartPass
<1> QED
  BY <1>2, <1>3 DEF CommitOutputState

\* The assertion that stops the compositor is not reached.
LEMMA StopApart == ApartInv /\ Stop("no first modeset") => ApartInv'
<1> SUFFICES ASSUME ApartInv, Stop("no first modeset") PROVE ApartInv'
  OBVIOUS
<1>1. /\ UNCHANGED <<phase, manage, store, scheduled, sent, current, asked, answering>>
      /\ Live' = Live
  BY DEF Stop, Live
<1>2. AnswerInv'
  BY <1>1 DEF ApartInv, AnswerInv, Follows
<1>3. ModeInv'
  BY <1>1 DEF ApartInv, ModeInv, HasMode
<1>4. AssertionsHold'
  BY DEF Stop, AssertionsHold
<1> QED
  BY <1>2, <1>3, <1>4 DEF ApartInv

\* The hardware took what was sent.
LEMMA CommittedApart ==
    ASSUME NEW lst, NEW st, NEW to, NEW again, NEW config, ApartInv,
           PassInv(lst, st, to, again), ApartPass(lst, st, to, config), PassEnds(st, again),
           Committed({o \in lst : st[o] = "live"}, lst, to), UNCHANGED failed,
           Follows(asked, scheduled)', asked' # None => again,
           (\E o \in Outputs : st[o] = "gone") => again
    PROVE  ApartInv'
<1>1. /\ scheduled' = to.scheduled /\ sent' = to.sent /\ answering' = None
      /\ current' = [o \in Outputs |-> IF o \in {p \in lst : st[p] = "live"}
                                       THEN to.sent[o] ELSE to.current[o]]
  BY DEF Committed
<1>2. Live' = {o \in Outputs : st[o] = "live"} /\ phase' = "Idle" /\ manage' = again
  BY DEF Live, PassEnds
<1>3. AnswerInv'
  BY <1>1, <1>2 DEF AnswerInv, Follows
<1>4. HasMode(scheduled)' /\ HasMode(sent)' /\ HasMode(current)'
  BY <1>1, <1>2 DEF HasMode, ApartPass
<1>5. ModeInv'
  BY <1>1, <1>2, <1>4 DEF ModeInv, ApartPass, PassEnds
<1> QED
  BY <1>3, <1>5 DEF ApartInv, AssertionsHold

\* The hardware refused it, and the states before it are scheduled again.
LEMMA ModesetFailedApart ==
    ASSUME NEW lst, NEW st, NEW to, NEW again, NEW config, ApartInv,
           PassInv(lst, st, to, again), ApartPass(lst, st, to, config), PassEnds(st, TRUE),
           ModesetFailed(lst, to, config), UNCHANGED failed,
           asked' = None, \A o \in Outputs : st[o] # "gone"
    PROVE  ApartInv'
<1>1. /\ scheduled' = [o \in Outputs |-> IF o \in lst THEN current[o] ELSE to.scheduled[o]]
      /\ sent' = [o \in Outputs |-> IF o \in lst THEN current[o] ELSE to.sent[o]]
      /\ answering' = None /\ current' = to.current
  BY DEF ModesetFailed
<1>2. Live' = {o \in Outputs : st[o] = "live"} /\ phase' = "Idle" /\ manage' = TRUE
  BY DEF Live, PassEnds
<1>3. \A o \in lst : current[o] = to.current[o]
  BY DEF PassInv
<1>4. AnswerInv'
  BY <1>1, <1>2 DEF AnswerInv, Follows
<1>5. HasMode(scheduled)' /\ HasMode(sent)' /\ HasMode(current)'
  BY <1>1, <1>2, <1>3 DEF HasMode, ApartPass
<1>6. ModeInv'
  BY <1>2, <1>5 DEF ModeInv, PassEnds
<1> QED
  BY <1>4, <1>6 DEF ApartInv, AssertionsHold

\* The states that a manage pass takes over.
LEMMA TakenApart ==
    ASSUME IInv, ApartInv
    PROVE  /\ ~ModeMissing
           /\ ApartPass(Relisted, Kept, TakenStates, asked)
           /\ \A o \in Outputs : Kept[o] # "gone"
<1>1. ~ModeMissing
  BY DEF ModeMissing, IInv, TypeOK, ApartInv, ModeInv, HasMode, Live
<1>2. \A o \in Outputs :
         /\ Kept[o] = "live" => store[o] = "live"
         /\ store[o] = "live" => Kept[o] = "live"
         /\ Kept[o] # "gone"
  BY DEF Kept, Destroyed, IInv, TypeOK, DyingIsGone, ApartInv, ModeInv
<1>3. \A o \in Outputs : Kept[o] = "live" =>
         /\ TakenStates.scheduled[o] = scheduled[o]
         /\ TakenStates.sent[o] = scheduled[o]
         /\ TakenStates.current[o] = current[o]
  BY DEF TakenStates, Taken, Remembered
<1> QED
  BY <1>1, <1>2, <1>3 DEF ApartPass, ApartInv, AnswerInv, ModeInv, HasMode, Follows, Live

\* A pass begins.
LEMMA BeginPassApart == IInv /\ ApartInv /\ BeginPass => ApartInv'
<1> SUFFICES ASSUME IInv, ApartInv, BeginPass PROVE ApartInv'
  OBVIOUS
<1>1. ~ModeMissing
  BY TakenApart
<1>2. ApartPass(Relisted, Kept, TakenStates, asked) /\ \A o \in Outputs : Kept[o] # "gone"
  BY TakenApart
<1>3. /\ sent' = TakenStates.sent /\ scheduled' = TakenStates.scheduled
      /\ current' = TakenStates.current /\ store' = Kept
      /\ answering' = asked /\ asked' = None /\ UNCHANGED failed
  BY <1>1 DEF BeginPass, TakenStates
<1>4. Live' = {o \in Outputs : Kept[o] = "live"}
  BY <1>3 DEF Live
<1>5. AnswerInv'
  BY <1>2, <1>3, <1>4 DEF AnswerInv, Follows, ApartPass
<1>6. HasMode(scheduled)' /\ HasMode(sent)' /\ HasMode(current)'
  BY <1>2, <1>3, <1>4 DEF HasMode, ApartPass
<1>7. ModeInv'
  BY <1>2, <1>3, <1>6 DEF ModeInv
<1> QED
  BY <1>3, <1>5, <1>7 DEF ApartInv, AssertionsHold

\* A pass that waits for no window begins and ends at once.
LEMMA WholePassApart ==
    \A taken \in BOOLEAN : IInv /\ ApartInv /\ WholePass(taken) => ApartInv'
<1> SUFFICES ASSUME NEW taken \in BOOLEAN, IInv, ApartInv, WholePass(taken) PROVE ApartInv'
  OBVIOUS
<1> DEFINE others == (IF taken THEN P!Pass ELSE P!Want) /\ asked' = None
<1>1. /\ phase = "Idle"
      /\ CommitOutputState(Relisted, Kept, TakenStates, taken, asked, others)
  BY TakenApart DEF WholePass
<1>2. others => phase' = "Idle" /\ manage' = ~taken /\ asked' = None
  BY <1>1 DEF P!Pass, P!Want
<1>3. /\ ApartPass(Relisted, Kept, TakenStates, asked)
      /\ \A o \in Outputs : Kept[o] # "gone"
      /\ PassInv(Relisted, Kept, TakenStates, ~taken)
  BY TakenApart, TakenInv
<1> HIDE DEF others
<1>4. CASE Stop("no first modeset")
  BY <1>4, StopApart
<1>5. CASE /\ IF taken THEN Committed({o \in Relisted : Kept[o] = "live"}, Relisted, TakenStates)
                       ELSE Fails /\ ModesetFailed(Relisted, TakenStates, asked)
           /\ store' = Kept /\ others /\ UNCHANGED failed
  <2>1. PassEnds(Kept, ~taken) /\ asked' = None
    BY <1>2, <1>5 DEF PassEnds
  <2>2. CASE taken
    <3>1. Follows(asked, scheduled)'
      BY <2>1 DEF Follows
    <3> QED
      BY <1>3, <1>5, <2>1, <2>2, <3>1, CommittedApart
  <2>3. CASE ~taken
    <3>1. PassEnds(Kept, TRUE)
      BY <2>1, <2>3
    <3> QED
      BY <1>3, <1>5, <2>1, <2>3, <3>1, ModesetFailedApart
  <2> QED
    BY <2>2, <2>3
<1>6. \/ Stop("no first modeset")
      \/ /\ IF taken THEN Committed({o \in Relisted : Kept[o] = "live"}, Relisted, TakenStates)
                     ELSE Fails /\ ModesetFailed(Relisted, TakenStates, asked)
         /\ store' = Kept /\ others /\ UNCHANGED failed
  BY <1>1, <1>3, ApartCases
<1> QED
  BY <1>4, <1>5, <1>6

\* The states that a render pass finds.
LEMMA FoundApart ==
    ASSUME IInv, ApartInv
    PROVE  ApartPass(listed, store, States, answering)
<1>1. States.scheduled = scheduled /\ States.sent = sent /\ States.current = current
  BY DEF States
<1> QED
  BY <1>1 DEF ApartPass, ApartInv, AnswerInv, ModeInv, HasMode, Follows, Live

\* The end of a render pass, where the backend refuses nothing or nothing
\* happens while a pass waits.
LEMMA RenderEndsApart ==
    ASSUME ~(Fails /\ Overlap), IInv, ApartInv, NEW taken \in BOOLEAN, NEW ACTION others,
           CommitOutputState(listed, store, States, taken, answering, others),
           others => /\ phase' = "Idle" /\ manage' = (manage \/ ~taken) /\ UNCHANGED asked,
           phase = "Inflight" \/ ~manage
    PROVE  ApartInv'
<1>1. PassInv(listed, store, States, manage) /\ ApartPass(listed, store, States, answering)
  BY FoundInv, FoundApart
<1>2. CASE Stop("no first modeset")
  BY <1>2, StopApart
<1>3. CASE /\ IF taken THEN Committed({o \in listed : store[o] = "live"}, listed, States)
                       ELSE Fails /\ ModesetFailed(listed, States, answering)
           /\ store' = store /\ others /\ UNCHANGED failed
  <2>1. asked' = None \/ asked' \in Configs
    BY <1>3 DEF IInv, TypeOK
  <2>2. CASE taken
    <3>1. PassEnds(store, manage)
      BY <1>3, <2>1, <2>2 DEF PassEnds, IInv, TypeOK
    <3>2. scheduled' = scheduled /\ Live' = Live
      BY <1>3, <2>2 DEF Committed, States, Live
    <3>3. Follows(asked, scheduled)' /\ (asked' # None => manage)
      BY <1>3, <3>2 DEF ApartInv, AnswerInv, Follows
    <3>4. (\E o \in Outputs : store[o] = "gone") => manage
      BY DEF ApartInv, ModeInv
    <3> QED
      BY <1>1, <1>3, <2>2, <3>1, <3>3, <3>4, CommittedApart
  <2>3. CASE ~taken
    <3>1. ~Overlap
      BY <1>3, <2>3
    <3>2. asked' = None /\ \A o \in Outputs : store[o] # "gone"
      BY <1>3, <3>1 DEF ApartInv, AnswerInv, ModeInv
    <3>3. PassEnds(store, TRUE)
      BY <1>3, <2>1, <2>3 DEF PassEnds, IInv, TypeOK
    <3> QED
      BY <1>1, <1>3, <2>3, <3>2, <3>3, ModesetFailedApart
  <2> QED
    BY <2>2, <2>3
<1>4. \/ Stop("no first modeset")
      \/ /\ IF taken THEN Committed({o \in listed : store[o] = "live"}, listed, States)
                     ELSE Fails /\ ModesetFailed(listed, States, answering)
         /\ store' = store /\ others /\ UNCHANGED failed
  BY <1>1, ApartCases
<1> QED
  BY <1>2, <1>3, <1>4

\* A pass that was in flight ends.
LEMMA EndPassApart ==
    ASSUME ~(Fails /\ Overlap)
    PROVE  \A taken \in BOOLEAN :
              IInv /\ ApartInv /\ (RenderPass(taken) \/ FinishPass(taken)) => ApartInv'
<1> SUFFICES ASSUME NEW taken \in BOOLEAN, IInv, ApartInv, RenderPass(taken) \/ FinishPass(taken)
             PROVE  ApartInv'
  OBVIOUS
<1>1. CASE RenderPass(taken)
  <2> DEFINE others == (IF taken THEN UNCHANGED passVars ELSE P!Want) /\ UNCHANGED asked
  <2>1. CommitOutputState(listed, store, States, taken, answering, others) /\ ~manage
    BY <1>1 DEF RenderPass
  <2>2. others => /\ phase' = "Idle" /\ manage' = (manage \/ ~taken) /\ UNCHANGED asked
    BY <1>1 DEF RenderPass, passVars, P!Want, IInv, TypeOK
  <2> HIDE DEF others
  <2> QED
    BY <2>1, <2>2, RenderEndsApart
<1>2. CASE FinishPass(taken)
  <2> DEFINE others == P!Finish /\ manage' = (manage \/ ~taken) /\ UNCHANGED asked
  <2>1. CommitOutputState(listed, store, States, taken, answering, others) /\ phase = "Inflight"
    BY <1>2 DEF FinishPass
  <2>2. others => /\ phase' = "Idle" /\ manage' = (manage \/ ~taken) /\ UNCHANGED asked
    BY DEF P!Finish
  <2> HIDE DEF others
  <2> QED
    BY <2>1, <2>2, RenderEndsApart
<1> QED
  BY <1>1, <1>2

\* Every step keeps it.
LEMMA ApartStep ==
    ASSUME ~(Fails /\ Overlap)
    PROVE  IInv /\ ApartInv /\ [Next]_vars => ApartInv'
<1> SUFFICES ASSUME IInv, ApartInv, [Next]_vars PROVE ApartInv'
  OBVIOUS
<1>1. CASE UNCHANGED vars \/ LayoutChanged
  <2>1. /\ UNCHANGED <<phase, store, scheduled, sent, current, asked, answering, failed>>
        /\ manage' = manage \/ manage' = TRUE
        /\ Live' = Live
    BY <1>1 DEF vars, LayoutChanged, P!Want, Live
  <2>2. AnswerInv'
    BY <2>1 DEF ApartInv, AnswerInv, Follows
  <2>3. ModeInv'
    BY <2>1 DEF ApartInv, ModeInv, HasMode
  <2> QED
    BY <2>1, <2>2, <2>3 DEF ApartInv, AssertionsHold
<1>2. CASE Apply \/ SetDisplays
  BY <1>2, ApplyApart, SetDisplaysApart
<1>3. CASE \E o \in Outputs : SetPower(o) \/ RequestState(o) \/ Plug(o) \/ Unplug(o)
  BY <1>3, PowerApart, PlugApart, UnplugApart
<1>4. CASE BeginPass \/ \E taken \in BOOLEAN : WholePass(taken)
  BY <1>4, BeginPassApart, WholePassApart
<1>5. CASE \E taken \in BOOLEAN : RenderPass(taken) \/ FinishPass(taken)
  BY <1>5, EndPassApart
<1> QED
  BY <1>1, <1>2, <1>3, <1>4, <1>5 DEF Next

\* No output is there yet.
LEMMA InitApart == Init => ApartInv
BY DEF Init, P!Init, ApartInv, AnswerInv, ModeInv, AssertionsHold, Follows, HasMode, Live

\* So both hold in every state, unless modesets fail while passes overlap.
LEMMA ApartInductive ==
    ASSUME ~(Fails /\ Overlap)
    PROVE  Spec => [](IInv /\ ApartInv)
<1>1. IInv /\ ApartInv /\ [Next]_vars => (IInv /\ ApartInv)'
  BY ApartStep, NextStep
<1> QED
  BY <1>1, InitApart, InitIInv, PTL DEF Spec

\* No assertion of the output handlers fails where the backend refuses nothing,
\* or nothing happens to outputs while a pass waits: on any number of outputs,
\* whatever clients and the idle manager configure, darken and light.
THEOREM NoAssertionFails ==
    ASSUME ~(Fails /\ Overlap)
    PROVE  Spec => []AssertionsHold
<1>1. IInv /\ ApartInv => AssertionsHold
  BY DEF ApartInv
<1> QED
  BY <1>1, ApartInductive, PTL

\* A pass that is accepted puts on the screen what the configuration it answers
\* asks for.
LEMMA ShownStep ==
    ASSUME IInv, ApartInv, failed' = "none"
    PROVE  /\ WholePass(TRUE) /\ asked # None => Shows(asked)
           /\ FinishPass(TRUE) /\ answering # None => Shows(answering)
<1>1. ASSUME WholePass(TRUE), asked # None PROVE Shows(asked)
  <2> DEFINE W == {o \in Relisted : Kept[o] = "live"}
  <2>1. /\ on' = [o \in Outputs |-> IF o \in W THEN TakenStates.sent[o].st = "Enabled" ELSE on[o]]
        /\ shown' = [o \in Outputs |-> IF o \in W /\ TakenStates.sent[o].st = "Enabled"
                                       THEN TakenStates.sent[o].mode ELSE shown[o]]
    BY <1>1 DEF WholePass, Stop, CommitOutputState, Committed
  <2>2. ApartPass(Relisted, Kept, TakenStates, asked) /\ PassInv(Relisted, Kept, TakenStates, TRUE)
    BY TakenApart, TakenInv
  <2> HIDE DEF W
  <2>3. ASSUME NEW o \in DOMAIN asked
        PROVE  /\ on'[o] = (asked[o].st = "Enabled")
               /\ on'[o] => shown'[o] = asked[o].mode
    <3>1. o \in Outputs /\ Kept[o] = "live" /\ asked[o] = TakenStates.sent[o]
      BY <1>1, <2>2, <2>3 DEF ApartPass
    <3>2. CASE o \in Relisted
      BY <2>1, <3>1, <3>2 DEF W
    <3>3. CASE o \notin Relisted
      <4>1. ~on[o] /\ on[o] \in BOOLEAN /\ asked[o].st = "DisabledHard" /\ o \notin W
        BY <2>2, <3>1, <3>3 DEF PassInv, W
      <4> QED
        BY <2>1, <3>1, <4>1
    <3> QED
      BY <3>2, <3>3
  <2> QED
    BY <2>3 DEF Shows
<1>2. ASSUME FinishPass(TRUE), answering # None PROVE Shows(answering)
  <2> DEFINE W == {o \in listed : store[o] = "live"}
  <2>1. /\ on' = [o \in Outputs |-> IF o \in W THEN sent[o].st = "Enabled" ELSE on[o]]
        /\ shown' = [o \in Outputs |-> IF o \in W /\ sent[o].st = "Enabled"
                                       THEN sent[o].mode ELSE shown[o]]
    BY <1>2 DEF FinishPass, Stop, CommitOutputState, Committed, States
  <2> HIDE DEF W
  <2>2. ASSUME NEW o \in DOMAIN answering
        PROVE  /\ on'[o] = (answering[o].st = "Enabled")
               /\ on'[o] => shown'[o] = answering[o].mode
    <3>1. o \in Live /\ o \in Outputs /\ answering[o] = sent[o]
      BY <1>2, <2>2 DEF ApartInv, AnswerInv, Follows, Live
    <3>2. CASE o \in listed
      BY <2>1, <3>1, <3>2 DEF W, Live
    <3>3. CASE o \notin listed
      <4>1. ~on[o] /\ on[o] \in BOOLEAN /\ sent[o].st = "DisabledHard" /\ o \notin W
        BY <3>1, <3>3 DEF IInv, TypeOK, UnlistedIsHard, LitIsListed, W
      <4> QED
        BY <2>1, <3>1, <4>1
    <3> QED
      BY <3>2, <3>3
  <2> QED
    BY <2>2 DEF Shows
<1> QED
  BY <1>1, <1>2

\* Under the same condition a client is told that its configuration succeeded
\* only when the hardware does what it asked, for every output of it that
\* nobody has set anew meanwhile.
THEOREM SuccessIsShown ==
    ASSUME ~(Fails /\ Overlap)
    PROVE  Spec => SucceededIsShown
<1> DEFINE Step == failed' = "none" =>
         /\ WholePass(TRUE) /\ asked # None => Shows(asked)
         /\ FinishPass(TRUE) /\ answering # None => Shows(answering)
<1>1. IInv /\ ApartInv => Step
  BY ShownStep
<1>2. SucceededIsShown <=> [][Step]_vars
  BY PTL DEF SucceededIsShown
<1> QED
  BY <1>1, <1>2, ApartInductive, PTL
=============================================================================

------------------------------ MODULE IdlePlan ------------------------------
(***************************************************************************)
(* Which idle timeouts are in force (src/server/idle.rs): the ones of the  *)
(* configuration, or those of the power plan, whose files another process  *)
(* writes to a directory that may come and go.  The manager watches that   *)
(* directory while it exists and looks for it once a second while not.     *)
(*                                                                         *)
(* The two files are one value here, replaced in one step, and a change of *)
(* their time stamps is a change of that value.                            *)
(***************************************************************************)
CONSTANTS
    Timeouts,       \* pairs of timeouts
    Absent          \* no plan file

VARIABLES
    config,         \* cfg_display_off_ms and cfg_sleep_ms
    planFile,       \* what the plan files say
    dirThere,       \* the directory of the plan exists
    planRead,       \* plan_display_off_ms and plan_sleep_ms, as last read
    watching,       \* "none", or how changes are noticed: "watch" or "poll"
    unread,         \* inotify has a change to report
    dirGone,        \* the watched directory went away; inotify says so
    pollStep,       \* where handle_plan_poll is
    everRead        \* the files were looked at once

vars == <<config, planFile, dirThere, planRead, watching, unread, dirGone,
          pollStep, everRead>>

Init ==
    /\ config \in Timeouts
    /\ dirThere \in BOOLEAN
    /\ planFile \in IF dirThere THEN Timeouts \cup {Absent} ELSE {Absent}
    /\ planRead = Absent
    /\ watching = "none"
    /\ unread = FALSE
    /\ dirGone = FALSE
    /\ pollStep = "idle"
    /\ everRead = FALSE

\* refresh_effective.
InForce == IF planRead = Absent THEN config ELSE planRead

\* poll_plan.
PollPlan == planRead' = planFile /\ everRead' = TRUE

\* init: watch the directory, or poll for it.  The files are not read yet.
Start ==
    /\ watching = "none"
    /\ watching' = IF dirThere THEN "watch" ELSE "poll"
    /\ UNCHANGED <<config, planFile, dirThere, planRead, unread, dirGone, pollStep, everRead>>

\* configure: the base the plan lifts to.
Configure(c) ==
    /\ config' = c
    /\ UNCHANGED <<planFile, dirThere, planRead, watching, unread, dirGone, pollStep, everRead>>

\* Mutant: a directory that went away is watched on.
HandleInotifyKeepsWatch ==
    /\ watching = "watch" /\ pollStep = "idle"
    /\ unread
    /\ unread' = FALSE
    /\ PollPlan
    /\ UNCHANGED <<config, planFile, dirThere, watching, dirGone, pollStep>>

\* handle_plan_inotify.
HandleInotify ==
    /\ watching = "watch" /\ pollStep = "idle"
    /\ unread
    /\ watching' = IF dirGone THEN "poll" ELSE "watch"
    /\ unread' = FALSE
    /\ dirGone' = FALSE
    /\ PollPlan
    /\ UNCHANGED <<config, planFile, dirThere, pollStep>>

\* handle_plan_poll looks, tries to watch, and looks again.  The writer of the
\* files does not wait for it.
PollLooks ==
    /\ watching = "poll" /\ pollStep = "idle"
    /\ PollPlan
    /\ pollStep' = "looked"
    /\ UNCHANGED <<config, planFile, dirThere, watching, unread, dirGone>>

PollWatches ==
    /\ pollStep = "looked"
    /\ watching' = IF dirThere THEN "watch" ELSE "poll"
    /\ pollStep' = IF dirThere THEN "watched" ELSE "idle"
    /\ UNCHANGED <<config, planFile, dirThere, planRead, unread, dirGone, everRead>>

\* Mutant: what changed before the watch began is missed.
PollTrusts ==
    /\ pollStep = "watched"
    /\ pollStep' = "idle"
    /\ UNCHANGED <<config, planFile, dirThere, planRead, watching, unread, dirGone, everRead>>

PollLooksAgain ==
    /\ pollStep = "watched"
    /\ PollPlan
    /\ pollStep' = "idle"
    /\ UNCHANGED <<config, planFile, dirThere, watching, unread, dirGone>>

\* The other process.  inotify reports a change of the directory it watches,
\* not of one that took its place.
Watched == watching = "watch" /\ ~dirGone

WritePlan(p) ==
    /\ dirThere
    /\ planFile' = p
    /\ unread' = (unread \/ Watched)
    /\ UNCHANGED <<config, dirThere, planRead, watching, dirGone, pollStep, everRead>>

MakeDir ==
    /\ ~dirThere
    /\ dirThere' = TRUE
    /\ UNCHANGED <<config, planFile, planRead, watching, unread, dirGone, pollStep, everRead>>

RemoveDir ==
    /\ dirThere
    /\ dirThere' = FALSE
    /\ planFile' = Absent
    /\ dirGone' = (watching = "watch")
    /\ unread' = (unread \/ Watched)
    /\ UNCHANGED <<config, planRead, watching, pollStep, everRead>>

Next ==
    \/ Start
    \/ \E c \in Timeouts : Configure(c)
    \/ HandleInotify
    \/ PollLooks
    \/ PollWatches
    \/ PollLooksAgain
    \/ \E p \in Timeouts \cup {Absent} : WritePlan(p)
    \/ MakeDir
    \/ RemoveDir

\* The manager starts, its timer fires and its inotify descriptor is served.
Fairness ==
    /\ WF_vars(Start)
    /\ WF_vars(HandleInotify)
    /\ WF_vars(PollLooks)
    /\ WF_vars(PollWatches)
    /\ WF_vars(PollLooksAgain)

Spec == Init /\ [][Next]_vars /\ Fairness

-----------------------------------------------------------------------------
(* Properties.                                                             *)

Settled == watching = "watch" /\ ~unread /\ ~dirGone /\ pollStep = "idle"

\* Once the files were looked at, a watch with nothing to report means that the
\* plan in force is the plan on disk: no change falls between looking and
\* watching, and no directory that was replaced is watched on.
WatchMissesNothing == Settled /\ everRead => planRead = planFile

\* "The System Interface's Power plan can override either per power mode: its
\* applier writes [the files] on plug, unplug and boot" (the doc of idle.rs): with
\* nothing left to report, the plan that exists is in force.
PlanIsInForce ==
    Settled => InForce = IF planFile = Absent THEN config ELSE planFile

\* A plan that stays is in force in the end, wherever its directory went between.
PlanCatchesUp ==
    \A p \in Timeouts \cup {Absent} :
        <>[](planFile = p /\ everRead) => <>[](planRead = p)
=============================================================================

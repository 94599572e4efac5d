----------------------------- MODULE RestartApp -----------------------------
(***************************************************************************)
(* `ccectl restart-app` (window_manager/restart_app.rs, app_restart.rs):   *)
(* every window of an app's process is asked to close, its state is kept   *)
(* as an entry, and once the process has exited the app is started again   *)
(* and its windows take the entries back.  The caller is answered when     *)
(* that is done, or when it is given up.                                   *)
(*                                                                         *)
(* All processes run the same app: which of its entries a window takes is  *)
(* decided by titles, and here it is any of them.                          *)
(***************************************************************************)
EXTENDS Naturals, FiniteSets

CONSTANTS
    Processes,
    MaxWindows,     \* of a process
    Grace,          \* ticks a process has to exit (GRACE_MS)
    KillAfterTerm,  \* ticks from SIGTERM to SIGKILL (KILL_AFTER_TERM_MS)
    EntryLife       \* ticks an entry is kept (RESTART_ENTRY_TTL_NS)

VARIABLES
    proc,       \* of each process: "absent", "alive" or "exited"
    open,       \* how many windows it has
    restarts,   \* app_restarts
    entries,    \* restart_entries
    armed,      \* app_restart_timer
    due,        \* the timer has yet to fire in this tick
    callers,    \* processes whose restart somebody waits to hear of
    noTimer     \* a timer could not be made

vars == <<proc, open, restarts, entries, armed, due, callers, noTimer>>

Entry == [pid : Processes, n : 1..MaxWindows, left : 0..EntryLife]
Restart == [pid : Processes, force : BOOLEAN, age : 0..(Grace + KillAfterTerm + 1),
            termed : BOOLEAN, since : 0..(KillAfterTerm + 1), killed : BOOLEAN]

TypeOK ==
    /\ proc \in [Processes -> {"absent", "alive", "exited"}]
    /\ open \in [Processes -> 0..MaxWindows]
    /\ restarts \subseteq Restart
    /\ entries \subseteq Entry
    /\ {armed, due, noTimer} \subseteq BOOLEAN
    /\ callers \subseteq Processes

Init ==
    /\ proc = [p \in Processes |-> "absent"]
    /\ open = [p \in Processes |-> 0]
    /\ restarts = {} /\ entries = {} /\ callers = {}
    /\ armed = FALSE /\ due = FALSE /\ noTimer = FALSE

Pending == {r.pid : r \in restarts}
InDate(S) == {e \in S : e.left > 0}

-----------------------------------------------------------------------------
(* The processes.                                                          *)

\* The app is started: by the user, or by a restart's relaunch.  (Where nothing
\* of an old process is left, its name stands for the new one.)
Launch(p) ==
    /\ proc[p] # "alive"
    /\ p \notin Pending /\ \A e \in entries : e.pid # p
    /\ proc' = [proc EXCEPT ![p] = "alive"]
    /\ UNCHANGED <<open, restarts, entries, armed, due, callers, noTimer>>

\* A window is mapped; it takes an entry of the app if one is left
\* (Window::try_restore, take_restart_entry).
MapWindow(p) ==
    /\ proc[p] = "alive" /\ open[p] < MaxWindows
    /\ open' = [open EXCEPT ![p] = @ + 1]
    /\ IF InDate(entries) = {} THEN entries' = {}
       ELSE \E e \in InDate(entries) : entries' = InDate(entries) \ {e}
    /\ UNCHANGED <<proc, restarts, armed, due, callers, noTimer>>

CloseWindow(p) ==
    /\ proc[p] = "alive" /\ open[p] > 0
    /\ open' = [open EXCEPT ![p] = @ - 1]
    /\ UNCHANGED <<proc, restarts, entries, armed, due, callers, noTimer>>

\* A process exits: asked by its windows or a signal, or by itself.
Exit(p) ==
    /\ proc[p] = "alive"
    /\ proc' = [proc EXCEPT ![p] = "exited"]
    /\ open' = [open EXCEPT ![p] = 0]
    /\ UNCHANGED <<restarts, entries, armed, due, callers, noTimer>>

-----------------------------------------------------------------------------
\* keep_restart_entries.
Kept(p) == {e \in InDate(entries) : e.pid # p}
              \cup [pid : {p}, n : 1..open[p], left : {EntryLife}]

\* restart_app_command; a process that is restarting already is refused.  All its
\* windows are asked to close.  Without a timer every caller is told at once, and
\* the entries stay.
RestartCommand(p, force) ==
    /\ proc[p] = "alive" /\ open[p] > 0
    /\ p \notin Pending
    /\ entries' = Kept(p)
    /\ \/ /\ restarts' = restarts \cup
               {[pid |-> p, force |-> force, age |-> 0, termed |-> FALSE,
                 since |-> 0, killed |-> FALSE]}
          /\ callers' = callers \cup {p}
          /\ armed' = TRUE
          /\ UNCHANGED noTimer
       \/ /\ ~armed
          /\ noTimer' = TRUE /\ restarts' = {} /\ callers' = {}
          /\ UNCHANGED armed
    /\ UNCHANGED <<proc, open, due>>

-----------------------------------------------------------------------------
(* poll_app_restarts.                                                      *)

Exited == {r \in restarts : proc[r.pid] = "exited"}
Overdue(r) == ~r.termed /\ r.age >= Grace
GivenUp == {r \in restarts \ Exited : Overdue(r) /\ ~r.force}

\* A forced restart is signalled, first to end and then to die.
Signalled(r) ==
    CASE Overdue(r) -> [r EXCEPT !.termed = TRUE]
      [] r.termed /\ ~r.killed /\ r.since >= KillAfterTerm -> [r EXCEPT !.killed = TRUE]
      [] OTHER -> r

\* Mutant: the entries of a restart that is given up stay.
PollKeepsEntries ==
    /\ armed /\ due
    /\ due' = FALSE
    /\ restarts' = {Signalled(r) : r \in restarts \ (Exited \cup GivenUp)}
    /\ callers' = callers \ {r.pid : r \in Exited \cup GivenUp}
    /\ armed' = (restarts' # {})
    /\ UNCHANGED <<proc, open, entries, noTimer>>

\* Mutant: a process that has to be signalled is nobody's business any more.
PollForgets ==
    /\ armed /\ due
    /\ due' = FALSE
    /\ restarts' = {Signalled(r) : r \in restarts \ (Exited \cup {x \in restarts : Overdue(x)})}
    /\ entries' = {e \in entries : \A r \in GivenUp : e.pid # r.pid}
    /\ callers' = callers \ {r.pid : r \in Exited \cup GivenUp}
    /\ armed' = (restarts' # {})
    /\ UNCHANGED <<proc, open, noTimer>>

\* The apps whose process has exited are started again (or fail to be) and their
\* callers told; a restart that may not signal is given up, its entries with it.
PollAppRestarts ==
    /\ armed /\ due
    /\ due' = FALSE
    /\ restarts' = {Signalled(r) : r \in restarts \ (Exited \cup GivenUp)}
    /\ entries' = {e \in entries : \A r \in GivenUp : e.pid # r.pid}
    /\ callers' = callers \ {r.pid : r \in Exited \cup GivenUp}
    /\ armed' = (restarts' # {})
    /\ UNCHANGED <<proc, open, noTimer>>

\* Time passes once the timer had its turn (POLL_MS is short beside a tick) and
\* a process that was killed is gone.
Tick ==
    /\ ~(armed /\ due)
    /\ \A r \in restarts : r.killed => proc[r.pid] = "exited"
    /\ restarts # {} \/ entries # {}
    /\ restarts' = {[r EXCEPT !.age = @ + 1, !.since = IF r.termed THEN @ + 1 ELSE 0]
                      : r \in restarts}
    /\ entries' = {[e EXCEPT !.left = IF @ > 0 THEN @ - 1 ELSE 0] : e \in entries}
    /\ due' = TRUE
    /\ UNCHANGED <<proc, open, armed, callers, noTimer>>

Next ==
    \/ \E p \in Processes : Launch(p) \/ MapWindow(p) \/ CloseWindow(p) \/ Exit(p)
    \/ \E p \in Processes, force \in BOOLEAN : RestartCommand(p, force)
    \/ PollAppRestarts
    \/ Tick

\* Time passes, the timer fires, and SIGKILL kills.
Fairness ==
    /\ WF_vars(Tick)
    /\ WF_vars(PollAppRestarts)
    /\ \A p \in Processes : WF_vars(Exit(p) /\ \E r \in restarts : r.pid = p /\ r.killed)

Spec == Init /\ [][Next]_vars /\ Fairness

-----------------------------------------------------------------------------
(* Properties.                                                             *)

\* An entry is kept for a process that is being restarted or is gone: the windows
\* of a process that stays ("a save prompt kept them") leave none that a new
\* window would be placed by.
NoEntryForWindowsThatStay ==
    noTimer \/ \A e \in entries : e.pid \in Pending \/ proc[e.pid] = "exited"

\* Whoever asked for a restart is told of it before the socket thread gives up
\* waiting (ipc_server.rs: grace, SIGTERM to SIGKILL, and a margin), and a restart
\* somebody waits for is still looked after.
CallersAreServed ==
    /\ callers = Pending
    /\ restarts # {} => armed
    /\ \A r \in restarts :
          r.age <= IF r.force THEN Grace + KillAfterTerm + 1 ELSE Grace

\* Every restart ends, and its caller has heard.
RestartEnds == \A p \in Processes : p \in callers ~> p \notin callers
=============================================================================

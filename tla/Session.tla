------------------------------ MODULE Session -------------------------------
(***************************************************************************)
(* The session file and the clean exit (window_manager/session.rs): saving *)
(* the windows, asking them all to close at logout, giving up when one of  *)
(* them stays, and remembering those that had closed by then.              *)
(*                                                                         *)
(* An entry of the file is its window; two entries are one app when App    *)
(* maps them to the same value (same_app).  Windows of Unsaved are those   *)
(* save_state passes over (dialogs, helpers, Utility windows).             *)
(***************************************************************************)
EXTENDS FiniteSets

CONSTANTS
    Windows,
    Apps,       \* an app_id with a command line
    Unsaved     \* windows an exit closes but the file does not list

VARIABLES
    App,        \* of each window, its app; fixed at the start
    st,         \* of each window: "absent", "live", "closing" (until a pass), "hidden"
    dying,      \* closing or hidden windows whose client object is gone
    exiting,    \* clean_exit_in_progress
    exitTimer,  \* clean_exit_timer is armed
    shutting,   \* shutting_down: nothing is saved any more
    ended,      \* the display was terminated
    passWanted, \* a transaction is pending
    savePending,\* the save-state timer is armed
    orphans,    \* exit_orphans
    lastSaved,  \* last_saved_windows
    file,       \* the windows state.json lists
    written,    \* last_saved_state_json: the list last written whole, if any
    behind,     \* the last write of the file failed
    flag,       \* the restart flag file of restart-compositor
    asked,      \* apps that had a saved window as the exit began
    byExit      \* those of them whose last window has closed since

vars == <<App, st, dying, exiting, exitTimer, shutting, ended, passWanted,
          savePending, orphans, lastSaved, file, written, behind, flag, asked, byExit>>
exitVars == <<exiting, exitTimer, shutting, flag, asked>>
listVars == <<orphans, lastSaved, file, written, behind>>
fileVars == <<savePending, listVars>>

AppsOf(S) == {App[w] : w \in S}

\* What an exit waits for.
Live == {w \in Windows : st[w] = "live"}

TypeOK ==
    /\ App \in [Windows -> Apps]
    /\ st \in [Windows -> {"absent", "live", "closing", "hidden"}]
    /\ dying \subseteq {w \in Windows : st[w] \in {"closing", "hidden"}}
    /\ {exiting, exitTimer, shutting, ended, passWanted, savePending, behind, flag} \subseteq BOOLEAN
    /\ {orphans, lastSaved, file} \subseteq SUBSET Windows
    /\ written \subseteq SUBSET Windows
    /\ byExit \cup asked \subseteq AppsOf(Windows)

Init ==
    /\ App \in [Windows -> Apps]
    /\ st = [w \in Windows |-> "absent"]
    /\ dying = {}
    /\ exiting = FALSE /\ exitTimer = FALSE /\ shutting = FALSE /\ ended = FALSE
    /\ passWanted = FALSE /\ savePending = FALSE /\ flag = FALSE /\ behind = FALSE
    /\ orphans = {} /\ lastSaved = {} /\ file = {}
    /\ written = {}
    /\ byExit = {} /\ asked = {}

-----------------------------------------------------------------------------
(* save_state.                                                             *)

\* The orphans that are kept beside the saved windows: not those of an app that
\* is running again.
Kept(saved, extra) == {o \in extra : App[o] \notin AppsOf(saved)}

\* The file is replaced whole or stays as it was; a list that was written is not
\* written again.
Write(list) ==
    IF list \in written THEN behind' = FALSE /\ UNCHANGED <<file, written>>
    ELSE /\ behind' \in BOOLEAN
         /\ file' = IF behind' THEN file ELSE list
         /\ written' = IF behind' THEN written ELSE {list}

\* save_state, with the orphans it starts from.
Save(extra) ==
    LET saved == Live \ Unsaved
        kept == Kept(saved, extra)
    IN  /\ orphans' = kept
        /\ lastSaved' = saved \cup kept
        /\ savePending' = FALSE
        /\ Write(saved \cup kept)

\* handle_save_state_timer.
SaveTimer ==
    /\ savePending /\ ~ended
    /\ IF shutting THEN savePending' = FALSE /\ UNCHANGED listVars
       ELSE Save(orphans)
    /\ UNCHANGED <<st, dying, exitVars, ended, passWanted, byExit>>

-----------------------------------------------------------------------------
(* Windows.                                                                *)

\* A window is created, or its client shows it again.
Open(w) ==
    /\ ~ended
    /\ st[w] \in {"absent", "hidden"} /\ w \notin dying
    /\ st' = [st EXCEPT ![w] = "live"]
    /\ byExit' = byExit \ {App[w]}
    /\ passWanted' = TRUE
    /\ UNCHANGED <<dying, exitVars, ended, fileVars>>

\* Apps whose last window the exit closed, once w is not live any more.
ByExit(w) ==
    IF /\ exiting /\ App[w] \in asked /\ w \notin Unsaved
       /\ \A v \in Live \ {w} : App[v] # App[w] \/ v \in Unsaved
    THEN byExit \cup {App[w]} ELSE byExit

\* Window::unmap: the client hides its window and keeps it.
Unmap(w) ==
    /\ ~ended
    /\ st[w] = "live"
    /\ st' = [st EXCEPT ![w] = "closing"]
    /\ byExit' = ByExit(w)
    /\ passWanted' = TRUE
    /\ UNCHANGED <<dying, exitVars, ended, fileVars>>

\* The server terminates once no window is left to wait for (check_clean_exit_progress).
CheckExit ==
    IF exiting /\ Live = {}
    THEN exitTimer' = FALSE /\ ended' = TRUE
    ELSE UNCHANGED <<exitTimer, ended>>

\* The client destroys a window that is hidden already: it is freed at once.
DestroyHidden(w) ==
    /\ ~ended
    /\ st[w] = "hidden" /\ w \notin dying
    /\ st' = [st EXCEPT ![w] = "absent"]
    /\ CheckExit
    /\ UNCHANGED <<dying, exiting, shutting, flag, asked, passWanted, fileVars, byExit>>

\* The client destroys a window: it is freed by the pass that ends its closing.
Destroy(w) ==
    /\ ~ended
    /\ st[w] \in {"live", "closing"} /\ w \notin dying
    /\ st' = [st EXCEPT ![w] = "closing"]
    /\ dying' = dying \cup {w}
    /\ byExit' = IF st[w] = "live" THEN ByExit(w) ELSE byExit
    /\ passWanted' = TRUE
    /\ UNCHANGED <<exitVars, ended, fileVars>>

\* A transaction: closing windows are through, those without a client are freed
\* (Window::destroy), and the state is to be saved (schedule_save_state).
Pass ==
    /\ passWanted /\ ~ended
    /\ passWanted' = FALSE
    /\ st' = [w \in Windows |->
                IF w \in dying THEN "absent"
                ELSE IF st[w] = "closing" THEN "hidden" ELSE st[w]]
    /\ dying' = {}
    /\ IF dying # {} THEN CheckExit ELSE UNCHANGED <<exitTimer, ended>>
    /\ savePending' = (savePending \/ ~shutting)
    /\ UNCHANGED <<exiting, shutting, flag, asked, listVars, byExit>>

-----------------------------------------------------------------------------
(* The clean exit.                                                         *)

\* start_clean_exit: save, then ask every window to close.
BeginExit ==
    /\ Save(orphans)
    /\ exiting' = TRUE /\ shutting' = TRUE
    /\ asked' = AppsOf(Live \ Unsaved)
    /\ IF Live = {} THEN ended' = TRUE /\ UNCHANGED exitTimer
       ELSE exitTimer' = TRUE /\ ended' = FALSE

\* The `exit` action and command, and `restart-compositor`, which leaves its flag
\* first; an exit under way is not begun again.
Exit(restart) ==
    /\ ~ended
    /\ flag' = (flag \/ restart)
    /\ IF exiting THEN UNCHANGED <<exiting, shutting, asked, exitTimer, ended, fileVars>>
       ELSE BeginExit
    /\ UNCHANGED <<st, dying, passWanted, byExit>>

\* `exit force`: save unless an exit did, and go.
ForceExit ==
    /\ ~ended
    /\ IF shutting THEN UNCHANGED fileVars ELSE Save(orphans)
    /\ shutting' = TRUE
    /\ ended' = TRUE
    /\ UNCHANGED <<st, dying, exiting, exitTimer, flag, asked, passWanted, byExit>>

\* Mutant: only what this exit closed is remembered.
OrphansOf(before, survivors) == {b \in before \ orphans : App[b] \notin AppsOf(survivors)}

\* What the exit had closed, of what the file listed as it began.
Orphans(before, survivors) == {b \in before : App[b] \notin AppsOf(survivors)}

\* handle_clean_exit_timeout, cancel_clean_exit: the windows that stay are asked
\* no more, and those that closed are remembered; both saves of the code make one.
CancelExit ==
    /\ exitTimer /\ ~ended
    /\ exiting' = FALSE /\ shutting' = FALSE /\ exitTimer' = FALSE
    /\ Save(Orphans(lastSaved, Live \ Unsaved))
    /\ flag' = FALSE
    /\ passWanted' = TRUE
    /\ UNCHANGED <<st, dying, ended, asked, byExit>>

-----------------------------------------------------------------------------
Next ==
    /\ \/ \E w \in Windows : Open(w) \/ Unmap(w) \/ Destroy(w) \/ DestroyHidden(w)
       \/ Pass
       \/ SaveTimer
       \/ \E restart \in BOOLEAN : Exit(restart)
       \/ ForceExit
       \/ CancelExit
    /\ UNCHANGED App

\* The event loop runs what is pending, and its timers run out.
Fairness ==
    /\ WF_vars(Pass /\ UNCHANGED App)
    /\ WF_vars(SaveTimer /\ UNCHANGED App)
    /\ WF_vars(CancelExit /\ UNCHANGED App)

Spec == Init /\ [][Next]_vars /\ Fairness

-----------------------------------------------------------------------------
(* Properties.                                                             *)

\* An app whose last window closed because a logout asked it to is in the list
\* the next login restores, until it is opened again: also when the logout was
\* cancelled, and after any number of further ones ("remembered until an exit
\* succeeds", cancel_clean_exit).
ExitForgetsNobody == byExit \subseteq AppsOf(lastSaved)

\* The file lists what was last saved, unless writing just that failed: a failed
\* write is tried again by the next save, not taken for done.
FileFollows == file = lastSaved \/ behind

\* Nothing is saved once the windows were asked to close, so the closing itself
\* is never taken for the session.
SavesBeforeClosing == exiting => shutting /\ (exitTimer \/ ended)

SessionIsKept == ExitForgetsNobody /\ FileFollows /\ SavesBeforeClosing

\* A logout is cancelled only while a window holds it ("Windows that are still
\* here when this fires are being held by something", start_clean_exit).
CancelledWhenHeld == [][CancelExit => Live # {}]_vars

\* A logout ends: the server terminates, or the logout is called off.
ExitEnds == exiting ~> ended \/ ~exiting
=============================================================================

----------------------------- MODULE MCServices -----------------------------
(***************************************************************************)
(* The session file, app restarts and the sockets: five parts that share   *)
(* no state, one of which runs at a time.  The constants are any; the      *)
(* values TLC gives them are at the end.                                   *)
(***************************************************************************)
EXTENDS TLC, Integers, Sequences, FiniteSets

VARIABLES part,
  App, st, dying, exiting, exitTimer, shutting, ended, passWanted, savePending,
  orphans, lastSaved, file, written, behind, flag, asked, byExit,
  proc, open, restarts, entries, armed, due, callers, noTimer,
  thread, kind, queue, wake, draining, shot, settling, locking, sent, ran, output,
  commits, dirty, target, hub, needsFrame, kDue, channel, writer, kGone, shown,
  pushed, kWake, kArmed,
  state, shots, inbox, updated, fWake, latest, topic, wants, lastLine, owed, socket, heard, gone, counted

sessionVars == <<App, st, dying, exiting, exitTimer, shutting, ended, passWanted, savePending,
                 orphans, lastSaved, file, written, behind, flag, asked, byExit>>
restartVars == <<proc, open, restarts, entries, armed, due, callers, noTimer>>
controlVars == <<thread, kind, queue, wake, draining, shot, settling, locking, sent, ran, output>>
streamVars == <<commits, dirty, target, hub, needsFrame, kDue, channel, writer, kGone, shown,
                pushed, kWake, kArmed>>
statusVars == <<state, shots, inbox, updated, fWake, latest, topic, wants, lastLine, owed, socket, heard, gone, counted>>
vars == <<part, sessionVars, restartVars, controlVars, streamVars, statusVars>>

CONSTANTS
  Windows, Apps, Unsaved,                                          \* Session
  Processes, MaxWindows, Grace, KillAfterTerm, EntryLife,          \* RestartApp
  Callers, Nobody,                                                 \* ControlSocket
  Streamed, Viewers, MaxCommits, QueueLimit,                       \* StreamServer
  Subscribers, MaxLine, Room, MaxOwed                              \* StatusServer

Session == INSTANCE Session
Restart == INSTANCE RestartApp
Control == INSTANCE ControlSocket
Stream == INSTANCE StreamServer WITH Windows <- Streamed, Clients <- Viewers,
    due <- kDue, gone <- kGone, wake <- kWake, armed <- kArmed
Status == INSTANCE StatusServer WITH Clients <- Subscribers, wake <- fWake

\* An app is given time to exit; a capture nobody waits for is no caller's.
ASSUME RestartAssumption ==
    /\ Grace \in Nat \ {0} /\ KillAfterTerm \in Nat \ {0}
    /\ MaxWindows \in Nat /\ EntryLife \in Nat
ASSUME ControlAssumption == Nobody \notin Callers

\* Commits, queues, lines and sockets have a size; subscribers are finite in number.
ASSUME FeedAssumption ==
    /\ {MaxCommits, QueueLimit, MaxLine, Room, MaxOwed} \subseteq Nat
    /\ IsFiniteSet(Subscribers)

\* Only the part chosen at the start runs.
Init ==
    /\ part \in {"session", "restart", "control", "stream", "status"}
    /\ Session!Init /\ Restart!Init /\ Control!Init /\ Stream!Init /\ Status!Init
    /\ part # "session" => App = [w \in Windows |-> CHOOSE a \in Apps : TRUE]

Next ==
    /\ \/ part = "session" /\ Session!Next /\ UNCHANGED <<restartVars, controlVars, streamVars, statusVars>>
       \/ part = "restart" /\ Restart!Next /\ UNCHANGED <<sessionVars, controlVars, streamVars, statusVars>>
       \/ part = "control" /\ Control!Next /\ UNCHANGED <<sessionVars, restartVars, streamVars, statusVars>>
       \/ part = "stream" /\ Stream!Next /\ UNCHANGED <<sessionVars, restartVars, controlVars, statusVars>>
       \/ part = "status" /\ Status!Next /\ UNCHANGED <<sessionVars, restartVars, controlVars, streamVars>>
    /\ UNCHANGED part

\* The fairness each module states for itself, of the part that runs.
Spec ==
    /\ Init /\ [][Next]_vars
    /\ WF_sessionVars(part = "session" /\ Session!Pass /\ UNCHANGED App)
    /\ WF_sessionVars(part = "session" /\ Session!SaveTimer /\ UNCHANGED App)
    /\ WF_sessionVars(part = "session" /\ Session!CancelExit /\ UNCHANGED App)
    /\ WF_restartVars(part = "restart" /\ Restart!Tick)
    /\ WF_restartVars(part = "restart" /\ Restart!PollAppRestarts)
    /\ \A p \in Processes :
         WF_restartVars(part = "restart" /\ Restart!Exit(p) /\ \E r \in restarts : r.pid = p /\ r.killed)
    /\ \A c \in Callers : WF_controlVars(part = "control" /\ Control!Wake(c))
    /\ WF_controlVars(part = "control" /\ Control!Event)
    /\ WF_controlVars(part = "control" /\ Control!Dispatch)
    /\ WF_controlVars(part = "control" /\ Control!Drained)
    /\ WF_streamVars(part = "stream" /\ Stream!WakeLoop)
    /\ WF_streamVars(part = "stream" /\ Stream!HandleWake)
    /\ WF_streamVars(part = "stream" /\ Stream!TickWell)
    /\ \A c \in Viewers : /\ WF_streamVars(part = "stream" /\ Stream!WriteOut(c))
                        /\ WF_streamVars(part = "stream" /\ Stream!KeepaliveDue(c))
    /\ WF_statusVars(part = "status" /\ Status!Turn)
    /\ \A c \in Subscribers : WF_statusVars(part = "status" /\ Status!Read(c))

\* The file brings back what was open, and nothing it had not saved (Session).
SessionIsKept == Session!TypeOK /\ Session!SessionIsKept

\* Nobody who waits for an answer is forgotten, and an app's restart keeps
\* no entry that a window of another may take (ControlSocket, RestartApp).
CallersAreServed ==
    /\ Control!TypeOK /\ Control!NobodyIsForgotten
    /\ Restart!TypeOK /\ Restart!CallersAreServed /\ Restart!NoEntryForWindowsThatStay

\* A subscriber reads whole lines in order and frames that were captured for it
\* (StatusServer, StreamServer).
FeedsAreSound ==
    /\ Status!TypeOK /\ Status!FeedIsSound
    /\ Stream!TypeOK /\ Stream!TickRuns

\* Readers catch up with the present and the dead are dropped; a logout, a
\* restart and a queued command come to their end (all five).
ServicesSettle ==
    /\ part \in {"stream", "status"} =>
        /\ Stream!CatchesUp /\ Stream!HungUpIsDropped
        /\ Status!EndsCurrent /\ Status!DeadAreReaped
    /\ part \in {"session", "restart", "control"} =>
        Session!ExitEnds /\ Restart!RestartEnds /\ Control!QueuedIsRun

\* What the documentation says of a held clean exit and of shared streams.
CancelledWhenHeld == Session!CancelledWhenHeld
OneFrameForAll == Stream!OneFrameForAll

-----------------------------------------------------------------------------
(* The values of the constants for TLC.                                    *)
CONSTANTS w1, w2, a1, a2, p1, p2, c1, c2

TwoWindows == {w1, w2}
TwoApps == {a1, a2}
TwoProcesses == {p1, p2}
TwoClients == {c1, c2}
OneWindow == {w1}
=============================================================================

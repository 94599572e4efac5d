-------------------------- MODULE Services_proofs ---------------------------
(***************************************************************************)
(* What holds of the session file, app restarts and the sockets, for any   *)
(* windows, apps, processes, callers and subscribers.  The parts share no  *)
(* state: an invariant of each is kept by the steps of the others, which   *)
(* leave its variables alone (PartSteps).                                  *)
(***************************************************************************)
EXTENDS MCServices, FiniteSetTheorems, SequenceTheorems, WellFoundedInduction, TLAPS

-----------------------------------------------------------------------------
(* The session file (Session).                                             *)

\* The saved windows that are open.
SavedNow == Session!Live \ Unsaved

\* What was asked to close is in the list the exit began with; an app the exit
\* closed has no saved window, and once the exit is off it is an orphan's.
ByExitIsListed ==
    /\ exiting => asked \subseteq Session!AppsOf(lastSaved)
    /\ byExit \cap Session!AppsOf(SavedNow) = {}
    /\ ~exiting => byExit \subseteq Session!AppsOf(orphans)
    /\ orphans \subseteq lastSaved

\* A list that was written whole is the file's.
WrittenIsFile == \A list \in written : list = file

\* Nothing but an end stops the saving for good.
ShutIsExit == shutting /\ ~exiting => ended

SessionInv ==
    /\ Session!TypeOK /\ Session!SessionIsKept
    /\ ByExitIsListed /\ WrittenIsFile /\ ShutIsExit

\* The session starts well.
LEMMA SessionInit == Session!Init => SessionInv
BY DEF Session!Init, SessionInv, Session!TypeOK, Session!SessionIsKept, Session!ExitForgetsNobody,
       Session!FileFollows, Session!SavesBeforeClosing, ByExitIsListed, WrittenIsFile, ShutIsExit,
       Session!AppsOf, SavedNow, Session!Live

\* The file follows the list (Write, save_state).
LEMMA WriteFollows ==
    ASSUME NEW list \in SUBSET Windows, Session!Write(list), WrittenIsFile,
           file \in SUBSET Windows, written \subseteq SUBSET Windows
    PROVE  /\ file' \in SUBSET Windows /\ written' \subseteq SUBSET Windows /\ behind' \in BOOLEAN
           /\ WrittenIsFile' /\ (file' = list \/ behind')
<1>1. CASE list \in written BY <1>1 DEF Session!Write, WrittenIsFile
<1>2. CASE list \notin written
  <2>1. CASE behind' = TRUE BY <1>2, <2>1 DEF Session!Write, WrittenIsFile
  <2>2. CASE behind' = FALSE BY <1>2, <2>2 DEF Session!Write, WrittenIsFile
  <2> QED BY <1>2, <2>1, <2>2 DEF Session!Write
<1> QED BY <1>1, <1>2

\* A save lists what is open and the orphans no open app takes the place of
\* (save_state).
LEMMA SaveLists ==
    ASSUME NEW extra \in SUBSET Windows, Session!Save(extra), WrittenIsFile,
           file \in SUBSET Windows, written \subseteq SUBSET Windows
    PROVE  /\ orphans' = {o \in extra : App[o] \notin Session!AppsOf(SavedNow)}
           /\ lastSaved' = SavedNow \cup orphans'
           /\ orphans' \in SUBSET Windows /\ lastSaved' \in SUBSET Windows
           /\ file' \in SUBSET Windows /\ written' \subseteq SUBSET Windows
           /\ behind' \in BOOLEAN /\ savePending' = FALSE
           /\ WrittenIsFile' /\ (file' = lastSaved' \/ behind')
<1> DEFINE kept == {o \in extra : App[o] \notin Session!AppsOf(SavedNow)}
           list == SavedNow \cup kept
<1>1. /\ orphans' = kept /\ lastSaved' = list /\ savePending' = FALSE
      /\ Session!Write(list)
  BY DEF Session!Save, Session!Kept, SavedNow
<1>2. list \in SUBSET Windows /\ kept \in SUBSET Windows BY DEF SavedNow, Session!Live
<1> HIDE DEF kept, list
<1>3. /\ file' \in SUBSET Windows /\ written' \subseteq SUBSET Windows /\ behind' \in BOOLEAN
      /\ WrittenIsFile' /\ (file' = list \/ behind')
  BY <1>1, <1>2, WriteFollows
<1> QED BY <1>1, <1>2, <1>3 DEF kept, list

\* Apps are forgotten by no save.
LEMMA SavedApps ==
    ASSUME NEW extra, NEW S
    PROVE  LET kept == {o \in extra : App[o] \notin Session!AppsOf(S)}
           IN  Session!AppsOf(S \cup kept) = Session!AppsOf(S) \cup Session!AppsOf(extra)
BY DEF Session!AppsOf

\* A save while no exit is under way keeps the session (handle_save_state_timer,
\* exit force).
LEMMA SaveKeeps ==
    ASSUME SessionInv, ~exiting, Session!Save(orphans), App' = App, st' = st, dying' = dying,
           byExit' = byExit, asked' = asked, exiting' = exiting,
           exitTimer' \in BOOLEAN, shutting' \in BOOLEAN, ended' \in BOOLEAN,
           passWanted' \in BOOLEAN, flag' \in BOOLEAN, shutting' => ended'
    PROVE  SessionInv'
<1>1. /\ orphans \in SUBSET Windows /\ file \in SUBSET Windows /\ written \subseteq SUBSET Windows
      /\ WrittenIsFile
  BY DEF SessionInv, Session!TypeOK
<1>2. /\ orphans' = {o \in orphans : App[o] \notin Session!AppsOf(SavedNow)}
      /\ lastSaved' = SavedNow \cup orphans'
      /\ orphans' \in SUBSET Windows /\ lastSaved' \in SUBSET Windows
      /\ file' \in SUBSET Windows /\ written' \subseteq SUBSET Windows
      /\ behind' \in BOOLEAN /\ savePending' = FALSE
      /\ WrittenIsFile' /\ (file' = lastSaved' \/ behind')
  BY <1>1, SaveLists
<1>3. Session!TypeOK'
  BY <1>2 DEF SessionInv, Session!TypeOK, Session!AppsOf
<1>4. SavedNow' = SavedNow BY DEF SavedNow, Session!Live
<1>5. byExit \subseteq Session!AppsOf(orphans) /\ byExit \cap Session!AppsOf(SavedNow) = {}
  BY DEF SessionInv, ByExitIsListed
<1>6. byExit \subseteq Session!AppsOf(orphans')
  BY <1>2, <1>5 DEF Session!AppsOf
<1>7. ByExitIsListed'
  BY <1>2, <1>4, <1>5, <1>6 DEF ByExitIsListed, Session!AppsOf
<1>8. Session!SessionIsKept'
  BY <1>2, <1>6 DEF Session!SessionIsKept, Session!ExitForgetsNobody, Session!FileFollows,
     Session!SavesBeforeClosing, Session!AppsOf
<1> QED BY <1>2, <1>3, <1>7, <1>8 DEF SessionInv, ShutIsExit

\* What w closing adds to byExit is listed, and it was its app's last saved window
\* (Window::unmap, Window::destroy).
LEMMA CloseListed ==
    ASSUME SessionInv, NEW w \in Windows, st[w] = "live",
           NEW closed, closed = Session!Live \ {w}
    PROVE  /\ Session!ByExit(w) \subseteq Session!AppsOf(Windows)
           /\ Session!ByExit(w) \subseteq Session!AppsOf(lastSaved)
           /\ Session!ByExit(w) \cap Session!AppsOf(closed \ Unsaved) = {}
           /\ ~exiting => Session!ByExit(w) = byExit
<1>1. /\ byExit \subseteq Session!AppsOf(Windows) /\ byExit \subseteq Session!AppsOf(lastSaved)
      /\ byExit \cap Session!AppsOf(closed \ Unsaved) = {}
  BY DEF SessionInv, Session!TypeOK, Session!SessionIsKept, Session!ExitForgetsNobody,
     ByExitIsListed, SavedNow, Session!AppsOf
<1>2. CASE Session!ByExit(w) = byExit BY <1>1, <1>2
<1>3. CASE /\ Session!ByExit(w) = byExit \cup {App[w]} /\ exiting /\ App[w] \in asked
           /\ \A v \in Session!Live \ {w} : App[v] # App[w] \/ v \in Unsaved
  <2>1. App[w] \in Session!AppsOf(lastSaved) /\ App[w] \in Session!AppsOf(Windows)
    BY <1>3 DEF SessionInv, ByExitIsListed, Session!AppsOf
  <2>2. App[w] \notin Session!AppsOf(closed \ Unsaved)
    BY <1>3 DEF Session!AppsOf
  <2> QED BY <1>1, <1>3, <2>1, <2>2
<1> QED BY <1>2, <1>3 DEF Session!ByExit

\* Each operation keeps the session (session.rs, Window::map, unmap and destroy).
LEMMA SessionNext == SessionInv /\ [Session!Next]_(Session!vars) => SessionInv'
<1> SUFFICES ASSUME SessionInv, [Session!Next]_(Session!vars) PROVE SessionInv'
  OBVIOUS
<1>0. /\ Session!TypeOK /\ Session!ExitForgetsNobody /\ Session!FileFollows
      /\ Session!SavesBeforeClosing /\ ByExitIsListed /\ WrittenIsFile /\ ShutIsExit
  BY DEF SessionInv, Session!SessionIsKept
<1>1. ASSUME NEW w \in Windows, Session!Open(w), App' = App PROVE SessionInv'
  <2>1. /\ SavedNow' \subseteq SavedNow \cup {w}
        /\ byExit' = byExit \ {App[w]}
    BY <1>0, <1>1 DEF SavedNow, Session!Live, Session!Open, Session!TypeOK
  <2>2. Session!TypeOK'
    BY <1>0, <1>1 DEF Session!TypeOK, Session!Open, Session!exitVars, Session!fileVars,
       Session!listVars, Session!AppsOf
  <2>3. byExit' \cap Session!AppsOf(SavedNow)' = {}
    BY <1>0, <1>1, <2>1 DEF ByExitIsListed, Session!AppsOf
  <2> QED BY <1>0, <1>1, <2>1, <2>2, <2>3 DEF SessionInv, Session!SessionIsKept,
     Session!ExitForgetsNobody, Session!FileFollows, Session!SavesBeforeClosing, ByExitIsListed,
     WrittenIsFile, ShutIsExit, Session!AppsOf, Session!Open, Session!exitVars, Session!fileVars,
     Session!listVars
<1>2. ASSUME NEW w \in Windows, st[w] = "live", st' = [st EXCEPT ![w] = "closing"],
             byExit' = Session!ByExit(w), App' = App,
             dying' \subseteq {v \in Windows : st'[v] \in {"closing", "hidden"}},
             passWanted' = TRUE, UNCHANGED <<Session!exitVars, ended, Session!fileVars>>
      PROVE  SessionInv'
  <2>1. SavedNow' = (Session!Live \ {w}) \ Unsaved
    BY <1>0, <1>2 DEF SavedNow, Session!Live, Session!TypeOK
  <2>2. /\ byExit' \subseteq Session!AppsOf(Windows)
        /\ byExit' \subseteq Session!AppsOf(lastSaved)
        /\ byExit' \cap Session!AppsOf((Session!Live \ {w}) \ Unsaved) = {}
        /\ ~exiting => byExit' = byExit
    BY <1>2, CloseListed
  <2>3. Session!TypeOK'
    BY <1>0, <1>2, <2>2 DEF Session!TypeOK, Session!exitVars, Session!fileVars,
       Session!listVars, Session!AppsOf
  <2>4. ByExitIsListed'
    BY <1>0, <1>2, <2>1, <2>2 DEF ByExitIsListed, Session!AppsOf, Session!exitVars,
       Session!fileVars, Session!listVars
  <2> QED BY <1>0, <1>2, <2>2, <2>3, <2>4 DEF SessionInv, Session!SessionIsKept,
     Session!ExitForgetsNobody, Session!FileFollows, Session!SavesBeforeClosing,
     WrittenIsFile, ShutIsExit, Session!AppsOf, Session!exitVars, Session!fileVars,
     Session!listVars
<1>3. ASSUME NEW w \in Windows, Session!Unmap(w), App' = App PROVE SessionInv'
  <2>1. dying' \subseteq {v \in Windows : st'[v] \in {"closing", "hidden"}}
    BY <1>0, <1>3 DEF Session!Unmap, Session!TypeOK
  <2> QED BY <1>2, <1>3, <2>1 DEF Session!Unmap
\* What changes neither the open windows nor the lists.
<1>4. ASSUME App' = App, Session!Live' = Session!Live, Session!TypeOK', byExit' = byExit,
             exiting' = exiting, shutting' = shutting, asked' = asked,
             exitTimer' \/ ended' \/ ~exiting, ended => ended', UNCHANGED Session!listVars
      PROVE  SessionInv'
  <2>1. SavedNow' = SavedNow BY <1>4 DEF SavedNow
  <2> QED BY <1>0, <1>4, <2>1 DEF SessionInv, Session!SessionIsKept,
     Session!ExitForgetsNobody, Session!FileFollows, Session!SavesBeforeClosing, ByExitIsListed,
     WrittenIsFile, ShutIsExit, Session!AppsOf, Session!listVars
<1>5. ASSUME NEW w \in Windows, Session!Destroy(w), App' = App PROVE SessionInv'
  <2>1. dying' \subseteq {v \in Windows : st'[v] \in {"closing", "hidden"}}
    BY <1>0, <1>5 DEF Session!Destroy, Session!TypeOK
  <2>2. CASE st[w] = "live" BY <1>2, <1>5, <2>1, <2>2 DEF Session!Destroy
  <2>3. CASE st[w] = "closing"
    <3>1. Session!Live' = Session!Live
      BY <1>0, <1>5, <2>3 DEF Session!Destroy, Session!Live, Session!TypeOK
    <3>2. Session!TypeOK'
      BY <1>0, <1>5, <2>1, <2>3 DEF Session!TypeOK, Session!Destroy, Session!exitVars,
         Session!fileVars, Session!listVars, Session!AppsOf
    <3> QED BY <1>0, <1>4, <1>5, <2>3, <3>1, <3>2 DEF Session!Destroy, Session!exitVars,
       Session!fileVars, Session!SavesBeforeClosing
  <2> QED BY <1>5, <2>2, <2>3 DEF Session!Destroy
<1>6. ASSUME NEW w \in Windows, Session!DestroyHidden(w), App' = App PROVE SessionInv'
  <2>1. Session!Live' = Session!Live
    BY <1>0, <1>6 DEF Session!DestroyHidden, Session!Live, Session!TypeOK
  <2>2. exitTimer' \in BOOLEAN /\ ended' \in BOOLEAN /\ (ended => ended')
        /\ (exitTimer' \/ ended' \/ ~exiting)
    BY <1>0, <1>6 DEF Session!DestroyHidden, Session!CheckExit, Session!TypeOK,
       Session!SavesBeforeClosing
  <2>3. Session!TypeOK'
    BY <1>0, <1>6, <2>2 DEF Session!TypeOK, Session!DestroyHidden,
       Session!fileVars, Session!listVars, Session!AppsOf
  <2> QED BY <1>4, <1>6, <2>1, <2>2, <2>3 DEF Session!DestroyHidden, Session!fileVars
<1>7. ASSUME Session!Pass, App' = App PROVE SessionInv'
  <2>1. Session!Live' = Session!Live
    BY <1>0, <1>7 DEF Session!Pass, Session!Live, Session!TypeOK
  <2>2. exitTimer' \in BOOLEAN /\ ended' \in BOOLEAN /\ (ended => ended')
        /\ (exitTimer' \/ ended' \/ ~exiting)
    BY <1>0, <1>7 DEF Session!Pass, Session!CheckExit, Session!TypeOK,
       Session!SavesBeforeClosing
  <2>3. st' \in [Windows -> {"absent", "live", "closing", "hidden"}] /\ savePending' \in BOOLEAN
    <3>1. \A w \in Windows : (IF w \in dying THEN "absent"
             ELSE IF st[w] = "closing" THEN "hidden" ELSE st[w])
               \in {"absent", "live", "closing", "hidden"}
      BY <1>0 DEF Session!TypeOK
    <3>2. (savePending \/ ~shutting) \in BOOLEAN OBVIOUS
    <3> QED BY <1>7, <3>1, <3>2 DEF Session!Pass
  <2>4. Session!TypeOK'
    BY <1>0, <1>7, <2>2, <2>3 DEF Session!TypeOK, Session!Pass, Session!listVars, Session!AppsOf
  <2> QED BY <1>4, <1>7, <2>1, <2>2, <2>4 DEF Session!Pass
<1>8. ASSUME Session!SaveTimer, App' = App PROVE SessionInv'
  <2>1. CASE shutting
    <3>1. Session!TypeOK' /\ Session!Live' = Session!Live
      BY <1>0, <1>8, <2>1 DEF Session!TypeOK, Session!SaveTimer, Session!exitVars,
         Session!listVars, Session!AppsOf, Session!Live
    <3> QED BY <1>0, <1>4, <1>8, <2>1, <3>1 DEF Session!SaveTimer, Session!exitVars,
       Session!SavesBeforeClosing
  <2>2. CASE ~shutting
    <3>1. ~exiting BY <1>0, <2>2 DEF Session!SavesBeforeClosing
    <3>2. /\ Session!Save(orphans) /\ st' = st /\ dying' = dying /\ byExit' = byExit
          /\ UNCHANGED <<exiting, exitTimer, shutting, flag, asked, ended, passWanted>>
      BY <1>8, <2>2 DEF Session!SaveTimer, Session!exitVars
    <3>3. /\ exitTimer' \in BOOLEAN /\ shutting' \in BOOLEAN /\ ended' \in BOOLEAN
          /\ passWanted' \in BOOLEAN /\ flag' \in BOOLEAN
      BY <1>0, <3>2 DEF Session!TypeOK
    <3> QED BY <1>8, <2>2, <3>1, <3>2, <3>3, SaveKeeps
  <2> QED BY <2>1, <2>2
<1>9. ASSUME Session!ForceExit, App' = App PROVE SessionInv'
  <2>1. CASE shutting
    <3>1. Session!TypeOK' /\ Session!Live' = Session!Live
      BY <1>0, <1>9, <2>1 DEF Session!TypeOK, Session!ForceExit, Session!fileVars,
         Session!listVars, Session!AppsOf, Session!Live
    <3> QED BY <1>0, <1>4, <1>9, <2>1, <3>1 DEF Session!ForceExit, Session!fileVars
  <2>2. CASE ~shutting
    <3>1. ~exiting BY <1>0, <2>2 DEF Session!SavesBeforeClosing
    <3>2. /\ Session!Save(orphans) /\ st' = st /\ dying' = dying /\ byExit' = byExit
          /\ UNCHANGED <<exiting, exitTimer, flag, asked, passWanted>> /\ shutting' = TRUE
          /\ ended' = TRUE
      BY <1>9, <2>2 DEF Session!ForceExit
    <3>3. /\ exitTimer' \in BOOLEAN /\ shutting' \in BOOLEAN /\ ended' \in BOOLEAN
          /\ passWanted' \in BOOLEAN /\ flag' \in BOOLEAN
      BY <1>0, <3>2 DEF Session!TypeOK
    <3> QED BY <1>9, <3>1, <3>2, <3>3, SaveKeeps
  <2> QED BY <2>1, <2>2
<1>10. ASSUME Session!CancelExit, App' = App PROVE SessionInv'
  <2> DEFINE closed == Session!Orphans(lastSaved, Session!Live \ Unsaved)
  <2>1. closed = {o \in lastSaved : App[o] \notin Session!AppsOf(SavedNow)}
        /\ closed \in SUBSET Windows
    BY <1>0 DEF Session!Orphans, SavedNow, Session!TypeOK
  <2>2. Session!Save(closed) BY <1>10 DEF Session!CancelExit
  <2>3. file \in SUBSET Windows /\ written \subseteq SUBSET Windows BY <1>0 DEF Session!TypeOK
  <2> HIDE DEF closed
  <2>4. /\ orphans' = {o \in closed : App[o] \notin Session!AppsOf(SavedNow)}
        /\ lastSaved' = SavedNow \cup orphans'
        /\ orphans' \in SUBSET Windows /\ lastSaved' \in SUBSET Windows
        /\ file' \in SUBSET Windows /\ written' \subseteq SUBSET Windows
        /\ behind' \in BOOLEAN /\ savePending' = FALSE
        /\ WrittenIsFile' /\ (file' = lastSaved' \/ behind')
    BY <1>0, <2>1, <2>2, <2>3, SaveLists
  <2>5. SavedNow' = SavedNow BY <1>10 DEF SavedNow, Session!Live, Session!CancelExit
  <2>6. Session!TypeOK'
    BY <1>0, <1>10, <2>4 DEF Session!TypeOK, Session!CancelExit, Session!AppsOf
  <2>7. byExit' \subseteq Session!AppsOf(orphans')
    <3>1. byExit \subseteq Session!AppsOf(lastSaved) /\ byExit \cap Session!AppsOf(SavedNow) = {}
      BY <1>0 DEF Session!ExitForgetsNobody, ByExitIsListed
    <3> QED BY <1>10, <2>1, <2>4, <3>1 DEF Session!AppsOf, Session!CancelExit
  <2>8. ByExitIsListed'
    <3>1. byExit' \cap Session!AppsOf(SavedNow') = {}
      BY <1>0, <1>10, <2>5 DEF ByExitIsListed, Session!AppsOf, Session!CancelExit
    <3> QED BY <1>10, <2>4, <2>7, <3>1 DEF ByExitIsListed, Session!AppsOf, Session!CancelExit
  <2> QED BY <1>10, <2>4, <2>6, <2>7, <2>8 DEF SessionInv, Session!SessionIsKept,
     Session!ExitForgetsNobody, Session!FileFollows, Session!SavesBeforeClosing, ShutIsExit,
     Session!AppsOf, Session!CancelExit
<1>11. ASSUME NEW restart \in BOOLEAN, Session!Exit(restart), App' = App PROVE SessionInv'
  <2>0. flag' \in BOOLEAN BY <1>0, <1>11 DEF Session!Exit, Session!TypeOK
  <2>1. CASE exiting
    <3>1. Session!TypeOK' /\ Session!Live' = Session!Live
      BY <1>0, <1>11, <2>0, <2>1 DEF Session!TypeOK, Session!Exit, Session!fileVars,
         Session!listVars, Session!AppsOf, Session!Live
    <3> QED BY <1>0, <1>4, <1>11, <2>1, <3>1 DEF Session!Exit, Session!fileVars,
       Session!SavesBeforeClosing
  <2>2. CASE ~exiting
    <3>1. /\ Session!Save(orphans) /\ st' = st /\ dying' = dying /\ byExit' = byExit
          /\ passWanted' = passWanted /\ exiting' = TRUE /\ shutting' = TRUE
          /\ asked' = Session!AppsOf(SavedNow)
      BY <1>11, <2>2 DEF Session!Exit, Session!BeginExit, SavedNow
    <3>2. exitTimer' \in BOOLEAN /\ ended' \in BOOLEAN /\ (exitTimer' \/ ended')
      BY <1>0, <1>11, <2>2 DEF Session!Exit, Session!BeginExit, Session!TypeOK
    <3>3. /\ orphans \in SUBSET Windows /\ file \in SUBSET Windows
          /\ written \subseteq SUBSET Windows
      BY <1>0 DEF Session!TypeOK
    <3>4. /\ orphans' = {o \in orphans : App[o] \notin Session!AppsOf(SavedNow)}
          /\ lastSaved' = SavedNow \cup orphans'
          /\ orphans' \in SUBSET Windows /\ lastSaved' \in SUBSET Windows
          /\ file' \in SUBSET Windows /\ written' \subseteq SUBSET Windows
          /\ behind' \in BOOLEAN /\ savePending' = FALSE
          /\ WrittenIsFile' /\ (file' = lastSaved' \/ behind')
      BY <1>0, <3>1, <3>3, SaveLists
    <3>5. SavedNow' = SavedNow BY <3>1 DEF SavedNow, Session!Live
    <3>6. Session!TypeOK'
      <4>1. asked' \subseteq Session!AppsOf(Windows)
        BY <3>1 DEF Session!AppsOf, SavedNow, Session!Live
      <4> QED BY <1>0, <1>11, <2>0, <3>1, <3>2, <3>4, <4>1 DEF Session!TypeOK, Session!AppsOf
    <3>7. byExit \subseteq Session!AppsOf(lastSaved')
          /\ byExit \cap Session!AppsOf(SavedNow) = {}
      <4>1. byExit \subseteq Session!AppsOf(orphans) /\ byExit \cap Session!AppsOf(SavedNow) = {}
        BY <1>0, <2>2 DEF ByExitIsListed
      <4> QED BY <3>4, <4>1 DEF Session!AppsOf
    <3>8. ByExitIsListed'
      BY <1>11, <3>1, <3>4, <3>5, <3>7 DEF ByExitIsListed, Session!AppsOf
    <3> QED BY <1>11, <3>1, <3>2, <3>4, <3>6, <3>7, <3>8 DEF SessionInv, Session!SessionIsKept,
       Session!ExitForgetsNobody, Session!FileFollows, Session!SavesBeforeClosing, ShutIsExit,
       Session!AppsOf
  <2> QED BY <2>1, <2>2
<1>12. CASE UNCHANGED Session!vars
  BY <1>0, <1>12 DEF Session!vars, SessionInv, Session!SessionIsKept,
     Session!ExitForgetsNobody, Session!FileFollows, Session!SavesBeforeClosing, ByExitIsListed,
     WrittenIsFile, ShutIsExit, Session!AppsOf, SavedNow, Session!Live, Session!TypeOK
<1> QED BY <1>1, <1>3, <1>5, <1>6, <1>7, <1>8, <1>9, <1>10, <1>11, <1>12 DEF Session!Next

-----------------------------------------------------------------------------
(* The control socket (ControlSocket).                                     *)

ControlRange(s) == {s[i] : i \in DOMAIN s}

\* A caller's channel is in one place; a queued command was not run yet.
QueuedIsFresh == \A c \in ControlRange(queue) : ran[c] = 0

\* The places of the channels, by pairs.
PlacesApart ==
    LET q == ControlRange(queue) IN
    /\ q \cap shot = {} /\ q \cap settling = {} /\ q \cap locking = {} /\ q \cap sent = {}
    /\ shot \cap settling = {} /\ shot \cap locking = {} /\ shot \cap sent = {}
    /\ settling \cap locking = {} /\ settling \cap sent = {} /\ locking \cap sent = {}

\* Who does not read has its channel somewhere.
EachIsHeld ==
    \A c \in Callers : thread[c] # "reading" =>
        c \in ControlRange(queue) \cup shot \cup settling \cup locking \cup sent

ControlTyped ==
    /\ thread \in [Callers -> {"reading", "queued", "waiting"}]
    /\ kind \in [Callers -> Control!Kinds]
    /\ queue \in Seq(Callers)
    /\ wake \in BOOLEAN /\ draining \in BOOLEAN /\ output \in BOOLEAN
    /\ shot \subseteq Callers \cup {Nobody} /\ (shot = {} \/ \E c : shot = {c})
    /\ settling \subseteq Callers /\ locking \subseteq Callers /\ sent \subseteq Callers
    /\ ran \in [Callers -> 0..1]

ControlInv ==
    /\ ControlTyped /\ Control!IsInjective(queue)
    /\ PlacesApart /\ EachIsHeld /\ QueuedIsFresh
    /\ Control!QueueIsNoticed /\ Control!CapturesAreTheirs

\* A command that is queued is at one place of the queue.
LEMMA Queued ==
    ASSUME NEW S, NEW s \in Seq(S), Control!IsInjective(s), NEW c \in S, c \notin ControlRange(s)
    PROVE  /\ Append(s, c) \in Seq(S)
           /\ ControlRange(Append(s, c)) = ControlRange(s) \cup {c}
           /\ Control!IsInjective(Append(s, c))
<1> DEFINE t == Append(s, c)
<1>1. /\ t \in Seq(S) /\ Len(t) = Len(s) + 1 /\ DOMAIN t = 1..(Len(s) + 1)
      /\ DOMAIN s = 1..Len(s) /\ Len(s) \in Nat
      /\ t[Len(s) + 1] = c /\ \A i \in 1..Len(s) : t[i] = s[i]
  OBVIOUS
<1> HIDE DEF t
<1>2. ControlRange(t) = ControlRange(s) \cup {c}
  <2>1. c \in ControlRange(t) BY <1>1 DEF ControlRange
  <2>2. \A i \in 1..Len(s) : s[i] \in ControlRange(t) BY <1>1 DEF ControlRange
  <2>3. \A i \in 1..(Len(s) + 1) : t[i] \in ControlRange(s) \cup {c}
    <3> TAKE i \in 1..(Len(s) + 1)
    <3>1. CASE i = Len(s) + 1 BY <1>1, <3>1
    <3>2. CASE i \in 1..Len(s) BY <1>1, <3>2 DEF ControlRange
    <3> QED BY <1>1, <3>1, <3>2
  <2> QED BY <1>1, <2>1, <2>2, <2>3 DEF ControlRange
<1>3. Control!IsInjective(t)
  BY <1>1 DEF Control!IsInjective, ControlRange
<1> QED BY <1>1, <1>2, <1>3 DEF t

\* A command that is taken is in the queue no more.
LEMMA TakenOut ==
    ASSUME NEW S, NEW s \in Seq(S), Control!IsInjective(s), s # <<>>
    PROVE  /\ Tail(s) \in Seq(S) /\ Head(s) \in S /\ Head(s) \in ControlRange(s)
           /\ ControlRange(Tail(s)) = ControlRange(s) \ {Head(s)}
           /\ Control!IsInjective(Tail(s))
<1> DEFINE t == Tail(s)
<1>1. /\ t \in Seq(S) /\ Len(t) = Len(s) - 1 /\ DOMAIN t = 1..(Len(s) - 1)
      /\ DOMAIN s = 1..Len(s) /\ Len(s) \in Nat /\ Len(s) >= 1 /\ Head(s) = s[1]
      /\ Head(s) \in S /\ \A i \in 1..(Len(s) - 1) : t[i] = s[i + 1]
  OBVIOUS
<1> HIDE DEF t
<1>2. \A i, j \in 1..Len(s) : s[i] = s[j] => i = j
  BY <1>1 DEF Control!IsInjective
<1>3. Control!IsInjective(t) BY <1>1, <1>2 DEF Control!IsInjective
<1>4. ControlRange(t) = ControlRange(s) \ {Head(s)}
  <2>1. \A i \in 2..Len(s) : s[i] \in ControlRange(t)
    <3> TAKE i \in 2..Len(s)
    <3>1. i - 1 \in 1..(Len(s) - 1) /\ t[i - 1] = s[i] BY <1>1
    <3> QED BY <1>1, <3>1 DEF ControlRange
  <2>2. \A i \in 1..(Len(s) - 1) : t[i] \in ControlRange(s) /\ t[i] # s[1]
    <3> TAKE i \in 1..(Len(s) - 1)
    <3>1. i + 1 \in 1..Len(s) /\ t[i] = s[i + 1] /\ i + 1 # 1 /\ 1 \in 1..Len(s) BY <1>1
    <3> QED BY <1>1, <1>2, <3>1 DEF ControlRange
  <2> QED BY <1>1, <2>1, <2>2 DEF ControlRange
<1>5. Head(s) \in ControlRange(s) BY <1>1 DEF ControlRange
<1> QED BY <1>1, <1>3, <1>4, <1>5 DEF t

\* The control socket starts well.
LEMMA ControlInit == Control!Init => ControlInv
<1> SUFFICES ASSUME Control!Init PROVE ControlInv OBVIOUS
<1>1. queue = <<>> /\ queue \in Seq(Callers) /\ DOMAIN queue = {} BY DEF Control!Init
<1>2. ControlTyped
  <2>1. "quick" \in Control!Kinds BY DEF Control!Kinds
  <2>2. /\ thread = [c \in Callers |-> "reading"] /\ kind = [c \in Callers |-> "quick"]
        /\ ran = [c \in Callers |-> 0] /\ 0 \in 0..1
    BY DEF Control!Init
  <2>3. /\ thread \in [Callers -> {"reading", "queued", "waiting"}]
        /\ kind \in [Callers -> Control!Kinds] /\ ran \in [Callers -> 0..1]
    BY <2>1, <2>2
  <2> QED BY <1>1, <2>3 DEF Control!Init, ControlTyped
<1> QED BY <1>1, <1>2 DEF Control!Init, ControlInv, Control!IsInjective, PlacesApart, EachIsHeld,
        QueuedIsFresh, ControlRange, Control!QueueIsNoticed, Control!CapturesAreTheirs

\* Each operation keeps the channels (ipc_server.rs, handle_ipc_event).
LEMMA ControlNext == ControlInv /\ [Control!Next]_(Control!vars) => ControlInv'
<1> SUFFICES ASSUME ControlInv, [Control!Next]_(Control!vars) PROVE ControlInv'
  OBVIOUS
<1>0. /\ ControlTyped /\ Control!IsInjective(queue) /\ PlacesApart /\ EachIsHeld
      /\ QueuedIsFresh /\ Control!QueueIsNoticed /\ Control!CapturesAreTheirs
  BY DEF ControlInv
<1>a. Nobody \notin Callers BY ControlAssumption
<1>b. ASSUME NEW c \in Callers PROVE Control!Held(c) <=>
        c \in ControlRange(queue) \cup shot \cup settling \cup locking \cup sent
  BY DEF Control!Held, Control!ToSet, ControlRange
<1>1. ASSUME NEW c \in Callers, Control!Send(c) PROVE ControlInv'
  <2>1. c \notin ControlRange(queue) \cup shot \cup settling \cup locking \cup sent
    BY <1>1, <1>b DEF Control!Send
  <2>2. /\ queue' \in Seq(Callers) /\ Control!IsInjective(queue')
        /\ ControlRange(queue') = ControlRange(queue) \cup {c}
    BY <1>0, <1>1, <2>1, Queued DEF Control!Send, ControlTyped
  <2>3. ControlTyped'
    <3>1. /\ thread' = [thread EXCEPT ![c] = "queued"] /\ ran' = [ran EXCEPT ![c] = 0]
          /\ \E k \in Control!Kinds : kind' = [kind EXCEPT ![c] = k]
      BY <1>1, Zenon DEF Control!Send
    <3>0. 0 \in 0..1 OBVIOUS
    <3>2. /\ thread' \in [Callers -> {"reading", "queued", "waiting"}]
          /\ kind' \in [Callers -> Control!Kinds] /\ ran' \in [Callers -> 0..1]
      BY <1>0, <3>0, <3>1 DEF ControlTyped
    <3> QED BY <1>0, <1>1, <2>2, <3>2 DEF ControlTyped, Control!Send, Control!parked
  <2>4. PlacesApart' /\ EachIsHeld' /\ QueuedIsFresh'
    BY <1>0, <1>1, <2>1, <2>2 DEF PlacesApart, EachIsHeld, QueuedIsFresh, Control!Send,
       Control!parked, ControlTyped
  <2>5. Control!QueueIsNoticed' /\ Control!CapturesAreTheirs'
    BY <1>0, <1>1, <2>1 DEF Control!QueueIsNoticed, Control!CapturesAreTheirs, Control!Send,
       Control!parked, ControlTyped
  <2> QED BY <2>2, <2>3, <2>4, <2>5 DEF ControlInv
<1>2. ASSUME NEW c \in Callers, Control!Wake(c) PROVE ControlInv'
  BY <1>0, <1>2 DEF ControlInv, ControlTyped, PlacesApart, EachIsHeld, QueuedIsFresh,
     Control!QueueIsNoticed, Control!CapturesAreTheirs, Control!Wake, Control!parked
<1>3. ASSUME NEW c \in Callers, Control!Told(c) PROVE ControlInv'
  BY <1>0, <1>3 DEF ControlInv, ControlTyped, PlacesApart, EachIsHeld, QueuedIsFresh,
     Control!QueueIsNoticed, Control!CapturesAreTheirs, Control!Told, Control!parked
<1>4. ASSUME NEW c \in Callers, Control!DropLate(c) PROVE ControlInv'
  BY <1>0, <1>4 DEF ControlInv, ControlTyped, PlacesApart, EachIsHeld, QueuedIsFresh,
     Control!QueueIsNoticed, Control!CapturesAreTheirs, Control!DropLate, Control!parked
<1>5. CASE Control!Event \/ Control!Drained \/ Control!OutputComes
  BY <1>0, <1>5 DEF ControlInv, ControlTyped, PlacesApart, EachIsHeld, QueuedIsFresh,
     Control!QueueIsNoticed, Control!CapturesAreTheirs, Control!Event, Control!Drained,
     Control!OutputComes, Control!parked
\* What the frame, the window and the lock answer moves from where it was kept.
<1>6. ASSUME UNCHANGED <<thread, kind, queue, wake, draining, ran>>, output' \in BOOLEAN,
             shot' \in {shot, {}}, shot' # {} => output',
             settling' \subseteq settling, locking' \subseteq locking,
             sent' = sent \cup ((shot \ shot') \ {Nobody}) \cup (settling \ settling')
                          \cup (locking \ locking')
      PROVE  ControlInv'
  <2>1. ControlTyped' BY <1>0, <1>6 DEF ControlTyped
  <2>2. PlacesApart' BY <1>0, <1>6, <1>a DEF PlacesApart
  <2>3. EachIsHeld' BY <1>0, <1>6, <1>a DEF EachIsHeld
  <2> QED BY <1>0, <1>6, <2>1, <2>2, <2>3 DEF ControlInv, QueuedIsFresh, Control!QueueIsNoticed,
          Control!CapturesAreTheirs
<1>7. CASE Control!Frame \/ Control!OutputGoes \/ Control!Locked
  BY <1>0, <1>6, <1>7 DEF Control!Frame, Control!OutputGoes, Control!Locked, ControlTyped,
     Control!CapturesAreTheirs
<1>8. ASSUME NEW c \in Callers, Control!Settle(c) PROVE ControlInv'
  BY <1>0, <1>6, <1>8 DEF Control!Settle, ControlTyped, Control!CapturesAreTheirs
<1>9. CASE Control!Dispatch
  <2> DEFINE c == Head(queue)
             was == ControlRange(queue)
  <2>1. /\ queue' \in Seq(Callers) /\ Control!IsInjective(queue')
        /\ c \in Callers /\ c \in was /\ ControlRange(queue') = was \ {c}
    BY <1>0, <1>9, TakenOut DEF Control!Dispatch, ControlTyped
  <2>2. /\ ran' = [ran EXCEPT ![c] = @ + 1] /\ draining
        /\ UNCHANGED <<thread, kind, wake, draining, output>>
    BY <1>9 DEF Control!Dispatch
  <2>3. c \notin shot \cup settling \cup locking \cup sent
    BY <1>0, <2>1 DEF PlacesApart
  <2>4. ran' \in [Callers -> 0..1] /\ \A x \in was \ {c} : ran'[x] = 0
    BY <1>0, <2>1, <2>2 DEF QueuedIsFresh, ControlTyped
  <2>5. \/ sent' = sent \cup {c} /\ UNCHANGED <<shot, settling, locking>>
        \/ /\ kind[c] = "screenshot" /\ output /\ shot' = {c} /\ UNCHANGED <<settling, locking>>
           /\ sent' = sent \cup (shot \ {Nobody})
        \/ /\ output /\ shot' = {Nobody} /\ UNCHANGED <<settling, locking>>
           /\ sent' = sent \cup (shot \ {Nobody}) \cup {c}
        \/ settling' = settling \cup {c} /\ UNCHANGED <<sent, shot, locking>>
        \/ locking' = locking \cup {c} /\ UNCHANGED <<sent, shot, settling>>
    BY <1>9 DEF Control!Dispatch, Control!Answer, Control!Park, Control!ScreenshotAction,
       Control!parked
  <2> HIDE DEF c, was
  <2>6. ControlTyped'
    BY <1>0, <1>a, <2>1, <2>2, <2>4, <2>5 DEF ControlTyped
  <2>7. PlacesApart'
    <3>1. /\ was \cap shot = {} /\ was \cap settling = {} /\ was \cap locking = {}
          /\ was \cap sent = {}
      BY <1>0 DEF PlacesApart, was
    <3>2. was \subseteq Callers BY <1>0 DEF was, ControlRange, ControlTyped
    <3>3. /\ shot \cap settling = {} /\ shot \cap locking = {} /\ shot \cap sent = {}
          /\ settling \cap locking = {} /\ settling \cap sent = {} /\ locking \cap sent = {}
          /\ settling \subseteq Callers /\ locking \subseteq Callers /\ sent \subseteq Callers
      BY <1>0 DEF PlacesApart, ControlTyped
    <3> DEFINE left == ControlRange(queue')
    <3>4. left = was \ {c} BY <2>1
    <3> HIDE DEF left
    <3>5. /\ left \cap shot' = {} /\ left \cap settling' = {} /\ left \cap locking' = {}
          /\ left \cap sent' = {}
      BY <1>a, <2>3, <2>5, <3>1, <3>2, <3>4
    <3>6. /\ shot' \cap settling' = {} /\ shot' \cap locking' = {} /\ shot' \cap sent' = {}
      BY <1>a, <2>1, <2>3, <2>5, <3>3
    <3>7. settling' \cap locking' = {} /\ settling' \cap sent' = {} /\ locking' \cap sent' = {}
      BY <1>a, <2>3, <2>5, <3>3
    <3>8. ControlRange(queue)' = left BY DEF left, ControlRange
    <3> QED BY <3>5, <3>6, <3>7, <3>8 DEF PlacesApart
  <2>8. EachIsHeld'
    <3>1. \A x \in Callers : thread[x] # "reading" =>
             x \in was \cup shot \cup settling \cup locking \cup sent
      BY <1>0 DEF EachIsHeld, was
    <3> QED BY <1>a, <2>1, <2>2, <2>5, <3>1 DEF EachIsHeld
  <2>9. QueuedIsFresh' BY <2>1, <2>4 DEF QueuedIsFresh
  <2>10. Control!QueueIsNoticed' BY <2>2 DEF Control!QueueIsNoticed
  <2>11. Control!CapturesAreTheirs'
    BY <1>0, <1>a, <2>2, <2>5 DEF Control!CapturesAreTheirs
  <2> QED BY <2>1, <2>6, <2>7, <2>8, <2>9, <2>10, <2>11 DEF ControlInv
<1>10. CASE UNCHANGED Control!vars
  BY <1>0, <1>10 DEF Control!vars, ControlInv, ControlTyped, PlacesApart, EachIsHeld, QueuedIsFresh,
     Control!QueueIsNoticed, Control!CapturesAreTheirs
<1> QED BY <1>1, <1>2, <1>3, <1>4, <1>5, <1>7, <1>8, <1>9, <1>10 DEF Control!Next

\* The invariant is what the run checks (ControlSocket).
LEMMA ControlServed == ControlInv => Control!TypeOK /\ Control!NobodyIsForgotten
<1> SUFFICES ASSUME ControlInv PROVE Control!TypeOK /\ Control!NobodyIsForgotten OBVIOUS
<1>1. Control!ToSet(queue) = ControlRange(queue) BY DEF Control!ToSet, ControlRange
<1>2. ControlRange(queue) \subseteq Callers BY DEF ControlInv, ControlTyped, ControlRange
<1>3. Control!Cardinality(shot) <= 1
  <2>1. \A S : Control!Cardinality(S) = Cardinality(S) BY DEF Control!Cardinality, Cardinality
  <2>2. CASE shot = {}
    <3>1. Cardinality(shot) = 0 BY <2>2, FS_EmptySet
    <3> QED BY <2>1, <3>1
  <2>3. ASSUME NEW c, shot = {c} PROVE Control!Cardinality(shot) <= 1
    <3>1. Cardinality(shot) = 1 BY <2>3, FS_Singleton
    <3> QED BY <2>1, <3>1
  <2> QED BY <2>2, <2>3 DEF ControlInv, ControlTyped
<1>4. Control!TypeOK
  BY <1>1, <1>2, <1>3 DEF ControlInv, ControlTyped, Control!TypeOK
<1>5. Control!OnePlaceEach
  <2> DEFINE place == <<Control!ToSet(queue), shot, settling, locking, sent>>
  <2>1. \A i, j \in DOMAIN place : i # j => place[i] \cap place[j] = {}
    <3>1. DOMAIN place = 1..5 OBVIOUS
    <3>2. /\ place[1] = ControlRange(queue) /\ place[2] = shot /\ place[3] = settling
          /\ place[4] = locking /\ place[5] = sent
      BY <1>1
    <3> HIDE DEF place
    <3> QED BY <3>1, <3>2 DEF ControlInv, PlacesApart
  <2>2. \A c \in Callers : thread[c] # "reading" => Control!Held(c)
    BY <1>1 DEF ControlInv, EachIsHeld, Control!Held
  <2> QED BY <2>1, <2>2 DEF Control!OnePlaceEach, ControlInv
<1> QED BY <1>4, <1>5 DEF Control!NobodyIsForgotten, ControlInv

-----------------------------------------------------------------------------
(* Restarting apps (RestartApp).                                           *)

\* A process is restarted once at a time.
OneRestartEach == \A r, s \in restarts : r.pid = s.pid => r = s

\* How far a restart has come: a tick is counted once, so it is looked at before it
\* is a tick too old, it is signalled at its times, and what was killed is gone
\* before time passes.
InTime(r) ==
    /\ r.killed => r.termed
    /\ r.termed => r.force
    /\ ~r.termed => r.since = 0 /\ (IF due THEN r.age <= Grace ELSE r.age < Grace)
    /\ r.termed => r.age = Grace + r.since
    /\ r.termed /\ ~r.killed => IF due THEN r.since <= KillAfterTerm ELSE r.since < KillAfterTerm
    /\ r.killed => \/ r.since = KillAfterTerm
                   \/ r.since = KillAfterTerm + 1 /\ due /\ proc[r.pid] = "exited"

RestartTyped ==
    /\ proc \in [Processes -> {"absent", "alive", "exited"}]
    /\ open \in [Processes -> 0..MaxWindows]
    /\ entries \subseteq Restart!Entry
    /\ armed \in BOOLEAN /\ due \in BOOLEAN /\ noTimer \in BOOLEAN
    /\ callers \subseteq Processes

RestartInv ==
    /\ RestartTyped /\ restarts \subseteq Restart!Restart
    /\ OneRestartEach /\ \A r \in restarts : InTime(r)
    /\ callers = Restart!Pending /\ (restarts # {} => armed)
    /\ Restart!NoEntryForWindowsThatStay

\* The fields of a restart and of an entry.
LEMMA RestartFields ==
    /\ \A r \in Restart!Restart : /\ r.pid \in Processes /\ r.force \in BOOLEAN
                                  /\ r.age \in 0..(Grace + KillAfterTerm + 1)
                                  /\ r.termed \in BOOLEAN /\ r.since \in 0..(KillAfterTerm + 1)
                                  /\ r.killed \in BOOLEAN
    /\ \A e \in Restart!Entry : e.pid \in Processes /\ e.n \in 1..MaxWindows /\ e.left \in 0..EntryLife
BY DEF Restart!Restart, Restart!Entry

\* Signals and ticks change these fields of a restart, and no other.
LEMMA PutTermed ==
    ASSUME NEW r \in Restart!Restart, NEW x \in BOOLEAN
    PROVE  LET s == [r EXCEPT !.termed = x] IN
           /\ s \in Restart!Restart
           /\ s.pid = r.pid /\ s.force = r.force /\ s.age = r.age /\ s.termed = x
           /\ s.since = r.since /\ s.killed = r.killed
BY DEF Restart!Restart

\* As above, for the second signal.
LEMMA PutKilled ==
    ASSUME NEW r \in Restart!Restart, NEW x \in BOOLEAN
    PROVE  LET s == [r EXCEPT !.killed = x] IN
           /\ s \in Restart!Restart
           /\ s.pid = r.pid /\ s.force = r.force /\ s.age = r.age /\ s.termed = r.termed
           /\ s.since = r.since /\ s.killed = x
BY DEF Restart!Restart

\* Restarting apps starts well.
LEMMA RestartInit == Restart!Init => RestartInv
<1> SUFFICES ASSUME Restart!Init PROVE RestartInv OBVIOUS
<1>1. RestartTyped
  <2>1. 0 \in 0..MaxWindows BY RestartAssumption
  <2> QED BY <2>1 DEF Restart!Init, RestartTyped
<1> QED BY <1>1 DEF Restart!Init, RestartInv, OneRestartEach, Restart!Pending,
           Restart!NoEntryForWindowsThatStay

\* The first signal of an overdue restart (poll_app_restarts).
LEMMA SignalTerm ==
    ASSUME NEW r \in Restart!Restart, Restart!Overdue(r)
    PROVE  LET s == Restart!Signalled(r) IN
           /\ s \in Restart!Restart
           /\ s.pid = r.pid /\ s.force = r.force /\ s.age = r.age /\ s.termed = TRUE
           /\ s.since = r.since /\ s.killed = r.killed
<1>1. Restart!Signalled(r) = [r EXCEPT !.termed = TRUE]
  BY DEF Restart!Signalled, Restart!Overdue
<1>2. TRUE \in BOOLEAN OBVIOUS
<1> QED BY <1>1, <1>2, PutTermed

\* The second.
LEMMA SignalKill ==
    ASSUME NEW r \in Restart!Restart, r.termed, ~r.killed, r.since >= KillAfterTerm
    PROVE  LET s == Restart!Signalled(r) IN
           /\ s \in Restart!Restart
           /\ s.pid = r.pid /\ s.force = r.force /\ s.age = r.age /\ s.termed = r.termed
           /\ s.since = r.since /\ s.killed = TRUE
<1>1. Restart!Signalled(r) = [r EXCEPT !.killed = TRUE]
  BY DEF Restart!Signalled, Restart!Overdue
<1>2. TRUE \in BOOLEAN OBVIOUS
<1> QED BY <1>1, <1>2, PutKilled

\* A restart that is looked at is that of the process it was, and again in time.
LEMMA SignalledInTime ==
    ASSUME NEW r \in Restart!Restart, InTime(r), due, due' = FALSE, proc' = proc,
           proc[r.pid] # "exited", Restart!Overdue(r) => r.force
    PROVE  /\ Restart!Signalled(r) \in Restart!Restart
           /\ Restart!Signalled(r).pid = r.pid /\ InTime(Restart!Signalled(r))'
<1> DEFINE s == Restart!Signalled(r)
<1>0. /\ r.age \in Nat /\ r.since \in Nat /\ r.termed \in BOOLEAN /\ r.killed \in BOOLEAN
      /\ r.force \in BOOLEAN
  BY RestartFields, RestartAssumption
<1>1. CASE Restart!Overdue(r)
  <2>1. /\ s \in Restart!Restart
        /\ s.pid = r.pid /\ s.force = r.force /\ s.age = r.age /\ s.termed = TRUE
        /\ s.since = r.since /\ s.killed = r.killed
    BY <1>1, SignalTerm
  <2>2. ~r.termed /\ r.age = Grace /\ r.since = 0 /\ ~r.killed /\ r.force
    BY <1>0, <1>1, RestartAssumption DEF InTime, Restart!Overdue
  <2> HIDE DEF s
  <2>3. InTime(s)' BY <1>0, <2>1, <2>2, RestartAssumption DEF InTime
  <2> QED BY <2>1, <2>3 DEF s
<1>2. CASE r.termed /\ ~r.killed /\ r.since >= KillAfterTerm
  <2>1. /\ s \in Restart!Restart
        /\ s.pid = r.pid /\ s.force = r.force /\ s.age = r.age /\ s.termed = r.termed
        /\ s.since = r.since /\ s.killed = TRUE
    BY <1>2, SignalKill
  <2>2. r.since = KillAfterTerm /\ r.force = TRUE /\ r.age = Grace + r.since /\ r.termed = TRUE
    BY <1>0, <1>2, RestartAssumption DEF InTime
  <2> HIDE DEF s
  <2>3. s.since = KillAfterTerm /\ s.force = TRUE /\ s.age = Grace + s.since /\ s.termed = TRUE
    BY <2>1, <2>2
  <2>4. InTime(s)' BY <2>1, <2>3 DEF InTime
  <2> QED BY <2>1, <2>4 DEF s
<1>3. CASE ~Restart!Overdue(r) /\ ~(r.termed /\ ~r.killed /\ r.since >= KillAfterTerm)
  <2>1. s = r BY <1>3 DEF Restart!Signalled
  <2>2. InTime(r)'
    BY <1>0, <1>3, RestartAssumption DEF InTime, Restart!Overdue
  <2> QED BY <2>1, <2>2
<1> QED BY <1>1, <1>2, <1>3

\* A restart a tick later (Tick).
Aged(r) == [r EXCEPT !.age = @ + 1, !.since = IF r.termed THEN @ + 1 ELSE 0]

\* After a tick a restart is due, and in time.
LEMMA AgedInTime ==
    ASSUME NEW r \in Restart!Restart, InTime(r), ~due, due' = TRUE, proc' = proc,
           r.killed => proc[r.pid] = "exited"
    PROVE  Aged(r) \in Restart!Restart /\ Aged(r).pid = r.pid /\ InTime(Aged(r))'
<1> DEFINE a == r.age + 1
           b == IF r.termed THEN r.since + 1 ELSE 0
<1>0. /\ r.age \in Nat /\ r.since \in Nat /\ r.termed \in BOOLEAN /\ r.killed \in BOOLEAN
      /\ r.force \in BOOLEAN
  BY RestartFields, RestartAssumption
<1>1. a \in 0..(Grace + KillAfterTerm + 1) /\ b \in 0..(KillAfterTerm + 1)
  BY <1>0, RestartAssumption DEF InTime
<1>2. Aged(r) = [r EXCEPT !.age = a, !.since = b] BY DEF Aged
<1> HIDE DEF a, b
<1> DEFINE s == [r EXCEPT !.age = a, !.since = b]
<1>3. /\ s \in Restart!Restart
      /\ s.pid = r.pid /\ s.force = r.force /\ s.age = a /\ s.termed = r.termed
      /\ s.since = b /\ s.killed = r.killed
  BY <1>1 DEF Restart!Restart
<1> HIDE DEF s
<1>4. InTime(s)'
  BY <1>0, <1>3, RestartAssumption DEF InTime, a, b
<1>5. Aged(r) = s BY <1>2 DEF s
<1> QED BY <1>3, <1>4, <1>5

\* Each operation keeps the restarts and their callers (restart_app.rs).
LEMMA RestartNext == RestartInv /\ [Restart!Next]_(Restart!vars) => RestartInv'
<1> SUFFICES ASSUME RestartInv, [Restart!Next]_(Restart!vars) PROVE RestartInv'
  OBVIOUS
<1>0. /\ RestartTyped /\ restarts \subseteq Restart!Restart
      /\ OneRestartEach /\ (\A r \in restarts : InTime(r))
      /\ callers = Restart!Pending /\ (restarts # {} => armed)
      /\ Restart!NoEntryForWindowsThatStay
  BY DEF RestartInv
<1>a. \A r \in restarts : r.pid \in Restart!Pending BY DEF Restart!Pending
<1>b. \A e \in entries : e.pid \in Processes BY <1>0, RestartFields DEF RestartTyped
\* What the processes do concerns no restart that is under way.
<1>1. ASSUME RestartTyped', UNCHANGED <<restarts, due, callers, armed, noTimer>>,
             entries' \subseteq entries \/ \A e \in entries' : \E f \in entries : e.pid = f.pid,
             \A p \in Processes : proc[p] = "exited" =>
                proc'[p] = "exited" \/ (p \notin Restart!Pending /\ \A e \in entries : e.pid # p)
      PROVE  RestartInv'
  <2>1. \A r \in restarts : r.pid \in Processes BY <1>0, RestartFields
  <2>2. \A r \in restarts : InTime(r)' BY <1>0, <1>1, <1>a, <2>1 DEF InTime
  <2>3. Restart!NoEntryForWindowsThatStay'
    BY <1>0, <1>1, <1>b DEF Restart!NoEntryForWindowsThatStay, Restart!Pending
  <2> QED BY <1>0, <1>1, <2>2, <2>3 DEF RestartInv, OneRestartEach, Restart!Pending
<1>2. ASSUME NEW p \in Processes, Restart!Launch(p) PROVE RestartInv'
  <2>1. RestartTyped' BY <1>0, <1>2 DEF RestartTyped, Restart!Launch
  <2>2. \A q \in Processes : proc[q] = "exited" =>
          proc'[q] = "exited" \/ (q \notin Restart!Pending /\ \A e \in entries : e.pid # q)
    BY <1>0, <1>2 DEF RestartTyped, Restart!Launch
  <2> QED BY <1>1, <1>2, <2>1, <2>2 DEF Restart!Launch
<1>3. ASSUME NEW p \in Processes, Restart!MapWindow(p) PROVE RestartInv'
  <2>1. entries' \subseteq entries BY <1>3 DEF Restart!MapWindow, Restart!InDate
  <2>2. open' \in [Processes -> 0..MaxWindows]
    <3>1. open[p] + 1 \in 0..MaxWindows
      BY <1>0, <1>3, RestartAssumption DEF RestartTyped, Restart!MapWindow
    <3> QED BY <1>0, <1>3, <3>1 DEF RestartTyped, Restart!MapWindow
  <2>3. RestartTyped' BY <1>0, <1>3, <2>1, <2>2 DEF RestartTyped, Restart!MapWindow
  <2> QED BY <1>1, <1>3, <2>1, <2>3 DEF Restart!MapWindow
<1>4. ASSUME NEW p \in Processes, Restart!CloseWindow(p) PROVE RestartInv'
  <2>1. open' \in [Processes -> 0..MaxWindows]
    <3>1. open[p] - 1 \in 0..MaxWindows
      BY <1>0, <1>4, RestartAssumption DEF RestartTyped, Restart!CloseWindow
    <3> QED BY <1>0, <1>4, <3>1 DEF RestartTyped, Restart!CloseWindow
  <2>2. RestartTyped' BY <1>0, <1>4, <2>1 DEF RestartTyped, Restart!CloseWindow
  <2> QED BY <1>1, <1>4, <2>2 DEF Restart!CloseWindow
<1>5. ASSUME NEW p \in Processes, Restart!Exit(p) PROVE RestartInv'
  <2>1. 0 \in 0..MaxWindows BY RestartAssumption
  <2>2. RestartTyped' BY <1>0, <1>5, <2>1 DEF RestartTyped, Restart!Exit
  <2>3. \A q \in Processes : proc[q] = "exited" => proc'[q] = "exited"
    BY <1>0, <1>5 DEF RestartTyped, Restart!Exit
  <2> QED BY <1>1, <1>5, <2>2, <2>3 DEF Restart!Exit
<1>6. ASSUME NEW p \in Processes, NEW force \in BOOLEAN, Restart!RestartCommand(p, force)
      PROVE  RestartInv'
  <2>1. /\ entries' = Restart!Kept(p) /\ UNCHANGED <<proc, open, due>> /\ p \notin Restart!Pending
    BY <1>6 DEF Restart!RestartCommand
  <2>2. entries' \subseteq Restart!Entry /\ \A e \in entries' : e \in entries \/ e.pid = p
    <3>1. open[p] \in 0..MaxWindows /\ open[p] \in Nat BY <1>0, RestartAssumption DEF RestartTyped
    <3>2. \A n \in 1..open[p] : n \in 1..MaxWindows BY <3>1, RestartAssumption
    <3>3. EntryLife \in 0..EntryLife BY RestartAssumption
    <3>4. \A e \in [pid : {p}, n : 1..open[p], left : {EntryLife}] :
             e \in Restart!Entry /\ e.pid = p
      BY <3>2, <3>3 DEF Restart!Entry
    <3> QED BY <1>0, <2>1, <3>4 DEF Restart!Kept, Restart!InDate, RestartTyped
  <2>3. CASE /\ restarts' = restarts \cup
                    {[pid |-> p, force |-> force, age |-> 0, termed |-> FALSE,
                      since |-> 0, killed |-> FALSE]}
             /\ callers' = callers \cup {p} /\ armed' = TRUE /\ noTimer' = noTimer
    <3> DEFINE r == [pid |-> p, force |-> force, age |-> 0, termed |-> FALSE,
                     since |-> 0, killed |-> FALSE]
    <3>1. 0 \in 0..(Grace + KillAfterTerm + 1) /\ 0 \in 0..(KillAfterTerm + 1)
      BY RestartAssumption
    <3>2. FALSE \in BOOLEAN OBVIOUS
    <3>3. r \in Restart!Restart BY <3>1, <3>2 DEF Restart!Restart
    <3>4. r.pid = p /\ r.age = 0 /\ ~r.termed /\ r.since = 0 /\ ~r.killed OBVIOUS
    <3>5. restarts' = restarts \cup {r} BY <2>3
    <3> HIDE DEF r
    <3>6. InTime(r)' BY <3>4, RestartAssumption DEF InTime
    <3>7. \A s \in restarts : InTime(s)' BY <1>0, <2>1 DEF InTime
    <3>8. OneRestartEach' BY <1>0, <1>a, <2>1, <3>4, <3>5 DEF OneRestartEach
    <3>9. callers' = Restart!Pending' BY <1>0, <2>3, <3>4, <3>5 DEF Restart!Pending
    <3>10. Restart!NoEntryForWindowsThatStay'
      BY <1>0, <2>1, <2>2, <2>3, <3>4, <3>5 DEF Restart!NoEntryForWindowsThatStay, Restart!Pending
    <3>11. RestartTyped' BY <1>0, <2>1, <2>2, <2>3 DEF RestartTyped
    <3> QED BY <1>0, <2>3, <3>3, <3>5, <3>6, <3>7, <3>8, <3>9, <3>10, <3>11 DEF RestartInv
  <2>4. CASE noTimer' = TRUE /\ restarts' = {} /\ callers' = {} /\ armed' = armed
    <3>1. RestartTyped' BY <1>0, <2>1, <2>2, <2>4 DEF RestartTyped
    <3> QED BY <2>4, <3>1 DEF RestartInv, OneRestartEach, Restart!Pending,
            Restart!NoEntryForWindowsThatStay
  <2> QED BY <1>6, <2>3, <2>4 DEF Restart!RestartCommand
<1>7. CASE Restart!PollAppRestarts
  <2> DEFINE over == Restart!Exited \cup Restart!GivenUp
  <2>1. /\ due /\ due' = FALSE
        /\ restarts' = {Restart!Signalled(r) : r \in restarts \ over}
        /\ entries' = {e \in entries : \A r \in Restart!GivenUp : e.pid # r.pid}
        /\ callers' = callers \ {r.pid : r \in over}
        /\ armed' = (restarts' # {}) /\ UNCHANGED <<proc, open, noTimer>>
    BY <1>7 DEF Restart!PollAppRestarts
  <2>2. \A r \in restarts \ over :
           /\ Restart!Signalled(r) \in Restart!Restart
           /\ Restart!Signalled(r).pid = r.pid /\ InTime(Restart!Signalled(r))'
    <3> SUFFICES ASSUME NEW r \in restarts \ over
                 PROVE  /\ Restart!Signalled(r) \in Restart!Restart
                        /\ Restart!Signalled(r).pid = r.pid /\ InTime(Restart!Signalled(r))'
      OBVIOUS
    <3>1. proc[r.pid] # "exited" /\ (Restart!Overdue(r) => r.force)
      BY DEF Restart!Exited, Restart!GivenUp
    <3>2. r \in Restart!Restart /\ InTime(r) BY <1>0
    <3> HIDE DEF over
    <3> QED BY <2>1, <3>1, <3>2, SignalledInTime
  <2>3. over \subseteq restarts BY DEF Restart!Exited, Restart!GivenUp
  <2>4. \A e \in entries' : noTimer \/ proc[e.pid] = "exited" \/ \E r \in restarts \ over : e.pid = r.pid
    <3> SUFFICES ASSUME NEW e \in entries', ~noTimer, proc[e.pid] # "exited"
                 PROVE  \E r \in restarts \ over : e.pid = r.pid
      OBVIOUS
    <3>1. e \in entries /\ \A r \in Restart!GivenUp : e.pid # r.pid BY <2>1
    <3>2. PICK r \in restarts : e.pid = r.pid
      BY <1>0, <3>1 DEF Restart!NoEntryForWindowsThatStay, Restart!Pending
    <3> QED BY <3>1, <3>2 DEF Restart!Exited
  <2> HIDE DEF over
  <2>5. restarts' \subseteq Restart!Restart /\ \A r \in restarts' : InTime(r)'
    BY <2>1, <2>2
  <2>6. OneRestartEach' BY <1>0, <2>1, <2>2 DEF OneRestartEach
  <2>7. Restart!Pending' = {r.pid : r \in restarts \ over}
    BY <2>1, <2>2 DEF Restart!Pending
  <2>8. callers' = Restart!Pending'
    <3>1. callers = {r.pid : r \in restarts} BY <1>0 DEF Restart!Pending
    <3>2. \A r \in restarts \ over, s \in over : r.pid # s.pid
      BY <1>0, <2>3 DEF OneRestartEach
    <3> QED BY <2>1, <2>3, <2>7, <3>1, <3>2
  <2>9. Restart!NoEntryForWindowsThatStay'
    BY <2>1, <2>4, <2>7 DEF Restart!NoEntryForWindowsThatStay
  <2>10. RestartTyped'
    <3>1. armed' \in BOOLEAN BY <2>1
    <3>2. entries' \subseteq Restart!Entry BY <1>0, <2>1 DEF RestartTyped
    <3>3. callers' \subseteq Processes BY <1>0, <2>1 DEF RestartTyped
    <3> QED BY <1>0, <2>1, <3>1, <3>2, <3>3 DEF RestartTyped
  <2> QED BY <2>1, <2>5, <2>6, <2>8, <2>9, <2>10 DEF RestartInv
<1>8. CASE Restart!Tick
  <2>1. /\ restarts' = {Aged(r) : r \in restarts}
        /\ entries' = {[e EXCEPT !.left = IF @ > 0 THEN @ - 1 ELSE 0] : e \in entries}
        /\ due' = TRUE /\ UNCHANGED <<proc, open, armed, callers, noTimer>>
        /\ ~(armed /\ due) /\ \A r \in restarts : r.killed => proc[r.pid] = "exited"
    BY <1>8 DEF Restart!Tick, Aged
  <2>2. \A r \in restarts : Aged(r) \in Restart!Restart /\ Aged(r).pid = r.pid /\ InTime(Aged(r))'
    BY <1>0, <2>1, AgedInTime
  <2>3. \A e \in entries :
          LET f == [e EXCEPT !.left = IF @ > 0 THEN @ - 1 ELSE 0] IN f \in Restart!Entry /\ f.pid = e.pid
    <3> SUFFICES ASSUME NEW e \in entries
                 PROVE  LET f == [e EXCEPT !.left = IF @ > 0 THEN @ - 1 ELSE 0]
                        IN  f \in Restart!Entry /\ f.pid = e.pid
      OBVIOUS
    <3>1. e \in Restart!Entry /\ e.left \in 0..EntryLife BY <1>0, RestartFields DEF RestartTyped
    <3> DEFINE x == IF e.left > 0 THEN e.left - 1 ELSE 0
    <3>2. x \in 0..EntryLife BY <3>1, RestartAssumption
    <3>3. [e EXCEPT !.left = IF @ > 0 THEN @ - 1 ELSE 0] = [e EXCEPT !.left = x] OBVIOUS
    <3> HIDE DEF x
    <3>4. [e EXCEPT !.left = x] \in Restart!Entry /\ [e EXCEPT !.left = x].pid = e.pid
      BY <3>1, <3>2 DEF Restart!Entry
    <3> QED BY <3>3, <3>4
  <2>4. restarts' \subseteq Restart!Restart /\ \A r \in restarts' : InTime(r)'
    BY <2>1, <2>2
  <2>5. OneRestartEach' BY <1>0, <2>1, <2>2 DEF OneRestartEach
  <2>6. Restart!Pending' = Restart!Pending
    BY <2>1, <2>2 DEF Restart!Pending
  <2>7. entries' \subseteq Restart!Entry /\ \A e \in entries' : \E f \in entries : e.pid = f.pid
    BY <2>1, <2>3
  <2>8. Restart!NoEntryForWindowsThatStay'
    BY <1>0, <2>1, <2>6, <2>7 DEF Restart!NoEntryForWindowsThatStay
  <2>9. RestartTyped' BY <1>0, <2>1, <2>7 DEF RestartTyped
  <2>10. restarts' # {} => armed' BY <1>0, <2>1
  <2> QED BY <1>0, <2>1, <2>4, <2>5, <2>6, <2>8, <2>9, <2>10 DEF RestartInv
<1>9. CASE UNCHANGED Restart!vars
  BY <1>0, <1>9 DEF Restart!vars, RestartInv, RestartTyped, OneRestartEach, InTime, Restart!Pending,
     Restart!NoEntryForWindowsThatStay
<1> QED BY <1>2, <1>3, <1>4, <1>5, <1>6, <1>7, <1>8, <1>9 DEF Restart!Next

\* The invariant is what the run checks (RestartApp).
LEMMA RestartServed ==
    RestartInv => Restart!TypeOK /\ Restart!CallersAreServed /\ Restart!NoEntryForWindowsThatStay
<1> SUFFICES ASSUME RestartInv
             PROVE  Restart!TypeOK /\ Restart!CallersAreServed /\ Restart!NoEntryForWindowsThatStay
  OBVIOUS
<1>1. Restart!TypeOK BY DEF RestartInv, RestartTyped, Restart!TypeOK
<1>2. \A r \in restarts : r.age <= IF r.force THEN Grace + KillAfterTerm + 1 ELSE Grace
  <2> SUFFICES ASSUME NEW r \in restarts
               PROVE  r.age <= IF r.force THEN Grace + KillAfterTerm + 1 ELSE Grace
    OBVIOUS
  <2>1. /\ r.age \in Nat /\ r.since \in Nat /\ r.termed \in BOOLEAN /\ r.killed \in BOOLEAN
        /\ r.force \in BOOLEAN /\ InTime(r)
        /\ r.age <= Grace + KillAfterTerm + 1
    BY RestartFields, RestartAssumption DEF RestartInv
  <2> QED BY <2>1, RestartAssumption DEF InTime
<1> QED BY <1>1, <1>2 DEF RestartInv, Restart!CallersAreServed

-----------------------------------------------------------------------------
(* The streams (StreamServer).                                             *)

\* A set of natural numbers has a least one.
LEMMA LeastNat ==
    ASSUME NEW S, S \subseteq Nat, S # {}
    PROVE  \E x \in S : \A y \in S : x <= y
<1> DEFINE Less == {ss \in Nat \X Nat : ss[1] < ss[2]}
<1>1. IsWellFoundedOn(Less, Nat) BY NatLessThanWellFounded, Zenon DEF OpToRel
<1>2. PICK x \in S : \A y \in S : ~(<<y, x>> \in Less) BY <1>1, WFMin, Zenon
<1>3. ASSUME NEW y \in S PROVE x <= y
  <2>1. <<y, x>> \in Less <=> y < x OBVIOUS
  <2> QED BY <1>2, <2>1
<1> QED BY <1>3

\* The function Without is taken from, up to m; a value of it is made from the one
\* before.
KeepStep(s, R, f, n) ==
    IF n = 0 THEN <<>> ELSE IF s[n] \in R THEN f[n - 1] ELSE Append(f[n - 1], s[n])
KeepsTo(s, R, m, f) == f = [n \in 0..m |-> KeepStep(s, R, f, n)]

\* Without is the last value of that function (StreamServer).
LEMMA WithoutIs ==
    ASSUME NEW s, NEW R
    PROVE  Stream!Without(s, R) = (CHOOSE f : KeepsTo(s, R, Len(s), f))[Len(s)]
BY DEF Stream!Without, KeepsTo, KeepStep

\* There is such a function: each value is made from the one before.
LEMMA KeepsExists ==
    ASSUME NEW s, NEW R, NEW m \in Nat
    PROVE  \E f : KeepsTo(s, R, m, f)
<1> DEFINE none == {k \in Nat : ~\E f : KeepsTo(s, R, k, f)}
<1> SUFFICES ASSUME none # {} PROVE FALSE OBVIOUS
<1>1. PICK k \in none : \A y \in none : k <= y BY LeastNat
<1>2. \E f : KeepsTo(s, R, 0, f)
  <2> DEFINE f == [n \in 0..0 |-> <<>>]
  <2>1. \A n \in 0..0 : KeepStep(s, R, f, n) = <<>> BY DEF KeepStep
  <2>2. f = [n \in 0..0 |-> KeepStep(s, R, f, n)] BY <2>1
  <2> HIDE DEF f
  <2>3. KeepsTo(s, R, 0, f) BY <2>2 DEF KeepsTo
  <2> QED BY <2>3
<1>3. k # 0 /\ k \in Nat BY <1>2
<1>4. k - 1 \in Nat /\ k - 1 \notin none BY <1>1, <1>3
<1> HIDE DEF none
<1>5. PICK g : KeepsTo(s, R, k - 1, g) BY <1>4 DEF none
<1> DEFINE f == [n \in 0..k |-> KeepStep(s, R, g, n)]
<1>6. \A n \in 0..(k - 1) : f[n] = g[n]
  <2>1. \A n \in 0..(k - 1) : g[n] = KeepStep(s, R, g, n) BY <1>5 DEF KeepsTo
  <2>2. \A n \in 0..(k - 1) : n \in 0..k BY <1>3
  <2> QED BY <2>1, <2>2
<1>7. \A n \in 0..k : n # 0 => f[n - 1] = g[n - 1]
  <2>1. \A n \in 0..k : n # 0 => n - 1 \in 0..(k - 1) BY <1>3
  <2> QED BY <1>6, <2>1
<1>8. f = [n \in 0..k |-> KeepStep(s, R, f, n)]
  <2> DEFINE h == f
  <2>1. \A n \in 0..k : n # 0 => h[n - 1] = g[n - 1] BY <1>7
  <2> HIDE DEF h
  <2>2. \A n \in 0..k : KeepStep(s, R, h, n) = KeepStep(s, R, g, n)
    BY <2>1 DEF KeepStep
  <2>3. f = [n \in 0..k |-> KeepStep(s, R, h, n)] BY <2>2
  <2> QED BY <2>3 DEF h
<1> HIDE DEF f
<1>9. KeepsTo(s, R, k, f) BY <1>8 DEF KeepsTo
<1> QED BY <1>1, <1>9 DEF none

StreamRange(s) == {s[i] : i \in 1..Len(s)}
OneEach(s) == \A i, j \in 1..Len(s) : s[i] = s[j] => i = j

\* An element that is new keeps a sequence one of each.
LEMMA OneMore ==
    ASSUME NEW S, NEW s \in Seq(S), OneEach(s), NEW c \in S, c \notin StreamRange(s)
    PROVE  /\ Append(s, c) \in Seq(S) /\ OneEach(Append(s, c)) /\ Append(s, c) # <<>>
           /\ StreamRange(Append(s, c)) = StreamRange(s) \cup {c}
<1> DEFINE t == Append(s, c)
<1>1. /\ t \in Seq(S) /\ Len(t) = Len(s) + 1 /\ Len(s) \in Nat
      /\ t[Len(s) + 1] = c /\ \A i \in 1..Len(s) : t[i] = s[i]
  OBVIOUS
<1>0. t # <<>> BY <1>1
<1> HIDE DEF t
<1>2. StreamRange(t) = StreamRange(s) \cup {c}
  <2>1. c \in StreamRange(t) BY <1>1 DEF StreamRange
  <2>2. \A i \in 1..Len(s) : s[i] \in StreamRange(t) BY <1>1 DEF StreamRange
  <2>3. \A i \in 1..(Len(s) + 1) : t[i] \in StreamRange(s) \cup {c}
    <3> TAKE i \in 1..(Len(s) + 1)
    <3>1. CASE i = Len(s) + 1 BY <1>1, <3>1
    <3>2. CASE i \in 1..Len(s) BY <1>1, <3>2 DEF StreamRange
    <3> QED BY <1>1, <3>1, <3>2
  <2> QED BY <1>1, <2>1, <2>2, <2>3 DEF StreamRange
<1>3. OneEach(t) BY <1>1 DEF OneEach, StreamRange
<1> QED BY <1>0, <1>1, <1>2, <1>3 DEF t

\* What Without leaves: the others, one of each.
LEMMA WithoutLeaves ==
    ASSUME NEW S, NEW s \in Seq(S), OneEach(s), NEW R
    PROVE  /\ Stream!Without(s, R) \in Seq(S) /\ OneEach(Stream!Without(s, R))
           /\ StreamRange(Stream!Without(s, R)) = StreamRange(s) \ R
<1> DEFINE m == Len(s)
<1>1. m \in Nat OBVIOUS
<1>2. PICK f : KeepsTo(s, R, m, f) /\ Stream!Without(s, R) = f[m]
  BY <1>1, WithoutIs, KeepsExists
<1>3. \A n \in 0..m : f[n] = KeepStep(s, R, f, n) BY <1>2 DEF KeepsTo
<1> HIDE DEF m
<1>4. f[0] = <<>>
  <2>1. 0 \in 0..m BY <1>1
  <2> QED BY <1>3, <2>1 DEF KeepStep
<1>5. \A n \in 1..m : f[n] = IF s[n] \in R THEN f[n - 1] ELSE Append(f[n - 1], s[n])
  <2>1. \A n \in 1..m : n \in 0..m /\ n # 0 BY <1>1
  <2> QED BY <1>3, <2>1 DEF KeepStep
<1> DEFINE Good(n) == /\ f[n] \in Seq(S) /\ OneEach(f[n])
                      /\ StreamRange(f[n]) = {s[i] : i \in 1..n} \ R
           bad == {n \in 0..m : ~Good(n)}
<1>6. Good(0)
  <2>1. <<>> \in Seq(S) /\ OneEach(<<>>) /\ StreamRange(<<>>) = {} BY DEF OneEach, StreamRange
  <2> QED BY <1>4, <2>1
<1>7. ASSUME NEW n \in 1..m, Good(n - 1) PROVE Good(n)
  <2>1. {s[i] : i \in 1..n} = {s[i] : i \in 1..(n - 1)} \cup {s[n]}
    <3>1. 1..n = (1..(n - 1)) \cup {n} BY <1>1
    <3> QED BY <3>1
  <2>2. CASE s[n] \in R
    <3>1. f[n] = f[n - 1] BY <1>5, <2>2
    <3> QED BY <1>7, <2>1, <2>2, <3>1
  <2>3. CASE s[n] \notin R
    <3>1. f[n] = Append(f[n - 1], s[n]) BY <1>5, <2>3
    <3>2. s[n] \in S BY <1>1 DEF m
    <3>3. s[n] \notin {s[i] : i \in 1..(n - 1)}
      <4>1. \A i \in 1..(n - 1) : i \in 1..m /\ i # n BY <1>1
      <4> QED BY <4>1 DEF OneEach, m
    <3> DEFINE t == f[n - 1]
    <3>4. t \in Seq(S) /\ OneEach(t) /\ s[n] \notin StreamRange(t) BY <1>7, <3>3
    <3>5. StreamRange(t) = {s[i] : i \in 1..(n - 1)} \ R BY <1>7
    <3> HIDE DEF t
    <3>6. /\ Append(t, s[n]) \in Seq(S) /\ OneEach(Append(t, s[n]))
          /\ StreamRange(Append(t, s[n])) = StreamRange(t) \cup {s[n]}
      BY <3>2, <3>4, OneMore
    <3>7. f[n] = Append(t, s[n]) BY <3>1 DEF t
    <3> QED BY <2>1, <2>3, <3>5, <3>6, <3>7
  <2> QED BY <2>2, <2>3
<1>8. \A n \in 0..m : Good(n)
  <2> SUFFICES ASSUME bad # {} PROVE FALSE OBVIOUS
  <2>1. bad \subseteq Nat BY <1>1
  <2>2. PICK k \in bad : \A y \in bad : k <= y BY <2>1, LeastNat
  <2>3. k # 0 /\ k \in 0..m /\ ~Good(k) BY <1>6, <2>2
  <2>4. k \in 1..m /\ k - 1 \in 0..m /\ ~(k <= k - 1) BY <1>1, <2>3
  <2> HIDE DEF Good
  <2>5. Good(k - 1) BY <2>2, <2>4
  <2> QED BY <1>7, <2>3, <2>4, <2>5
<1> HIDE DEF Good
<1>9. Good(m)
  <2>1. m \in 0..m BY <1>1
  <2> QED BY <1>8, <2>1
<1> QED BY <1>2, <1>9 DEF StreamRange, m, Good

Frames == 0..MaxCommits

QueuesTyped ==
    /\ channel \in [Viewers -> Seq(Frames)]
    /\ \A c \in Viewers : Len(channel[c]) <= QueueLimit

StreamTyped ==
    /\ commits \in [Streamed -> Frames] /\ dirty \subseteq Streamed
    /\ target \in [Viewers -> Streamed]
    /\ hub \in Seq(Viewers) /\ OneEach(hub)
    /\ needsFrame \subseteq Viewers /\ kDue \subseteq Viewers
    /\ writer \subseteq Viewers /\ kGone \subseteq Viewers
    /\ shown \in [Viewers -> Frames]
    /\ pushed \in BOOLEAN /\ kWake \in BOOLEAN /\ kArmed \in BOOLEAN

StreamInv == StreamTyped /\ QueuesTyped /\ Stream!TickRuns

\* A sequence of viewers, for the streams' own operators.
LEMMA StreamSeqs ==
    ASSUME NEW S, NEW s \in Seq(S)
    PROVE  /\ Stream!ToSet(s) = StreamRange(s) /\ StreamRange(s) \subseteq S
           /\ Stream!IsInjective(s) <=> OneEach(s)
BY DEF Stream!ToSet, StreamRange, Stream!IsInjective, OneEach

\* The streams start well.
LEMMA StreamInit == Stream!Init => StreamInv
<1> SUFFICES ASSUME Stream!Init PROVE StreamInv OBVIOUS
<1>0. 0 \in Frames BY FeedAssumption DEF Frames
<1>1. <<>> \in Seq(Frames) /\ <<>> \in Seq(Viewers) /\ Len(<<>>) = 0 OBVIOUS
<1>2. commits \in [Streamed -> Frames] /\ shown \in [Viewers -> Frames]
  BY <1>0 DEF Stream!Init
<1>3. QueuesTyped
  <2>1. channel = [c \in Viewers |-> <<>>] BY DEF Stream!Init
  <2> QED BY <1>1, <2>1, FeedAssumption DEF QueuesTyped
<1>4. hub = <<>> /\ OneEach(hub) BY DEF Stream!Init, OneEach
<1>5. StreamTyped BY <1>1, <1>2, <1>4 DEF Stream!Init, StreamTyped
<1> QED BY <1>3, <1>4, <1>5 DEF StreamInv, Stream!TickRuns

\* Each operation keeps the streams (stream_server.rs, handle_stream_timer).
LEMMA StreamNext == StreamInv /\ [Stream!Next]_(Stream!vars) => StreamInv'
<1> SUFFICES ASSUME StreamInv, [Stream!Next]_(Stream!vars) PROVE StreamInv'
  OBVIOUS
<1>0. StreamTyped /\ QueuesTyped /\ Stream!TickRuns BY DEF StreamInv
<1>1. ASSUME NEW c \in Viewers, Stream!Accept(c) PROVE StreamInv'
  <2>1. c \notin StreamRange(hub) /\ hub' = Append(hub, c)
    BY <1>0, <1>1, StreamSeqs DEF Stream!Accept, StreamTyped
  <2>2. hub' \in Seq(Viewers) /\ OneEach(hub') BY <1>0, <2>1, OneMore DEF StreamTyped
  <2>3. QueuesTyped'
    <3>1. channel' = [channel EXCEPT ![c] = <<>>] BY <1>1 DEF Stream!Accept
    <3>2. <<>> \in Seq(Frames) /\ Len(<<>>) = 0 OBVIOUS
    <3> QED BY <1>0, <3>1, <3>2, FeedAssumption DEF QueuesTyped
  <2> QED BY <1>0, <1>1, <2>2, <2>3 DEF StreamInv, StreamTyped, Stream!TickRuns, Stream!Accept
<1>2. CASE Stream!WakeLoop \/ Stream!HandleWake
  BY <1>0, <1>2 DEF StreamInv, StreamTyped, QueuesTyped, Stream!TickRuns, Stream!WakeLoop,
     Stream!HandleWake
<1>3. ASSUME NEW c \in Viewers, Stream!HangUp(c) \/ Stream!KeepaliveDue(c) PROVE StreamInv'
  BY <1>0, <1>3 DEF StreamInv, StreamTyped, QueuesTyped, Stream!TickRuns, Stream!HangUp,
     Stream!KeepaliveDue
<1>4. ASSUME NEW c \in Viewers, Stream!WriteOut(c) PROVE StreamInv'
  <2>1. CASE channel[c] # <<>> /\ c \notin kGone
    <3>1. /\ shown' = [shown EXCEPT ![c] = Head(channel[c])]
          /\ channel' = [channel EXCEPT ![c] = Tail(@)]
          /\ UNCHANGED <<commits, dirty, target, hub, needsFrame, kDue, writer, kGone,
                         pushed, kWake, kArmed>>
      BY <1>4, <2>1 DEF Stream!WriteOut
    <3> DEFINE q == channel[c]
    <3>2. q \in Seq(Frames) /\ q # <<>> /\ Len(q) <= QueueLimit
      BY <1>0, <2>1 DEF QueuesTyped
    <3>3. channel' = [channel EXCEPT ![c] = Tail(q)] /\ shown' = [shown EXCEPT ![c] = Head(q)]
      BY <3>1
    <3> HIDE DEF q
    <3>4. Tail(q) \in Seq(Frames) /\ Head(q) \in Frames /\ Len(Tail(q)) <= QueueLimit
      BY <3>2, FeedAssumption
    <3>5. QueuesTyped' BY <1>0, <3>3, <3>4 DEF QueuesTyped
    <3>6. shown' \in [Viewers -> Frames] BY <1>0, <3>3, <3>4 DEF StreamTyped
    <3> QED BY <1>0, <3>1, <3>5, <3>6 DEF StreamInv, StreamTyped, Stream!TickRuns
  <2>2. CASE ~(channel[c] # <<>> /\ c \notin kGone)
    <3>1. /\ writer' = writer \ {c}
          /\ UNCHANGED <<commits, dirty, target, hub, needsFrame, kDue, kGone, shown, channel,
                         pushed, kWake, kArmed>>
      BY <1>4, <2>2 DEF Stream!WriteOut
    <3> QED BY <1>0, <3>1 DEF StreamInv, StreamTyped, QueuesTyped, Stream!TickRuns
  <2> QED BY <2>1, <2>2
<1>5. ASSUME NEW w \in Streamed, Stream!Commit(w) PROVE StreamInv'
  <2>1. commits[w] + 1 \in Frames
    BY <1>0, <1>5, FeedAssumption DEF StreamTyped, Stream!Commit, Frames
  <2>2. commits' \in [Streamed -> Frames] BY <1>0, <1>5, <2>1 DEF StreamTyped, Stream!Commit
  <2> QED BY <1>0, <1>5, <2>2 DEF StreamInv, StreamTyped, QueuesTyped, Stream!TickRuns,
          Stream!Commit
<1>6. CASE Stream!StreamTick
  <2>1. PICK failed \in SUBSET Streamed :
          LET offered == {c \in Stream!Offered : target[c] \notin failed}
              served == {c \in offered : Stream!Fits(c)}
          IN  /\ channel' = [c \in Viewers |->
                               IF c \in served THEN Append(channel[c], commits[target[c]]) ELSE channel[c]]
              /\ needsFrame' = needsFrame \ served /\ kDue' = kDue \ served
              /\ dirty' = dirty \ {target[c] : c \in offered}
              /\ hub' = Stream!Without(hub, offered \ writer)
              /\ kArmed' = (hub # <<>>)
    BY <1>6 DEF Stream!StreamTick
  <2> DEFINE offered == {c \in Stream!Offered : target[c] \notin failed}
             served == {c \in offered : Stream!Fits(c)}
  <2>2. /\ channel' = [c \in Viewers |->
             IF c \in served THEN Append(channel[c], commits[target[c]]) ELSE channel[c]]
        /\ needsFrame' \subseteq needsFrame /\ kDue' \subseteq kDue /\ dirty' \subseteq dirty
        /\ hub' = Stream!Without(hub, offered \ writer) /\ kArmed' = (hub # <<>>)
        /\ UNCHANGED <<commits, target, writer, kGone, shown, pushed, kWake>>
    BY <1>6, <2>1 DEF Stream!StreamTick
  <2>3. \A c \in served : Len(channel[c]) < QueueLimit BY DEF Stream!Fits
  <2> HIDE DEF served, offered
  <2>4. QueuesTyped'
    <3>1. \A c \in Viewers :
            LET q == IF c \in served THEN Append(channel[c], commits[target[c]]) ELSE channel[c]
            IN  q \in Seq(Frames) /\ Len(q) <= QueueLimit
      <4> SUFFICES ASSUME NEW c \in Viewers
                   PROVE  LET q == IF c \in served THEN Append(channel[c], commits[target[c]])
                                   ELSE channel[c]
                          IN  q \in Seq(Frames) /\ Len(q) <= QueueLimit
        OBVIOUS
      <4>1. channel[c] \in Seq(Frames) /\ Len(channel[c]) <= QueueLimit
            /\ commits[target[c]] \in Frames
        BY <1>0 DEF QueuesTyped, StreamTyped
      <4>2. CASE c \in served
        <5>1. Len(channel[c]) + 1 <= QueueLimit BY <2>3, <4>1, <4>2, FeedAssumption
        <5> DEFINE q == channel[c]
                   x == commits[target[c]]
        <5>2. q \in Seq(Frames) /\ x \in Frames /\ Len(q) + 1 <= QueueLimit BY <4>1, <5>1
        <5> HIDE DEF q, x
        <5>3. Append(q, x) \in Seq(Frames) /\ Len(Append(q, x)) <= QueueLimit BY <5>2
        <5> QED BY <4>2, <5>3 DEF q, x
      <4>3. CASE c \notin served BY <4>1, <4>3
      <4> QED BY <4>2, <4>3
    <3> QED BY <2>2, <3>1 DEF QueuesTyped
  <2>5. hub' \in Seq(Viewers) /\ OneEach(hub') /\ StreamRange(hub') \subseteq StreamRange(hub)
    BY <1>0, <2>2, WithoutLeaves DEF StreamTyped
  <2>6. Stream!TickRuns'
    <3>1. CASE hub # <<>> BY <2>2, <3>1 DEF Stream!TickRuns
    <3>2. CASE hub = <<>>
      <4>1. StreamRange(hub') = {} BY <2>5, <3>2 DEF StreamRange
      <4>2. hub' = <<>>
        <5>1. Len(hub') = 0 BY <2>5, <4>1 DEF StreamRange
        <5> QED BY <2>5, <5>1
      <4> QED BY <4>2 DEF Stream!TickRuns
    <3> QED BY <3>1, <3>2
  <2>7. kArmed' \in BOOLEAN BY <2>2
  <2>8. StreamTyped' BY <1>0, <2>2, <2>5, <2>7 DEF StreamTyped
  <2> QED BY <2>4, <2>6, <2>8 DEF StreamInv
<1>7. CASE UNCHANGED Stream!vars
  BY <1>0, <1>7 DEF Stream!vars, StreamInv, StreamTyped, QueuesTyped, Stream!TickRuns
<1> QED BY <1>1, <1>2, <1>3, <1>4, <1>5, <1>6, <1>7 DEF Stream!Next

\* The invariant is what the run checks (StreamServer).
LEMMA StreamSound == StreamInv => Stream!TypeOK /\ Stream!TickRuns
<1> SUFFICES ASSUME StreamInv PROVE Stream!TypeOK /\ Stream!TickRuns OBVIOUS
<1>1. Stream!ToSet(hub) \subseteq Viewers /\ Stream!IsInjective(hub)
  BY StreamSeqs DEF StreamInv, StreamTyped
<1>2. \A c \in Viewers : Len(channel[c]) <= QueueLimit
                         /\ Stream!ToSet(channel[c]) \subseteq 0..MaxCommits
  <2> SUFFICES ASSUME NEW c \in Viewers
               PROVE  Len(channel[c]) <= QueueLimit /\ Stream!ToSet(channel[c]) \subseteq Frames
    BY DEF Frames
  <2>1. channel[c] \in Seq(Frames) /\ Len(channel[c]) <= QueueLimit
    BY DEF StreamInv, QueuesTyped
  <2> QED BY <2>1, StreamSeqs
<1> QED BY <1>1, <1>2 DEF StreamInv, StreamTyped, Stream!TypeOK, Frames

-----------------------------------------------------------------------------
(* The status feed (StatusServer).                                         *)

Byte == (0..MaxLine) \X {"begin", "end"}

\* What may come after a byte, for a subscriber of topic t.
Follows(t, x, y) ==
    IF x[2] = "begin" THEN y = <<x[1], "end">>
    ELSE /\ y[2] = "begin"
         /\ IF t = "shot" THEN y[1] = x[1] + 1 ELSE y[1] > x[1]

\* Whole lines in order.
Chain(t, b) == \A i \in 2..Len(b) : Follows(t, b[i - 1], b[i])

\* A chain goes on where the next begins.
LEMMA ChainOn ==
    ASSUME NEW t, NEW b \in Seq(Byte), NEW n \in Seq(Byte), b # <<>>, Chain(t, b), Chain(t, n),
           n # <<>> => Follows(t, b[Len(b)], n[1])
    PROVE  /\ b \o n \in Seq(Byte) /\ b \o n # <<>> /\ Chain(t, b \o n)
           /\ (b \o n)[Len(b \o n)] = IF n = <<>> THEN b[Len(b)] ELSE n[Len(n)]
<1> DEFINE s == b \o n
<1>1. /\ s \in Seq(Byte) /\ Len(s) = Len(b) + Len(n) /\ Len(b) \in Nat /\ Len(n) \in Nat
      /\ Len(b) >= 1 /\ (n = <<>> <=> Len(n) = 0)
      /\ \A i \in 1..Len(b) : s[i] = b[i]
      /\ \A i \in (Len(b) + 1)..(Len(b) + Len(n)) : s[i] = n[i - Len(b)]
  OBVIOUS
<1> HIDE DEF s
<1>2. Chain(t, s)
  <2> SUFFICES ASSUME NEW i \in 2..Len(s) PROVE Follows(t, s[i - 1], s[i]) BY DEF Chain
  <2>1. CASE i <= Len(b)
    <3>1. i \in 2..Len(b) /\ s[i] = b[i] /\ s[i - 1] = b[i - 1] BY <1>1, <2>1, SMTT(30)
    <3> QED BY <3>1 DEF Chain
  <2>2. CASE i = Len(b) + 1
    <3>1. s[i] = n[1] /\ s[i - 1] = b[Len(b)] /\ n # <<>> BY <1>1, <2>2, SMTT(30)
    <3> QED BY <3>1
  <2>3. CASE i > Len(b) + 1
    <3> DEFINE j == i - Len(b)
    <3>1. /\ j \in 2..Len(n) /\ i - 1 \in (Len(b) + 1)..(Len(b) + Len(n))
          /\ i \in (Len(b) + 1)..(Len(b) + Len(n)) /\ (i - 1) - Len(b) = j - 1
      BY <1>1, <2>3
    <3>2. s[i] = n[j] /\ s[i - 1] = n[(i - 1) - Len(b)] BY <1>1, <3>1
    <3>3. s[i - 1] = n[j - 1] BY <3>1, <3>2
    <3> HIDE DEF j
    <3> QED BY <3>1, <3>2, <3>3 DEF Chain
  <2> QED BY <1>1, <2>1, <2>2, <2>3
<1>3. s[Len(s)] = IF n = <<>> THEN b[Len(b)] ELSE n[Len(n)] BY <1>1
<1>4. s # <<>> BY <1>1
<1> QED BY <1>1, <1>2, <1>3, <1>4 DEF s

\* What a client has read is the end of what it was to read.
LEMMA ChainTail ==
    ASSUME NEW t, NEW b \in Seq(Byte), Len(b) >= 2, Chain(t, b)
    PROVE  Tail(b) \in Seq(Byte) /\ Chain(t, Tail(b)) /\ Tail(b)[Len(Tail(b))] = b[Len(b)]
<1> DEFINE s == Tail(b)
<1>1. /\ s \in Seq(Byte) /\ Len(s) = Len(b) - 1 /\ Len(b) \in Nat
      /\ \A i \in 1..(Len(b) - 1) : s[i] = b[i + 1]
  OBVIOUS
<1> HIDE DEF s
<1>2. Chain(t, s)
  <2> SUFFICES ASSUME NEW i \in 2..Len(s) PROVE Follows(t, s[i - 1], s[i]) BY DEF Chain
  <2>1. i + 1 \in 2..Len(b) /\ s[i] = b[i + 1] /\ s[i - 1] = b[(i + 1) - 1] BY <1>1
  <2> QED BY <2>1 DEF Chain
<1>3. s[Len(s)] = b[Len(b)] BY <1>1
<1> QED BY <1>1, <1>2, <1>3 DEF s

\* What was cut in two is whole.
LEMMA CutInTwo ==
    ASSUME NEW S, NEW w \in Seq(S), NEW n \in 0..Len(w)
    PROVE  /\ SubSeq(w, 1, n) \in Seq(S) /\ Len(SubSeq(w, 1, n)) = n
           /\ SubSeq(w, n + 1, Len(w)) \in Seq(S)
           /\ SubSeq(w, 1, n) \o SubSeq(w, n + 1, Len(w)) = w
<1>1. Len(w) \in Nat /\ \A i \in 1..Len(w) : w[i] \in S OBVIOUS
<1> DEFINE m == Len(w)
<1>2. m \in Nat /\ m = Len(w) BY <1>1
<1> HIDE DEF m
<1>3. SubSeq(w, 1, n) \in Seq(S) /\ Len(SubSeq(w, 1, n)) = n
  <2>1. \A i \in 1..n : w[i] \in S BY <1>1
  <2>2. 1 \in Int /\ n \in Int BY <1>1
  <2>3. /\ SubSeq(w, 1, n) \in Seq(S)
        /\ Len(SubSeq(w, 1, n)) = IF 1 <= n THEN n - 1 + 1 ELSE 0
    BY <2>1, <2>2, SubSeqProperties
  <2> QED BY <1>1, <2>3
<1>4. SubSeq(w, n + 1, m) \in Seq(S)
  <2>1. \A i \in (n + 1)..m : w[i] \in S BY <1>1, <1>2
  <2>2. n + 1 \in Int /\ m \in Int BY <1>2
  <2> QED BY <2>1, <2>2, SubSeqProperties
<1>5. SubSeq(w, 1, n) \o SubSeq(w, n + 1, m) = SubSeq(w, 1, m)
  <2>1. 1 \in 1..(Len(w) + 1) /\ n \in (1 - 1)..Len(w) /\ m \in n..Len(w) BY <1>2
  <2> QED BY <2>1, ConcatAdjacentSubSeq
<1>6. SubSeq(w, 1, m) = w BY <1>2, SubSeqFull
<1> QED BY <1>2, <1>3, <1>4, <1>5, <1>6

\* Bytes are in the same order however they are cut.
Regrouped(h, s, p, q) == (h \o (s \o p)) \o q = (h \o s) \o (p \o q)

\* What comes of cutting bytes in another way.
LEMMA CutElsewhere ==
    ASSUME NEW h \in Seq(Byte), NEW s \in Seq(Byte), NEW p \in Seq(Byte), NEW q \in Seq(Byte)
    PROVE  Regrouped(h, s, p, q)
<1>1. (h \o (s \o p)) \o q = (h \o s) \o (p \o q) OBVIOUS
<1> QED BY <1>1, Zenon DEF Regrouped

\* After h, the first of s is read.
MovedUp(h, s, o) ==
    /\ Head(s) \in Byte /\ Tail(s) \in Seq(Byte)
    /\ (<<Head(s)>> \o Tail(s)) \o o = Tail((<<h>> \o s) \o o)

\* A client reads one byte after the other, and what is on its way moves up.
LEMMA ReadOne ==
    ASSUME NEW h \in Byte, NEW s \in Seq(Byte), NEW o \in Seq(Byte)
    PROVE  s # <<>> => MovedUp(h, s, o)
<1> SUFFICES ASSUME s # <<>> PROVE MovedUp(h, s, o) OBVIOUS
<1>1. Head(s) \in Byte /\ Tail(s) \in Seq(Byte) /\ <<Head(s)>> \o Tail(s) = s
  <2>1. Head(s) \in Byte /\ Tail(s) \in Seq(Byte) OBVIOUS
  <2> DEFINE l == <<Head(s)>> \o Tail(s)
  <2>2. l \in Seq(Byte) /\ Len(l) = Len(s) /\ \A i \in 1..Len(l) : l[i] = s[i] OBVIOUS
  <2> HIDE DEF l
  <2>3. l = s BY <2>2, SeqEqual
  <2> QED BY <2>1, <2>3 DEF l
<1>2. s \o o = Tail((<<h>> \o s) \o o)
  <2> DEFINE l == s \o o
             r == Tail((<<h>> \o s) \o o)
  <2>1. /\ (<<h>> \o s) \o o \in Seq(Byte) /\ Len((<<h>> \o s) \o o) = 1 + Len(s) + Len(o)
        /\ \A i \in 1..(Len(s) + Len(o)) : ((<<h>> \o s) \o o)[i + 1] = (s \o o)[i]
    OBVIOUS
  <2> DEFINE w == (<<h>> \o s) \o o
  <2> HIDE DEF w
  <2>2. l \in Seq(Byte) /\ Len(l) = Len(s) + Len(o) OBVIOUS
  <2>3. /\ Tail(w) \in Seq(Byte) /\ Len(Tail(w)) = Len(s) + Len(o)
        /\ \A i \in 1..(Len(s) + Len(o)) : Tail(w)[i] = w[i + 1]
    BY <2>1 DEF w
  <2>4. \A i \in 1..Len(l) : l[i] = Tail(w)[i] BY <2>1, <2>2, <2>3 DEF w
  <2> HIDE DEF l
  <2>5. l = Tail(w) BY <2>2, <2>3, <2>4, SeqEqual
  <2> QED BY <2>5 DEF l, w
<1> QED BY <1>1, <1>2, Zenon DEF MovedUp

StatusTyped ==
    /\ state \in 0..MaxLine /\ shots \in 0..MaxLine /\ latest \in 0..MaxLine
    /\ inbox \in Seq(1..MaxLine) /\ updated \in BOOLEAN /\ fWake \in BOOLEAN
    /\ topic \in [Subscribers -> {"none", "coming", "state", "shot"}]
    /\ wants \in [Subscribers -> {"state", "shot"}]
    /\ lastLine \in [Subscribers -> 0..MaxLine]
    /\ gone \subseteq Subscribers

BytesTyped ==
    /\ owed \in [Subscribers -> Seq(Byte)]
    /\ socket \in [Subscribers -> Seq(Byte)]
    /\ heard \in [Subscribers -> Byte]
    /\ \A c \in Subscribers : Len(socket[c]) <= Room

\* The one-shots in the channel are the last that were sent.
ShotsQueued ==
    /\ state + shots <= MaxLine
    /\ Len(inbox) <= shots
    /\ \A i \in 1..Len(inbox) : inbox[i] = shots - Len(inbox) + i

\* The thread's state is the event loop's unless an update is in the channel.
LatestIsState ==
    /\ latest <= state /\ (~updated => latest = state)
    /\ \A c \in Subscribers : lastLine[c] <= latest

\* Nothing was written to who is yet to be accepted.
ComingIsNew ==
    \A c \in Subscribers : topic[c] = "coming" =>
        socket[c] = <<>> /\ owed[c] = <<>> /\ lastLine[c] = 0

\* The line a subscriber's bytes end with.
EndsWith(t, c) == <<IF t = "shot" THEN shots - Len(inbox) ELSE lastLine[c], "end">>

\* What a subscriber gets is a chain up to there.
Fed(c) ==
    topic[c] \in {"state", "shot"} =>
        LET b == (<<heard[c]>> \o socket[c]) \o owed[c]
        IN  Chain(topic[c], b) /\ b[Len(b)] = EndsWith(topic[c], c)

AllFed == \A c \in Subscribers : Fed(c)

StatusInv ==
    /\ StatusTyped /\ BytesTyped /\ ShotsQueued /\ LatestIsState /\ ComingIsNew /\ AllFed
    /\ Status!InboxIsNoticed

\* The status server starts well.
LEMMA StatusInit == Status!Init => StatusInv
<1> SUFFICES ASSUME Status!Init PROVE StatusInv OBVIOUS
<1>0. 0 \in 0..MaxLine /\ <<0, "end">> \in Byte /\ MaxLine \in Nat /\ Room \in Nat
  BY FeedAssumption DEF Byte
<1>1. inbox = <<>> /\ inbox \in Seq(1..MaxLine) /\ Len(inbox) = 0 /\ updated = FALSE
      /\ \A c \in Subscribers : topic[c] = "none"
  BY DEF Status!Init
<1>2. StatusTyped
  <2>1. lastLine \in [Subscribers -> 0..MaxLine] BY <1>0 DEF Status!Init
  <2>2. topic \in [Subscribers -> {"none", "coming", "state", "shot"}]
        /\ wants \in [Subscribers -> {"state", "shot"}]
    BY DEF Status!Init
  <2> QED BY <1>0, <1>1, <2>1, <2>2 DEF Status!Init, StatusTyped
<1>3. BytesTyped
  <2>1. <<>> \in Seq(Byte) /\ Len(<<>>) = 0 OBVIOUS
  <2>2. /\ owed = [c \in Subscribers |-> <<>>] /\ socket = [c \in Subscribers |-> <<>>]
        /\ heard = [c \in Subscribers |-> <<0, "end">>]
    BY DEF Status!Init
  <2>3. owed \in [Subscribers -> Seq(Byte)] /\ socket \in [Subscribers -> Seq(Byte)]
    BY <2>1, <2>2
  <2>4. heard \in [Subscribers -> Byte] BY <1>0, <2>2
  <2>5. \A c \in Subscribers : Len(socket[c]) <= Room BY <1>0, <2>1, <2>2
  <2> QED BY <2>3, <2>4, <2>5 DEF BytesTyped
<1>4. ShotsQueued /\ LatestIsState
  BY <1>0, <1>1 DEF ShotsQueued, LatestIsState, Status!Init
<1>5. ComingIsNew /\ AllFed BY <1>1 DEF ComingIsNew, AllFed, Fed
<1>6. Status!InboxIsNoticed
  <2>1. {c \in Subscribers : topic[c] = "shot"} = {} BY <1>1
  <2>2. \A S : Status!Cardinality(S) = Cardinality(S) BY DEF Status!Cardinality, Cardinality
  <2>3. Status!Cardinality({}) = 0 BY <2>2, FS_EmptySet, Zenon
  <2> QED BY <1>1, <2>1, <2>3 DEF Status!InboxIsNoticed, Status!Init
<1> QED BY <1>2, <1>3, <1>4, <1>5, <1>6 DEF StatusInv

\* The one-shots of the channel go on from the last that was taken (OneShots).
LEMMA OneShotsChain ==
    ASSUME StatusTyped, ShotsQueued, NEW n, n = Status!OneShots
    PROVE  /\ n \in Seq(Byte) /\ Chain("shot", n) /\ (n = <<>> <=> Len(inbox) = 0)
           /\ n # <<>> => /\ n[1] = <<shots - Len(inbox) + 1, "begin">>
                          /\ n[Len(n)] = <<shots, "end">>
<1> DEFINE l == Len(inbox)
           k == shots - l
<1>1. /\ l \in Nat /\ k \in Nat /\ shots = k + l /\ shots \in 0..MaxLine /\ MaxLine \in Nat
      /\ \A i \in 1..l : inbox[i] = k + i
  BY FeedAssumption DEF StatusTyped, ShotsQueued
<1>2. n = [i \in 1..2 * l |-> <<inbox[(i + 1) \div 2], IF i % 2 = 1 THEN "begin" ELSE "end">>]
  BY DEF Status!OneShots
<1> HIDE DEF l, k
<1>3. \A i \in 1..2 * l : (i + 1) \div 2 \in 1..l
  BY <1>1
<1>4. \A i \in 1..2 * l : n[i] = <<k + (i + 1) \div 2, IF i % 2 = 1 THEN "begin" ELSE "end">>
  BY <1>1, <1>2, <1>3
<1>5. \A i \in 1..2 * l : n[i] \in Byte
  <2> SUFFICES ASSUME NEW i \in 1..2 * l PROVE n[i] \in Byte OBVIOUS
  <2> DEFINE x == k + (i + 1) \div 2
             y == IF i % 2 = 1 THEN "begin" ELSE "end"
  <2>1. x \in 0..MaxLine /\ y \in {"begin", "end"} /\ n[i] = <<x, y>> BY <1>1, <1>3, <1>4
  <2> HIDE DEF x, y
  <2> QED BY <2>1 DEF Byte
<1>6. n \in Seq(Byte) /\ Len(n) = 2 * l
  <2>1. 2 * l \in Nat BY <1>1
  <2>2. n \in [1..2 * l -> Byte] BY <1>2, <1>5
  <2> QED BY <2>1, <2>2
<1>7. Chain("shot", n)
  <2> SUFFICES ASSUME NEW i \in 2..Len(n) PROVE Follows("shot", n[i - 1], n[i]) BY DEF Chain
  <2>1. i \in 1..2 * l /\ i - 1 \in 1..2 * l BY <1>1, <1>6
  <2>2. CASE i % 2 = 1
    <3>1. (i - 1) % 2 = 0 /\ (i + 1) \div 2 = ((i - 1) + 1) \div 2 + 1 BY <2>1, <2>2
    <3>2. n[i] = <<k + (((i - 1) + 1) \div 2 + 1), "begin">>
          /\ n[i - 1] = <<k + ((i - 1) + 1) \div 2, "end">>
      BY <1>4, <2>1, <2>2, <3>1
    <3>3. ((i - 1) + 1) \div 2 \in Nat BY <1>3, <2>1
    <3> QED BY <1>1, <3>2, <3>3 DEF Follows
  <2>3. CASE i % 2 # 1
    <3>1. (i - 1) % 2 = 1 /\ (i + 1) \div 2 = ((i - 1) + 1) \div 2 BY <2>1, <2>3
    <3>2. n[i] = <<k + ((i - 1) + 1) \div 2, "end">>
          /\ n[i - 1] = <<k + ((i - 1) + 1) \div 2, "begin">>
      BY <1>4, <2>1, <2>3, <3>1
    <3> QED BY <3>2 DEF Follows
  <2> QED BY <2>2, <2>3
<1>8. ASSUME n # <<>>
      PROVE  n[1] = <<k + 1, "begin">> /\ n[Len(n)] = <<shots, "end">>
  <2>1. l >= 1 BY <1>1, <1>6, <1>8
  <2>2. 1 \in 1..2 * l /\ 2 * l \in 1..2 * l /\ (1 + 1) \div 2 = 1 /\ 1 % 2 = 1
        /\ (2 * l + 1) \div 2 = l /\ (2 * l) % 2 = 0
    BY <1>1, <2>1
  <2>3. n[1] = <<k + (1 + 1) \div 2, IF 1 % 2 = 1 THEN "begin" ELSE "end">>
        /\ n[2 * l] = <<k + (2 * l + 1) \div 2, IF (2 * l) % 2 = 1 THEN "begin" ELSE "end">>
    BY <1>4, <2>2
  <2>4. n[1] = <<k + 1, "begin">> BY <2>2, <2>3
  <2>5. n[2 * l] = <<k + l, "end">> BY <2>2, <2>3
  <2> QED BY <1>1, <1>6, <2>4, <2>5
<1>9. n = <<>> <=> l = 0 BY <1>1, <1>6
<1> QED BY <1>6, <1>7, <1>8, <1>9 DEF k, l

\* What a turn has for a client goes on from what it was to read (NewLines).
LEMMA NewLinesChain ==
    ASSUME StatusTyped, ShotsQueued, LatestIsState, NEW c \in Subscribers,
           NEW t \in {"state", "shot"}, NEW push \in BOOLEAN, NEW n, n = Status!NewLines(c, t, push)
    PROVE  /\ n \in Seq(Byte) /\ Chain(t, n)
           /\ n # <<>> => /\ Follows(t, EndsWith(t, c), n[1])
                          /\ n[Len(n)] = <<IF t = "shot" THEN shots ELSE state, "end">>
           /\ n = <<>> /\ t = "shot" => Len(inbox) = 0
<1>0. /\ shots \in Nat /\ state \in 0..MaxLine /\ Len(inbox) \in Nat /\ MaxLine \in Nat
      /\ lastLine[c] \in 0..MaxLine /\ Status!Latest = state
  BY FeedAssumption DEF StatusTyped, LatestIsState, Status!Latest
<1>1. CASE t = "shot"
  <2>1. n = Status!OneShots BY <1>1 DEF Status!NewLines
  <2>2. /\ n \in Seq(Byte) /\ Chain("shot", n) /\ (n = <<>> <=> Len(inbox) = 0)
        /\ n # <<>> => /\ n[1] = <<shots - Len(inbox) + 1, "begin">>
                       /\ n[Len(n)] = <<shots, "end">>
    BY <2>1, OneShotsChain
  <2> DEFINE k == shots - Len(inbox)
  <2>3. EndsWith(t, c) = <<k, "end">> BY <1>1 DEF EndsWith
  <2>4. n # <<>> => n[1] = <<k + 1, "begin">> BY <2>2
  <2> HIDE DEF k
  <2>5. n # <<>> => Follows("shot", EndsWith(t, c), n[1]) BY <2>3, <2>4 DEF Follows
  <2> QED BY <1>1, <2>2, <2>5
<1>2. CASE t = "state"
  <2>1. CASE n = <<>>
    <3>1. n \in Seq(Byte) /\ Chain(t, n) BY <2>1 DEF Chain
    <3> QED BY <1>2, <2>1, <3>1
  <2>2. CASE n # <<>>
    <3>1. n = Status!Line(state) /\ state \notin {0, lastLine[c]}
      BY <1>0, <1>2, <2>2 DEF Status!NewLines
    <3>2. n = <<<<state, "begin">>, <<state, "end">>>> BY <3>1 DEF Status!Line
    <3>3. <<state, "begin">> \in Byte /\ <<state, "end">> \in Byte BY <1>0 DEF Byte
    <3>4. n \in Seq(Byte) /\ Len(n) = 2 /\ n[1] = <<state, "begin">> /\ n[2] = <<state, "end">>
      BY <3>2, <3>3
    <3>5. Chain(t, n)
      <4>1. \A i \in 2..2 : i = 2 /\ i - 1 = 1 OBVIOUS
      <4>2. Follows(t, n[1], n[2]) BY <3>4 DEF Follows
      <4>3. \A i \in 2..Len(n) : i = 2 /\ i - 1 = 1 BY <3>4, <4>1
      <4> QED BY <4>2, <4>3 DEF Chain
    <3>6. state > lastLine[c] BY <1>0, <3>1 DEF LatestIsState, StatusTyped
    <3>7. EndsWith(t, c) = <<lastLine[c], "end">> BY <1>2 DEF EndsWith
    <3>8. Follows(t, EndsWith(t, c), n[1]) BY <1>2, <3>4, <3>6, <3>7 DEF Follows
    <3> QED BY <1>2, <2>2, <3>4, <3>5, <3>8
  <2> QED BY <2>1, <2>2
<1> QED BY <1>1, <1>2

\* The socket has s and takes k bytes of what is owed, o and then n: all there is to
\* read after g stays what it was.
Flushed(g, s, o, n, k) ==
    LET p == SubSeq(o \o n, 1, k)
        q == SubSeq(o \o n, k + 1, Len(o \o n))
    IN  /\ s \o p \in Seq(Byte) /\ Len(s \o p) = Len(s) + k /\ q \in Seq(Byte)
        /\ (g \o (s \o p)) \o q = ((g \o s) \o o) \o n

\* The bytes a socket takes of what a client is owed, and those it does not.
LEMMA FlushKeepsOrder ==
    ASSUME NEW g \in Seq(Byte), NEW s \in Seq(Byte), NEW o \in Seq(Byte), NEW n \in Seq(Byte)
    PROVE  /\ o \o n \in Seq(Byte) /\ (g \o s) \o o \in Seq(Byte)
           /\ Len(g) >= 1 => (g \o s) \o o # <<>>
           /\ \A k \in 0..Len(o \o n) : Flushed(g, s, o, n, k)
<1> DEFINE w == o \o n
<1>1. w \in Seq(Byte) OBVIOUS
<1>2. (g \o s) \o o \in Seq(Byte) OBVIOUS
<1>3. Len(g) >= 1 => (g \o s) \o o # <<>> OBVIOUS
<1> HIDE DEF w
<1>4. ASSUME NEW k \in 0..Len(w) PROVE Flushed(g, s, o, n, k)
  <2> DEFINE p == SubSeq(w, 1, k)
             q == SubSeq(w, k + 1, Len(w))
  <2>0. p \in Seq(Byte) /\ Len(p) = k /\ q \in Seq(Byte) /\ p \o q = w
    BY <1>1, CutInTwo
  <2>1. p \in Seq(Byte) /\ q \in Seq(Byte) BY <2>0
  <2>7. Len(p) = k BY <2>0
  <2> HIDE DEF p, q
  <2>2. s \o p \in Seq(Byte) /\ Len(s \o p) = Len(s) + Len(p) BY <2>1
  <2>9. Regrouped(g, s, p, q) BY <2>1, CutElsewhere, Zenon
  <2>3. (g \o (s \o p)) \o q = (g \o s) \o (p \o q) BY <2>9, Zenon DEF Regrouped
  <2>4. ((g \o s) \o o) \o n = (g \o s) \o (o \o n) OBVIOUS
  <2>5. p \o q = o \o n BY <2>0 DEF w
  <2>6. (g \o (s \o p)) \o q = ((g \o s) \o o) \o n BY <2>3, <2>4, <2>5, Zenon
  <2>8. s \o p \in Seq(Byte) /\ Len(s \o p) = Len(s) + k BY <2>2, <2>7, Zenon
  <2> QED BY <2>1, <2>6, <2>8, Zenon DEF p, q, w, Flushed
<1> QED BY <1>1, <1>2, <1>3, <1>4, Zenon DEF w

\* One client's turn: what it has to read goes on from where it was, and the socket
\* holds no more than it can (status_server_main, Client::flush).
LEMMA ClientTurn ==
    ASSUME NEW c \in Subscribers, NEW t \in {"state", "shot"}, NEW push \in BOOLEAN, NEW h \in Byte
    PROVE  LET n == Status!NewLines(c, t, push)
               all == owed[c] \o n
               k == Status!Taken(c, Len(all))
               s == socket[c] \o SubSeq(all, 1, k)
               o == Status!Owes(all, k)
               b0 == (<<h>> \o socket[c]) \o owed[c]
               b == (<<h>> \o s) \o o
           IN  /\ StatusTyped /\ BytesTyped /\ ShotsQueued /\ LatestIsState
               /\ Chain(t, b0) /\ b0[Len(b0)] = EndsWith(t, c)
               => /\ s \in Seq(Byte) /\ Len(s) <= Room /\ o \in Seq(Byte)
                  /\ Chain(t, b)
                  /\ b[Len(b)] = IF n = <<>> THEN EndsWith(t, c)
                                 ELSE <<IF t = "shot" THEN shots ELSE state, "end">>
<1> DEFINE n == Status!NewLines(c, t, push)
           s0 == socket[c]
           o0 == owed[c]
           all == o0 \o n
           k == Status!Taken(c, Len(all))
           s == s0 \o SubSeq(all, 1, k)
           o == Status!Owes(all, k)
           g == <<h>>
           b0 == (g \o s0) \o o0
           b == (g \o s) \o o
<1>1. SUFFICES ASSUME StatusTyped /\ BytesTyped /\ ShotsQueued /\ LatestIsState,
                      Chain(t, b0), b0[Len(b0)] = EndsWith(t, c)
               PROVE  /\ s \in Seq(Byte) /\ Len(s) <= Room /\ o \in Seq(Byte)
                      /\ Chain(t, b)
                      /\ b[Len(b)] = IF n = <<>> THEN EndsWith(t, c)
                                     ELSE <<IF t = "shot" THEN shots ELSE state, "end">>
  OBVIOUS
<1>2. /\ n \in Seq(Byte) /\ Chain(t, n)
      /\ n # <<>> => /\ Follows(t, EndsWith(t, c), n[1])
                     /\ n[Len(n)] = <<IF t = "shot" THEN shots ELSE state, "end">>
  BY <1>1, NewLinesChain
<1>3. s0 \in Seq(Byte) /\ o0 \in Seq(Byte) /\ Len(s0) <= Room /\ Room \in Nat
  BY <1>1, FeedAssumption DEF BytesTyped
<1>4. g \in Seq(Byte) /\ Len(g) = 1 OBVIOUS
<1>5. k = IF Len(all) < Room - Len(s0) THEN Len(all) ELSE Room - Len(s0) BY DEF Status!Taken
<1>6. o = SubSeq(all, k + 1, Len(all)) BY DEF Status!Owes
<1> HIDE DEF n, s0, o0, k, o, g
<1>7. /\ all \in Seq(Byte) /\ b0 \in Seq(Byte) /\ b0 # <<>>
  BY <1>2, <1>3, <1>4, FlushKeepsOrder
<1>8. k \in 0..Len(all) /\ Len(s0) + k <= Room
  <2> DEFINE m == Len(all)
  <2>1. m \in Nat /\ Len(s0) \in Nat BY <1>3, <1>7
  <2>2. k = IF m < Room - Len(s0) THEN m ELSE Room - Len(s0) BY <1>5
  <2> HIDE DEF m
  <2>3. k \in 0..m /\ Len(s0) + k <= Room BY <1>3, <2>1, <2>2
  <2> QED BY <2>3 DEF m
<1>9. /\ s \in Seq(Byte) /\ Len(s) = Len(s0) + k /\ o \in Seq(Byte)
      /\ b = b0 \o n
  <2>1. Flushed(g, s0, o0, n, k) BY <1>2, <1>3, <1>4, <1>8, FlushKeepsOrder
  <2> QED BY <1>6, <2>1, Zenon DEF Flushed
<1> HIDE DEF s, b, b0
<1>10. n # <<>> => Follows(t, b0[Len(b0)], n[1]) BY <1>1, <1>2
<1>11. /\ Chain(t, b0 \o n)
       /\ (b0 \o n)[Len(b0 \o n)] = IF n = <<>> THEN b0[Len(b0)] ELSE n[Len(n)]
  BY <1>1, <1>2, <1>7, <1>10, ChainOn
<1>12. b[Len(b)] = IF n = <<>> THEN b0[Len(b0)] ELSE n[Len(n)] BY <1>9, <1>11, Zenon
<1>13. Chain(t, b) BY <1>9, <1>11, Zenon
<1> QED BY <1>1, <1>2, <1>8, <1>9, <1>12, <1>13

\* An update or a one-shot that is sent (SendState, SendShot).
LEMMA StatusSent ==
    StatusInv /\ (Status!SendState \/ Status!SendShot) => StatusInv'
<1> SUFFICES ASSUME StatusInv, Status!SendState \/ Status!SendShot PROVE StatusInv' OBVIOUS
<1>0. MaxLine \in Nat BY FeedAssumption
<1>1. /\ StatusTyped /\ BytesTyped /\ ShotsQueued /\ LatestIsState /\ ComingIsNew /\ AllFed
      /\ Status!InboxIsNoticed
  BY DEF StatusInv
<1>2. /\ UNCHANGED <<latest, topic, wants, lastLine, owed, socket, heard, gone, counted>>
      /\ state + shots < MaxLine /\ fWake' = TRUE
  BY DEF Status!SendState, Status!SendShot, Status!clientVars
<1>3. inbox \in Seq(1..MaxLine) /\ Len(inbox) \in Nat /\ state \in Nat /\ shots \in Nat /\ latest \in Nat
  BY <1>0, <1>1 DEF StatusTyped
<1>4. /\ inbox' \in Seq(1..MaxLine) /\ state' \in 0..MaxLine /\ shots' \in 0..MaxLine
      /\ state' + shots' <= MaxLine /\ updated' \in BOOLEAN
      /\ Len(inbox') <= shots' /\ shots' - Len(inbox') = shots - Len(inbox)
      /\ \A i \in 1..Len(inbox') : inbox'[i] = shots' - Len(inbox') + i
      /\ latest <= state' /\ (~updated' => latest = state')
  <2>1. CASE Status!SendState
    <3>1. state' = state + 1 /\ updated' = TRUE /\ shots' = shots /\ inbox' = inbox
      BY <2>1 DEF Status!SendState
    <3>2. state + 1 \in 0..MaxLine /\ shots \in 0..MaxLine BY <1>0, <1>2, <1>3
    <3>3. latest <= state + 1 BY <1>1, <1>3 DEF LatestIsState
    <3>4. state + 1 + shots <= MaxLine BY <1>0, <1>2, <1>3
    <3> QED BY <1>1, <3>1, <3>2, <3>3, <3>4 DEF ShotsQueued, StatusTyped
  <2>2. CASE Status!SendShot
    <3>1. state' = state /\ updated' = updated /\ shots' = shots + 1 /\ inbox' = Append(inbox, shots + 1)
      BY <2>2 DEF Status!SendShot
    <3>2. shots + 1 \in 1..MaxLine BY <1>0, <1>2, <1>3
    <3>3. inbox' \in Seq(1..MaxLine) /\ Len(inbox') = Len(inbox) + 1
          /\ inbox'[Len(inbox) + 1] = shots + 1
          /\ \A i \in 1..Len(inbox) : inbox'[i] = inbox[i]
      BY <1>3, <3>1, <3>2
    <3>4. \A i \in 1..Len(inbox) : inbox[i] = shots - Len(inbox) + i BY <1>1 DEF ShotsQueued
    <3>5. shots' - Len(inbox') = shots - Len(inbox) BY <1>3, <3>1, <3>3
    <3> DEFINE k == shots - Len(inbox)
    <3>6. shots + 1 = k + (Len(inbox) + 1) /\ k \in Int BY <1>3
    <3>7. \A i \in 1..Len(inbox) : inbox'[i] = k + i BY <3>3, <3>4
    <3> HIDE DEF k
    <3>8. \A i \in 1..(Len(inbox) + 1) : i \in 1..Len(inbox) \/ i = Len(inbox) + 1 BY <1>3
    <3>9. \A i \in 1..Len(inbox') : inbox'[i] = k + i BY <3>3, <3>6, <3>7, <3>8
    <3>10. \A i \in 1..Len(inbox') : inbox'[i] = shots' - Len(inbox') + i BY <3>5, <3>9 DEF k
    <3>11. Len(inbox) + 1 <= shots + 1 BY <1>1, <1>3 DEF ShotsQueued
    <3>12. state + (shots + 1) <= MaxLine /\ shots + 1 \in 0..MaxLine BY <1>0, <1>2, <1>3
    <3>13. state \in 0..MaxLine /\ updated \in BOOLEAN BY <1>1 DEF StatusTyped
    <3> QED BY <1>1, <3>1, <3>3, <3>5, <3>10, <3>11, <3>12, <3>13 DEF LatestIsState
  <2> QED BY <2>1, <2>2
<1>5. StatusTyped' /\ BytesTyped'
  BY <1>1, <1>2, <1>4 DEF StatusTyped, BytesTyped
<1>6. ShotsQueued' /\ LatestIsState' /\ ComingIsNew'
  BY <1>1, <1>2, <1>4 DEF ShotsQueued, LatestIsState, ComingIsNew
<1>7. AllFed'
  <2>1. \A t, c : EndsWith(t, c)' = EndsWith(t, c) BY <1>2, <1>4, Zenon DEF EndsWith
  <2> QED BY <1>1, <1>2, <2>1 DEF AllFed, Fed
<1>8. Status!InboxIsNoticed' BY <1>1, <1>2 DEF Status!InboxIsNoticed
<1> QED BY <1>5, <1>6, <1>7, <1>8 DEF StatusInv

\* A client connects, or hangs up (Connect, HangUp).
LEMMA StatusCame ==
    ASSUME NEW c \in Subscribers
    PROVE  StatusInv /\ (Status!Connect(c) \/ Status!HangUp(c)) => StatusInv'
<1> SUFFICES ASSUME StatusInv, Status!Connect(c) \/ Status!HangUp(c) PROVE StatusInv' OBVIOUS
<1>0. 0 \in 0..MaxLine /\ <<>> \in Seq(Byte) /\ Len(<<>>) = 0 /\ Room \in Nat /\ MaxLine \in Nat
  BY FeedAssumption
<1>1. /\ StatusTyped /\ BytesTyped /\ ShotsQueued /\ LatestIsState /\ ComingIsNew /\ AllFed
      /\ Status!InboxIsNoticed
  BY DEF StatusInv
<1>2. UNCHANGED <<state, shots, inbox, updated, fWake, latest, heard, counted>>
  BY DEF Status!Connect, Status!HangUp, Status!clientVars
<1>3. CASE Status!HangUp(c)
  <2>1. gone' = gone \cup {c} /\ UNCHANGED <<topic, wants, lastLine, owed, socket>>
    BY <1>3 DEF Status!HangUp, Status!clientVars
  <2>2. StatusTyped' BY <1>1, <1>2, <2>1 DEF StatusTyped
  <2>3. BytesTyped' /\ ShotsQueued' /\ LatestIsState' /\ ComingIsNew'
    BY <1>1, <1>2, <2>1 DEF BytesTyped, ShotsQueued, LatestIsState, ComingIsNew
  <2>4. AllFed'
    <3>1. \A t, d : EndsWith(t, d)' = EndsWith(t, d) BY <1>2, <2>1, Zenon DEF EndsWith
    <3> QED BY <1>1, <1>2, <2>1, <3>1 DEF AllFed, Fed
  <2>5. Status!InboxIsNoticed' BY <1>1, <1>2, <2>1 DEF Status!InboxIsNoticed
  <2> QED BY <2>2, <2>3, <2>4, <2>5 DEF StatusInv
<1>4. CASE Status!Connect(c)
  <2>1. PICK t \in {"state", "shot"} : wants' = [wants EXCEPT ![c] = t]
    BY <1>4 DEF Status!Connect
  <2>2. /\ topic[c] = "none" /\ topic' = [topic EXCEPT ![c] = "coming"]
        /\ lastLine' = [lastLine EXCEPT ![c] = 0]
        /\ owed' = [owed EXCEPT ![c] = <<>>] /\ socket' = [socket EXCEPT ![c] = <<>>]
        /\ gone' = gone
    BY <1>4 DEF Status!Connect
  <2>3. /\ topic \in [Subscribers -> {"none", "coming", "state", "shot"}]
        /\ wants \in [Subscribers -> {"state", "shot"}]
        /\ lastLine \in [Subscribers -> 0..MaxLine]
    BY <1>1 DEF StatusTyped
  <2>4. owed \in [Subscribers -> Seq(Byte)] /\ socket \in [Subscribers -> Seq(Byte)]
        /\ heard \in [Subscribers -> Byte]
        /\ \A d \in Subscribers : Len(socket[d]) <= Room
    BY <1>1 DEF BytesTyped
  <2>5. /\ topic' \in [Subscribers -> {"none", "coming", "state", "shot"}]
        /\ topic'[c] = "coming" /\ \A d \in Subscribers \ {c} : topic'[d] = topic[d]
    BY <2>2, <2>3
  <2>6. wants' \in [Subscribers -> {"state", "shot"}] BY <2>1, <2>3
  <2>7. /\ lastLine' \in [Subscribers -> 0..MaxLine]
        /\ lastLine'[c] = 0 /\ \A d \in Subscribers \ {c} : lastLine'[d] = lastLine[d]
    BY <1>0, <2>2, <2>3
  <2>8. /\ owed' \in [Subscribers -> Seq(Byte)]
        /\ owed'[c] = <<>> /\ \A d \in Subscribers \ {c} : owed'[d] = owed[d]
    <3> DEFINE B == Seq(Byte)
    <3>1. owed \in [Subscribers -> B] /\ <<>> \in B BY <1>0, <2>4
    <3> HIDE DEF B
    <3>2. owed' \in [Subscribers -> B] /\ owed'[c] = <<>>
          /\ \A d \in Subscribers \ {c} : owed'[d] = owed[d]
      BY <2>2, <3>1
    <3> QED BY <3>2 DEF B
  <2>9. /\ socket' \in [Subscribers -> Seq(Byte)]
        /\ socket'[c] = <<>> /\ \A d \in Subscribers \ {c} : socket'[d] = socket[d]
    <3> DEFINE B == Seq(Byte)
    <3>1. socket \in [Subscribers -> B] /\ <<>> \in B BY <1>0, <2>4
    <3> HIDE DEF B
    <3>2. socket' \in [Subscribers -> B] /\ socket'[c] = <<>>
          /\ \A d \in Subscribers \ {c} : socket'[d] = socket[d]
      BY <2>2, <3>1
    <3> QED BY <3>2 DEF B
  <2>10. StatusTyped' BY <1>1, <1>2, <2>2, <2>5, <2>6, <2>7 DEF StatusTyped
  <2>11. BytesTyped'
    <3>1. SUFFICES ASSUME NEW d \in Subscribers PROVE Len(socket'[d]) <= Room
      BY <1>2, <2>4, <2>8, <2>9, Zenon DEF BytesTyped
    <3>2. CASE d = c
      <4>1. Len(socket'[d]) = 0 BY <1>0, <2>9, <3>2, Zenon
      <4> QED BY <1>0, <4>1
    <3>3. CASE d # c BY <2>4, <2>9, <3>3, Zenon
    <3> QED BY <3>2, <3>3
  <2>12. ShotsQueued' BY <1>1, <1>2 DEF ShotsQueued
  <2>13. LatestIsState'
    <3>1. 0 <= latest BY <1>0, <1>1 DEF StatusTyped
    <3>2. \A d \in Subscribers : lastLine'[d] <= latest BY <1>1, <2>7, <3>1 DEF LatestIsState
    <3> QED BY <1>1, <1>2, <3>2 DEF LatestIsState
  <2>14. ComingIsNew'
    BY <1>1, <2>5, <2>7, <2>8, <2>9, Zenon DEF ComingIsNew
  <2>15. AllFed'
    <3>1. SUFFICES ASSUME NEW d \in Subscribers, topic'[d] \in {"state", "shot"}
                   PROVE  Fed(d)'
      BY Zenon DEF AllFed, Fed
    <3>2. d \in Subscribers \ {c} BY <2>5, <3>1
    <3>3. /\ topic'[d] = topic[d] /\ lastLine'[d] = lastLine[d] /\ owed'[d] = owed[d]
          /\ socket'[d] = socket[d] /\ heard'[d] = heard[d]
      BY <1>2, <2>5, <2>7, <2>8, <2>9, <3>2, Zenon
    <3>4. \A u : EndsWith(u, d)' = EndsWith(u, d) BY <1>2, <3>3, Zenon DEF EndsWith
    <3>5. Fed(d) BY <1>1, Zenon DEF AllFed, Fed
    <3> QED BY <3>3, <3>4, <3>5, Zenon DEF Fed
  <2>16. Status!InboxIsNoticed'
    <3>1. {d \in Subscribers : topic'[d] = "shot"} = {d \in Subscribers : topic[d] = "shot"}
      BY <2>2, <2>5
    <3> QED BY <1>1, <1>2, <3>1 DEF Status!InboxIsNoticed
  <2> QED BY <2>10, <2>11, <2>12, <2>13, <2>14, <2>15, <2>16 DEF StatusInv
<1> QED BY <1>3, <1>4

\* A client reads a byte (Read).
LEMMA StatusRead ==
    ASSUME NEW c \in Subscribers
    PROVE  StatusInv /\ Status!Read(c) => StatusInv'
<1> SUFFICES ASSUME StatusInv, Status!Read(c) PROVE StatusInv' OBVIOUS
<1>1. /\ StatusTyped /\ BytesTyped /\ ShotsQueued /\ LatestIsState /\ ComingIsNew /\ AllFed
      /\ Status!InboxIsNoticed
  BY DEF StatusInv
<1>2. /\ UNCHANGED <<state, shots, inbox, updated, fWake, latest, topic, wants, lastLine, owed, gone, counted>>
      /\ socket[c] # <<>>
      /\ heard' = [heard EXCEPT ![c] = Head(socket[c])]
      /\ socket' = [socket EXCEPT ![c] = Tail(socket[c])]
  BY DEF Status!Read
<1>3. /\ owed \in [Subscribers -> Seq(Byte)] /\ socket \in [Subscribers -> Seq(Byte)]
      /\ heard \in [Subscribers -> Byte]
      /\ \A d \in Subscribers : Len(socket[d]) <= Room
  BY <1>1 DEF BytesTyped
<1> DEFINE h == heard[c]
           s == socket[c]
           o == owed[c]
<1>4. h \in Byte /\ s \in Seq(Byte) /\ o \in Seq(Byte) /\ s # <<>> BY <1>2, <1>3
<1>5. /\ Head(s) \in Byte /\ Tail(s) \in Seq(Byte)
      /\ (<<Head(s)>> \o Tail(s)) \o o = Tail((<<h>> \o s) \o o)
  <2> HIDE DEF h, s, o
  <2>1. MovedUp(h, s, o) BY <1>4, ReadOne
  <2> QED BY <2>1, Zenon DEF MovedUp
<1>6. Len(Tail(s)) <= Room
  <2>1. Len(Tail(s)) = Len(s) - 1 /\ Len(s) \in Nat BY <1>4
  <2>2. Len(s) <= Room /\ Room \in Nat BY <1>3, FeedAssumption
  <2> QED BY <2>1, <2>2
<1>7. /\ heard' \in [Subscribers -> Byte]
      /\ heard'[c] = Head(s) /\ \A d \in Subscribers \ {c} : heard'[d] = heard[d]
  <2> DEFINE x == Head(s)
  <2>1. x \in Byte /\ heard' = [heard EXCEPT ![c] = x] BY <1>2, <1>5
  <2> HIDE DEF x
  <2>2. heard' \in [Subscribers -> Byte] /\ heard'[c] = x
        /\ \A d \in Subscribers \ {c} : heard'[d] = heard[d]
    BY <1>3, <2>1
  <2> QED BY <2>2 DEF x
<1>8. /\ socket' \in [Subscribers -> Seq(Byte)]
      /\ socket'[c] = Tail(s) /\ \A d \in Subscribers \ {c} : socket'[d] = socket[d]
  <2> DEFINE x == Tail(s)
             B == Seq(Byte)
  <2>1. x \in B /\ socket' = [socket EXCEPT ![c] = x] /\ socket \in [Subscribers -> B]
    BY <1>2, <1>3, <1>5
  <2> HIDE DEF x, B
  <2>2. socket' \in [Subscribers -> B] /\ socket'[c] = x
        /\ \A d \in Subscribers \ {c} : socket'[d] = socket[d]
    BY <2>1
  <2> QED BY <2>2 DEF x, B
<1>9. StatusTyped' /\ ShotsQueued' /\ LatestIsState' /\ Status!InboxIsNoticed'
  BY <1>1, <1>2 DEF StatusTyped, ShotsQueued, LatestIsState, Status!InboxIsNoticed
<1>10. BytesTyped'
  <2>1. \A d \in Subscribers : Len(socket'[d]) <= Room BY <1>3, <1>6, <1>8, Zenon
  <2> QED BY <1>2, <1>3, <1>7, <1>8, <2>1, Zenon DEF BytesTyped
<1>11. ComingIsNew'
  <2>1. topic[c] # "coming" BY <1>1, <1>2 DEF ComingIsNew
  <2> QED BY <1>1, <1>2, <1>8, <2>1, Zenon DEF ComingIsNew
<1>12. AllFed'
  <2>1. SUFFICES ASSUME NEW d \in Subscribers, topic'[d] \in {"state", "shot"}
                 PROVE  Fed(d)'
    BY Zenon DEF AllFed, Fed
  <2>2. Fed(d) BY <1>1, Zenon DEF AllFed, Fed
  <2>3. \A u : EndsWith(u, d)' = EndsWith(u, d) BY <1>2, Zenon DEF EndsWith
  <2>4. CASE d # c
    <3>1. heard'[d] = heard[d] /\ socket'[d] = socket[d] BY <1>7, <1>8, <2>4, Zenon
    <3> QED BY <1>2, <2>2, <2>3, <3>1, Zenon DEF Fed
  <2>5. CASE d = c
    <3> DEFINE b == (<<h>> \o s) \o o
    <3>1. (<<heard'[c]>> \o socket'[c]) \o owed'[c] = Tail(b) BY <1>2, <1>5, <1>7, <1>8, Zenon
    <3>2. Chain(topic[c], b) /\ b[Len(b)] = EndsWith(topic[c], c) BY <1>2, <2>1, <2>2, <2>5 DEF Fed
    <3>3. b \in Seq(Byte) /\ Len(b) >= 2
      <4>1. Len(b) = 1 + Len(s) + Len(o) /\ b \in Seq(Byte) BY <1>4
      <4> DEFINE i == Len(s)
                 j == Len(o)
      <4>2. i \in Nat /\ i >= 1 /\ j \in Nat /\ Len(b) = 1 + i + j BY <1>4, <4>1
      <4> HIDE DEF i, j, b
      <4>3. Len(b) >= 2 BY <4>2
      <4> QED BY <4>1, <4>3
    <3> HIDE DEF b
    <3>4. Chain(topic[c], Tail(b)) /\ Tail(b)[Len(Tail(b))] = b[Len(b)]
      BY <3>2, <3>3, ChainTail
    <3> QED BY <1>2, <2>3, <2>5, <3>1, <3>2, <3>4, Zenon DEF Fed
  <2> QED BY <2>4, <2>5
<1> QED BY <1>9, <1>10, <1>11, <1>12 DEF StatusInv

\* The thread's turn (status_server_main): all of the above at once.
LEMMA StatusTurn == StatusInv /\ Status!Turn => StatusInv'
<1> SUFFICES ASSUME StatusInv, Status!Turn PROVE StatusInv' OBVIOUS
<1>0. 0 \in 0..MaxLine /\ <<>> \in Seq(Byte) /\ Len(<<>>) = 0 /\ Room \in Nat /\ MaxLine \in Nat
  BY FeedAssumption
<1>1. /\ StatusTyped /\ BytesTyped /\ ShotsQueued /\ LatestIsState /\ ComingIsNew /\ AllFed
  BY DEF StatusInv
<1> DEFINE accepted == {c \in Subscribers : topic[c] = "coming"}
           push == updated \/ accepted # {}
           new == [c \in Subscribers |->
                     Status!NewLines(c, IF c \in accepted THEN wants[c] ELSE topic[c], push)]
           all == [c \in Subscribers |-> owed[c] \o new[c]]
           stay == {c \in Status!Served \cup accepted :
                      ~Status!Reaped(c) /\ (new[c] = <<>> \/ Status!Behind(c, all[c]) <= MaxOwed)}
           t(c) == IF c \in accepted THEN wants[c] ELSE topic[c]
<1>2. /\ topic' = [c \in Subscribers |-> IF c \notin stay THEN "none" ELSE t(c)]
      /\ socket' = [c \in Subscribers |->
                      IF c \in stay
                      THEN socket[c] \o SubSeq(all[c], 1, Status!Taken(c, Len(all[c]))) ELSE <<>>]
      /\ owed' = [c \in Subscribers |->
                    IF c \in stay THEN Status!Owes(all[c], Status!Taken(c, Len(all[c]))) ELSE <<>>]
      /\ lastLine' = [c \in Subscribers |->
                        IF topic'[c] = "state" /\ new[c] # <<>> THEN Status!Latest ELSE lastLine[c]]
      /\ heard' = [c \in Subscribers |->
           IF c \notin accepted \cap stay THEN heard[c]
           ELSE <<IF wants[c] = "shot" THEN shots - Len(inbox) ELSE 0, "end">>]
      /\ gone' = gone \cap stay
      /\ Status!Count(stay)
  BY DEF Status!Turn
<1>3. /\ latest' = Status!Latest /\ inbox' = <<>> /\ updated' = FALSE /\ fWake' = FALSE
      /\ UNCHANGED <<state, shots, wants>>
  BY DEF Status!Turn
<1>4. /\ stay \subseteq Subscribers
      /\ \A c \in stay : t(c) \in {"state", "shot"}
      /\ \A c \in stay : c \notin accepted => topic[c] \in {"state", "shot"}
  BY <1>1 DEF StatusTyped, Status!Served
<1>5. \A c \in Subscribers : new[c] = Status!NewLines(c, t(c), push) /\ all[c] = owed[c] \o new[c]
  OBVIOUS
<1>6. push \in BOOLEAN BY <1>1 DEF StatusTyped
<1>7. \A c \in accepted : c \in Subscribers /\ topic[c] = "coming" OBVIOUS
<1>8. Status!Latest = state /\ state \in 0..MaxLine
  BY <1>1 DEF Status!Latest, LatestIsState, StatusTyped
<1>9. shots - Len(inbox) \in 0..MaxLine /\ shots \in 0..MaxLine /\ Len(inbox) \in Nat
  <2> DEFINE l == Len(inbox)
  <2>1. l \in Nat BY <1>1 DEF StatusTyped
  <2>2. l <= shots /\ shots \in 0..MaxLine BY <1>1 DEF ShotsQueued, StatusTyped
  <2> HIDE DEF l
  <2>3. shots - l \in 0..MaxLine BY <1>0, <2>1, <2>2
  <2> QED BY <2>1, <2>2, <2>3 DEF l
<1>10. stay \in SUBSET Subscribers /\ accepted \in SUBSET Subscribers BY <1>4
<1> HIDE DEF accepted, push, new, all, stay
<1>11. heard' \in [Subscribers -> Byte]
  <2> SUFFICES ASSUME NEW c \in Subscribers
               PROVE  (IF c \notin accepted \cap stay THEN heard[c]
                       ELSE <<IF wants[c] = "shot" THEN shots - Len(inbox) ELSE 0, "end">>) \in Byte
    BY <1>2
  <2> DEFINE v == IF wants[c] = "shot" THEN shots - Len(inbox) ELSE 0
  <2>1. v \in 0..MaxLine BY <1>0, <1>9
  <2> HIDE DEF v
  <2>2. <<v, "end">> \in Byte BY <2>1 DEF Byte
  <2>3. heard[c] \in Byte BY <1>1 DEF BytesTyped
  <2> QED BY <2>2, <2>3 DEF v
\* What a turn does for a client that stays.
<1>12. ASSUME NEW c \in stay
       PROVE  /\ socket'[c] \in Seq(Byte) /\ Len(socket'[c]) <= Room /\ owed'[c] \in Seq(Byte)
              /\ Chain(t(c), (<<heard'[c]>> \o socket'[c]) \o owed'[c])
              /\ ((<<heard'[c]>> \o socket'[c]) \o owed'[c])
                   [Len((<<heard'[c]>> \o socket'[c]) \o owed'[c])]
                 = <<IF t(c) = "shot" THEN shots ELSE lastLine'[c], "end">>
  <2> DEFINE u == t(c)
             h == heard'[c]
             n == Status!NewLines(c, u, push)
             k == Status!Taken(c, Len(owed[c] \o n))
             s == socket[c] \o SubSeq(owed[c] \o n, 1, k)
             o == Status!Owes(owed[c] \o n, k)
             b0 == (<<h>> \o socket[c]) \o owed[c]
             b == (<<h>> \o s) \o o
  <2>1. c \in Subscribers /\ u \in {"state", "shot"} BY <1>4
  <2>2. h \in Byte BY <1>11, <2>1
  <2>3. n = new[c] /\ owed[c] \o n = all[c] BY <1>5, <2>1
  <2>4. socket'[c] = s /\ owed'[c] = o BY <1>2, <2>1, <2>3, Zenon
  <2>5. topic'[c] = u BY <1>2, <2>1, Zenon
  <2>6. Chain(u, b0) /\ b0[Len(b0)] = EndsWith(u, c)
    <3>1. CASE c \in accepted
      <4>1. topic[c] = "coming" /\ u = wants[c] BY <1>7, <3>1
      <4>2. socket[c] = <<>> /\ owed[c] = <<>> /\ lastLine[c] = 0
        BY <1>1, <2>1, <4>1 DEF ComingIsNew
      <4>3. h = <<IF u = "shot" THEN shots - Len(inbox) ELSE 0, "end">> BY <1>2, <2>1, <3>1, <4>1
      <4>4. h = EndsWith(u, c) BY <4>2, <4>3 DEF EndsWith
      <4> HIDE DEF h
      <4>5. b0 = <<h>>
        <5>1. (<<h>> \o <<>>) \o <<>> = <<h>> OBVIOUS
        <5> QED BY <4>2, <5>1, Zenon
      <4>6. Len(<<h>>) = 1 /\ <<h>>[1] = h OBVIOUS
      <4>7. Chain(u, <<h>>)
        <5>1. ~ \E i \in 2..1 : TRUE OBVIOUS
        <5> QED BY <4>6, <5>1 DEF Chain
      <4> QED BY <4>4, <4>5, <4>6, <4>7, Zenon
    <3>2. CASE c \notin accepted
      <4>1. u = topic[c] /\ topic[c] \in {"state", "shot"} BY <1>4, <3>2
      <4>2. h = heard[c] BY <1>2, <2>1, <3>2
      <4>3. Fed(c) BY <1>1, <2>1 DEF AllFed
      <4> QED BY <4>1, <4>2, <4>3, Zenon DEF Fed
    <3> QED BY <3>1, <3>2
  <2> HIDE DEF u, h
  <2>7. /\ s \in Seq(Byte) /\ Len(s) <= Room /\ o \in Seq(Byte)
        /\ Chain(u, b)
        /\ b[Len(b)] = IF n = <<>> THEN EndsWith(u, c)
                       ELSE <<IF u = "shot" THEN shots ELSE state, "end">>
    BY <1>1, <1>6, <2>1, <2>2, <2>6, ClientTurn
  <2>8. n = <<>> /\ u = "shot" => Len(inbox) = 0
    BY <1>1, <1>6, <2>1, NewLinesChain
  <2> HIDE DEF n, k, s, o, b
  <2>9. (<<h>> \o socket'[c]) \o owed'[c] = b BY <2>4 DEF b
  <2> DEFINE e == <<IF u = "shot" THEN shots ELSE lastLine'[c], "end">>
  <2>11. b[Len(b)] = e
    <3>1. CASE u = "shot"
      <4>1. e = <<shots, "end">> BY <3>1
      <4>2. CASE n = <<>>
        <5>1. EndsWith(u, c) = <<shots - 0, "end">> BY <2>8, <3>1, <4>2 DEF EndsWith
        <5> QED BY <1>9, <2>7, <4>1, <4>2, <5>1
      <4>3. CASE n # <<>> BY <2>7, <3>1, <4>1, <4>3
      <4> QED BY <4>2, <4>3
    <3>2. CASE u = "state"
      <4>1. e = <<lastLine'[c], "end">> /\ EndsWith(u, c) = <<lastLine[c], "end">>
        BY <3>2 DEF EndsWith
      <4>2. lastLine'[c] = IF n # <<>> THEN state ELSE lastLine[c]
        BY <1>2, <1>8, <2>1, <2>3, <2>5, <3>2
      <4> QED BY <2>7, <3>2, <4>1, <4>2
    <3> QED BY <2>1, <3>1, <3>2
  <2>12. socket'[c] \in Seq(Byte) /\ Len(socket'[c]) <= Room /\ owed'[c] \in Seq(Byte)
    BY <2>4, <2>7, Zenon
  <2>13. Chain(u, (<<h>> \o socket'[c]) \o owed'[c]) BY <2>7, <2>9, Zenon
  <2>14. ((<<h>> \o socket'[c]) \o owed'[c])[Len((<<h>> \o socket'[c]) \o owed'[c])] = e
    BY <2>9, <2>11, Zenon
  <2> QED BY <2>12, <2>13, <2>14, Zenon DEF u, h
<1>13. \A c \in Subscribers \ stay : topic'[c] = "none" /\ socket'[c] = <<>> /\ owed'[c] = <<>>
  BY <1>2
<1>14. \A c \in stay : c \in Subscribers /\ topic'[c] = t(c) /\ topic'[c] \in {"state", "shot"}
  BY <1>2, <1>4
<1>15. /\ topic' \in [Subscribers -> {"none", "coming", "state", "shot"}]
       /\ \A c \in Subscribers : topic'[c] # "coming"
  <2>1. \A c \in Subscribers : topic'[c] \in {"none", "state", "shot"} BY <1>13, <1>14
  <2>2. DOMAIN topic' = Subscribers /\ topic' = [c \in Subscribers |-> topic'[c]] BY <1>2
  <2> QED BY <2>1, <2>2
<1>16. /\ lastLine' \in [Subscribers -> 0..MaxLine]
       /\ \A c \in Subscribers : lastLine'[c] <= state
  <2>1. \A c \in Subscribers : lastLine[c] \in 0..MaxLine /\ lastLine[c] <= state
    BY <1>0, <1>1, <1>8 DEF StatusTyped, LatestIsState
  <2>2. \A c \in Subscribers : lastLine'[c] = state \/ lastLine'[c] = lastLine[c] BY <1>2, <1>8
  <2>3. \A c \in Subscribers : lastLine'[c] \in 0..MaxLine /\ lastLine'[c] <= state
    BY <1>8, <2>1, <2>2
  <2>4. lastLine' = [c \in Subscribers |-> lastLine'[c]] BY <1>2
  <2> QED BY <2>3, <2>4
<1>17. StatusTyped'
  <2>1. <<>> \in Seq(1..MaxLine) /\ FALSE \in BOOLEAN OBVIOUS
  <2>2. gone' \subseteq Subscribers BY <1>2, <1>10
  <2>3. latest' \in 0..MaxLine /\ state' \in 0..MaxLine /\ shots' \in 0..MaxLine
    BY <1>3, <1>8, <1>9
  <2>4. wants' \in [Subscribers -> {"state", "shot"}] BY <1>1, <1>3 DEF StatusTyped
  <2>5. inbox' \in Seq(1..MaxLine) /\ updated' \in BOOLEAN /\ fWake' \in BOOLEAN BY <1>3, <2>1
  <2> QED BY <1>15, <1>16, <2>2, <2>3, <2>4, <2>5 DEF StatusTyped
<1>18. BytesTyped'
  <2>1. \A c \in Subscribers :
          socket'[c] \in Seq(Byte) /\ Len(socket'[c]) <= Room /\ owed'[c] \in Seq(Byte)
    <3>1. SUFFICES ASSUME NEW c \in Subscribers
                   PROVE  socket'[c] \in Seq(Byte) /\ Len(socket'[c]) <= Room /\ owed'[c] \in Seq(Byte)
      OBVIOUS
    <3>2. CASE c \in stay BY <1>12, <3>2, Zenon
    <3>3. CASE c \notin stay
      <4>1. socket'[c] = <<>> /\ owed'[c] = <<>> BY <1>13, <3>3
      <4>2. 0 <= Room BY <1>0
      <4> QED BY <1>0, <4>1, <4>2
    <3> QED BY <3>2, <3>3
  <2>2. socket' = [c \in Subscribers |-> socket'[c]] /\ owed' = [c \in Subscribers |-> owed'[c]]
    BY <1>2
  <2> DEFINE B == Seq(Byte)
  <2>3. \A c \in Subscribers : socket'[c] \in B /\ owed'[c] \in B BY <2>1
  <2> HIDE DEF B
  <2>4. socket' \in [Subscribers -> B] /\ owed' \in [Subscribers -> B] BY <2>2, <2>3
  <2>5. socket' \in [Subscribers -> Seq(Byte)] /\ owed' \in [Subscribers -> Seq(Byte)]
    BY <2>4, Zenon DEF B
  <2> QED BY <1>11, <2>1, <2>5, Zenon DEF BytesTyped
<1>19. ShotsQueued'
  <2>1. Len(inbox') = 0 BY <1>0, <1>3
  <2>2. 0 <= shots' BY <1>3, <1>9
  <2>3. state' + shots' <= MaxLine BY <1>1, <1>3 DEF ShotsQueued
  <2>4. \A i \in 1..Len(inbox') : FALSE BY <2>1
  <2> QED BY <2>1, <2>2, <2>3, <2>4 DEF ShotsQueued
<1>20. LatestIsState'
  BY <1>3, <1>8, <1>16 DEF LatestIsState
<1>21. ComingIsNew' BY <1>15 DEF ComingIsNew
<1>22. AllFed'
  <2>1. SUFFICES ASSUME NEW c \in Subscribers, topic'[c] \in {"state", "shot"} PROVE Fed(c)'
    BY Zenon DEF AllFed, Fed
  <2>2. c \in stay BY <1>13, <2>1
  <2>3. topic'[c] = t(c) BY <1>14, <2>2
  <2>4. /\ Chain(topic'[c], (<<heard'[c]>> \o socket'[c]) \o owed'[c])
        /\ ((<<heard'[c]>> \o socket'[c]) \o owed'[c])
             [Len((<<heard'[c]>> \o socket'[c]) \o owed'[c])]
           = <<IF topic'[c] = "shot" THEN shots ELSE lastLine'[c], "end">>
    BY <1>12, <2>2, <2>3, Zenon
  <2>5. EndsWith(topic[c], c)' = <<IF topic'[c] = "shot" THEN shots ELSE lastLine'[c], "end">>
    <3>1. shots' - Len(inbox') = shots BY <1>0, <1>3, <1>9
    <3> QED BY <3>1 DEF EndsWith
  <2> QED BY <2>4, <2>5, Zenon DEF Fed
<1>23. Status!InboxIsNoticed'
  <2>1. {c \in stay : topic'[c] = "shot"} = {c \in Subscribers : topic'[c] = "shot"}
    BY <1>10, <1>13
  <2>2. counted' = Status!Cardinality({c \in stay : topic'[c] = "shot"})
    BY <1>2 DEF Status!Count
  <2> QED BY <1>3, <2>1, <2>2 DEF Status!InboxIsNoticed
<1> QED BY <1>17, <1>18, <1>19, <1>20, <1>21, <1>22, <1>23 DEF StatusInv

\* A step of the status feed keeps the invariant.
LEMMA StatusNext == StatusInv /\ [Status!Next]_(Status!vars) => StatusInv'
<1> SUFFICES ASSUME StatusInv, [Status!Next]_(Status!vars) PROVE StatusInv' OBVIOUS
<1>1. CASE Status!SendState \/ Status!SendShot BY <1>1, StatusSent
<1>2. CASE \E c \in Subscribers : Status!Connect(c) \/ Status!Read(c) \/ Status!HangUp(c)
  BY <1>2, StatusCame, StatusRead
<1>3. CASE Status!Turn BY <1>3, StatusTurn
<1>4. CASE UNCHANGED Status!vars
  BY <1>4 DEF StatusInv, StatusTyped, BytesTyped, ShotsQueued, LatestIsState, ComingIsNew,
              AllFed, Fed, EndsWith, Status!InboxIsNoticed, Status!vars
<1> QED BY <1>1, <1>2, <1>3, <1>4 DEF Status!Next

\* What a subscriber gets is in order and complete.
LEMMA StatusSound == StatusInv => Status!TypeOK /\ Status!FeedIsSound
<1> SUFFICES ASSUME StatusInv PROVE Status!TypeOK /\ Status!FeedIsSound OBVIOUS
<1>1. /\ StatusTyped /\ BytesTyped /\ ShotsQueued /\ LatestIsState /\ AllFed
      /\ Status!InboxIsNoticed
  BY DEF StatusInv
<1>2. \A c \in Status!Served : c \in Subscribers /\ topic[c] \in {"state", "shot"} /\ Fed(c)
  BY <1>1 DEF AllFed, Status!Served
<1>3. Status!LinesAreWhole
  <2> SUFFICES ASSUME NEW c \in Status!Served, NEW i \in 2..Len(Status!Bytes(c))
               PROVE  Follows(topic[c], Status!Bytes(c)[i - 1], Status!Bytes(c)[i])
    BY DEF Status!LinesAreWhole, Follows
  <2>1. Chain(topic[c], Status!Bytes(c)) BY <1>2, Zenon DEF Fed, Status!Bytes
  <2> QED BY <2>1 DEF Chain
<1>4. Status!ShotsAreComplete
  <2> SUFFICES ASSUME NEW c \in Status!Served, topic[c] = "shot"
               PROVE  Status!Last(Status!Bytes(c)) = <<shots - Len(inbox), "end">>
    BY DEF Status!ShotsAreComplete
  <2>1. Status!Bytes(c)[Len(Status!Bytes(c))] = EndsWith(topic[c], c)
    BY <1>2, Zenon DEF Fed, Status!Bytes
  <2> QED BY <2>1 DEF EndsWith, Status!Last
<1>5. counted \in 0..Status!Cardinality(Subscribers)
  <2>1. \A S : Status!Cardinality(S) = Cardinality(S) BY DEF Status!Cardinality, Cardinality
  <2> DEFINE s == {c \in Subscribers : topic[c] = "shot"}
  <2>2. s \subseteq Subscribers /\ IsFiniteSet(Subscribers) BY FeedAssumption
  <2>3. Cardinality(s) <= Cardinality(Subscribers) /\ IsFiniteSet(s) BY <2>2, FS_Subset
  <2>4. Cardinality(s) \in Nat /\ Cardinality(Subscribers) \in Nat BY <2>2, <2>3, FS_CardinalityType
  <2>5. counted = Cardinality(s) BY <1>1, <2>1 DEF Status!InboxIsNoticed
  <2> HIDE DEF s
  <2>6. counted \in 0..Cardinality(Subscribers) BY <2>3, <2>4, <2>5
  <2> QED BY <2>1, <2>6, Zenon
<1>6. \A c \in Subscribers : Len(socket[c]) <= Room BY <1>1 DEF BytesTyped
<1> QED BY <1>1, <1>3, <1>4, <1>5, <1>6 DEF StatusTyped, Status!TypeOK, Status!FeedIsSound

-----------------------------------------------------------------------------
(* The parts together.                                                     *)

\* A step of the whole is a step of each part, or leaves it alone.
LEMMA PartSteps ==
    ASSUME [Next]_vars
    PROVE  /\ [Session!Next]_(Session!vars) /\ [Restart!Next]_(Restart!vars)
           /\ [Control!Next]_(Control!vars) /\ [Stream!Next]_(Stream!vars)
           /\ [Status!Next]_(Status!vars)
<1> USE DEF vars, sessionVars, Session!vars, restartVars, Restart!vars, controlVars, Control!vars,
            streamVars, Stream!vars, statusVars, Status!vars
<1>1. [Session!Next]_(Session!vars) BY DEF Next
<1>2. [Restart!Next]_(Restart!vars) BY DEF Next
<1>3. [Control!Next]_(Control!vars) BY DEF Next
<1>4. [Stream!Next]_(Stream!vars) BY DEF Next
<1>5. [Status!Next]_(Status!vars) BY DEF Next
<1> QED BY <1>1, <1>2, <1>3, <1>4, <1>5

\* Each part keeps its invariant, whoever moves.
LEMMA PartInvariants ==
    /\ Init => SessionInv /\ RestartInv /\ ControlInv /\ StreamInv /\ StatusInv
    /\ SessionInv /\ [Next]_vars => SessionInv'
    /\ RestartInv /\ [Next]_vars => RestartInv'
    /\ ControlInv /\ [Next]_vars => ControlInv'
    /\ StreamInv /\ [Next]_vars => StreamInv'
    /\ StatusInv /\ [Next]_vars => StatusInv'
<1>1. Init => SessionInv /\ RestartInv /\ ControlInv /\ StreamInv /\ StatusInv
  BY SessionInit, RestartInit, ControlInit, StreamInit, StatusInit DEF Init
<1>2. SessionInv /\ [Next]_vars => SessionInv' BY PartSteps, SessionNext
<1>3. RestartInv /\ [Next]_vars => RestartInv' BY PartSteps, RestartNext
<1>4. ControlInv /\ [Next]_vars => ControlInv' BY PartSteps, ControlNext
<1>5. StreamInv /\ [Next]_vars => StreamInv' BY PartSteps, StreamNext
<1>6. StatusInv /\ [Next]_vars => StatusInv' BY PartSteps, StatusNext
<1> QED BY <1>1, <1>2, <1>3, <1>4, <1>5, <1>6

\* An app whose last window a logout closed is in the list the next login restores
\* until it is opened again, the file lists what was last saved unless writing that
\* failed, and nothing is saved once windows were asked to close (session.rs,
\* start_clean_exit, cancel_clean_exit).
THEOREM SessionKept == Spec => []SessionIsKept
<1>1. SessionInv => SessionIsKept BY DEF SessionInv, SessionIsKept
<1> QED BY <1>1, PartInvariants, PTL DEF Spec

\* Every caller of a command is in one place, from which it is answered, and what is
\* queued is noticed (ipc_server.rs); who waits for an app to restart waits for one that
\* is under way and not overdue, and no entry is kept for the windows of a process
\* that stays (restart_app.rs).
THEOREM CallersServed == Spec => []CallersAreServed
<1>1. ControlInv /\ RestartInv => CallersAreServed
  BY ControlServed, RestartServed DEF CallersAreServed
<1> QED BY <1>1, PartInvariants, PTL DEF Spec

\* Subscribers read whole lines in the order they were sent, and of the one-shots
\* all (status_server.rs); while anyone streams a window its tick runs, or the event
\* loop is about to be told to start it (stream_server.rs, handle_stream_timer).
THEOREM FeedsSound == Spec => []FeedsAreSound
<1>1. StatusInv /\ StreamInv => FeedsAreSound BY StatusSound, StreamSound DEF FeedsAreSound
<1> QED BY <1>1, PartInvariants, PTL DEF Spec

=============================================================================

------------------------------ MODULE SleepLock ------------------------------
(***************************************************************************)
(* The thread that locks the session before a sleep the compositor did not *)
(* ask for (src/server/sleep_lock.rs).  It holds a delay inhibitor of      *)
(* logind; on PrepareForSleep(true) it asks the compositor to lock over    *)
(* the control socket, and lets go when it has an answer.  The command     *)
(* waits in a queue until the main loop runs it, and is answered once the  *)
(* session is locked; the wait for that answer ends after 4 s, whether or  *)
(* not the command has run.                                                *)
(*                                                                         *)
(* logind and the bus are modelled from how the thread uses them: a signal *)
(* is queued for a thread that is subscribed, logind waits for a holder up *)
(* to its own deadline, and refuses an inhibitor while a sleep is under way. *)
(* The session lock is AbstractLock.                                       *)
(***************************************************************************)
EXTENDS Naturals, Sequences

CONSTANT MaxSignals     \* a bound on the signals that wait for the thread

VARIABLES
    thread,     \* where `run` is
    holding,    \* the thread holds its inhibitor
    signals,    \* PrepareForSleep signals the thread has not read
    queued,     \* a `lock` command of its waits for the main loop
    answer,     \* what became of its request: "none" (not run yet), "parked" (run,
                \* to be answered once locked), "locked" or "failed"
    logind,     \* "awake", "preparing" or "asleep"
    expired,    \* logind's deadline for this sleep has passed
    guarded,    \* this sleep began with the inhibitor held, and nothing failed since
    began,      \* the session was not open at some time since this sleep began
    shown,      \* it was closed at some time since then
    late,       \* the request of this sleep was given up on before its answer
    phase, keyed

threadVars == <<thread, holding, signals, queued, answer>>
logindVars == <<logind, expired>>
lockVars == <<phase, keyed>>
sinceVars == <<began, shown, late>>
vars == <<threadVars, logindVars, guarded, sinceVars, lockVars>>

Lock == INSTANCE AbstractLock

Init ==
    /\ thread = "start"
    /\ holding = FALSE
    /\ signals = <<>>
    /\ queued = FALSE
    /\ answer = "none"
    /\ logind = "awake"
    /\ expired = FALSE
    /\ guarded = FALSE
    /\ began = FALSE /\ shown = FALSE /\ late = FALSE
    /\ Lock!Init

Subscribed == thread \notin {"start", "retry"}

-----------------------------------------------------------------------------
(* The thread.                                                             *)

\* receive_signal, before the first inhibitor is taken.
Subscribe ==
    /\ thread = "start"
    /\ thread' = "take"
    /\ UNCHANGED <<holding, signals, queued, answer, logindVars, guarded, sinceVars, lockVars>>

\* Inhibit; refused while a sleep is under way, which is retried later.
Take ==
    /\ thread = "take"
    /\ holding' = (logind = "awake")
    /\ thread' = IF holding' THEN "waitSleep" ELSE "retry"
    /\ signals' = IF holding' THEN signals ELSE <<>>
    /\ UNCHANGED <<queued, answer, logindVars, guarded, sinceVars, lockVars>>

\* Mutant: any signal ends the wait.
WaitForAny(going, next) ==
    /\ signals # <<>>
    /\ signals' = Tail(signals)
    /\ thread' = next

\* wait_for: signals of the other kind are skipped.
WaitFor(going, next) ==
    /\ signals # <<>>
    /\ signals' = Tail(signals)
    /\ thread' = IF Head(signals) = going THEN next ELSE thread

WaitSleep ==
    /\ thread = "waitSleep"
    /\ WaitFor(TRUE, "ask")
    /\ UNCHANGED <<holding, queued, answer, logindVars, guarded, sinceVars, lockVars>>

\* request(socket, "lock"): the command goes to the main loop's queue.
Ask ==
    /\ thread = "ask"
    /\ thread' = "asked"
    /\ queued' = TRUE
    /\ answer' = "none"
    /\ UNCHANGED <<holding, signals, logindVars, guarded, sinceVars, lockVars>>

\* send_locked and reply_when_locked: a parked request is answered as the session
\* closes, or at once if it is closed.
AnswerParked(a) == IF a = "parked" /\ phase' = "closed" THEN "locked" ELSE a

\* What a step of the lock adds to what was seen since the sleep began.
SeenSince ==
    /\ began' = (began \/ phase' # "open")
    /\ shown' = (shown \/ phase' = "closed")

\* The main loop runs what is queued (lock_now), a command nobody waits for any more
\* as well; the answer is parked.
RunRequests ==
    /\ queued
    /\ queued' = FALSE
    /\ IF phase = "open" THEN Lock!Begin ELSE UNCHANGED lockVars
    /\ answer' = AnswerParked(IF thread = "asked" /\ answer = "none" THEN "parked" ELSE answer)
    /\ SeenSince
    /\ UNCHANGED <<thread, holding, signals, logindVars, guarded, late>>

\* The socket thread stops waiting.  The command stays in the queue.
AnswerLate ==
    /\ thread = "asked" /\ answer \in {"none", "parked"}
    /\ answer' = "failed"
    /\ late' = TRUE
    /\ UNCHANGED <<thread, holding, signals, queued, logindVars, guarded, began, shown, lockVars>>

\* The socket cannot be reached: the sleep goes ahead unlocked.
AskInVain ==
    /\ thread = "ask"
    /\ thread' = "asked"
    /\ answer' = "failed"
    /\ guarded' = FALSE
    /\ UNCHANGED <<holding, signals, queued, logindVars, sinceVars, lockVars>>

\* Mutant: the inhibitor is let go before the answer is there.
LetGoAtOnce ==
    /\ thread \in {"ask", "asked"} /\ holding
    /\ holding' = FALSE
    /\ thread' = IF answer \in {"locked", "failed"} THEN "waitResume" ELSE thread
    /\ UNCHANGED <<signals, queued, answer, logindVars, guarded, sinceVars, lockVars>>

\* drop(inhibitor).
LetGo ==
    /\ thread = "asked" /\ answer \in {"locked", "failed"}
    /\ holding' = FALSE
    /\ answer' = "none"
    /\ thread' = "waitResume"
    /\ UNCHANGED <<signals, queued, logindVars, guarded, sinceVars, lockVars>>

\* Mutant: the thread protects one sleep only.
WaitResumeOnce ==
    /\ thread = "waitResume"
    /\ signals # <<>>
    /\ signals' = Tail(signals)
    /\ UNCHANGED <<thread, holding, queued, answer, logindVars, guarded, sinceVars, lockVars>>

WaitResume ==
    /\ thread = "waitResume"
    /\ WaitFor(FALSE, "take")
    /\ UNCHANGED <<holding, queued, answer, logindVars, guarded, sinceVars, lockVars>>

\* The bus closes, and `run` returns: everything is dropped.
BusFails ==
    /\ thread \in {"take", "waitSleep", "waitResume"}
    /\ thread' = "retry"
    /\ holding' = FALSE
    /\ signals' = <<>>
    /\ guarded' = FALSE
    /\ UNCHANGED <<queued, answer, logindVars, sinceVars, lockVars>>

\* Half a minute later it starts over.
Retry ==
    /\ thread = "retry"
    /\ thread' = "start"
    /\ UNCHANGED <<holding, signals, queued, answer, logindVars, guarded, sinceVars, lockVars>>

-----------------------------------------------------------------------------
(* logind.                                                                 *)

Emit(going) == signals' = IF Subscribed THEN Append(signals, going) ELSE signals

Prepare ==
    /\ logind = "awake"
    /\ Len(signals) < MaxSignals
    /\ logind' = "preparing"
    /\ Emit(TRUE)
    /\ guarded' = (holding /\ thread = "waitSleep")
    /\ began' = (phase # "open") /\ shown' = (phase = "closed") /\ late' = FALSE
    /\ UNCHANGED <<thread, holding, queued, answer, expired, lockVars>>

Deadline ==
    /\ logind = "preparing"
    /\ expired' = TRUE
    /\ UNCHANGED <<threadVars, logind, guarded, sinceVars, lockVars>>

Suspend ==
    /\ logind = "preparing"
    /\ ~holding \/ expired
    /\ logind' = "asleep"
    /\ UNCHANGED <<threadVars, expired, guarded, sinceVars, lockVars>>

Resume ==
    /\ logind = "asleep"
    /\ Len(signals) < MaxSignals
    /\ logind' = "awake"
    /\ expired' = FALSE
    /\ Emit(FALSE)
    /\ UNCHANGED <<thread, holding, queued, answer, guarded, sinceVars, lockVars>>

\* The lock goes its own way: others lock, a lock completes, its client opens it.
LockStep ==
    /\ Lock!Next
    /\ answer' = AnswerParked(answer)
    /\ SeenSince
    /\ UNCHANGED <<thread, holding, signals, queued, logindVars, guarded, late>>

Next ==
    \/ Subscribe
    \/ Take
    \/ WaitSleep
    \/ Ask
    \/ RunRequests
    \/ AnswerLate
    \/ AskInVain
    \/ LetGo
    \/ WaitResume
    \/ BusFails
    \/ Retry
    \/ Prepare
    \/ Deadline
    \/ Suspend
    \/ Resume
    \/ LockStep

\* The thread runs, and its request is answered within the socket's timeout.
Fairness ==
    /\ WF_vars(Subscribe)
    /\ WF_vars(Take)
    /\ WF_vars(WaitSleep)
    /\ WF_vars(Ask)
    /\ WF_vars(AnswerLate)
    /\ WF_vars(LetGo)
    /\ WF_vars(WaitResume)
    /\ WF_vars(Retry)

Spec == Init /\ [][Next]_vars /\ Fairness

-----------------------------------------------------------------------------
(* Properties.                                                             *)

\* A sleep that began while the thread held its inhibitor finds that every output has
\* shown the locked scene since it began ("by the time it lets go every output shows
\* the locked scene"), unless logind's own deadline passed first or the thread gave up
\* on its request.  Then the lock has begun, or its command is still queued for the
\* main loop: a request given up on is late, never lost.
SleepsBehindLock ==
    logind = "asleep" /\ guarded => expired \/ shown \/ (late /\ (began \/ queued))

\* The thread stays in step with logind: with nothing left to read it waits for a
\* sleep while the machine is awake, and for a resume while it is not, so it is
\* never a whole sleep behind or ahead.
InStep ==
    signals = <<>> =>
        /\ (thread = "waitSleep" => logind = "awake")
        /\ (thread = "waitResume" => logind # "awake")

\* Every sleep the thread guards finds it waiting and waits for the lock it asks for.
GuardsSleeps == SleepsBehindLock /\ InStep

\* A machine that stays awake gets its inhibitor back, after however many sleeps
\* and failures.
HoldsAgain ==
    <>[](logind = "awake") /\ <>[][~BusFails]_vars => <>[]holding
=============================================================================

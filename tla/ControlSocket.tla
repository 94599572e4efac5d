--------------------------- MODULE ControlSocket ----------------------------
(***************************************************************************)
(* The control socket: a thread per connection (ipc_server.rs) queues its  *)
(* command, bumps an eventfd and waits a while for the answer; the event   *)
(* loop (window_manager.rs, handle_ipc_event) runs what is queued.  Some   *)
(* commands keep the caller's channel and answer later: `screenshot` from  *)
(* the next frame, `focus-window --wait` once the window holds still, and  *)
(* `lock` once the session is locked.                                      *)
(*                                                                         *)
(* A caller is its connection; it comes back with another command once it  *)
(* was answered.                                                           *)
(***************************************************************************)
EXTENDS Naturals, Sequences, SequencesExt, FiniteSets

CONSTANTS
    Callers,
    Nobody      \* a capture nobody waits for (the screenshot action's)

Kinds == {"quick", "screenshot", "action", "settle", "lock"}

VARIABLES
    thread,     \* of each connection: "reading", "queued" (not woken yet), "waiting"
    kind,       \* its command
    queue,      \* the channel of IpcRequests
    wake,       \* the eventfd
    draining,   \* the event loop is in handle_ipc_event
    shot,       \* pending_screenshot: {}, or {its caller}
    settling,   \* settle_waiters
    locking,    \* lock_waiters
    sent,       \* callers whose reply is in their channel
    ran,        \* how often a connection's command was run
    output      \* an output is enabled

vars == <<thread, kind, queue, wake, draining, shot, settling, locking, sent, ran, output>>
parked == <<shot, settling, locking>>

TypeOK ==
    /\ thread \in [Callers -> {"reading", "queued", "waiting"}]
    /\ kind \in [Callers -> Kinds]
    /\ ToSet(queue) \subseteq Callers
    /\ {wake, draining, output} \subseteq BOOLEAN
    /\ shot \subseteq Callers \cup {Nobody} /\ Cardinality(shot) <= 1
    /\ settling \cup locking \cup sent \subseteq Callers
    /\ ran \in [Callers -> 0..1]

Init ==
    /\ thread = [c \in Callers |-> "reading"]
    /\ kind = [c \in Callers |-> "quick"]
    /\ queue = <<>>
    /\ wake = FALSE /\ draining = FALSE
    /\ shot = {} /\ settling = {} /\ locking = {} /\ sent = {}
    /\ ran = [c \in Callers |-> 0]
    /\ output = TRUE

\* Somebody still has the channel of c's last command.
Held(c) == c \in ToSet(queue) \cup shot \cup settling \cup locking \cup sent

-----------------------------------------------------------------------------
(* The threads.                                                            *)

\* A command was read whole and is queued; one that is too long or holds a NUL is
\* refused instead, and never gets here.
Send(c) ==
    /\ thread[c] = "reading" /\ ~Held(c)
    /\ \E k \in Kinds : kind' = [kind EXCEPT ![c] = k]
    /\ thread' = [thread EXCEPT ![c] = "queued"]
    /\ queue' = Append(queue, c)
    /\ ran' = [ran EXCEPT ![c] = 0]
    /\ UNCHANGED <<wake, draining, parked, sent, output>>

\* wake_fd.
Wake(c) ==
    /\ thread[c] = "queued"
    /\ thread' = [thread EXCEPT ![c] = "waiting"]
    /\ wake' = TRUE
    /\ UNCHANGED <<kind, queue, draining, parked, sent, ran, output>>

\* The reply arrives, or the thread has waited long enough: then its channel is
\* gone, and what is sent to it later is dropped.
Told(c) ==
    /\ thread[c] = "waiting"
    /\ thread' = [thread EXCEPT ![c] = "reading"]
    /\ sent' = sent \ {c}
    /\ UNCHANGED <<kind, queue, wake, draining, parked, ran, output>>

\* A reply sent after its thread gave up.
DropLate(c) ==
    /\ thread[c] = "reading" /\ c \in sent
    /\ sent' = sent \ {c}
    /\ UNCHANGED <<thread, kind, queue, wake, draining, parked, ran, output>>

-----------------------------------------------------------------------------
(* The event loop.                                                         *)

\* handle_ipc_event clears the eventfd, then takes what is queued, one by one.
Event ==
    /\ wake /\ ~draining
    /\ draining' = TRUE /\ wake' = FALSE
    /\ UNCHANGED <<thread, kind, queue, parked, sent, ran, output>>

Drained ==
    /\ draining /\ queue = <<>>
    /\ draining' = FALSE
    /\ UNCHANGED <<thread, kind, queue, wake, parked, sent, ran, output>>

\* A capture takes the one place there is; what was there is dropped, and its
\* caller told so (PendingScreenshot::drop).
Park(c) == shot' = {c} /\ sent' = sent \cup (shot \ {Nobody})

Answer(c) == sent' = sent \cup {c} /\ UNCHANGED parked

\* The screenshot action hides the channel it was lent, and its caller is answered
\* at once; the capture is nobody's.
ScreenshotAction(c) ==
    /\ shot' = {Nobody}
    /\ sent' = sent \cup (shot \ {Nobody}) \cup {c}
    /\ UNCHANGED <<settling, locking>>

\* process_ipc_command: a command that fails, or panics, is answered at once too.
Dispatch ==
    /\ draining /\ queue # <<>>
    /\ LET c == Head(queue) IN
         /\ queue' = Tail(queue)
         /\ ran' = [ran EXCEPT ![c] = @ + 1]
         /\ \/ kind[c] # "action" /\ Answer(c)
            \/ kind[c] = "screenshot" /\ output /\ Park(c) /\ UNCHANGED <<settling, locking>>
            \/ kind[c] = "action" /\ output /\ ScreenshotAction(c)
            \/ kind[c] = "action" /\ ~output /\ Answer(c)
            \/ /\ kind[c] = "settle" /\ settling' = settling \cup {c}
               /\ UNCHANGED <<sent, shot, locking>>
            \/ /\ kind[c] = "lock" /\ locking' = locking \cup {c}
               /\ UNCHANGED <<sent, shot, settling>>
    /\ UNCHANGED <<thread, kind, wake, draining, output>>

\* The next frame of the output takes the capture, lands it or fails
\* (Output::render_and_commit).
Frame ==
    /\ ~draining
    /\ output /\ shot # {}
    /\ shot' = {}
    /\ sent' = sent \cup (shot \ {Nobody})
    /\ UNCHANGED <<thread, kind, queue, wake, draining, settling, locking, ran, output>>

\* An output that is destroyed drops the capture parked for it.
OutputGoes ==
    /\ ~draining /\ output
    /\ output' = FALSE
    /\ shot' = {} /\ sent' = sent \cup (shot \ {Nobody})
    /\ UNCHANGED <<thread, kind, queue, wake, draining, settling, locking, ran>>

OutputComes ==
    /\ ~draining /\ ~output
    /\ output' = TRUE
    /\ UNCHANGED <<thread, kind, queue, wake, draining, parked, sent, ran>>

\* poll_settle_waiters: the window holds still, is gone, or SETTLE_TIMEOUT_MS is over.
Settle(c) ==
    /\ ~draining /\ c \in settling
    /\ settling' = settling \ {c}
    /\ sent' = sent \cup {c}
    /\ UNCHANGED <<thread, kind, queue, wake, draining, shot, locking, ran, output>>

\* LockManager::send_locked.
Locked ==
    /\ ~draining /\ locking # {}
    /\ locking' = {}
    /\ sent' = sent \cup locking
    /\ UNCHANGED <<thread, kind, queue, wake, draining, shot, settling, ran, output>>

Next ==
    \/ \E c \in Callers : Send(c) \/ Wake(c) \/ Told(c) \/ DropLate(c)
    \/ Event \/ Dispatch \/ Drained
    \/ Frame \/ OutputGoes \/ OutputComes
    \/ \E c \in Callers : Settle(c)
    \/ Locked

\* Threads that queued a command go on to wake the event loop, and it runs its
\* sources.
Fairness ==
    /\ \A c \in Callers : WF_vars(Wake(c))
    /\ WF_vars(Event) /\ WF_vars(Dispatch) /\ WF_vars(Drained)

Spec == Init /\ [][Next]_vars /\ Fairness

-----------------------------------------------------------------------------
(* Properties.                                                             *)

\* Each caller's channel is in one place: in the queue, kept for a later answer,
\* or answered; and one that waits has not been forgotten.
OnePlaceEach ==
    LET place == <<ToSet(queue), shot, settling, locking, sent>>
    IN  /\ IsInjective(queue)
        /\ \A i, j \in DOMAIN place : i # j => place[i] \cap place[j] = {}
        /\ \A c \in Callers : thread[c] # "reading" => Held(c)

\* What is queued will be noticed: the event loop is at it, the eventfd is set, or
\* the thread that queued it is about to set it.
QueueIsNoticed ==
    queue # <<>> => wake \/ draining \/ \E c \in Callers : thread[c] = "queued"

\* A capture is answered to who asked for one: never to who ran the action, and
\* none waits for an output that is gone.
CapturesAreTheirs ==
    /\ \A c \in shot \ {Nobody} : kind[c] = "screenshot"
    /\ shot # {} => output

NobodyIsForgotten == OnePlaceEach /\ QueueIsNoticed /\ CapturesAreTheirs

\* Every command that was queued is run, also one whose caller gave up.
QueuedIsRun == \A c \in Callers : thread[c] = "queued" ~> ran[c] = 1
=============================================================================

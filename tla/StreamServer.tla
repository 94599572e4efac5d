---------------------------- MODULE StreamServer ----------------------------
(***************************************************************************)
(* Window streams (stream_server.rs, and the frame tick of                 *)
(* window_manager.rs): an accept thread adds subscribers, the tick         *)
(* captures windows that changed and offers the frame to each subscriber's *)
(* bounded queue, and a writer thread per subscriber writes it out.        *)
(*                                                                         *)
(* A frame is the number of commits its window had.                        *)
(***************************************************************************)
EXTENDS Naturals, Sequences, SequencesExt

CONSTANTS
    Windows,
    Clients,
    MaxCommits,     \* bounds the commits of a window
    QueueLimit      \* of a subscriber's channel

VARIABLES
    commits,    \* of each window
    dirty,      \* Window.stream_dirty
    target,     \* the window a client subscribed to
    hub,        \* StreamHub.subs, in order
    needsFrame, \* Sub.needs_frame
    due,        \* KEEPALIVE: a subscriber's last_sent is 15 s ago
    channel,    \* frames queued to the writer thread
    writer,     \* the writer threads that run
    gone,       \* clients that hung up
    shown,      \* the last frame a client read
    pushed,     \* the accept thread added a subscriber and has yet to wake
    wake,       \* StreamHub.wake
    armed       \* stream_timer

vars == <<commits, dirty, target, hub, needsFrame, due, channel, writer, gone, shown,
          pushed, wake, armed>>

TypeOK ==
    /\ commits \in [Windows -> 0..MaxCommits]
    /\ dirty \subseteq Windows
    /\ target \in [Clients -> Windows]
    /\ ToSet(hub) \subseteq Clients /\ IsInjective(hub)
    /\ needsFrame \cup due \cup writer \cup gone \subseteq Clients
    /\ \A c \in Clients : Len(channel[c]) <= QueueLimit /\ ToSet(channel[c]) \subseteq 0..MaxCommits
    /\ shown \in [Clients -> 0..MaxCommits]
    /\ {pushed, wake, armed} \subseteq BOOLEAN

Init ==
    /\ commits = [w \in Windows |-> 0]
    /\ dirty = {}
    /\ target \in [Clients -> Windows]
    /\ hub = <<>>
    /\ needsFrame = {} /\ due = {} /\ writer = {} /\ gone = {}
    /\ channel = [c \in Clients |-> <<>>]
    /\ shown = [c \in Clients |-> 0]
    /\ pushed = FALSE /\ wake = FALSE /\ armed = FALSE

-----------------------------------------------------------------------------
(* The threads and the clients.                                            *)

\* accept_loop: a client's writer thread is started and its subscription pushed.
Accept(c) ==
    /\ ~pushed /\ c \notin ToSet(hub) \cup writer
    /\ hub' = Append(hub, c)
    /\ writer' = writer \cup {c} /\ gone' = gone \ {c}
    /\ needsFrame' = needsFrame \cup {c} /\ due' = due \ {c}
    /\ channel' = [channel EXCEPT ![c] = <<>>]
    /\ pushed' = TRUE
    /\ UNCHANGED <<commits, dirty, target, shown, wake, armed>>

\* ... and the event loop told.
WakeLoop ==
    /\ pushed
    /\ pushed' = FALSE /\ wake' = TRUE
    /\ UNCHANGED <<commits, dirty, target, hub, needsFrame, due, channel, writer, gone, shown, armed>>

HangUp(c) ==
    /\ c \in writer \ gone
    /\ gone' = gone \cup {c}
    /\ UNCHANGED <<commits, dirty, target, hub, needsFrame, due, channel, writer, shown,
                   pushed, wake, armed>>

\* writer_loop: a frame is written out, or the write fails and the thread ends;
\* it ends too when its subscription was dropped.
WriteOut(c) ==
    /\ c \in writer
    /\ IF channel[c] # <<>> /\ c \notin gone
       THEN /\ shown' = [shown EXCEPT ![c] = Head(channel[c])]
            /\ channel' = [channel EXCEPT ![c] = Tail(@)]
            /\ UNCHANGED writer
       ELSE /\ channel[c] # <<>> \/ c \notin ToSet(hub)
            /\ writer' = writer \ {c}
            /\ UNCHANGED <<shown, channel>>
    /\ UNCHANGED <<commits, dirty, target, hub, needsFrame, due, gone, pushed, wake, armed>>

\* Window::stream_dirty is set by each commit.
Commit(w) ==
    /\ commits[w] < MaxCommits
    /\ commits' = [commits EXCEPT ![w] = @ + 1]
    /\ dirty' = dirty \cup {w}
    /\ UNCHANGED <<target, hub, needsFrame, due, channel, writer, gone, shown, pushed, wake, armed>>

KeepaliveDue(c) ==
    /\ c \in ToSet(hub) \ due
    /\ due' = due \cup {c}
    /\ UNCHANGED <<commits, dirty, target, hub, needsFrame, channel, writer, gone, shown,
                   pushed, wake, armed>>

-----------------------------------------------------------------------------
(* The tick.                                                               *)

\* handle_stream_wake.
HandleWake ==
    /\ wake
    /\ wake' = FALSE /\ armed' = TRUE
    /\ UNCHANGED <<commits, dirty, target, hub, needsFrame, due, channel, writer, gone, shown, pushed>>

\* The first subscriber of its window in the list: only that one still finds the
\* window dirty, its capture cleans it.
FirstOfWindow(c) ==
    \A i, j \in DOMAIN hub : hub[i] = c /\ j < i => target[hub[j]] # target[c]

\* Those the tick offers a frame to.
Offered == {c \in ToSet(hub) : \/ c \in needsFrame \cup due
                               \/ target[c] \in dirty /\ FirstOfWindow(c)}

\* Mutant: the queue has no limit.
FitsAlways(c) == c \in writer

Fits(c) == c \in writer /\ Len(channel[c]) < QueueLimit

\* The subscribers that are not among R, in their order (as a function, which can be
\* proved about).
Without(s, R) ==
    LET f[n \in 0..Len(s)] ==
          IF n = 0 THEN <<>>
          ELSE IF s[n] \in R THEN f[n - 1] ELSE Append(f[n - 1], s[n])
    IN  f[Len(s)]

\* handle_stream_timer: frames are captured and offered, never waited for; one that
\* does not fit is dropped, and a subscriber without a writer removed.  A window
\* that cannot be captured is left for the next tick.  The tick comes again only
\* while somebody subscribes.
StreamTick ==
    /\ armed
    /\ \E failed \in SUBSET Windows :
         LET offered == {c \in Offered : target[c] \notin failed}
             served == {c \in offered : Fits(c)}
         IN  /\ channel' = [c \in Clients |->
                              IF c \in served THEN Append(channel[c], commits[target[c]]) ELSE channel[c]]
             /\ needsFrame' = needsFrame \ served /\ due' = due \ served
             /\ dirty' = dirty \ {target[c] : c \in offered}
             /\ hub' = Without(hub, offered \ writer)
             /\ armed' = (hub # <<>>)
    /\ UNCHANGED <<commits, target, writer, gone, shown, pushed, wake>>

Next ==
    \/ \E c \in Clients : Accept(c) \/ HangUp(c) \/ WriteOut(c) \/ KeepaliveDue(c)
    \/ \E w \in Windows : Commit(w)
    \/ WakeLoop \/ HandleWake \/ StreamTick

\* A tick that captures what it set out to.
TickWell == StreamTick /\ \A c \in Offered : target[c] \notin dirty'

\* The event loop and the threads run; a capture that fails does not fail for
\* ever; keepalives come due; and a client that did not hang up reads on.
Fairness ==
    /\ WF_vars(WakeLoop) /\ WF_vars(HandleWake) /\ WF_vars(TickWell)
    /\ \A c \in Clients : WF_vars(WriteOut(c)) /\ WF_vars(KeepaliveDue(c))

Spec == Init /\ [][Next]_vars /\ Fairness

-----------------------------------------------------------------------------
(* Properties.                                                             *)

\* While there are subscribers the tick runs, or the event loop is about to be
\* told to start it.
TickRuns == hub # <<>> => armed \/ wake \/ pushed

\* A subscriber that stays sees its window as it is in the end, whatever frames
\* did not fit its queue.
CatchesUp ==
    \A c \in Clients :
        <>[](c \in ToSet(hub) \ gone) => <>[](shown[c] = commits[target[c]])

\* One that hung up is dropped, although nothing changes any more.
HungUpIsDropped == \A c \in Clients : c \in gone /\ c \in ToSet(hub) ~> c \notin ToSet(hub) \/ c \notin gone

\* "One captured frame, shared across all subscribers of the same window"
\* (stream_server.rs): a change that is captured is offered to all of them.
OneFrameForAll ==
    [][\A c, d \in ToSet(hub) :
         /\ target[c] = target[d] /\ target[c] \in dirty \ dirty'
         /\ d \in writer /\ Len(channel[d]) < QueueLimit
         => Len(channel'[d]) > Len(channel[d])]_vars
=============================================================================

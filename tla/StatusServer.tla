---------------------------- MODULE StatusServer ----------------------------
(***************************************************************************)
(* The status feed (status_server.rs): the event loop queues state updates *)
(* and one-shot lines, and one thread writes them to the subscribers'      *)
(* sockets, never waiting for one: what a socket does not take is owed.    *)
(*                                                                         *)
(* A subscriber has a state topic, whose line is only sent when it         *)
(* changed, or a one-shot topic, of which nothing is kept for later        *)
(* subscribers.  A line is two bytes, so that a socket can take half of it.*)
(***************************************************************************)
EXTENDS Integers, Sequences, SequencesExt, FiniteSets

CONSTANTS
    Clients,
    MaxLine,        \* bounds the updates and one-shots sent
    Room,           \* bytes a socket holds
    MaxOwed         \* MAX_PENDING, in bytes

VARIABLES
    state,      \* the last update the event loop sent
    shots,      \* one-shot lines it sent so far
    inbox,      \* one-shot lines in the thread's channel
    updated,    \* a state update is in it; a turn takes them all, so their order does not matter
    wake,       \* the eventfd
    latest,     \* the thread's copy of the state
    topic,      \* of each client: "none", "state", "shot"; "coming" until accepted
    wants,      \* what it subscribes to when accepted
    lastLine,   \* Client.last_line
    owed,       \* Client.pending
    socket,     \* bytes the client has yet to read
    heard,      \* the last byte it read, or what comes before its first
    gone,       \* clients that hung up
    counted     \* menu_subscribers: one-shot clients, as the event loop sees them

vars == <<state, shots, inbox, updated, wake, latest, topic, wants, lastLine, owed, socket, heard, gone, counted>>
clientVars == <<topic, wants, lastLine, owed, socket, heard>>

Line(n) == <<<<n, "begin">>, <<n, "end">>>>
Served == {c \in Clients : topic[c] \in {"state", "shot"}}

TypeOK ==
    /\ {state, shots, latest} \subseteq 0..MaxLine
    /\ inbox \in Seq(1..MaxLine)
    /\ {updated, wake} \subseteq BOOLEAN
    /\ topic \in [Clients -> {"none", "coming", "state", "shot"}]
    /\ wants \in [Clients -> {"state", "shot"}]
    /\ lastLine \in [Clients -> 0..MaxLine]
    /\ \A c \in Clients : Len(socket[c]) <= Room
    /\ gone \subseteq Clients
    /\ counted \in 0..Cardinality(Clients)

Init ==
    /\ state = 0 /\ shots = 0 /\ latest = 0
    /\ inbox = <<>> /\ updated = FALSE /\ wake = FALSE
    /\ topic = [c \in Clients |-> "none"]
    /\ wants = [c \in Clients |-> "state"]
    /\ lastLine = [c \in Clients |-> 0]
    /\ owed = [c \in Clients |-> <<>>]
    /\ socket = [c \in Clients |-> <<>>]
    /\ heard = [c \in Clients |-> <<0, "end">>]
    /\ gone = {}
    /\ counted = 0

-----------------------------------------------------------------------------
(* The event loop and the clients.                                         *)

\* StatusSender: a message is queued and the thread woken.
SendState ==
    /\ state + shots < MaxLine
    /\ state' = state + 1
    /\ updated' = TRUE
    /\ wake' = TRUE
    /\ UNCHANGED <<shots, inbox, latest, clientVars, gone, counted>>

SendShot ==
    /\ state + shots < MaxLine
    /\ shots' = shots + 1
    /\ inbox' = Append(inbox, shots')
    /\ wake' = TRUE
    /\ UNCHANGED <<state, updated, latest, clientVars, gone, counted>>

Connect(c) ==
    /\ topic[c] = "none"
    /\ topic' = [topic EXCEPT ![c] = "coming"]
    /\ \E t \in {"state", "shot"} : wants' = [wants EXCEPT ![c] = t]
    /\ lastLine' = [lastLine EXCEPT ![c] = 0]
    /\ owed' = [owed EXCEPT ![c] = <<>>] /\ socket' = [socket EXCEPT ![c] = <<>>]
    /\ UNCHANGED <<state, shots, inbox, updated, wake, latest, heard, gone, counted>>

Read(c) ==
    /\ socket[c] # <<>> /\ c \notin gone
    /\ heard' = [heard EXCEPT ![c] = Head(socket[c])]
    /\ socket' = [socket EXCEPT ![c] = Tail(@)]
    /\ UNCHANGED <<state, shots, inbox, updated, wake, latest, topic, wants, lastLine, owed, gone, counted>>

HangUp(c) ==
    /\ c \in Served \ gone
    /\ gone' = gone \cup {c}
    /\ UNCHANGED <<state, shots, inbox, updated, wake, latest, clientVars, counted>>

-----------------------------------------------------------------------------
(* The thread.                                                             *)

\* poll() has something: the eventfd, the listener, a hangup, or room for what is
\* owed.
Activity ==
    \/ wake
    \/ \E c \in Clients : topic[c] = "coming"
    \/ gone \cap Served # {}
    \/ \E c \in Served : owed[c] # <<>> /\ Len(socket[c]) < Room

Latest == IF updated THEN state ELSE latest

\* The one-shots in the channel, byte by byte.
OneShots ==
    [i \in 1..2 * Len(inbox) |-> <<inbox[(i + 1) \div 2], IF i % 2 = 1 THEN "begin" ELSE "end">>]

\* What a turn has for a client of topic t, once it took all its messages: the
\* one-shots, or the state if that was sent again and its line changed.
NewLines(c, t, push) ==
    CASE t = "shot" -> OneShots
      [] t = "state" /\ push /\ Latest \notin {0, lastLine[c]} -> Line(Latest)
      [] OTHER -> <<>>

\* How many of n bytes a socket takes now.
Taken(c, n) == IF n < Room - Len(socket[c]) THEN n ELSE Room - Len(socket[c])

\* How far a client with these bytes to come is behind when the last line of them is
\* queued: what its socket took of those before is not owed any more.
Behind(c, bytes) == Len(bytes) - Taken(c, Len(bytes) - 2)

\* Mutant: a line the socket takes half of is sent again whole.
OwesAgain(b, n) == IF n % 2 = 1 THEN SubSeq(b, n, Len(b)) ELSE SubSeq(b, n + 1, Len(b))

\* Client::flush: what the socket did not take stays owed.
Owes(b, n) == SubSeq(b, n + 1, Len(b))

\* Mutant: a client that hung up is dropped when a write to it fails.
ReapedByWrite(c) == c \in gone /\ (owed[c] # <<>> \/ inbox # <<>> \/ updated)

\* Subscribers that hung up are found by reading, and one too far behind is dropped.
Reaped(c) == c \in gone

Count(stay) == counted' = Cardinality({c \in stay : topic'[c] = "shot"})

\* status_server_main: one turn of the thread.
Turn ==
    /\ Activity
    /\ LET accepted == {c \in Clients : topic[c] = "coming"}
           push == updated \/ accepted # {}
           new == [c \in Clients |->
                     NewLines(c, IF c \in accepted THEN wants[c] ELSE topic[c], push)]
           all == [c \in Clients |-> owed[c] \o new[c]]
           stay == {c \in Served \cup accepted :
                      ~Reaped(c) /\ (new[c] = <<>> \/ Behind(c, all[c]) <= MaxOwed)}
       IN  /\ topic' = [c \in Clients |-> IF c \notin stay THEN "none"
                          ELSE IF c \in accepted THEN wants[c] ELSE topic[c]]
           /\ socket' = [c \in Clients |->
                           IF c \in stay THEN socket[c] \o SubSeq(all[c], 1, Taken(c, Len(all[c]))) ELSE <<>>]
           /\ owed' = [c \in Clients |->
                         IF c \in stay THEN Owes(all[c], Taken(c, Len(all[c]))) ELSE <<>>]
           /\ lastLine' = [c \in Clients |->
                             IF topic'[c] = "state" /\ new[c] # <<>> THEN Latest ELSE lastLine[c]]
           /\ heard' = [c \in Clients |->
                IF c \notin accepted \cap stay THEN heard[c]
                ELSE <<IF wants[c] = "shot" THEN shots - Len(inbox) ELSE 0, "end">>]
           /\ gone' = gone \cap stay
           /\ Count(stay)
    /\ latest' = Latest
    /\ inbox' = <<>> /\ updated' = FALSE /\ wake' = FALSE
    /\ UNCHANGED <<state, shots, wants>>

Next ==
    \/ SendState \/ SendShot
    \/ \E c \in Clients : Connect(c) \/ Read(c) \/ HangUp(c)
    \/ Turn

\* The thread takes its turns, and a client that did not hang up reads.
Fairness == WF_vars(Turn) /\ \A c \in Clients : WF_vars(Read(c))

Spec == Init /\ [][Next]_vars /\ Fairness

-----------------------------------------------------------------------------
(* Properties.                                                             *)

\* What a subscriber read last, and what is on its way to it.
Bytes(c) == <<heard[c]>> \o socket[c] \o owed[c]

\* What a subscriber gets is whole lines, in the order they were sent and none of
\* them twice, whatever its socket takes at a time ("a garbled line is a wrong
\* action", Client::pending); of the one-shots it misses none.
LinesAreWhole ==
    \A c \in Served : \A i \in 2..Len(Bytes(c)) :
        LET x == Bytes(c)[i - 1]
            y == Bytes(c)[i]
        IN  IF x[2] = "begin" THEN y = <<x[1], "end">>
            ELSE /\ y[2] = "begin"
                 /\ IF topic[c] = "shot" THEN y[1] = x[1] + 1 ELSE y[1] > x[1]

\* The last one-shot the thread took is on its way to all that subscribe to them.
ShotsAreComplete ==
    \A c \in Served : topic[c] = "shot" => Last(Bytes(c)) = <<shots - Len(inbox), "end">>

\* What is queued is noticed, and the event loop's count of those a menu is opened
\* through is the thread's.
InboxIsNoticed ==
    /\ inbox # <<>> \/ updated => wake
    /\ counted = Cardinality({c \in Clients : topic[c] = "shot"})

FeedIsSound == LinesAreWhole /\ ShotsAreComplete /\ InboxIsNoticed

\* A state subscriber that stays ends with the last state.
EndsCurrent ==
    \A c \in Clients :
        <>[](topic[c] = "state" /\ c \notin gone) =>
            <>[](heard[c] = <<state, "end">>)

\* A subscriber that hung up is dropped although its topic is quiet (else their
\* sockets use up the process's descriptors).
DeadAreReaped == \A c \in Clients : c \in gone ~> c \notin gone
=============================================================================

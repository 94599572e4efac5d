---------------------------- MODULE AbstractLock ----------------------------
(***************************************************************************)
(* What a session lock promises to the person who locked the session: once *)
(* closing has begun the session opens again only after it was closed, and *)
(* only for the client that holds the key.  The key is handed out only     *)
(* while the session is closed, and can be lost without opening it.        *)
(***************************************************************************)
VARIABLES
    phase,      \* "open", "closing" or "closed"
    keyed       \* a client holds the key

vars == <<phase, keyed>>

Init == phase = "open" /\ keyed = FALSE

\* Locking starts; with nothing to wait for it is done at once.
Begin ==
    /\ phase = "open"
    /\ phase' \in {"closing", "closed"}
    /\ keyed' = FALSE

\* Locking is complete; a client that asked for it gets the key.
Close ==
    /\ phase = "closing"
    /\ phase' = "closed"
    /\ keyed' \in BOOLEAN

\* A client takes over a closed session, or the one that held it goes away.
PassKey ==
    /\ phase = "closed"
    /\ keyed' \in BOOLEAN
    /\ UNCHANGED phase

Open ==
    /\ phase = "closed"
    /\ keyed
    /\ phase' = "open"
    /\ keyed' = FALSE

Next == Begin \/ Close \/ PassKey \/ Open

Spec == Init /\ [][Next]_vars
=============================================================================

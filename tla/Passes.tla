------------------------------- MODULE Passes -------------------------------
(***************************************************************************)
(* What the window manager promises about its manage passes to the         *)
(* handlers that ask for them (shared.rs, window_manager/transaction.rs):  *)
(* a wish for a pass is dropped only by a pass that begins after it was    *)
(* made, never by one that is already waiting for clients; every wish is   *)
(* met, and every pass that waits ends.  Transaction keeps this promise,   *)
(* OutputConfig is built on it.                                            *)
(***************************************************************************)
VARIABLES
    phase,   \* "Idle", or "Inflight": a pass waits for clients
    manage   \* a manage pass is wanted

vars == <<phase, manage>>

Init == phase = "Idle" /\ manage = FALSE

\* A handler asks for a pass.
Want == manage' = TRUE /\ UNCHANGED phase

\* A pass begins that has to wait for clients.
Begin ==
    /\ phase = "Idle"
    /\ phase' = "Inflight" /\ manage' = FALSE

\* A pass that waits for nobody, from its start to its end.
Pass ==
    /\ phase = "Idle"
    /\ manage' = FALSE
    /\ UNCHANGED phase

\* The end of a pass that waited; what ends it may ask for the next one.
Finish ==
    /\ phase = "Inflight"
    /\ phase' = "Idle" /\ manage' \in {manage, TRUE}

Next == Want \/ Begin \/ Pass \/ Finish

Spec == Init /\ [][Next]_vars

Fairness ==
    /\ WF_vars(manage /\ (Begin \/ Pass))
    /\ WF_vars(Finish)

FairSpec == Spec /\ Fairness
=============================================================================

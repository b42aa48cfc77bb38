----------------------------- MODULE MCDispatch -----------------------------
(***************************************************************************)
(* The two halves of dispatching for TLC, one at a time: the rows, their   *)
(* jobs and the reconciler (Outbox) under dispatchers that keep sweeping,  *)
(* and one relay that makes its dispatcher sweep (OutboxRelay).            *)
(***************************************************************************)
EXTENDS Outbox, OutboxRelay

VARIABLE half  \* the half that is followed

DispatchVars == <<vars, relayVars, half>>

\* A relay that has been stopped and has exited.
RelayAtRest ==
    /\ row = [r \in Rows |-> "absent"]
    /\ inFlight = 0
    /\ listener = "stopped"
    /\ running = FALSE
    /\ loop = "exited"
    /\ stopping = "stopped"
    /\ rounds = 0 /\ pendingWake = FALSE /\ timer = "none" /\ probed = NoRow /\ calm = TRUE

\* Where the other half is not followed it is at rest and owes nothing, so that the
\* fairness of both modules can be asked of every behaviour.
DispatchInit ==
    /\ Init
    /\ \/ half = "rows" /\ RelayAtRest
       \/ half = "relay" /\ RelayInit

DispatchNext ==
    \/ half = "rows" /\ Next /\ UNCHANGED <<relayVars, half>>
    \/ half = "relay" /\ RelayNext /\ UNCHANGED <<vars, half>>

DispatchSpec ==
    DispatchInit /\ [][DispatchNext]_DispatchVars /\ OutboxFairness /\ Fairness
=============================================================================

-------------------------- MODULE OutboxObligation --------------------------
(***************************************************************************)
(* What the transactional outbox promises to the business code: writing an *)
(* event incurs a debt; the effect is performed only for a debt that was   *)
(* incurred; a debt is discharged only after its effect was performed, and *)
(* a discharge is for good.  The outbox may also give a debt up for an     *)
(* operator to look at; a late success still discharges it.                *)
(***************************************************************************)
CONSTANT Events

VARIABLES
    debt,   \* what is owed for each event
    done    \* events whose effect has been performed at least once

vars == <<debt, done>>

Debts == {"none", "owed", "discharged", "abandoned"}

TypeOK == debt \in [Events -> Debts] /\ done \in SUBSET Events

Init ==
    /\ debt = [e \in Events |-> "none"]
    /\ done = {}

Incur(e) ==
    /\ debt[e] = "none"
    /\ debt' = [debt EXCEPT ![e] = "owed"]
    /\ UNCHANGED done

\* At least once: nothing forbids a repetition, whatever became of the debt.
Perform(e) ==
    /\ debt[e] # "none"
    /\ done' = done \cup {e}
    /\ UNCHANGED debt

Discharge(e) ==
    /\ debt[e] \in {"owed", "abandoned"}
    /\ e \in done
    /\ debt' = [debt EXCEPT ![e] = "discharged"]
    /\ UNCHANGED done

Abandon(S) ==
    /\ \A e \in S : debt[e] = "owed"
    /\ debt' = [e \in Events |-> IF e \in S THEN "abandoned" ELSE debt[e]]
    /\ UNCHANGED done

Next ==
    \/ \E e \in Events : Incur(e) \/ Perform(e) \/ Discharge(e)
    \/ \E S \in SUBSET Events : Abandon(S)

Spec == Init /\ [][Next]_vars

Settled(e) == debt[e] \in {"discharged", "abandoned"}

\* No debt stays open for ever.
Settlement == \A e \in Events : debt[e] = "owed" ~> Settled(e)

FairSpec == Spec /\ Settlement
=============================================================================

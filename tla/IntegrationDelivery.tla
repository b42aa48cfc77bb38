------------------------ MODULE IntegrationDelivery ------------------------
(***************************************************************************)
(* One integration_delivery obligation: the handler that claims it under   *)
(* the lock of its row, posts the message to the webhook and records the   *)
(* outcome.  There is no lease: a delivery that is being sent can be       *)
(* claimed again, and an outcome is written whatever has become of the     *)
(* row.                                                                    *)
(***************************************************************************)
EXTENDS HandledJob

CONSTANT
    Faults  \* "crash", "db" (a transaction fails), "provider" (a post fails),
            \* "cancel" (the integration is disabled or removed)

VARIABLES
    status,    \* integration_delivery.status
    enabled,   \* integration.status = ACTIVE
    step,      \* what the handler in a slot does next
    overrun    \* history: a delivery was claimed while another worker was sending it

deliveryVars == <<status, enabled>>
vars == <<jobVars, deliveryVars, step, overrun>>

\* The statuses the claim returns on.
Settled == {"SUCCEEDED", "FAILED"}

Sending == {"send", "sent", "retryable", "permanent"}

TypeOK ==
    /\ JobTypeOK
    /\ status \in {"PENDING", "SENDING"} \cup Settled
    /\ enabled \in BOOLEAN
    /\ step \in [Workers -> {"idle", "claim", "return", "throw"} \cup Sending]
    /\ overrun \in BOOLEAN

\* The delivery and its outbox row have been committed for an active integration.
Init ==
    /\ JobInit
    /\ status = "PENDING"
    /\ enabled = TRUE
    /\ step = [w \in Workers |-> "idle"]
    /\ overrun = FALSE

-----------------------------------------------------------------------------
Goto(w, s) == step' = [step EXCEPT ![w] = s]

StartHandler(w) ==
    /\ TakeJob(w)
    /\ Goto(w, "claim")
    /\ UNCHANGED <<deliveryVars, overrun>>

\* Mutant: a delivery that is being sent counts as done as well.
RefusedStatuses == Settled \cup {"SENDING"}

Refused == Settled

\* The claim finds nothing left to do, or its serializable transaction fails for good.
ClaimRefused(w) ==
    /\ step[w] = "claim"
    /\ \/ status \in Refused /\ Goto(w, "return")
       \/ "db" \in Faults /\ Goto(w, "throw")
    /\ UNCHANGED <<jobVars, deliveryVars, overrun>>

\* The integration is read with the claim; without an active one nothing is sent.
Claim(w) ==
    /\ step[w] = "claim"
    /\ status \notin Refused
    /\ status' = "SENDING"
    /\ Goto(w, IF enabled THEN "send" ELSE "permanent")
    /\ overrun' = (overrun \/ \E v \in Workers \ {w} : step[v] \in Sending)
    /\ UNCHANGED <<jobVars, enabled>>

\* The post to the webhook: answered with success, or failed for now or for good.
Send(w) ==
    /\ step[w] = "send"
    /\ \/ Goto(w, "sent")
       \/ "provider" \in Faults /\ (Goto(w, "retryable") \/ Goto(w, "permanent"))
    /\ UNCHANGED <<jobVars, deliveryVars, overrun>>

\* finalAttempt, of a post that has failed.
GivesUp(w) == step[w] = "permanent" \/ Final(w)

\* The update of the row by its id.  A failure that may be tried again throws.
Record(w) ==
    /\ \/ /\ step[w] = "sent"
          /\ status' = "SUCCEEDED" /\ Goto(w, "return")
       \/ /\ step[w] \in {"retryable", "permanent"} /\ GivesUp(w)
          /\ status' = "FAILED" /\ Goto(w, "return")
       \/ /\ step[w] = "retryable" /\ ~GivesUp(w)
          /\ status' = "PENDING" /\ Goto(w, "throw")
    /\ UNCHANGED <<jobVars, enabled, overrun>>

\* Nothing catches a failure of that transaction.
RecordFails(w) ==
    /\ "db" \in Faults
    /\ step[w] \in Sending \ {"send"}
    /\ Goto(w, "throw")
    /\ UNCHANGED <<jobVars, deliveryVars, overrun>>

Leave(w) == Goto(w, "idle") /\ UNCHANGED <<deliveryVars, overrun>>

HandlerReturns(w) == step[w] = "return" /\ Acknowledge(w) /\ Leave(w)

HandlerThrows(w) ==
    /\ \/ step[w] = "throw"
       \/ step[w] = "return" /\ "db" \in Faults
    /\ Throw(w)
    /\ Leave(w)

HandlerCrashes(w) == "crash" \in Faults /\ Crash(w) /\ Leave(w)

\* An administrator disables or enables the integration, or removes it.
SwitchIntegration ==
    /\ "cancel" \in Faults
    /\ enabled' = ~enabled
    /\ UNCHANGED <<jobVars, status, step, overrun>>

-----------------------------------------------------------------------------
Handle(w) ==
    \/ ClaimRefused(w) \/ Claim(w) \/ Send(w) \/ Record(w) \/ RecordFails(w)
    \/ HandlerReturns(w) \/ HandlerThrows(w)

Next ==
    \/ \E w \in Workers : StartHandler(w) \/ Handle(w) \/ HandlerCrashes(w)
    \/ QueueStep /\ UNCHANGED <<deliveryVars, step, overrun>>
    \/ SwitchIntegration

Spec == Init /\ [][Next]_vars

-----------------------------------------------------------------------------
(* Properties.                                                             *)

\* Unless the delivery was claimed while another worker was sending it, the outbox row
\* is acknowledged only for a delivery that has its outcome, whatever crashes came in
\* between.
ProcessedMeansSettled == (outbox = "PROCESSED" /\ ~overrun) => status \in Settled

=============================================================================

--------------------------- MODULE EmailDelivery ---------------------------
(***************************************************************************)
(* One email_delivery obligation: the handler that claims it under a       *)
(* lease, calls the provider and records the outcome, with compare-and-set *)
(* on the number of the claim; the scheduled job that takes back expired   *)
(* leases; and the account deletion that cancels it.                       *)
(*                                                                         *)
(* Every transaction is one action, and so is the provider call.           *)
(***************************************************************************)
EXTENDS HandledJob

CONSTANT
    Faults  \* "crash", "db" (a transaction fails), "provider" (a send fails),
            \* "slow" (a lease may expire on a worker that is still sending),
            \* "cancel" (the recipient's account is deleted)

VARIABLES
    status,    \* email_delivery.status
    leased,    \* lease_expires_at > now()
    step,      \* what the handler in a slot does next
    holder,    \* the slot whose claim.attemptNumber is email_delivery.attempts, until its
               \* handler has used the claim
    overrun    \* history: a claim was taken from a worker that was still sending

deliveryVars == <<status, leased>>
handlerVars  == <<step, holder>>
vars == <<jobVars, deliveryVars, handlerVars, overrun>>

\* The statuses the claim returns on, SENT standing for SUPPRESSED too.  CANCELLED is
\* not among them.
Settled == {"SENT", "FAILED"}

Sending == {"send", "sent", "retryable", "permanent"}

TypeOK ==
    /\ JobTypeOK
    /\ status \in {"PENDING", "SENDING", "CANCELLED"} \cup Settled
    /\ leased \in BOOLEAN
    /\ leased => status = "SENDING"
    /\ step \in [Workers -> {"idle", "claim", "return", "throw"} \cup Sending]
    /\ holder \in Workers \cup {NoWorker}
    /\ overrun \in BOOLEAN

\* enqueue has committed the delivery with its outbox row.
Init ==
    /\ JobInit
    /\ status = "PENDING"
    /\ leased = FALSE
    /\ step = [w \in Workers |-> "idle"]
    /\ holder = NoWorker
    /\ overrun = FALSE

-----------------------------------------------------------------------------
(* deliver().                                                              *)

Goto(w, s) == step' = [step EXCEPT ![w] = s]

StartHandler(w) ==
    /\ TakeJob(w)
    /\ Goto(w, "claim")
    /\ UNCHANGED <<deliveryVars, holder, overrun>>

\* Mutant: a delivery that another worker has leased counts as done.
ClaimRefusedQuietly(w) ==
    /\ step[w] = "claim"
    /\ \/ status \in Settled /\ Goto(w, "return")
       \/ status = "SENDING" /\ leased /\ Goto(w, "return")
       \/ "db" \in Faults /\ Goto(w, "throw")
    /\ UNCHANGED <<jobVars, deliveryVars, holder, overrun>>

\* The claim finds nothing to do, a live lease (EmailDeliveryBusyError), or fails.
ClaimRefused(w) ==
    /\ step[w] = "claim"
    /\ \/ status \in Settled /\ Goto(w, "return")
       \/ status = "SENDING" /\ leased /\ Goto(w, "throw")
       \/ "db" \in Faults /\ Goto(w, "throw")
    /\ UNCHANGED <<jobVars, deliveryVars, holder, overrun>>

\* Mutant: a delivery that is being sent is claimed whatever its lease.
ClaimIgnoresLease(w) ==
    /\ step[w] = "claim"
    /\ status \notin Settled
    /\ status' = "SENDING"
    /\ leased' = TRUE
    /\ holder' = w
    /\ Goto(w, "send")
    /\ UNCHANGED <<jobVars, overrun>>

Claim(w) ==
    /\ step[w] = "claim"
    /\ status \notin Settled
    /\ status = "SENDING" => ~leased
    /\ status' = "SENDING"
    /\ leased' = TRUE
    /\ holder' = w
    /\ Goto(w, "send")
    /\ UNCHANGED <<jobVars, overrun>>

\* provider.send: accepted (or suppressed), or an error, a retryable one perhaps after
\* the provider has accepted the message.
Send(w) ==
    /\ step[w] = "send"
    /\ \/ Goto(w, "sent")
       \/ "provider" \in Faults /\ (Goto(w, "retryable") \/ Goto(w, "permanent"))
    /\ UNCHANGED <<jobVars, deliveryVars, holder, overrun>>

\* Mutant: the outcome is written whoever holds the claim.
RecordUnguarded(w, outcome) ==
    /\ status' = outcome
    /\ leased' = FALSE

\* The updateMany on (status = SENDING, attempts = the claim's number).
Record(w, outcome) ==
    \/ /\ status = "SENDING" /\ holder = w
       /\ status' = outcome
       /\ leased' = FALSE
    \/ /\ ~(status = "SENDING" /\ holder = w)
       /\ UNCHANGED deliveryVars

UseClaim(w) == holder' = IF holder = w THEN NoWorker ELSE holder

RecordSuccess(w) ==
    /\ step[w] = "sent"
    /\ Record(w, "SENT")
    /\ Goto(w, "return")
    /\ UseClaim(w)
    /\ UNCHANGED <<jobVars, overrun>>

\* The transaction that records the success fails: the catch block takes it for
\* a retryable failure of the send.
RecordSuccessFails(w) ==
    /\ "db" \in Faults
    /\ step[w] = "sent"
    /\ Goto(w, "retryable")
    /\ UNCHANGED <<jobVars, deliveryVars, holder, overrun>>

\* The catch block; its own transaction may fail too.
RecordFailure(w) ==
    /\ step[w] \in {"retryable", "permanent"}
    /\ \/ Record(w, IF step[w] = "permanent" \/ Final(w) THEN "FAILED" ELSE "PENDING")
       \/ "db" \in Faults /\ UNCHANGED deliveryVars
    /\ Goto(w, "throw")
    /\ UseClaim(w)
    /\ UNCHANGED <<jobVars, overrun>>

Leave(w) ==
    /\ step' = [step EXCEPT ![w] = "idle"]
    /\ UseClaim(w)
    /\ UNCHANGED <<deliveryVars, overrun>>

HandlerReturns(w) == step[w] = "return" /\ Acknowledge(w) /\ Leave(w)

HandlerThrows(w) ==
    /\ \/ step[w] = "throw"
       \/ step[w] = "return" /\ "db" \in Faults
    /\ Throw(w)
    /\ Leave(w)

HandlerCrashes(w) == "crash" \in Faults /\ Crash(w) /\ Leave(w)

-----------------------------------------------------------------------------
(* Time, the scheduled reconciliation and account deletion.                *)

\* Some worker is still sending under the claim the row stands for.
BeingSent == status = "SENDING" /\ holder # NoWorker

\* The lease is longer than every provider timeout and retry, unless the worker
\* itself is held up.
LeaseExpires ==
    /\ leased
    /\ "slow" \in Faults \/ ~BeingSent
    /\ leased' = FALSE
    /\ overrun' = (overrun \/ BeingSent)
    /\ UNCHANGED <<jobVars, status, handlerVars>>

\* reconcileEmailDeliveries.  No outbox row is written for the delivery.
ReclaimLease ==
    /\ status = "SENDING" /\ ~leased
    /\ status' = "PENDING"
    /\ UNCHANGED <<jobVars, leased, handlerVars, overrun>>

CancelDelivery ==
    /\ "cancel" \in Faults
    /\ status \in {"PENDING", "SENDING"}
    /\ status' = "CANCELLED"
    /\ leased' = FALSE
    /\ overrun' = (overrun \/ BeingSent)
    /\ UNCHANGED <<jobVars, handlerVars>>

-----------------------------------------------------------------------------
Handle(w) ==
    \/ ClaimRefused(w) \/ Claim(w) \/ Send(w)
    \/ RecordSuccess(w) \/ RecordSuccessFails(w) \/ RecordFailure(w)
    \/ HandlerReturns(w) \/ HandlerThrows(w)

Next ==
    \/ \E w \in Workers : StartHandler(w) \/ Handle(w) \/ HandlerCrashes(w)
    \/ QueueStep /\ UNCHANGED <<deliveryVars, handlerVars, overrun>>
    \/ LeaseExpires \/ ReclaimLease \/ CancelDelivery

Spec == Init /\ [][Next]_vars

-----------------------------------------------------------------------------
(* Properties.                                                             *)

\* Unless a claim is taken from a worker that outlives its lease, or cancelled under
\* it, no second worker sends while another does: stalls, crashes, redeliveries and
\* lease recoveries included.
OneSender ==
    ~overrun => \A v, w \in Workers : (step[v] \in Sending /\ step[w] \in Sending) => v = w

\* With the same exception, the outbox row is acknowledged only for a delivery that
\* has its outcome.
ProcessedMeansSettled == (outbox = "PROCESSED" /\ ~overrun) => status \in Settled

\* No late worker, redelivery or recovered lease changes a recorded outcome.
SettledStays == [][(status \in Settled) => (status' = status)]_vars

=============================================================================

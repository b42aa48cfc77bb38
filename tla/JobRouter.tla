----------------------------- MODULE JobRouter -----------------------------
(***************************************************************************)
(* The handlers behind the outbox: the event type of a job decides which   *)
(* of them runs it (createJobRouter).  One event of any of the types, with *)
(* every fault of its handler; only what is fair and what is to be hoped   *)
(* for in the end is said here, the rest in the modules of the handlers.   *)
(***************************************************************************)
EXTENDS HandledJob

CONSTANT
    Faults  \* those of the handlers: "crash", "db", "provider", "slow", "cancel"

ASSUME FaultsAssumption == Faults \subseteq {"crash", "db", "provider", "slow", "cancel"}

Types == {"email", "export", "integration"}

VARIABLES
    type,      \* outbox_event.event_type
    status,    \* of the row the event is about
    step,      \* what the handler in a slot does next
    leased, holder,                    \* of an email delivery
    enabled,   \* of an integration
    hasKey, file, cleaning, unlinked,  \* of an export
    overrun    \* history: two handlers have worked on the row at the same time

Email == INSTANCE EmailDelivery
Export == INSTANCE Exports
Integration == INSTANCE IntegrationDelivery

emailOnly == <<leased, holder>>
exportOnly == <<hasKey, file, cleaning, unlinked>>
vars == <<jobVars, type, status, step, emailOnly, enabled, exportOnly, overrun>>

Init ==
    /\ type \in Types
    /\ Email!Init /\ Export!Init /\ Integration!Init

\* createJobRouter: one handler for the type, and the rest of the state is not its own.
IsEmail       == type = "email" /\ UNCHANGED <<type, enabled, exportOnly>>
IsExport      == type = "export" /\ UNCHANGED <<type, emailOnly, enabled>>
IsIntegration == type = "integration" /\ UNCHANGED <<type, emailOnly, exportOnly>>

Next ==
    \/ IsEmail /\ Email!Next
    \/ IsExport /\ Export!Next
    \/ IsIntegration /\ Integration!Next

Spec == Init /\ [][Next]_vars

\* Nothing is assumed of slots, handlers, leases or the queue.
FairSpec == Spec /\ QueueFairness

-----------------------------------------------------------------------------
(* Properties.                                                             *)

\* EmailDelivery's OneSender: no second worker sends a delivery while another does.
OneSender == type = "email" => Email!OneSender

\* An acknowledged row is about a delivery that has its outcome.
ProcessedMeansSettled ==
    /\ type = "email" => Email!ProcessedMeansSettled
    /\ type = "integration" => Integration!ProcessedMeansSettled

\* No late worker, redelivery or recovered lease changes a recorded outcome: never
\* that of an email, and that of a post or an export only when two workers were at it
\* at the same time.  An export goes when it is removed.
SettledStays ==
    [][/\ (type = "email" /\ status \in Email!Settled) => status' = status
       /\ (type = "integration" /\ status \in Integration!Settled /\ ~overrun) => status' = status
       /\ (type = "export" /\ status \in {"COMPLETED", "FAILED"} /\ ~overrun)
             => status' \in {status, "NONE"}]_vars

\* A completed export has its file in the store until a removal deletes it.
CompletedHasFile == type = "export" => Export!CompletedHasFile

\* "the PENDING-status guard below skips a delivery that already completed"
\* (export-events.handler.ts).
SkippedIsCompleted == type = "export" => Export!SkippedIsCompleted

\* Whatever crashes, stalls and fails, a delivery gets its outcome, is cancelled, or
\* its outbox row shows the failure; an export's row is answered.  Not so for an
\* email whose worker outlives its lease: its outcome is lost and the row acknowledged.
EventuallySettled ==
    <>(\/ outbox = "FAILED"
       \/ type = "email" /\ (overrun \/ status \in Email!Settled \cup {"CANCELLED"})
       \/ type = "integration" /\ status \in Integration!Settled
       \/ type = "export" /\ outbox = "PROCESSED")

=============================================================================

------------------------------ MODULE BullJob ------------------------------
(***************************************************************************)
(* A BullMQ job that carries one outbox row: its states and how BullMQ     *)
(* moves it, with attempts = MaxAttempts and one stall allowed.            *)
(***************************************************************************)
EXTENDS Integers

CONSTANTS
    Workers,      \* BullMQ worker slots
    MaxAttempts,  \* config.worker.outbox.maxAttempts
    NoWorker

JobStatus == {"none", "waiting", "active", "delayed", "completed", "failed"}

Job == [status : JobStatus, made : 0..MaxAttempts, stalled : BOOLEAN,
        owner : Workers \cup {NoWorker}]

NoJob  == [status |-> "none", made |-> 0, stalled |-> FALSE, owner |-> NoWorker]
NewJob == [NoJob EXCEPT !.status = "waiting"]

Taken(j, w)     == [j EXCEPT !.status = "active", !.owner = w]
Requeued(j)     == [j EXCEPT !.status = "waiting"]

\* A job that is finished is never run again, and nothing asks how often it was.
Finished(status) == [NoJob EXCEPT !.status = status]

AfterSuccess(j) == Finished("completed")
AfterFailure(j) ==
    IF j.made + 1 >= MaxAttempts THEN Finished("failed")
    ELSE [j EXCEPT !.status = "delayed", !.made = j.made + 1, !.owner = NoWorker]
Stalled(j) ==
    IF j.stalled THEN Finished("failed")
    ELSE [j EXCEPT !.status = "waiting", !.stalled = TRUE, !.owner = NoWorker]

=============================================================================

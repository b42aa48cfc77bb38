----------------------------- MODULE HandledJob -----------------------------
(***************************************************************************)
(* What the outbox and BullMQ do to one event handler: its job is run any  *)
(* number of times, by any slot, again after a failure, a stall, a late    *)
(* publication or the loss of the queue, possibly while an earlier run is  *)
(* still going on.                                                         *)
(*                                                                         *)
(* A module of a handler EXTENDS this one and adds the handler's own steps *)
(* between TakeJob and Acknowledge, Throw or Crash.  Outbox implements     *)
(* JobSpec, seen from one row: what that row's batches and claims amount   *)
(* to here is that the job may be published again at any time.             *)
(***************************************************************************)
EXTENDS BullJob

ASSUME HandledJobAssumption ==
    /\ MaxAttempts \in Nat \ {0}
    /\ NoWorker \notin Workers

VARIABLES
    outbox,  \* outbox_event.state, ENQUEUED standing for PENDING too
    job,     \* the BullMQ job
    run      \* what processJob in a slot does with the event

jobVars == <<outbox, job, run>>

\* The handler runs for a job with attempts left (context.attempt) or for its last
\* one; or there is no handler; or the job is about to end.
Runs == {"none", "early", "final", "unhandled", "succeed", "fail"}

JobTypeOK ==
    /\ outbox \in {"ENQUEUED", "PROCESSED", "FAILED"}
    /\ job \in Job
    /\ run \in [Workers -> Runs]

\* The row has been committed and not been published yet.
JobInit ==
    /\ outbox = "ENQUEUED"
    /\ job = NoJob
    /\ run = [w \in Workers |-> "none"]

Handling(w) == run[w] \in {"early", "final"}
Owns(w)     == job.status = "active" /\ job.owner = w
Final(w)    == run[w] = "final"

-----------------------------------------------------------------------------
(* processJob around the handler.                                          *)

TakeJob(w) ==
    /\ run[w] = "none"
    /\ job.status = "waiting"
    /\ job' = Taken(job, w)
    /\ run' = [run EXCEPT ![w] = IF job.made + 1 >= MaxAttempts THEN "final" ELSE "early"]
    /\ UNCHANGED outbox

\* The handler has returned: the row is acknowledged.
Acknowledge(w) ==
    /\ Handling(w)
    /\ outbox' = "PROCESSED"
    /\ run' = [run EXCEPT ![w] = "succeed"]
    /\ UNCHANGED job

\* recordOutboxFailure, which may itself get lost.
RecordRowFailure(isFinal) ==
    outbox' \in {outbox} \cup (IF isFinal /\ outbox = "ENQUEUED" THEN {"FAILED"} ELSE {})

\* The handler or the acknowledgement has thrown.
Throw(w) ==
    /\ Handling(w)
    /\ RecordRowFailure(Final(w))
    /\ run' = [run EXCEPT ![w] = "fail"]
    /\ UNCHANGED job

\* A slot whose build has no handler for the event takes the job, and records that as
\* a final failure.
TakeUnhandled(w) ==
    /\ run[w] = "none"
    /\ job.status = "waiting"
    /\ job' = Taken(job, w)
    /\ run' = [run EXCEPT ![w] = "unhandled"]
    /\ UNCHANGED outbox

FailUnhandled(w) ==
    /\ run[w] = "unhandled"
    /\ RecordRowFailure(TRUE)
    /\ run' = [run EXCEPT ![w] = "fail"]
    /\ UNCHANGED job

\* The job is completed or has failed, unless the slot has lost its lock.
FinishJob(w) ==
    /\ run[w] \in {"succeed", "fail"}
    /\ \/ ~Owns(w) /\ UNCHANGED job
       \/ Owns(w) /\ run[w] = "succeed" /\ job' = AfterSuccess(job)
       \/ Owns(w) /\ run[w] = "fail" /\ job' = AfterFailure(job)
    /\ run' = [run EXCEPT ![w] = "none"]
    /\ UNCHANGED outbox

Crash(w) ==
    /\ run[w] # "none"
    /\ run' = [run EXCEPT ![w] = "none"]
    /\ UNCHANGED <<outbox, job>>

-----------------------------------------------------------------------------
(* BullMQ, the reconciler and the relay.                                   *)

\* The lock of a running job expires, whether its worker is dead or only slow.
Stall ==
    /\ job.status = "active"
    /\ job' = Stalled(job)
    /\ UNCHANGED <<outbox, run>>

BackoffOver ==
    /\ job.status = "delayed"
    /\ job' = Requeued(job)
    /\ UNCHANGED <<outbox, run>>

\* A finished job is forgotten, or Redis loses its data.
ForgetJob ==
    /\ job' = NoJob
    /\ UNCHANGED <<outbox, run>>

\* A dispatcher publishes the row.  It claimed the row before, and may be so late that
\* the row is settled by now.  A job that is still known absorbs the add.
Publish ==
    /\ job.status = "none"
    /\ job' = NewJob
    /\ UNCHANGED <<outbox, run>>

\* A row whose claims are used up is failed by the reconciler.
Exhaust ==
    /\ outbox = "ENQUEUED"
    /\ outbox' = "FAILED"
    /\ UNCHANGED <<job, run>>

QueueStep ==
    \/ Stall \/ BackoffOver \/ ForgetJob \/ Publish \/ Exhaust
    \/ \E w \in Workers : TakeUnhandled(w) \/ FailUnhandled(w) \/ FinishJob(w)

JobStep ==
    \/ \E w \in Workers : TakeJob(w) \/ Acknowledge(w) \/ Throw(w) \/ Crash(w)
    \/ QueueStep

JobSpec == JobInit /\ [][JobStep]_jobVars

\* A row that nothing settles is failed in the end: claims are counted, and the
\* reconciler keeps running.
QueueFairness == WF_jobVars(Exhaust)

=============================================================================

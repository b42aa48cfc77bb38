------------------------------- MODULE Outbox -------------------------------
(***************************************************************************)
(* The transactional outbox: the rows of outbox_event, the dispatchers     *)
(* that claim rows and publish them to BullMQ, the workers that run the    *)
(* handlers and acknowledge the row, and the reconciler that takes back    *)
(* what got stuck.                                                         *)
(*                                                                         *)
(* Every statement or transaction against PostgreSQL is one action; every  *)
(* call to Redis is one action; between two of them anything may happen,   *)
(* a crash included.  A member of Events stands for one dedupe key, hence  *)
(* for at most one row; the row id is also the BullMQ job id.              *)
(***************************************************************************)
EXTENDS Integers, FiniteSets, BullJob

CONSTANTS
    Events,        \* dedupe keys, one per domain effect
    Dispatchers,   \* relay processes that run dispatchBatch
    BatchSize,     \* config.worker.outbox.batchSize
    Unroutable,    \* events whose queue_name isQueueName does not know
    Behind,        \* worker slots whose build has no handler for the event types
    NoEvent

ASSUME OutboxAssumption ==
    /\ MaxAttempts \in Nat \ {0}
    /\ BatchSize \in Nat \ {0}
    /\ Unroutable \subseteq Events
    /\ Behind \subseteq Workers
    /\ NoEvent \notin Events
    /\ NoWorker \notin Workers

VARIABLES
    state,      \* outbox_event.state, "absent" before the row is written
    attempts,   \* outbox_event.attempts: how often the row was claimed
    elapsed,    \* PENDING: available_at <= now();
                \* ENQUEUED: enqueued_at < now() - staleEnqueuedAfterMs
    job,        \* the BullMQ job with the row's id
    batch,      \* rows a dispatcher has claimed and not yet handled
    failing,    \* the row whose enqueue was rejected, until returnToPending
    pc,         \* what a worker slot is doing
    handling,   \* the row whose job a worker slot runs
    final,      \* isFinalAttempt, as computed when the job was taken
    scheduled,  \* Redis holds the maintenance.outbox_reconciliation scheduler
    published,  \* history: rows whose job BullMQ has accepted at least once
    handled     \* history: rows whose handler has succeeded at least once

rowVars  == <<state, attempts, elapsed>>
dispVars == <<batch, failing>>
workVars == <<pc, handling, final>>
histVars == <<published, handled>>
vars     == <<rowVars, job, scheduled, dispVars, workVars, histVars>>

RowState  == {"absent", "PENDING", "ENQUEUED", "PROCESSED", "FAILED"}
Steps     == {"idle", "handle", "acknowledge", "recordFailure", "succeed", "fail"}

Init ==
    /\ state = [e \in Events |-> "absent"]
    /\ attempts = [e \in Events |-> 0]
    /\ elapsed = [e \in Events |-> FALSE]
    /\ job = [e \in Events |-> NoJob]
    /\ batch = [d \in Dispatchers |-> {}]
    /\ failing = [d \in Dispatchers |-> NoEvent]
    /\ pc = [w \in Workers |-> "idle"]
    /\ handling = [w \in Workers |-> NoEvent]
    /\ final = [w \in Workers |-> FALSE]
    /\ scheduled = TRUE  \* installScheduledJobs precedes relay.start
    /\ published = {}
    /\ handled = {}

-----------------------------------------------------------------------------
(* The business transaction.                                               *)

\* insertEvent: an upsert on the dedupe key whose update part is empty.  A row
\* written with availableInMs is not dispatchable at once.
Write(e, delayed) ==
    /\ \/ /\ state[e] = "absent"
          /\ state' = [state EXCEPT ![e] = "PENDING"]
          /\ elapsed' = [elapsed EXCEPT ![e] = ~delayed]
       \/ /\ state[e] # "absent"
          /\ UNCHANGED <<state, elapsed>>
    /\ UNCHANGED <<attempts, job, dispVars, workVars, histVars, scheduled>>

\* The wait that the row's timestamp imposes is over.
Elapse(e) ==
    /\ state[e] \in {"PENDING", "ENQUEUED"}
    /\ ~elapsed[e]
    /\ elapsed' = [elapsed EXCEPT ![e] = TRUE]
    /\ UNCHANGED <<state, attempts, job, dispVars, workVars, histVars, scheduled>>

-----------------------------------------------------------------------------
(* dispatchBatch.                                                          *)

Idle(d) == batch[d] = {} /\ failing[d] = NoEvent

Dispatchable ==
    {e \in Events : state[e] = "PENDING" /\ elapsed[e] /\ attempts[e] < MaxAttempts}

\* The claiming statement.  Rows locked by a concurrent transaction are skipped,
\* so any part of what is dispatchable, up to the batch size, may be returned.
Claim(d) ==
    /\ Idle(d)
    /\ \E claimed \in SUBSET Dispatchable :
          /\ claimed # {}
          /\ Cardinality(claimed) <= BatchSize
          /\ batch' = [batch EXCEPT ![d] = claimed]
          /\ state' = [e \in Events |-> IF e \in claimed THEN "ENQUEUED" ELSE state[e]]
          /\ attempts' = [e \in Events |->
                            IF e \in claimed THEN attempts[e] + 1 ELSE attempts[e]]
          /\ elapsed' = [e \in Events |-> elapsed[e] /\ e \notin claimed]
    /\ UNCHANGED <<job, failing, workVars, histVars, scheduled>>

\* Mutant: the job id does not make a second add a duplicate.
AddJobAnew(e) ==
    /\ job' = [job EXCEPT ![e] = NewJob]
    /\ published' = published \cup {e}

\* BullMQ ignores an add whose id it still knows, finished jobs included.
AddJob(e) ==
    /\ job' = [job EXCEPT ![e] = IF @.status = "none" THEN NewJob ELSE @]
    /\ published' = published \cup {e}

\* queues.enqueue resolves for one row of the batch.
Publish(d, e) ==
    /\ e \in batch[d] \ Unroutable
    /\ failing[d] = NoEvent
    /\ AddJob(e)
    /\ batch' = [batch EXCEPT ![d] = @ \ {e}]
    /\ UNCHANGED <<rowVars, failing, workVars, handled, scheduled>>

\* queues.enqueue rejects; the command may have reached Redis all the same.
RejectPublish(d, e) ==
    /\ e \in batch[d] \ Unroutable
    /\ failing[d] = NoEvent
    /\ AddJob(e) \/ UNCHANGED <<job, published>>
    /\ batch' = [batch EXCEPT ![d] = @ \ {e}]
    /\ failing' = [failing EXCEPT ![d] = e]
    /\ UNCHANGED <<rowVars, workVars, handled, scheduled>>

\* Mutant: the update is guarded by the row id alone.
ReturnToPendingUnguarded(d) ==
    /\ failing[d] # NoEvent
    /\ state' = [state EXCEPT ![failing[d]] = "PENDING"]
    /\ elapsed' = [elapsed EXCEPT ![failing[d]] = FALSE]
    /\ failing' = [failing EXCEPT ![d] = NoEvent]
    /\ UNCHANGED <<attempts, job, batch, workVars, histVars, scheduled>>

\* The catch block's returnToPending, guarded by state and processed_at.
ReturnToPending(d) ==
    /\ failing[d] # NoEvent
    /\ \/ /\ state[failing[d]] = "ENQUEUED"
          /\ state' = [state EXCEPT ![failing[d]] = "PENDING"]
          /\ elapsed' = [elapsed EXCEPT ![failing[d]] = FALSE]
       \/ /\ state[failing[d]] # "ENQUEUED"
          /\ UNCHANGED <<state, elapsed>>
    /\ failing' = [failing EXCEPT ![d] = NoEvent]
    /\ UNCHANGED <<attempts, job, batch, workVars, histVars, scheduled>>

\* Mutant: a row with an unknown queue name goes to a default queue.
MarkFailedDefaultQueue(d, e) ==
    /\ e \in batch[d] \cap Unroutable
    /\ failing[d] = NoEvent
    /\ AddJob(e)
    /\ batch' = [batch EXCEPT ![d] = @ \ {e}]
    /\ UNCHANGED <<rowVars, failing, workVars, handled, scheduled>>

\* markFailed for a row whose queue name is unknown.
MarkFailed(d, e) ==
    /\ e \in batch[d] \cap Unroutable
    /\ failing[d] = NoEvent
    /\ \/ /\ state[e] = "ENQUEUED"
          /\ state' = [state EXCEPT ![e] = "FAILED"]
          /\ elapsed' = [elapsed EXCEPT ![e] = FALSE]
       \/ /\ state[e] # "ENQUEUED"
          /\ UNCHANGED <<state, elapsed>>
    /\ batch' = [batch EXCEPT ![d] = @ \ {e}]
    /\ UNCHANGED <<attempts, job, failing, workVars, histVars, scheduled>>

\* The process dies, or one of the two updates above throws and so ends
\* dispatchBatch: the rest of the batch is forgotten.
AbandonBatch(d) ==
    /\ ~Idle(d)
    /\ batch' = [batch EXCEPT ![d] = {}]
    /\ failing' = [failing EXCEPT ![d] = NoEvent]
    /\ UNCHANGED <<rowVars, job, workVars, histVars, scheduled>>

-----------------------------------------------------------------------------
(* reconcileStale, run by a scheduled job: one transaction.                *)

Stale(e)     == state[e] = "ENQUEUED" /\ elapsed[e] /\ attempts[e] < MaxAttempts
\* Mutant: only PENDING rows are given up.
ExhaustedPendingOnly(e) == state[e] = "PENDING" /\ attempts[e] >= MaxAttempts

Exhausted(e) == state[e] \in {"PENDING", "ENQUEUED"} /\ attempts[e] >= MaxAttempts

Reconcile ==
    /\ scheduled
    /\ \E e \in Events : Stale(e) \/ Exhausted(e)
    /\ state' = [e \in Events |-> CASE Stale(e)     -> "PENDING"
                                    [] Exhausted(e) -> "FAILED"
                                    [] OTHER        -> state[e]]
    /\ elapsed' = [e \in Events |-> elapsed[e] /\ ~Exhausted(e)]
    /\ UNCHANGED <<attempts, job, dispVars, workVars, histVars, scheduled>>

-----------------------------------------------------------------------------
(* processJob: a worker slot and the job it runs.                          *)

\* BullMQ hands a waiting job to an idle slot.  Without a handler the failure
\* is recorded as final whatever the number of attempts left.
TakeJob(w, e) ==
    /\ pc[w] = "idle"
    /\ job[e].status = "waiting"
    /\ job' = [job EXCEPT ![e] = Taken(@, w)]
    /\ handling' = [handling EXCEPT ![w] = e]
    /\ \/ /\ w \in Behind
          /\ pc' = [pc EXCEPT ![w] = "recordFailure"]
          /\ final' = [final EXCEPT ![w] = TRUE]
       \/ /\ w \notin Behind
          /\ pc' = [pc EXCEPT ![w] = "handle"]
          /\ final' = [final EXCEPT ![w] = job[e].made + 1 >= MaxAttempts]
    /\ UNCHANGED <<rowVars, dispVars, histVars, scheduled>>

HandlerReturns(w) ==
    /\ pc[w] = "handle"
    /\ pc' = [pc EXCEPT ![w] = "acknowledge"]
    /\ handled' = handled \cup {handling[w]}
    /\ UNCHANGED <<rowVars, job, dispVars, handling, final, published, scheduled>>

HandlerThrows(w) ==
    /\ pc[w] = "handle"
    /\ pc' = [pc EXCEPT ![w] = "recordFailure"]
    /\ UNCHANGED <<rowVars, job, dispVars, handling, final, histVars, scheduled>>

\* markOutboxProcessed: from any state whose processed_at is still null.
MarkOutboxProcessed(w) ==
    /\ pc[w] = "acknowledge"
    /\ state' = [state EXCEPT ![handling[w]] = "PROCESSED"]
    /\ elapsed' = [elapsed EXCEPT ![handling[w]] = FALSE]
    /\ pc' = [pc EXCEPT ![w] = "succeed"]
    /\ UNCHANGED <<attempts, job, dispVars, handling, final, histVars, scheduled>>

\* The acknowledging update throws: processJob's catch block takes over.
MarkThrows(w) ==
    /\ pc[w] = "acknowledge"
    /\ pc' = [pc EXCEPT ![w] = "recordFailure"]
    /\ UNCHANGED <<rowVars, job, dispVars, handling, final, histVars, scheduled>>

\* recordOutboxFailure, whose own failure is swallowed.
RecordOutboxFailure(w) ==
    /\ pc[w] = "recordFailure"
    /\ \/ /\ final[w] /\ state[handling[w]] = "ENQUEUED"
          /\ state' = [state EXCEPT ![handling[w]] = "FAILED"]
          /\ elapsed' = [elapsed EXCEPT ![handling[w]] = FALSE]
       \/ UNCHANGED <<state, elapsed>>
    /\ pc' = [pc EXCEPT ![w] = "fail"]
    /\ UNCHANGED <<attempts, job, dispVars, handling, final, histVars, scheduled>>

Owns(w) == job[handling[w]].status = "active" /\ job[handling[w]].owner = w

Release(w) ==
    /\ pc' = [pc EXCEPT ![w] = "idle"]
    /\ handling' = [handling EXCEPT ![w] = NoEvent]
    /\ final' = [final EXCEPT ![w] = FALSE]

\* processJob settles; a slot that lost the job's lock changes nothing in Redis.
FinishJob(w) ==
    /\ pc[w] \in {"succeed", "fail"}
    /\ \/ /\ Owns(w)
          /\ job' = [job EXCEPT ![handling[w]] =
                       IF pc[w] = "succeed" THEN AfterSuccess(@) ELSE AfterFailure(@)]
       \/ ~Owns(w) /\ UNCHANGED job
    /\ Release(w)
    /\ UNCHANGED <<rowVars, dispVars, histVars, scheduled>>

WorkerCrash(w) ==
    /\ pc[w] # "idle"
    /\ Release(w)
    /\ UNCHANGED <<rowVars, job, dispVars, histVars, scheduled>>

-----------------------------------------------------------------------------
(* BullMQ itself, as queue-registry.ts and worker-runtime.ts configure it. *)

\* An active job outlived lockDuration.  BullMQ allows one stall by default.
Stall(e) ==
    /\ job[e].status = "active"
    /\ job' = [job EXCEPT ![e] = Stalled(@)]
    /\ UNCHANGED <<rowVars, dispVars, workVars, histVars, scheduled>>

\* The exponential backoff of a failed attempt is over.
BackoffOver(e) ==
    /\ job[e].status = "delayed"
    /\ job' = [job EXCEPT ![e] = Requeued(@)]
    /\ UNCHANGED <<rowVars, dispVars, workVars, histVars, scheduled>>

\* removeOnComplete / removeOnFail forget a finished job.
ForgetJob(e) ==
    /\ job[e].status \in {"completed", "failed"}
    /\ job' = [job EXCEPT ![e] = NoJob]
    /\ UNCHANGED <<rowVars, dispVars, workVars, histVars, scheduled>>

\* Redis loses its data: the jobs, and with them the job schedulers.
LoseQueue ==
    /\ scheduled \/ \E e \in Events : job[e].status # "none"
    /\ job' = [e \in Events |-> NoJob]
    /\ scheduled' = FALSE
    /\ UNCHANGED <<rowVars, dispVars, workVars, histVars>>

\* installScheduledJobs, run once when a worker process starts.
StartWorker ==
    /\ ~scheduled
    /\ scheduled' = TRUE
    /\ UNCHANGED <<rowVars, job, dispVars, workVars, histVars>>

-----------------------------------------------------------------------------
DispatcherStep(d) ==
    \/ Claim(d)
    \/ \E e \in Events : Publish(d, e) \/ MarkFailed(d, e)
    \/ ReturnToPending(d)

WorkerStep(w) ==
    \/ \E e \in Events : TakeJob(w, e)
    \/ HandlerReturns(w)
    \/ MarkOutboxProcessed(w)
    \/ RecordOutboxFailure(w)
    \/ FinishJob(w)

Fault ==
    \/ \E d \in Dispatchers : AbandonBatch(d)
    \/ \E d \in Dispatchers, e \in Events : RejectPublish(d, e)
    \/ \E w \in Workers : HandlerThrows(w) \/ MarkThrows(w) \/ WorkerCrash(w)
    \/ \E e \in Events : Stall(e) \/ ForgetJob(e)
    \/ LoseQueue

Next ==
    \/ \E e \in Events, delayed \in BOOLEAN : Write(e, delayed)
    \/ \E e \in Events : Elapse(e) \/ BackoffOver(e)
    \/ \E d \in Dispatchers : DispatcherStep(d)
    \/ \E w \in Workers : WorkerStep(w)
    \/ Reconcile
    \/ StartWorker
    \/ Fault

Spec == Init /\ [][Next]_vars

\* Time passes, every relay keeps sweeping, and the reconciler runs when Redis
\* holds its schedule.  Nothing is assumed of the job queue or of the handlers.
\* Worker processes are started again after the schedule was lost (a deployment,
\* a restart), which installs it anew: the schedule is kept in the queue it repairs.
OutboxFairness ==
    /\ \A e \in Events : WF_vars(Elapse(e))
    /\ \A d \in Dispatchers : WF_vars(DispatcherStep(d))
    /\ SF_vars(Reconcile)
    /\ WF_vars(StartWorker)

FairSpec == Spec /\ OutboxFairness

-----------------------------------------------------------------------------
(* Properties.                                                             *)

TypeOK ==
    /\ state \in [Events -> RowState]
    /\ attempts \in [Events -> 0..MaxAttempts]
    /\ elapsed \in [Events -> BOOLEAN]
    /\ job \in [Events -> Job]
    /\ batch \in [Dispatchers -> SUBSET Events]
    /\ failing \in [Dispatchers -> Events \cup {NoEvent}]
    /\ pc \in [Workers -> Steps]
    /\ handling \in [Workers -> Events \cup {NoEvent}]
    /\ final \in [Workers -> BOOLEAN]
    /\ scheduled \in BOOLEAN
    /\ published \in SUBSET Events
    /\ handled \in SUBSET Events

\* Nothing is enqueued, run or acknowledged for a business change that was never
\* committed: every trace an event leaves outside PostgreSQL comes from its row.
NoEffectWithoutRow ==
    \A e \in Events : state[e] = "absent" =>
        /\ job[e].status = "none"
        /\ e \notin published \cup handled
        /\ \A d \in Dispatchers : e \notin batch[d] /\ failing[d] # e
        /\ \A w \in Workers : handling[w] # e

\* A row counts as processed only after its handler has succeeded, whatever
\* crashes, stalls, redeliveries and reclaims lie between the two.
ProcessedWasHandled ==
    \A e \in Events : state[e] = "PROCESSED" => e \in handled

\* No late returnToPending, markFailed, recordOutboxFailure or reconciliation
\* takes back an acknowledged row, and a row given up is never dispatched again:
\* the only way out of FAILED is the acknowledgement of a late success.
SettledRowsStay ==
    [][\A e \in Events :
         /\ state[e] = "PROCESSED" => state'[e] = "PROCESSED"
         /\ state[e] = "FAILED" => state'[e] \in {"FAILED", "PROCESSED"}]_vars

\* Every row is eventually processed or made visible as failed.
EventuallySettled ==
    \A e \in Events : state[e] = "PENDING" ~> state[e] \in {"PROCESSED", "FAILED"}

\* An event that no queue is known for is never acknowledged: it ends as a failure
\* that an operator can see.
GapSurfaces ==
    \A e \in Unroutable : state[e] = "PENDING" ~> [](state[e] = "FAILED")

\* The obligation the rows stand for.
debt == [e \in Events |-> CASE state[e] = "absent"    -> "none"
                            [] state[e] = "PROCESSED" -> "discharged"
                            [] state[e] = "FAILED"    -> "abandoned"
                            [] OTHER                  -> "owed"]

Obligation == INSTANCE OutboxObligation WITH debt <- debt, done <- handled

\* The outbox implements the promise of OutboxObligation.
ImplementsObligation == Obligation!Spec

\* What a worker slot does, seen from one event: until its failure is recorded, a
\* handler counts as running.
stage(w) ==
    IF pc[w] \in {"succeed", "fail"} THEN pc[w]
    ELSE IF w \in Behind THEN "unhandled"
    ELSE IF final[w] THEN "final" ELSE "early"

runOf(e) == [w \in Workers |-> IF handling[w] = e THEN stage(w) ELSE "none"]

outboxOf(e) == IF state[e] \in {"PROCESSED", "FAILED"} THEN state[e] ELSE "ENQUEUED"

Handled(e) ==
    INSTANCE HandledJob WITH outbox <- outboxOf(e), job <- job[e], run <- runOf(e)

\* To the handler of any routable event the outbox is what HandledJob says: the handlers
\* are verified against nothing that the outbox, its dispatchers and its workers do not
\* keep to.
ImplementsHandledJob ==
    /\ \A e \in Events \ Unroutable : Handled(e)!JobInit
    /\ [][\A e \in Events \ Unroutable : [Handled(e)!JobStep]_(Handled(e)!jobVars)]_vars

=============================================================================

--------------------------- MODULE Outbox_proofs ---------------------------
(***************************************************************************)
(* Proofs about Outbox, for every set of events, dispatchers and workers   *)
(* and every attempt budget and batch size, and about the relay that       *)
(* drives a dispatcher, for every set of rows, batch size and round cap.   *)
(***************************************************************************)
EXTENDS Outbox, OutboxRelay, FiniteSetTheorems, TLAPS

\* A busy worker slot holds an event, and one about to acknowledge it has seen
\* the handler succeed.
BusySlots ==
    \A w \in Workers :
        /\ pc[w] # "idle" => handling[w] \in Events
        /\ pc[w] = "acknowledge" => handling[w] \in handled

\* A job that BullMQ may still run has attempts left.
LiveJobs ==
    \A e \in Events :
        job[e].status \in {"waiting", "active", "delayed"} => job[e].made < MaxAttempts

\* The inductive invariant.
IInv ==
    /\ TypeOK
    /\ BusySlots
    /\ LiveJobs
    /\ NoEffectWithoutRow
    /\ ProcessedWasHandled

USE DEF RowState, JobStatus, Steps, rowVars, dispVars, workVars, histVars

\* Every transition of a job yields a job.
LEMMA JobTransitions ==
    ASSUME OutboxAssumption
    PROVE  /\ NoJob \in Job /\ NewJob \in Job
           /\ \A j \in Job :
                /\ \A w \in Workers : Taken(j, w) \in Job
                /\ Requeued(j) \in Job
                /\ AfterSuccess(j) \in Job
                /\ j.made < MaxAttempts => AfterFailure(j) \in Job
                /\ Stalled(j) \in Job
<1>1. NoJob \in Job /\ NewJob \in Job
  <2>1. 0 \in 0..MaxAttempts
    BY DEF OutboxAssumption
  <2>2. NoJob \in Job
    BY <2>1 DEF Job, JobStatus, NoJob
  <2>3. NewJob \in Job
    BY <2>2 DEF Job, JobStatus, NewJob
  <2> QED
    BY <2>2, <2>3
<1>2. ASSUME NEW j \in Job
      PROVE  /\ \A w \in Workers : Taken(j, w) \in Job
             /\ Requeued(j) \in Job
             /\ AfterSuccess(j) \in Job
             /\ j.made < MaxAttempts => AfterFailure(j) \in Job
             /\ Stalled(j) \in Job
  <2>1. \A w \in Workers : Taken(j, w) \in Job
    BY DEF Job, JobStatus, Taken
  <2> DEFINE done(s) == [NoJob EXCEPT !.status = s]
  <2>5. done("completed") \in Job /\ done("failed") \in Job
    BY <1>1 DEF Job, JobStatus
  <2> HIDE DEF done
  <2>6. Finished("completed") = done("completed") /\ Finished("failed") = done("failed")
    BY DEF done, Finished
  <2>2. Requeued(j) \in Job /\ AfterSuccess(j) \in Job
    BY <2>5, <2>6 DEF Job, JobStatus, Requeued, AfterSuccess
  <2>3. ASSUME j.made < MaxAttempts PROVE AfterFailure(j) \in Job
    <3>1. j.made + 1 \in 0..MaxAttempts
      BY <2>3 DEF OutboxAssumption, Job
    <3> QED
      BY <2>5, <2>6, <3>1 DEF Job, JobStatus, AfterFailure
  <2>4. Stalled(j) \in Job
    BY <2>5, <2>6 DEF Job, JobStatus, Stalled
  <2> QED
    BY <2>1, <2>2, <2>3, <2>4
<1> QED
  BY <1>1, <1>2

LEMMA InitIInv == Init => IInv
<1> SUFFICES ASSUME Init PROVE IInv
  OBVIOUS
<1> USE OutboxAssumption
<1>1. TypeOK
  BY JobTransitions DEF OutboxAssumption, Init, TypeOK
<1>2. BusySlots /\ LiveJobs
  BY DEF Init, BusySlots, LiveJobs, NoJob
<1>3. NoEffectWithoutRow
  BY DEF Init, OutboxAssumption, NoEffectWithoutRow, NoJob
<1>4. ProcessedWasHandled
  BY DEF Init, ProcessedWasHandled
<1> QED
  BY <1>1, <1>2, <1>3, <1>4 DEF IInv

LEMMA StepIInv == IInv /\ [Next]_vars => IInv'
<1> SUFFICES ASSUME IInv, [Next]_vars PROVE IInv'
  OBVIOUS
<1> USE OutboxAssumption
    DEF IInv, TypeOK, BusySlots, LiveJobs, NoEffectWithoutRow, ProcessedWasHandled
<1>1. ASSUME NEW e \in Events, NEW delayed \in BOOLEAN, Write(e, delayed)
      PROVE  IInv'
  <2>1. TypeOK'
    BY <1>1 DEF Write
  <2>2. BusySlots'
    BY <1>1 DEF Write
  <2>3. LiveJobs'
    BY <1>1 DEF Write
  <2>4. NoEffectWithoutRow'
    BY <1>1 DEF Write
  <2>5. ProcessedWasHandled'
    BY <1>1 DEF Write
  <2> QED
    BY <2>1, <2>2, <2>3, <2>4, <2>5 DEF IInv
<1>2. ASSUME NEW e \in Events, Elapse(e) PROVE IInv'
  BY <1>2 DEF Elapse
<1>3. ASSUME NEW e \in Events, BackoffOver(e) PROVE IInv'
  <2>1. TypeOK'
    BY <1>3, JobTransitions DEF BackoffOver
  <2>2. BusySlots'
    BY <1>3 DEF BackoffOver
  <2>3. LiveJobs'
    BY <1>3 DEF BackoffOver, Requeued
  <2>4. NoEffectWithoutRow'
    BY <1>3 DEF BackoffOver, Requeued
  <2>5. ProcessedWasHandled'
    BY <1>3 DEF BackoffOver
  <2> QED
    BY <2>1, <2>2, <2>3, <2>4, <2>5 DEF IInv
<1>4. ASSUME NEW d \in Dispatchers, Claim(d) PROVE IInv'
  BY <1>4 DEF Claim, Dispatchable, Idle
<1>5. ASSUME NEW d \in Dispatchers, NEW e \in Events, Publish(d, e) PROVE IInv'
  <2>1. TypeOK'
    BY <1>5, JobTransitions DEF Publish, AddJob
  <2>2. BusySlots'
    BY <1>5 DEF Publish, AddJob, NewJob, NoJob
  <2>3. LiveJobs'
    BY <1>5 DEF Publish, AddJob, NewJob, NoJob
  <2>4. NoEffectWithoutRow'
    BY <1>5 DEF Publish, AddJob, NewJob, NoJob
  <2>5. ProcessedWasHandled'
    BY <1>5 DEF Publish, AddJob, NewJob, NoJob
  <2> QED
    BY <2>1, <2>2, <2>3, <2>4, <2>5 DEF IInv
<1>6. ASSUME NEW d \in Dispatchers, NEW e \in Events, RejectPublish(d, e) PROVE IInv'
  <2>1. TypeOK'
    BY <1>6, JobTransitions DEF RejectPublish, AddJob
  <2>2. BusySlots'
    BY <1>6 DEF RejectPublish, AddJob, NewJob, NoJob
  <2>3. LiveJobs'
    BY <1>6 DEF RejectPublish, AddJob, NewJob, NoJob
  <2>4. NoEffectWithoutRow'
    BY <1>6 DEF RejectPublish, AddJob, NewJob, NoJob
  <2>5. ProcessedWasHandled'
    BY <1>6 DEF RejectPublish, AddJob, NewJob, NoJob
  <2> QED
    BY <2>1, <2>2, <2>3, <2>4, <2>5 DEF IInv
<1>7. ASSUME NEW d \in Dispatchers, ReturnToPending(d) PROVE IInv'
  <2>1. TypeOK'
    BY <1>7 DEF ReturnToPending
  <2>2. BusySlots'
    BY <1>7 DEF ReturnToPending
  <2>3. LiveJobs'
    BY <1>7 DEF ReturnToPending
  <2>4. NoEffectWithoutRow'
    BY <1>7 DEF ReturnToPending
  <2>5. ProcessedWasHandled'
    BY <1>7 DEF ReturnToPending
  <2> QED
    BY <2>1, <2>2, <2>3, <2>4, <2>5 DEF IInv
<1>8. ASSUME NEW d \in Dispatchers, NEW e \in Events, MarkFailed(d, e) PROVE IInv'
  <2>1. TypeOK'
    <3>1. /\ state' \in [Events -> RowState]
          /\ elapsed' \in [Events -> BOOLEAN]
      <4>1. \/ /\ state' = [state EXCEPT ![e] = "FAILED"]
               /\ elapsed' = [elapsed EXCEPT ![e] = FALSE]
            \/ UNCHANGED <<state, elapsed>>
        BY <1>8 DEF MarkFailed
      <4> QED
        BY <4>1
    <3>2. batch' \in [Dispatchers -> SUBSET Events]
      BY <1>8 DEF MarkFailed
    <3> QED
      BY <1>8, <3>1, <3>2 DEF MarkFailed
  <2>2. BusySlots'
    BY <1>8 DEF MarkFailed
  <2>3. LiveJobs'
    BY <1>8 DEF MarkFailed
  <2>4. NoEffectWithoutRow'
    BY <1>8 DEF MarkFailed
  <2>5. ProcessedWasHandled'
    BY <1>8 DEF MarkFailed
  <2> QED
    BY <2>1, <2>2, <2>3, <2>4, <2>5 DEF IInv
<1>9. ASSUME NEW d \in Dispatchers, AbandonBatch(d) PROVE IInv'
  BY <1>9 DEF AbandonBatch
<1>10. CASE Reconcile
  BY <1>10 DEF Reconcile, Stale, Exhausted
<1>11. CASE StartWorker
  BY <1>11 DEF StartWorker
<1>12. ASSUME NEW w \in Workers, NEW e \in Events, TakeJob(w, e) PROVE IInv'
  <2>1. TypeOK'
    <3>1. job' \in [Events -> Job]
      BY <1>12, JobTransitions DEF TakeJob
    <3>2. /\ pc' \in [Workers -> Steps]
          /\ handling' \in [Workers -> Events \cup {NoEvent}]
      BY <1>12 DEF TakeJob
    <3>3. final' \in [Workers -> BOOLEAN]
      <4>1. (job[e].made + 1 >= MaxAttempts) \in BOOLEAN
        OBVIOUS
      <4> QED
        BY <1>12, <4>1 DEF TakeJob
    <3> QED
      BY <1>12, <3>1, <3>2, <3>3 DEF TakeJob
  <2>2. BusySlots'
    BY <1>12 DEF TakeJob
  <2>3. LiveJobs'
    BY <1>12 DEF TakeJob, Taken
  <2>4. NoEffectWithoutRow'
    BY <1>12 DEF TakeJob, Taken
  <2>5. ProcessedWasHandled'
    BY <1>12 DEF TakeJob
  <2> QED
    BY <2>1, <2>2, <2>3, <2>4, <2>5 DEF IInv
<1>13. ASSUME NEW w \in Workers, HandlerReturns(w) PROVE IInv'
  BY <1>13 DEF HandlerReturns
<1>14. ASSUME NEW w \in Workers, HandlerThrows(w) PROVE IInv'
  BY <1>14 DEF HandlerThrows
<1>15. ASSUME NEW w \in Workers, MarkOutboxProcessed(w) PROVE IInv'
  BY <1>15 DEF MarkOutboxProcessed
<1>16. ASSUME NEW w \in Workers, MarkThrows(w) PROVE IInv'
  BY <1>16 DEF MarkThrows
<1>17. ASSUME NEW w \in Workers, RecordOutboxFailure(w) PROVE IInv'
  <2>1. TypeOK'
    BY <1>17 DEF RecordOutboxFailure
  <2>2. BusySlots'
    BY <1>17 DEF RecordOutboxFailure
  <2>3. LiveJobs'
    BY <1>17 DEF RecordOutboxFailure
  <2>4. NoEffectWithoutRow'
    BY <1>17 DEF RecordOutboxFailure
  <2>5. ProcessedWasHandled'
    BY <1>17 DEF RecordOutboxFailure
  <2> QED
    BY <2>1, <2>2, <2>3, <2>4, <2>5 DEF IInv
<1>18. ASSUME NEW w \in Workers, FinishJob(w) PROVE IInv'
  <2>1. TypeOK'
    BY <1>18, JobTransitions DEF FinishJob, Owns, Release
  <2>2. BusySlots'
    BY <1>18 DEF FinishJob, Owns, Release, AfterSuccess, AfterFailure
  <2>3. LiveJobs'
    <3>1. \A j \in Job : AfterSuccess(j).status = "completed"
      BY DEF AfterSuccess, Finished, NoJob, Job
    <3>2. \A j \in Job : AfterFailure(j).status = "delayed"
                           => AfterFailure(j).made < MaxAttempts
      BY DEF AfterFailure, Finished, NoJob, Job, OutboxAssumption
    <3>3. \A j \in Job : AfterFailure(j).status \in {"delayed", "failed"}
      BY DEF AfterFailure, Finished, NoJob, Job
    <3> QED
      BY <1>18, <3>1, <3>2, <3>3 DEF FinishJob, Owns
  <2>4. NoEffectWithoutRow'
    <3>1. \A e \in Events : job[e].status = "none" => job'[e].status = "none"
      BY <1>18 DEF FinishJob, Owns
    <3>2. \A v \in Workers, e \in Events : handling[v] # e => handling'[v] # e
      BY <1>18 DEF FinishJob, Release
    <3> QED
      BY <1>18, <3>1, <3>2 DEF FinishJob
  <2>5. ProcessedWasHandled'
    BY <1>18 DEF FinishJob, Owns, Release, AfterSuccess, AfterFailure
  <2> QED
    BY <2>1, <2>2, <2>3, <2>4, <2>5 DEF IInv
<1>19. ASSUME NEW w \in Workers, WorkerCrash(w) PROVE IInv'
  BY <1>19 DEF WorkerCrash, Release
<1>20. ASSUME NEW e \in Events, Stall(e) PROVE IInv'
  <2>1. TypeOK'
    BY <1>20, JobTransitions DEF Stall
  <2>2. BusySlots'
    BY <1>20 DEF Stall
  <2>3. LiveJobs'
    <3>1. ASSUME NEW j \in Job
          PROVE  \/ Stalled(j).status = "failed"
                 \/ Stalled(j).status = "waiting" /\ Stalled(j).made = j.made
      <4>1. Finished("failed").status = "failed"
        BY DEF Finished, NoJob
      <4>2. CASE j.stalled
        BY <4>1, <4>2, Zenon DEF Stalled
      <4>3. CASE ~j.stalled
        BY <4>3 DEF Stalled, Job
      <4> QED
        BY <4>2, <4>3
    <3> QED
      BY <1>20, <3>1 DEF Stall
  <2>4. NoEffectWithoutRow'
    BY <1>20 DEF Stall
  <2>5. ProcessedWasHandled'
    BY <1>20 DEF Stall
  <2> QED
    BY <2>1, <2>2, <2>3, <2>4, <2>5 DEF IInv
<1>21. ASSUME NEW e \in Events, ForgetJob(e) PROVE IInv'
  <2>1. TypeOK'
    BY <1>21, JobTransitions DEF ForgetJob
  <2>2. BusySlots' /\ LiveJobs'
    BY <1>21 DEF ForgetJob, NoJob
  <2>3. NoEffectWithoutRow'
    BY <1>21 DEF ForgetJob, NoJob
  <2>4. ProcessedWasHandled'
    BY <1>21 DEF ForgetJob
  <2> QED
    BY <2>1, <2>2, <2>3, <2>4 DEF IInv
<1>22. CASE LoseQueue
  <2>1. TypeOK'
    BY <1>22, JobTransitions DEF LoseQueue
  <2>2. BusySlots'
    BY <1>22 DEF LoseQueue, NoJob
  <2>3. LiveJobs'
    BY <1>22 DEF LoseQueue, NoJob
  <2>4. NoEffectWithoutRow'
    BY <1>22 DEF LoseQueue, NoJob
  <2>5. ProcessedWasHandled'
    BY <1>22 DEF LoseQueue, NoJob
  <2> QED
    BY <2>1, <2>2, <2>3, <2>4, <2>5 DEF IInv
<1>23. CASE UNCHANGED vars
  BY <1>23 DEF vars
<1> QED
  BY <1>1, <1>2, <1>3, <1>4, <1>5, <1>6, <1>7, <1>8, <1>9, <1>10, <1>11, <1>12,
     <1>13, <1>14, <1>15, <1>16, <1>17, <1>18, <1>19, <1>20, <1>21, <1>22, <1>23
     DEF Next, DispatcherStep, WorkerStep, Fault

LEMMA SpecIInv == Spec => []IInv
BY InitIInv, StepIInv, PTL DEF Spec

\* The rows, jobs, dispatchers and worker slots always hold well-formed values;
\* in particular no row is claimed more often than the attempt budget allows and
\* no job is run more often than its attempts.
THEOREM TypeCorrect == Spec => []TypeOK
BY SpecIInv, PTL DEF IInv

\* No job, publication, claim or handler run exists for an event whose business
\* transaction did not commit.
THEOREM EffectsHaveRows == Spec => []NoEffectWithoutRow
BY SpecIInv, PTL DEF IInv

\* An acknowledged row's handler has succeeded.
THEOREM AcknowledgedWasHandled == Spec => []ProcessedWasHandled
BY SpecIInv, PTL DEF IInv

-----------------------------------------------------------------------------

\* What a single step can do to the state of a row.
RowStep(e) ==
    \/ state'[e] = state[e]
    \/ state[e] = "absent" /\ state'[e] = "PENDING"
    \/ state[e] = "PENDING" /\ state'[e] \in {"ENQUEUED", "FAILED"}
    \/ state[e] = "ENQUEUED" /\ state'[e] \in {"PENDING", "FAILED"}
    \/ state'[e] = "PROCESSED"

LEMMA RowSteps == IInv /\ [Next]_vars => \A e \in Events : RowStep(e)
<1> SUFFICES ASSUME IInv, [Next]_vars, NEW f \in Events
             PROVE  RowStep(f)
  OBVIOUS
<1> USE DEF IInv, TypeOK, RowStep
<1>1. ASSUME NEW e \in Events, NEW delayed \in BOOLEAN, Write(e, delayed)
      PROVE  RowStep(f)
  BY <1>1 DEF Write
<1>2. ASSUME NEW d \in Dispatchers, Claim(d) PROVE RowStep(f)
  BY <1>2 DEF Claim, Dispatchable
<1>3. ASSUME NEW d \in Dispatchers, ReturnToPending(d) PROVE RowStep(f)
  BY <1>3 DEF ReturnToPending
<1>4. ASSUME NEW d \in Dispatchers, NEW e \in Events, MarkFailed(d, e)
      PROVE  RowStep(f)
  BY <1>4 DEF MarkFailed
<1>5. CASE Reconcile
  BY <1>5 DEF Reconcile, Stale, Exhausted
<1>6. ASSUME NEW w \in Workers, MarkOutboxProcessed(w) PROVE RowStep(f)
  BY <1>6 DEF MarkOutboxProcessed
<1>7. ASSUME NEW w \in Workers, RecordOutboxFailure(w) PROVE RowStep(f)
  BY <1>7 DEF RecordOutboxFailure
<1>8. CASE UNCHANGED state
  BY <1>8
<1> QED
  BY <1>1, <1>2, <1>3, <1>4, <1>5, <1>6, <1>7, <1>8
     DEF Next, DispatcherStep, WorkerStep, Fault, vars, Elapse, BackoffOver,
         Publish, RejectPublish, AbandonBatch, StartWorker, TakeJob,
         HandlerReturns, HandlerThrows, MarkThrows, FinishJob, WorkerCrash,
         Stall, ForgetJob, LoseQueue

\* No step of a dispatcher, worker or reconciler takes back an acknowledged row,
\* and none dispatches again a row that was given up.
THEOREM SettledForGood == Spec => SettledRowsStay
<1>1. IInv /\ [Next]_vars =>
        [\A e \in Events :
           /\ state[e] = "PROCESSED" => state'[e] = "PROCESSED"
           /\ state[e] = "FAILED" => state'[e] \in {"FAILED", "PROCESSED"}]_vars
  BY RowSteps DEF RowStep, IInv, TypeOK
<1> QED
  BY <1>1, SpecIInv, PTL DEF Spec, SettledRowsStay

-----------------------------------------------------------------------------

\* The outbox implements its promise: with the rows read as debts and the
\* successful handlers as performed effects, every behaviour is one of
\* OutboxObligation.
THEOREM Refinement == Spec => ImplementsObligation
<1>1. Init => Obligation!Init
  BY DEF Init, Obligation!Init, debt
<1>2. IInv /\ [Next]_vars => [Obligation!Next]_(Obligation!vars)
  <2> SUFFICES ASSUME IInv, [Next]_vars
               PROVE  Obligation!Next \/ UNCHANGED Obligation!vars
    OBVIOUS
  <2> USE DEF IInv, TypeOK, debt, Obligation!Next, Obligation!vars
  <2>1. ASSUME NEW e \in Events, NEW delayed \in BOOLEAN, Write(e, delayed)
        PROVE  Obligation!Next \/ UNCHANGED <<debt, handled>>
    <3>1. CASE state[e] = "absent"
      <4> Obligation!Incur(e)
        BY <2>1, <3>1 DEF Write, Obligation!Incur
      <4> QED
        OBVIOUS
    <3>2. CASE state[e] # "absent"
      BY <2>1, <3>2 DEF Write
    <3> QED
      BY <3>1, <3>2
  <2>2. ASSUME NEW w \in Workers, HandlerReturns(w)
        PROVE  Obligation!Next
    <3>1. handling[w] \in Events /\ debt[handling[w]] # "none"
      BY <2>2 DEF HandlerReturns, BusySlots, NoEffectWithoutRow
    <3>2. Obligation!Perform(handling[w])
      BY <2>2, <3>1 DEF HandlerReturns, Obligation!Perform
    <3> QED
      BY <3>1, <3>2
  <2>3. ASSUME NEW w \in Workers, MarkOutboxProcessed(w)
        PROVE  Obligation!Next \/ UNCHANGED <<debt, handled>>
    <3>1. PICK e \in Events : e = handling[w] /\ e \in handled /\ state[e] # "absent"
      BY <2>3 DEF MarkOutboxProcessed, BusySlots, NoEffectWithoutRow
    <3>2. CASE state[e] = "PROCESSED"
      BY <2>3, <3>1, <3>2 DEF MarkOutboxProcessed
    <3>3. CASE state[e] # "PROCESSED"
      <4>1. Obligation!Discharge(e)
        BY <2>3, <3>1, <3>3 DEF MarkOutboxProcessed, Obligation!Discharge
      <4> QED
        BY <4>1, <3>1
    <3> QED
      BY <3>2, <3>3
  <2>4. ASSUME NEW S \in SUBSET Events,
               \A e \in S : state[e] \in {"PENDING", "ENQUEUED"},
               \A e \in S : state'[e] = "FAILED",
               \A e \in Events \ S : debt'[e] = debt[e],
               UNCHANGED handled
        PROVE  Obligation!Next
    <3>1. Obligation!Abandon(S)
      BY <2>4 DEF Obligation!Abandon
    <3> QED
      BY <3>1
  <2>5. ASSUME NEW e \in Events, state[e] = "ENQUEUED", UNCHANGED handled,
               state' = [state EXCEPT ![e] = "FAILED"]
        PROVE  Obligation!Next
    <3>1. debt[e] = "owed" /\ debt' = [f \in Events |-> IF f \in {e} THEN "abandoned" ELSE debt[f]]
      BY <2>5
    <3>2. Obligation!Abandon({e})
      BY <2>5, <3>1 DEF Obligation!Abandon
    <3> QED
      BY <3>2
  <2>11. CASE Reconcile
    <3> DEFINE S == {e \in Events : Exhausted(e)}
    <3>1. \A e \in S : state[e] \in {"PENDING", "ENQUEUED"} /\ state'[e] = "FAILED"
      BY <2>11 DEF Reconcile, Stale, Exhausted
    <3>2. \A e \in Events \ S : debt'[e] = debt[e]
      BY <2>11 DEF Reconcile, Stale, Exhausted
    <3> QED
      BY <2>4, <2>11, <3>1, <3>2 DEF Reconcile
  <2>6. ASSUME NEW d \in Dispatchers, NEW e \in Events, MarkFailed(d, e)
        PROVE  Obligation!Next \/ UNCHANGED <<debt, handled>>
    <3>1. CASE state[e] = "ENQUEUED"
      <4>1. state' = [state EXCEPT ![e] = "FAILED"] /\ UNCHANGED handled
        BY <2>6, <3>1 DEF MarkFailed
      <4> QED
        BY <2>5, <3>1, <4>1
    <3>2. CASE state[e] # "ENQUEUED"
      BY <2>6, <3>2 DEF MarkFailed
    <3> QED
      BY <3>1, <3>2
  <2>7. ASSUME NEW w \in Workers, RecordOutboxFailure(w)
        PROVE  Obligation!Next \/ UNCHANGED <<debt, handled>>
    <3>1. handling[w] \in Events
      BY <2>7 DEF RecordOutboxFailure, BusySlots
    <3>2. CASE UNCHANGED state
      BY <2>7, <3>2 DEF RecordOutboxFailure
    <3>3. CASE ~UNCHANGED state
      <4>1. /\ state[handling[w]] = "ENQUEUED"
            /\ state' = [state EXCEPT ![handling[w]] = "FAILED"]
            /\ UNCHANGED handled
        BY <2>7, <3>3 DEF RecordOutboxFailure
      <4> QED
        BY <2>5, <3>1, <4>1
    <3> QED
      BY <3>2, <3>3
  <2>8. ASSUME NEW d \in Dispatchers, Claim(d) PROVE UNCHANGED <<debt, handled>>
    BY <2>8 DEF Claim, Dispatchable
  <2>9. ASSUME NEW d \in Dispatchers, ReturnToPending(d)
        PROVE  UNCHANGED <<debt, handled>>
    BY <2>9 DEF ReturnToPending
  <2>10. CASE UNCHANGED <<state, handled>>
    BY <2>10
  <2> QED
    BY <2>1, <2>2, <2>3, <2>11, <2>6, <2>7, <2>8, <2>9, <2>10
       DEF Next, DispatcherStep, WorkerStep, Fault, vars, Elapse, BackoffOver,
           Publish, RejectPublish, AddJob, AbandonBatch, StartWorker, TakeJob,
           HandlerThrows, MarkThrows, FinishJob, WorkerCrash, Stall, ForgetJob,
           LoseQueue
<1> QED
  BY <1>1, <1>2, SpecIInv, PTL DEF Spec, ImplementsObligation, Obligation!Spec

-----------------------------------------------------------------------------
(* What a handler sees of the outbox.                                      *)

\* An idle slot holds nothing, and one that lacks the handler never runs it.
SlotsOK ==
    \A w \in Workers :
        /\ pc[w] = "idle" => handling[w] = NoEvent
        /\ w \in Behind => pc[w] \notin {"handle", "acknowledge"}

LEMMA InitSlots == Init => SlotsOK
BY DEF Init, SlotsOK

LEMMA StepSlots == IInv /\ SlotsOK /\ [Next]_vars => SlotsOK'
<1> SUFFICES ASSUME IInv, SlotsOK, [Next]_vars PROVE SlotsOK'
  OBVIOUS
<1> USE DEF IInv, TypeOK, SlotsOK
<1>1. CASE UNCHANGED workVars BY <1>1
<1>2. ASSUME NEW w \in Workers, NEW e \in Events, TakeJob(w, e) PROVE SlotsOK'
  BY <1>2 DEF TakeJob
<1>3. ASSUME NEW w \in Workers,
             \/ HandlerThrows(w) \/ MarkOutboxProcessed(w) \/ MarkThrows(w)
             \/ RecordOutboxFailure(w)
      PROVE  SlotsOK'
  <2>1. /\ pc'[w] \notin {"idle", "handle", "acknowledge"} /\ handling' = handling
        /\ \A v \in Workers \ {w} : pc'[v] = pc[v]
    BY <1>3 DEF HandlerThrows, MarkOutboxProcessed, MarkThrows, RecordOutboxFailure
  <2> QED BY <2>1
<1>5. ASSUME NEW w \in Workers, HandlerReturns(w) PROVE SlotsOK'
  BY <1>5 DEF HandlerReturns
<1>4. ASSUME NEW w \in Workers, FinishJob(w) \/ WorkerCrash(w) PROVE SlotsOK'
  BY <1>4 DEF FinishJob, WorkerCrash, Release
<1> QED
  BY <1>1, <1>2, <1>3, <1>4, <1>5
     DEF Next, DispatcherStep, WorkerStep, Fault, vars, Write, Elapse, BackoffOver, Claim,
         Publish, RejectPublish, ReturnToPending, MarkFailed, AbandonBatch, Reconcile,
         StartWorker, Stall, ForgetJob, LoseQueue

LEMMA HandledInit ==
    ASSUME Init, NEW e \in Events
    PROVE  Handled(e)!JobInit
<1>1. outboxOf(e) = "ENQUEUED" BY DEF Init, outboxOf
<1>2. job[e] = NoJob BY DEF Init
<1>3. runOf(e) = [w \in Workers |-> "none"]
  BY OutboxAssumption DEF Init, OutboxAssumption, runOf
<1> QED BY <1>1, <1>2, <1>3 DEF Handled!JobInit, Handled!NoJob, NoJob

\* A slot that moves changes no run but its own.
LEMMA SlotMoves ==
    ASSUME NEW e \in Events, NEW w \in Workers,
           \A v \in Workers \ {w} :
              handling'[v] = handling[v] /\ pc'[v] = pc[v] /\ final'[v] = final[v],
           NEW s, s = IF handling'[w] = e THEN stage(w)' ELSE "none"
    PROVE  runOf(e)' = [runOf(e) EXCEPT ![w] = s]
BY DEF runOf, stage

LEMMA SlotsStay ==
    ASSUME NEW e \in Events, UNCHANGED workVars
    PROVE  runOf(e)' = runOf(e)
BY DEF runOf, stage

\* What leaves the row's outcome, its job and its runs alone is nothing to the handler.
LEMMA HandledStutters ==
    ASSUME NEW e \in Events,
           outboxOf(e)' = outboxOf(e), job'[e] = job[e], runOf(e)' = runOf(e)
    PROVE  [Handled(e)!JobStep]_(Handled(e)!jobVars)
BY DEF Handled!jobVars

\* What BullMQ, Redis and a publication do to a job.
LEMMA HandledQueue ==
    ASSUME NEW e \in Events, outboxOf(e)' = outboxOf(e), runOf(e)' = runOf(e),
           \/ job[e].status = "active" /\ job'[e] = Stalled(job[e])
           \/ job[e].status = "delayed" /\ job'[e] = Requeued(job[e])
           \/ job'[e] = NoJob
           \/ job[e].status = "none" /\ job'[e] = NewJob
    PROVE  Handled(e)!JobStep
<1> USE DEF Handled!JobStep, Handled!QueueStep
<1>1. CASE job[e].status = "active" /\ job'[e] = Stalled(job[e])
  BY <1>1 DEF Handled!Stall, Handled!Stalled, Stalled, Handled!Finished, Finished,
              Handled!NoJob, NoJob
<1>2. CASE job[e].status = "delayed" /\ job'[e] = Requeued(job[e])
  BY <1>2 DEF Handled!BackoffOver, Handled!Requeued, Requeued
<1>3. CASE job'[e] = NoJob
  BY <1>3 DEF Handled!ForgetJob, Handled!NoJob, NoJob
<1>4. CASE job[e].status = "none" /\ job'[e] = NewJob
  BY <1>4 DEF Handled!Publish, Handled!NewJob, NewJob, Handled!NoJob, NoJob
<1> QED BY <1>1, <1>2, <1>3, <1>4

\* What the reconciler does to a row that is used up.
LEMMA HandledExhausted ==
    ASSUME NEW e \in Events, outboxOf(e) = "ENQUEUED", outboxOf(e)' = "FAILED",
           job'[e] = job[e], runOf(e)' = runOf(e)
    PROVE  Handled(e)!JobStep
BY DEF Handled!JobStep, Handled!QueueStep, Handled!Exhaust

\* The slots run the handler of e as HandledJob says.
LEMMA HandledTaken ==
    ASSUME IInv, SlotsOK, NEW e \in Events, NEW w \in Workers, NEW f \in Events, TakeJob(w, f)
    PROVE  [Handled(e)!JobStep]_(Handled(e)!jobVars)
<1> USE DEF IInv, TypeOK
<1>1. runOf(e)[w] = "none"
  BY OutboxAssumption DEF TakeJob, SlotsOK, runOf, OutboxAssumption
<1>2. outboxOf(e)' = outboxOf(e) BY DEF TakeJob, outboxOf
<1>3. \A v \in Workers \ {w} :
         handling'[v] = handling[v] /\ pc'[v] = pc[v] /\ final'[v] = final[v]
  BY DEF TakeJob
<1>4. CASE f # e
  <2>1. handling'[w] # e /\ job'[e] = job[e] BY <1>4 DEF TakeJob
  <2>2. runOf(e)' = [runOf(e) EXCEPT ![w] = "none"] BY <1>3, <2>1, SlotMoves
  <2>3. runOf(e)' = runOf(e) BY <1>1, <2>2 DEF runOf
  <2> QED BY <1>2, <2>1, <2>3, HandledStutters
<1>5. CASE f = e
  <2>1. handling'[w] = e /\ job[e].status = "waiting" /\ job'[e] = Taken(job[e], w)
    BY <1>5 DEF TakeJob
  <2>2. CASE w \in Behind
    <3>1. stage(w)' = "unhandled" BY <2>2 DEF TakeJob, stage
    <3>2. runOf(e)' = [runOf(e) EXCEPT ![w] = "unhandled"] BY <1>3, <2>1, <3>1, SlotMoves
    <3>3. Handled(e)!TakeUnhandled(w)
      BY <1>1, <1>2, <2>1, <3>2 DEF Handled!TakeUnhandled, Handled!Taken, Taken
    <3> QED BY <3>3 DEF Handled!JobStep, Handled!QueueStep
  <2>3. CASE w \notin Behind
    <3> DEFINE s == IF job[e].made + 1 >= MaxAttempts THEN "final" ELSE "early"
    <3>1. stage(w)' = s BY <1>5, <2>3 DEF TakeJob, stage
    <3>2. runOf(e)' = [runOf(e) EXCEPT ![w] = s] BY <1>3, <2>1, <3>1, SlotMoves
    <3>3. Handled(e)!TakeJob(w)
      BY <1>1, <1>2, <2>1, <3>2 DEF Handled!TakeJob, Handled!Taken, Taken
    <3> QED BY <3>3 DEF Handled!JobStep
  <2> QED BY <2>2, <2>3
<1> QED BY <1>4, <1>5

LEMMA HandledRuns ==
    ASSUME IInv, SlotsOK, NEW e \in Events, NEW w \in Workers,
           HandlerReturns(w) \/ HandlerThrows(w) \/ MarkThrows(w)
    PROVE  [Handled(e)!JobStep]_(Handled(e)!jobVars)
<1>1. /\ w \notin Behind /\ pc[w] \notin {"succeed", "fail"} /\ pc'[w] \notin {"succeed", "fail"}
      /\ \A v \in Workers \ {w} : pc'[v] = pc[v]
      /\ UNCHANGED <<state, job, handling, final>>
  BY DEF HandlerReturns, HandlerThrows, MarkThrows, IInv, TypeOK, SlotsOK
<1>2. runOf(e)' = runOf(e) BY <1>1 DEF runOf, stage
<1> QED BY <1>1, <1>2, HandledStutters DEF outboxOf

LEMMA HandledAcknowledged ==
    ASSUME IInv, SlotsOK, NEW e \in Events, NEW w \in Workers, MarkOutboxProcessed(w)
    PROVE  [Handled(e)!JobStep]_(Handled(e)!jobVars)
<1> USE DEF IInv, TypeOK
<1>1. /\ w \notin Behind /\ pc[w] = "acknowledge" /\ pc'[w] = "succeed"
      /\ \A v \in Workers \ {w} : pc'[v] = pc[v]
      /\ UNCHANGED <<job, handling, final>>
      /\ state' = [state EXCEPT ![handling[w]] = "PROCESSED"]
  BY DEF MarkOutboxProcessed, SlotsOK
<1>2. CASE handling[w] # e
  <2>1. runOf(e)' = runOf(e) BY <1>1, <1>2 DEF runOf, stage
  <2>2. outboxOf(e)' = outboxOf(e) BY <1>1, <1>2 DEF outboxOf
  <2> QED BY <1>1, <2>1, <2>2, HandledStutters
<1>3. CASE handling[w] = e
  <2>1. runOf(e)[w] \in {"early", "final"} BY <1>1, <1>3 DEF runOf, stage
  <2>2. stage(w)' = "succeed" BY <1>1 DEF stage
  <2>3. runOf(e)' = [runOf(e) EXCEPT ![w] = "succeed"] BY <1>1, <1>3, <2>2, SlotMoves
  <2>4. outboxOf(e)' = "PROCESSED" BY <1>1, <1>3 DEF outboxOf
  <2>5. Handled(e)!Acknowledge(w)
    BY <1>1, <2>1, <2>3, <2>4 DEF Handled!Acknowledge, Handled!Handling
  <2> QED BY <2>5 DEF Handled!JobStep
<1> QED BY <1>2, <1>3

LEMMA HandledFailed ==
    ASSUME IInv, SlotsOK, NEW e \in Events, NEW w \in Workers, RecordOutboxFailure(w)
    PROVE  [Handled(e)!JobStep]_(Handled(e)!jobVars)
<1> USE DEF IInv, TypeOK
<1>1. /\ pc[w] = "recordFailure" /\ pc'[w] = "fail"
      /\ \A v \in Workers \ {w} : pc'[v] = pc[v]
      /\ UNCHANGED <<job, handling, final>>
      /\ \/ UNCHANGED state
         \/ /\ final[w] /\ state[handling[w]] = "ENQUEUED"
            /\ state' = [state EXCEPT ![handling[w]] = "FAILED"]
  BY DEF RecordOutboxFailure
<1>2. CASE handling[w] # e
  <2>1. runOf(e)' = runOf(e) BY <1>1, <1>2 DEF runOf, stage
  <2>2. outboxOf(e)' = outboxOf(e) BY <1>1, <1>2 DEF outboxOf
  <2> QED BY <1>1, <2>1, <2>2, HandledStutters
<1>3. CASE handling[w] = e
  <2>1. stage(w)' = "fail" BY <1>1 DEF stage
  <2>2. runOf(e)' = [runOf(e) EXCEPT ![w] = "fail"] BY <1>1, <1>3, <2>1, SlotMoves
  <2>3. \/ outboxOf(e)' = outboxOf(e)
        \/ final[w] /\ outboxOf(e) = "ENQUEUED" /\ outboxOf(e)' = "FAILED"
    BY <1>1, <1>3 DEF outboxOf
  <2>4. CASE w \in Behind
    <3>1. runOf(e)[w] = "unhandled" BY <1>1, <1>3, <2>4 DEF runOf, stage
    <3>2. Handled(e)!FailUnhandled(w)
      BY <1>1, <2>2, <2>3, <3>1 DEF Handled!FailUnhandled, Handled!RecordRowFailure
    <3> QED BY <3>2 DEF Handled!JobStep, Handled!QueueStep
  <2>5. CASE w \notin Behind
    <3>1. runOf(e)[w] = IF final[w] THEN "final" ELSE "early"
      BY <1>1, <1>3, <2>5 DEF runOf, stage
    <3>2. Handled(e)!Throw(w)
      BY <1>1, <2>2, <2>3, <3>1
         DEF Handled!Throw, Handled!RecordRowFailure, Handled!Handling, Handled!Final
    <3> QED BY <3>2 DEF Handled!JobStep
  <2> QED BY <2>4, <2>5
<1> QED BY <1>2, <1>3

LEMMA HandledLeft ==
    ASSUME IInv, SlotsOK, NEW e \in Events, NEW w \in Workers, FinishJob(w) \/ WorkerCrash(w)
    PROVE  [Handled(e)!JobStep]_(Handled(e)!jobVars)
<1> USE DEF IInv, TypeOK
<1>1. /\ pc[w] # "idle" /\ handling'[w] = NoEvent
      /\ \A v \in Workers \ {w} :
           handling'[v] = handling[v] /\ pc'[v] = pc[v] /\ final'[v] = final[v]
      /\ UNCHANGED state
  BY DEF FinishJob, WorkerCrash, Release
<1>2. runOf(e)' = [runOf(e) EXCEPT ![w] = "none"]
  <2>1. handling'[w] # e BY <1>1, OutboxAssumption DEF OutboxAssumption
  <2> QED BY <1>1, <2>1, SlotMoves
<1>3. outboxOf(e)' = outboxOf(e) BY <1>1 DEF outboxOf
<1>4. CASE handling[w] # e
  <2>1. runOf(e)' = runOf(e) BY <1>2, <1>4 DEF runOf
  <2>2. job'[e] = job[e] BY <1>4 DEF FinishJob, WorkerCrash
  <2> QED BY <1>3, <2>1, <2>2, HandledStutters
<1>5. CASE handling[w] = e /\ WorkerCrash(w)
  <2>1. runOf(e)[w] # "none" BY <1>1, <1>5 DEF runOf, stage
  <2>2. Handled(e)!Crash(w) BY <1>2, <1>3, <1>5, <2>1 DEF Handled!Crash, WorkerCrash
  <2> QED BY <2>2 DEF Handled!JobStep
<1>6. CASE handling[w] = e /\ FinishJob(w)
  <2>1. runOf(e)[w] = pc[w] /\ pc[w] \in {"succeed", "fail"}
    BY <1>6 DEF FinishJob, runOf, stage
  <2>2. CASE ~Owns(w)
    <3>1. job'[e] = job[e] /\ ~Handled(e)!Owns(w)
      BY <1>6, <2>2 DEF FinishJob, Owns, Handled!Owns
    <3>2. Handled(e)!FinishJob(w) BY <1>2, <1>3, <2>1, <3>1 DEF Handled!FinishJob
    <3> QED BY <3>2 DEF Handled!JobStep, Handled!QueueStep
  <2>3. CASE Owns(w)
    <3>1. Handled(e)!Owns(w) BY <1>6, <2>3 DEF Owns, Handled!Owns
    <3>2. job'[e] = IF pc[w] = "succeed" THEN AfterSuccess(job[e]) ELSE AfterFailure(job[e])
      BY <1>6, <2>3 DEF FinishJob
    <3>3. /\ AfterSuccess(job[e]) = Handled(e)!AfterSuccess(job[e])
          /\ AfterFailure(job[e]) = Handled(e)!AfterFailure(job[e])
      BY DEF AfterSuccess, Handled!AfterSuccess, AfterFailure, Handled!AfterFailure,
             Finished, Handled!Finished, NoJob, Handled!NoJob
    <3>4. Handled(e)!FinishJob(w)
      BY <1>2, <1>3, <2>1, <3>1, <3>2, <3>3 DEF Handled!FinishJob
    <3> QED BY <3>4 DEF Handled!JobStep, Handled!QueueStep
  <2> QED BY <2>2, <2>3
<1> QED BY <1>4, <1>5, <1>6

LEMMA HandledStep ==
    ASSUME IInv, SlotsOK, [Next]_vars, NEW e \in Events \ Unroutable
    PROVE  [Handled(e)!JobStep]_(Handled(e)!jobVars)
<1> USE DEF IInv, TypeOK
<1>1. CASE UNCHANGED <<job, workVars>> /\ outboxOf(e)' = outboxOf(e)
  BY <1>1, SlotsStay, HandledStutters
<1>2. CASE UNCHANGED vars BY <1>1, <1>2 DEF vars, outboxOf
<1>3. ASSUME NEW f \in Events, NEW delayed \in BOOLEAN, Write(f, delayed) \/ Elapse(f)
      PROVE  [Handled(e)!JobStep]_(Handled(e)!jobVars)
  BY <1>1, <1>3 DEF Write, Elapse, outboxOf
<1>4. ASSUME NEW d \in Dispatchers, Claim(d) \/ ReturnToPending(d) \/ AbandonBatch(d)
      PROVE  [Handled(e)!JobStep]_(Handled(e)!jobVars)
  BY <1>1, <1>4 DEF Claim, Dispatchable, ReturnToPending, AbandonBatch, outboxOf
<1>5. ASSUME NEW d \in Dispatchers, NEW f \in Events, MarkFailed(d, f)
      PROVE  [Handled(e)!JobStep]_(Handled(e)!jobVars)
  BY <1>1, <1>5 DEF MarkFailed, outboxOf
<1>6. CASE StartWorker BY <1>1, <1>6 DEF StartWorker, outboxOf
<1>7. CASE Reconcile
  <2>1. job' = job /\ runOf(e)' = runOf(e) BY <1>7, SlotsStay DEF Reconcile
  <2>2. CASE Exhausted(e)
    <3>1. outboxOf(e) = "ENQUEUED" BY <2>2 DEF Exhausted, outboxOf
    <3>2. state'[e] = "FAILED" BY <1>7, <2>2 DEF Reconcile, Exhausted, Stale
    <3>3. outboxOf(e)' = "FAILED" BY <3>2 DEF outboxOf
    <3> QED BY <2>1, <3>1, <3>3, HandledExhausted
  <2>3. CASE ~Exhausted(e)
    <3>1. outboxOf(e)' = outboxOf(e) BY <1>7, <2>3 DEF Reconcile, Stale, outboxOf
    <3> QED BY <2>1, <3>1, HandledStutters
  <2> QED BY <2>2, <2>3
<1>8. ASSUME UNCHANGED <<state, workVars>>,
             \/ job'[e] = job[e]
             \/ job[e].status = "active" /\ job'[e] = Stalled(job[e])
             \/ job[e].status = "delayed" /\ job'[e] = Requeued(job[e])
             \/ job'[e] = NoJob
             \/ job[e].status = "none" /\ job'[e] = NewJob
      PROVE  [Handled(e)!JobStep]_(Handled(e)!jobVars)
  <2>1. outboxOf(e)' = outboxOf(e) /\ runOf(e)' = runOf(e)
    BY <1>8, SlotsStay DEF outboxOf
  <2> QED BY <1>8, <2>1, HandledStutters, HandledQueue
<1>9. ASSUME NEW d \in Dispatchers, NEW f \in Events, Publish(d, f) \/ RejectPublish(d, f)
      PROVE  [Handled(e)!JobStep]_(Handled(e)!jobVars)
  BY <1>8, <1>9 DEF Publish, RejectPublish, AddJob
<1>10. ASSUME NEW f \in Events, Stall(f) \/ BackoffOver(f) \/ ForgetJob(f)
       PROVE  [Handled(e)!JobStep]_(Handled(e)!jobVars)
  BY <1>8, <1>10 DEF Stall, BackoffOver, ForgetJob
<1>11. CASE LoseQueue BY <1>8, <1>11 DEF LoseQueue
<1>12. ASSUME NEW w \in Workers,
              \/ \E f \in Events : TakeJob(w, f)
              \/ HandlerReturns(w) \/ HandlerThrows(w) \/ MarkThrows(w)
              \/ MarkOutboxProcessed(w) \/ RecordOutboxFailure(w)
              \/ FinishJob(w) \/ WorkerCrash(w)
       PROVE  [Handled(e)!JobStep]_(Handled(e)!jobVars)
  BY <1>12, HandledTaken, HandledRuns, HandledAcknowledged, HandledFailed, HandledLeft
<1> QED
  BY <1>2, <1>3, <1>4, <1>5, <1>6, <1>7, <1>9, <1>10, <1>11, <1>12
     DEF Next, DispatcherStep, WorkerStep, Fault

\* To the handler of any routable event, the outbox with its dispatchers, its queue and
\* its workers does nothing but what HandledJob allows, which is all that the handlers
\* are verified against.
THEOREM HandlersRefinement == Spec => ImplementsHandledJob
<1> DEFINE AllSteps == \A e \in Events \ Unroutable : [Handled(e)!JobStep]_(Handled(e)!jobVars)
<1>1. Init => \A e \in Events \ Unroutable : Handled(e)!JobInit BY HandledInit
<1>2. IInv /\ SlotsOK /\ [Next]_vars => [AllSteps]_vars BY HandledStep
<1>3. Init => SlotsOK BY InitSlots
<1>4. IInv /\ SlotsOK /\ [Next]_vars => SlotsOK' BY StepSlots
<1> HIDE DEF AllSteps
<1>5. Spec => [][AllSteps]_vars BY <1>2, <1>3, <1>4, SpecIInv, PTL DEF Spec
<1>6. Spec => \A e \in Events \ Unroutable : Handled(e)!JobInit BY <1>1 DEF Spec
<1> QED BY <1>5, <1>6 DEF ImplementsHandledJob, AllSteps

-----------------------------------------------------------------------------
(* The relay that drives a dispatcher (OutboxRelay).                       *)

\* How far stop() has come shows in the flags, and the loop claims only in a batch of
\* its own; once stop() has resolved, all that is left of the loop is to exit.
RelayStops ==
    /\ stopping = "no" <=> running
    /\ listener = "stopped" <=> stopping \in {"loop", "stopped"}
    /\ loop = "asleep" => running
    /\ loop # "publish" => InBatch = {}
    /\ stopping = "stopped" => loop \in {"starting", "drain", "exited"}

\* A row that is due while the session listens and no notification is on its way.
Unannounced ==
    /\ running
    /\ listener = "listening"
    /\ inFlight = 0
    /\ \E r \in Rows : row[r] = "due"

\* While the relay is calm, such a row is either left by a full batch, which is not the
\* last of its drain, or has left the wake-up that the loop honours before it sleeps.
WakeupsKept ==
    /\ calm => \A r \in Rows : row[r] # "future"
    /\ calm /\ Unannounced =>
          /\ loop # "asleep"
          /\ loop \in {"sleep", "probe", "arm"} => pendingWake
          /\ loop = "publish" => pendingWake \/ Cardinality(InBatch) = MaxBatch

RelayTypes ==
    /\ row \in [Rows -> {"absent", "future", "due", "claimed", "published", "stranded"}]
    /\ inFlight \in Nat
    /\ listener \in {"down", "verifying", "listening", "stopped"}

RelayInv == RelayTypes /\ RelayStops /\ WakeupsKept

USE DEF Asleep, Unchanged, UnchangedAround, InBatch

LEMMA RelayBegins == RelayInit => RelayInv
BY DEF RelayInit, RelayInv, RelayTypes, RelayStops, WakeupsKept, Unannounced

LEMMA RelayStep == RelayInv /\ [RelayNext]_relayVars => RelayInv'
<1> SUFFICES ASSUME RelayInv, [RelayNext]_relayVars PROVE RelayInv' OBVIOUS
<1> USE DEF RelayInv, RelayTypes, RelayStops, WakeupsKept, Unannounced
<1>1. CASE UNCHANGED relayVars BY <1>1 DEF relayVars
<1>2. ASSUME NEW r \in Rows, Commit(r) PROVE RelayInv'
  BY <1>2 DEF Commit
<1>3. ASSUME NEW r \in Rows, BecomeDue(r) PROVE RelayInv'
  BY <1>3 DEF BecomeDue
<1>4. CASE Deliver BY <1>4 DEF Deliver, Wake
<1>5. CASE Listen BY <1>5 DEF Listen
<1>6. CASE Connected BY <1>6 DEF Connected, Wake
<1>7. CASE Drop BY <1>7 DEF Drop
<1>8. CASE LoseNotification BY <1>8 DEF LoseNotification
<1>9. CASE StartLoop BY <1>9 DEF StartLoop
<1>10. CASE CheckRunning BY <1>10 DEF CheckRunning
<1>11. CASE ClaimBatch
  <2>1. PICK claimed \in SUBSET {r \in Rows : row[r] = "due"} :
          /\ \/ Cardinality(claimed) = MaxBatch /\ UNCHANGED calm
             \/ /\ Cardinality(claimed) < MaxBatch
                /\ \A r \in Rows : row[r] = "due" => r \in claimed
                /\ calm' = (calm \/ \A r \in Rows : row[r] # "future")
          /\ row' = [r \in Rows |-> IF r \in claimed THEN "claimed" ELSE row[r]]
    BY <1>11 DEF ClaimBatch
  <2>2. /\ loop = "claim" /\ loop' = "publish"
        /\ UNCHANGED <<rounds, pendingWake, timer, probed, inFlight, listener, running, stopping>>
    BY <1>11 DEF ClaimBatch
  <2>3. InBatch' = claimed BY <2>1, <2>2
  <2>4. RelayTypes' /\ RelayStops' BY <2>1, <2>2
  <2>5. (\A r \in Rows : row[r] # "future") => \A r \in Rows : row'[r] # "future" BY <2>1
  <2>6. CASE Cardinality(claimed) = MaxBatch /\ UNCHANGED calm
    BY <2>1, <2>2, <2>3, <2>4, <2>5, <2>6
  <2>7. CASE /\ \A r \in Rows : row[r] = "due" => r \in claimed
             /\ calm' = (calm \/ \A r \in Rows : row[r] # "future")
    <3>1. \A r \in Rows : row'[r] # "due" BY <2>1, <2>7
    <3>2. calm' => \A r \in Rows : row'[r] # "future" BY <2>5, <2>7
    <3> QED BY <2>4, <3>1, <3>2
  <2> QED BY <2>1, <2>6, <2>7
<1>12. CASE BatchDone
  <2> DEFINE full == Cardinality(InBatch) = MaxBatch
             again == full /\ rounds + 1 < MaxRounds
  <2>1. PICK refused \in SUBSET InBatch :
          /\ calm' = (calm /\ refused = {} /\ (full => again))
          /\ row' = [r \in Rows |-> CASE r \in refused -> "future"
                                      [] r \in InBatch \ refused -> "published"
                                      [] OTHER -> row[r]]
    BY <1>12 DEF BatchDone
  <2>2. /\ loop = "publish"
        /\ \/ again /\ loop' = "drain"
           \/ ~again /\ loop' = "sleep"
        /\ UNCHANGED <<pendingWake, timer, probed, inFlight, listener, running, stopping>>
    BY <1>12 DEF BatchDone
  <2> HIDE DEF again, full
  <2>3. \A r \in Rows : /\ row'[r] \in {"future", "published", "absent", "due", "stranded"}
                        /\ row'[r] = "due" => row[r] = "due"
                        /\ row'[r] = "future" => row[r] = "future" \/ refused # {}
    BY <2>1
  <2>4. RelayTypes' /\ RelayStops' BY <2>1, <2>2, <2>3
  <2>5. calm' => \A r \in Rows : row'[r] # "future" BY <2>1, <2>3
  <2>6. (calm /\ Unannounced)' => loop' # "asleep" /\ (loop' = "sleep" => pendingWake)
    BY <2>1, <2>2, <2>3 DEF full
  <2> QED BY <2>2, <2>4, <2>5, <2>6
<1>13. CASE DrainFails
  <2>1. /\ loop \in {"claim", "publish"} /\ loop' = "sleep" /\ calm' = FALSE
        /\ UNCHANGED <<pendingWake, timer, probed, inFlight, listener, running, stopping>>
    BY <1>13 DEF DrainFails
  <2>2. CASE loop = "claim" /\ UNCHANGED row BY <2>1, <2>2
  <2>3. ASSUME NEW left \in SUBSET InBatch, NEW refused \in SUBSET (InBatch \ left),
               row' = [r \in Rows |-> IF r \in left THEN "stranded"
                                     ELSE IF r \in refused THEN "future"
                                     ELSE IF r \in InBatch THEN "published"
                                     ELSE row[r]]
        PROVE  RelayInv'
    <3>1. \A r \in Rows : row'[r] \in {"future", "published", "absent", "due", "stranded"}
      BY <2>3
    <3> QED BY <2>1, <2>3, <3>1
  <2> QED BY <1>13, <2>2, <2>3 DEF DrainFails
<1>14. CASE BeginSleep BY <1>14 DEF BeginSleep
<1>15. CASE Probe BY <1>15 DEF Probe
<1>16. CASE Arm BY <1>16 DEF Arm
<1>17. CASE TimerFires BY <1>17 DEF TimerFires
<1>18. CASE Stop BY <1>18 DEF Stop
<1>19. CASE StopListener BY <1>19 DEF StopListener
<1>20. CASE Stopped BY <1>20 DEF Stopped
<1> QED
  BY <1>1, <1>2, <1>3, <1>4, <1>5, <1>6, <1>7, <1>8, <1>9, <1>10, <1>11, <1>12, <1>13,
     <1>14, <1>15, <1>16, <1>17, <1>18, <1>19, <1>20 DEF RelayNext, LoopStep

\* While it is calm, the relay never sleeps out its fallback interval over a row that
\* could be dispatched and whose wake-up is not on its way.
THEOREM RelayWakes == RelaySpec => []NoLostWakeup
<1>1. RelayInv => NoLostWakeup
  BY DEF RelayInv, RelayTypes, RelayStops, WakeupsKept, Unannounced, NoLostWakeup,
         SleepsOverDueRow
<1> QED BY RelayBegins, RelayStep, <1>1, PTL DEF RelaySpec

\* When stop() resolves, no batch is in progress and none can follow; what a batch that
\* rejected has left ENQUEUED is not among the rows it waits for.
THEOREM RelayAwaitsBatch == RelaySpec => []StopAwaitsBatch
<1>1. RelayInv => StopAwaitsBatch
  BY DEF RelayInv, RelayStops, StopAwaitsBatch
<1> QED BY RelayBegins, RelayStep, <1>1, PTL DEF RelaySpec

\* Every notification in flight belongs to a written row of its own.
Written == {r \in Rows : row[r] # "absent"}

RelayTyped == RelayTypeOK /\ inFlight <= Cardinality(Written)

LEMMA WrittenRows ==
    ASSUME RelayAssumption
    PROVE  IsFiniteSet(Written) /\ Cardinality(Written) \in Nat
           /\ Cardinality(Written) <= Cardinality(Rows)
BY FS_Subset, FS_CardinalityType DEF Written, RelayAssumption

LEMMA RelayTypes0 == ASSUME RelayAssumption, RelayInit PROVE RelayTyped
<1>1. Cardinality(Rows) \in Nat BY FS_CardinalityType DEF RelayAssumption
<1>2. Cardinality(Written) \in Nat BY WrittenRows
<1>3. /\ 0 \in 0..Cardinality(Rows) /\ 0 \in 0..MaxRounds
      /\ 0 <= Cardinality(Written)
  BY <1>1, <1>2 DEF RelayAssumption
<1>4. TRUE \in BOOLEAN /\ FALSE \in BOOLEAN OBVIOUS
<1>5. RelayTypeOK BY <1>3, <1>4, Zenon DEF RelayTypeOK, RelayInit
<1> QED BY <1>3, <1>5 DEF RelayTyped, RelayInit

LEMMA RelayTypesStep ==
    ASSUME RelayAssumption, RelayTyped, [RelayNext]_relayVars
    PROVE  RelayTyped'
<1> USE DEF RelayTyped, RelayTypeOK
<1>0. /\ Cardinality(Rows) \in Nat /\ MaxRounds \in Nat \ {0} /\ NoRow \notin Rows
      /\ Cardinality(Written) \in Nat /\ Cardinality(Written) <= Cardinality(Rows)
  BY WrittenRows, FS_CardinalityType DEF RelayAssumption
<1>1. CASE UNCHANGED relayVars BY <1>0, <1>1 DEF relayVars, Written
<1>2. ASSUME NEW r \in Rows, Commit(r) PROVE RelayTyped'
  <2>1. row' \in [Rows -> {"absent", "future", "due", "claimed", "published", "stranded"}]
    BY <1>2 DEF Commit
  <2>2. Written' = Written \cup {r} /\ r \notin Written BY <1>2 DEF Commit, Written
  <2>3. Cardinality(Written') = Cardinality(Written) + 1
    BY <2>2, WrittenRows, FS_AddElement
  <2>4. Written' \subseteq Rows BY DEF Written
  <2>5. Cardinality(Written') <= Cardinality(Rows)
    BY <2>4, FS_Subset DEF RelayAssumption
  <2>6. inFlight' \in {inFlight, inFlight + 1} BY <1>2 DEF Commit
  <2>7. inFlight' \in 0..Cardinality(Rows) /\ inFlight' <= Cardinality(Written')
    BY <1>0, <2>3, <2>5, <2>6
  <2>8. calm' \in BOOLEAN BY <1>2 DEF Commit
  <2>9. Cardinality(Written)' = Cardinality(Written') OBVIOUS
  <2> QED BY <1>2, <2>1, <2>7, <2>8, <2>9 DEF Commit
<1>3. ASSUME UNCHANGED row PROVE Cardinality(Written)' = Cardinality(Written)
  BY <1>3 DEF Written
<1>4. ASSUME NEW r \in Rows, BecomeDue(r) PROVE RelayTyped'
  <2>1. Written' = Written BY <1>4 DEF BecomeDue, Written
  <2> QED BY <1>0, <1>4, <2>1 DEF BecomeDue
<1>5. CASE ClaimBatch
  <2>1. PICK claimed \in SUBSET {r \in Rows : row[r] = "due"} :
          row' = [r \in Rows |-> IF r \in claimed THEN "claimed" ELSE row[r]]
    BY <1>5 DEF ClaimBatch
  <2>2. Written' = Written BY <2>1 DEF Written
  <2>3. calm' \in BOOLEAN BY <1>5 DEF ClaimBatch
  <2> QED BY <1>0, <1>5, <2>1, <2>2, <2>3 DEF ClaimBatch
<1>6. CASE BatchDone
  <2>1. PICK refused \in SUBSET InBatch :
          row' = [r \in Rows |-> CASE r \in refused -> "future"
                                   [] r \in InBatch \ refused -> "published"
                                   [] OTHER -> row[r]]
    BY <1>6 DEF BatchDone
  <2>2. Written' = Written BY <2>1 DEF Written
  <2>3. row' \in [Rows -> {"absent", "future", "due", "claimed", "published", "stranded"}] BY <2>1
  <2>4. rounds' \in 0..MaxRounds /\ calm' \in BOOLEAN BY <1>0, <1>6 DEF BatchDone
  <2> QED BY <1>0, <1>6, <2>2, <2>3, <2>4 DEF BatchDone
<1>7. CASE Deliver
  <2>1. /\ loop' \in {loop, "drain"} /\ rounds' \in {rounds, 0} /\ timer' \in {timer, "none"}
        /\ probed' \in {probed, NoRow} /\ pendingWake' \in {pendingWake, TRUE}
    BY <1>7 DEF Deliver, Wake
  <2>2. inFlight' \in {inFlight, inFlight - 1} /\ (inFlight' # inFlight => inFlight > 0)
    BY <1>7 DEF Deliver
  <2>3. rounds' \in 0..MaxRounds BY <1>0, <2>1
  <2>4. inFlight' \in 0..Cardinality(Rows) /\ inFlight' <= Cardinality(Written)
    BY <1>0, <2>2
  <2>5. pendingWake' \in BOOLEAN BY <2>1, Zenon
  <2> QED BY <1>3, <1>7, <2>1, <2>3, <2>4, <2>5 DEF Deliver
<1>8. CASE Listen BY <1>0, <1>3, <1>8 DEF Listen
<1>9. CASE Connected
  <2>1. /\ loop' \in {loop, "drain"} /\ rounds' \in {rounds, 0} /\ timer' \in {timer, "none"}
        /\ probed' \in {probed, NoRow} /\ pendingWake' \in {pendingWake, TRUE}
    BY <1>9 DEF Connected, Wake
  <2>2. inFlight' \in {inFlight, inFlight - 1} /\ (inFlight' # inFlight => inFlight > 0)
    BY <1>9 DEF Connected
  <2>3. rounds' \in 0..MaxRounds BY <1>0, <2>1
  <2>4. inFlight' \in 0..Cardinality(Rows) /\ inFlight' <= Cardinality(Written)
    BY <1>0, <2>2
  <2>5. pendingWake' \in BOOLEAN BY <2>1, Zenon
  <2> QED BY <1>3, <1>9, <2>1, <2>3, <2>4, <2>5 DEF Connected
<1>10. CASE Drop BY <1>0, <1>3, <1>10 DEF Drop
<1>11. CASE LoseNotification
  <2>1. calm' \in BOOLEAN BY <1>11 DEF LoseNotification
  <2>2. /\ rounds' \in 0..MaxRounds
        /\ inFlight' \in 0..Cardinality(Rows) /\ inFlight' <= Cardinality(Written)
    BY <1>0, <1>11 DEF LoseNotification
  <2> QED BY <1>3, <1>11, <2>1, <2>2 DEF LoseNotification
<1>12. CASE StartLoop BY <1>0, <1>3, <1>12 DEF StartLoop
<1>13. CASE CheckRunning BY <1>0, <1>3, <1>13 DEF CheckRunning
<1>14. CASE DrainFails
  <2>1. calm' \in BOOLEAN BY <1>14 DEF DrainFails
  <2>2. /\ rounds' \in 0..MaxRounds
        /\ inFlight' \in 0..Cardinality(Rows) /\ inFlight' <= Cardinality(Written)
    BY <1>0, <1>14 DEF DrainFails
  <2>3. /\ row' \in [Rows -> {"absent", "future", "due", "claimed", "published", "stranded"}]
        /\ Written' = Written
    <3>1. CASE UNCHANGED row BY <3>1 DEF Written
    <3>2. ASSUME NEW left \in SUBSET InBatch, NEW refused \in SUBSET (InBatch \ left),
                 row' = [r \in Rows |-> IF r \in left THEN "stranded"
                                       ELSE IF r \in refused THEN "future"
                                       ELSE IF r \in InBatch THEN "published"
                                       ELSE row[r]]
          PROVE  /\ row' \in [Rows -> {"absent", "future", "due", "claimed", "published",
                                         "stranded"}]
                 /\ Written' = Written
      BY <3>2 DEF Written
    <3> QED BY <1>14, <3>1, <3>2 DEF DrainFails
  <2> QED BY <1>14, <2>1, <2>2, <2>3 DEF DrainFails
<1>15. CASE BeginSleep BY <1>0, <1>3, <1>15 DEF BeginSleep
<1>16. CASE Probe BY <1>0, <1>3, <1>16 DEF Probe
<1>17. CASE Arm BY <1>0, <1>3, <1>17 DEF Arm
<1>18. CASE TimerFires BY <1>0, <1>3, <1>18 DEF TimerFires
<1>19. CASE Stop BY <1>0, <1>3, <1>19 DEF Stop
<1>20. CASE StopListener BY <1>0, <1>3, <1>20 DEF StopListener
<1>21. CASE Stopped BY <1>0, <1>3, <1>21 DEF Stopped
<1> QED
  BY <1>1, <1>2, <1>4, <1>5, <1>6, <1>7, <1>8, <1>9, <1>10,
     <1>11, <1>12, <1>13, <1>14, <1>15, <1>16, <1>17, <1>18, <1>19, <1>20, <1>21
     DEF RelayNext, LoopStep

\* The state of the relay stays within its types; in particular there is never a
\* notification without a written row of its own.
THEOREM RelayTypeCorrect == RelaySpec => []RelayTypeOK
<1>1. RelayTyped => RelayTypeOK BY DEF RelayTyped
<1> QED BY RelayAssumption, RelayTypes0, RelayTypesStep, <1>1, PTL DEF RelaySpec

=============================================================================

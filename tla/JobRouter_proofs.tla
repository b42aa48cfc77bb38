-------------------------- MODULE JobRouter_proofs --------------------------
(***************************************************************************)
(* Proofs about the handlers behind the outbox and the router in front of  *)
(* them, for any number of worker slots, any attempt budget and any of the *)
(* faults.                                                                 *)
(*                                                                         *)
(* Each handler is proved correct as a specification of its own; then the  *)
(* router is shown to implement, for an event of a handler's type, that    *)
(* handler's specification, and its properties follow.                     *)
(***************************************************************************)
EXTENDS JobRouter, TLAPS

USE DEF jobVars, Email!jobVars, Export!jobVars, Integration!jobVars

-----------------------------------------------------------------------------
(* The job under all three handlers.                                       *)

LEMMA JobMoves ==
    /\ NoJob \in Job /\ NewJob \in Job
    /\ \A j \in Job :
         /\ \A w \in Workers : Taken(j, w) \in Job
         /\ Requeued(j) \in Job /\ AfterSuccess(j) \in Job
         /\ AfterFailure(j) \in Job /\ Stalled(j) \in Job
<1> USE HandledJobAssumption DEF HandledJobAssumption, Job, JobStatus
<1>1. NoJob \in Job BY DEF NoJob
<1>2. NewJob \in Job BY <1>1 DEF NewJob, NoJob
<1>3. ASSUME NEW j \in Job
      PROVE  /\ \A w \in Workers : Taken(j, w) \in Job
             /\ Requeued(j) \in Job /\ AfterSuccess(j) \in Job
             /\ AfterFailure(j) \in Job /\ Stalled(j) \in Job
  <2>1. \A w \in Workers : Taken(j, w) \in Job BY DEF Taken
  <2>2. Requeued(j) \in Job BY DEF Requeued
  <2>3. Finished("completed") \in Job /\ Finished("failed") \in Job
    BY <1>1 DEF Finished, NoJob
  <2>4. AfterSuccess(j) \in Job BY <2>3 DEF AfterSuccess
  <2>5. Stalled(j) \in Job BY <2>3 DEF Stalled
  <2>6. AfterFailure(j) \in Job
    <3>1. CASE j.made + 1 >= MaxAttempts BY <2>3, <3>1 DEF AfterFailure
    <3>2. CASE ~(j.made + 1 >= MaxAttempts)
      <4>1. j.made + 1 \in 0..MaxAttempts BY <3>2
      <4> QED BY <3>2, <4>1 DEF AfterFailure
    <3> QED BY <3>1, <3>2
  <2> QED BY <2>1, <2>2, <2>4, <2>5, <2>6
<1> QED BY <1>1, <1>2, <1>3

LEMMA JobInitOK == JobInit => JobTypeOK
BY JobMoves DEF JobInit, JobTypeOK, Runs

LEMMA JobStepOK == JobTypeOK /\ [JobStep]_jobVars => JobTypeOK'
<1> SUFFICES ASSUME JobTypeOK, [JobStep]_jobVars PROVE JobTypeOK' OBVIOUS
<1> USE DEF JobTypeOK, Runs
<1>1. ASSUME NEW w \in Workers, TakeJob(w) \/ TakeUnhandled(w) PROVE JobTypeOK'
  BY <1>1, JobMoves DEF TakeJob, TakeUnhandled
<1>2. ASSUME NEW w \in Workers,
             Acknowledge(w) \/ Throw(w) \/ FailUnhandled(w) \/ Crash(w)
      PROVE  JobTypeOK'
  BY <1>2 DEF Acknowledge, Throw, FailUnhandled, Crash, RecordRowFailure
<1>3. ASSUME NEW w \in Workers, FinishJob(w) PROVE JobTypeOK'
  BY <1>3, JobMoves DEF FinishJob
<1>4. CASE Stall \/ BackoffOver \/ ForgetJob \/ Publish \/ Exhaust
  BY <1>4, JobMoves DEF Stall, BackoffOver, ForgetJob, Publish, Exhaust
<1>5. CASE UNCHANGED jobVars BY <1>5
<1> QED BY <1>1, <1>2, <1>3, <1>4, <1>5 DEF JobStep, QueueStep

\* Nothing but an acknowledgement makes the row PROCESSED.
LEMMA OnlyAcknowledged ==
    ASSUME \/ \E w \in Workers : TakeJob(w) \/ Throw(w) \/ Crash(w)
           \/ QueueStep \/ UNCHANGED jobVars
    PROVE  outbox' = "PROCESSED" => outbox = "PROCESSED"
BY DEF TakeJob, Throw, Crash, QueueStep, Stall, BackoffOver, ForgetJob, Publish, Exhaust,
       TakeUnhandled, FailUnhandled, FinishJob, RecordRowFailure

-----------------------------------------------------------------------------
(* Email deliveries.                                                       *)

LEMMA EmailSharesJob ==
    /\ Email!JobInit <=> JobInit
    /\ Email!JobTypeOK <=> JobTypeOK
    /\ Email!QueueStep <=> QueueStep
    /\ \A w \in Workers : /\ Email!TakeJob(w) <=> TakeJob(w)
                          /\ Email!Acknowledge(w) <=> Acknowledge(w)
                          /\ Email!Throw(w) <=> Throw(w)
                          /\ Email!Crash(w) <=> Crash(w)
<1> USE DEF Email!Owns, Owns, Email!Handling, Handling, Email!Final, Final,
            Email!RecordRowFailure, RecordRowFailure, Email!NoJob, NoJob,
            Email!NewJob, NewJob, Email!Finished, Finished
<1>1. Email!JobInit <=> JobInit BY DEF Email!JobInit, JobInit
<1>2. Email!JobTypeOK <=> JobTypeOK
  BY DEF Email!JobTypeOK, JobTypeOK, Email!Job, Job, Email!JobStatus, JobStatus, Email!Runs, Runs
<1>3. ASSUME NEW w \in Workers
      PROVE  /\ Email!TakeJob(w) <=> TakeJob(w)
             /\ Email!Acknowledge(w) <=> Acknowledge(w)
             /\ Email!Throw(w) <=> Throw(w)
             /\ Email!Crash(w) <=> Crash(w)
  BY DEF Email!TakeJob, TakeJob, Email!Taken, Taken, Email!Acknowledge, Acknowledge,
         Email!Throw, Throw, Email!Crash, Crash
<1>4. ASSUME NEW w \in Workers
      PROVE  /\ Email!TakeUnhandled(w) <=> TakeUnhandled(w)
             /\ Email!FailUnhandled(w) <=> FailUnhandled(w)
             /\ Email!FinishJob(w) <=> FinishJob(w)
  BY DEF Email!TakeUnhandled, TakeUnhandled, Email!Taken, Taken, Email!FailUnhandled, FailUnhandled,
         Email!FinishJob, FinishJob, Email!AfterSuccess, AfterSuccess, Email!AfterFailure, AfterFailure
<1>5. Email!Stall <=> Stall BY DEF Email!Stall, Stall, Email!Stalled, Stalled
<1>6. Email!BackoffOver <=> BackoffOver
  BY DEF Email!BackoffOver, BackoffOver, Email!Requeued, Requeued
<1>7. /\ Email!ForgetJob <=> ForgetJob
      /\ Email!Publish <=> Publish
      /\ Email!Exhaust <=> Exhaust
  BY DEF Email!ForgetJob, ForgetJob, Email!Publish, Publish, Email!Exhaust, Exhaust
<1>8. Email!QueueStep <=> QueueStep
  BY <1>4, <1>5, <1>6, <1>7 DEF Email!QueueStep, QueueStep
<1> QED BY <1>1, <1>2, <1>3, <1>8

\* The queue moves the job, the handler does the rest.
LEMMA EmailJobStep == [Email!Next]_Email!vars => [JobStep]_jobVars
<1> SUFFICES ASSUME [Email!Next]_Email!vars PROVE [JobStep]_jobVars OBVIOUS
<1> USE EmailSharesJob DEF JobStep
<1>1. CASE UNCHANGED Email!vars BY <1>1 DEF Email!vars
<1>2. ASSUME NEW w \in Workers,
             Email!StartHandler(w) \/ Email!Handle(w) \/ Email!HandlerCrashes(w)
      PROVE  [JobStep]_jobVars
  <2>1. CASE \/ Email!ClaimRefused(w) \/ Email!Claim(w) \/ Email!Send(w)
             \/ Email!RecordSuccess(w) \/ Email!RecordSuccessFails(w) \/ Email!RecordFailure(w)
    BY <2>1 DEF Email!ClaimRefused, Email!Claim, Email!Send, Email!RecordSuccess,
                Email!RecordSuccessFails, Email!RecordFailure
  <2>2. CASE \/ Email!StartHandler(w) \/ Email!HandlerReturns(w)
             \/ Email!HandlerThrows(w) \/ Email!HandlerCrashes(w)
    BY <2>2 DEF Email!StartHandler, Email!HandlerReturns, Email!HandlerThrows,
                Email!HandlerCrashes
  <2> QED BY <1>2, <2>1, <2>2 DEF Email!Handle
<1>3. CASE Email!QueueStep BY <1>3
<1>4. CASE Email!LeaseExpires \/ Email!ReclaimLease \/ Email!CancelDelivery
  BY <1>4 DEF Email!LeaseExpires, Email!ReclaimLease, Email!CancelDelivery
<1> QED BY <1>1, <1>2, <1>3, <1>4 DEF Email!Next

USE DEF Email!Settled, Email!Sending, Email!deliveryVars, Email!handlerVars, Email!Goto,
        Email!UseClaim

LEMMA EmailInitTyped == Email!Init => Email!TypeOK
<1> SUFFICES ASSUME Email!Init PROVE Email!TypeOK OBVIOUS
<1>1. JobTypeOK BY JobInitOK, EmailSharesJob DEF Email!Init
<1> QED BY <1>1, EmailSharesJob DEF Email!Init, Email!TypeOK

LEMMA EmailStepTyped == Email!TypeOK /\ [Email!Next]_Email!vars => Email!TypeOK'
<1> SUFFICES ASSUME Email!TypeOK, [Email!Next]_Email!vars PROVE Email!TypeOK' OBVIOUS
<1> DEFINE DeliveryOK ==
      /\ status \in {"PENDING", "SENDING", "CANCELLED"} \cup Email!Settled
      /\ leased \in BOOLEAN /\ (leased => status = "SENDING")
      /\ step \in [Workers -> {"idle", "claim", "return", "throw"} \cup Email!Sending]
      /\ holder \in Workers \cup {NoWorker} /\ overrun \in BOOLEAN
<1>1. JobTypeOK'
  BY JobStepOK, EmailJobStep, EmailSharesJob DEF Email!TypeOK
<1> SUFFICES DeliveryOK'
  <2>1. Email!JobTypeOK' <=> JobTypeOK'
    BY DEF Email!JobTypeOK, JobTypeOK, Email!Job, Job, Email!JobStatus, JobStatus, Email!Runs, Runs
  <2> QED BY <1>1, <2>1 DEF Email!TypeOK
<1>2. DeliveryOK BY DEF Email!TypeOK
<1>3. CASE UNCHANGED <<Email!deliveryVars, Email!handlerVars, overrun>> BY <1>2, <1>3
<1>4. ASSUME NEW w \in Workers, Email!StartHandler(w) PROVE DeliveryOK'
  BY <1>2, <1>4 DEF Email!StartHandler
<1>5. ASSUME NEW w \in Workers,
             Email!ClaimRefused(w) \/ Email!RecordSuccessFails(w) \/ Email!Send(w)
      PROVE  DeliveryOK'
  BY <1>2, <1>5 DEF Email!ClaimRefused, Email!RecordSuccessFails, Email!Send
<1>6. ASSUME NEW w \in Workers, Email!Claim(w) PROVE DeliveryOK'
  BY <1>2, <1>6 DEF Email!Claim
<1>7. ASSUME NEW w \in Workers, Email!RecordSuccess(w) \/ Email!RecordFailure(w)
      PROVE  DeliveryOK'
  <2>1. /\ \/ UNCHANGED Email!deliveryVars
           \/ \E o \in {"PENDING"} \cup Email!Settled : Email!Record(w, o)
        /\ Email!UseClaim(w) /\ UNCHANGED overrun
        /\ \E s \in {"return", "throw"} : step' = [step EXCEPT ![w] = s]
    BY <1>7 DEF Email!RecordSuccess, Email!RecordFailure
  <2>2. \/ UNCHANGED Email!deliveryVars
        \/ /\ status' \in {"PENDING"} \cup Email!Settled
           /\ leased' = FALSE
    BY <2>1 DEF Email!Record
  <2>3. /\ step' \in [Workers -> {"idle", "claim", "return", "throw"} \cup Email!Sending]
        /\ holder' \in Workers \cup {NoWorker} /\ overrun' \in BOOLEAN
    BY <1>2, <2>1
  <2>4. /\ status' \in {"PENDING", "SENDING", "CANCELLED"} \cup Email!Settled
        /\ leased' \in BOOLEAN /\ (leased' => status' = "SENDING")
    <3>1. CASE UNCHANGED Email!deliveryVars BY <1>2, <3>1
    <3>2. CASE /\ status' \in {"PENDING"} \cup Email!Settled
               /\ leased' = FALSE
      BY <1>2, <3>2
    <3> QED BY <2>2, <3>1, <3>2
  <2> QED BY <2>3, <2>4
<1>8. ASSUME NEW w \in Workers,
             Email!HandlerReturns(w) \/ Email!HandlerThrows(w) \/ Email!HandlerCrashes(w)
      PROVE  DeliveryOK'
  BY <1>2, <1>8
     DEF Email!HandlerReturns, Email!HandlerThrows, Email!HandlerCrashes, Email!Leave
<1>9. CASE Email!LeaseExpires \/ Email!ReclaimLease \/ Email!CancelDelivery
  <2>1. UNCHANGED Email!handlerVars /\ overrun' \in BOOLEAN
    BY <1>2, <1>9
       DEF Email!LeaseExpires, Email!ReclaimLease, Email!CancelDelivery, Email!BeingSent
  <2>2. CASE Email!LeaseExpires BY <1>2, <2>1, <2>2 DEF Email!LeaseExpires
  <2>3. CASE Email!ReclaimLease BY <1>2, <2>1, <2>3 DEF Email!ReclaimLease
  <2>4. CASE Email!CancelDelivery BY <1>2, <2>1, <2>4 DEF Email!CancelDelivery
  <2> QED BY <1>9, <2>2, <2>3, <2>4
<1> QED
  BY <1>3, <1>4, <1>5, <1>6, <1>7, <1>8, <1>9 DEF Email!Next, Email!Handle, Email!vars

\* Rows, jobs and handlers keep their types.
THEOREM EmailTypeCorrect == Email!Spec => []Email!TypeOK
BY EmailInitTyped, EmailStepTyped, PTL DEF Email!Spec

LEMMA EmailSettledStep ==
    ASSUME [Email!Next]_Email!vars, status \in Email!Settled
    PROVE  status' = status
<1>1. CASE UNCHANGED Email!vars BY <1>1 DEF Email!vars
<1>2. ASSUME NEW w \in Workers,
             Email!StartHandler(w) \/ Email!Handle(w) \/ Email!HandlerCrashes(w)
      PROVE  status' = status
  <2>1. CASE \/ Email!StartHandler(w) \/ Email!ClaimRefused(w) \/ Email!Claim(w)
             \/ Email!Send(w) \/ Email!RecordSuccessFails(w)
    BY <2>1
       DEF Email!StartHandler, Email!ClaimRefused, Email!Claim, Email!Send,
           Email!RecordSuccessFails
  <2>2. CASE Email!RecordSuccess(w) \/ Email!RecordFailure(w)
    BY <2>2 DEF Email!RecordSuccess, Email!RecordFailure, Email!Record
  <2>3. CASE Email!HandlerReturns(w) \/ Email!HandlerThrows(w) \/ Email!HandlerCrashes(w)
    BY <2>3 DEF Email!HandlerReturns, Email!HandlerThrows, Email!HandlerCrashes, Email!Leave
  <2> QED BY <1>2, <2>1, <2>2, <2>3 DEF Email!Handle
<1>3. CASE Email!LeaseExpires \/ Email!ReclaimLease \/ Email!CancelDelivery
  BY <1>3 DEF Email!LeaseExpires, Email!ReclaimLease, Email!CancelDelivery
<1> QED BY <1>1, <1>2, <1>3 DEF Email!Next

\* No late worker, redelivery, recovered lease or cancellation changes a recorded
\* outcome.
THEOREM EmailOutcomeStays == Email!Spec => Email!SettledStays
<1>1. [Email!Next]_Email!vars => [(status \in Email!Settled) => (status' = status)]_Email!vars
  BY EmailSettledStep
<1> QED BY <1>1, PTL DEF Email!Spec, Email!SettledStays

\* Until a claim is taken from a worker that is still sending, by its lease or by an
\* account deletion, a sending worker holds the live lease under the number of its
\* claim.
SendersHoldTheLease ==
    ~overrun => \A w \in Workers :
        step[w] \in Email!Sending => status = "SENDING" /\ leased /\ holder = w

\* A handler returns only when the delivery is settled.
EmailReturnsSettled ==
    ~overrun => \A w \in Workers : step[w] = "return" => status \in Email!Settled

EmailInv ==
    /\ SendersHoldTheLease
    /\ Email!OneSender
    /\ EmailReturnsSettled
    /\ Email!ProcessedMeansSettled

LEMMA EmailInitInv == Email!Init => EmailInv
<1>1. Email!Init => Email!TypeOK BY EmailInitTyped
<1> QED
  BY <1>1
     DEF Email!Init, Email!JobInit, EmailInv, SendersHoldTheLease, Email!OneSender,
         EmailReturnsSettled, Email!ProcessedMeansSettled

\* A claim that is taken from nobody is taken while nobody sends.
LEMMA NobodySends ==
    ASSUME SendersHoldTheLease, ~overrun, ~Email!BeingSent
    PROVE  \A w \in Workers : step[w] \notin Email!Sending
BY HandledJobAssumption DEF SendersHoldTheLease, Email!BeingSent, HandledJobAssumption

\* Once taken, that remains so.
LEMMA EmailOverrunStays == [Email!Next]_Email!vars /\ overrun => overrun'
<1> SUFFICES ASSUME [Email!Next]_Email!vars, overrun PROVE overrun' OBVIOUS
<1>1. CASE UNCHANGED Email!vars BY <1>1 DEF Email!vars
<1>2. ASSUME NEW w \in Workers,
             Email!StartHandler(w) \/ Email!Handle(w) \/ Email!HandlerCrashes(w)
      PROVE  overrun'
  <2>1. CASE \/ Email!StartHandler(w) \/ Email!ClaimRefused(w) \/ Email!Claim(w)
             \/ Email!Send(w) \/ Email!RecordSuccessFails(w)
    BY <2>1
       DEF Email!StartHandler, Email!ClaimRefused, Email!Claim, Email!Send,
           Email!RecordSuccessFails
  <2>2. CASE Email!RecordSuccess(w) \/ Email!RecordFailure(w)
    BY <2>2 DEF Email!RecordSuccess, Email!RecordFailure
  <2>3. CASE Email!HandlerReturns(w) \/ Email!HandlerThrows(w) \/ Email!HandlerCrashes(w)
    BY <2>3 DEF Email!HandlerReturns, Email!HandlerThrows, Email!HandlerCrashes, Email!Leave
  <2> QED BY <1>2, <2>1, <2>2, <2>3 DEF Email!Handle
<1>3. CASE Email!LeaseExpires \/ Email!ReclaimLease \/ Email!CancelDelivery
  BY <1>3 DEF Email!LeaseExpires, Email!ReclaimLease, Email!CancelDelivery
<1> QED BY <1>1, <1>2, <1>3 DEF Email!Next

LEMMA EmailStepInv ==
    ASSUME Email!TypeOK, EmailInv, [Email!Next]_Email!vars
    PROVE  EmailInv'
<1> USE DEF EmailInv, SendersHoldTheLease, Email!OneSender, EmailReturnsSettled,
           Email!ProcessedMeansSettled
<1>0. Email!TypeOK' /\ Email!TypeOK BY EmailStepTyped
<1>1. CASE UNCHANGED Email!vars BY <1>1 DEF Email!vars, EmailInv, Email!TypeOK, JobTypeOK
<1>13. CASE overrun BY <1>0, <1>13, EmailOverrunStays DEF EmailInv
<1> SUFFICES ASSUME Email!Next, ~overrun
             PROVE  EmailInv'
  BY <1>0, <1>1, <1>13 DEF EmailInv
<1>2. ASSUME NEW w \in Workers, Email!StartHandler(w)
      PROVE  EmailInv'
  BY <1>2, <1>0 DEF Email!StartHandler, Email!TakeJob, Email!TypeOK
<1>3. ASSUME NEW w \in Workers, Email!ClaimRefused(w)
      PROVE  EmailInv'
  BY <1>3, <1>0 DEF Email!ClaimRefused, Email!TypeOK
<1>4. ASSUME NEW w \in Workers, Email!Claim(w)
      PROVE  EmailInv'
  <2>1. \A v \in Workers : step[v] \notin Email!Sending BY <1>4 DEF Email!Claim
  <2>2. \A v \in Workers : step[v] # "return" BY <1>4 DEF Email!Claim
  <2>3. outbox # "PROCESSED" BY <1>4 DEF Email!Claim
  <2>4. /\ step'[w] = "send" /\ holder' = w /\ status' = "SENDING" /\ leased'
        /\ \A v \in Workers : v # w => step'[v] = step[v]
    BY <1>4, <1>0 DEF Email!Claim, Email!TypeOK
  <2>5. outbox' = outbox BY <1>4 DEF Email!Claim
  <2> QED BY <2>1, <2>2, <2>3, <2>4, <2>5
<1>5. ASSUME NEW w \in Workers, Email!Send(w) \/ Email!RecordSuccessFails(w)
      PROVE  EmailInv'
  <2>1. /\ step[w] \in Email!Sending /\ step'[w] \in Email!Sending
        /\ \A v \in Workers : v # w => step'[v] = step[v]
        /\ UNCHANGED <<jobVars, Email!deliveryVars, holder>>
    BY <1>5, <1>0 DEF Email!Send, Email!RecordSuccessFails, Email!TypeOK
  <2> QED BY <2>1
<1>6. ASSUME NEW w \in Workers, Email!RecordSuccess(w)
      PROVE  EmailInv'
  <2>1. \A v \in Workers \ {w} : step[v] \notin Email!Sending BY <1>6 DEF Email!RecordSuccess
  <2>2. status' \in Email!Settled BY <1>6 DEF Email!RecordSuccess, Email!Record
  <2>3. step'[w] = "return" /\ \A v \in Workers \ {w} : step'[v] = step[v]
    BY <1>6, <1>0 DEF Email!RecordSuccess, Email!TypeOK
  <2> QED BY <2>1, <2>2, <2>3
<1>7. ASSUME NEW w \in Workers, Email!RecordFailure(w)
      PROVE  EmailInv'
  <2>1. \A v \in Workers \ {w} : step[v] \notin Email!Sending BY <1>7 DEF Email!RecordFailure
  <2>2. step'[w] = "throw" /\ \A v \in Workers \ {w} : step'[v] = step[v]
    BY <1>7, <1>0 DEF Email!RecordFailure, Email!TypeOK
  <2>3. status = "SENDING" BY <1>7 DEF Email!RecordFailure
  <2>4. outbox' = outbox BY <1>7 DEF Email!RecordFailure
  <2> QED BY <2>1, <2>2, <2>3, <2>4
<1>8. ASSUME NEW w \in Workers,
             \/ Email!HandlerReturns(w) \/ Email!HandlerThrows(w) \/ Email!HandlerCrashes(w)
      PROVE  EmailInv'
  <2>1. /\ step'[w] = "idle"
        /\ \A v \in Workers \ {w} : step'[v] = step[v] /\ (holder = v => holder' = v)
        /\ UNCHANGED Email!deliveryVars
    BY <1>8, <1>0
       DEF Email!HandlerReturns, Email!HandlerThrows, Email!HandlerCrashes, Email!Leave,
           Email!TypeOK
  <2>2. outbox' = "PROCESSED" => status \in Email!Settled
    <3>1. CASE Email!HandlerReturns(w) BY <3>1 DEF Email!HandlerReturns
    <3>2. CASE Email!HandlerThrows(w) \/ Email!HandlerCrashes(w)
      <4>1. Throw(w) \/ Crash(w)
        BY <3>2, EmailSharesJob DEF Email!HandlerThrows, Email!HandlerCrashes
      <4> QED BY <4>1, OnlyAcknowledged
    <3> QED BY <1>8, <3>1, <3>2
  <2> QED BY <2>1, <2>2
<1>9. ASSUME Email!QueueStep, UNCHANGED <<Email!deliveryVars, Email!handlerVars, overrun>>
      PROVE  EmailInv'
  <2>1. outbox' = "PROCESSED" => outbox = "PROCESSED"
    BY <1>9, EmailSharesJob, OnlyAcknowledged
  <2> QED BY <1>9, <2>1
<1>10. CASE Email!LeaseExpires
  <2>1. \A w \in Workers : ~overrun' => step[w] \notin Email!Sending
    BY <1>10, NobodySends DEF Email!LeaseExpires
  <2> QED BY <1>10, <2>1 DEF Email!LeaseExpires
<1>11. CASE Email!ReclaimLease
  <2>1. ~overrun => \A w \in Workers : step[w] \notin Email!Sending
    BY <1>11 DEF Email!ReclaimLease
  <2> QED BY <1>11, <2>1 DEF Email!ReclaimLease
<1>12. CASE Email!CancelDelivery
  <2>1. \A w \in Workers : ~overrun' => step[w] \notin Email!Sending
    BY <1>12, NobodySends DEF Email!CancelDelivery
  <2> QED BY <1>12, <2>1 DEF Email!CancelDelivery
<1> QED
  BY <1>2, <1>3, <1>4, <1>5, <1>6, <1>7, <1>8, <1>9, <1>10, <1>11, <1>12
     DEF Email!Next, Email!Handle

\* Until a claim is taken from a worker that is still sending, no two workers send the
\* message at once.
THEOREM EmailOneSender == Email!Spec => []Email!OneSender
<1>1. EmailInv => Email!OneSender BY DEF EmailInv
<1>2. Email!TypeOK /\ EmailInv /\ [Email!Next]_Email!vars => (Email!TypeOK /\ EmailInv)'
  BY EmailStepTyped, EmailStepInv
<1> QED BY EmailInitTyped, EmailInitInv, <1>1, <1>2, PTL DEF Email!Spec

\* With the same exception an acknowledged outbox row has a settled delivery.
THEOREM EmailAcknowledgedSettled == Email!Spec => []Email!ProcessedMeansSettled
<1>1. EmailInv => Email!ProcessedMeansSettled BY DEF EmailInv
<1>2. Email!TypeOK /\ EmailInv /\ [Email!Next]_Email!vars => (Email!TypeOK /\ EmailInv)'
  BY EmailStepTyped, EmailStepInv
<1> QED BY EmailInitTyped, EmailInitInv, <1>1, <1>2, PTL DEF Email!Spec

-----------------------------------------------------------------------------
(* Exports.                                                                *)

LEMMA ExportSharesJob ==
    /\ Export!JobInit <=> JobInit
    /\ Export!JobTypeOK <=> JobTypeOK
    /\ Export!QueueStep <=> QueueStep
    /\ \A w \in Workers : /\ Export!TakeJob(w) <=> TakeJob(w)
                          /\ Export!Acknowledge(w) <=> Acknowledge(w)
                          /\ Export!Throw(w) <=> Throw(w)
                          /\ Export!Crash(w) <=> Crash(w)
<1> USE DEF Export!Owns, Owns, Export!Handling, Handling, Export!Final, Final,
            Export!RecordRowFailure, RecordRowFailure, Export!NoJob, NoJob,
            Export!NewJob, NewJob, Export!Finished, Finished
<1>1. Export!JobInit <=> JobInit BY DEF Export!JobInit, JobInit
<1>2. Export!JobTypeOK <=> JobTypeOK
  BY DEF Export!JobTypeOK, JobTypeOK, Export!Job, Job, Export!JobStatus, JobStatus, Export!Runs, Runs
<1>3. ASSUME NEW w \in Workers
      PROVE  /\ Export!TakeJob(w) <=> TakeJob(w)
             /\ Export!Acknowledge(w) <=> Acknowledge(w)
             /\ Export!Throw(w) <=> Throw(w)
             /\ Export!Crash(w) <=> Crash(w)
  BY DEF Export!TakeJob, TakeJob, Export!Taken, Taken, Export!Acknowledge, Acknowledge,
         Export!Throw, Throw, Export!Crash, Crash
<1>4. ASSUME NEW w \in Workers
      PROVE  /\ Export!TakeUnhandled(w) <=> TakeUnhandled(w)
             /\ Export!FailUnhandled(w) <=> FailUnhandled(w)
             /\ Export!FinishJob(w) <=> FinishJob(w)
  BY DEF Export!TakeUnhandled, TakeUnhandled, Export!Taken, Taken, Export!FailUnhandled, FailUnhandled,
         Export!FinishJob, FinishJob, Export!AfterSuccess, AfterSuccess, Export!AfterFailure, AfterFailure
<1>5. Export!Stall <=> Stall BY DEF Export!Stall, Stall, Export!Stalled, Stalled
<1>6. Export!BackoffOver <=> BackoffOver
  BY DEF Export!BackoffOver, BackoffOver, Export!Requeued, Requeued
<1>7. /\ Export!ForgetJob <=> ForgetJob
      /\ Export!Publish <=> Publish
      /\ Export!Exhaust <=> Exhaust
  BY DEF Export!ForgetJob, ForgetJob, Export!Publish, Publish, Export!Exhaust, Exhaust
<1>8. Export!QueueStep <=> QueueStep
  BY <1>4, <1>5, <1>6, <1>7 DEF Export!QueueStep, QueueStep
<1> QED BY <1>1, <1>2, <1>3, <1>8

\* The steps of a handler that touch neither the job nor its row.
ExportWork(w) ==
    \/ Export!CheckPending(w) \/ Export!MarkProcessing(w) \/ Export!CheckFails(w)
    \/ Export!Generate(w) \/ Export!Upload(w) \/ Export!Complete(w) \/ Export!Fail(w)

ExportEnd(w) ==
    Export!HandlerReturns(w) \/ Export!HandlerThrows(w) \/ Export!HandlerCrashes(w)

Removal == Export!BeginRemoval \/ Export!DeleteFile \/ Export!DeleteRow

LEMMA ExportJobStep == [Export!Next]_Export!vars => [JobStep]_jobVars
<1> SUFFICES ASSUME [Export!Next]_Export!vars PROVE [JobStep]_jobVars OBVIOUS
<1> USE ExportSharesJob DEF JobStep
<1>1. CASE UNCHANGED Export!vars BY <1>1 DEF Export!vars
<1>2. ASSUME NEW w \in Workers, ExportWork(w) PROVE [JobStep]_jobVars
  BY <1>2 DEF ExportWork, Export!CheckPending, Export!MarkProcessing, Export!CheckFails,
              Export!Generate, Export!Upload, Export!Complete, Export!Fail
<1>3. ASSUME NEW w \in Workers, Export!StartHandler(w) \/ ExportEnd(w) PROVE [JobStep]_jobVars
  BY <1>3 DEF Export!StartHandler, ExportEnd, Export!HandlerReturns, Export!HandlerThrows,
              Export!HandlerCrashes
<1>4. CASE Export!QueueStep BY <1>4
<1>5. CASE Removal
  BY <1>5 DEF Removal, Export!BeginRemoval, Export!DeleteFile, Export!DeleteRow
<1> QED
  BY <1>1, <1>2, <1>3, <1>4, <1>5
     DEF Export!Next, Export!Handle, ExportWork, ExportEnd, Removal

USE DEF Export!exportVars, Export!Goto, Export!Working

LEMMA ExportInitTyped == Export!Init => Export!TypeOK
<1> SUFFICES ASSUME Export!Init PROVE Export!TypeOK OBVIOUS
<1>1. JobTypeOK BY JobInitOK, ExportSharesJob DEF Export!Init
<1> QED BY <1>1, ExportSharesJob DEF Export!Init, Export!TypeOK

LEMMA ExportStepTyped == Export!TypeOK /\ [Export!Next]_Export!vars => Export!TypeOK'
<1> SUFFICES ASSUME Export!TypeOK, [Export!Next]_Export!vars PROVE Export!TypeOK' OBVIOUS
<1> DEFINE StepOK ==
      step \in [Workers -> {"idle", "check", "skip", "return", "throw"} \cup Export!Working]
<1> DEFINE ExportOK ==
      /\ status \in {"PENDING", "PROCESSING", "COMPLETED", "FAILED", "NONE"}
      /\ hasKey \in BOOLEAN /\ file \in BOOLEAN
      /\ cleaning \in {"idle", "remove", "sweep", "row"}
      /\ overrun \in BOOLEAN /\ unlinked \in BOOLEAN
<1>1. JobTypeOK'
  BY JobStepOK, ExportJobStep, ExportSharesJob DEF Export!TypeOK
<1> SUFFICES ExportOK' /\ StepOK'
  <2>1. Export!JobTypeOK' <=> JobTypeOK'
    BY DEF Export!JobTypeOK, JobTypeOK, Export!Job, Job, Export!JobStatus, JobStatus, Export!Runs, Runs
  <2> QED BY <1>1, <2>1 DEF Export!TypeOK
<1>2. ExportOK /\ StepOK BY DEF Export!TypeOK
<1>3. CASE UNCHANGED <<Export!exportVars, cleaning, step, overrun, unlinked>> BY <1>2, <1>3
<1>4. ASSUME NEW w \in Workers,
             \/ Export!StartHandler(w) \/ ExportEnd(w) PROVE ExportOK' /\ StepOK'
  BY <1>2, <1>4
     DEF Export!StartHandler, ExportEnd, Export!HandlerReturns, Export!HandlerThrows,
                    Export!HandlerCrashes, Export!Leave
<1>5. ASSUME NEW w \in Workers, ExportWork(w) PROVE ExportOK' /\ StepOK'
  <2>1. \E s \in {"check", "skip", "return", "throw"} \cup Export!Working :
          step' = [step EXCEPT ![w] = s]
    BY <1>5 DEF ExportWork, Export!CheckPending, Export!MarkProcessing, Export!CheckFails,
                Export!Generate, Export!Upload, Export!Complete, Export!Fail
  <2>2. StepOK' BY <1>2, <2>1
  <2>3. CASE \/ Export!CheckPending(w) \/ Export!MarkProcessing(w) \/ Export!CheckFails(w)
             \/ Export!Generate(w)
    BY <1>2, <2>2, <2>3
       DEF Export!CheckPending, Export!MarkProcessing, Export!CheckFails, Export!Generate
  <2>4. CASE Export!Upload(w) \/ Export!Complete(w) \/ Export!Fail(w)
    BY <1>2, <2>2, <2>4 DEF Export!Upload, Export!Complete, Export!Fail
  <2> QED BY <1>5, <2>3, <2>4 DEF ExportWork
<1>6. CASE Removal
  BY <1>2, <1>6 DEF Removal, Export!BeginRemoval, Export!DeleteFile, Export!DeleteRow
<1> QED
  BY <1>3, <1>4, <1>5, <1>6
     DEF Export!Next, Export!Handle, Export!vars, ExportWork, ExportEnd, Removal

\* Rows, jobs, removals and handlers keep their types.
THEOREM ExportTypeCorrect == Export!Spec => []Export!TypeOK
BY ExportInitTyped, ExportStepTyped, PTL DEF Export!Spec

\* A run that is about to complete the export has uploaded its file, which only a
\* removal takes away.
UploadedHasFile == ~unlinked => \A w \in Workers : step[w] = "complete" => file

Generating == {"generate", "upload", "complete", "fail"}

\* Unless two runs have generated the export at the same time, a run that is about to
\* mark it finds it as it has read it, and at most one run generates it.
OneGenerator ==
    ~overrun =>
        /\ \A w \in Workers : step[w] = "mark" => status \in {"PENDING", "NONE"}
        /\ \A w \in Workers : step[w] \in Generating => status \in {"PROCESSING", "NONE"}
        /\ \A v, w \in Workers : (step[v] \in Generating /\ step[w] \in Generating) => v = w

ExportInv == Export!CompletedHasFile /\ UploadedHasFile /\ OneGenerator

LEMMA ExportInitInv == Export!Init => ExportInv
BY
   DEF Export!Init, ExportInv, Export!CompletedHasFile, UploadedHasFile, OneGenerator,
       Generating

LEMMA ExportStepInv ==
    ASSUME Export!TypeOK, ExportInv, [Export!Next]_Export!vars
    PROVE  ExportInv'
<1> USE DEF ExportInv, Export!CompletedHasFile, UploadedHasFile, OneGenerator, Generating
<1>0. Export!TypeOK OBVIOUS
<1>1. CASE UNCHANGED <<Export!exportVars, cleaning, step, overrun, unlinked>> BY <1>1
<1>2. ASSUME NEW w \in Workers, Export!StartHandler(w) \/ ExportEnd(w) PROVE ExportInv'
  <2>1. /\ UNCHANGED <<Export!exportVars, overrun, unlinked>>
        /\ step'[w] \in {"check", "idle"}
        /\ \A v \in Workers \ {w} : step'[v] = step[v]
    BY <1>0, <1>2
       DEF Export!StartHandler, ExportEnd, Export!HandlerReturns, Export!HandlerThrows,
           Export!HandlerCrashes, Export!Leave, Export!TypeOK
  <2> QED BY <2>1
<1>3. ASSUME NEW w \in Workers, ExportWork(w) PROVE ExportInv'
  <2>0. \A s : step' = [step EXCEPT ![w] = s] =>
          step'[w] = s /\ \A v \in Workers \ {w} : step'[v] = step[v]
    BY <1>0 DEF Export!TypeOK
  <2>1. CASE Export!CheckPending(w) BY <2>0, <2>1 DEF Export!CheckPending, Export!IsDue
  <2>2. CASE Export!MarkProcessing(w) BY <2>0, <2>2 DEF Export!MarkProcessing
  <2>3. CASE Export!CheckFails(w) BY <2>0, <2>3 DEF Export!CheckFails
  <2>4. CASE Export!Generate(w) BY <2>0, <2>4 DEF Export!Generate
  <2>5. CASE Export!Upload(w) BY <2>0, <2>5, <1>0 DEF Export!Upload, Export!TypeOK
  <2>6. CASE Export!Complete(w) BY <2>0, <2>6 DEF Export!Complete
  <2>7. CASE Export!Fail(w) BY <2>0, <2>7 DEF Export!Fail
  <2> QED BY <1>3, <2>1, <2>2, <2>3, <2>4, <2>5, <2>6, <2>7 DEF ExportWork
<1>4. CASE Removal
  BY <1>4 DEF Removal, Export!BeginRemoval, Export!DeleteFile, Export!DeleteRow
<1> QED
  BY <1>1, <1>2, <1>3, <1>4
     DEF Export!Next, Export!Handle, Export!vars, ExportWork, ExportEnd, Removal

\* A completed export has its file in the store until a removal deletes it.
THEOREM ExportHasFile == Export!Spec => []Export!CompletedHasFile
<1>1. ExportInv => Export!CompletedHasFile BY DEF ExportInv
<1>2. Export!TypeOK /\ ExportInv /\ [Export!Next]_Export!vars => (Export!TypeOK /\ ExportInv)'
  BY ExportStepTyped, ExportStepInv
<1> QED BY ExportInitTyped, ExportInitInv, <1>1, <1>2, PTL DEF Export!Spec

\* Unless two runs have generated it at the same time, an export keeps its outcome
\* until it is removed.
LEMMA ExportOutcomeStep ==
    ASSUME ExportInv, [Export!Next]_Export!vars, status \in {"COMPLETED", "FAILED"}, ~overrun
    PROVE  status' \in {status, "NONE"}
<1> USE DEF ExportInv, OneGenerator, Generating
<1>1. CASE UNCHANGED <<Export!exportVars, cleaning, step, overrun, unlinked>> BY <1>1
<1>2. ASSUME NEW w \in Workers, Export!StartHandler(w) \/ ExportEnd(w)
      PROVE  status' = status
  BY <1>2 DEF Export!StartHandler, ExportEnd, Export!HandlerReturns, Export!HandlerThrows,
              Export!HandlerCrashes, Export!Leave
<1>3. ASSUME NEW w \in Workers, ExportWork(w) PROVE status' = status
  BY <1>3 DEF ExportWork, Export!CheckPending, Export!MarkProcessing, Export!CheckFails,
              Export!Generate, Export!Upload, Export!Complete, Export!Fail
<1>4. CASE Removal
  BY <1>4 DEF Removal, Export!BeginRemoval, Export!DeleteFile, Export!DeleteRow
<1> QED
  BY <1>1, <1>2, <1>3, <1>4
     DEF Export!Next, Export!Handle, Export!vars, ExportWork, ExportEnd, Removal

-----------------------------------------------------------------------------
(* Integration deliveries.                                                 *)

LEMMA IntegrationSharesJob ==
    /\ Integration!JobInit <=> JobInit
    /\ Integration!JobTypeOK <=> JobTypeOK
    /\ Integration!QueueStep <=> QueueStep
    /\ \A w \in Workers : /\ Integration!TakeJob(w) <=> TakeJob(w)
                          /\ Integration!Acknowledge(w) <=> Acknowledge(w)
                          /\ Integration!Throw(w) <=> Throw(w)
                          /\ Integration!Crash(w) <=> Crash(w)
<1> USE DEF Integration!Owns, Owns, Integration!Handling, Handling, Integration!Final, Final,
            Integration!RecordRowFailure, RecordRowFailure, Integration!NoJob, NoJob,
            Integration!NewJob, NewJob, Integration!Finished, Finished
<1>1. Integration!JobInit <=> JobInit BY DEF Integration!JobInit, JobInit
<1>2. Integration!JobTypeOK <=> JobTypeOK
  BY DEF Integration!JobTypeOK, JobTypeOK, Integration!Job, Job, Integration!JobStatus, JobStatus, Integration!Runs, Runs
<1>3. ASSUME NEW w \in Workers
      PROVE  /\ Integration!TakeJob(w) <=> TakeJob(w)
             /\ Integration!Acknowledge(w) <=> Acknowledge(w)
             /\ Integration!Throw(w) <=> Throw(w)
             /\ Integration!Crash(w) <=> Crash(w)
  BY DEF Integration!TakeJob, TakeJob, Integration!Taken, Taken, Integration!Acknowledge, Acknowledge,
         Integration!Throw, Throw, Integration!Crash, Crash
<1>4. ASSUME NEW w \in Workers
      PROVE  /\ Integration!TakeUnhandled(w) <=> TakeUnhandled(w)
             /\ Integration!FailUnhandled(w) <=> FailUnhandled(w)
             /\ Integration!FinishJob(w) <=> FinishJob(w)
  BY DEF Integration!TakeUnhandled, TakeUnhandled, Integration!Taken, Taken, Integration!FailUnhandled, FailUnhandled,
         Integration!FinishJob, FinishJob, Integration!AfterSuccess, AfterSuccess, Integration!AfterFailure, AfterFailure
<1>5. Integration!Stall <=> Stall BY DEF Integration!Stall, Stall, Integration!Stalled, Stalled
<1>6. Integration!BackoffOver <=> BackoffOver
  BY DEF Integration!BackoffOver, BackoffOver, Integration!Requeued, Requeued
<1>7. /\ Integration!ForgetJob <=> ForgetJob
      /\ Integration!Publish <=> Publish
      /\ Integration!Exhaust <=> Exhaust
  BY DEF Integration!ForgetJob, ForgetJob, Integration!Publish, Publish, Integration!Exhaust, Exhaust
<1>8. Integration!QueueStep <=> QueueStep
  BY <1>4, <1>5, <1>6, <1>7 DEF Integration!QueueStep, QueueStep
<1> QED BY <1>1, <1>2, <1>3, <1>8

USE DEF Integration!deliveryVars, Integration!Goto, Integration!Settled, Integration!Sending,
        Integration!Refused

\* The steps of a handler that touch neither the job nor its row.
IntegrationWork(w) ==
    \/ Integration!ClaimRefused(w) \/ Integration!Claim(w) \/ Integration!Send(w)
    \/ Integration!Record(w) \/ Integration!RecordFails(w)

IntegrationEnd(w) ==
    \/ Integration!HandlerReturns(w) \/ Integration!HandlerThrows(w)
    \/ Integration!HandlerCrashes(w)

LEMMA IntegrationJobStep == [Integration!Next]_Integration!vars => [JobStep]_jobVars
<1> SUFFICES ASSUME [Integration!Next]_Integration!vars PROVE [JobStep]_jobVars OBVIOUS
<1> USE IntegrationSharesJob DEF JobStep
<1>1. CASE UNCHANGED Integration!vars BY <1>1 DEF Integration!vars
<1>2. ASSUME NEW w \in Workers, IntegrationWork(w) PROVE [JobStep]_jobVars
  BY <1>2 DEF IntegrationWork, Integration!ClaimRefused, Integration!Claim, Integration!Send,
              Integration!Record, Integration!RecordFails
<1>3. ASSUME NEW w \in Workers, Integration!StartHandler(w) \/ IntegrationEnd(w) PROVE [JobStep]_jobVars
  BY <1>3 DEF Integration!StartHandler, IntegrationEnd, Integration!HandlerReturns,
              Integration!HandlerThrows, Integration!HandlerCrashes
<1>4. CASE Integration!QueueStep BY <1>4
<1>5. CASE Integration!SwitchIntegration BY <1>5 DEF Integration!SwitchIntegration
<1> QED
  BY <1>1, <1>2, <1>3, <1>4, <1>5
     DEF Integration!Next, Integration!Handle, IntegrationWork, IntegrationEnd

LEMMA IntegrationInitTyped == Integration!Init => Integration!TypeOK
<1> SUFFICES ASSUME Integration!Init PROVE Integration!TypeOK OBVIOUS
<1>1. JobTypeOK BY JobInitOK, IntegrationSharesJob DEF Integration!Init
<1> QED
  BY <1>1, IntegrationSharesJob
     DEF Integration!Init, Integration!TypeOK

LEMMA IntegrationStepTyped ==
    Integration!TypeOK /\ [Integration!Next]_Integration!vars => Integration!TypeOK'
<1> SUFFICES ASSUME Integration!TypeOK, [Integration!Next]_Integration!vars
             PROVE  Integration!TypeOK'
  OBVIOUS
<1> DEFINE PostOK ==
      /\ status \in {"PENDING", "SENDING"} \cup Integration!Settled
      /\ enabled \in BOOLEAN
      /\ step \in [Workers -> {"idle", "claim", "return", "throw"} \cup Integration!Sending]
      /\ overrun \in BOOLEAN
<1>1. JobTypeOK'
  BY JobStepOK, IntegrationJobStep, IntegrationSharesJob
     DEF Integration!TypeOK
<1> SUFFICES PostOK'
  <2>1. Integration!JobTypeOK' <=> JobTypeOK'
    BY DEF Integration!JobTypeOK, JobTypeOK, Integration!Job, Job,
           Integration!JobStatus, JobStatus, Integration!Runs, Runs
  <2> QED BY <1>1, <2>1 DEF Integration!TypeOK
<1>2. PostOK BY DEF Integration!TypeOK
<1>3. CASE UNCHANGED <<Integration!deliveryVars, step, overrun>> BY <1>2, <1>3
<1>4. ASSUME NEW w \in Workers, Integration!StartHandler(w) \/ IntegrationEnd(w) PROVE PostOK'
  BY <1>2, <1>4 DEF Integration!StartHandler, IntegrationEnd, Integration!HandlerReturns,
                    Integration!HandlerThrows, Integration!HandlerCrashes, Integration!Leave
<1>5. ASSUME NEW w \in Workers, IntegrationWork(w) PROVE PostOK'
  <2>1. CASE Integration!ClaimRefused(w) \/ Integration!Send(w) \/ Integration!RecordFails(w)
    BY <1>2, <2>1 DEF Integration!ClaimRefused, Integration!Send, Integration!RecordFails
  <2>2. CASE Integration!Claim(w) BY <1>2, <2>2 DEF Integration!Claim
  <2>3. CASE Integration!Record(w) BY <1>2, <2>3 DEF Integration!Record
  <2> QED BY <1>5, <2>1, <2>2, <2>3 DEF IntegrationWork
<1>6. CASE Integration!SwitchIntegration BY <1>2, <1>6 DEF Integration!SwitchIntegration
<1> QED
  BY <1>3, <1>4, <1>5, <1>6
     DEF Integration!Next, Integration!Handle, Integration!vars, IntegrationWork,
         IntegrationEnd

\* Rows, jobs and handlers keep their types.
THEOREM IntegrationTypeCorrect == Integration!Spec => []Integration!TypeOK
BY IntegrationInitTyped, IntegrationStepTyped, PTL DEF Integration!Spec

\* Until a delivery is claimed while another worker is sending it, the row shows that
\* it is being sent, by one worker, and a handler returns only when it is settled.
OnePoster ==
    ~overrun =>
        /\ \A w \in Workers : step[w] \in Integration!Sending => status = "SENDING"
        /\ \A v, w \in Workers :
             (step[v] \in Integration!Sending /\ step[w] \in Integration!Sending) => v = w
        /\ \A w \in Workers : step[w] = "return" => status \in Integration!Settled

IntegrationInv == OnePoster /\ Integration!ProcessedMeansSettled

LEMMA IntegrationInitInv == Integration!Init => IntegrationInv
BY DEF Integration!Init, Integration!JobInit, IntegrationInv, OnePoster,
       Integration!ProcessedMeansSettled

LEMMA IntegrationStepInv ==
    ASSUME Integration!TypeOK, IntegrationInv, [Integration!Next]_Integration!vars
    PROVE  IntegrationInv'
<1> USE DEF IntegrationInv, OnePoster, Integration!ProcessedMeansSettled
<1>0. Integration!TypeOK OBVIOUS
<1>1. CASE UNCHANGED <<Integration!deliveryVars, step, overrun>> /\ outbox' = outbox BY <1>1
<1>2. ASSUME NEW w \in Workers, Integration!StartHandler(w) \/ IntegrationEnd(w)
      PROVE  IntegrationInv'
  <2>1. /\ UNCHANGED <<Integration!deliveryVars, overrun>>
        /\ step'[w] \in {"claim", "idle"}
        /\ \A v \in Workers \ {w} : step'[v] = step[v]
    BY <1>0, <1>2
       DEF Integration!StartHandler, IntegrationEnd, Integration!HandlerReturns,
           Integration!HandlerThrows, Integration!HandlerCrashes, Integration!Leave,
           Integration!TypeOK
  <2>2. CASE Integration!HandlerReturns(w)
    BY <2>1, <2>2 DEF Integration!HandlerReturns
  <2>3. CASE \/ Integration!StartHandler(w) \/ Integration!HandlerThrows(w)
             \/ Integration!HandlerCrashes(w)
    <3>1. TakeJob(w) \/ Throw(w) \/ Crash(w)
      BY <2>3, IntegrationSharesJob
         DEF Integration!StartHandler, Integration!HandlerThrows, Integration!HandlerCrashes
    <3>2. outbox' = "PROCESSED" => outbox = "PROCESSED" BY <3>1, OnlyAcknowledged
    <3> QED BY <2>1, <3>2
  <2> QED BY <1>2, <2>2, <2>3 DEF IntegrationEnd
<1>3. ASSUME NEW w \in Workers, IntegrationWork(w) PROVE IntegrationInv'
  <2>0. \A s : step' = [step EXCEPT ![w] = s] =>
          step'[w] = s /\ \A v \in Workers \ {w} : step'[v] = step[v]
    BY <1>0 DEF Integration!TypeOK
  <2>1. CASE Integration!ClaimRefused(w) BY <2>0, <2>1 DEF Integration!ClaimRefused
  <2>2. CASE Integration!Claim(w) BY <2>0, <2>2 DEF Integration!Claim
  <2>3. CASE Integration!Send(w) BY <2>0, <2>3 DEF Integration!Send
  <2>4. CASE Integration!Record(w) BY <2>0, <2>4 DEF Integration!Record
  <2>5. CASE Integration!RecordFails(w) BY <2>0, <2>5 DEF Integration!RecordFails
  <2> QED BY <1>3, <2>1, <2>2, <2>3, <2>4, <2>5 DEF IntegrationWork
<1>4. ASSUME Integration!QueueStep, UNCHANGED <<Integration!deliveryVars, step, overrun>>
      PROVE  IntegrationInv'
  <2>1. outbox' = "PROCESSED" => outbox = "PROCESSED"
    BY <1>4, IntegrationSharesJob, OnlyAcknowledged
  <2> QED BY <1>4, <2>1
<1>5. CASE Integration!SwitchIntegration BY <1>5 DEF Integration!SwitchIntegration
<1> QED
  BY <1>1, <1>2, <1>3, <1>4, <1>5
     DEF Integration!Next, Integration!Handle, Integration!vars, IntegrationWork,
         IntegrationEnd

\* Unless a delivery was claimed while another worker was sending it, an acknowledged
\* outbox row has a settled delivery.
THEOREM IntegrationAcknowledgedSettled ==
    Integration!Spec => []Integration!ProcessedMeansSettled
<1>1. IntegrationInv => Integration!ProcessedMeansSettled BY DEF IntegrationInv
<1>2. Integration!TypeOK /\ IntegrationInv /\ [Integration!Next]_Integration!vars
        => (Integration!TypeOK /\ IntegrationInv)'
  BY IntegrationStepTyped, IntegrationStepInv
<1> QED
  BY IntegrationInitTyped, IntegrationInitInv, <1>1, <1>2, PTL DEF Integration!Spec

\* With the same exception, a settled delivery keeps its outcome.
LEMMA IntegrationOutcomeStep ==
    ASSUME IntegrationInv, [Integration!Next]_Integration!vars,
           status \in Integration!Settled, ~overrun
    PROVE  status' = status
<1> USE DEF IntegrationInv, OnePoster
<1>1. CASE UNCHANGED <<Integration!deliveryVars, step, overrun>> BY <1>1
<1>2. ASSUME NEW w \in Workers, Integration!StartHandler(w) \/ IntegrationEnd(w)
      PROVE  status' = status
  BY <1>2 DEF Integration!StartHandler, IntegrationEnd, Integration!HandlerReturns,
              Integration!HandlerThrows, Integration!HandlerCrashes, Integration!Leave
<1>3. ASSUME NEW w \in Workers, IntegrationWork(w) PROVE status' = status
  BY <1>3 DEF IntegrationWork, Integration!ClaimRefused, Integration!Claim, Integration!Send,
              Integration!Record, Integration!RecordFails
<1>4. CASE Integration!SwitchIntegration BY <1>4 DEF Integration!SwitchIntegration
<1> QED
  BY <1>1, <1>2, <1>3, <1>4
     DEF Integration!Next, Integration!Handle, Integration!vars, IntegrationWork,
         IntegrationEnd

-----------------------------------------------------------------------------
(* The router.                                                             *)

LEMMA TypeStays == [Next]_vars => type' = type
BY DEF Next, vars, IsEmail, IsExport, IsIntegration

\* Of an event of its type, what the router does is what the handler does.
LEMMA RoutedStep ==
    ASSUME [Next]_vars
    PROVE  /\ type = "email" => [Email!Next]_Email!vars
           /\ type = "export" => [Export!Next]_Export!vars
           /\ type = "integration" => [Integration!Next]_Integration!vars
<1>1. CASE UNCHANGED vars
  BY <1>1 DEF vars, emailOnly, exportOnly, Email!vars, Export!vars, Integration!vars
<1>2. CASE Next BY <1>2 DEF Next, IsEmail, IsExport, IsIntegration
<1> QED BY <1>1, <1>2

\* An email event is handled as the specification of the email handler says.
THEOREM EmailImplemented == Spec /\ type = "email" => Email!Spec
<1>1. Init => Email!Init BY DEF Init
<1>2. [Next]_vars /\ type = "email" => (type = "email")' /\ [Email!Next]_Email!vars
  BY RoutedStep, TypeStays
<1> QED BY <1>1, <1>2, PTL DEF Spec, Email!Spec

\* A requested export is handled as the specification of the export handler says.
THEOREM ExportImplemented == Spec /\ type = "export" => Export!Spec
<1>1. Init => Export!Init BY DEF Init
<1>2. [Next]_vars /\ type = "export" => (type = "export")' /\ [Export!Next]_Export!vars
  BY RoutedStep, TypeStays
<1> QED BY <1>1, <1>2, PTL DEF Spec, Export!Spec

\* An integration event is handled as the specification of its handler says.
THEOREM IntegrationImplemented == Spec /\ type = "integration" => Integration!Spec
<1>1. Init => Integration!Init BY DEF Init
<1>2. [Next]_vars /\ type = "integration"
        => (type = "integration")' /\ [Integration!Next]_Integration!vars
  BY RoutedStep, TypeStays
<1> QED BY <1>1, <1>2, PTL DEF Spec, Integration!Spec

\* Whatever handles the event, its job and its row move only as HandledJob says; Outbox
\* implements the same specification (HandlersRefinement in Outbox_proofs).
THEOREM RouterUsesTheQueue == Spec => JobSpec
<1>1. Init => JobInit BY EmailSharesJob DEF Init, Email!Init
<1>2. [Next]_vars => [JobStep]_jobVars
  <2>1. CASE UNCHANGED vars BY <2>1 DEF vars
  <2>2. CASE Next
    BY <2>2, RoutedStep, EmailJobStep, ExportJobStep, IntegrationJobStep
       DEF Next, IsEmail, IsExport, IsIntegration
  <2> QED BY <2>1, <2>2
<1> QED BY <1>1, <1>2, PTL DEF Spec, JobSpec

\* The invariants of the three handlers, each for the events of its type.
RouterInv ==
    /\ type = "email" => Email!TypeOK /\ EmailInv
    /\ type = "export" => Export!TypeOK /\ ExportInv
    /\ type = "integration" => Integration!TypeOK /\ IntegrationInv

\* The inductive invariants of the handlers hold behind the router.
LEMMA RouterInvariant == Spec => []RouterInv
<1>1. Init => RouterInv
  BY EmailInitTyped, EmailInitInv, ExportInitTyped, ExportInitInv, IntegrationInitTyped,
     IntegrationInitInv DEF Init, RouterInv
<1>2. RouterInv /\ [Next]_vars => RouterInv'
  BY RoutedStep, TypeStays, EmailStepTyped, EmailStepInv, ExportStepTyped, ExportStepInv,
     IntegrationStepTyped, IntegrationStepInv DEF RouterInv
<1> QED BY <1>1, <1>2, PTL DEF Spec

\* Until a claim is taken from a worker that is still sending, no two workers send an
\* email at once, whatever stalls, crashes and comes back.
THEOREM RoutedOneSender == Spec => []OneSender
<1>1. RouterInv => OneSender BY DEF RouterInv, EmailInv, OneSender
<1> QED BY RouterInvariant, <1>1, PTL

\* Unless two workers were at it at the same time, the outbox row of an email or of an
\* integration is acknowledged only for a delivery that has its outcome.
THEOREM RoutedAcknowledged == Spec => []ProcessedMeansSettled
<1>1. RouterInv => ProcessedMeansSettled
  BY DEF RouterInv, EmailInv, IntegrationInv, ProcessedMeansSettled
<1> QED BY RouterInvariant, <1>1, PTL

\* A completed export has its file in the store until a removal deletes it.
THEOREM RoutedHasFile == Spec => []CompletedHasFile
<1>1. RouterInv => CompletedHasFile BY DEF RouterInv, ExportInv, CompletedHasFile
<1> QED BY RouterInvariant, <1>1, PTL

\* No late worker, redelivery or recovered lease changes a recorded outcome, except
\* that of a post or an export that two workers were at.
THEOREM RoutedOutcomeStays == Spec => SettledStays
<1> DEFINE Stays ==
      /\ (type = "email" /\ status \in Email!Settled) => status' = status
      /\ (type = "integration" /\ status \in Integration!Settled /\ ~overrun)
            => status' = status
      /\ (type = "export" /\ status \in {"COMPLETED", "FAILED"} /\ ~overrun)
            => status' \in {status, "NONE"}
<1>1. RouterInv /\ [Next]_vars => [Stays]_vars
  <2> SUFFICES ASSUME RouterInv, [Next]_vars PROVE Stays OBVIOUS
  <2>1. (type = "email" /\ status \in Email!Settled) => status' = status
    BY RoutedStep, EmailSettledStep
  <2>2. (type = "integration" /\ status \in Integration!Settled /\ ~overrun)
            => status' = status
    BY RoutedStep, IntegrationOutcomeStep DEF RouterInv
  <2>3. (type = "export" /\ status \in {"COMPLETED", "FAILED"} /\ ~overrun)
          => status' \in {status, "NONE"}
    BY RoutedStep, ExportOutcomeStep DEF RouterInv
  <2> QED BY <2>1, <2>2, <2>3
<1> HIDE DEF Stays
<1>2. Spec => [][Stays]_vars BY RouterInvariant, <1>1, PTL DEF Spec
<1> QED BY <1>2 DEF Stays, SettledStays

=============================================================================

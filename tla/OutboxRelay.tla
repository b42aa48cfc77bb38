---------------------------- MODULE OutboxRelay ----------------------------
(***************************************************************************)
(* The loop that drives the outbox dispatcher: drain until a batch comes   *)
(* back partial, then sleep until a notification, a reconnection of the    *)
(* LISTEN session, the next delayed row, or the fallback interval.         *)
(*                                                                         *)
(* JavaScript runs one piece of code at a time: an action is what runs     *)
(* between two awaits, and wake() may run at any await.                    *)
(***************************************************************************)
EXTENDS Integers, FiniteSets

CONSTANTS
    Rows,       \* outbox rows written during the behaviour
    MaxBatch,   \* config.worker.outbox.batchSize
    MaxRounds,  \* MAX_ROUNDS_PER_WAKE
    Delays,     \* rows may be written, or returned, with a future available_at
    NoRow,
    Failures    \* which faults happen: "drain", "probe", "enqueue", "silence"

ASSUME RelayAssumption ==
    /\ IsFiniteSet(Rows)
    /\ MaxBatch \in Nat \ {0}
    /\ MaxRounds \in Nat \ {0}
    /\ Delays \in BOOLEAN
    /\ NoRow \notin Rows
    /\ Failures \subseteq {"drain", "probe", "enqueue", "silence"}

VARIABLES
    row,          \* what has become of each row; "stranded": ENQUEUED and in no batch
    inFlight,     \* notifications sent to the LISTEN session, not yet delivered
    listener,     \* the LISTEN session
    running,      \* the flag of the same name
    loop,         \* where runLoop is
    rounds,       \* full batches drained since the last wake-up
    pendingWake,  \* the flag of the same name
    timer,        \* what an armed sleep waits for
    probed,       \* the delayed row the probe saw and the timer waits for
    stopping,     \* how far stop() has come
    calm          \* history: since the last batch that left nothing behind, no row was
                  \* delayed, nothing has failed and no drain was cut short

relayVars == <<row, inFlight, listener, running, loop, rounds, pendingWake, timer, probed,
               stopping, calm>>

RelayTypeOK ==
    /\ row \in [Rows -> {"absent", "future", "due", "claimed", "published",
                     "stranded"}]
    /\ inFlight \in 0..Cardinality(Rows)
    /\ listener \in {"down", "verifying", "listening", "stopped"}
    /\ running \in BOOLEAN
    /\ loop \in {"starting", "drain", "claim", "publish", "sleep", "probe", "arm",
                 "asleep", "exited"}
    /\ rounds \in 0..MaxRounds
    /\ pendingWake \in BOOLEAN
    /\ timer \in {"none", "delayed", "fallback"}
    /\ probed \in Rows \cup {NoRow}
    /\ stopping \in {"no", "listener", "loop", "stopped"}
    /\ calm \in BOOLEAN

RelayInit ==
    /\ row = [r \in Rows |-> "absent"]
    /\ inFlight = 0
    /\ listener = "down"
    /\ running = TRUE
    /\ loop = "starting"
    /\ rounds = 0
    /\ pendingWake = FALSE
    /\ timer = "none"
    /\ probed = NoRow
    /\ stopping = "no"
    /\ calm = TRUE

-----------------------------------------------------------------------------
(* PostgreSQL: rows, time and notifications.                               *)

\* A business transaction commits a row and its pg_notify.  Nobody keeps a
\* notification for a session that is not listening.
Commit(r) ==
    /\ row[r] = "absent"
    /\ \/ row' = [row EXCEPT ![r] = "due"] /\ UNCHANGED calm
       \/ Delays /\ row' = [row EXCEPT ![r] = "future"] /\ calm' = FALSE
    /\ inFlight' = IF listener \in {"verifying", "listening"} THEN inFlight + 1 ELSE inFlight
    /\ UNCHANGED <<listener, running, loop, rounds, pendingWake, timer, probed, stopping>>

\* available_at passes.
BecomeDue(r) ==
    /\ row[r] = "future"
    /\ row' = [row EXCEPT ![r] = "due"]
    /\ UNCHANGED <<inFlight, listener, running, loop, rounds, pendingWake, timer, probed,
                   stopping, calm>>

-----------------------------------------------------------------------------
(* wake(), and the session that calls it.                                  *)

Asleep == loop = "asleep"

\* A sleeper is resolved at once; otherwise the wake-up is remembered.
Wake ==
    \/ /\ running /\ Asleep
       /\ loop' = "drain"
       /\ rounds' = 0
       /\ timer' = "none"
       /\ probed' = NoRow
       /\ UNCHANGED pendingWake
    \/ /\ running /\ ~Asleep
       /\ pendingWake' = TRUE
       /\ UNCHANGED <<loop, rounds, timer, probed>>
    \/ /\ ~running
       /\ UNCHANGED <<loop, rounds, timer, probed, pendingWake>>

Deliver ==
    /\ inFlight > 0
    /\ listener \in {"verifying", "listening"}
    /\ inFlight' = inFlight - 1
    /\ Wake
    /\ UNCHANGED <<row, listener, running, stopping, calm>>

\* connect() up to the confirmed LISTEN.
Listen ==
    /\ listener = "down"
    /\ listener' = "verifying"
    /\ UNCHANGED <<row, inFlight, running, loop, rounds, pendingWake, timer, probed, stopping, calm>>

\* The self-test has passed or timed out: connectedHandler.
Connected ==
    /\ listener = "verifying"
    /\ listener' = "listening"
    /\ Wake
    /\ UNCHANGED <<row, inFlight, running, stopping, calm>>

\* An error or end event on the session; a restart is scheduled.
Drop ==
    /\ listener \in {"verifying", "listening"}
    /\ listener' = "down"
    /\ inFlight' = 0
    /\ UNCHANGED <<row, running, loop, rounds, pendingWake, timer, probed, stopping, calm>>

\* A notification is lost without any event (a pooled LISTEN, a dead peer).
LoseNotification ==
    /\ "silence" \in Failures
    /\ inFlight > 0
    /\ inFlight' = inFlight - 1
    /\ UNCHANGED <<row, listener, running, loop, rounds, pendingWake, timer, probed, stopping>>
    /\ calm' = FALSE

-----------------------------------------------------------------------------
(* runLoop and sleepUntilWake.                                             *)

UnchangedAround == UNCHANGED <<inFlight, listener, running, stopping>>
Unchanged == UnchangedAround /\ UNCHANGED calm

\* start() has awaited listener.start(): its first attempt, the self-test with
\* its timeout included, is over; later attempts may be in any phase.
StartLoop ==
    /\ loop = "starting"
    /\ loop' = "drain"
    /\ UNCHANGED <<row, rounds, pendingWake, timer, probed>> /\ Unchanged

\* The running checks: before every batch, after the drain, and in the while.
CheckRunning ==
    /\ loop = "drain"
    /\ loop' = IF running THEN "claim" ELSE "exited"
    /\ UNCHANGED <<row, rounds, pendingWake, timer, probed>> /\ Unchanged

\* The claiming statement of dispatchBatch executes.
ClaimBatch ==
    /\ loop = "claim"
    /\ \E claimed \in SUBSET {r \in Rows : row[r] = "due"} :
          /\ \/ Cardinality(claimed) = MaxBatch /\ UNCHANGED calm
             \/ /\ Cardinality(claimed) < MaxBatch
                /\ \A r \in Rows : row[r] = "due" => r \in claimed
                /\ calm' = (calm \/ \A r \in Rows : row[r] # "future")
          /\ row' = [r \in Rows |-> IF r \in claimed THEN "claimed" ELSE row[r]]
    /\ loop' = "publish"
    /\ UNCHANGED <<rounds, pendingWake, timer, probed>> /\ UnchangedAround

\* The rows of the batch in progress.
InBatch == {r \in Rows : row[r] = "claimed"}

\* dispatchBatch resolves.  A row the queue refused is PENDING again, due in five
\* seconds; a partial batch or the round cap ends the drain.
BatchDone ==
    LET claimed == InBatch
        full == Cardinality(claimed) = MaxBatch
        again == full /\ rounds + 1 < MaxRounds
    IN
    /\ loop = "publish"
    /\ \E refused \in SUBSET claimed :
          /\ refused # {} => "enqueue" \in Failures
          /\ calm' = (calm /\ refused = {} /\ (full => again))
          /\ row' = [r \in Rows |-> CASE r \in refused -> "future"
                                      [] r \in claimed \ refused -> "published"
                                      [] OTHER -> row[r]]
    /\ \/ /\ again
          /\ loop' = "drain"
          /\ rounds' = rounds + 1
       \/ /\ ~again
          /\ loop' = "sleep"
          /\ rounds' = 0
    /\ UNCHANGED <<pendingWake, timer, probed>> /\ UnchangedAround

\* dispatchBatch rejects, and the catch block of the drain logs it.  When the claim is
\* refused no row has changed.  When markFailed or returnToPending throws the claim has
\* committed: what was not dealt with before stays ENQUEUED, is published by nobody and
\* is left to the reconciler (Outbox), which writes it back like a new row.
DrainFails ==
    /\ "drain" \in Failures
    /\ \/ loop = "claim" /\ UNCHANGED row
       \/ /\ loop = "publish"
          /\ \E left \in SUBSET InBatch : \E refused \in SUBSET (InBatch \ left) :
                /\ left # {}
                /\ refused # {} => "enqueue" \in Failures
                /\ row' = [r \in Rows |-> IF r \in left THEN "stranded"
                                          ELSE IF r \in refused THEN "future"
                                          ELSE IF r \in InBatch THEN "published"
                                          ELSE row[r]]
    /\ loop' = "sleep"
    /\ rounds' = 0
    /\ calm' = FALSE
    /\ UNCHANGED <<pendingWake, timer, probed>> /\ UnchangedAround

\* sleepUntilWake: a remembered wake-up is honoured before anything is awaited.
BeginSleep ==
    /\ loop = "sleep"
    /\ \/ /\ ~running
          /\ loop' = "exited"
          /\ UNCHANGED pendingWake
       \/ /\ running /\ pendingWake
          /\ pendingWake' = FALSE
          /\ loop' = "drain"
       \/ /\ running /\ ~pendingWake
          /\ loop' = "probe"
          /\ UNCHANGED pendingWake
    /\ UNCHANGED <<row, rounds, timer, probed>> /\ Unchanged

\* nextPendingAvailableAt: only rows that are not due yet, or an error.
Probe ==
    /\ loop = "probe"
    /\ \/ /\ \E r \in Rows : row[r] = "future"
          /\ \E r \in Rows : row[r] = "future" /\ probed' = r
       \/ /\ (\A r \in Rows : row[r] # "future") \/ "probe" \in Failures
          /\ probed' = NoRow
    /\ loop' = "arm"
    /\ UNCHANGED <<row, rounds, pendingWake, timer>> /\ Unchanged

StillFuture == probed \in Rows /\ row[probed] = "future"

\* Mutant: a wake-up that lands during the probe is not looked at again.
ArmIgnoresWake ==
    /\ loop = "arm"
    /\ loop' = IF running THEN "asleep" ELSE "drain"
    /\ timer' = IF running /\ StillFuture THEN "delayed"
                ELSE IF running THEN "fallback" ELSE "none"
    /\ probed' = IF running /\ StillFuture THEN probed ELSE NoRow
    /\ UNCHANGED <<row, rounds, pendingWake>> /\ Unchanged

\* The probe's answer arrives: then or catch, with arm().  An answer more than
\* DELAYED_WAKE_BUFFER_MS too late leaves the plain interval.
Arm ==
    /\ loop = "arm"
    /\ \/ /\ ~running
          /\ loop' = "drain"
          /\ probed' = NoRow
          /\ UNCHANGED <<pendingWake, timer>>
       \/ /\ running /\ pendingWake
          /\ pendingWake' = FALSE
          /\ loop' = "drain"
          /\ probed' = NoRow
          /\ UNCHANGED timer
       \/ /\ running /\ ~pendingWake
          /\ loop' = "asleep"
          /\ \/ /\ probed # NoRow
                /\ timer' = "delayed"
                /\ UNCHANGED probed
             \/ /\ ~StillFuture
                /\ timer' = "fallback"
                /\ probed' = NoRow
          /\ UNCHANGED pendingWake
    /\ UNCHANGED <<row, rounds>> /\ Unchanged

\* Mutant: there is no fallback poll.
TimerFiresDelayedOnly ==
    /\ Asleep
    /\ timer = "delayed"
    /\ ~StillFuture
    /\ loop' = "drain"
    /\ timer' = "none"
    /\ probed' = NoRow
    /\ UNCHANGED <<row, rounds, pendingWake>> /\ Unchanged

\* The armed timeout fires.  A delayed wake is buffered, so its row is due.
TimerFires ==
    /\ Asleep
    /\ timer # "none"
    /\ timer = "delayed" => ~StillFuture
    /\ loop' = "drain"
    /\ timer' = "none"
    /\ probed' = NoRow
    /\ UNCHANGED <<row, rounds, pendingWake>> /\ Unchanged

-----------------------------------------------------------------------------
(* stop().                                                                 *)

\* Mutant: the timer is cleared and the sleeper left unresolved.
StopForgetsSleeper ==
    /\ running
    /\ running' = FALSE
    /\ stopping' = "listener"
    /\ timer' = "none"
    /\ UNCHANGED <<row, inFlight, listener, loop, rounds, pendingWake, probed, calm>>

Stop ==
    /\ running
    /\ running' = FALSE
    /\ stopping' = "listener"
    /\ timer' = "none"
    /\ probed' = IF Asleep THEN NoRow ELSE probed
    /\ loop' = IF Asleep THEN "drain" ELSE loop
    /\ UNCHANGED <<row, inFlight, listener, rounds, pendingWake, calm>>

StopListener ==
    /\ stopping = "listener"
    /\ stopping' = "loop"
    /\ listener' = "stopped"
    /\ inFlight' = 0
    /\ UNCHANGED <<row, running, loop, rounds, pendingWake, timer, probed, calm>>

\* Mutant: stop() does not await the loop.
StoppedAtOnce ==
    /\ stopping = "loop"
    /\ stopping' = "stopped"
    /\ UNCHANGED <<row, inFlight, listener, running, loop, rounds, pendingWake, timer, probed, calm>>

\* stop() awaits the loop, if start() has got as far as creating it.
Stopped ==
    /\ stopping = "loop"
    /\ loop \in {"exited", "starting"}
    /\ stopping' = "stopped"
    /\ UNCHANGED <<row, inFlight, listener, running, loop, rounds, pendingWake, timer, probed, calm>>

-----------------------------------------------------------------------------
LoopStep ==
    \/ StartLoop \/ CheckRunning \/ ClaimBatch \/ BatchDone \/ DrainFails
    \/ BeginSleep \/ Probe \/ Arm

RelayNext ==
    \/ \E r \in Rows : Commit(r) \/ BecomeDue(r)
    \/ Deliver \/ Listen \/ Connected \/ Drop \/ LoseNotification
    \/ LoopStep
    \/ TimerFires
    \/ Stop \/ StopListener \/ Stopped

RelaySpec == RelayInit /\ [][RelayNext]_relayVars

\* Time passes, promises settle, timers fire, a session being set up is
\* verified or dropped.  A claim that is tried for ever succeeds in the end, and
\* its order by available_at passes no row over for ever.  Nothing is assumed of
\* notifications.
Fairness ==
    /\ \A r \in Rows : WF_relayVars(BecomeDue(r))
    /\ WF_relayVars(LoopStep)
    /\ \A r \in Rows : SF_relayVars(ClaimBatch /\ row'[r] = "claimed")
    /\ WF_relayVars(TimerFires)
    /\ WF_relayVars(Connected \/ Drop)
    /\ WF_relayVars(StopListener)
    /\ WF_relayVars(Stopped)

FairRelaySpec == RelaySpec /\ Fairness

-----------------------------------------------------------------------------
(* Properties.                                                             *)

SleepsOverDueRow ==
    /\ Asleep /\ timer = "fallback"
    /\ \E r \in Rows : row[r] = "due"
    /\ inFlight = 0 /\ listener \notin {"down", "verifying"}

\* Once a batch has left nothing behind, and until something fails, a row is delayed or
\* a drain hits its round cap, the relay does not sleep out its fallback interval over
\* a row that could be dispatched now, unless its wake-up is still on the way: as a
\* notification, or as the sweep after a reconnection.
NoLostWakeup == calm => ~SleepsOverDueRow

\* stop() resolves only when no batch is in progress and none can follow.  That is all it
\* promises: rows which an update that threw has left behind stay ENQUEUED (DrainFails).
StopAwaitsBatch ==
    stopping = "stopped" => InBatch = {} /\ loop \notin {"claim", "publish"}

\* Whatever notification or session is lost, a dispatchable row is claimed while
\* the relay runs.
DueIsClaimed ==
    \A r \in Rows : row[r] = "due" ~> (row[r] # "due" \/ ~running)

\* stop() terminates.
StopTerminates == ~running ~> stopping = "stopped"

=============================================================================

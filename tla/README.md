# TLA+ verification of the VuSurge backend

These modules model the backend under `src/backend`: a multi-tenant platform on
which organizations run innovation challenges. PostgreSQL holds all
authoritative state; BullMQ on Redis runs the asynchronous work; a transactional
outbox and a separate worker process connect the two. The React client under
`src/devsurge` decides nothing that the server does not check again and is not
modelled.

Contents: [inventory](#inventory), [modules](#modules-and-code),
[runs](#runs-and-bounds), [fairness](#fairness), [proofs](#proofs),
[what is only model-checked](#what-is-only-model-checked),
[known divergences](#known-divergences), [not modelled](#not-modelled),
[plan](#plan).

## Inventory

The default isolation is READ COMMITTED (`shared/database/tenant-transaction.ts`);
a few transactions are SERIALIZABLE and retried. An unlocked read followed by a
write is therefore the usual shape of an operation, and what it read may be
stale. What protects an operation differs from part to part: a version
condition, a status condition, a row lock, a unique index, or nothing.

| Part | State | Operations | What is hard | What makes it correct |
|---|---|---|---|---|
| Outbox (`shared/outbox`, `shared/queue`, `workers/job-router.ts`, `worker-runtime.ts`) | `outbox_event` rows, BullMQ jobs, batches in flight, the reconciler's schedule | write, claim, publish, return, fail, reconcile, handle, acknowledge | claim and publication are two systems; BullMQ keeps finished jobs; the reconciler overtakes slow work; the queue may be lost | no effect without a row, acknowledged only after the handler, settled for good, every row settled in the end |
| Outbox relay (`outbox-relay.ts`, `outbox-listener.ts`) | loop phase, timer, pending wake-up, LISTEN session | drain, probe, sleep, wake, reconnect, stop | wake-ups between awaits, lost notifications, stop in any phase | no lost wake-up, stop awaits the batch in flight and terminates |
| Email delivery (`shared/email/email-delivery.ts`, `email-obligation.ts`) | `email_delivery` row, lease, claim number (`attempts`) | claim, send, record, recover lease, cancel | stalls, crashes, late outcomes, provider errors | one sender, outcomes stay, acknowledged means settled |
| Memberships (`modules/memberships`) | membership rows | change role, remove, reactivate, join, deletion sweep | stale reads, owners counted on a snapshot | an owner remains, nobody acts on a better |
| Teams (`modules/teams`) | teams, members, invitations, the deadline | create, invite, answer, leave, transfer, remove, exceptions | stale reads against one locked operation | capacity, one captain, single use of invitations, frozen rosters |
| Challenge lifecycle, results, reminders (`modules/challenges`, results of `modules/judging`, `shared/reminders`, `workers/reminder-scheduler.ts`) | challenge row, result snapshot, reminder row, notices | publish, reschedule, extend, reopen, cancel, archive, finalize, publish and retract results, dispatch, notify | unlocked reads with a version condition, late and repeated events, the clock | the row, the snapshot and the reminder agree; the lifecycle moves forward; deadlines shorten only while unseen |
| Judging (`modules/judging`) | rubric, assignments, scorecards, results | assign, auto-balance, reassign, conflict, recuse, draft, submit, reopen, activate a rubric, finalize judging and results | cards are listed without a lock and locked later; assignments are written without a condition | totals and locked cards agree with what was submitted, results stand |
| Submissions (`modules/submissions`) | submission, versions, final version | save, finalize, reopen, disqualify, reinstate | a row lock in some operations and none in others; the clock moves while a request waits | what was final stays final, no save lost, disqualifications stand |
| Participation (`modules/participation`) | participation row, application | register, apply, withdraw, review | re-registration, reviews that race | one active registration, decisions are final |
| Invitations, join codes, join requests (`modules/invitations`, `join-codes`, `join-requests`) | invitation and its links, use count, request rows | invite, resend, accept, decline, revoke, redeem, ask, approve, reject, withdraw | lookup and commit are two transactions; events are dropped by their key | no membership without a grant, uses paid for, decisions stand, a mailed link works |
| Exports (`modules/exports`, `workers/handlers/export-events.handler.ts`) | `data_export` row, file in the object store | request, generate, upload, complete, remove, sweep | a crash after the mark, two runs, removal against generation | a completed export has its file |
| Integrations, outgoing webhooks (`modules/integrations`, `integration-events.handler.ts`) | `integration_delivery` row | claim, post, record | no lease, outcomes written without a condition | acknowledged means settled, outcomes stay |
| Incoming email webhooks (`modules/webhooks`) | provider events | verify, record, apply | events that overtake the record of the send | statuses only move forward |
| Cache and circuit breaker (`shared/cache`) | breaker state, cached entries | guard, load, invalidate | late results, skipped invalidations | one probe, no stale entry beyond its life |
| Idempotency (`shared/idempotency`) | key rows | claim, finish, replay | a crash after the claim | one execution per key |
| Media and files (`modules/media`, `modules/files`) | assets, quota, scan state | request, confirm, scan, abandon | confirmation against abandonment | bound only when confirmed and clean |
| Account deletion, retention | requests, batches | request, cancel, execute | cancellation against execution | executed at most once, never while the last owner |
| Organizations, applications, forms, portfolio, matchmaking, moderation, support, announcements | one row each | conditional status changes | little concurrency | statuses move as documented |
| Authentication, authorization, tenancy | sessions, permission tables | checks | external library, constant data | every operation starts after its check |

Parts meet through four mechanisms: rows of one transaction (an operation and
its outbox row, a challenge and its reminder); events (outbox row, job, handler);
scheduled jobs that repair rows (reconciler, lease recovery, reminder dispatch);
and shared rows (account deletion and memberships, the deadline and teams).

`PROJECT.json` lists every part with its status, and the hazards each is exposed
to, also those of parts that are planned.

## Modules and code

| Module | Models |
|---|---|
| `BullJob` | a BullMQ job: waiting, active, delayed, completed, failed, one stall |
| `OutboxObligation` | the promise of the outbox: a debt is incurred, performed, discharged or given up |
| `Outbox` | rows, dispatchers, BullMQ, workers, reconciler; EXTENDS `BullJob` |
| `OutboxRelay` | the loop that drives a dispatcher, and its LISTEN session |
| `HandledJob` | what the outbox and BullMQ do to one handler; EXTENDS `BullJob`; implemented by `Outbox` |
| `EmailDelivery`, `Exports`, `IntegrationDelivery` | one handler each with the row it works on; each EXTENDS `HandledJob` |
| `JobRouter` | the three handlers behind one job: INSTANCEs of them over shared variables |
| `Memberships` | the members of one organization |
| `Joining` | the ways into one organization |
| `Teams` | the teams of one challenge |
| `Challenges` | one challenge, its result snapshot, its deadline reminder |
| `SubmissionLife` | what one submission promises the rest of the system |
| `Submissions` | one submission and its versions; implements `SubmissionLife` |
| `Judging` | assignments, scorecards, rubric and results of one challenge, over submissions that are INSTANCEs of `SubmissionLife` |
| `MC*` | the instances for TLC; `MCDispatch` instantiates `Outbox` and `OutboxRelay` |
| `*_proofs` | the proofs about the module of that name |

### Outbox

`state`, `attempts` and `elapsed` are the columns of `outbox_event`; times are
abstracted to whether `available_at`, or the stale window, has passed. `Claim`
commits before `Publish`, as `dispatchBatch` does; `RejectPublish` leaves open
whether Redis executed the add. BullMQ ignores an add whose id it still holds.
`HandlerReturns`, `MarkOutboxProcessed`, `RecordOutboxFailure` and `FinishJob`
are the steps of `processJob`. `Reconcile` is `reconcileStale`, run from a
schedule that lives in the same Redis (`scheduled`). `Outbox` implements
`OutboxObligation`: an absent row is no debt, `PENDING` and `ENQUEUED` are owed,
`PROCESSED` is discharged, `FAILED` is given up. Seen from one routable row, it
also implements `HandledJob` (`ImplementsHandledJob`): `runOf` maps what the
slots do with the row to the runs of its handler, and a batch, a claim or the
reconciler's visit is a stutter until it publishes, settles or forgets something.

### OutboxRelay

An action is what runs between two awaits of `runLoop`, `sleep` and `stop`, so
that `wake()` may come at each of them. Notifications are counted, not ordered:
they carry nothing. `DrainFails` is `dispatchBatch` rejecting: at the claim, when no row
has changed, or after it, when `markFailed` or `returnToPending` throws and what
is left of the batch stays `ENQUEUED` without a job (`stranded`; in `Outbox` this
is `AbandonBatch`, and the reconciler takes it from there). `calm` is history: since the last batch that left nothing
behind, no row was delayed, nothing has failed and no drain was cut short by the
round cap. The names differ from those of `Outbox` (`RelayNext`, `ClaimBatch`,
`MaxBatch`), so that one module can prove things about both.

### HandledJob, the handlers and JobRouter

`HandledJob` is what `Outbox` looks like to one handler from the commit of its
row on: the job is taken by any slot, stalls, is retried, is forgotten (finished
jobs are trimmed, Redis may lose its data) and may be published again at any
time, even when the row is settled, since a dispatcher may be arbitrarily late
after its claim. A slot whose build lacks the handler may take it too. `run`
says what a slot does with the event. Batches, claims and their count are not
seen; all that remains of them is that the reconciler may give the row up
(`Exhaust`). Each handler module adds the steps of one event handler, a
transaction or an external call being one action.

- `EmailDelivery`: `deliver()` claims the row under a lease, calls the provider
  and records the outcome by compare-and-set on the claim number. Claim numbers
  only grow and are only compared with the row's, so `holder` is the slot whose
  claim is the newest, until its handler has used it. Then the lease recovery of
  `scheduled-jobs.ts` and the cancellation by account deletion.
  `overrun` is history: a claim was taken from a worker that was still sending.
- `Exports`: `handleExportRequested` checks for `PENDING` and marks `PROCESSING`
  (two statements of one transaction without a lock, hence two actions),
  generates, uploads under a key that is the same in every run, and writes the
  outcome by id. A removal and the retention sweep delete the file and then the
  row (`BeginRemoval`, `DeleteFile`, `DeleteRow`). The limit on concurrent
  exports and the contents of the CSV are left out.
- `IntegrationDelivery`: the claim under the row lock, the post, the outcome by
  id; the integration may be disabled at any time. There is no lease and no
  reconciler.

`JobRouter` is `createJobRouter`: one event of any type, whose type alone
decides the handler. Its `Init` lets the type vary, and each disjunct of its
`Next` leaves the state of the other handlers alone.

### Memberships

A request is read, checked and written in separate actions: the actor's role is
captured before the transaction, the target row is read without a lock, and the
guarded UPDATE counts the owners of its own snapshot, then locks only its row.

### Joining

A request looks something up in one action and writes in a later one
(`Begin*` and `Find*` against the commit); what it found is kept in `request`.
`invitation.resends` counts the resends and the n-th resend issues token n.
`mailed` maps the dedupe key of a resend event to the token it carries: the key
is made from the count that was read, and the outbox ignores a second row with
the same key. `code` is the counter of a join code, and `request` also holds a redemption
that has counted its use and not yet written its membership. Expiry, email
domains, join policy and permissions only ever refuse, and any request may be
refused at any time. An invitation that is not bound to an address cannot be
accepted by anyone, since its token is neither returned nor mailed, and is left
out.

### Teams

A request's reads and checks are one action, its writes and the commit a later
one. `acceptInvitation` alone locks the team and counts under the lock.
`alone` is history: whether anything has committed since the request first read.

### Challenges

`Check*` is what an operation reads and decides, the action of the same name
without `Check` what it writes. `fresh` stands for the version column: it is
true as long as nobody has written the row since the read, and the write is
conditional on it; `Conflict` is the 409 answer. `FinalizeResults` locks the row
first and is one action. A registration writes a row of its own and leaves the
version alone. `Synced` is `syncChallengeReminderSchedules` for the submission
deadline; `Dispatch` is one row of `dispatchDueReminders`; `ReadReminder` and
`Notify` are the read and the writes of `handleReminderDue`, which may be run
for any event ever emitted, at any time, again and again. Left out: tracks,
prizes, sponsors, terms, feedback release, scorecards; `registrationOpenAt` is a
constant; the application clock and the database clock are one.

### Submissions

Saving and finalizing are admitted on an unlocked read of the challenge
(`Admit`) and write under the lock of the submission row, where status and
pointers are read again and the challenge is not. `reopen`, `disqualify` and
`reinstate` read the row without a lock and write it without a condition.
A version is a record of whether it is final and of the version it was made
from. Its content, screenshots and files are left out, and so are the team size,
terms and requirements `finalize` compares them with: all of them may change at
any time and they only ever refuse (`Refuse`).
`been` (the statuses so far) and `overtaken` (a decision was written on a row it
no longer applied to) are history. `SubmissionLife` is the abstraction that
`Judging` builds on, and `Submissions` implements it with
`life <- [status, final, been]` of its row. That a submission keeps the one final
version it got is what the code does, and `SubmissionLife` says so because judging
runs on that code; ADR 0011 promises otherwise, see `submissions_corrections`.

### Judging

A card and the assignment it belongs to have the same id; there is one rubric
with several versions; a weighted total is abstracted to the product of the
rubric version and the scores, which is all that tells two totals apart. Judges
write a card under its row lock; what an organizer request has read (`plan`,
`was`, `seen`, `rubric`) is in `request`, and `fresh` stands for the version
column of the challenge or, for a rubric activation, for what was counted.
`CheckFinalizeJudging` and `FinalizeJudging` are the two halves of
`finalizeJudging`, the listing and the locking. `status` of the challenge
(`open`, `results`, `cancelled`, `archived`) is what a rubric activation looks at
besides the clock (`started`); the operations of `Challenges` that write it are
`Cancel`, `Archive` and `PublishOrRetract`, each of which takes a version. Staff invitations, criteria,
weights, normalization and feedback are left out.

## Runs and bounds

| Run | Question | Bounds and why they are enough |
|---|---|---|
| `outbox_races` | Is a row safe under every race for it, does the outbox keep its promise, and is it to a handler what `HandledJob` says (two refinements)? | one row at a time, routable or not (`OneRow` of `MCOutbox`), two dispatchers, two workers, three attempts: enough for a reclamation and one more claim while the first job is still running; one worker lacks the handler |
| `dispatch_settles` | Does every row settle? Is a wake-up lost, does `stop()` hang or return with a batch in flight? | rows: a batch of two, one unroutable, two attempts, every fault including the loss of the queue; relay: two rows with batches of one and a cap of two rounds, so that there are full and partial batches, drains that the cap ends (over a row that was refused and is due again), a delayed row behind a due one, rows left behind by a batch that failed, every fault. The halves are followed one at a time (`half`), the other one being at rest, where it owes nothing: so the fairness of both can be asked of every behaviour |
| `handlers` | Does an email, an export or a post survive late, repeated and crashed runs, and is it answered? | two slots, so that a stalled run overlaps its redelivery; two attempts, so that a retry and a last attempt both occur; any number of late publications and losses of the queue; every fault |
| `exports_skip` | Does the handler skip only what has completed? No | one slot; a crash or one refused upload is enough |
| `memberships_races` | Can a role change, removal, reactivation, join or deletion do what it may not? | two users, two overlapping requests of every kind |
| `memberships_owners` | Is there always an owner? No | three users, two requests |
| `joining_races` | Does every membership have a grant, is every use paid, do decisions stand, does the mailed link work? | the invitee and another user, two overlapping requests, a code with a single use (the limit is reached by the first), two resends (the least number that can collide) and two join requests, so that a user asks again after a decision |
| `teams_races` | Capacity, rosters, invitations, deadline | three users, room for two, two invitations, two overlapping requests of every kind |
| `challenges_races` | Do row, snapshot and reminder agree; is the lifecycle monotone; are reminders dispatched? | two overlapping requests of every kind, two deadlines, a clock of three instants so that a deadline lies before, at and after it; registration opens at instant 1, so that both answers of `publish` occur; three revisions of the reminder |
| `submissions_races` | Final versions kept, no save lost, disqualifications that stand; does `Submissions` implement `SubmissionLife`? | two overlapping requests, a deadline on either side of the clock, five versions: draft, final, and drafts of a reopened submission saved by both requests |
| `submissions_corrections` | Is a reopened submission finalized again if its team keeps trying? No | one request after the other, a deadline that is not missed, room for a second final version |
| `judging_races` | Do totals, locked cards and results agree with what was submitted? | two organizer requests and a judge; one card scored in every way under two rubric versions, or two assignments of which one is reassigned or added beside the other, followed until one is scored; a submission that is finalized and reopened, or disqualified, but not both; a cancellation or an archiving only as long as judging has not started, since only an activation looks at them (`Bound` of `MCJudging`): no property relates the scores of two cards, only their assignments |

Bounds named in the modules: `MaxAttempts`, `BatchSize` and `MaxUses` are
configuration, `MaxRounds` is a constant of the code; `MaxNow` and `MaxRevision`
(`Challenges`), `MaxNow` and `MaxVersions` (`Submissions`), `MaxResends`
(`Joining`) and the constraints `Bound` (`MCJudging`) and
`OneRow` (`MCOutbox`) only bound the state space: the clock stops, and no new operation starts. The constants `Faults` and
`Failures` choose which faults happen. Symmetry is used only in runs without
liveness properties. Deadlock is checked in `outbox_races` and for `Joining`; it is
not where the system may rightly stop: requests run out of bounds, the relay is
stopped, a delivery is settled.

Each property is about something that takes several steps, mostly of several
requests, to break. Where the code accepts a race, the property says exactly
which race may do the harm (`OwnerlessOnlyByOverlap`, `AloneKeepsRosters`,
`LinkDiesOnlyByOverlap`, `RubricLockedByScores`, `DisqualificationStands`,
`AssignmentsMoveForward`, and `overrun` in the handlers): everything else may
not. The notes of the hazards in `PROJECT.json` name these races one by one. The code does not promise more, and `memberships_owners` shows what remains.

## Fairness

- `Outbox`: time passes, dispatchers keep sweeping (their loop has a fallback
  poll), the reconciler runs whenever its schedule is there for long enough
  (strong fairness: it runs every interval, whatever comes between), and worker
  processes are started again after the queue was lost. Nothing is assumed of
  jobs, handlers or BullMQ: settlement rests on the reconciler and the attempt
  budget alone.
- `OutboxRelay`: promises settle, timers fire, a claim tried for ever succeeds
  and passes no row over for ever (rows are claimed in order of `available_at`).
  Nothing is assumed of notifications.
- `JobRouter`: only that a row which stays unsettled is failed in the end
  (`QueueFairness`): claims are counted and the reconciler keeps running, which
  is what `EventuallySettled` of `Outbox` shows. Nothing is assumed of slots,
  handlers, leases or the queue. Three outcomes are weaker than one would hope
  for, because the code is:
  an email whose worker outlives its lease may stay `PENDING` (`overrun`), an
  email or a post may end with its outbox row `FAILED` instead, and of an export
  no more than the answer of its row is promised.
- `Challenges`: the clock and the scheduled dispatch; nothing is asked of people.
- `Submissions`, in `submissions_corrections` only: every request is answered, a
  team that asks for the finalization again and again is admitted in the end and
  accepted in the end if it can be accepted at all (`PersistentSpec`). This grants
  the promise of ADR 0011 as much as can be granted: without the condition on the
  final version in `Accepts` the property holds.

## Proofs

Every theorem is for any number of workers, users, requests, rows and instants.

| Module | Proved | The argument |
|---|---|---|
| `Outbox_proofs` on `Outbox` | `TypeOK`, `NoEffectWithoutRow`, `ProcessedWasHandled`, `SettledRowsStay`, the refinement of `OutboxObligation` | `IInv`: a busy slot holds the row of an existing job, and a slot that acknowledges has seen its handler succeed; a live job has attempts left. The refinement then holds step by step: each step is an action of the promise or a stutter. |
| | the refinement of `HandledJob`, for every routable row at once (`HandlersRefinement`) | `SlotsOK`: an idle slot holds no row, so that a step of a slot concerns one row and stutters for the others, and a slot without the handler never runs it. Publication, retry, stall and loss of the queue map to the actions of the same name; a final failure that is recorded by the reconciler maps to `Exhaust`. |
| `Outbox_proofs` on `OutboxRelay` | `RelayTypeOK`, `NoLostWakeup`, `StopAwaitsBatch` | `WakeupsKept`: while the relay is calm, a due row without a notification on its way is either left by a full batch that is not the last of its drain, or has left the wake-up that the loop looks at before it sleeps. `RelayStops`: a stopped relay has left its loop. The type of the count of notifications needs that no more are on their way than rows were committed. |
| `JobRouter_proofs`, each handler as a specification of its own | `TypeOK` of each; of `EmailDelivery` `SettledStays`, `OneSender`, `ProcessedMeansSettled`; of `Exports` `CompletedHasFile`; of `IntegrationDelivery` `ProcessedMeansSettled` | Emails: `SendersHoldTheLease`: as long as no claim was taken from a sending worker, whoever sends holds the newest claim, so two senders are one; and a handler that is about to return has seen an outcome (`EmailReturnsSettled`), which stays because each is recorded on its claim while `SENDING`. Posts: `OnePoster` says the same of the status alone, there being no lease. Exports: `UploadedHasFile` and `OneGenerator`: a worker between upload and update has its file unless a removal came between, and there is one such worker unless two have read `PENDING`. |
| `JobRouter_proofs`, the router | it implements each handler's specification for an event of that handler's type (`EmailImplemented`, `ExportImplemented`, `IntegrationImplemented`) and `HandledJob` for every type (`RouterUsesTheQueue`); `OneSender`, `ProcessedMeansSettled`, `CompletedHasFile`, `SettledStays` of `JobRouter` | The type never changes, and a step on an event of one type is a step of that handler that leaves the others' state alone. Hence the handlers' inductive invariants, guarded by the type (`RouterInv`), hold behind the router. |
| `Memberships_proofs` | `TypeOK`, `OwnerlessOnlyByOverlap`, `BettersOnlyByOverlap`, `RemovedRowsStay` | A request in its last phase has counted the owners it names; if they are still the owners, the guard leaves one. `Ranked`: who changes or removes a member is a manager and not below the role it has seen, so that only a row changed since can rank above. |
| `Teams_proofs` | `TypeOK`, `CapacityHeld`, `AloneAcceptsPending`, `AloneKeepsRosters`, `RostersFreeze` | Types alone are not inductive: members and pending invitations must name live teams (`Pointed`). `Guarded` adds that what a request which ran alone has read is still so; `Informed` says it of the whole roster, which `AloneKeepsRosters` needs: the team that is left keeps its captain. |
| `Challenges_proofs` | `TypeOK`, `ResultsAgree`, `ReminderFollowsRow`, `OneDeadlinePerRevision`, `LifecycleMovesForward`, `ShortenedOnlyUnseen` | `Decided`: a decision that nobody has overtaken is still right about the row. This is what the version condition buys, and neither the agreement of snapshot and row nor the two action properties follow without it. For the reminder, every synchronization either keeps target and revision or takes a new revision, and notices belong to dispatched revisions (`Announced`). |
| `Submissions_proofs` | `TypeOK`, `FinalVersionKept`, `DraftsFollowOn`, `MarkedWhileDisqualified`, `DisqualificationStands`, the refinement of `SubmissionLife` | `Inv` says what the pointers of the row and what a waiting request was told (`Told`) have to do with the versions and the history: a decision is based on a status the row has had. With that, every step is one of `SubmissionLife` or a stutter. |
| `Judging_proofs` | `TypeOK`, `TotalsMatchScores`, `LockedAsSubmitted`, `ResultsStand`, `RubricLockedByScores`, `AssignmentsMoveForward` | `AllSound`: what each kind of request may rely on about the rows, step by step of the request. A finalization that is still fresh has listed cards as they were submitted; a card reopened since is locked with what the list says, total and scores together, or not at all. Once results are decided, no finalization is fresh, so that nothing is locked any more. |
| `Joining_proofs` | `TypeOK`, `GroundsStand`, `JoinsArePaid`, `DecisionsStand`, `LinkDiesOnlyByOverlap` | `AllSound` again, with `KeysBehind`: dedupe keys beyond the counted resends are free, so that a resend which read the current count gets its event. `JoinsArePaid` counts sets: a membership by code and a redemption that has counted but not yet joined are disjoint, and every step moves at most one element. |

Assumptions are the named `ASSUME`s of the modules (sets are finite, bounds are
natural numbers, null values are no members); no theorem assumes anything of the
behaviour. `TypeOK`, and `NoEffectWithoutRow` and `ProcessedWasHandled` of
`Outbox`, are proved and for that reason not repeated as invariants of the runs;
`SettledRowsStay` is proved and follows from the refinement of
`OutboxObligation`, which a run checks.

`HandledJob` is the interface between the two halves of the asynchronous part.
The handlers are proved against it, and `Outbox` is proved to implement it, so
that nothing a handler is verified against is a behaviour that the outbox, its
dispatchers and its slots could exceed: a handler's safety holds wherever the
outbox runs it. The composition itself, one specification in which a handler
runs inside `Outbox`, is not a module.

## What is only model-checked

Every safety invariant and every action property that a passing run checks is
also the statement of a theorem. What stays with TLC is liveness, which rests on
fairness and `ENABLED` and is out of the prover's reach: `EventuallySettled` and
`GapSurfaces` of `Outbox`, `DueIsClaimed` and `StopTerminates` of `OutboxRelay`,
`EventuallySettled` of `JobRouter`, `ScheduledIsDispatched` of `Challenges`. The
three violated properties (`memberships_owners`, `exports_skip`,
`submissions_corrections`) are shown by their counterexamples.

## Known divergences

Shown by a run:

- Two owners who leave at once leave none (`memberships_owners`).
- A redelivered export is skipped although it has not completed
  (`exports_skip`): after a crash it stays `PROCESSING`, after a failure
  `FAILED`, and the outbox row is acknowledged.
- A submission that was reopened can never be finalized again
  (`submissions_corrections`): `finalize` refuses whatever has a final version
  (`submissions.service.ts:593`), and ADR 0011 (lines 38-41) says that reopening
  for correction gives a new one.

Observed divergences, without a run of their own.

Queue and handlers:

- When the update of a row throws after the claim has committed
  (`outbox-dispatcher.ts:123`, `:152`), the rest of the batch stays `ENQUEUED`
  without a job; the relay logs it, and `stop()` may resolve over it, whereas
  `outbox-relay.ts:214-215` says that no claim is abandoned mid-publish. The
  reconciler returns such rows after the stale window.
- A delayed row that becomes due between the claim and the probe waits for the
  fallback interval (`outbox-dispatcher.ts:233`); `outbox-relay.ts:26` says that
  the relay wakes exactly then.
- The schedule of the reconciler is lost together with the queue and comes back
  with the next worker start only; ADR 0006 says that losing the queue merely
  delays effects. Settlement is checked under that assumption.
- An email whose worker outlives its lease, and whose lease is recovered before
  the outcome is written, stays `PENDING` while its outbox row is acknowledged
  (`email-delivery.ts:219`). A delivery whose worker dies on the last attempt is
  returned to `PENDING` by the lease recovery, and nothing sends it
  (`scheduled-jobs.ts:78`). A send the provider accepted is recorded as failed
  when the local transaction fails (`email-delivery.ts:235`). `CANCELLED` is not
  among the statuses the claim returns on, so that a job which comes after the
  cancellation sends the message (`email-delivery.ts:144`).
- An export left `PROCESSING` counts against the limit on concurrent exports
  (`exports.service.ts:124`) until somebody removes it. A removal that races the
  generation, or that deletes a `FAILED` export whose upload had succeeded,
  leaves the file without a row. Two runs may both read `PENDING`.
- `queue-catalog.md:95` says that handlers use compare-and-set transitions; the
  outcome of a post is written by id alone (`integration-events.handler.ts:90`),
  and a delivery left `SENDING` on the last attempt has no reconciler.
- Outbox keys built from the aggregate alone swallow a second event of the same
  kind (a member who becomes captain twice, a scorecard submitted again).

Memberships and joining:

- Two overlapping resends of an invitation read the same count and build the same
  dedupe key (`invitations.service.ts:239`); the second event is dropped and the
  mailed link is dead, whereas `invitations.route.ts:84` promises a fresh one.
- An acceptance that looked the invitation up before it was revoked or declined
  still lets the invitee in (`invitations.service.ts:340`).
- An invitation that names no address cannot be accepted: its token is neither
  returned nor mailed.
- A redemption that is refused after its use was counted (already a member, other
  email domain) does not give the use back.
- The deletion sweep locks the organization row only, so that it races with
  demotions like any other request.

Challenges and teams:

- A challenge published before its registration date never opens
  (`participation.service.ts:140`; `challenge-states.md:28`).
- A captain who leaves dissolves a team that somebody has just joined
  (`teams.service.ts:638`; `teams.route.ts:199`).
- ADR 0010 says that every approved participant gets a team at approval; the
  code creates it at the first submission.
- Inside the lead window every write of a challenge reschedules the reminder of
  an unchanged deadline, since its instant is the present one
  (`challenge-reminder-schedules.ts:57`).
- `judging/finalize` sets the status to `RESULTS_READY`
  (`judging.service.ts:1397`); `challenge-states.md:32` says it does not. Neither
  it nor `results/finalize` has a condition on the status, so that a cancelled or
  archived challenge, which `challenge-states.md:57-58` calls terminal, comes
  back.
- Results cannot be published again after they were retracted: `publishResults`
  wants a `FINALIZED` snapshot, `finalizeResults` undecided results;
  `challenge-states.md:59` promises the contrary. Retraction also changes the
  status, which `challenge-states.md:34` says it does not.

Submissions and judging:

- A draft that was disqualified and reinstated becomes `FINALIZED` without a final
  version (`submissions.repository.ts:310-320`).
- `finalize` reads the clock before it waits for the row lock
  (`submissions.service.ts:575-587`), so that a finalization may commit after
  the deadline.
- `judging.route.ts:518` promises to lock every submitted scorecard; one that is
  submitted after the listing is neither locked nor counted.
- A judge whose assignment was recused or reassigned can still score, and the
  card counts.
- Cards of one challenge may be scored under different rubric versions, and
  several rubrics may each have an active one, of which an assignment takes any
  (`judging.repository.ts:623`).
- Balancing looks at a thousand submissions at most.

## Not modelled

- `Participation`, media upload, account deletion, the cache with its circuit
  breaker, idempotency keys and incoming webhooks have state worth modelling;
  they are next in the plan. The circuit breaker has one race that was seen
  reading it: a result that comes back late counts for the state the breaker is in
  then (`cache/circuit-breaker.ts:56`).
- Forms, organizations, portfolio, matchmaking, moderation, support and
  announcements change one row at a time by one operator at a time.
- Authentication belongs to an external library, authorization is constant data.
- The generated Prisma client, the frontend, start-up code and scripts hold no
  behaviour of their own. The generated client is most of the repository's lines.

## Plan

1. `Participation`, composed with `Teams` and `Challenges` over the deadline;
   `AccountDeletion`, composed with `Memberships` and `EmailDelivery`.
2. `MediaUpload` (confirmation, scan, abandonment), `CircuitBreaker` with the
   cache, `IdempotencyKey`, the order of incoming webhooks.
3. The composition of `Joining` with `Memberships`, so that grants and roles are
   seen together, and of a handler with `Outbox` in one specification.
4. Proofs: each new module's type invariant and safety as it comes.

Small components share a run where they share a question, by composing their
modules in one instance, as `JobRouter` does.

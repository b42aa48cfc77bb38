----------------------------- MODULE Challenges -----------------------------
(***************************************************************************)
(* The challenge row, its result snapshot and its deadline reminder.       *)
(*                                                                         *)
(* Every organizer operation reads the row without a lock, decides on what *)
(* it read, and writes with the version it read as a condition.  Between   *)
(* the two, other operations, registrations and the clock may intervene.   *)
(* The reminder of the submission deadline follows the row in the same     *)
(* transaction; a scheduled job dispatches it by revision through the      *)
(* outbox, whose events arrive late, out of order and more than once.      *)
(* The reminders of the two other dates run by the same code.              *)
(***************************************************************************)
EXTENDS Naturals, FiniteSets

CONSTANTS
    Requests,    \* concurrent requests
    Deadlines,   \* instants an organizer may choose as the submission deadline
    OpensAt,     \* challenge.registrationOpenAt, 0 when it is not set
    Lead,        \* config.worker.schedulers.reminderLeadHours
    MaxNow,      \* bound: the clock stops here
    MaxRevision  \* bound: no operation starts once the reminder is at this revision

ASSUME ChallengesAssumption ==
    /\ Deadlines \subseteq Nat \ {0}
    /\ OpensAt \in Nat
    /\ Lead \in Nat
    /\ MaxNow \in Nat
    /\ MaxRevision \in Nat

VARIABLES
    challenge,   \* status, submission deadline (0 when null) and the judging flags
    snapshot,    \* result_snapshot.status of the one snapshot, "NONE" without it
    registered,  \* hasAnyParticipation
    reminder,    \* the reminder_schedule row of the submission deadline
    due,         \* revisions whose reminder.due event is in the outbox
    reading,     \* reminders a handler has read and is about to send
    notified,    \* notifications, keyed by schedule and revision
    request,     \* what each request has read and decided
    now          \* the database clock

rowVars      == <<challenge, snapshot, registered>>
reminderVars == <<reminder, due, reading, notified>>
vars         == <<rowVars, reminderVars, request, now>>

Status == {"DRAFT", "SCHEDULED", "OPEN", "CLOSED", "RESULTS_READY",
           "RESULTS_PUBLISHED", "CANCELLED", "ARCHIVED"}

Terminal      == {"CANCELLED", "ARCHIVED"}
Reschedulable == {"DRAFT", "SCHEDULED", "OPEN", "CLOSED"}
Extendable    == {"SCHEDULED", "OPEN"}

\* What a request may still write; "register" is the participant's request.
Kinds == {"update", "publish", "reschedule", "extend", "reopen", "cancel", "archive",
          "finalizeJudging", "publishResults", "retractResults", "register"}

\* fresh: nobody has written the row, hence its version, since the request read it.
Idle == [kind |-> "idle", to |-> 0, at |-> 0, fresh |-> FALSE, registered |-> FALSE]

NoReminder == [status |-> "NONE", at |-> 0, target |-> 0, revision |-> 0, dispatched |-> 0]

Init ==
    /\ challenge = [status |-> "DRAFT", deadline |-> 0,
                    judged |-> FALSE, decided |-> FALSE, published |-> FALSE]
    /\ snapshot = "NONE"
    /\ registered = FALSE
    /\ reminder = NoReminder
    /\ due = {}
    /\ reading = {}
    /\ notified = {}
    /\ request = [q \in Requests |-> Idle]
    /\ now = 0

(***************************************************************************)
(* What a request reads and decides.                                       *)
(***************************************************************************)
Admit(q, kind, to, at, seen) ==
    /\ request[q] = Idle
    /\ reminder.revision < MaxRevision
    /\ request' = [request EXCEPT ![q] =
           [kind |-> kind, to |-> to, at |-> at, fresh |-> TRUE, registered |-> seen]]
    /\ UNCHANGED <<rowVars, reminderVars, now>>

CheckUpdate(q) ==
    /\ challenge.status \notin Terminal
    /\ Admit(q, "update", 0, 0, FALSE)

CheckPublish(q) ==
    /\ challenge.status = "DRAFT"
    /\ challenge.deadline # 0
    /\ Admit(q, "publish", 0, now, FALSE)

\* A reschedule of other dates keeps the submission deadline.
CheckReschedule(q, to) ==
    /\ challenge.status \in Reschedulable
    /\ to < challenge.deadline => ~registered
    /\ Admit(q, "reschedule", to, 0, registered)

\* Mutant: any other instant counts as an extension.
CheckExtendAnyway(q, to) ==
    /\ challenge.status \in Extendable
    /\ to # challenge.deadline
    /\ Admit(q, "extend", to, 0, FALSE)

CheckExtend(q, to) ==
    /\ challenge.status \in Extendable
    /\ to > challenge.deadline
    /\ Admit(q, "extend", to, 0, FALSE)

CheckReopen(q, to) ==
    /\ to > now
    /\ \/ challenge.status = "CLOSED"
       \/ challenge.status = "OPEN" /\ challenge.deadline <= now
    /\ Admit(q, "reopen", to, now, FALSE)

CheckCancel(q) ==
    /\ challenge.status \notin Terminal
    /\ Admit(q, "cancel", 0, 0, FALSE)

CheckArchive(q) ==
    /\ challenge.status # "ARCHIVED"
    /\ Admit(q, "archive", 0, 0, FALSE)

CheckFinalizeJudging(q) ==
    /\ ~challenge.judged
    /\ Admit(q, "finalizeJudging", 0, 0, FALSE)

MayPublishResults == ~challenge.published /\ snapshot = "FINALIZED"

CheckPublishResults(q) ==
    /\ MayPublishResults
    /\ Admit(q, "publishResults", 0, 0, FALSE)

CheckRetractResults(q) ==
    /\ challenge.published
    /\ snapshot = "PUBLISHED"
    /\ Admit(q, "retractResults", 0, 0, FALSE)

MayRegister == challenge.status = "OPEN" /\ OpensAt <= now

CheckRegister(q) ==
    /\ MayRegister
    /\ Admit(q, "register", 0, 0, FALSE)

(***************************************************************************)
(* The reminder follows the row: syncChallengeReminderSchedules.           *)
(***************************************************************************)
Later(a, b) == IF a < b THEN b ELSE a

\* The instant of the reminder; an instant in the past is due at once.
RemindAt(row, t) == Later(t, IF Lead < row.deadline THEN row.deadline - Lead ELSE 0)

Unwanted(row, t) ==
    \/ row.status \in Terminal
    \/ row.deadline = 0
    \/ row.deadline <= t

Matches(r, row, t) ==
    /\ r.status \in {"SCHEDULED", "SENT"}
    /\ r.target = row.deadline
    /\ r.at = RemindAt(row, t)

Synced(r, row, t) ==
    IF Unwanted(row, t)
    THEN IF r.status \in {"NONE", "CANCELLED"}
         THEN r
         ELSE [r EXCEPT !.status = "CANCELLED", !.revision = @ + 1]
    ELSE IF Matches(r, row, t)
         THEN r
         ELSE [r EXCEPT !.status = "SCHEDULED", !.at = RemindAt(row, t),
                        !.target = row.deadline, !.revision = @ + 1]

(***************************************************************************)
(* What a request writes, on the version it read.                          *)
(***************************************************************************)
\* Mutant: the update carries no condition on the version.
UnchangedOrNot(q) == TRUE

Unchanged(q) == request[q].fresh

\* The write increments the version under every other request.
Overtaken(r) == [r EXCEPT !.fresh = FALSE]

Proceeds(q, kind) ==
    /\ request[q].kind = kind
    /\ Unchanged(q)
    /\ request' = [r \in Requests |-> IF r = q THEN Idle ELSE Overtaken(request[r])]
    /\ UNCHANGED <<registered, due, reading, notified, now>>

\* Writes row and brings the reminder in line with it, at instant t.  The row lock
\* keeps other writers out; a dispatch that falls between the read and the write of
\* the reminder ends as if it had come before both.
PutAndSync(row, t) ==
    /\ challenge' = row
    /\ reminder' = Synced(reminder, row, t)
    /\ UNCHANGED snapshot

Update(q) ==
    /\ Proceeds(q, "update")
    /\ UNCHANGED <<challenge, snapshot, reminder>>

Publish(q) ==
    /\ Proceeds(q, "publish")
    /\ PutAndSync([challenge EXCEPT !.status =
                      IF OpensAt <= request[q].at THEN "OPEN" ELSE "SCHEDULED"],
                  request[q].at)

Reschedule(q) ==
    /\ Proceeds(q, "reschedule")
    /\ PutAndSync([challenge EXCEPT !.deadline = request[q].to], now)

Extend(q) ==
    /\ Proceeds(q, "extend")
    /\ PutAndSync([challenge EXCEPT !.deadline = request[q].to], now)

\* Two updates of the row in one transaction.
Reopen(q) ==
    /\ Proceeds(q, "reopen")
    /\ PutAndSync([challenge EXCEPT !.status = "OPEN", !.deadline = request[q].to],
                  request[q].at)

\* Mutant: the cancellation leaves the reminder alone.
CancelWithoutSync(q) ==
    /\ Proceeds(q, "cancel")
    /\ challenge' = [challenge EXCEPT !.status = "CANCELLED"]
    /\ UNCHANGED <<snapshot, reminder>>

Cancel(q) ==
    /\ Proceeds(q, "cancel")
    /\ PutAndSync([challenge EXCEPT !.status = "CANCELLED"], now)

Archive(q) ==
    /\ Proceeds(q, "archive")
    /\ PutAndSync([challenge EXCEPT !.status = "ARCHIVED"], now)

FinalizeJudging(q) ==
    /\ Proceeds(q, "finalizeJudging")
    /\ challenge' = [challenge EXCEPT !.status = "RESULTS_READY", !.judged = TRUE]
    /\ UNCHANGED <<snapshot, reminder>>

PublishResults(q) ==
    /\ Proceeds(q, "publishResults")
    /\ challenge' = [challenge EXCEPT !.status = "RESULTS_PUBLISHED", !.published = TRUE]
    /\ snapshot' = "PUBLISHED"
    /\ UNCHANGED reminder

\* Mutant: the snapshot stays published.
RetractResultsOnRow(q) ==
    /\ Proceeds(q, "retractResults")
    /\ challenge' = [challenge EXCEPT !.status = "RESULTS_READY", !.published = FALSE]
    /\ UNCHANGED <<snapshot, reminder>>

RetractResults(q) ==
    /\ Proceeds(q, "retractResults")
    /\ challenge' = [challenge EXCEPT !.status = "RESULTS_READY", !.published = FALSE]
    /\ snapshot' = "RETRACTED"
    /\ UNCHANGED reminder

\* The only operation that locks the row before it reads it.
MayFinalizeResults == challenge.judged /\ ~challenge.decided

FinalizeResults ==
    /\ MayFinalizeResults
    /\ challenge' = [challenge EXCEPT !.status = "RESULTS_READY", !.decided = TRUE]
    /\ snapshot' = "FINALIZED"
    /\ request' = [r \in Requests |-> Overtaken(request[r])]
    /\ UNCHANGED <<registered, reminderVars, now>>

\* A registration writes a row of its own and leaves the version alone.
Register(q) ==
    /\ request[q].kind = "register"
    /\ registered' = TRUE
    /\ request' = [request EXCEPT ![q] = Idle]
    /\ UNCHANGED <<challenge, snapshot, reminderVars, now>>

Conflict(q) ==
    /\ request[q].kind \notin {"idle", "register"}
    /\ ~Unchanged(q)
    /\ request' = [request EXCEPT ![q] = Idle]
    /\ UNCHANGED <<rowVars, reminderVars, now>>

(***************************************************************************)
(* The dispatch of due reminders, and the handler of reminder.due.         *)
(***************************************************************************)
\* Mutant: a dispatcher that comes after the deadline skips the reminder.
DispatchInTime ==
    /\ reminder.status = "SCHEDULED"
    /\ reminder.at <= now
    /\ now < reminder.target
    /\ reminder' = [reminder EXCEPT !.status = "SENT", !.dispatched = reminder.revision]
    /\ due' = due \union {reminder.revision}
    /\ UNCHANGED <<rowVars, reading, notified, request, now>>

Dispatch ==
    /\ reminder.status = "SCHEDULED"
    /\ reminder.at <= now
    /\ reminder' = [reminder EXCEPT !.status = "SENT", !.dispatched = reminder.revision]
    /\ due' = due \union {reminder.revision}
    /\ UNCHANGED <<rowVars, reading, notified, request, now>>

\* The handler acts only on the revision its event names.
\* Mutant: the handler checks the status only.
CurrentByStatus(revision) == reminder.status = "SENT"

Current(revision) ==
    /\ reminder.status = "SENT"
    /\ reminder.revision = revision
    /\ reminder.dispatched = revision

ReadReminder(revision) ==
    /\ revision \in due
    /\ Current(revision)
    /\ reading' = reading \union {[revision |-> revision, target |-> reminder.target]}
    /\ UNCHANGED <<rowVars, reminder, due, notified, request, now>>

Notify(n) ==
    /\ n \in reading
    /\ reading' = reading \ {n}
    /\ notified' = notified \union {n}
    /\ UNCHANGED <<rowVars, reminder, due, request, now>>

\* The worker dies, or the transaction fails, before the notification.
Abandon(n) ==
    /\ n \in reading
    /\ reading' = reading \ {n}
    /\ UNCHANGED <<rowVars, reminder, due, notified, request, now>>

Tick ==
    /\ now < MaxNow
    /\ now' = now + 1
    /\ UNCHANGED <<rowVars, reminderVars, request>>

(***************************************************************************)
(* The specification.                                                      *)
(***************************************************************************)
Check(q) ==
    \/ CheckUpdate(q)
    \/ CheckPublish(q)
    \/ \E to \in Deadlines \union {challenge.deadline} : CheckReschedule(q, to)
    \/ \E to \in Deadlines : CheckExtend(q, to)
    \/ \E to \in Deadlines : CheckReopen(q, to)
    \/ CheckCancel(q)
    \/ CheckArchive(q)
    \/ CheckFinalizeJudging(q)
    \/ CheckPublishResults(q)
    \/ CheckRetractResults(q)
    \/ CheckRegister(q)

Commit(q) ==
    \/ Update(q)
    \/ Publish(q)
    \/ Reschedule(q)
    \/ Extend(q)
    \/ Reopen(q)
    \/ Cancel(q)
    \/ Archive(q)
    \/ FinalizeJudging(q)
    \/ PublishResults(q)
    \/ RetractResults(q)
    \/ Register(q)
    \/ Conflict(q)

Next ==
    \/ \E q \in Requests : Check(q) \/ Commit(q)
    \/ FinalizeResults
    \/ Dispatch
    \/ \E revision \in due : ReadReminder(revision)
    \/ \E n \in reading : Notify(n) \/ Abandon(n)
    \/ Tick

Spec == Init /\ [][Next]_vars

\* Time passes and the scheduled job keeps running; nothing is asked of people.
FairSpec == Spec /\ WF_vars(Tick) /\ WF_vars(Dispatch)

(***************************************************************************)
(* Properties.                                                             *)
(***************************************************************************)
Notice == [revision : Nat, target : Nat]

\* Every row keeps its type, and a reminder is never dispatched at a revision
\* it has not reached (reminder_schedule_dispatch_revision_ck).
TypeOK ==
    /\ challenge \in [status : Status, deadline : Nat,
                      judged : BOOLEAN, decided : BOOLEAN, published : BOOLEAN]
    /\ snapshot \in {"NONE", "FINALIZED", "PUBLISHED", "RETRACTED"}
    /\ registered \in BOOLEAN
    /\ reminder \in [status : {"NONE", "SCHEDULED", "SENT", "CANCELLED"}, at : Nat,
                     target : Nat, revision : Nat, dispatched : Nat]
    /\ reminder.dispatched <= reminder.revision
    /\ due \subseteq Nat
    /\ reading \subseteq Notice
    /\ notified \subseteq Notice
    /\ request \in [Requests -> [kind : Kinds \union {"idle"}, to : Nat, at : Nat,
                                 fresh : BOOLEAN, registered : BOOLEAN]]
    /\ now \in Nat

\* The judging flags of the row and the snapshot tell the same story however
\* publications, retractions and lifecycle operations overlap: a snapshot exists
\* when the results are decided, which takes finalized judging, and it is the
\* published one exactly while the row says so.
ResultsAgree ==
    /\ challenge.decided <=> snapshot # "NONE"
    /\ challenge.published <=> snapshot = "PUBLISHED"
    /\ challenge.decided => challenge.judged

\* A reminder that is scheduled, or that was sent and may still reach its
\* handler, names the deadline the row has now, and the challenge is neither
\* cancelled nor archived.
ReminderFollowsRow ==
    reminder.status \in {"SCHEDULED", "SENT"} =>
        /\ reminder.target = challenge.deadline
        /\ challenge.status \notin Terminal

\* However often its event is delivered, and however late, a revision of the
\* reminder announces one deadline only, and only after it was dispatched.
OneDeadlinePerRevision ==
    \A m, n \in reading \union notified :
        /\ m.revision \in due
        /\ m.revision = n.revision => m = n

\* No interleaving takes a challenge back: it opens only out of DRAFT, nothing
\* becomes a draft again, and only a live challenge is cancelled.
LifecycleMovesForward ==
    [][challenge'.status # challenge.status =>
         /\ challenge'.status # "DRAFT"
         /\ challenge'.status \in {"SCHEDULED", "OPEN"} => challenge.status = "DRAFT"
         /\ challenge'.status = "CANCELLED" => challenge.status # "ARCHIVED"]_vars

\* The deadline is shortened only on behalf of a request that saw no
\* participant when it was admitted, whatever extensions came in between.
ShortenedOnlyUnseen ==
    [][challenge'.deadline < challenge.deadline =>
         \E q \in Requests : /\ request[q].kind = "reschedule"
                             /\ request'[q] = Idle
                             /\ ~request[q].registered]_vars

\* A scheduled reminder ends in the outbox unless its revision is overtaken,
\* even when the dispatcher comes late.
ScheduledIsDispatched ==
    \A r \in 1 .. MaxRevision :
        (reminder.status = "SCHEDULED" /\ reminder.revision = r) ~>
            (reminder.revision # r \/ r \in due)

=============================================================================

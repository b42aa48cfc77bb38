-------------------------- MODULE Challenges_proofs --------------------------
(***************************************************************************)
(* Proofs about Challenges.                                                *)
(*                                                                         *)
(* The inductive invariant says that what a request decided still holds as *)
(* long as nobody has written the row since (Decided): the version is what *)
(* carries a decision over to the write.                                   *)
(***************************************************************************)
EXTENDS Challenges, TLAPS

RequestType == [kind : Kinds \union {"idle"}, to : Nat, at : Nat,
                fresh : BOOLEAN, registered : BOOLEAN]

\* A decision that nobody has overtaken is still right about the row.
Decision(r) ==
    /\ r.kind = "publish" => challenge.status = "DRAFT"
    /\ r.kind = "reschedule" =>
          /\ challenge.status \in Reschedulable
          /\ r.to < challenge.deadline => ~r.registered
    /\ r.kind = "extend" =>
          /\ challenge.status \in Extendable
          /\ r.to > challenge.deadline
    /\ r.kind = "reopen" =>
          /\ challenge.status \in {"CLOSED", "OPEN"}
          /\ r.to >= challenge.deadline
    /\ r.kind = "cancel" => challenge.status \notin Terminal
    /\ r.kind = "publishResults" => ~challenge.published /\ snapshot = "FINALIZED"
    /\ r.kind = "retractResults" => challenge.published /\ snapshot = "PUBLISHED"

Decided == \A q \in Requests : request[q].fresh => Decision(request[q])

NeverClosed == challenge.status # "CLOSED"

\* Notices belong to dispatched revisions, and those of the present revision
\* name the present target.
Announced ==
    /\ \A r \in due : r <= reminder.dispatched
    /\ \A n \in reading \union notified :
          /\ n.revision \in due
          /\ n.revision = reminder.revision => n.target = reminder.target

Inv ==
    /\ TypeOK
    /\ Decided
    /\ NeverClosed
    /\ ResultsAgree
    /\ ReminderFollowsRow
    /\ Announced
    /\ OneDeadlinePerRevision

RowType == [status : Status, deadline : Nat,
            judged : BOOLEAN, decided : BOOLEAN, published : BOOLEAN]

ReminderType == [status : {"NONE", "SCHEDULED", "SENT", "CANCELLED"}, at : Nat,
                 target : Nat, revision : Nat, dispatched : Nat]

LEMMA Types ==
    ASSUME TypeOK
    PROVE  /\ challenge \in RowType
           /\ reminder \in ReminderType
           /\ request \in [Requests -> RequestType]
BY DEF TypeOK, RowType, ReminderType, RequestType

LEMMA IdleType == Idle \in RequestType /\ ~Idle.fresh
BY DEF Idle, RequestType

-----------------------------------------------------------------------------
(* Requests.                                                               *)

\* A request may be admitted with any decision that is right about the row.
LEMMA AdmitKeeps ==
    ASSUME Inv, NEW q \in Requests, NEW kind \in Kinds, NEW to \in Nat, NEW at \in Nat,
           NEW seen \in BOOLEAN, Admit(q, kind, to, at, seen),
           Decision([kind |-> kind, to |-> to, at |-> at, fresh |-> TRUE, registered |-> seen])
    PROVE  Inv'
<1> DEFINE new == [kind |-> kind, to |-> to, at |-> at, fresh |-> TRUE, registered |-> seen]
<1>1. new \in RequestType BY DEF RequestType
<1>2. request \in [Requests -> RequestType] BY Types DEF Inv
<1>3. request' = [request EXCEPT ![q] = new] BY DEF Admit
<1>4. request' \in [Requests -> RequestType] BY <1>1, <1>2, <1>3
<1> HIDE DEF new
<1>5. UNCHANGED <<challenge, snapshot, registered, reminder, due, reading, notified, now>>
  BY DEF Admit, rowVars, reminderVars
<1>6. TypeOK' BY <1>4, <1>5 DEF Inv, TypeOK, RequestType
<1>7. Decided'
  <2> SUFFICES ASSUME NEW p \in Requests, request'[p].fresh
               PROVE  Decision(request[p])'
    BY DEF Decided
  <2>1. CASE p = q
    <3>1. request'[p] = new BY <2>1, <1>2, <1>3
    <3>2. Decision(new) BY DEF new
    <3> QED BY <3>1, <3>2, <1>5 DEF Decision
  <2>2. CASE p # q
    <3>1. request'[p] = request[p] BY <2>2, <1>2, <1>3
    <3>2. Decision(request[p]) BY <3>1 DEF Inv, Decided
    <3> QED BY <3>1, <3>2, <1>5 DEF Decision
  <2> QED BY <2>1, <2>2
<1>8. (NeverClosed /\ ResultsAgree /\ ReminderFollowsRow /\ Announced /\ OneDeadlinePerRevision)'
  BY <1>5 DEF Inv, NeverClosed, ResultsAgree, ReminderFollowsRow, Announced,
              OneDeadlinePerRevision
<1> QED BY <1>6, <1>7, <1>8 DEF Inv

LEMMA CheckKeeps ==
    ASSUME ChallengesAssumption, Inv, NEW q \in Requests, Check(q)
    PROVE  Inv'
<1> DEFINE new(kind, to, at, seen) ==
        [kind |-> kind, to |-> to, at |-> at, fresh |-> TRUE, registered |-> seen]
<1>0. /\ challenge \in RowType /\ now \in Nat /\ registered \in BOOLEAN
      /\ Deadlines \subseteq Nat
  BY Types DEF Inv, TypeOK, ChallengesAssumption
<1>00. challenge.deadline \in Nat BY <1>0 DEF RowType
<1>1. CASE CheckUpdate(q)
  BY <1>1, AdmitKeeps DEF CheckUpdate, Decision, Kinds
<1>2. CASE CheckPublish(q)
  BY <1>2, <1>0, AdmitKeeps DEF CheckPublish, Decision, Kinds
<1>3. ASSUME NEW to \in Deadlines \union {challenge.deadline}, CheckReschedule(q, to)
      PROVE  Inv'
  <2>1. to \in Nat BY <1>0, <1>00
  <2>2. Decision(new("reschedule", to, 0, registered)) BY <1>3 DEF CheckReschedule, Decision
  <2> QED BY <1>3, <1>0, <2>1, <2>2, AdmitKeeps DEF CheckReschedule, Kinds
<1>4. ASSUME NEW to \in Deadlines, CheckExtend(q, to)
      PROVE  Inv'
  <2>2. Decision(new("extend", to, 0, FALSE)) BY <1>4 DEF CheckExtend, Decision
  <2> QED BY <1>4, <1>0, <2>2, AdmitKeeps DEF CheckExtend, Kinds
<1>5. ASSUME NEW to \in Deadlines, CheckReopen(q, to)
      PROVE  Inv'
  <2>1. challenge.status = "OPEN" /\ challenge.deadline <= now /\ to > now
    BY <1>5 DEF CheckReopen, Inv, NeverClosed
  <2>2. to >= challenge.deadline BY <2>1, <1>0, <1>00
  <2>3. Decision(new("reopen", to, now, FALSE)) BY <2>1, <2>2 DEF Decision
  <2> QED BY <1>5, <1>0, <2>3, AdmitKeeps DEF CheckReopen, Kinds
<1>6. CASE CheckCancel(q)
  BY <1>6, AdmitKeeps DEF CheckCancel, Decision, Kinds
<1>7. CASE CheckArchive(q)
  BY <1>7, AdmitKeeps DEF CheckArchive, Decision, Kinds
<1>8. CASE CheckFinalizeJudging(q)
  BY <1>8, AdmitKeeps DEF CheckFinalizeJudging, Decision, Kinds
<1>9. CASE CheckPublishResults(q)
  BY <1>9, AdmitKeeps DEF CheckPublishResults, MayPublishResults, Decision, Kinds
<1>10. CASE CheckRetractResults(q)
  BY <1>10, AdmitKeeps DEF CheckRetractResults, Decision, Kinds
<1>11. CASE CheckRegister(q)
  BY <1>11, AdmitKeeps DEF CheckRegister, Decision, Kinds
<1> QED
  BY <1>1, <1>2, <1>3, <1>4, <1>5, <1>6, <1>7, <1>8, <1>9, <1>10, <1>11 DEF Check

-----------------------------------------------------------------------------
(* Writes of the row.                                                      *)

\* A write overtakes every decision that is still pending.
LEMMA ProceedsKeeps ==
    ASSUME Inv, NEW q \in Requests, NEW kind, kind # "idle", Proceeds(q, kind)
    PROVE  /\ request' \in [Requests -> RequestType]
           /\ Decided'
           /\ request'[q] = Idle
           /\ Decision(request[q])
           /\ request[q] \in RequestType
           /\ UNCHANGED <<registered, due, reading, notified, now>>
<1>1. request \in [Requests -> RequestType] BY Types DEF Inv
<1>2. \A r \in Requests : Overtaken(request[r]) \in RequestType /\ ~Overtaken(request[r]).fresh
  BY <1>1 DEF Overtaken, RequestType
<1>3. request' = [r \in Requests |-> IF r = q THEN Idle ELSE Overtaken(request[r])]
  BY DEF Proceeds
<1>4. request' \in [Requests -> RequestType] BY <1>2, <1>3, IdleType
<1>5. \A r \in Requests : ~request'[r].fresh BY <1>2, <1>3, IdleType
<1>6. Decided' BY <1>5 DEF Decided
<1>7. Decision(request[q]) BY DEF Proceeds, Unchanged, Inv, Decided
<1> QED BY <1>1, <1>3, <1>4, <1>6, <1>7 DEF Proceeds

LEMMA RemindAtType ==
    ASSUME ChallengesAssumption, NEW row \in RowType, NEW t \in Nat
    PROVE  RemindAt(row, t) \in Nat
BY DEF ChallengesAssumption, RowType, RemindAt, Later

\* Whatever the row becomes, the synchronized reminder agrees with it, keeps
\* its history and has no new target at an old revision.
LEMMA SyncAgrees ==
    ASSUME ChallengesAssumption, NEW r \in ReminderType, r.dispatched <= r.revision,
           NEW row \in RowType, NEW t \in Nat
    PROVE  LET s == Synced(r, row, t)
           IN  /\ s \in ReminderType
               /\ s.dispatched = r.dispatched
               /\ s.revision >= r.revision
               /\ s.revision = r.revision => s.target = r.target
               /\ s.status \in {"SCHEDULED", "SENT"} =>
                     /\ s.target = row.deadline
                     /\ row.status \notin Terminal
<1> DEFINE cancelled == [r EXCEPT !.status = "CANCELLED", !.revision = @ + 1]
           scheduled == [r EXCEPT !.status = "SCHEDULED", !.at = RemindAt(row, t),
                                  !.target = row.deadline, !.revision = @ + 1]
<1>3. r.revision \in Nat /\ r.revision + 1 \in Nat /\ row.deadline \in Nat
      /\ RemindAt(row, t) \in Nat
  BY RemindAtType DEF ReminderType, RowType
<1>1. cancelled \in ReminderType /\ cancelled.dispatched = r.dispatched
      /\ cancelled.revision = r.revision + 1 /\ cancelled.status = "CANCELLED"
  <2>1. cancelled \in ReminderType BY <1>3 DEF ReminderType
  <2>2. cancelled.dispatched = r.dispatched BY DEF ReminderType
  <2>3. cancelled.revision = r.revision + 1 BY DEF ReminderType
  <2>4. cancelled.status = "CANCELLED" BY DEF ReminderType
  <2> QED BY <2>1, <2>2, <2>3, <2>4
<1>2. scheduled \in ReminderType /\ scheduled.dispatched = r.dispatched
      /\ scheduled.revision = r.revision + 1 /\ scheduled.target = row.deadline
  <2>1. scheduled \in ReminderType BY <1>3 DEF ReminderType
  <2>2. scheduled.dispatched = r.dispatched BY DEF ReminderType
  <2>3. scheduled.revision = r.revision + 1 BY DEF ReminderType
  <2>4. scheduled.target = row.deadline BY DEF ReminderType
  <2> QED BY <2>1, <2>2, <2>3, <2>4
<1>4. CASE Unwanted(row, t) /\ r.status \in {"NONE", "CANCELLED"}
  <2>1. Synced(r, row, t) = r BY <1>4 DEF Synced
  <2> QED BY <2>1, <1>4, <1>3
<1>5. CASE Unwanted(row, t) /\ r.status \notin {"NONE", "CANCELLED"}
  <2>1. Synced(r, row, t) = cancelled BY <1>5 DEF Synced
  <2> HIDE DEF cancelled
  <2> QED BY <2>1, <1>1, <1>3
<1>6. CASE ~Unwanted(row, t) /\ Matches(r, row, t)
  <2>1. Synced(r, row, t) = r BY <1>6 DEF Synced
  <2> QED BY <2>1, <1>6, <1>3 DEF Unwanted, Matches
<1>7. CASE ~Unwanted(row, t) /\ ~Matches(r, row, t)
  <2>1. Synced(r, row, t) = scheduled BY <1>7 DEF Synced
  <2> HIDE DEF scheduled
  <2> QED BY <2>1, <1>7, <1>2, <1>3 DEF Unwanted
<1> QED BY <1>4, <1>5, <1>6, <1>7

\* A write that leaves the reminder's deadline and the flags to the caller.
LEMMA AnnouncedStays ==
    ASSUME Inv, reminder' \in ReminderType,
           reminder'.dispatched = reminder.dispatched,
           reminder'.revision = reminder.revision => reminder'.target = reminder.target,
           reminder'.revision >= reminder.revision,
           UNCHANGED <<due, reading, notified>>
    PROVE  Announced' /\ OneDeadlinePerRevision' /\ reminder'.dispatched <= reminder'.revision
<1>1. reminder \in ReminderType /\ reminder.dispatched <= reminder.revision
      /\ due \subseteq Nat /\ reading \union notified \subseteq Notice
  BY Types DEF Inv, TypeOK
<1>2. \A n \in reading \union notified : n.revision \in due /\ n.revision \in Nat
  BY <1>1 DEF Inv, Announced, Notice
<1>3. \A r \in due : r <= reminder.dispatched BY DEF Inv, Announced
<1>4. reminder'.dispatched <= reminder'.revision
  BY <1>1 DEF ReminderType
<1>5. Announced'
  <2>1. \A r \in due' : r <= reminder'.dispatched BY <1>3
  <2>2. ASSUME NEW n \in reading' \union notified', n.revision = reminder'.revision
        PROVE  n.target = reminder'.target
    <3>1. n.revision \in due /\ n.revision \in Nat /\ n.revision <= reminder.dispatched
      BY <2>2, <1>2, <1>3
    <3>2. reminder'.revision = reminder.revision
      BY <3>1, <2>2, <1>1 DEF ReminderType
    <3>3. n.target = reminder.target BY <3>2, <2>2 DEF Inv, Announced
    <3> QED BY <3>2, <3>3
  <2> QED BY <2>1, <2>2, <1>2 DEF Announced
<1>6. OneDeadlinePerRevision' BY DEF Inv, OneDeadlinePerRevision
<1> QED BY <1>4, <1>5, <1>6

\* A write that brings the reminder in line keeps the invariant.
LEMMA SyncWriteKeeps ==
    ASSUME ChallengesAssumption, Inv, NEW q \in Requests, NEW kind, kind # "idle",
           Proceeds(q, kind), NEW row \in RowType, NEW t \in Nat, PutAndSync(row, t),
           row.status # "CLOSED", row.judged = challenge.judged,
           row.decided = challenge.decided, row.published = challenge.published
    PROVE  Inv'
<1>1. /\ request' \in [Requests -> RequestType]
      /\ Decided'
      /\ UNCHANGED <<registered, due, reading, notified, now>>
  BY ProceedsKeeps
<1>2. challenge' = row /\ reminder' = Synced(reminder, row, t) /\ snapshot' = snapshot
  BY DEF PutAndSync
<1>3. reminder \in ReminderType /\ reminder.dispatched <= reminder.revision
  BY Types DEF Inv, TypeOK
<1>4. /\ reminder' \in ReminderType
      /\ reminder'.dispatched = reminder.dispatched
      /\ reminder'.revision >= reminder.revision
      /\ reminder'.revision = reminder.revision => reminder'.target = reminder.target
      /\ reminder'.status \in {"SCHEDULED", "SENT"} =>
            reminder'.target = row.deadline /\ row.status \notin Terminal
  BY <1>2, <1>3, SyncAgrees
<1>5. Announced' /\ OneDeadlinePerRevision' /\ reminder'.dispatched <= reminder'.revision
  BY <1>1, <1>4, AnnouncedStays
<1>6. ReminderFollowsRow' BY <1>2, <1>4 DEF ReminderFollowsRow
<1>7. ResultsAgree' BY <1>2 DEF Inv, ResultsAgree
<1>8. NeverClosed' BY <1>2 DEF NeverClosed
<1>9. TypeOK' BY <1>1, <1>2, <1>4, <1>5 DEF Inv, TypeOK, RowType, ReminderType, RequestType
<1> QED BY <1>1, <1>5, <1>6, <1>7, <1>8, <1>9 DEF Inv

\* A write of the judging flags leaves the deadline and the reminder alone.
LEMMA FlagWriteKeeps ==
    ASSUME Inv, request' \in [Requests -> RequestType], Decided',
           challenge' \in RowType, challenge'.deadline = challenge.deadline,
           challenge'.status \in {"RESULTS_READY", "RESULTS_PUBLISHED"},
           snapshot' \in {"NONE", "FINALIZED", "PUBLISHED", "RETRACTED"}, ResultsAgree',
           UNCHANGED <<registered, reminder, due, reading, notified, now>>
    PROVE  Inv'
<1>1. ReminderFollowsRow' BY DEF Inv, ReminderFollowsRow, Terminal
<1>2. NeverClosed' BY DEF NeverClosed
<1>3. Announced' /\ OneDeadlinePerRevision' BY DEF Inv, Announced, OneDeadlinePerRevision
<1>4. TypeOK' BY DEF Inv, TypeOK, RowType, RequestType
<1> QED BY <1>1, <1>2, <1>3, <1>4 DEF Inv

\* What is written into the row has the row's type and leaves the rest alone.
LEMMA StatusWritten ==
    ASSUME NEW r \in RowType, NEW s \in Status, NEW row, row = [r EXCEPT !.status = s]
    PROVE  /\ row \in RowType
           /\ row.status = s
           /\ row.deadline = r.deadline
           /\ row.judged = r.judged
           /\ row.decided = r.decided
           /\ row.published = r.published
<1>1. row \in RowType BY DEF RowType
<1>2. row.status = s BY DEF RowType
<1>3. row.deadline = r.deadline BY DEF RowType
<1>4. row.judged = r.judged BY DEF RowType
<1>5. row.decided = r.decided BY DEF RowType
<1>6. row.published = r.published BY DEF RowType
<1> QED BY <1>1, <1>2, <1>3, <1>4, <1>5, <1>6

LEMMA DeadlineWritten ==
    ASSUME NEW r \in RowType, NEW d \in Nat, NEW row, row = [r EXCEPT !.deadline = d]
    PROVE  /\ row \in RowType
           /\ row.status = r.status
           /\ row.judged = r.judged
           /\ row.decided = r.decided
           /\ row.published = r.published
<1>1. row \in RowType BY DEF RowType
<1>2. row.status = r.status BY DEF RowType
<1>3. row.judged = r.judged BY DEF RowType
<1>4. row.decided = r.decided BY DEF RowType
<1>5. row.published = r.published BY DEF RowType
<1> QED BY <1>1, <1>2, <1>3, <1>4, <1>5

LEMMA CommitKeeps ==
    ASSUME ChallengesAssumption, Inv, NEW q \in Requests, Commit(q)
    PROVE  Inv'
<1>0. /\ challenge \in RowType /\ now \in Nat
      /\ request \in [Requests -> RequestType]
      /\ challenge.status # "CLOSED" /\ challenge.status \in Status
  BY Types DEF Inv, TypeOK, ResultsAgree, NeverClosed
<1>000. \A status \in {"SCHEDULED", "OPEN", "CANCELLED", "ARCHIVED", "RESULTS_READY",
                        "RESULTS_PUBLISHED"} : status \in Status /\ status # "CLOSED"
  BY DEF Status
<1>00. request[q] \in RequestType /\ request[q].to \in Nat /\ request[q].at \in Nat
  BY <1>0 DEF RequestType
<1>1. CASE Update(q)
  <2>1. /\ request' \in [Requests -> RequestType] /\ Decided'
        /\ UNCHANGED <<registered, due, reading, notified, now>>
    BY <1>1, ProceedsKeeps DEF Update
  <2>2. UNCHANGED <<challenge, snapshot, reminder>> BY <1>1 DEF Update
  <2> QED
    BY <2>1, <2>2 DEF Inv, TypeOK, RequestType, NeverClosed, ResultsAgree, ReminderFollowsRow,
                      Announced, OneDeadlinePerRevision
<1>2. CASE Publish(q)
  <2> DEFINE status == IF OpensAt <= request[q].at THEN "OPEN" ELSE "SCHEDULED"
             row == [challenge EXCEPT !.status = status]
  <2>1. Proceeds(q, "publish") /\ PutAndSync(row, request[q].at) BY <1>2 DEF Publish
  <2>2. status \in Status /\ status # "CLOSED" BY DEF Status
  <2>3. row = [challenge EXCEPT !.status = status] OBVIOUS
  <2> HIDE DEF status, row
  <2>4. /\ row \in RowType /\ row.status # "CLOSED" /\ row.judged = challenge.judged
        /\ row.decided = challenge.decided /\ row.published = challenge.published
    BY <1>0, <2>2, <2>3, StatusWritten
  <2> QED BY <1>00, <2>1, <2>4, SyncWriteKeeps
<1>3. CASE Reschedule(q)
  <2> DEFINE row == [challenge EXCEPT !.deadline = request[q].to]
  <2>1. Proceeds(q, "reschedule") /\ PutAndSync(row, now) BY <1>3 DEF Reschedule
  <2>2. row = [challenge EXCEPT !.deadline = request[q].to] OBVIOUS
  <2> HIDE DEF row
  <2>3. /\ row \in RowType /\ row.status # "CLOSED" /\ row.judged = challenge.judged
        /\ row.decided = challenge.decided /\ row.published = challenge.published
    BY <1>0, <1>00, <2>2, DeadlineWritten
  <2> QED BY <1>0, <2>1, <2>3, SyncWriteKeeps
<1>4. CASE Extend(q)
  <2> DEFINE row == [challenge EXCEPT !.deadline = request[q].to]
  <2>1. Proceeds(q, "extend") /\ PutAndSync(row, now) BY <1>4 DEF Extend
  <2>2. row = [challenge EXCEPT !.deadline = request[q].to] OBVIOUS
  <2> HIDE DEF row
  <2>3. /\ row \in RowType /\ row.status # "CLOSED" /\ row.judged = challenge.judged
        /\ row.decided = challenge.decided /\ row.published = challenge.published
    BY <1>0, <1>00, <2>2, DeadlineWritten
  <2> QED BY <1>0, <2>1, <2>3, SyncWriteKeeps
<1>5. CASE Reopen(q)
  <2> DEFINE opened == [challenge EXCEPT !.status = "OPEN"]
             row == [challenge EXCEPT !.status = "OPEN", !.deadline = request[q].to]
  <2>1. Proceeds(q, "reopen") /\ PutAndSync(row, request[q].at) BY <1>5 DEF Reopen
  <2>2. opened = [challenge EXCEPT !.status = "OPEN"] OBVIOUS
  <2>3. row = [opened EXCEPT !.deadline = request[q].to] BY <1>0 DEF RowType
  <2> HIDE DEF opened, row
  <2>4. /\ opened \in RowType /\ opened.status # "CLOSED" /\ opened.judged = challenge.judged
        /\ opened.decided = challenge.decided /\ opened.published = challenge.published
    BY <1>0, <1>000, <2>2, StatusWritten
  <2>5. /\ row \in RowType /\ row.status # "CLOSED" /\ row.judged = challenge.judged
        /\ row.decided = challenge.decided /\ row.published = challenge.published
    BY <1>00, <2>3, <2>4, DeadlineWritten
  <2> QED BY <1>00, <2>1, <2>5, SyncWriteKeeps
<1>6. CASE Cancel(q)
  <2> DEFINE row == [challenge EXCEPT !.status = "CANCELLED"]
  <2>1. Proceeds(q, "cancel") /\ PutAndSync(row, now) BY <1>6 DEF Cancel
  <2>2. row = [challenge EXCEPT !.status = "CANCELLED"] OBVIOUS
  <2> HIDE DEF row
  <2>3. /\ row \in RowType /\ row.status # "CLOSED" /\ row.judged = challenge.judged
        /\ row.decided = challenge.decided /\ row.published = challenge.published
    BY <1>0, <1>000, <2>2, StatusWritten
  <2> QED BY <1>0, <2>1, <2>3, SyncWriteKeeps
<1>7. CASE Archive(q)
  <2> DEFINE row == [challenge EXCEPT !.status = "ARCHIVED"]
  <2>1. Proceeds(q, "archive") /\ PutAndSync(row, now) BY <1>7 DEF Archive
  <2>2. row = [challenge EXCEPT !.status = "ARCHIVED"] OBVIOUS
  <2> HIDE DEF row
  <2>3. /\ row \in RowType /\ row.status # "CLOSED" /\ row.judged = challenge.judged
        /\ row.decided = challenge.decided /\ row.published = challenge.published
    BY <1>0, <1>000, <2>2, StatusWritten
  <2> QED BY <1>0, <2>1, <2>3, SyncWriteKeeps
<1>8. CASE FinalizeJudging(q)
  <2>1. /\ request' \in [Requests -> RequestType] /\ Decided'
        /\ UNCHANGED <<registered, due, reading, notified, now>>
    BY <1>8, ProceedsKeeps DEF FinalizeJudging
  <2>2. challenge' = [challenge EXCEPT !.status = "RESULTS_READY", !.judged = TRUE]
        /\ UNCHANGED <<snapshot, reminder>>
    BY <1>8 DEF FinalizeJudging
  <2>3. /\ challenge' \in RowType /\ challenge'.deadline = challenge.deadline
        /\ challenge'.status = "RESULTS_READY" /\ challenge'.judged
        /\ challenge'.decided = challenge.decided /\ challenge'.published = challenge.published
    <3>1. "RESULTS_READY" \in Status BY DEF Status
    <3>2. challenge' \in RowType
      <4>1. challenge' = [status |-> "RESULTS_READY", deadline |-> challenge.deadline,
                          judged |-> TRUE, decided |-> challenge.decided,
                          published |-> challenge.published]
        BY <1>0, <2>2 DEF RowType
      <4>2. /\ challenge.deadline \in Nat /\ challenge.judged \in BOOLEAN
            /\ challenge.decided \in BOOLEAN /\ challenge.published \in BOOLEAN
        BY <1>0 DEF RowType
      <4> QED BY <3>1, <4>1, <4>2 DEF RowType
    <3>3. challenge'.deadline = challenge.deadline BY <1>0, <2>2 DEF RowType
    <3>4. challenge'.status = "RESULTS_READY" BY <1>0, <2>2 DEF RowType
    <3>5. challenge'.judged BY <1>0, <2>2 DEF RowType
    <3>6. challenge'.decided = challenge.decided BY <1>0, <2>2 DEF RowType
    <3>7. challenge'.published = challenge.published BY <1>0, <2>2 DEF RowType
    <3> QED BY <3>2, <3>3, <3>4, <3>5, <3>6, <3>7
  <2>4. ResultsAgree' BY <2>2, <2>3 DEF Inv, ResultsAgree
  <2>5. snapshot' \in {"NONE", "FINALIZED", "PUBLISHED", "RETRACTED"}
    BY <2>2 DEF Inv, TypeOK
  <2> QED BY <2>1, <2>2, <2>3, <2>4, <2>5, FlagWriteKeeps
<1>9. CASE PublishResults(q)
  <2>1. /\ request' \in [Requests -> RequestType] /\ Decided' /\ Decision(request[q])
        /\ UNCHANGED <<registered, due, reading, notified, now>>
    BY <1>9, ProceedsKeeps DEF PublishResults
  <2>2. /\ challenge' = [challenge EXCEPT !.status = "RESULTS_PUBLISHED", !.published = TRUE]
        /\ snapshot' = "PUBLISHED" /\ UNCHANGED reminder
        /\ request[q].kind = "publishResults"
    BY <1>9 DEF PublishResults, Proceeds
  <2>3. /\ challenge' \in RowType /\ challenge'.deadline = challenge.deadline
        /\ challenge'.status = "RESULTS_PUBLISHED" /\ challenge'.published
        /\ challenge'.decided = challenge.decided /\ challenge'.judged = challenge.judged
    <3>1. "RESULTS_PUBLISHED" \in Status BY DEF Status
    <3>2. challenge' \in RowType
      <4>1. challenge' = [status |-> "RESULTS_PUBLISHED", deadline |-> challenge.deadline,
                          judged |-> challenge.judged, decided |-> challenge.decided,
                          published |-> TRUE]
        BY <1>0, <2>2 DEF RowType
      <4>2. /\ challenge.deadline \in Nat /\ challenge.judged \in BOOLEAN
            /\ challenge.decided \in BOOLEAN /\ challenge.published \in BOOLEAN
        BY <1>0 DEF RowType
      <4> QED BY <3>1, <4>1, <4>2 DEF RowType
    <3>3. challenge'.deadline = challenge.deadline BY <1>0, <2>2 DEF RowType
    <3>4. challenge'.status = "RESULTS_PUBLISHED" BY <1>0, <2>2 DEF RowType
    <3>5. challenge'.published BY <1>0, <2>2 DEF RowType
    <3>6. challenge'.decided = challenge.decided BY <1>0, <2>2 DEF RowType
    <3>7. challenge'.judged = challenge.judged BY <1>0, <2>2 DEF RowType
    <3> QED BY <3>2, <3>3, <3>4, <3>5, <3>6, <3>7
  <2>4. snapshot = "FINALIZED" BY <2>1, <2>2 DEF Decision
  <2>5. ResultsAgree' BY <2>2, <2>3, <2>4 DEF Inv, ResultsAgree
  <2> QED BY <2>1, <2>2, <2>3, <2>5, FlagWriteKeeps
<1>10. CASE RetractResults(q)
  <2>1. /\ request' \in [Requests -> RequestType] /\ Decided' /\ Decision(request[q])
        /\ UNCHANGED <<registered, due, reading, notified, now>>
    BY <1>10, ProceedsKeeps DEF RetractResults
  <2>2. /\ challenge' = [challenge EXCEPT !.status = "RESULTS_READY", !.published = FALSE]
        /\ snapshot' = "RETRACTED" /\ UNCHANGED reminder
        /\ request[q].kind = "retractResults"
    BY <1>10 DEF RetractResults, Proceeds
  <2>3. /\ challenge' \in RowType /\ challenge'.deadline = challenge.deadline
        /\ challenge'.status = "RESULTS_READY" /\ ~challenge'.published
        /\ challenge'.decided = challenge.decided /\ challenge'.judged = challenge.judged
    <3>1. "RESULTS_READY" \in Status BY DEF Status
    <3>2. challenge' \in RowType
      <4>1. challenge' = [status |-> "RESULTS_READY", deadline |-> challenge.deadline,
                          judged |-> challenge.judged, decided |-> challenge.decided,
                          published |-> FALSE]
        BY <1>0, <2>2 DEF RowType
      <4>2. /\ challenge.deadline \in Nat /\ challenge.judged \in BOOLEAN
            /\ challenge.decided \in BOOLEAN /\ challenge.published \in BOOLEAN
        BY <1>0 DEF RowType
      <4> QED BY <3>1, <4>1, <4>2 DEF RowType
    <3>3. challenge'.deadline = challenge.deadline BY <1>0, <2>2 DEF RowType
    <3>4. challenge'.status = "RESULTS_READY" BY <1>0, <2>2 DEF RowType
    <3>5. ~challenge'.published BY <1>0, <2>2 DEF RowType
    <3>6. challenge'.decided = challenge.decided BY <1>0, <2>2 DEF RowType
    <3>7. challenge'.judged = challenge.judged BY <1>0, <2>2 DEF RowType
    <3> QED BY <3>2, <3>3, <3>4, <3>5, <3>6, <3>7
  <2>4. snapshot = "PUBLISHED" BY <2>1, <2>2 DEF Decision
  <2>5. ResultsAgree' BY <2>2, <2>3, <2>4 DEF Inv, ResultsAgree
  <2> QED BY <2>1, <2>2, <2>3, <2>5, FlagWriteKeeps
<1>11. CASE Register(q) \/ Conflict(q)
  <2>1. /\ request' = [request EXCEPT ![q] = Idle] /\ registered' \in BOOLEAN
        /\ UNCHANGED <<challenge, snapshot, reminder, due, reading, notified, now>>
    BY <1>11 DEF Register, Conflict, rowVars, reminderVars, Inv, TypeOK
  <2>2. request' \in [Requests -> RequestType] BY <2>1, <1>0, IdleType
  <2>3. Decided'
    <3> SUFFICES ASSUME NEW p \in Requests, request'[p].fresh
                 PROVE  Decision(request[p])'
      BY DEF Decided
    <3>1. request'[p] = request[p] BY <2>1, <1>0, IdleType
    <3>2. Decision(request[p]) BY <3>1 DEF Inv, Decided
    <3> QED BY <3>1, <3>2, <2>1 DEF Decision
  <2> QED
    BY <2>1, <2>2, <2>3 DEF Inv, TypeOK, RequestType, NeverClosed, ResultsAgree,
                            ReminderFollowsRow, Announced, OneDeadlinePerRevision
<1> QED
  BY <1>1, <1>2, <1>3, <1>4, <1>5, <1>6, <1>7, <1>8, <1>9, <1>10, <1>11 DEF Commit
-----------------------------------------------------------------------------
(* The other actions.                                                      *)

LEMMA FinalizeResultsKeeps ==
    ASSUME Inv, FinalizeResults
    PROVE  Inv'
<1>1. challenge \in RowType /\ request \in [Requests -> RequestType]
  BY Types DEF Inv
<1>2. /\ challenge.judged
      /\ challenge' = [challenge EXCEPT !.status = "RESULTS_READY", !.decided = TRUE]
      /\ snapshot' = "FINALIZED"
      /\ request' = [r \in Requests |-> Overtaken(request[r])]
      /\ UNCHANGED <<registered, reminder, due, reading, notified, now>>
  BY DEF FinalizeResults, MayFinalizeResults, reminderVars
<1>3. \A r \in Requests : Overtaken(request[r]) \in RequestType /\ ~Overtaken(request[r]).fresh
  BY <1>1 DEF Overtaken, RequestType
<1>4. request' \in [Requests -> RequestType] BY <1>2, <1>3
<1>5. Decided' BY <1>2, <1>3 DEF Decided
<1>6. challenge' = [status |-> "RESULTS_READY", deadline |-> challenge.deadline,
                    judged |-> challenge.judged, decided |-> TRUE,
                    published |-> challenge.published]
  BY <1>1, <1>2 DEF RowType
<1>7. challenge' \in RowType
  <2>1. /\ challenge.deadline \in Nat /\ challenge.judged \in BOOLEAN
        /\ challenge.published \in BOOLEAN
    BY <1>1 DEF RowType
  <2>2. "RESULTS_READY" \in Status BY DEF Status
  <2> QED BY <1>6, <2>1, <2>2 DEF RowType
<1>8. ~challenge.published
  BY DEF Inv, ResultsAgree, FinalizeResults, MayFinalizeResults
<1>9. ResultsAgree' BY <1>2, <1>6, <1>8 DEF ResultsAgree
<1>10. challenge'.deadline = challenge.deadline /\ challenge'.status = "RESULTS_READY"
  BY <1>6
<1> QED BY <1>2, <1>4, <1>5, <1>7, <1>9, <1>10, FlagWriteKeeps

LEMMA DispatchKeeps ==
    ASSUME Inv, Dispatch
    PROVE  Inv'
<1>1. /\ reminder \in ReminderType /\ reminder.dispatched <= reminder.revision
      /\ due \subseteq Nat
  BY Types DEF Inv, TypeOK
<1>2. /\ reminder.status = "SCHEDULED"
      /\ reminder' = [reminder EXCEPT !.status = "SENT", !.dispatched = reminder.revision]
      /\ due' = due \union {reminder.revision}
      /\ UNCHANGED <<challenge, snapshot, registered, reading, notified, request, now>>
  BY DEF Dispatch, rowVars
<1>3. reminder' = [status |-> "SENT", at |-> reminder.at, target |-> reminder.target,
                   revision |-> reminder.revision, dispatched |-> reminder.revision]
  BY <1>1, <1>2 DEF ReminderType
<1>4. reminder.at \in Nat /\ reminder.target \in Nat /\ reminder.revision \in Nat
      /\ reminder.dispatched \in Nat
  BY <1>1 DEF ReminderType
<1>5. reminder' \in ReminderType BY <1>3, <1>4 DEF ReminderType
<1>6. /\ reminder'.status = "SENT" /\ reminder'.target = reminder.target
      /\ reminder'.revision = reminder.revision /\ reminder'.dispatched = reminder.revision
  BY <1>3
<1>7. due' \subseteq Nat BY <1>1, <1>2, <1>4
<1>8. TypeOK' BY <1>2, <1>4, <1>5, <1>6, <1>7 DEF Inv, TypeOK, ReminderType
<1>9. Decided' BY <1>2 DEF Inv, Decided, Decision
<1>10. NeverClosed' /\ ResultsAgree' BY <1>2 DEF Inv, NeverClosed, ResultsAgree
<1>11. ReminderFollowsRow' BY <1>2, <1>6 DEF Inv, ReminderFollowsRow
<1>12. Announced'
  <2>1. \A r \in due' : r <= reminder'.dispatched
    BY <1>1, <1>2, <1>4, <1>6 DEF Inv, Announced
  <2> QED BY <1>2, <1>6, <2>1 DEF Inv, Announced
<1>13. OneDeadlinePerRevision' BY <1>2 DEF Inv, OneDeadlinePerRevision
<1> QED BY <1>8, <1>9, <1>10, <1>11, <1>12, <1>13 DEF Inv

\* Two notices of one dispatched revision name one target.
LEMMA NoticesKeep ==
    ASSUME Inv, UNCHANGED <<challenge, snapshot, registered, reminder, due, request, now>>,
           reading' \subseteq Notice, notified' \subseteq Notice,
           \A n \in reading' \union notified' :
              \/ n \in reading \union notified
              \/ /\ n = [revision |-> reminder.revision, target |-> reminder.target]
                 /\ reminder.revision \in due
    PROVE  Inv'
<1>1. TypeOK' BY DEF Inv, TypeOK
<1>2. Decided' BY DEF Inv, Decided, Decision
<1>3. NeverClosed' /\ ResultsAgree' /\ ReminderFollowsRow'
  BY DEF Inv, NeverClosed, ResultsAgree, ReminderFollowsRow
<1>4. \A n \in reading' \union notified' :
         n.revision \in due /\ (n.revision = reminder.revision => n.target = reminder.target)
  BY DEF Inv, Announced
<1>5. Announced' BY <1>4 DEF Inv, Announced
<1>6. ASSUME NEW m \in reading' \union notified', NEW n \in reading' \union notified',
             m.revision = n.revision
      PROVE  m = n
  <2>1. m \in Notice /\ n \in Notice OBVIOUS
  <2>2. CASE m.revision = reminder.revision
    <3>1. m.target = n.target BY <2>2, <1>4, <1>6
    <3> QED BY <3>1, <1>6, <2>1 DEF Notice
  <2>3. CASE m.revision # reminder.revision
    <3>1. m \in reading \union notified /\ n \in reading \union notified BY <2>3, <1>6
    <3> QED BY <3>1, <1>6 DEF Inv, OneDeadlinePerRevision
  <2> QED BY <2>2, <2>3
<1>7. OneDeadlinePerRevision' BY <1>4, <1>6 DEF OneDeadlinePerRevision
<1> QED BY <1>1, <1>2, <1>3, <1>5, <1>7 DEF Inv

LEMMA HandlerKeeps ==
    ASSUME Inv,
           \/ \E revision \in due : ReadReminder(revision)
           \/ \E n \in reading : Notify(n) \/ Abandon(n)
    PROVE  Inv'
<1>1. reading \subseteq Notice /\ notified \subseteq Notice /\ reminder \in ReminderType
  BY Types DEF Inv, TypeOK
<1>2. ASSUME NEW revision \in due, ReadReminder(revision)
      PROVE  Inv'
  <2> DEFINE n == [revision |-> reminder.revision, target |-> reminder.target]
  <2>1. /\ reminder.revision = revision
        /\ reading' = reading \union {n} /\ notified' = notified
        /\ UNCHANGED <<challenge, snapshot, registered, reminder, due, request, now>>
    BY <1>2 DEF ReadReminder, Current, rowVars
  <2>2. n \in Notice BY <1>1 DEF Notice, ReminderType
  <2> HIDE DEF n
  <2>3. reading' \subseteq Notice /\ notified' \subseteq Notice BY <1>1, <2>1, <2>2
  <2>4. \A k \in reading' \union notified' :
           k \in reading \union notified \/ (k = n /\ reminder.revision \in due)
    BY <2>1, <1>2
  <2> QED BY <2>1, <2>3, <2>4, NoticesKeep DEF n
<1>3. ASSUME NEW n \in reading, Notify(n) \/ Abandon(n)
      PROVE  Inv'
  <2>1. /\ reading' \union notified' \subseteq reading \union notified
        /\ UNCHANGED <<challenge, snapshot, registered, reminder, due, request, now>>
    BY <1>3 DEF Notify, Abandon, rowVars
  <2> QED BY <1>1, <2>1, NoticesKeep
<1> QED BY <1>2, <1>3

LEMMA UnchangedKeeps ==
    ASSUME Inv, UNCHANGED <<rowVars, reminderVars, request>>, now' \in Nat
    PROVE  Inv'
<1>1. UNCHANGED <<challenge, snapshot, registered, reminder, due, reading, notified, request>>
  BY DEF rowVars, reminderVars
<1>2. Decided' BY <1>1 DEF Inv, Decided, Decision
<1>3. (NeverClosed /\ ResultsAgree /\ ReminderFollowsRow /\ Announced /\ OneDeadlinePerRevision)'
  BY <1>1 DEF Inv, NeverClosed, ResultsAgree, ReminderFollowsRow, Announced,
              OneDeadlinePerRevision
<1>4. TypeOK' BY <1>1 DEF Inv, TypeOK
<1> QED BY <1>2, <1>3, <1>4 DEF Inv

LEMMA InitInv == Init => Inv
<1> SUFFICES ASSUME Init PROVE Inv OBVIOUS
<1>1. challenge.status = "DRAFT" /\ challenge.deadline = 0 /\ challenge.judged = FALSE
      /\ challenge.decided = FALSE /\ challenge.published = FALSE
  BY DEF Init
<1>2. TypeOK
  <2>1. challenge \in RowType BY DEF Init, RowType, Status
  <2>2. reminder \in ReminderType /\ reminder.dispatched <= reminder.revision
    BY DEF Init, ReminderType, NoReminder
  <2>3. request \in [Requests -> RequestType] BY IdleType DEF Init
  <2> QED BY <2>1, <2>2, <2>3 DEF Init, TypeOK, RowType, ReminderType, RequestType
<1>3. Decided BY IdleType DEF Init, Decided
<1>4. NeverClosed /\ ResultsAgree /\ ReminderFollowsRow
  BY <1>1 DEF Init, NeverClosed, ResultsAgree, ReminderFollowsRow, NoReminder
<1>5. Announced /\ OneDeadlinePerRevision BY DEF Init, Announced, OneDeadlinePerRevision
<1> QED BY <1>2, <1>3, <1>4, <1>5 DEF Inv

LEMMA NextKeeps == Inv /\ [Next]_vars => Inv'
<1> SUFFICES ASSUME Inv, [Next]_vars PROVE Inv' OBVIOUS
<1> USE ChallengesAssumption
<1>1. now \in Nat BY DEF Inv, TypeOK
<1>2. ASSUME NEW q \in Requests, Check(q) \/ Commit(q) PROVE Inv'
  BY <1>2, CheckKeeps, CommitKeeps
<1>3. CASE FinalizeResults BY <1>3, FinalizeResultsKeeps
<1>4. CASE Dispatch BY <1>4, DispatchKeeps
<1>5. CASE \/ \E revision \in due : ReadReminder(revision)
           \/ \E n \in reading : Notify(n) \/ Abandon(n)
  BY <1>5, HandlerKeeps
<1>6. CASE Tick BY <1>1, <1>6, UnchangedKeeps DEF Tick
<1>7. CASE UNCHANGED vars BY <1>1, <1>7, UnchangedKeeps DEF vars
<1> QED BY <1>2, <1>3, <1>4, <1>5, <1>6, <1>7 DEF Next

-----------------------------------------------------------------------------
(* Theorems.                                                               *)

\* The inductive invariant, for any number of requests and any deadlines.
THEOREM Invariance == Spec => []Inv
<1>1. Init => Inv BY InitInv
<1>2. Inv /\ [Next]_vars => Inv' BY NextKeeps
<1> QED BY <1>1, <1>2, PTL DEF Spec

\* The row, its snapshot and its reminder always have their types
\* (challenges.service.ts, challenge-reminder-schedules.ts).
THEOREM TypeCorrect == Spec => []TypeOK
<1>1. Inv => TypeOK BY DEF Inv
<1> QED BY <1>1, Invariance, PTL

\* Publication and retraction, which write the row and the snapshot, never
\* leave them telling different stories (judging.service.ts).
THEOREM ResultsStayInAgreement == Spec => []ResultsAgree
<1>1. Inv => ResultsAgree BY DEF Inv
<1> QED BY <1>1, Invariance, PTL

\* The live reminder names the deadline of the row whichever operations race
\* (syncChallengeReminderSchedules).
THEOREM ReminderAlwaysFollows == Spec => []ReminderFollowsRow
<1>1. Inv => ReminderFollowsRow BY DEF Inv
<1> QED BY <1>1, Invariance, PTL

\* Late and repeated reminder.due events never announce two deadlines under
\* one revision (reminder-events.handler.ts).
THEOREM RevisionsAnnounceOnce == Spec => []OneDeadlinePerRevision
<1>1. Inv => OneDeadlinePerRevision BY DEF Inv
<1> QED BY <1>1, Invariance, PTL

\* The row changes in these steps only.
LEMMA RowChanges ==
    ASSUME [Next]_vars, challenge' # challenge
    PROVE  \/ FinalizeResults
           \/ \E q \in Requests :
                 \/ Publish(q) \/ Reschedule(q) \/ Extend(q) \/ Reopen(q) \/ Cancel(q)
                 \/ Archive(q) \/ FinalizeJudging(q) \/ PublishResults(q) \/ RetractResults(q)
<1>1. ASSUME NEW q \in Requests, Check(q) PROVE FALSE
  BY <1>1 DEF Check, CheckUpdate, CheckPublish, CheckReschedule, CheckExtend, CheckReopen,
              CheckCancel, CheckArchive, CheckFinalizeJudging, CheckPublishResults,
              CheckRetractResults, CheckRegister, Admit, rowVars
<1>2. ASSUME NEW q \in Requests, Update(q) \/ Register(q) \/ Conflict(q) PROVE FALSE
  BY <1>2 DEF Update, Register, Conflict, rowVars
<1>3. CASE \/ Dispatch \/ (\E revision \in due : ReadReminder(revision))
           \/ (\E n \in reading : Notify(n) \/ Abandon(n)) \/ Tick \/ UNCHANGED vars
  BY <1>3 DEF Dispatch, ReadReminder, Notify, Abandon, Tick, vars, rowVars
<1> QED BY <1>1, <1>2, <1>3 DEF Next, Commit

LEMMA StepForward ==
    ASSUME Inv, [Next]_vars, challenge'.status # challenge.status
    PROVE  /\ challenge'.status # "DRAFT"
           /\ challenge'.status \in {"SCHEDULED", "OPEN"} => challenge.status = "DRAFT"
           /\ challenge'.status = "CANCELLED" => challenge.status # "ARCHIVED"
<1>0. challenge \in RowType BY Types DEF Inv
<1>1. CASE FinalizeResults
  <2>1. challenge'.status = "RESULTS_READY" BY <1>0, <1>1 DEF FinalizeResults, RowType
  <2> QED BY <2>1
<1>2. ASSUME NEW q \in Requests, FinalizeJudging(q) \/ PublishResults(q) \/ RetractResults(q)
      PROVE  challenge'.status \in {"RESULTS_READY", "RESULTS_PUBLISHED"}
  BY <1>0, <1>2 DEF FinalizeJudging, PublishResults, RetractResults, RowType
<1>3. ASSUME NEW q \in Requests, Publish(q)
      PROVE  challenge'.status \in {"SCHEDULED", "OPEN"} /\ challenge.status = "DRAFT"
  <2>1. Decision(request[q]) /\ request[q].kind = "publish"
    BY <1>3, ProceedsKeeps DEF Publish, Proceeds
  <2> QED BY <1>0, <1>3, <2>1 DEF Publish, PutAndSync, Decision, RowType
<1>4. ASSUME NEW q \in Requests, Reschedule(q) \/ Extend(q)
      PROVE  challenge'.status = challenge.status
  BY <1>0, <1>4 DEF Reschedule, Extend, PutAndSync, RowType
<1>5. ASSUME NEW q \in Requests, Reopen(q)
      PROVE  challenge'.status = challenge.status
  <2>1. Decision(request[q]) /\ request[q].kind = "reopen"
    BY <1>5, ProceedsKeeps DEF Reopen, Proceeds
  <2>2. challenge.status = "OPEN" BY <2>1 DEF Decision, Inv, NeverClosed
  <2> QED BY <1>0, <1>5, <2>2 DEF Reopen, PutAndSync, RowType
<1>6. ASSUME NEW q \in Requests, Cancel(q)
      PROVE  challenge'.status = "CANCELLED" /\ challenge.status # "ARCHIVED"
  <2>1. Decision(request[q]) /\ request[q].kind = "cancel"
    BY <1>6, ProceedsKeeps DEF Cancel, Proceeds
  <2> QED BY <1>0, <1>6, <2>1 DEF Cancel, PutAndSync, Decision, Terminal, RowType
<1>7. ASSUME NEW q \in Requests, Archive(q)
      PROVE  challenge'.status = "ARCHIVED"
  BY <1>0, <1>7 DEF Archive, PutAndSync, RowType
<1> QED BY <1>1, <1>2, <1>3, <1>4, <1>5, <1>6, <1>7, RowChanges

\* No interleaving of organizer operations takes a challenge back, although
\* each decides on a row it read without a lock (challenges.service.ts).
THEOREM LifecycleForward == Spec => LifecycleMovesForward
<1>1. Inv /\ [Next]_vars =>
        [challenge'.status # challenge.status =>
           /\ challenge'.status # "DRAFT"
           /\ challenge'.status \in {"SCHEDULED", "OPEN"} => challenge.status = "DRAFT"
           /\ challenge'.status = "CANCELLED" => challenge.status # "ARCHIVED"]_vars
  BY StepForward
<1> QED BY <1>1, Invariance, PTL DEF Spec, LifecycleMovesForward

LEMMA StepShortens ==
    ASSUME Inv, [Next]_vars, challenge'.deadline < challenge.deadline
    PROVE  \E q \in Requests : /\ request[q].kind = "reschedule"
                               /\ request'[q] = Idle
                               /\ ~request[q].registered
<1>0. /\ challenge \in RowType /\ request \in [Requests -> RequestType]
      /\ challenge.deadline \in Nat
  BY Types DEF Inv, RowType
<1>1. challenge' # challenge BY <1>0
<1>2. ASSUME NEW q \in Requests, Reschedule(q)
      PROVE  request[q].kind = "reschedule" /\ request'[q] = Idle /\ ~request[q].registered
  <2>1. /\ Decision(request[q]) /\ request[q].kind = "reschedule" /\ request'[q] = Idle
    BY <1>2, ProceedsKeeps DEF Reschedule, Proceeds
  <2>2. challenge'.deadline = request[q].to BY <1>0, <1>2 DEF Reschedule, PutAndSync, RowType
  <2> QED BY <2>1, <2>2 DEF Decision
<1>3. ASSUME NEW q \in Requests, Extend(q) PROVE FALSE
  <2>1. Decision(request[q]) /\ request[q].kind = "extend" /\ request[q].to \in Nat
    BY <1>0, <1>3, ProceedsKeeps DEF Extend, Proceeds, RequestType
  <2>2. challenge'.deadline = request[q].to BY <1>0, <1>3 DEF Extend, PutAndSync, RowType
  <2> QED BY <1>0, <2>1, <2>2 DEF Decision
<1>4. ASSUME NEW q \in Requests, Reopen(q) PROVE FALSE
  <2>1. Decision(request[q]) /\ request[q].kind = "reopen" /\ request[q].to \in Nat
    BY <1>0, <1>4, ProceedsKeeps DEF Reopen, Proceeds, RequestType
  <2>2. challenge'.deadline = request[q].to BY <1>0, <1>4 DEF Reopen, PutAndSync, RowType
  <2> QED BY <1>0, <2>1, <2>2 DEF Decision
<1>5. ASSUME NEW q \in Requests,
             Publish(q) \/ Cancel(q) \/ Archive(q) \/ FinalizeJudging(q) \/ PublishResults(q)
             \/ RetractResults(q)
      PROVE  challenge'.deadline = challenge.deadline
  BY <1>0, <1>5 DEF Publish, Cancel, Archive, FinalizeJudging, PublishResults, RetractResults,
                    PutAndSync, RowType
<1>6. FinalizeResults => challenge'.deadline = challenge.deadline
  BY <1>0 DEF FinalizeResults, RowType
<1>7. challenge'.deadline # challenge.deadline BY <1>0
<1> QED BY <1>1, <1>2, <1>3, <1>4, <1>5, <1>6, <1>7, RowChanges

\* Participants who were there when a request was admitted are safe from it
\* shortening their deadline, however extensions and reopenings interleave.
THEOREM DeadlinesShortenUnseen == Spec => ShortenedOnlyUnseen
<1>1. Inv /\ [Next]_vars =>
        [challenge'.deadline < challenge.deadline =>
           \E q \in Requests : /\ request[q].kind = "reschedule"
                               /\ request'[q] = Idle
                               /\ ~request[q].registered]_vars
  BY StepShortens
<1> QED BY <1>1, Invariance, PTL DEF Spec, ShortenedOnlyUnseen
=============================================================================

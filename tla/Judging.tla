------------------------------- MODULE Judging -------------------------------
(***************************************************************************)
(* Judging one challenge: judge assignments and their scorecards, the      *)
(* rubric they are scored under, the finalization that locks the submitted *)
(* cards, and the results computed from the locked ones.                   *)
(*                                                                         *)
(* A judge writes a card under its row lock.  An organizer reads without   *)
(* locks and writes without conditions, but for two operations: finalizing *)
(* judging carries the version of the challenge it read as a condition,    *)
(* and activating a rubric or finalizing results locks the challenge row.  *)
(* The submissions live as SubmissionLife says.  The challenge has one     *)
(* rubric; a weighted total is abstracted to the product of its version    *)
(* and the scores; a card and its assignment share an id.                  *)
(***************************************************************************)
EXTENDS Naturals, FiniteSets, Functions

CONSTANTS
    Requests,     \* concurrent organizer requests, and judges changing assignments
    Judges,       \* staff of the challenge with the role JUDGE
    Submissions,  \* submissions to the challenge
    Cards,        \* ids of judge assignments and of their scorecards
    Scores,       \* what a judge may score
    Rubrics,      \* versions of the rubric
    None

ASSUME JudgingAssumption ==
    /\ Scores \subseteq Nat \ {0}
    /\ Rubrics \subseteq Nat \ {0}
    /\ None \notin Cards \union Judges \union Submissions

VARIABLES
    challenge,   \* status ("results" for RESULTS_READY and RESULTS_PUBLISHED, "open" for
                 \* every status before), started (judging_start_at has passed),
                 \* judged and decided (judging and results are finalized)
    active,      \* the active rubric version, 0 before there is one
    staff,       \* judges whose staff assignment is ACTIVE
    life,        \* the submissions
    assignment,  \* judge_assignment rows: status, judge, submission
    card,        \* scorecard rows: status, rubric, criterion scores, total_score
    result,      \* submission_result rows
    request      \* what each request has read and decided

rows == <<challenge, active, staff, life, assignment, card, result>>
vars == <<rows, request>>

Live(s) == INSTANCE SubmissionLife WITH life <- life[s]

NoAssignment == [status |-> "NONE", judge |-> None, submission |-> None]

NoCard == [status |-> "NONE", rubric |-> 0, scores |-> 0, total |-> 0]

\* plan: the assignments to create; was: the status read of the assignment; seen: the
\* submitted cards listed; fresh: what the request relies on has not changed since it
\* was read (the version of the challenge, or that no card is submitted).
Idle == [kind |-> "idle", plan |-> {}, card |-> None, was |-> "NONE", rubric |-> 0,
         seen |-> [c \in Cards |-> NoCard], fresh |-> FALSE]

Init ==
    /\ challenge = [status |-> "open", started |-> FALSE, judged |-> FALSE, decided |-> FALSE]
    /\ active = 0
    /\ staff = Judges
    /\ life = [s \in Submissions |-> Live(s)!Unborn]
    /\ assignment = [c \in Cards |-> NoAssignment]
    /\ card = [c \in Cards |-> NoCard]
    /\ result = {}
    /\ request = [q \in Requests |-> Idle]

Total(rubric, scores) == rubric * scores

(***************************************************************************)
(* What an organizer, or a judge about an assignment, reads and decides.   *)
(***************************************************************************)
Admit(q, r) ==
    /\ request[q] = Idle
    /\ request' = [request EXCEPT ![q] = r]
    /\ UNCHANGED rows

About(kind, c) == [Idle EXCEPT !.kind = kind, !.card = c, !.was = assignment[c].status]

\* An activation in progress holds the lock of the challenge row.
ChallengeLocked == \E q \in Requests : request[q].kind = "activate"

\* Mutant: submitted cards are no obstacle.
MayActivateAnyTime ==
    ~challenge.started /\ challenge.status \notin {"results", "archived"}

\* Nothing sets the status JUDGING, which bars an activation too.
MayActivate ==
    /\ ~challenge.started
    /\ challenge.status \notin {"results", "archived"}
    /\ \A c \in Cards : card[c].status \in {"NONE", "DRAFT"}

CheckActivate(q, v) ==
    /\ ~ChallengeLocked
    /\ v # active
    /\ MayActivate
    /\ Admit(q, [Idle EXCEPT !.kind = "activate", !.rubric = v, !.fresh = TRUE])

Place(s, j) == [submission |-> s, judge |-> j]

CheckAssign(q, s, j) ==
    /\ j \in staff
    /\ life[s].status = "FINALIZED"
    /\ active # 0
    /\ Admit(q, [Idle EXCEPT !.kind = "assign", !.plan = {Place(s, j)}, !.rubric = active])

\* The assignments the unique index and the balance count.
Counts(c) == assignment[c].status \notin {"NONE", "REASSIGNED"}

Load(j) == Cardinality({c \in Cards : Counts(c) /\ assignment[c].judge = j})

Unassigned == {s \in Submissions : /\ life[s].status = "FINALIZED"
                                   /\ ~\E c \in Cards : Counts(c) /\ assignment[c].submission = s}

\* What giving each submission in turn to the least loaded judge ends in, in any order.
Balanced(f) ==
    LET Ends(j) == Load(j) + Cardinality({s \in DOMAIN f : f[s] = j})
    IN  \A s \in DOMAIN f : \A j \in staff : Ends(f[s]) <= Ends(j) + 1

CheckBalance(q) ==
    /\ active # 0
    /\ staff # {}
    /\ \E f \in [Unassigned -> staff] :
          /\ Balanced(f)
          /\ Admit(q, [Idle EXCEPT !.kind = "assign", !.rubric = active,
                                   !.plan = {Place(s, f[s]) : s \in Unassigned}])

MayMove(c) == assignment[c].status = "ASSIGNED" /\ card[c].status = "DRAFT"

CheckReassign(q, c, j) ==
    /\ MayMove(c)
    /\ j \in staff
    /\ Admit(q, [About("reassign", c) EXCEPT !.rubric = card[c].rubric,
                                             !.plan = {Place(assignment[c].submission, j)}])

CheckRemove(q, c) ==
    /\ MayMove(c)
    /\ Admit(q, About("remove", c))

MayDeclare(c) == assignment[c].status = "ASSIGNED"

\* declareConflict and recuse read the assignment in a transaction of its own.
CheckDeclare(q, c) ==
    /\ MayDeclare(c)
    /\ assignment[c].judge \in staff
    /\ Admit(q, About("declare", c))

\* Mutant: any assignment can be recused.
MayRecuseAny(c) == assignment[c].status # "NONE"

MayRecuse(c) == assignment[c].status \in {"ASSIGNED", "CONFLICT_DECLARED"}

CheckRecuse(q, c) ==
    /\ MayRecuse(c)
    /\ assignment[c].judge \in staff
    /\ Admit(q, About("recuse", c))

CheckReopen(q, c) ==
    /\ card[c].status \in {"SUBMITTED", "LOCKED"}
    /\ Admit(q, About("reopen", c))

\* findById, then listScorecardsForChallenge.
CheckFinalizeJudging(q) ==
    /\ ~challenge.judged
    /\ Admit(q, [Idle EXCEPT !.kind = "finalizeJudging", !.fresh = TRUE,
                             !.seen = [c \in Cards |-> IF card[c].status = "SUBMITTED"
                                                       THEN card[c] ELSE NoCard]])

(***************************************************************************)
(* What it writes.                                                         *)
(***************************************************************************)
Answer(q, kind) ==
    /\ request[q].kind = kind
    /\ request' = [request EXCEPT ![q] = Idle]

Activate(q) ==
    /\ Answer(q, "activate")
    /\ active' = request[q].rubric
    /\ UNCHANGED <<challenge, staff, life, assignment, card, result>>

\* No two live assignments of one judge for one submission (a unique index).
IndexHolds(table) ==
    \A c, d \in Cards :
        (/\ table[c].status \notin {"NONE", "REASSIGNED"}
         /\ table[d].status \notin {"NONE", "REASSIGNED"}
         /\ table[c].judge = table[d].judge
         /\ table[c].submission = table[d].submission) => c = d

\* Insert an assignment with its draft card for every place of the plan into table.
Insert(plan, rubric, table) ==
    \E f \in [plan -> {c \in Cards : assignment[c].status = "NONE"}] :
        /\ IsInjective(f)
        /\ assignment' = [c \in Cards |->
               IF \E p \in plan : f[p] = c
               THEN LET p == CHOOSE p \in plan : f[p] = c
                    IN  [status |-> "ASSIGNED", judge |-> p.judge, submission |-> p.submission]
               ELSE table[c]]
        /\ card' = [c \in Cards |->
               IF \E p \in plan : f[p] = c
               THEN [NoCard EXCEPT !.status = "DRAFT", !.rubric = rubric]
               ELSE card[c]]
        /\ IndexHolds(assignment')

Assign(q) ==
    /\ Answer(q, "assign")
    /\ Insert(request[q].plan, request[q].rubric, assignment)
    /\ UNCHANGED <<challenge, active, staff, life, result>>

\* assignment with the status of c overwritten, whatever it was.
Marked(c, status) == [assignment EXCEPT ![c].status = status]

Reassign(q) ==
    LET c == request[q].card
    IN  /\ Answer(q, "reassign")
        /\ Insert(request[q].plan, request[q].rubric, Marked(c, "REASSIGNED"))
        /\ UNCHANGED <<challenge, active, staff, life, result>>

SetStatus(q, kind, status) ==
    LET c == request[q].card
    IN  /\ Answer(q, kind)
        /\ assignment' = Marked(c, status)
        /\ IndexHolds(assignment')
        /\ UNCHANGED <<challenge, active, staff, life, card, result>>

Remove(q) == SetStatus(q, "remove", "REASSIGNED")

Declare(q) == SetStatus(q, "declare", "CONFLICT_DECLARED")

Recuse(q) == SetStatus(q, "recuse", "RECUSED")

\* The row only: the criterion scores and the total stay.
ReopenCard(q) ==
    LET c == request[q].card
    IN  /\ Answer(q, "reopen")
        /\ card' = [card EXCEPT ![c].status = "DRAFT"]
        /\ UNCHANGED <<challenge, active, staff, life, assignment, result>>

\* Mutant: the total of the row is kept, only the criterion scores are written again.
LockedKeepingTotal(now, listed) ==
    IF now.status = "SUBMITTED"
    THEN [now EXCEPT !.status = "LOCKED", !.scores = listed.scores]
    ELSE [now EXCEPT !.scores = listed.scores]

\* Mutant: the update of the row carries no condition on the status.
LockedWhateverStatus(now, listed) ==
    [now EXCEPT !.status = "LOCKED", !.scores = listed.scores, !.total = listed.total]

\* The card after submitScorecard with lock: the criterion scores are written again
\* as they were listed, and the row is locked with the listed total if it is still,
\* or again, submitted.
Locked(now, listed) ==
    IF now.status = "SUBMITTED"
    THEN [now EXCEPT !.status = "LOCKED", !.scores = listed.scores, !.total = listed.total]
    ELSE [now EXCEPT !.scores = listed.scores]

\* The version of the challenge is incremented.
Overtaken(r) == IF r.kind = "finalizeJudging" THEN [r EXCEPT !.fresh = FALSE] ELSE r

\* Mutant: the update of the challenge carries no condition on the version.
VersionIgnored(q) == TRUE

VersionHolds(q) == request[q].fresh

Listed(q, c) == request[q].seen[c] # NoCard

\* The writes of one transaction; a locked card cannot be written (a trigger).
FinalizeJudging(q) ==
    /\ request[q].kind = "finalizeJudging"
    /\ ~ChallengeLocked
    /\ VersionHolds(q)
    /\ \A c \in Cards : Listed(q, c) => card[c].status # "LOCKED"
    /\ card' = [c \in Cards |-> IF Listed(q, c) THEN Locked(card[c], request[q].seen[c])
                                ELSE card[c]]
    /\ challenge' = [challenge EXCEPT !.status = "results", !.judged = TRUE]
    /\ request' = [r \in Requests |-> IF r = q THEN Idle ELSE Overtaken(request[r])]
    /\ UNCHANGED <<active, staff, life, assignment, result>>

\* Some check refuses it, the version or an index does, or the transaction fails.
Refuse(q) ==
    /\ request[q] # Idle
    /\ request' = [request EXCEPT ![q] = Idle]
    /\ UNCHANGED rows

(***************************************************************************)
(* The results.                                                            *)
(***************************************************************************)
LockedOf(s) == {c \in Cards : card[c].status = "LOCKED" /\ assignment[c].submission = s}

Sum(f) == FoldFunction(LAMBDA a, b : a + b, 0, f)

\* Every locked card counts, whatever became of its assignment.
Aggregate(s) == Sum([c \in LockedOf(s) |-> card[c].total])

\* The organizer selects among the finalized submissions with a final version.
Eligible == {s \in Submissions : life[s].status = "FINALIZED" /\ life[s].final}

FinalizeResults(selected) ==
    /\ ~ChallengeLocked
    /\ challenge.judged
    /\ ~challenge.decided
    /\ result' = {[submission |-> s, score |-> Aggregate(s)] : s \in selected}
    /\ challenge' = [challenge EXCEPT !.status = "results", !.decided = TRUE]
    /\ request' = [r \in Requests |-> Overtaken(request[r])]
    /\ UNCHANGED <<active, staff, life, assignment, card>>

(***************************************************************************)
(* The judge, under the lock of the card.                                  *)
(***************************************************************************)
\* Neither the assignment's status nor the challenge is looked at.
Writable(c) ==
    /\ card[c].status = "DRAFT"
    /\ assignment[c].judge \in staff

SaveDraft(c, scores) ==
    /\ Writable(c)
    /\ card' = [card EXCEPT ![c].scores = scores]
    /\ UNCHANGED <<challenge, active, staff, life, assignment, result, request>>

\* A submitted card is in the way of an activation that has not counted yet.
Submit(c, scores) ==
    /\ Writable(c)
    /\ card' = [card EXCEPT ![c].status = "SUBMITTED", ![c].scores = scores,
                            ![c].total = Total(card[c].rubric, scores)]
    /\ request' = [r \in Requests |->
           IF request[r].kind = "activate" THEN [request[r] EXCEPT !.fresh = FALSE]
           ELSE request[r]]
    /\ UNCHANGED <<challenge, active, staff, life, assignment, result>>

(***************************************************************************)
(* The surroundings.                                                       *)
(***************************************************************************)
RemoveStaff(j) ==
    /\ j \in staff
    /\ staff' = staff \ {j}
    /\ UNCHANGED <<challenge, active, life, assignment, card, result, request>>

StartJudging ==
    /\ ~challenge.started
    /\ challenge' = [challenge EXCEPT !.started = TRUE]
    /\ UNCHANGED <<active, staff, life, assignment, card, result, request>>

\* A write of the challenge that increments its version.
MoveChallenge(status) ==
    /\ ~ChallengeLocked
    /\ challenge' = [challenge EXCEPT !.status = status]
    /\ request' = [r \in Requests |-> Overtaken(request[r])]
    /\ UNCHANGED <<active, staff, life, assignment, card, result>>

Cancel == challenge.status \notin {"cancelled", "archived"} /\ MoveChallenge("cancelled")

Archive == challenge.status # "archived" /\ MoveChallenge("archived")

\* publishResults and retractResults: neither looks at the status it replaces.
PublishOrRetract == challenge.decided /\ MoveChallenge("results")

StatusMoves == Cancel \/ Archive \/ PublishOrRetract

SubmissionMoves(s) ==
    /\ \E l \in Live(s)!After(life[s]) : l # life[s] /\ life' = [life EXCEPT ![s] = l]
    /\ UNCHANGED <<challenge, active, staff, assignment, card, result, request>>

Check(q) ==
    \/ \E v \in Rubrics : CheckActivate(q, v)
    \/ \E s \in Submissions, j \in Judges : CheckAssign(q, s, j)
    \/ CheckBalance(q)
    \/ \E c \in Cards, j \in Judges : CheckReassign(q, c, j)
    \/ \E c \in Cards : \/ CheckRemove(q, c)
                        \/ CheckDeclare(q, c)
                        \/ CheckRecuse(q, c)
                        \/ CheckReopen(q, c)
    \/ CheckFinalizeJudging(q)

Commit(q) ==
    \/ Activate(q)
    \/ Assign(q)
    \/ Reassign(q)
    \/ Remove(q)
    \/ Declare(q)
    \/ Recuse(q)
    \/ ReopenCard(q)
    \/ FinalizeJudging(q)
    \/ Refuse(q)

Next ==
    \/ \E q \in Requests : Check(q) \/ Commit(q)
    \/ \E selected \in SUBSET Eligible : FinalizeResults(selected)
    \/ \E c \in Cards, scores \in Scores : SaveDraft(c, scores) \/ Submit(c, scores)
    \/ \E j \in Judges : RemoveStaff(j)
    \/ StartJudging
    \/ StatusMoves
    \/ \E s \in Submissions : SubmissionMoves(s)

Spec == Init /\ [][Next]_vars

(***************************************************************************)
(* Properties.                                                             *)
(***************************************************************************)
Card == [status : {"NONE", "DRAFT", "SUBMITTED", "LOCKED"}, rubric : Rubrics \union {0},
         scores : Scores \union {0}, total : Nat]

Statuses == {"NONE", "ASSIGNED", "CONFLICT_DECLARED", "RECUSED", "REASSIGNED"}

Assignment == [status : Statuses,
               judge : Judges \union {None}, submission : Submissions \union {None}]

Kinds == {"activate", "assign", "reassign", "remove", "declare", "recuse", "reopen",
          "finalizeJudging"}

Request == [kind : Kinds \union {"idle"},
            plan : SUBSET [submission : Submissions, judge : Judges],
            card : Cards \union {None}, was : Statuses, rubric : Rubrics \union {0},
            seen : [Cards -> Card], fresh : BOOLEAN]

\* The rows and the requests keep their types; a card exists with its assignment.
TypeOK ==
    /\ challenge \in [status : {"open", "results", "cancelled", "archived"},
                     started : BOOLEAN, judged : BOOLEAN, decided : BOOLEAN]
    /\ active \in Rubrics \union {0}
    /\ staff \subseteq Judges
    /\ assignment \in [Cards -> Assignment]
    /\ card \in [Cards -> Card]
    /\ \A c \in Cards :
          IF card[c].status = "NONE" THEN assignment[c].status = "NONE"
          ELSE assignment[c].status # "NONE" /\ assignment[c].submission \in Submissions
    /\ \A r \in result : r.submission \in Submissions
    /\ request \in [Requests -> Request]

\* The total of a card that is submitted or locked is the one its criterion scores
\* give under its rubric, also when finalizeJudging writes listed scores over a card
\* that was reopened and submitted again meanwhile.
TotalsMatchScores ==
    \A c \in Cards : card[c].status \in {"SUBMITTED", "LOCKED"} =>
        card[c].total = Total(card[c].rubric, card[c].scores)

\* Request q commits in this step.
Commits(q, kind) == request[q].kind = kind /\ request'[q] = Idle

\* What is locked stands submitted: a card that was reopened after finalizeJudging had
\* listed it stays a draft, and only one that was submitted again since then may be
\* locked with another total than it was submitted with.
LockedAsSubmitted ==
    [][\A c \in Cards : card'[c].status = "LOCKED" =>
          \/ card[c] = card'[c]
          \/ /\ card[c].status = "SUBMITTED"
             /\ \/ card[c].total = card'[c].total
                \/ \E q \in Requests : /\ Commits(q, "finalizeJudging")
                                       /\ request[q].seen[c] # card[c]]_vars

\* Once there is a result, what it was computed from stays, but for a locked card that
\* is reopened: nothing is locked, and no locked card changes, after the decision.
ResultsStand ==
    [][\A r \in result :
          \/ Aggregate(r.submission)' = Aggregate(r.submission)
          \/ \E c \in Cards : /\ card[c].status = "LOCKED"
                              /\ card'[c].status = "DRAFT"]_vars

\* The active rubric changes under a submitted card only when the submission overlaps
\* the activation.
RubricLockedByScores ==
    [][active' # active =>
         \/ \A c \in Cards : card[c].status \in {"NONE", "DRAFT"}
         \/ \E q \in Requests : /\ Commits(q, "activate")
                                /\ ~request[q].fresh]_vars

\* What may become of the status of an assignment.
Later(status) ==
    CASE status = "NONE"              -> {"ASSIGNED"}
      [] status = "ASSIGNED"          -> {"CONFLICT_DECLARED", "RECUSED", "REASSIGNED"}
      [] status = "CONFLICT_DECLARED" -> {"RECUSED"}
      [] OTHER                        -> {}

\* An assignment that a judge has recused, or that was taken from the judge, comes back
\* only by a decision that was taken on an earlier status.
AssignmentsMoveForward ==
    [][\A c \in Cards : assignment'[c].status # assignment[c].status =>
         \/ assignment'[c].status \in Later(assignment[c].status)
         \/ \E q \in Requests : /\ request[q].card = c /\ request'[q] = Idle
                                /\ request[q].was # assignment[c].status]_vars
=============================================================================

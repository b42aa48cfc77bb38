--------------------------- MODULE Judging_proofs ---------------------------
(***************************************************************************)
(* Proofs about Judging, for any requests, judges, submissions, cards,     *)
(* scores and rubrics: the types, totals that match the scores, what is    *)
(* locked, what the results were computed from, the rubric and the         *)
(* assignments.                                                            *)
(***************************************************************************)
EXTENDS Judging, TLAPS

NoneSubmitted(k) == \A c \in Cards : k[c].status \in {"NONE", "DRAFT"}

OfCard == {"reassign", "remove", "declare", "recuse", "reopen"}

\* What a request r may rely on, over assignments a, cards k and the decision d.
Sound(r, a, k, d) ==
    /\ r \in Request
    /\ r.kind \in OfCard => r.card \in Cards /\ a[r.card].status # "NONE"
    /\ r.kind \in {"reassign", "remove", "declare"} => r.was = "ASSIGNED"
    /\ r.kind = "recuse" => r.was \in {"ASSIGNED", "CONFLICT_DECLARED"}
    /\ (r.kind = "activate" /\ r.fresh) => NoneSubmitted(k)
    /\ (r.kind = "finalizeJudging" /\ r.fresh) => ~d
    /\ \A c \in Cards : r.seen[c] # NoCard =>
          /\ r.seen[c].status = "SUBMITTED"
          /\ r.seen[c].total = Total(r.seen[c].rubric, r.seen[c].scores)
          /\ k[c].status # "NONE"
          /\ k[c].rubric = r.seen[c].rubric

AllSound == \A q \in Requests : Sound(request[q], assignment, card, challenge.decided)

\* There are results only once they are decided, and a decision only once judged.
Decided ==
    /\ challenge.decided => challenge.judged
    /\ result # {} => challenge.decided

Inv == TypeOK /\ TotalsMatchScores /\ Decided /\ AllSound

\* Rows are not taken away, and a card keeps its rubric.
Grown(a, b, k, l) == \A c \in Cards :
    /\ a[c].status # "NONE" => b[c].status # "NONE"
    /\ k[c].status # "NONE" => l[c].status # "NONE" /\ l[c].rubric = k[c].rubric

-----------------------------------------------------------------------------
(* Requests that stay sound.                                               *)

LEMMA NoCardTyped == NoCard \in Card
BY DEF NoCard, Card

LEMMA IdleSound ==
    ASSUME NEW a, NEW k, NEW d
    PROVE  Sound(Idle, a, k, d) /\ Idle.kind = "idle"
<1>1. Idle \in Request BY NoCardTyped DEF Idle, Request, Kinds, Statuses
<1>2. Idle.kind = "idle" /\ \A c \in Cards : Idle.seen[c] = NoCard BY DEF Idle
<1> QED BY <1>1, <1>2 DEF Sound, OfCard

LEMMA StaysSound ==
    ASSUME NEW r, NEW a, NEW b, NEW k, NEW l, NEW d, NEW e,
           Sound(r, a, k, d), Grown(a, b, k, l),
           (r.kind = "activate" /\ r.fresh) => NoneSubmitted(l),
           (r.kind = "finalizeJudging" /\ r.fresh) => ~e
    PROVE  Sound(r, b, l, e)
BY DEF Sound, Grown

LEMMA StaleSound ==
    ASSUME NEW r, NEW a, NEW k, NEW d, NEW e, Sound(r, a, k, d)
    PROVE  Sound([r EXCEPT !.fresh = FALSE], a, k, e)
<1> DEFINE s == [r EXCEPT !.fresh = FALSE]
<1>1. r \in Request BY DEF Sound
<1>2. /\ s \in Request /\ ~s.fresh
      /\ s.kind = r.kind /\ s.card = r.card /\ s.was = r.was /\ s.seen = r.seen
  BY <1>1 DEF Request
<1> HIDE DEF s
<1>3. Sound(s, a, k, e) BY <1>2 DEF Sound
<1> QED BY <1>3 DEF s

Challenge == [status : {"open", "results", "cancelled", "archived"},
              started : BOOLEAN, judged : BOOLEAN, decided : BOOLEAN]

LEMMA Typed ==
    ASSUME TypeOK
    PROVE  /\ challenge \in Challenge
           /\ active \in Rubrics \union {0}
           /\ assignment \in [Cards -> Assignment]
           /\ card \in [Cards -> Card]
           /\ request \in [Requests -> Request]
BY DEF TypeOK, Challenge

\* A step that leaves the rows and admits only sound requests.
LEMMA RequestsKeep ==
    ASSUME Inv, UNCHANGED rows, request' \in [Requests -> Request],
           \A q \in Requests : \/ request'[q] = request[q]
                               \/ Sound(request'[q], assignment, card, challenge.decided)
    PROVE  Inv'
<1>1. TypeOK' BY DEF Inv, TypeOK, rows
<1>2. TotalsMatchScores' BY DEF Inv, TotalsMatchScores, rows
<1>3. Decided' BY DEF Inv, Decided, rows
<1>4. AllSound' BY DEF Inv, AllSound, rows
<1> QED BY <1>1, <1>2, <1>3, <1>4 DEF Inv

\* A step of the rows keeps the requests sound that it does not answer.
LEMMA RowsKeep ==
    ASSUME Inv, TypeOK', TotalsMatchScores', Decided',
           Grown(assignment, assignment', card, card'),
           \A q \in Requests :
               \/ request'[q] = Idle
               \/ request'[q] = [request[q] EXCEPT !.fresh = FALSE]
               \/ /\ request'[q] = request[q]
                  /\ (request[q].kind = "activate" /\ request[q].fresh) => NoneSubmitted(card')
                  /\ (request[q].kind = "finalizeJudging" /\ request[q].fresh)
                        => ~challenge'.decided
    PROVE  Inv'
<1>1. ASSUME NEW q \in Requests
      PROVE  Sound(request'[q], assignment', card', challenge'.decided)
  <2>1. Sound(request[q], assignment, card, challenge.decided) BY DEF Inv, AllSound
  <2>2. CASE request'[q] = Idle BY <2>2, IdleSound
  <2>3. CASE request'[q] = [request[q] EXCEPT !.fresh = FALSE]
    <3>1. Sound(request'[q], assignment, card, challenge.decided) BY <2>1, <2>3, StaleSound
    <3>2. ~request'[q].fresh
      <4>1. request[q] \in Request BY <2>1 DEF Sound
      <4> QED BY <2>3, <4>1 DEF Request
    <3> QED BY <3>1, <3>2, StaysSound
  <2>4. CASE /\ request'[q] = request[q]
             /\ (request[q].kind = "activate" /\ request[q].fresh) => NoneSubmitted(card')
             /\ (request[q].kind = "finalizeJudging" /\ request[q].fresh)
                   => ~challenge'.decided
    BY <2>1, <2>4, StaysSound
  <2> QED BY <2>2, <2>3, <2>4
<1> QED BY <1>1 DEF Inv, AllSound

\* Most steps of the rows answer one request, and leave the results alone.
LEMMA AnswerKeeps ==
    ASSUME Inv, TypeOK', TotalsMatchScores', UNCHANGED <<challenge, result>>,
           NEW q \in Requests, request' = [request EXCEPT ![q] = Idle],
           Grown(assignment, assignment', card, card'),
           NoneSubmitted(card) => NoneSubmitted(card')
    PROVE  Inv'
<1>1. request \in [Requests -> Request] BY DEF Inv, TypeOK
<1>2. Decided' BY DEF Inv, Decided
<1>3. ASSUME NEW p \in Requests
      PROVE  \/ request'[p] = Idle
             \/ /\ request'[p] = request[p]
                /\ (request[p].kind = "activate" /\ request[p].fresh) => NoneSubmitted(card')
                /\ (request[p].kind = "finalizeJudging" /\ request[p].fresh)
                      => ~challenge'.decided
  BY <1>1 DEF Inv, AllSound, Sound
<1> QED BY <1>2, <1>3, RowsKeep DEF Inv

-----------------------------------------------------------------------------
(* What is read and decided.                                               *)

LEMMA AdmitKeeps ==
    ASSUME Inv, NEW q \in Requests, NEW r, Admit(q, r),
           Sound(r, assignment, card, challenge.decided)
    PROVE  Inv'
<1>1. r \in Request BY DEF Sound
<1>2. request \in [Requests -> Request] BY DEF Inv, TypeOK
<1>3. request' \in [Requests -> Request] BY <1>1, <1>2 DEF Admit
<1>4. \A p \in Requests : request'[p] = request[p] \/ request'[p] = r BY <1>2 DEF Admit
<1> QED BY <1>3, <1>4, RequestsKeep DEF Admit

LEMMA AboutSound ==
    ASSUME Inv, NEW c \in Cards, NEW kind \in OfCard, assignment[c].status # "NONE",
           kind \in {"reassign", "remove", "declare"} => assignment[c].status = "ASSIGNED",
           kind = "recuse" => assignment[c].status \in {"ASSIGNED", "CONFLICT_DECLARED"}
    PROVE  Sound(About(kind, c), assignment, card, challenge.decided)
<1> DEFINE r == About(kind, c)
<1>1. assignment[c].status \in Statuses BY DEF Inv, TypeOK, Assignment
<1>2. r \in Request BY <1>1, NoCardTyped DEF About, Idle, Request, OfCard, Kinds
<1>3. /\ r.kind = kind /\ r.card = c /\ r.was = assignment[c].status
      /\ \A d \in Cards : r.seen[d] = NoCard
  BY DEF About, Idle
<1> HIDE DEF r
<1>4. Sound(r, assignment, card, challenge.decided) BY <1>2, <1>3 DEF Sound, OfCard
<1> QED BY <1>4 DEF r

\* The plan and the rubric of a request carry no obligation beyond their types.
LEMMA PlanSound ==
    ASSUME NEW r, NEW a, NEW k, NEW d, Sound(r, a, k, d), NEW v \in Rubrics \union {0},
           NEW plan \in SUBSET [submission : Submissions, judge : Judges]
    PROVE  Sound([r EXCEPT !.rubric = v, !.plan = plan], a, k, d)
<1> DEFINE s == [r EXCEPT !.rubric = v, !.plan = plan]
<1>1. r \in Request BY DEF Sound
<1>2. /\ s \in Request
      /\ s.kind = r.kind /\ s.card = r.card /\ s.was = r.was
      /\ s.seen = r.seen /\ s.fresh = r.fresh
  BY <1>1 DEF Request
<1> HIDE DEF s
<1>3. Sound(s, a, k, d) BY <1>2 DEF Sound
<1> QED BY <1>3 DEF s

LEMMA ActivateChecked ==
    ASSUME Inv, NEW q \in Requests, NEW v \in Rubrics, CheckActivate(q, v)
    PROVE  Inv'
<1> DEFINE r == [Idle EXCEPT !.kind = "activate", !.rubric = v, !.fresh = TRUE]
<1>1. r \in Request BY NoCardTyped DEF Idle, Request, Kinds, Statuses
<1>2. r.kind = "activate" /\ \A c \in Cards : r.seen[c] = NoCard BY DEF Idle
<1>3. NoneSubmitted(card) BY DEF CheckActivate, MayActivate, NoneSubmitted
<1>4. Admit(q, r) BY DEF CheckActivate
<1> HIDE DEF r
<1>5. Sound(r, assignment, card, challenge.decided) BY <1>1, <1>2, <1>3 DEF Sound, OfCard
<1> QED BY <1>4, <1>5, AdmitKeeps

LEMMA AssignSound ==
    ASSUME Inv, NEW plan \in SUBSET [submission : Submissions, judge : Judges]
    PROVE  Sound([Idle EXCEPT !.kind = "assign", !.plan = plan, !.rubric = active],
                 assignment, card, challenge.decided)
<1> DEFINE r == [Idle EXCEPT !.kind = "assign", !.plan = plan, !.rubric = active]
<1>1. active \in Rubrics \union {0} BY DEF Inv, TypeOK
<1>2. r \in Request BY <1>1, NoCardTyped DEF Idle, Request, Kinds, Statuses
<1>3. r.kind = "assign" /\ \A c \in Cards : r.seen[c] = NoCard BY DEF Idle
<1> HIDE DEF r
<1>4. Sound(r, assignment, card, challenge.decided) BY <1>2, <1>3 DEF Sound, OfCard
<1> QED BY <1>4 DEF r

LEMMA AssignChecked ==
    ASSUME Inv, NEW q \in Requests, NEW s \in Submissions, NEW j \in Judges,
           CheckAssign(q, s, j)
    PROVE  Inv'
<1>1. {Place(s, j)} \in SUBSET [submission : Submissions, judge : Judges] BY DEF Place
<1>2. Admit(q, [Idle EXCEPT !.kind = "assign", !.plan = {Place(s, j)}, !.rubric = active])
  BY DEF CheckAssign
<1> QED BY <1>1, <1>2, AssignSound, AdmitKeeps

LEMMA BalanceChecked ==
    ASSUME Inv, NEW q \in Requests, CheckBalance(q)
    PROVE  Inv'
<1>1. PICK f \in [Unassigned -> staff] :
          Admit(q, [Idle EXCEPT !.kind = "assign", !.rubric = active,
                                !.plan = {Place(s, f[s]) : s \in Unassigned}])
  BY DEF CheckBalance
<1> DEFINE plan == {Place(s, f[s]) : s \in Unassigned}
<1>2. Unassigned \subseteq Submissions /\ staff \subseteq Judges BY DEF Unassigned, Inv, TypeOK
<1>3. plan \in SUBSET [submission : Submissions, judge : Judges] BY <1>2 DEF Place
<1>4. [Idle EXCEPT !.kind = "assign", !.rubric = active, !.plan = plan]
        = [Idle EXCEPT !.kind = "assign", !.plan = plan, !.rubric = active]
  BY DEF Idle
<1> HIDE DEF plan
<1>5. Sound([Idle EXCEPT !.kind = "assign", !.rubric = active, !.plan = plan],
            assignment, card, challenge.decided)
  BY <1>3, <1>4, AssignSound
<1>6. Admit(q, [Idle EXCEPT !.kind = "assign", !.rubric = active, !.plan = plan])
  BY <1>1 DEF plan
<1> QED BY <1>5, <1>6, AdmitKeeps

LEMMA ReassignChecked ==
    ASSUME Inv, NEW q \in Requests, NEW c \in Cards, NEW j \in Judges, CheckReassign(q, c, j)
    PROVE  Inv'
<1> DEFINE plan == {Place(assignment[c].submission, j)}
<1>1. assignment[c].status = "ASSIGNED" /\ card[c].status = "DRAFT"
  BY DEF CheckReassign, MayMove
<1>2. /\ assignment[c] \in Assignment /\ card[c] \in Card BY DEF Inv, TypeOK
<1>3. Sound(About("reassign", c), assignment, card, challenge.decided)
  BY <1>1, AboutSound DEF OfCard
<1>4. Admit(q, [About("reassign", c) EXCEPT !.rubric = card[c].rubric, !.plan = plan])
  BY DEF CheckReassign
<1>5. card[c].rubric \in Rubrics \union {0} BY <1>2 DEF Card
<1>6. assignment[c].submission \in Submissions BY <1>1 DEF Inv, TypeOK
<1>7. plan \in SUBSET [submission : Submissions, judge : Judges] BY <1>6 DEF Place
<1> HIDE DEF plan
<1> QED BY <1>3, <1>4, <1>5, <1>7, PlanSound, AdmitKeeps

LEMMA CardChecked ==
    ASSUME Inv, NEW q \in Requests, NEW c \in Cards,
           CheckRemove(q, c) \/ CheckDeclare(q, c) \/ CheckRecuse(q, c) \/ CheckReopen(q, c)
    PROVE  Inv'
<1>1. CASE CheckRemove(q, c)
  BY <1>1, AboutSound, AdmitKeeps DEF CheckRemove, MayMove, OfCard
<1>2. CASE CheckDeclare(q, c)
  BY <1>2, AboutSound, AdmitKeeps DEF CheckDeclare, MayDeclare, OfCard
<1>3. CASE CheckRecuse(q, c)
  BY <1>3, AboutSound, AdmitKeeps DEF CheckRecuse, MayRecuse, OfCard
<1>4. CASE CheckReopen(q, c)
  <2>1. assignment[c].status # "NONE" BY <1>4 DEF CheckReopen, Inv, TypeOK
  <2> QED BY <1>4, <2>1, AboutSound, AdmitKeeps DEF CheckReopen, OfCard
<1> QED BY <1>1, <1>2, <1>3, <1>4

LEMMA FinalizeChecked ==
    ASSUME Inv, NEW q \in Requests, CheckFinalizeJudging(q)
    PROVE  Inv'
<1> DEFINE seen == [c \in Cards |-> IF card[c].status = "SUBMITTED" THEN card[c] ELSE NoCard]
           r == [Idle EXCEPT !.kind = "finalizeJudging", !.fresh = TRUE, !.seen = seen]
<1>1. card \in [Cards -> Card] BY DEF Inv, TypeOK
<1>2. seen \in [Cards -> Card] BY <1>1, NoCardTyped
<1>3. Admit(q, r) BY DEF CheckFinalizeJudging
<1>4. ~challenge.decided BY DEF CheckFinalizeJudging, Inv, Decided
<1>5. \A c \in Cards : seen[c] # NoCard =>
          /\ seen[c] = card[c] /\ card[c].status = "SUBMITTED"
          /\ card[c].total = Total(card[c].rubric, card[c].scores)
  BY DEF Inv, TotalsMatchScores
<1> HIDE DEF seen
<1>6. r \in Request BY <1>2 DEF Idle, Request, Kinds, Statuses
<1>7. r.kind = "finalizeJudging" /\ r.seen = seen BY DEF Idle
<1> HIDE DEF r
<1>8. Sound(r, assignment, card, challenge.decided)
  BY <1>4, <1>5, <1>6, <1>7 DEF Sound, OfCard
<1> QED BY <1>3, <1>8, AdmitKeeps

LEMMA CheckKeeps ==
    ASSUME Inv, NEW q \in Requests, Check(q)
    PROVE  Inv'
BY ActivateChecked, AssignChecked, BalanceChecked, ReassignChecked, CardChecked,
   FinalizeChecked DEF Check

LEMMA RefuseKeeps ==
    ASSUME Inv, NEW q \in Requests, Refuse(q)
    PROVE  Inv'
<1>1. request \in [Requests -> Request] BY DEF Inv, TypeOK
<1>2. Idle \in Request BY IdleSound DEF Sound
<1>3. request' \in [Requests -> Request] BY <1>1, <1>2 DEF Refuse
<1>4. \A p \in Requests : \/ request'[p] = request[p]
                          \/ Sound(request'[p], assignment, card, challenge.decided)
  BY <1>1, IdleSound DEF Refuse
<1> QED BY <1>3, <1>4, RequestsKeep DEF Refuse

-----------------------------------------------------------------------------
(* What is written.                                                        *)

\* The rows of the assignments and the cards keep their types one by one.
LEMMA RowsTyped ==
    ASSUME Inv, assignment' \in [Cards -> Assignment], card' \in [Cards -> Card],
           UNCHANGED <<challenge, active, staff, result>>,
           request' \in [Requests -> Request],
           \A c \in Cards :
               IF card'[c].status = "NONE" THEN assignment'[c].status = "NONE"
               ELSE assignment'[c].status # "NONE" /\ assignment'[c].submission \in Submissions
    PROVE  TypeOK'
BY DEF Inv, TypeOK

LEMMA Answered ==
    ASSUME Inv, NEW q \in Requests, request' = [request EXCEPT ![q] = Idle]
    PROVE  request' \in [Requests -> Request]
<1>1. request \in [Requests -> Request] BY DEF Inv, TypeOK
<1>2. Idle \in Request BY IdleSound DEF Sound
<1> QED BY <1>1, <1>2

LEMMA ActivateKeeps ==
    ASSUME Inv, NEW q \in Requests, Activate(q)
    PROVE  Inv'
<1>1. request' = [request EXCEPT ![q] = Idle] BY DEF Activate, Answer
<1>2. request' \in [Requests -> Request] BY <1>1, Answered
<1>3. request[q] \in Request BY DEF Inv, TypeOK
<1>4. active' \in Rubrics \union {0} BY <1>3 DEF Activate, Request
<1>5. UNCHANGED <<challenge, staff, assignment, card, result>> BY DEF Activate
<1>6. TypeOK' BY <1>2, <1>4, <1>5 DEF Inv, TypeOK
<1>7. TotalsMatchScores' BY <1>5 DEF Inv, TotalsMatchScores
<1>8. Grown(assignment, assignment', card, card') BY <1>5 DEF Grown
<1> QED BY <1>1, <1>5, <1>6, <1>7, <1>8, AnswerKeeps

\* The status of one assignment is overwritten.
LEMMA MarkedTyped ==
    ASSUME Inv, NEW c \in Cards, NEW status \in Statuses \ {"NONE"},
           assignment[c].status # "NONE"
    PROVE  /\ Marked(c, status) \in [Cards -> Assignment]
           /\ \A d \in Cards :
                 /\ Marked(c, status)[d].submission = assignment[d].submission
                 /\ Marked(c, status)[d].status = IF d = c THEN status ELSE assignment[d].status
                 /\ (Marked(c, status)[d].status = "NONE") <=> (assignment[d].status = "NONE")
<1>1. assignment \in [Cards -> Assignment] BY DEF Inv, TypeOK
<1>2. \A d \in Cards : assignment[d] \in Assignment BY <1>1
<1>3. [assignment[c] EXCEPT !.status = status] \in Assignment BY <1>2 DEF Assignment
<1>4. Marked(c, status) = [d \in Cards |-> IF d = c THEN [assignment[c] EXCEPT !.status = status]
                                           ELSE assignment[d]]
  BY <1>1 DEF Marked
<1>5. /\ [assignment[c] EXCEPT !.status = status].submission = assignment[c].submission
      /\ [assignment[c] EXCEPT !.status = status].status = status
  BY <1>2 DEF Assignment
<1> QED BY <1>2, <1>3, <1>4, <1>5

LEMMA OfCardSound ==
    ASSUME Inv, NEW q \in Requests, request[q].kind \in OfCard
    PROVE  /\ request[q].card \in Cards
           /\ assignment[request[q].card].status # "NONE"
           /\ card[request[q].card].status # "NONE"
BY DEF Inv, AllSound, Sound, TypeOK

LEMMA SetStatusKeeps ==
    ASSUME Inv, NEW q \in Requests, NEW kind \in OfCard,
           NEW status \in Statuses \ {"NONE"}, SetStatus(q, kind, status)
    PROVE  Inv'
<1> DEFINE c == request[q].card
<1>1. request' = [request EXCEPT ![q] = Idle] /\ request[q].kind = kind
  BY DEF SetStatus, Answer
<1>2. c \in Cards /\ assignment[c].status # "NONE" BY <1>1, OfCardSound
<1>3. assignment' = Marked(c, status) BY DEF SetStatus
<1>4. UNCHANGED <<challenge, active, staff, card, result>> BY DEF SetStatus
<1> HIDE DEF c
<1>5. TypeOK'
  <2>1. request' \in [Requests -> Request] BY <1>1, Answered
  <2>2. assignment' \in [Cards -> Assignment] BY <1>2, <1>3, MarkedTyped
  <2>3. card' \in [Cards -> Card] BY <1>4 DEF Inv, TypeOK
  <2>4. ASSUME NEW d \in Cards
        PROVE  IF card'[d].status = "NONE" THEN assignment'[d].status = "NONE"
               ELSE assignment'[d].status # "NONE" /\ assignment'[d].submission \in Submissions
    <3>1. IF card[d].status = "NONE" THEN assignment[d].status = "NONE"
          ELSE assignment[d].status # "NONE" /\ assignment[d].submission \in Submissions
      BY DEF Inv, TypeOK
    <3>2. /\ assignment'[d].submission = assignment[d].submission
          /\ (assignment'[d].status = "NONE") <=> (assignment[d].status = "NONE")
      BY <1>2, <1>3, MarkedTyped
    <3> QED BY <1>4, <3>1, <3>2
  <2> QED BY <1>4, <2>1, <2>2, <2>3, <2>4, RowsTyped
<1>6. TotalsMatchScores' BY <1>4 DEF Inv, TotalsMatchScores
<1>7. Grown(assignment, assignment', card, card') BY <1>2, <1>3, <1>4, MarkedTyped DEF Grown
<1> QED BY <1>1, <1>4, <1>5, <1>6, <1>7, AnswerKeeps

\* What an insertion does to each id: a free one gets an assignment with a draft card,
\* or nothing but the table changes.
LEMMA InsertRows ==
    ASSUME Inv, NEW plan \in SUBSET [submission : Submissions, judge : Judges],
           NEW rubric \in Rubrics \union {0}, NEW table \in [Cards -> Assignment],
           Insert(plan, rubric, table)
    PROVE  /\ assignment' \in [Cards -> Assignment]
           /\ card' \in [Cards -> Card]
           /\ \A c \in Cards :
                 \/ assignment'[c] = table[c] /\ card'[c] = card[c]
                 \/ /\ assignment[c].status = "NONE"
                    /\ assignment'[c].status = "ASSIGNED"
                    /\ assignment'[c].submission \in Submissions
                    /\ card'[c].status = "DRAFT"
<1>1. PICK f \in [plan -> {c \in Cards : assignment[c].status = "NONE"}] :
          /\ assignment' = [c \in Cards |->
                 IF \E p \in plan : f[p] = c
                 THEN LET p == CHOOSE p \in plan : f[p] = c
                      IN  [status |-> "ASSIGNED", judge |-> p.judge, submission |-> p.submission]
                 ELSE table[c]]
          /\ card' = [c \in Cards |->
                 IF \E p \in plan : f[p] = c
                 THEN [NoCard EXCEPT !.status = "DRAFT", !.rubric = rubric]
                 ELSE card[c]]
  BY DEF Insert
<1> DEFINE new == [NoCard EXCEPT !.status = "DRAFT", !.rubric = rubric]
<1>2. new \in Card /\ new.status = "DRAFT" BY DEF NoCard, Card
<1>3. card \in [Cards -> Card] BY DEF Inv, TypeOK
<1>4. ASSUME NEW c \in Cards, \E p \in plan : f[p] = c
      PROVE  /\ assignment'[c] \in Assignment
             /\ assignment[c].status = "NONE"
             /\ assignment'[c].status = "ASSIGNED"
             /\ assignment'[c].submission \in Submissions
             /\ card'[c] = new
  <2> DEFINE p == CHOOSE p \in plan : f[p] = c
  <2>1. p \in plan /\ f[p] = c BY <1>4
  <2>2. assignment'[c] = [status |-> "ASSIGNED", judge |-> p.judge, submission |-> p.submission]
    BY <1>1, <1>4
  <2>3. p \in [submission : Submissions, judge : Judges] BY <2>1
  <2>4. card'[c] = new BY <1>1, <1>4
  <2>5. assignment[c].status = "NONE" BY <2>1
  <2> HIDE DEF p, new
  <2> QED BY <2>2, <2>3, <2>4, <2>5 DEF Assignment, Statuses
<1>5. ASSUME NEW c \in Cards, ~\E p \in plan : f[p] = c
      PROVE  assignment'[c] = table[c] /\ card'[c] = card[c]
  BY <1>1, <1>5
<1> HIDE DEF new
<1>6. assignment' \in [Cards -> Assignment]
  <2>1. DOMAIN assignment' = Cards /\ assignment' = [c \in Cards |-> assignment'[c]] BY <1>1
  <2>2. \A c \in Cards : assignment'[c] \in Assignment BY <1>4, <1>5
  <2> QED BY <2>1, <2>2
<1>7. card' \in [Cards -> Card]
  <2>1. card' = [c \in Cards |-> card'[c]] BY <1>1
  <2>2. \A c \in Cards : card'[c] \in Card BY <1>2, <1>3, <1>4, <1>5
  <2> QED BY <2>1, <2>2
<1> QED BY <1>2, <1>4, <1>5, <1>6, <1>7
LEMMA InsertKeeps ==
    ASSUME Inv, NEW q \in Requests, request' = [request EXCEPT ![q] = Idle],
           UNCHANGED <<challenge, active, staff, result>>,
           NEW table \in [Cards -> Assignment],
           \A c \in Cards : /\ table[c].submission = assignment[c].submission
                            /\ (table[c].status = "NONE") <=> (assignment[c].status = "NONE"),
           Insert(request[q].plan, request[q].rubric, table)
    PROVE  Inv'
<1>1. request[q] \in Request BY DEF Inv, TypeOK
<1>2. /\ request[q].plan \in SUBSET [submission : Submissions, judge : Judges]
      /\ request[q].rubric \in Rubrics \union {0}
  BY <1>1 DEF Request
<1>3. /\ assignment' \in [Cards -> Assignment]
      /\ card' \in [Cards -> Card]
      /\ \A c \in Cards :
            \/ assignment'[c] = table[c] /\ card'[c] = card[c]
            \/ /\ assignment[c].status = "NONE"
               /\ assignment'[c].status = "ASSIGNED"
               /\ assignment'[c].submission \in Submissions
               /\ card'[c].status = "DRAFT"
  BY <1>2, InsertRows
<1>4. \A c \in Cards :
          IF card[c].status = "NONE" THEN assignment[c].status = "NONE"
          ELSE assignment[c].status # "NONE" /\ assignment[c].submission \in Submissions
  BY DEF Inv, TypeOK
<1>5. TypeOK'
  <2>1. request' \in [Requests -> Request] BY Answered
  <2>2. \A c \in Cards :
            IF card'[c].status = "NONE" THEN assignment'[c].status = "NONE"
            ELSE assignment'[c].status # "NONE" /\ assignment'[c].submission \in Submissions
    BY <1>3, <1>4
  <2> QED BY <1>3, <2>1, <2>2, RowsTyped
<1>6. TotalsMatchScores' BY <1>3 DEF Inv, TotalsMatchScores
<1>7. Grown(assignment, assignment', card, card') BY <1>3, <1>4 DEF Grown
<1>8. NoneSubmitted(card) => NoneSubmitted(card') BY <1>3 DEF NoneSubmitted
<1> QED BY <1>5, <1>6, <1>7, <1>8, AnswerKeeps

LEMMA AssignKeeps ==
    ASSUME Inv, NEW q \in Requests, Assign(q)
    PROVE  Inv'
<1>1. assignment \in [Cards -> Assignment] BY DEF Inv, TypeOK
<1> QED BY <1>1, InsertKeeps DEF Assign, Answer

LEMMA ReassignKeeps ==
    ASSUME Inv, NEW q \in Requests, Reassign(q)
    PROVE  Inv'
<1> DEFINE c == request[q].card
           table == Marked(c, "REASSIGNED")
<1>1. c \in Cards /\ assignment[c].status # "NONE"
  BY OfCardSound DEF Reassign, Answer, OfCard
<1>2. /\ table \in [Cards -> Assignment]
      /\ \A d \in Cards : /\ table[d].submission = assignment[d].submission
                          /\ (table[d].status = "NONE") <=> (assignment[d].status = "NONE")
  BY <1>1, MarkedTyped DEF Statuses
<1>3. Insert(request[q].plan, request[q].rubric, table) BY DEF Reassign
<1> HIDE DEF table
<1> QED BY <1>2, <1>3, InsertKeeps DEF Reassign, Answer

\* One card changes, and its assignment is there.
LEMMA CardTyped ==
    ASSUME Inv, NEW c \in Cards, card[c].status # "NONE", NEW k \in Card, k.status # "NONE",
           card' = [card EXCEPT ![c] = k], request' \in [Requests -> Request],
           UNCHANGED <<challenge, active, staff, assignment, result>>,
           k.rubric = card[c].rubric,
           k.status \in {"SUBMITTED", "LOCKED"} => k.total = Total(k.rubric, k.scores)
    PROVE  /\ TypeOK'
           /\ TotalsMatchScores'
           /\ Decided'
           /\ Grown(assignment, assignment', card, card')
<1>1. card \in [Cards -> Card] BY DEF Inv, TypeOK
<1>2. card' \in [Cards -> Card] /\ card'[c] = k /\ \A d \in Cards \ {c} : card'[d] = card[d]
  BY <1>1
<1>3. TypeOK' BY <1>2, RowsTyped DEF Inv, TypeOK
<1>4. TotalsMatchScores' BY <1>2 DEF Inv, TotalsMatchScores
<1>5. Decided' BY DEF Inv, Decided
<1>6. Grown(assignment, assignment', card, card') BY <1>2 DEF Grown
<1> QED BY <1>3, <1>4, <1>5, <1>6

LEMMA ReopenKeeps ==
    ASSUME Inv, NEW q \in Requests, ReopenCard(q)
    PROVE  Inv'
<1> DEFINE c == request[q].card
           k == [card[c] EXCEPT !.status = "DRAFT"]
<1>1. c \in Cards /\ card[c].status # "NONE" BY OfCardSound DEF ReopenCard, Answer, OfCard
<1>2. request' = [request EXCEPT ![q] = Idle] BY DEF ReopenCard, Answer
<1>3. card[c] \in Card /\ card \in [Cards -> Card] BY <1>1 DEF Inv, TypeOK
<1>4. k \in Card /\ k.status = "DRAFT" /\ k.rubric = card[c].rubric BY <1>3 DEF Card
<1>5. card' = [card EXCEPT ![c] = k] BY <1>1, <1>3 DEF ReopenCard
<1>6. UNCHANGED <<challenge, active, staff, assignment, result>> BY DEF ReopenCard
<1> HIDE DEF c, k
<1>7. NoneSubmitted(card) => NoneSubmitted(card') BY <1>3, <1>4, <1>5 DEF NoneSubmitted
<1>8. request' \in [Requests -> Request] BY <1>2, Answered
<1>9. TypeOK' /\ TotalsMatchScores' /\ Grown(assignment, assignment', card, card')
  BY <1>1, <1>4, <1>5, <1>6, <1>8, CardTyped
<1> QED BY <1>2, <1>6, <1>7, <1>9, AnswerKeeps

\* What finalizeJudging makes of a card it has listed.
LEMMA LockedCard ==
    ASSUME NEW k \in Card, NEW seen \in Card, k.status \in {"DRAFT", "SUBMITTED"},
           seen.rubric = k.rubric, seen.total = Total(seen.rubric, seen.scores)
    PROVE  /\ Locked(k, seen) \in Card
           /\ Locked(k, seen).status \in {"DRAFT", "LOCKED"}
           /\ Locked(k, seen).rubric = k.rubric
           /\ Locked(k, seen).status = "LOCKED" =>
                 /\ k.status = "SUBMITTED"
                 /\ Locked(k, seen).total = seen.total
                 /\ Locked(k, seen).total = Total(Locked(k, seen).rubric, Locked(k, seen).scores)
<1>1. CASE k.status = "SUBMITTED"
  <2> DEFINE l == [k EXCEPT !.status = "LOCKED", !.scores = seen.scores, !.total = seen.total]
  <2>1. /\ l \in Card /\ l.status = "LOCKED" /\ l.rubric = k.rubric
        /\ l.scores = seen.scores /\ l.total = seen.total
    BY DEF Card
  <2>2. Locked(k, seen) = l BY <1>1 DEF Locked
  <2> HIDE DEF l
  <2> QED BY <1>1, <2>1, <2>2
<1>2. CASE k.status = "DRAFT"
  <2> DEFINE l == [k EXCEPT !.scores = seen.scores]
  <2>1. l \in Card /\ l.status = "DRAFT" /\ l.rubric = k.rubric BY <1>2 DEF Card
  <2>2. Locked(k, seen) = l BY <1>2 DEF Locked
  <2> HIDE DEF l
  <2> QED BY <2>1, <2>2
<1> QED BY <1>1, <1>2

LEMMA FinalizedCards ==
    ASSUME Inv, NEW q \in Requests, FinalizeJudging(q), NEW c \in Cards
    PROVE  \/ card'[c] = card[c]
           \/ /\ request[q].seen[c] # NoCard
              /\ card'[c] \in Card
              /\ card[c].status # "NONE"
              /\ card'[c].status \in {"DRAFT", "LOCKED"}
              /\ card'[c].rubric = card[c].rubric
              /\ card'[c].status = "LOCKED" =>
                    /\ card[c].status = "SUBMITTED"
                    /\ card'[c].total = request[q].seen[c].total
                    /\ card'[c].total = Total(card'[c].rubric, card'[c].scores)
<1>1. CASE ~Listed(q, c) BY <1>1 DEF FinalizeJudging
<1>2. CASE Listed(q, c)
  <2> DEFINE seen == request[q].seen[c]
  <2>1. seen # NoCard BY <1>2 DEF Listed
  <2>2. Sound(request[q], assignment, card, challenge.decided) BY DEF Inv, AllSound
  <2>3. /\ seen.total = Total(seen.rubric, seen.scores)
        /\ card[c].status # "NONE"
        /\ seen.rubric = card[c].rubric
    BY <2>1, <2>2 DEF Sound
  <2>4. seen \in Card BY <2>2 DEF Sound, Request
  <2>5. card[c] \in Card BY DEF Inv, TypeOK
  <2>6. card[c].status \in {"DRAFT", "SUBMITTED"}
    BY <1>2, <2>3, <2>5 DEF FinalizeJudging, Card
  <2>7. card'[c] = Locked(card[c], seen) BY <1>2 DEF FinalizeJudging
  <2> HIDE DEF seen
  <2>8. /\ card'[c] \in Card
        /\ card'[c].status \in {"DRAFT", "LOCKED"}
        /\ card'[c].rubric = card[c].rubric
        /\ card'[c].status = "LOCKED" =>
              /\ card[c].status = "SUBMITTED"
              /\ card'[c].total = seen.total
              /\ card'[c].total = Total(card'[c].rubric, card'[c].scores)
    BY <2>3, <2>4, <2>5, <2>6, <2>7, LockedCard
  <2> QED BY <2>1, <2>3, <2>8 DEF seen
<1> QED BY <1>1, <1>2
\* Requests that a new version of the challenge overtakes.
LEMMA OvertakenRequest ==
    ASSUME NEW r
    PROVE  \/ Overtaken(r) = [r EXCEPT !.fresh = FALSE]
           \/ Overtaken(r) = r /\ r.kind # "finalizeJudging"
BY DEF Overtaken

LEMMA OvertakenTyped ==
    ASSUME NEW r \in Request
    PROVE  Overtaken(r) \in Request
BY DEF Overtaken, Request

LEMMA FinalizeJudgingKeeps ==
    ASSUME Inv, NEW q \in Requests, FinalizeJudging(q)
    PROVE  Inv'
<1>1. request \in [Requests -> Request] BY DEF Inv, TypeOK
<1>2. request' = [r \in Requests |-> IF r = q THEN Idle ELSE Overtaken(request[r])]
  BY DEF FinalizeJudging
<1>3. request' \in [Requests -> Request]
  <2>1. Idle \in Request BY IdleSound DEF Sound
  <2> QED BY <1>1, <1>2, <2>1, OvertakenTyped
<1>4. challenge' = [challenge EXCEPT !.status = "results", !.judged = TRUE]
  BY DEF FinalizeJudging
<1>5. UNCHANGED <<active, staff, assignment, result>> BY DEF FinalizeJudging
<1>6. card' \in [Cards -> Card]
  <2>1. card \in [Cards -> Card] BY DEF Inv, TypeOK
  <2>2. card' = [c \in Cards |-> card'[c]] BY DEF FinalizeJudging
  <2>3. \A c \in Cards : card'[c] \in Card BY <2>1, FinalizedCards
  <2> QED BY <2>2, <2>3
<1>7. challenge \in Challenge
  BY DEF Inv, TypeOK, Challenge
<1>8. \A c \in Cards : (card'[c].status = "NONE") <=> (card[c].status = "NONE")
  BY FinalizedCards
<1>9. TypeOK' BY <1>3, <1>4, <1>5, <1>6, <1>7, <1>8 DEF Inv, TypeOK, Challenge
<1>10. TotalsMatchScores' BY FinalizedCards DEF Inv, TotalsMatchScores
<1>11. Decided' BY <1>4, <1>5, <1>7 DEF Inv, Decided, Challenge
<1>12. Grown(assignment, assignment', card, card') BY <1>5, <1>8, FinalizedCards DEF Grown
<1>13. NoneSubmitted(card) => NoneSubmitted(card') BY FinalizedCards DEF NoneSubmitted
<1>14. ASSUME NEW p \in Requests
       PROVE  \/ request'[p] = Idle
              \/ request'[p] = [request[p] EXCEPT !.fresh = FALSE]
              \/ /\ request'[p] = request[p]
                 /\ (request[p].kind = "activate" /\ request[p].fresh) => NoneSubmitted(card')
                 /\ (request[p].kind = "finalizeJudging" /\ request[p].fresh)
                       => ~challenge'.decided
  <2>1. (request[p].kind = "activate" /\ request[p].fresh) => NoneSubmitted(card)
    BY DEF Inv, AllSound, Sound
  <2>2. request'[p] = Idle \/ request'[p] = Overtaken(request[p]) BY <1>2
  <2> QED BY <1>13, <2>1, <2>2, OvertakenRequest
<1> QED BY <1>9, <1>10, <1>11, <1>12, <1>14, RowsKeep

LEMMA FinalizeResultsKeeps ==
    ASSUME Inv, NEW selected \in SUBSET Eligible, FinalizeResults(selected)
    PROVE  Inv'
<1>1. request \in [Requests -> Request] BY DEF Inv, TypeOK
<1>2. request' = [r \in Requests |-> Overtaken(request[r])] BY DEF FinalizeResults
<1>3. request' \in [Requests -> Request] BY <1>1, <1>2, OvertakenTyped
<1>4. challenge' = [challenge EXCEPT !.status = "results", !.decided = TRUE] /\ challenge.judged
  BY DEF FinalizeResults
<1>5. UNCHANGED <<active, staff, assignment, card>> BY DEF FinalizeResults
<1>6. \A r \in result' : r.submission \in Submissions
  <2>1. selected \subseteq Submissions BY DEF Eligible
  <2> QED BY <2>1 DEF FinalizeResults
<1>7. challenge \in Challenge
  BY DEF Inv, TypeOK, Challenge
<1>8. TypeOK' BY <1>3, <1>4, <1>5, <1>6, <1>7 DEF Inv, TypeOK, Challenge
<1>9. TotalsMatchScores' BY <1>5 DEF Inv, TotalsMatchScores
<1>10. Decided' BY <1>4, <1>7 DEF Decided, Challenge
<1>11. Grown(assignment, assignment', card, card') BY <1>5 DEF Grown
<1>12. ASSUME NEW p \in Requests
       PROVE  \/ request'[p] = [request[p] EXCEPT !.fresh = FALSE]
              \/ /\ request'[p] = request[p]
                 /\ (request[p].kind = "activate" /\ request[p].fresh) => NoneSubmitted(card')
                 /\ (request[p].kind = "finalizeJudging" /\ request[p].fresh)
                       => ~challenge'.decided
  <2>1. (request[p].kind = "activate" /\ request[p].fresh) => NoneSubmitted(card)
    BY DEF Inv, AllSound, Sound
  <2>2. request'[p] = Overtaken(request[p]) BY <1>2
  <2> QED BY <1>5, <2>1, <2>2, OvertakenRequest
<1> QED BY <1>8, <1>9, <1>10, <1>11, <1>12, RowsKeep

LEMMA StatusMoveKeeps ==
    ASSUME Inv, StatusMoves
    PROVE  Inv'
<1>1. request \in [Requests -> Request] BY DEF Inv, TypeOK
<1>2. PICK status \in {"results", "cancelled", "archived"} : MoveChallenge(status)
  BY DEF StatusMoves, Cancel, Archive, PublishOrRetract
<1>3. /\ request' = [r \in Requests |-> Overtaken(request[r])]
      /\ challenge' = [challenge EXCEPT !.status = status]
      /\ UNCHANGED <<active, staff, assignment, card, result>>
  BY <1>2 DEF MoveChallenge
<1>4. request' \in [Requests -> Request] BY <1>1, <1>3, OvertakenTyped
<1>5. /\ challenge' \in Challenge
      /\ challenge'.judged = challenge.judged /\ challenge'.decided = challenge.decided
  <2>1. challenge \in Challenge BY DEF Inv, TypeOK, Challenge
  <2> QED BY <1>3, <2>1 DEF Challenge
<1>6. TypeOK' BY <1>3, <1>4, <1>5 DEF Inv, TypeOK, Challenge
<1>7. TotalsMatchScores' BY <1>3 DEF Inv, TotalsMatchScores
<1>8. Decided' BY <1>3, <1>5 DEF Inv, Decided
<1>9. Grown(assignment, assignment', card, card') BY <1>3 DEF Grown
<1>10. ASSUME NEW p \in Requests
       PROVE  \/ request'[p] = [request[p] EXCEPT !.fresh = FALSE]
              \/ /\ request'[p] = request[p]
                 /\ (request[p].kind = "activate" /\ request[p].fresh) => NoneSubmitted(card')
                 /\ (request[p].kind = "finalizeJudging" /\ request[p].fresh)
                       => ~challenge'.decided
  <2>1. (request[p].kind = "activate" /\ request[p].fresh) => NoneSubmitted(card)
    BY DEF Inv, AllSound, Sound
  <2>2. request'[p] = Overtaken(request[p]) BY <1>3
  <2> QED BY <1>3, <2>1, <2>2, OvertakenRequest
<1> QED BY <1>6, <1>7, <1>8, <1>9, <1>10, RowsKeep

LEMMA SaveDraftKeeps ==
    ASSUME Inv, NEW c \in Cards, NEW scores \in Scores, SaveDraft(c, scores)
    PROVE  Inv'
<1> DEFINE k == [card[c] EXCEPT !.scores = scores]
<1>1. card[c] \in Card /\ card \in [Cards -> Card] BY DEF Inv, TypeOK
<1>2. card[c].status = "DRAFT" BY DEF SaveDraft, Writable
<1>3. k \in Card /\ k.status = "DRAFT" /\ k.rubric = card[c].rubric BY <1>1, <1>2 DEF Card
<1>4. card' = [card EXCEPT ![c] = k] BY <1>1 DEF SaveDraft
<1>5. UNCHANGED <<challenge, active, staff, assignment, result, request>> BY DEF SaveDraft
<1> HIDE DEF k
<1>6. request' \in [Requests -> Request] BY <1>5 DEF Inv, TypeOK
<1>7. TypeOK' /\ TotalsMatchScores' /\ Decided' /\ Grown(assignment, assignment', card, card')
  BY <1>2, <1>3, <1>4, <1>5, <1>6, CardTyped
<1>8. NoneSubmitted(card) => NoneSubmitted(card') BY <1>1, <1>3, <1>4 DEF NoneSubmitted
<1>9. ASSUME NEW p \in Requests
      PROVE  /\ request'[p] = request[p]
             /\ (request[p].kind = "activate" /\ request[p].fresh) => NoneSubmitted(card')
             /\ (request[p].kind = "finalizeJudging" /\ request[p].fresh)
                   => ~challenge'.decided
  BY <1>5, <1>8 DEF Inv, AllSound, Sound
<1> QED BY <1>7, <1>9, RowsKeep

LEMMA SubmitKeeps ==
    ASSUME Inv, NEW c \in Cards, NEW scores \in Scores, Submit(c, scores)
    PROVE  Inv'
<1> DEFINE total == Total(card[c].rubric, scores)
           k == [card[c] EXCEPT !.status = "SUBMITTED", !.scores = scores, !.total = total]
<1>1. card[c] \in Card /\ card \in [Cards -> Card] BY DEF Inv, TypeOK
<1>2. card[c].status = "DRAFT" BY DEF Submit, Writable
<1>3. total \in Nat
  <2>1. card[c].rubric \in Rubrics \union {0} BY <1>1 DEF Card
  <2>2. card[c].rubric \in Nat BY <2>1, JudgingAssumption
  <2>3. scores \in Nat BY JudgingAssumption
  <2> QED BY <2>2, <2>3 DEF Total
<1>4. /\ k \in Card /\ k.status = "SUBMITTED" /\ k.rubric = card[c].rubric
      /\ k.total = Total(k.rubric, k.scores)
  <2>1. /\ k \in Card /\ k.status = "SUBMITTED" /\ k.rubric = card[c].rubric
        /\ k.scores = scores /\ k.total = total
    <3> HIDE DEF total
    <3> QED BY <1>1, <1>3 DEF Card
  <2> QED BY <2>1
<1>5. card' = [card EXCEPT ![c] = k] BY <1>1 DEF Submit
<1>6. UNCHANGED <<challenge, active, staff, assignment, result>> BY DEF Submit
<1>7. request' = [r \in Requests |->
           IF request[r].kind = "activate" THEN [request[r] EXCEPT !.fresh = FALSE]
           ELSE request[r]]
  BY DEF Submit
<1> HIDE DEF total, k
<1>8. request' \in [Requests -> Request]
  <2>1. request \in [Requests -> Request] BY DEF Inv, TypeOK
  <2>2. \A r \in Request : [r EXCEPT !.fresh = FALSE] \in Request BY DEF Request
  <2> QED BY <1>7, <2>1, <2>2
<1>9. TypeOK' /\ TotalsMatchScores' /\ Decided' /\ Grown(assignment, assignment', card, card')
  BY <1>2, <1>4, <1>5, <1>6, <1>8, CardTyped
<1>10. ASSUME NEW p \in Requests
       PROVE  \/ request'[p] = [request[p] EXCEPT !.fresh = FALSE]
              \/ /\ request'[p] = request[p]
                 /\ (request[p].kind = "activate" /\ request[p].fresh) => NoneSubmitted(card')
                 /\ (request[p].kind = "finalizeJudging" /\ request[p].fresh)
                       => ~challenge'.decided
  BY <1>6, <1>7 DEF Inv, AllSound, Sound
<1> QED BY <1>9, <1>10, RowsKeep

LEMMA WorldKeeps ==
    ASSUME Inv,
           \/ \E j \in Judges : RemoveStaff(j)
           \/ StartJudging
           \/ \E s \in Submissions : SubmissionMoves(s)
    PROVE  Inv'
<1>1. UNCHANGED <<active, assignment, card, result, request>>
  BY DEF RemoveStaff, StartJudging, SubmissionMoves
<1>2. staff' \subseteq Judges BY DEF Inv, TypeOK, RemoveStaff, StartJudging, SubmissionMoves
<1>3. /\ challenge' \in Challenge
      /\ challenge'.judged = challenge.judged /\ challenge'.decided = challenge.decided
  <2>1. challenge \in Challenge
    BY DEF Inv, TypeOK, Challenge
  <2> QED BY <2>1 DEF RemoveStaff, StartJudging, SubmissionMoves, Challenge
<1>4. TypeOK' BY <1>1, <1>2, <1>3 DEF Inv, TypeOK, Challenge
<1>5. TotalsMatchScores' BY <1>1 DEF Inv, TotalsMatchScores
<1>6. Decided' BY <1>1, <1>3 DEF Inv, Decided
<1>7. AllSound' BY <1>1, <1>3 DEF Inv, AllSound
<1> QED BY <1>4, <1>5, <1>6, <1>7 DEF Inv

-----------------------------------------------------------------------------
(* The invariant.                                                          *)

LEMMA InitInv == Init => Inv
<1> SUFFICES ASSUME Init PROVE Inv OBVIOUS
<1>1. NoAssignment \in Assignment BY DEF NoAssignment, Assignment, Statuses
<1>2. Idle \in Request BY IdleSound DEF Sound
<1>3. TypeOK BY <1>1, <1>2, NoCardTyped DEF Init, TypeOK, NoAssignment, NoCard
<1>4. TotalsMatchScores BY DEF Init, TotalsMatchScores, NoCard
<1>5. Decided BY DEF Init, Decided
<1>6. AllSound BY IdleSound DEF Init, AllSound
<1> QED BY <1>3, <1>4, <1>5, <1>6 DEF Inv

LEMMA NextInv == Inv /\ [Next]_vars => Inv'
<1> SUFFICES ASSUME Inv, [Next]_vars PROVE Inv' OBVIOUS
<1>1. ASSUME NEW q \in Requests, Check(q) \/ Commit(q) PROVE Inv'
  <2>1. CASE Check(q) BY <2>1, CheckKeeps
  <2>2. CASE Activate(q) BY <2>2, ActivateKeeps
  <2>3. CASE Assign(q) BY <2>3, AssignKeeps
  <2>4. CASE Reassign(q) BY <2>4, ReassignKeeps
  <2>5. CASE Remove(q) BY <2>5, SetStatusKeeps DEF Remove, OfCard, Statuses
  <2>6. CASE Declare(q) BY <2>6, SetStatusKeeps DEF Declare, OfCard, Statuses
  <2>7. CASE Recuse(q) BY <2>7, SetStatusKeeps DEF Recuse, OfCard, Statuses
  <2>8. CASE ReopenCard(q) BY <2>8, ReopenKeeps
  <2>9. CASE FinalizeJudging(q) BY <2>9, FinalizeJudgingKeeps
  <2>10. CASE Refuse(q) BY <2>10, RefuseKeeps
  <2> QED BY <1>1, <2>1, <2>2, <2>3, <2>4, <2>5, <2>6, <2>7, <2>8, <2>9, <2>10 DEF Commit
<1>2. CASE \E selected \in SUBSET Eligible : FinalizeResults(selected)
  BY <1>2, FinalizeResultsKeeps
<1>3. CASE \E c \in Cards, scores \in Scores : SaveDraft(c, scores) \/ Submit(c, scores)
  BY <1>3, SaveDraftKeeps, SubmitKeeps
<1>4. CASE \/ \E j \in Judges : RemoveStaff(j)
           \/ StartJudging
           \/ \E s \in Submissions : SubmissionMoves(s)
  BY <1>4, WorldKeeps
<1>5. CASE StatusMoves BY <1>5, StatusMoveKeeps
<1>6. CASE UNCHANGED vars
  BY <1>6 DEF vars, rows, Inv, TypeOK, TotalsMatchScores, Decided, AllSound
<1> QED BY <1>1, <1>2, <1>3, <1>4, <1>5, <1>6 DEF Next

THEOREM Invariance == Spec => []Inv
BY InitInv, NextInv, PTL DEF Spec

\* The rows and the requests keep their types, and a card exists with its assignment.
THEOREM TypeCorrect == Spec => []TypeOK
<1>1. Inv => TypeOK BY DEF Inv
<1> QED BY <1>1, Invariance, PTL

\* The total of a submitted or locked card is the one its scores give, also when
\* finalizeJudging writes listed scores over a card that was submitted again.
THEOREM TotalsCorrect == Spec => []TotalsMatchScores
<1>1. Inv => TotalsMatchScores BY DEF Inv
<1> QED BY <1>1, Invariance, PTL
-----------------------------------------------------------------------------
(* What a step may do.                                                     *)

\* Which steps touch the cards and the assignments, seen card by card.
CardStep(c) ==
    \/ card'[c] = card[c]
    \/ card'[c].status \in {"DRAFT", "SUBMITTED"} /\ card[c].status \in {"NONE", "DRAFT"}
    \/ card'[c].status = "DRAFT" /\ card[c].status # "NONE"
    \/ \E q \in Requests :
          /\ Commits(q, "finalizeJudging")
          /\ ~challenge.decided
          /\ card'[c].status = "LOCKED"
          /\ card[c].status = "SUBMITTED"
          /\ card'[c].total = request[q].seen[c].total

LEMMA IdleKind ==
    ASSUME NEW q \in Requests, Inv, NEW kind, request[q].kind = kind,
           request' = [request EXCEPT ![q] = Idle]
    PROVE  Commits(q, kind)
<1>1. request \in [Requests -> Request] BY DEF Inv, TypeOK
<1> QED BY <1>1 DEF Commits

LEMMA InsertStep ==
    ASSUME Inv, NEW q \in Requests, NEW table \in [Cards -> Assignment],
           Insert(request[q].plan, request[q].rubric, table), NEW c \in Cards
    PROVE  \/ assignment'[c] = table[c] /\ card'[c] = card[c]
           \/ /\ assignment[c].status = "NONE"
              /\ assignment'[c].status = "ASSIGNED"
              /\ card[c].status = "NONE"
              /\ card'[c].status = "DRAFT"
<1>1. request[q] \in Request BY DEF Inv, TypeOK
<1>2. /\ request[q].plan \in SUBSET [submission : Submissions, judge : Judges]
      /\ request[q].rubric \in Rubrics \union {0}
  BY <1>1 DEF Request
<1>3. assignment[c].status = "NONE" => card[c].status = "NONE" BY DEF Inv, TypeOK
<1> QED BY <1>2, <1>3, InsertRows

LEMMA Inserts ==
    ASSUME Inv, NEW q \in Requests, Assign(q) \/ Reassign(q), NEW c \in Cards
    PROVE  \/ card'[c] = card[c]
           \/ card[c].status = "NONE" /\ card'[c].status = "DRAFT"
<1>1. CASE Assign(q)
  <2>1. assignment \in [Cards -> Assignment] BY DEF Inv, TypeOK
  <2> QED BY <1>1, <2>1, InsertStep DEF Assign
<1>2. CASE Reassign(q)
  <2> DEFINE table == Marked(request[q].card, "REASSIGNED")
  <2>1. request[q].card \in Cards /\ assignment[request[q].card].status # "NONE"
    BY <1>2, OfCardSound DEF Reassign, Answer, OfCard
  <2>2. table \in [Cards -> Assignment] BY <2>1, MarkedTyped DEF Statuses
  <2>3. Insert(request[q].plan, request[q].rubric, table) BY <1>2 DEF Reassign
  <2> HIDE DEF table
  <2> QED BY <2>2, <2>3, InsertStep
<1> QED BY <1>1, <1>2

LEMMA CardSteps ==
    ASSUME Inv, [Next]_vars, NEW c \in Cards
    PROVE  CardStep(c)
<1>1. card \in [Cards -> Card] /\ request \in [Requests -> Request] BY DEF Inv, TypeOK
<1>2. CASE UNCHANGED card BY <1>2 DEF CardStep
<1>3. ASSUME NEW q \in Requests, Check(q) PROVE UNCHANGED card
  BY <1>3 DEF Check, Admit, rows, CheckActivate, CheckAssign, CheckBalance, CheckReassign,
              CheckRemove, CheckDeclare, CheckRecuse, CheckReopen, CheckFinalizeJudging
<1>4. ASSUME NEW q \in Requests, Commit(q) PROVE CardStep(c)
  <2>1. CASE Activate(q) BY <1>2, <2>1 DEF Activate
  <2>2. CASE Assign(q) \/ Reassign(q) BY <2>2, Inserts DEF CardStep
  <2>3. CASE Remove(q) \/ Declare(q) \/ Recuse(q)
    BY <1>2, <2>3 DEF Remove, Declare, Recuse, SetStatus
  <2>4. CASE ReopenCard(q)
    <3>1. request[q].card \in Cards /\ card[request[q].card].status # "NONE"
      BY <2>4, OfCardSound DEF ReopenCard, Answer, OfCard
    <3>2. card' = [card EXCEPT ![request[q].card].status = "DRAFT"] BY <2>4 DEF ReopenCard
    <3>3. card[c] \in Card BY <1>1
    <3> QED BY <1>1, <3>1, <3>2, <3>3 DEF CardStep, Card
  <2>5. CASE FinalizeJudging(q)
    <3>1. Commits(q, "finalizeJudging") BY <1>1, <2>5 DEF FinalizeJudging, Commits
    <3>2. ~challenge.decided
      <4>1. Sound(request[q], assignment, card, challenge.decided) BY DEF Inv, AllSound
      <4> QED BY <2>5, <4>1 DEF FinalizeJudging, VersionHolds, Sound
    <3> QED BY <2>5, <3>1, <3>2, FinalizedCards DEF CardStep
  <2>6. CASE Refuse(q) BY <1>2, <2>6 DEF Refuse, rows
  <2> QED BY <1>4, <2>1, <2>2, <2>3, <2>4, <2>5, <2>6 DEF Commit
<1>5. ASSUME NEW d \in Cards, NEW scores \in Scores, SaveDraft(d, scores) \/ Submit(d, scores)
      PROVE  CardStep(c)
  <2>1. card[d].status = "DRAFT" BY <1>5 DEF SaveDraft, Submit, Writable
  <2>2. card[d] \in Card BY <1>1
  <2>3. CASE SaveDraft(d, scores)
    <3>1. card' = [card EXCEPT ![d].scores = scores] BY <2>3 DEF SaveDraft
    <3> QED BY <1>1, <2>1, <2>2, <3>1 DEF CardStep, Card
  <2>4. CASE Submit(d, scores)
    <3>1. card' = [card EXCEPT ![d].status = "SUBMITTED", ![d].scores = scores,
                              ![d].total = Total(card[d].rubric, scores)]
      BY <2>4 DEF Submit
    <3> QED BY <1>1, <2>1, <2>2, <3>1 DEF CardStep, Card
  <2> QED BY <1>5, <2>3, <2>4
<1>6. CASE \E selected \in SUBSET Eligible : FinalizeResults(selected)
  BY <1>2, <1>6 DEF FinalizeResults
<1>7. CASE \/ \E j \in Judges : RemoveStaff(j)
           \/ StartJudging
           \/ StatusMoves
           \/ \E s \in Submissions : SubmissionMoves(s)
  BY <1>2, <1>7 DEF RemoveStaff, StartJudging, SubmissionMoves, StatusMoves, Cancel, Archive,
                    PublishOrRetract, MoveChallenge
<1>8. CASE UNCHANGED vars BY <1>2, <1>8 DEF vars, rows
<1> QED BY <1>2, <1>3, <1>4, <1>5, <1>6, <1>7, <1>8 DEF Next

\* What is locked stands submitted, with the total it was submitted with unless it was
\* reopened and submitted again under a finalization.
THEOREM LocksCorrect == Spec => LockedAsSubmitted
<1>1. ASSUME Inv, [Next]_vars, NEW c \in Cards, card'[c].status = "LOCKED"
      PROVE  \/ card[c] = card'[c]
             \/ /\ card[c].status = "SUBMITTED"
                /\ \/ card[c].total = card'[c].total
                   \/ \E q \in Requests : /\ Commits(q, "finalizeJudging")
                                          /\ request[q].seen[c] # card[c]
  BY <1>1, CardSteps DEF CardStep
<1>2. Inv /\ [Next]_vars => [\A c \in Cards : card'[c].status = "LOCKED" =>
          \/ card[c] = card'[c]
          \/ /\ card[c].status = "SUBMITTED"
             /\ \/ card[c].total = card'[c].total
                \/ \E q \in Requests : /\ Commits(q, "finalizeJudging")
                                       /\ request[q].seen[c] # card[c]]_vars
  BY <1>1
<1> QED BY <1>2, Invariance, PTL DEF Spec, LockedAsSubmitted

\* The active rubric changes under a submitted card only by an activation that a
\* submission has overtaken.
THEOREM RubricCorrect == Spec => RubricLockedByScores
<1>1. ASSUME Inv, [Next]_vars, active' # active
      PROVE  \/ \A c \in Cards : card[c].status \in {"NONE", "DRAFT"}
             \/ \E q \in Requests : Commits(q, "activate") /\ ~request[q].fresh
  <2>1. PICK q \in Requests : Activate(q)
    <3>1. ASSUME NEW q \in Requests, Check(q) PROVE FALSE
      BY <1>1, <3>1 DEF Check, Admit, rows, CheckActivate, CheckAssign, CheckBalance,
            CheckReassign, CheckRemove, CheckDeclare, CheckRecuse, CheckReopen,
            CheckFinalizeJudging
    <3> QED
      BY <1>1, <3>1 DEF Next, Commit, Assign, Reassign, Remove, Declare, Recuse, SetStatus,
            ReopenCard, FinalizeJudging, Refuse, rows, vars, FinalizeResults, SaveDraft,
            Submit, RemoveStaff, StartJudging, SubmissionMoves, StatusMoves, Cancel, Archive,
            PublishOrRetract, MoveChallenge
  <2>2. Commits(q, "activate") BY <1>1, <2>1, IdleKind DEF Activate, Answer
  <2>3. Sound(request[q], assignment, card, challenge.decided) BY <1>1 DEF Inv, AllSound
  <2> QED BY <2>1, <2>2, <2>3 DEF Activate, Answer, Sound, NoneSubmitted
<1>2. Inv /\ [Next]_vars => [active' # active =>
          \/ \A c \in Cards : card[c].status \in {"NONE", "DRAFT"}
          \/ \E q \in Requests : /\ Commits(q, "activate")
                                 /\ ~request[q].fresh]_vars
  BY <1>1
<1> QED BY <1>2, Invariance, PTL DEF Spec, RubricLockedByScores

\* Which steps touch the assignments, seen one by one.
AssignmentStep(c) ==
    \/ assignment'[c] = assignment[c]
    \/ /\ assignment[c].status = "NONE"
       /\ card[c].status = "NONE"
       /\ assignment'[c].status = "ASSIGNED"
    \/ /\ assignment'[c].submission = assignment[c].submission
       /\ \E q \in Requests :
             /\ request[q].card = c /\ request'[q] = Idle
             /\ \/ request[q].was # assignment[c].status
                \/ assignment'[c].status \in Later(assignment[c].status)

LEMMA AssignmentSteps ==
    ASSUME Inv, [Next]_vars, NEW c \in Cards
    PROVE  AssignmentStep(c)
<1>1. assignment \in [Cards -> Assignment] /\ request \in [Requests -> Request]
  BY DEF Inv, TypeOK
<1>2. CASE UNCHANGED assignment BY <1>2 DEF AssignmentStep
<1>3. ASSUME NEW q \in Requests, Check(q) PROVE UNCHANGED assignment
  BY <1>3 DEF Check, Admit, rows, CheckActivate, CheckAssign, CheckBalance, CheckReassign,
              CheckRemove, CheckDeclare, CheckRecuse, CheckReopen, CheckFinalizeJudging
<1>4. ASSUME NEW q \in Requests, Commit(q) PROVE AssignmentStep(c)
  <2>1. Sound(request[q], assignment, card, challenge.decided) BY DEF Inv, AllSound
  <2>2. CASE Assign(q)
    <3>1. Insert(request[q].plan, request[q].rubric, assignment) BY <2>2 DEF Assign
    <3> QED BY <1>1, <3>1, InsertStep DEF AssignmentStep
  <2>3. CASE Reassign(q)
    <3> DEFINE d == request[q].card
               table == Marked(d, "REASSIGNED")
    <3>1. d \in Cards /\ assignment[d].status # "NONE"
      BY <2>3, OfCardSound DEF Reassign, Answer, OfCard
    <3>2. table \in [Cards -> Assignment] BY <3>1, MarkedTyped DEF Statuses
    <3>3. Insert(request[q].plan, request[q].rubric, table) BY <2>3 DEF Reassign
    <3>4. request'[q] = Idle BY <1>1, <2>3 DEF Reassign, Answer
    <3>5. request[q].was = "ASSIGNED" BY <2>1, <2>3 DEF Reassign, Answer, Sound
    <3>6. /\ table[c].submission = assignment[c].submission
          /\ c = d => table[c].status = "REASSIGNED"
          /\ c # d => table[c] = assignment[c]
      <4>1. c # d => table[c] = assignment[c] BY <1>1, <3>1 DEF Marked
      <4> QED BY <3>1, <4>1, MarkedTyped DEF Statuses
    <3>7. "REASSIGNED" \in Later("ASSIGNED") BY DEF Later
    <3> HIDE DEF table
    <3> QED BY <3>2, <3>3, <3>4, <3>5, <3>6, <3>7, InsertStep DEF AssignmentStep
  <2>4. CASE Remove(q)
    <3>1. request[q].was = "ASSIGNED" BY <2>1, <2>4 DEF Remove, SetStatus, Answer, Sound
    <3>2. assignment' = Marked(request[q].card, "REASSIGNED") /\ request'[q] = Idle
      BY <1>1, <2>4 DEF Remove, SetStatus, Answer
    <3>3. request[q].card \in Cards /\ assignment[request[q].card].status # "NONE"
      BY <2>4, OfCardSound DEF Remove, SetStatus, Answer, OfCard
    <3> QED BY <1>1, <3>1, <3>2, <3>3, MarkedTyped DEF AssignmentStep, Later, Statuses, Marked
  <2>5. CASE Declare(q)
    <3>1. request[q].was = "ASSIGNED" BY <2>1, <2>5 DEF Declare, SetStatus, Answer, Sound
    <3>2. assignment' = Marked(request[q].card, "CONFLICT_DECLARED") /\ request'[q] = Idle
      BY <1>1, <2>5 DEF Declare, SetStatus, Answer
    <3>3. request[q].card \in Cards /\ assignment[request[q].card].status # "NONE"
      BY <2>5, OfCardSound DEF Declare, SetStatus, Answer, OfCard
    <3> QED BY <1>1, <3>1, <3>2, <3>3, MarkedTyped DEF AssignmentStep, Later, Statuses, Marked
  <2>6. CASE Recuse(q)
    <3>1. request[q].was \in {"ASSIGNED", "CONFLICT_DECLARED"}
      BY <2>1, <2>6 DEF Recuse, SetStatus, Answer, Sound
    <3>2. assignment' = Marked(request[q].card, "RECUSED") /\ request'[q] = Idle
      BY <1>1, <2>6 DEF Recuse, SetStatus, Answer
    <3>3. request[q].card \in Cards /\ assignment[request[q].card].status # "NONE"
      BY <2>6, OfCardSound DEF Recuse, SetStatus, Answer, OfCard
    <3> QED BY <1>1, <3>1, <3>2, <3>3, MarkedTyped DEF AssignmentStep, Later, Statuses, Marked
  <2>7. CASE Activate(q) \/ ReopenCard(q) \/ FinalizeJudging(q) \/ Refuse(q)
    BY <1>2, <2>7 DEF Activate, ReopenCard, FinalizeJudging, Refuse, rows
  <2> QED BY <1>4, <2>2, <2>3, <2>4, <2>5, <2>6, <2>7 DEF Commit
<1>5. ASSUME NEW d \in Cards, NEW scores \in Scores, SaveDraft(d, scores) \/ Submit(d, scores)
      PROVE  AssignmentStep(c)
  BY <1>2, <1>5 DEF SaveDraft, Submit
<1>6. CASE \E selected \in SUBSET Eligible : FinalizeResults(selected)
  BY <1>2, <1>6 DEF FinalizeResults
<1>7. CASE \/ \E j \in Judges : RemoveStaff(j)
           \/ StartJudging
           \/ StatusMoves
           \/ \E s \in Submissions : SubmissionMoves(s)
  BY <1>2, <1>7 DEF RemoveStaff, StartJudging, SubmissionMoves, StatusMoves, Cancel, Archive,
                    PublishOrRetract, MoveChallenge
<1>8. CASE UNCHANGED vars BY <1>2, <1>8 DEF vars, rows
<1> QED BY <1>2, <1>3, <1>4, <1>5, <1>6, <1>7, <1>8 DEF Next

\* An assignment that was recused or taken away comes back only by a decision that was
\* taken on an earlier status.
THEOREM AssignmentsCorrect == Spec => AssignmentsMoveForward
<1>1. ASSUME Inv, [Next]_vars, NEW c \in Cards, assignment'[c].status # assignment[c].status
      PROVE  \/ assignment'[c].status \in Later(assignment[c].status)
             \/ \E q \in Requests : /\ request[q].card = c /\ request'[q] = Idle
                                    /\ request[q].was # assignment[c].status
  BY <1>1, AssignmentSteps DEF AssignmentStep, Later
<1>2. Inv /\ [Next]_vars => [\A c \in Cards : assignment'[c].status # assignment[c].status =>
          \/ assignment'[c].status \in Later(assignment[c].status)
          \/ \E q \in Requests : /\ request[q].card = c /\ request'[q] = Idle
                                 /\ request[q].was # assignment[c].status]_vars
  BY <1>1
<1> QED BY <1>2, Invariance, PTL DEF Spec, AssignmentsMoveForward

\* Once there is a result, the sum it was computed from changes only when a locked card
\* is reopened.
THEOREM ResultsCorrect == Spec => ResultsStand
<1>1. ASSUME Inv, [Next]_vars, NEW r \in result
      PROVE  \/ Aggregate(r.submission)' = Aggregate(r.submission)
             \/ \E c \in Cards : card[c].status = "LOCKED" /\ card'[c].status = "DRAFT"
  <2> DEFINE s == r.submission
  <2> SUFFICES ASSUME \A c \in Cards : card[c].status = "LOCKED" => card'[c].status # "DRAFT"
               PROVE  Aggregate(s)' = Aggregate(s)
    OBVIOUS
  <2>1. challenge.decided BY <1>1 DEF Inv, Decided
  <2>2. \A c \in Cards : (card'[c].status = "LOCKED" \/ card[c].status = "LOCKED")
            => card'[c] = card[c]
    BY <1>1, <2>1, CardSteps DEF CardStep
  <2>3. \A c \in Cards : card[c].status = "LOCKED" =>
            assignment'[c].submission = assignment[c].submission
    BY <1>1, AssignmentSteps DEF AssignmentStep
  <2>4. LockedOf(s)' = LockedOf(s) BY <2>2, <2>3 DEF LockedOf
  <2>5. [c \in LockedOf(s)' |-> card'[c].total] = [c \in LockedOf(s) |-> card[c].total]
    BY <2>2, <2>4 DEF LockedOf
  <2> QED BY <2>4, <2>5 DEF Aggregate
<1>2. Inv /\ [Next]_vars => [\A r \in result :
          \/ Aggregate(r.submission)' = Aggregate(r.submission)
          \/ \E c \in Cards : /\ card[c].status = "LOCKED"
                              /\ card'[c].status = "DRAFT"]_vars
  BY <1>1
<1> QED BY <1>2, Invariance, PTL DEF Spec, ResultsStand
=============================================================================

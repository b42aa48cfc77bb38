---------------------------- MODULE Submissions -----------------------------
(***************************************************************************)
(* The submission of one team to one challenge, and its versions.          *)
(*                                                                         *)
(* Saving and finalizing read the challenge without a lock, wait for the   *)
(* row of the submission, and check and write under its lock; the clock    *)
(* and the challenge may move while they wait.  The organizer's decisions  *)
(* (reopen, disqualify, reinstate) read the row without a lock and write   *)
(* it without a condition.  A version is immutable once it is inserted.    *)
(***************************************************************************)
EXTENDS Naturals, Sequences

CONSTANTS
    Requests,    \* concurrent requests
    Deadlines,   \* instants the submission deadline may be set to
    MaxVersions, \* bound: no version is added beyond these
    MaxNow       \* bound: the clock stops here

ASSUME SubmissionsAssumption ==
    /\ Deadlines \subseteq Nat \ {0}
    /\ MaxVersions \in Nat
    /\ MaxNow \in Nat

VARIABLES
    challenge,   \* status OPEN or not, and the submission deadline
    submission,  \* the row: status, pointers into versions (0 when null), finalized_at,
                 \* marked (disqualified_at is set)
    versions,    \* submission_version by version_number: final, from (the version it
                 \* was made from)
    announced,   \* final versions with a submission.finalized event
    request,     \* what each request has read and decided
    now,         \* the database clock
    been,        \* history: the statuses the submission has had
    overtaken    \* history: a decision was written on a row it no longer applied to

rowVars == <<submission, versions, announced>>
history == <<been, overtaken>>
vars    == <<challenge, rowVars, request, now, history>>

Idle == [kind |-> "idle", deadline |-> 0, at |-> 0]

NoSubmission == [status |-> "NONE", draft |-> 0, final |-> 0,
                 finalizedAt |-> 0, marked |-> FALSE]

\* Teams register while the challenge is open.
Init ==
    /\ challenge \in [open : {TRUE}, deadline : Deadlines]
    /\ submission = NoSubmission
    /\ versions = <<>>
    /\ announced = {}
    /\ request = [q \in Requests |-> Idle]
    /\ now = 0
    /\ been = {}
    /\ overtaken = FALSE

(***************************************************************************)
(* What a request reads before it writes or waits for the row.             *)
(***************************************************************************)
Admit(q, kind, at) ==
    /\ request[q] = Idle
    /\ request' = [request EXCEPT ![q] =
           [kind |-> kind, deadline |-> challenge.deadline, at |-> at]]
    /\ UNCHANGED <<challenge, rowVars, now, history>>

\* findByChallengeAndTeam has found nothing.
CheckCreate(q) ==
    /\ submission.status = "NONE"
    /\ Admit(q, "create", 0)

ReadChallenge(q) ==
    /\ submission.status # "NONE"
    /\ Admit(q, "save", 0)

InTime == challenge.open /\ now <= challenge.deadline

CheckFinalize(q) ==
    /\ submission.status # "NONE"
    /\ InTime
    /\ Admit(q, "finalize", now)

MayReopen     == submission.status = "FINALIZED"
MayDisqualify == submission.status \in {"DRAFT", "FINALIZED"}
MayReinstate  == submission.status = "DISQUALIFIED"

CheckReopen(q) == MayReopen /\ Admit(q, "reopen", 0)

CheckDisqualify(q) == MayDisqualify /\ Admit(q, "disqualify", 0)

CheckReinstate(q) == MayReinstate /\ Admit(q, "reinstate", 0)

(***************************************************************************)
(* What it writes.                                                         *)
(***************************************************************************)
Answer(q, kind) ==
    /\ request[q].kind = kind
    /\ request' = [request EXCEPT ![q] = Idle]
    /\ UNCHANGED <<challenge, now>>

\* createVersion: the number after the latest one.
NewNumber == Len(versions) + 1

Put(version) ==
    /\ Len(versions) < MaxVersions
    /\ versions' = Append(versions, version)

\* The unique index on the challenge and the team lets one insertion through.
Create(q) ==
    /\ submission.status = "NONE"
    /\ Answer(q, "create")
    /\ Put([final |-> FALSE, from |-> 0])
    /\ submission' = [NoSubmission EXCEPT !.status = "DRAFT", !.draft = NewNumber]
    /\ been' = {"DRAFT"}
    /\ UNCHANGED <<announced, overtaken>>

\* Mutant: the pointer stays at the version the draft was made from.
SaveAside(q) ==
    /\ submission.status = "DRAFT"
    /\ now <= request[q].deadline
    /\ Answer(q, "save")
    /\ Put([final |-> FALSE, from |-> submission.draft])
    /\ UNCHANGED <<submission, announced, history>>

\* saveDraft under the lock of the row; the deadline is the one read before it.
Save(q) ==
    /\ submission.status = "DRAFT"
    /\ now <= request[q].deadline
    /\ Answer(q, "save")
    /\ Put([final |-> FALSE, from |-> submission.draft])
    /\ submission' = [submission EXCEPT !.draft = NewNumber]
    /\ UNCHANGED <<announced, history>>

\* Mutant: a disqualified submission is finalized.
AcceptsDisqualified ==
    /\ submission.status \in {"DRAFT", "DISQUALIFIED"}
    /\ submission.final = 0

\* What finalize asks of the locked row.  Team size, terms, requirements and files of
\* the draft, all of which may change at any time, only ever refuse (Refuse).
Accepts ==
    /\ submission.status = "DRAFT"
    /\ submission.final = 0

\* finalize under the lock of the row; finalized_at is the time read before it.
Finalize(q) ==
    /\ Accepts
    /\ Answer(q, "finalize")
    /\ Put([final |-> TRUE, from |-> submission.draft])
    /\ submission' = [submission EXCEPT !.final = NewNumber, !.status = "FINALIZED",
                                        !.finalizedAt = request[q].at]
    /\ announced' = announced \union {NewNumber}
    /\ been' = been \union {"FINALIZED"}
    /\ UNCHANGED overtaken

\* An unconditional update of the row; applies says whether the decision would
\* still be taken.
Decide(q, kind, applies, row) ==
    /\ Answer(q, kind)
    /\ submission' = row
    /\ been' = been \union {row.status}
    /\ overtaken' = (overtaken \/ ~applies)
    /\ UNCHANGED <<versions, announced>>

\* Mutant: a reopened submission gives up its final version.
ReopenFresh(q) ==
    Decide(q, "reopen", MayReopen, [submission EXCEPT !.status = "DRAFT", !.final = 0])

Reopen(q) ==
    Decide(q, "reopen", MayReopen, [submission EXCEPT !.status = "DRAFT"])

Disqualify(q) ==
    Decide(q, "disqualify", MayDisqualify,
           [submission EXCEPT !.status = "DISQUALIFIED", !.marked = TRUE])

\* Mutant: the marks of the disqualification stay.
ReinstateMarked(q) ==
    Decide(q, "reinstate", MayReinstate, [submission EXCEPT !.status = "FINALIZED"])

Reinstate(q) ==
    Decide(q, "reinstate", MayReinstate,
           [submission EXCEPT !.status = "FINALIZED", !.marked = FALSE])

\* A check under the lock, the content of the draft or the unique index refuses the
\* request, or its transaction fails.
Refuse(q) ==
    /\ request[q] # Idle
    /\ request' = [request EXCEPT ![q] = Idle]
    /\ UNCHANGED <<challenge, rowVars, now, history>>

(***************************************************************************)
(* The challenge and the clock.                                            *)
(***************************************************************************)
SetDeadline(d) ==
    /\ challenge.open
    /\ challenge' = [challenge EXCEPT !.deadline = d]
    /\ UNCHANGED <<rowVars, request, now, history>>

\* Cancelled, archived, or results ready: it does not open again.
EndChallenge ==
    /\ challenge.open
    /\ challenge' = [challenge EXCEPT !.open = FALSE]
    /\ UNCHANGED <<rowVars, request, now, history>>

Tick ==
    /\ now < MaxNow
    /\ now' = now + 1
    /\ UNCHANGED <<challenge, rowVars, request, history>>

Check(q) ==
    \/ CheckCreate(q)
    \/ ReadChallenge(q)
    \/ CheckFinalize(q)
    \/ CheckReopen(q)
    \/ CheckDisqualify(q)
    \/ CheckReinstate(q)

Commit(q) ==
    \/ Create(q)
    \/ Save(q)
    \/ Finalize(q)
    \/ Reopen(q)
    \/ Disqualify(q)
    \/ Reinstate(q)
    \/ Refuse(q)

Next ==
    \/ \E q \in Requests : Check(q) \/ Commit(q)
    \/ \E d \in Deadlines : SetDeadline(d)
    \/ EndChallenge
    \/ Tick

Spec == Init /\ [][Next]_vars

\* Every request is answered, and a team that asks for the finalization again and again
\* is admitted in the end and, if its draft can be accepted at all, not refused for ever.
PersistentSpec ==
    /\ Spec
    /\ \A q \in Requests : WF_vars(Commit(q))
    /\ SF_vars(\E q \in Requests : CheckFinalize(q))
    /\ SF_vars(\E q \in Requests : Finalize(q))

(***************************************************************************)
(* Properties.                                                             *)
(***************************************************************************)
Version == [final : BOOLEAN, from : Nat]

Kinds == {"create", "save", "finalize", "reopen", "disqualify", "reinstate"}

\* The row, its versions and the requests keep their types, and the pointers of
\* the row point at versions there are.
TypeOK ==
    /\ challenge \in [open : BOOLEAN, deadline : Deadlines]
    /\ submission \in [status : {"NONE", "DRAFT", "FINALIZED", "DISQUALIFIED"},
                       draft : 0 .. Len(versions), final : 0 .. Len(versions),
                       finalizedAt : Nat, marked : BOOLEAN]
    /\ versions \in Seq(Version)
    /\ announced \subseteq Nat
    /\ request \in [Requests -> [kind : Kinds \union {"idle"}, deadline : Nat, at : Nat]]
    /\ now \in Nat
    /\ been \subseteq {"DRAFT", "FINALIZED", "DISQUALIFIED"}
    /\ overtaken \in BOOLEAN

\* However often a submission is reopened, disqualified, reinstated and finalized, what
\* was announced as final stays final, and the row points at the latest of it: at none
\* only if there is none.
FinalVersionKept ==
    /\ announced = {n \in DOMAIN versions : versions[n].final}
    /\ submission.final = 0 => announced = {}
    /\ submission.final # 0 => submission.final \in announced
    /\ \A n \in announced : n <= submission.final

\* A submission with the final version n is open for correction: reopened, in time, and
\* within the bound on versions.
InCorrection(n) ==
    /\ submission.status = "DRAFT"
    /\ submission.final = n
    /\ InTime
    /\ Len(versions) < MaxVersions

\* "Reopening a submission for correction creates a new version and a new
\* finalVersionId" (ADR 0011): a team that keeps finalizing its reopened submission gets
\* a new final version, unless the correction ends otherwise.  finalize refuses whatever
\* has a final version, so that it never does.
CorrectionsAreFinalized ==
    \A n \in 1 .. MaxVersions : InCorrection(n) ~> ~InCorrection(n)

\* The version a new version would be made from: the latest draft.
LatestDraft(n) ==
    {m \in 1 .. n : ~versions[m].final /\ \A k \in m + 1 .. n : versions[k].final}

\* No save is lost, whoever saves at the same time: every version was made from the
\* latest draft before it, and the row points at the latest draft.
DraftsFollowOn ==
    /\ \A n \in DOMAIN versions : n > 1 => versions[n].from \in LatestDraft(n - 1)
    /\ submission.status # "NONE" => submission.draft \in LatestDraft(Len(versions))

\* A disqualification ends by a reinstatement, or by a reopening that was decided
\* before it; no draft is added and nothing is finalized while it lasts.
DisqualificationStands ==
    [][submission.status = "DISQUALIFIED" /\ rowVars' # rowVars =>
         /\ versions' = versions
         /\ \/ submission'.status = "DISQUALIFIED"
            \/ submission'.status = "FINALIZED" /\ submission'.finalizedAt = submission.finalizedAt
            \/ overtaken']_vars

\* As long as no decision has been written on a row it no longer applied to, the
\* marks of a disqualification are there exactly while it lasts.
MarkedWhileDisqualified ==
    ~overtaken => (submission.marked <=> submission.status = "DISQUALIFIED")

\* The part of the submission the rest of the system sees.
Life == INSTANCE SubmissionLife WITH
    life <- [status |-> submission.status, final |-> submission.final # 0, been |-> been]

\* The submission lives the life SubmissionLife describes: judging, which relies on
\* no more than that, sees no status and no final version come from nowhere.
ImplementsLife == Life!Spec

=============================================================================

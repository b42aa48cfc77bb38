------------------------- MODULE Submissions_proofs -------------------------
(***************************************************************************)
(* Proofs about Submissions, for any requests, deadlines and bounds: the   *)
(* types, final versions that stay, no lost save, disqualifications that stand,   *)
(* and the life the rest of the system may rely on.                        *)
(***************************************************************************)
EXTENDS Submissions, TLAPS

\* The row exists with its first version, which it points at or beyond, and every
\* status a pending decision was taken on has been there.
Told ==
    /\ submission.status = "NONE" => submission = NoSubmission /\ versions = <<>> /\ been = {}
    /\ submission.status # "NONE" => submission.draft \in 1 .. Len(versions)
    /\ submission.status # "NONE" => submission.status \in been
    /\ \A q \in Requests :
          /\ request[q].kind \notin {"idle", "create"} => submission.status # "NONE"
          /\ request[q].kind = "reopen" => "FINALIZED" \in been
          /\ request[q].kind = "reinstate" => "DISQUALIFIED" \in been

Inv == TypeOK /\ Told /\ FinalVersionKept /\ DraftsFollowOn

Request == [kind : Kinds \union {"idle"}, deadline : Nat, at : Nat]

-----------------------------------------------------------------------------
(* Steps that leave the row alone.                                         *)

\* Only the requests, the challenge and the clock move.
Waits ==
    /\ UNCHANGED <<rowVars, history>>
    /\ challenge' \in [open : BOOLEAN, deadline : Deadlines]
    /\ now' \in Nat

LEMMA WaitKeeps ==
    ASSUME Inv, Waits, request' \in [Requests -> Request],
           \A q \in Requests : \/ request'[q] = request[q]
                               \/ request'[q].kind = "idle"
                               \/ request'[q].kind = "create"
                               \/ /\ submission.status # "NONE"
                                  /\ request'[q].kind = "reopen" => MayReopen
                                  /\ request'[q].kind = "reinstate" => MayReinstate
    PROVE  Inv'
<1>1. TypeOK' BY DEF Inv, TypeOK, Waits, rowVars, history, Request
<1>2. Told'
  <2>1. MayReopen => "FINALIZED" \in been BY DEF Inv, Told, MayReopen
  <2>2. MayReinstate => "DISQUALIFIED" \in been BY DEF Inv, Told, MayReinstate
  <2> QED BY <2>1, <2>2 DEF Inv, Told, Waits, rowVars, history
<1>3. FinalVersionKept' BY DEF Inv, FinalVersionKept, Waits, rowVars
<1>4. DraftsFollowOn' BY DEF Inv, DraftsFollowOn, LatestDraft, Waits, rowVars
<1> QED BY <1>1, <1>2, <1>3, <1>4 DEF Inv

LEMMA AdmitKeeps ==
    ASSUME Inv, NEW q \in Requests, NEW kind \in Kinds, NEW at \in Nat, Admit(q, kind, at),
           kind # "create" => submission.status # "NONE",
           kind = "reopen" => MayReopen,
           kind = "reinstate" => MayReinstate
    PROVE  Inv'
<1> DEFINE r == [kind |-> kind, deadline |-> challenge.deadline, at |-> at]
<1>1. r \in Request /\ r.kind = kind
  <2>1. challenge.deadline \in Nat BY SubmissionsAssumption DEF Inv, TypeOK
  <2> QED BY <2>1 DEF Request
<1>2. request \in [Requests -> Request] BY DEF Inv, TypeOK, Request
<1>3. request' \in [Requests -> Request] BY <1>1, <1>2 DEF Admit
<1>4. \A p \in Requests : request'[p] = request[p] \/ request'[p] = r BY <1>2 DEF Admit
<1>5. Waits BY DEF Inv, TypeOK, Waits, Admit
<1> QED
  <2>1. \A p \in Requests : \/ request'[p] = request[p]
                            \/ request'[p].kind = "create"
                            \/ /\ submission.status # "NONE"
                               /\ request'[p].kind = "reopen" => MayReopen
                               /\ request'[p].kind = "reinstate" => MayReinstate
    BY <1>1, <1>4
  <2> QED BY <1>3, <1>5, <2>1, WaitKeeps

LEMMA CheckKeeps ==
    ASSUME Inv, NEW q \in Requests, Check(q)
    PROVE  Inv'
<1>0. 0 \in Nat /\ now \in Nat BY DEF Inv, TypeOK
<1>1. CASE CheckCreate(q) BY <1>0, <1>1, AdmitKeeps DEF CheckCreate, Kinds
<1>2. CASE ReadChallenge(q) BY <1>0, <1>2, AdmitKeeps DEF ReadChallenge, Kinds
<1>3. CASE CheckFinalize(q) BY <1>0, <1>3, AdmitKeeps DEF CheckFinalize, Kinds
<1>4. CASE CheckReopen(q) BY <1>0, <1>4, AdmitKeeps DEF CheckReopen, MayReopen, Kinds
<1>5. CASE CheckDisqualify(q)
  BY <1>0, <1>5, AdmitKeeps DEF CheckDisqualify, MayDisqualify, Kinds
<1>6. CASE CheckReinstate(q)
  BY <1>0, <1>6, AdmitKeeps DEF CheckReinstate, MayReinstate, Kinds
<1> QED BY <1>1, <1>2, <1>3, <1>4, <1>5, <1>6 DEF Check

LEMMA RefuseKeeps ==
    ASSUME Inv, NEW q \in Requests, Refuse(q)
    PROVE  Inv'
<1>1. Idle \in Request /\ Idle.kind = "idle" BY DEF Idle, Request
<1>2. request \in [Requests -> Request] BY DEF Inv, TypeOK, Request
<1>3. request' \in [Requests -> Request] BY <1>1, <1>2 DEF Refuse
<1>4. \A p \in Requests : request'[p] = request[p] \/ request'[p].kind = "idle"
  BY <1>1, <1>2 DEF Refuse
<1>5. Waits BY DEF Inv, TypeOK, Waits, Refuse
<1> QED BY <1>3, <1>4, <1>5, WaitKeeps

LEMMA WorldKeeps ==
    ASSUME Inv, (\E d \in Deadlines : SetDeadline(d)) \/ EndChallenge \/ Tick
    PROVE  Inv'
<1>1. Waits
  <2>1. challenge \in [open : BOOLEAN, deadline : Deadlines] /\ now \in Nat BY DEF Inv, TypeOK
  <2>2. ASSUME NEW d \in Deadlines, SetDeadline(d) PROVE Waits
    BY <2>1, <2>2 DEF SetDeadline, Waits
  <2>3. CASE EndChallenge BY <2>1, <2>3 DEF EndChallenge, Waits
  <2>4. CASE Tick BY <2>1, <2>4 DEF Tick, Waits
  <2> QED BY <2>2, <2>3, <2>4
<1>2. request' = request BY DEF SetDeadline, EndChallenge, Tick
<1>3. request' \in [Requests -> Request] BY <1>2 DEF Inv, TypeOK, Request
<1> QED BY <1>1, <1>2, <1>3, WaitKeeps

-----------------------------------------------------------------------------
(* Steps that write the row.                                               *)

\* What is left of the requests once one of them is answered.
LEMMA AnswerFacts ==
    ASSUME Inv, NEW q \in Requests, NEW kind, Answer(q, kind)
    PROVE  /\ request' \in [Requests -> Request]
           /\ \A p \in Requests : request'[p] = request[p] \/ request'[p].kind = "idle"
           /\ challenge' = challenge /\ now' = now
BY DEF Answer, Inv, TypeOK, Request, Idle

LEMMA PutFacts ==
    ASSUME Inv, NEW v \in Version, Put(v)
    PROVE  /\ versions' \in Seq(Version)
           /\ Len(versions) \in Nat
           /\ Len(versions') = Len(versions) + 1
           /\ NewNumber = Len(versions')
           /\ \A n \in 1 .. Len(versions) : versions'[n] = versions[n]
           /\ versions'[NewNumber] = v
BY DEF Put, NewNumber, Inv, TypeOK

\* The latest draft before a version does not change with the versions that follow it.
LEMMA DraftsStay ==
    ASSUME Inv, NEW v \in Version, Put(v), NEW n \in 0 .. Len(versions)
    PROVE  LatestDraft(n)' = LatestDraft(n)
<1>1. Len(versions) \in Nat /\ \A m \in 1 .. Len(versions) : versions'[m] = versions[m]
  BY PutFacts
<1>2. \A m \in 1 .. n : m \in 1 .. Len(versions) BY <1>1
<1>3. \A m \in 1 .. n : \A k \in m + 1 .. n : k \in 1 .. Len(versions) BY <1>1
<1> QED BY <1>1, <1>2, <1>3 DEF LatestDraft

LEMMA CreateKeeps ==
    ASSUME Inv, NEW q \in Requests, Create(q)
    PROVE  Inv'
<1> DEFINE v == [final |-> FALSE, from |-> 0]
<1>0. /\ request' \in [Requests -> Request]
      /\ \A p \in Requests : request'[p] = request[p] \/ request'[p].kind = "idle"
      /\ challenge' = challenge /\ now' = now
  <2>1. Answer(q, "create") BY DEF Create
  <2> QED BY <2>1, AnswerFacts
<1>1. v \in Version /\ ~v.final BY DEF Version
<1>2. versions = <<>> /\ submission = NoSubmission BY DEF Create, Inv, Told
<1>3. versions' = <<v>> /\ NewNumber = 1 BY <1>2 DEF Create, Put, NewNumber
<1>4. submission' = [status |-> "DRAFT", draft |-> 1, final |-> 0,
                     finalizedAt |-> 0, marked |-> FALSE]
  BY <1>3 DEF Create, NoSubmission
<1>5. Len(versions') = 1 /\ versions'[1] = v /\ DOMAIN versions' = {1}
  BY <1>3
<1>6. TypeOK'
  <2>1. versions' \in Seq(Version) BY <1>1, <1>3
  <2>2. submission' \in [status : {"NONE", "DRAFT", "FINALIZED", "DISQUALIFIED"},
                         draft : 0 .. Len(versions'), final : 0 .. Len(versions'),
                         finalizedAt : Nat, marked : BOOLEAN]
    BY <1>4, <1>5
  <2> QED BY <1>0, <2>1, <2>2 DEF Create, Inv, TypeOK, Request
<1>7. Told'
  <2>1. submission'.status = "DRAFT" /\ submission'.draft \in 1 .. Len(versions')
    BY <1>4, <1>5
  <2>2. been = {} /\ been' = {"DRAFT"} BY DEF Create, Inv, Told
  <2> QED BY <1>0, <2>1, <2>2 DEF Inv, Told
<1>8. FinalVersionKept'
  BY <1>1, <1>2, <1>4, <1>5 DEF Create, Inv, FinalVersionKept, NoSubmission
<1>9. DraftsFollowOn'
  <2>1. LatestDraft(1)' = {1}
    <3>1. \A k : k \in 1 + 1 .. 1 <=> FALSE OBVIOUS
    <3> QED BY <1>1, <1>5, <3>1 DEF LatestDraft
  <2> QED BY <1>4, <1>5, <2>1 DEF DraftsFollowOn
<1> QED BY <1>6, <1>7, <1>8, <1>9 DEF Inv

LEMMA SaveKeeps ==
    ASSUME Inv, NEW q \in Requests, Save(q)
    PROVE  Inv'
<1> DEFINE v == [final |-> FALSE, from |-> submission.draft]
<1>1. v \in Version /\ ~v.final /\ v.from = submission.draft
  BY DEF Version, Inv, TypeOK
<1>2. Put(v) BY DEF Save
<1>3. /\ versions' \in Seq(Version)
      /\ Len(versions) \in Nat
      /\ Len(versions') = Len(versions) + 1
      /\ NewNumber = Len(versions')
      /\ \A n \in 1 .. Len(versions) : versions'[n] = versions[n]
      /\ versions'[NewNumber] = v
  BY <1>1, <1>2, PutFacts
<1>4. submission' = [submission EXCEPT !.draft = NewNumber] /\ submission.status = "DRAFT"
  BY DEF Save
<1>5. TypeOK'
  <2>1. submission' \in [status : {"NONE", "DRAFT", "FINALIZED", "DISQUALIFIED"},
                         draft : 0 .. Len(versions'), final : 0 .. Len(versions'),
                         finalizedAt : Nat, marked : BOOLEAN]
    <3>1. NewNumber \in 0 .. Len(versions') /\ 0 .. Len(versions) \subseteq 0 .. Len(versions')
      BY <1>3
    <3> QED BY <1>4, <3>1 DEF Inv, TypeOK
  <2> QED BY <1>3, <2>1, AnswerFacts DEF Save, Inv, TypeOK, Request, history
<1>6. Told' BY <1>3, <1>4, AnswerFacts DEF Save, Inv, TypeOK, Told, history
<1>7. FinalVersionKept'
  <2>1. submission'.final = submission.final /\ submission.final # NewNumber
    BY <1>3, <1>4 DEF Inv, TypeOK
  <2>2. DOMAIN versions' = DOMAIN versions \union {NewNumber}
    BY <1>3 DEF Inv, TypeOK
  <2>3. \A n \in DOMAIN versions : versions'[n] = versions[n] BY <1>3 DEF Inv, TypeOK
  <2> QED BY <1>1, <1>3, <2>1, <2>2, <2>3 DEF Save, Inv, FinalVersionKept
<1>8. DraftsFollowOn'
  <2>1. \A n \in 0 .. Len(versions) : LatestDraft(n)' = LatestDraft(n)
    BY <1>1, <1>2, DraftsStay
  <2>2. submission.draft \in LatestDraft(Len(versions))
    BY <1>4 DEF Inv, DraftsFollowOn
  <2>3. NewNumber \in LatestDraft(Len(versions))'
    <3>1. \A k : k \in NewNumber + 1 .. Len(versions') <=> FALSE BY <1>3
    <3> QED BY <1>1, <1>3, <3>1 DEF LatestDraft
  <2>4. ASSUME NEW n \in DOMAIN versions', n > 1
        PROVE  versions'[n].from \in LatestDraft(n - 1)'
    <3>1. n \in 1 .. Len(versions) \/ n = NewNumber BY <1>3
    <3>2. CASE n \in 1 .. Len(versions)
      <4>1. versions[n].from \in LatestDraft(n - 1)
        BY <2>4, <3>2 DEF Inv, DraftsFollowOn, TypeOK
      <4>2. n - 1 \in 0 .. Len(versions) BY <1>3, <3>2
      <4> QED BY <1>3, <2>1, <3>2, <4>1, <4>2
    <3>3. CASE n = NewNumber
      <4>1. n - 1 = Len(versions) /\ Len(versions) \in 0 .. Len(versions) BY <1>3, <3>3
      <4> QED BY <1>1, <1>3, <2>1, <2>2, <3>3, <4>1
    <3> QED BY <3>1, <3>2, <3>3
  <2> QED BY <1>4, <2>3, <2>4 DEF DraftsFollowOn, Inv, TypeOK
<1> QED BY <1>5, <1>6, <1>7, <1>8 DEF Inv

LEMMA FinalizeKeeps ==
    ASSUME Inv, NEW q \in Requests, Finalize(q)
    PROVE  Inv'
<1> DEFINE v == [final |-> TRUE, from |-> submission.draft]
<1>1. v \in Version /\ v.final /\ v.from = submission.draft
  BY DEF Version, Inv, TypeOK
<1>2. Put(v) BY DEF Finalize
<1>3. /\ versions' \in Seq(Version)
      /\ Len(versions) \in Nat
      /\ Len(versions') = Len(versions) + 1
      /\ NewNumber = Len(versions')
      /\ \A n \in 1 .. Len(versions) : versions'[n] = versions[n]
      /\ versions'[NewNumber] = v
  BY <1>1, <1>2, PutFacts
<1>4. /\ submission' = [submission EXCEPT !.final = NewNumber, !.status = "FINALIZED",
                                          !.finalizedAt = request[q].at]
      /\ submission.status = "DRAFT"
      /\ submission.final = 0
  BY DEF Finalize, Accepts
<1>5. request[q].at \in Nat BY DEF Inv, TypeOK
<1>6. TypeOK'
  <2>1. submission' \in [status : {"NONE", "DRAFT", "FINALIZED", "DISQUALIFIED"},
                         draft : 0 .. Len(versions'), final : 0 .. Len(versions'),
                         finalizedAt : Nat, marked : BOOLEAN]
    <3>1. NewNumber \in 0 .. Len(versions') /\ 0 .. Len(versions) \subseteq 0 .. Len(versions')
      BY <1>3
    <3> QED BY <1>4, <1>5, <3>1 DEF Inv, TypeOK
  <2> QED BY <1>3, <2>1, AnswerFacts DEF Finalize, Inv, TypeOK, Request
<1>7. Told'
  <2>1. submission'.status = "FINALIZED" /\ submission'.draft = submission.draft
    BY <1>4 DEF Inv, TypeOK
  <2>2. submission'.draft \in 1 .. Len(versions') BY <1>3, <1>4, <2>1 DEF Inv, Told
  <2>3. been' = been \union {"FINALIZED"} BY DEF Finalize
  <2> QED BY <2>1, <2>2, <2>3, AnswerFacts DEF Finalize, Inv, Told
<1>8. FinalVersionKept'
  <2>1. submission'.final = NewNumber BY <1>4 DEF Inv, TypeOK
  <2>2. DOMAIN versions' = DOMAIN versions \union {NewNumber} BY <1>3 DEF Inv, TypeOK
  <2>3. \A n \in DOMAIN versions : versions'[n] = versions[n]
    <3>1. DOMAIN versions = 1 .. Len(versions) BY DEF Inv, TypeOK
    <3> QED BY <1>3, <3>1
  <2>4. announced' = announced \union {NewNumber} /\ NewNumber # 0 BY <1>3 DEF Finalize
  <2>5. \A n \in announced : n <= NewNumber BY <1>3 DEF Inv, FinalVersionKept, TypeOK
  <2>6. announced' = {n \in DOMAIN versions' : versions'[n].final}
    BY <1>1, <1>3, <2>2, <2>3, <2>4 DEF Inv, FinalVersionKept
  <2> QED BY <1>3, <2>1, <2>4, <2>5, <2>6 DEF FinalVersionKept
<1>9. DraftsFollowOn'
  <2>1. \A n \in 0 .. Len(versions) : LatestDraft(n)' = LatestDraft(n)
    BY <1>1, <1>2, DraftsStay
  <2>2. submission.draft \in LatestDraft(Len(versions))
    BY <1>4 DEF Inv, DraftsFollowOn
  <2>3. submission.draft \in LatestDraft(Len(versions))'
    <3>1. /\ submission.draft \in 1 .. Len(versions)
          /\ ~versions[submission.draft].final
          /\ \A k \in submission.draft + 1 .. Len(versions) : versions[k].final
      BY <2>2 DEF LatestDraft
    <3>2. \A k \in submission.draft + 1 .. Len(versions') : versions'[k].final
      <4> TAKE k \in submission.draft + 1 .. Len(versions')
      <4>1. \/ k \in submission.draft + 1 .. Len(versions) /\ k \in 1 .. Len(versions)
            \/ k = NewNumber
        BY <1>3, <3>1
      <4> QED BY <1>1, <1>3, <3>1, <4>1
    <3> QED BY <1>3, <3>1, <3>2 DEF LatestDraft
  <2>4. ASSUME NEW n \in DOMAIN versions', n > 1
        PROVE  versions'[n].from \in LatestDraft(n - 1)'
    <3>1. n \in 1 .. Len(versions) \/ n = NewNumber BY <1>3
    <3>2. CASE n \in 1 .. Len(versions)
      <4>1. versions[n].from \in LatestDraft(n - 1)
        BY <2>4, <3>2 DEF Inv, DraftsFollowOn, TypeOK
      <4>2. n - 1 \in 0 .. Len(versions) BY <1>3, <3>2
      <4> QED BY <1>3, <2>1, <3>2, <4>1, <4>2
    <3>3. CASE n = NewNumber
      <4>1. n - 1 = Len(versions) /\ Len(versions) \in 0 .. Len(versions) BY <1>3, <3>3
      <4> QED BY <1>1, <1>3, <2>1, <2>2, <3>3, <4>1
    <3> QED BY <3>1, <3>2, <3>3
  <2>5. submission'.draft = submission.draft BY <1>4 DEF Inv, TypeOK
  <2> QED BY <2>3, <2>4, <2>5 DEF DraftsFollowOn
<1> QED BY <1>6, <1>7, <1>8, <1>9 DEF Inv

\* A decision changes the status, and the marks, and nothing else of the row.
LEMMA DecideKeeps ==
    ASSUME Inv, NEW q \in Requests, NEW kind, NEW applies \in BOOLEAN, NEW row,
           Decide(q, kind, applies, row),
           submission.status # "NONE",
           NEW s \in {"DRAFT", "FINALIZED", "DISQUALIFIED"}, NEW m \in BOOLEAN,
           row = [submission EXCEPT !.status = s, !.marked = m]
    PROVE  Inv'
<1>1. /\ submission' = [submission EXCEPT !.status = s, !.marked = m]
      /\ UNCHANGED <<versions, announced>>
      /\ been' = been \union {s}
      /\ overtaken' \in BOOLEAN
  BY DEF Decide, Inv, TypeOK
<1>2. TypeOK' BY <1>1, AnswerFacts DEF Decide, Inv, TypeOK, Request
<1>3. /\ submission'.status = s
      /\ submission'.draft = submission.draft
      /\ submission'.final = submission.final
  BY <1>1 DEF Inv, TypeOK
<1>4. Told' BY <1>1, <1>3, AnswerFacts DEF Decide, Inv, Told
<1>5. FinalVersionKept' BY <1>1, <1>3 DEF Inv, FinalVersionKept
<1>6. DraftsFollowOn' BY <1>1, <1>3 DEF Inv, DraftsFollowOn, LatestDraft
<1> QED BY <1>2, <1>4, <1>5, <1>6 DEF Inv

LEMMA DecisionKeeps ==
    ASSUME Inv, NEW q \in Requests, Reopen(q) \/ Disqualify(q) \/ Reinstate(q)
    PROVE  Inv'
<1>0. submission.status # "NONE"
  BY DEF Reopen, Disqualify, Reinstate, Decide, Answer, Inv, Told
<1>1. /\ MayReopen \in BOOLEAN /\ MayDisqualify \in BOOLEAN /\ MayReinstate \in BOOLEAN
      /\ submission.marked \in BOOLEAN
  BY DEF MayReopen, MayDisqualify, MayReinstate, Inv, TypeOK
<1>2. CASE Reopen(q)
  <2>1. [submission EXCEPT !.status = "DRAFT"]
          = [submission EXCEPT !.status = "DRAFT", !.marked = submission.marked]
    BY DEF Inv, TypeOK
  <2>2. Decide(q, "reopen", MayReopen,
               [submission EXCEPT !.status = "DRAFT", !.marked = submission.marked])
    BY <1>2, <2>1 DEF Reopen
  <2> QED BY <1>0, <1>1, <2>2, DecideKeeps
<1>3. CASE Disqualify(q) BY <1>0, <1>1, <1>3, DecideKeeps DEF Disqualify
<1>4. CASE Reinstate(q) BY <1>0, <1>1, <1>4, DecideKeeps DEF Reinstate
<1> QED BY <1>2, <1>3, <1>4

LEMMA StepKeeps == Inv /\ [Next]_vars => Inv'
<1> SUFFICES ASSUME Inv, [Next]_vars PROVE Inv'
  OBVIOUS
<1>1. CASE \E q \in Requests : Check(q) BY <1>1, CheckKeeps
<1>2. ASSUME NEW q \in Requests, Commit(q) PROVE Inv'
  BY <1>2, CreateKeeps, SaveKeeps, FinalizeKeeps, DecisionKeeps, RefuseKeeps DEF Commit
<1>3. CASE (\E d \in Deadlines : SetDeadline(d)) \/ EndChallenge \/ Tick
  BY <1>3, WorldKeeps
<1>4. CASE UNCHANGED vars
  <2>1. Waits BY <1>4 DEF Inv, TypeOK, Waits, vars
  <2>2. request' = request BY <1>4 DEF vars
  <2>3. request' \in [Requests -> Request] BY <2>2 DEF Inv, TypeOK, Request
  <2> QED BY <2>1, <2>2, <2>3, WaitKeeps
<1> QED BY <1>1, <1>2, <1>3, <1>4 DEF Next

LEMMA InitInv == Init => Inv
<1> SUFFICES ASSUME Init PROVE Inv
  OBVIOUS
<1>1. Len(versions) = 0 /\ DOMAIN versions = {} /\ versions \in Seq(Version) BY DEF Init
<1>2. TypeOK
  <2>1. challenge \in [open : BOOLEAN, deadline : Deadlines] BY DEF Init
  <2>2. submission \in [status : {"NONE", "DRAFT", "FINALIZED", "DISQUALIFIED"},
                        draft : 0 .. Len(versions), final : 0 .. Len(versions),
                        finalizedAt : Nat, marked : BOOLEAN]
    BY <1>1 DEF Init, NoSubmission
  <2>3. request \in [Requests -> [kind : Kinds \union {"idle"}, deadline : Nat, at : Nat]]
    BY DEF Init, Idle
  <2> QED BY <1>1, <2>1, <2>2, <2>3 DEF Init, TypeOK
<1>3. Told BY DEF Init, Told, Idle, NoSubmission
<1>4. FinalVersionKept BY <1>1 DEF Init, FinalVersionKept, NoSubmission
<1>5. DraftsFollowOn BY <1>1 DEF Init, DraftsFollowOn, NoSubmission
<1> QED BY <1>2, <1>3, <1>4, <1>5 DEF Inv

LEMMA Invariance == Spec => []Inv
BY InitInv, StepKeeps, PTL DEF Spec

-----------------------------------------------------------------------------
(* The theorems.                                                           *)

\* The row, its versions and the requests keep their types, whatever overlaps
\* (submissions.service.ts, submissions.repository.ts).
THEOREM TypeCorrect == Spec => []TypeOK
BY Invariance, PTL DEF Inv

\* Whatever sequence of reopenings, disqualifications, reinstatements and finalizations
\* comes, the row keeps pointing at the latest version that was announced as final.
THEOREM FinalKept == Spec => []FinalVersionKept
BY Invariance, PTL DEF Inv

\* Overlapping saves of saveDraft follow on from one another.
THEOREM NoSaveLost == Spec => []DraftsFollowOn
BY Invariance, PTL DEF Inv

LEMMA MarksStep == Inv /\ MarkedWhileDisqualified /\ [Next]_vars => MarkedWhileDisqualified'
<1> SUFFICES ASSUME Inv, MarkedWhileDisqualified, [Next]_vars
             PROVE  MarkedWhileDisqualified'
  OBVIOUS
<1> USE DEF MarkedWhileDisqualified
<1>1. ASSUME NEW q \in Requests, Check(q) PROVE MarkedWhileDisqualified'
  BY <1>1 DEF Check, CheckCreate, ReadChallenge, CheckFinalize, CheckReopen, CheckDisqualify,
              CheckReinstate, Admit, rowVars, history
<1>2. ASSUME NEW q \in Requests, Create(q) PROVE MarkedWhileDisqualified'
  BY <1>2 DEF Create, NoSubmission
<1>3. ASSUME NEW q \in Requests, Save(q)
      PROVE  MarkedWhileDisqualified'
  BY <1>3 DEF Save, history, Inv, TypeOK
<1>4. ASSUME NEW q \in Requests, Finalize(q) PROVE MarkedWhileDisqualified'
  BY <1>4 DEF Finalize, Accepts, Inv, TypeOK
<1>5. ASSUME NEW q \in Requests, Reopen(q) PROVE MarkedWhileDisqualified'
  BY <1>5 DEF Reopen, Decide, MayReopen, Inv, TypeOK
<1>6. ASSUME NEW q \in Requests, Disqualify(q) \/ Reinstate(q) PROVE MarkedWhileDisqualified'
  BY <1>6 DEF Disqualify, Reinstate, Decide, Inv, TypeOK
<1>7. ASSUME NEW q \in Requests, Refuse(q) PROVE MarkedWhileDisqualified'
  BY <1>7 DEF Refuse, rowVars, history
<1>8. CASE (\E d \in Deadlines : SetDeadline(d)) \/ EndChallenge \/ Tick
  BY <1>8 DEF SetDeadline, EndChallenge, Tick, rowVars, history
<1>9. CASE UNCHANGED vars BY <1>9 DEF vars, rowVars, history
<1> QED
  BY <1>1, <1>2, <1>3, <1>4, <1>5, <1>6, <1>7, <1>8, <1>9 DEF Next, Commit

\* disqualified_at is set exactly while the submission is disqualified, as long as no
\* decision of reopen, disqualify or reinstate lands on a row it no longer applies to.
THEOREM MarksCorrect == Spec => []MarkedWhileDisqualified
<1>1. Init => MarkedWhileDisqualified BY DEF Init, NoSubmission, MarkedWhileDisqualified
<1> QED BY <1>1, MarksStep, Invariance, PTL DEF Spec

\* What a step out of a disqualification may be.
Stands ==
    submission.status = "DISQUALIFIED" /\ rowVars' # rowVars =>
        /\ versions' = versions
        /\ \/ submission'.status = "DISQUALIFIED"
           \/ submission'.status = "FINALIZED" /\ submission'.finalizedAt = submission.finalizedAt
           \/ overtaken'

LEMMA StandsStep == Inv /\ [Next]_vars => Stands
<1> SUFFICES ASSUME Inv, [Next]_vars PROVE Stands
  OBVIOUS
<1>1. ASSUME NEW q \in Requests, Check(q) PROVE Stands
  BY <1>1 DEF Check, CheckCreate, ReadChallenge, CheckFinalize, CheckReopen, CheckDisqualify,
              CheckReinstate, Admit, Stands
<1>2. ASSUME NEW q \in Requests, Create(q) PROVE Stands BY <1>2 DEF Create, Stands
<1>3. ASSUME NEW q \in Requests, Save(q) PROVE Stands
  BY <1>3 DEF Save, Stands
<1>4. ASSUME NEW q \in Requests, Finalize(q) PROVE Stands
  BY <1>4 DEF Finalize, Accepts, Stands
<1>5. ASSUME NEW q \in Requests, Reopen(q) PROVE Stands
  BY <1>5 DEF Reopen, Decide, MayReopen, Stands
<1>6. ASSUME NEW q \in Requests, Disqualify(q) \/ Reinstate(q) PROVE Stands
  BY <1>6 DEF Disqualify, Reinstate, Decide, Stands, Inv, TypeOK
<1>7. ASSUME NEW q \in Requests, Refuse(q) PROVE Stands BY <1>7 DEF Refuse, Stands
<1>8. CASE (\E d \in Deadlines : SetDeadline(d)) \/ EndChallenge \/ Tick
  BY <1>8 DEF SetDeadline, EndChallenge, Tick, Stands
<1>9. CASE UNCHANGED vars BY <1>9 DEF vars, Stands
<1> QED BY <1>1, <1>2, <1>3, <1>4, <1>5, <1>6, <1>7, <1>8, <1>9 DEF Next, Commit

\* While a submission is disqualified nothing is saved or finalized, and only a
\* reinstatement or an overtaken reopening ends that.
THEOREM StandsCorrect == Spec => DisqualificationStands
<1>1. Inv /\ [Next]_vars => [Stands]_vars BY StandsStep
<1> QED BY <1>1, Invariance, PTL DEF Spec, DisqualificationStands, Stands

-----------------------------------------------------------------------------
(* The refinement.                                                         *)

Lived == [status |-> submission.status, final |-> submission.final # 0, been |-> been]

\* Two lives are the same when their parts are.
LEMMA LivesEqual ==
    ASSUME NEW s, NEW t, NEW f \in BOOLEAN, NEW g \in BOOLEAN, NEW b, NEW c,
           s = t, f <=> g, b = c
    PROVE  [status |-> s, final |-> f, been |-> b] = [status |-> t, final |-> g, been |-> c]
<1>1. f = g OBVIOUS
<1> QED BY <1>1

\* A step that changes the status to s, and neither makes nor loses a final version.
LEMMA TurnStep ==
    ASSUME NEW s, submission'.status = s, been' = been \union {s},
           (submission.final # 0)' <=> submission.final # 0
    PROVE  Lived' = Life!Turned(Lived, s, Lived.final)
BY LivesEqual DEF Lived, Life!Turned

LEMMA CreateLives ==
    ASSUME Inv, NEW q \in Requests, Create(q)
    PROVE  Lived' \in Life!After(Lived)
<1>1. submission = NoSubmission /\ been = {} BY DEF Create, Inv, Told
<1>2. submission'.status = "DRAFT" /\ submission'.final = 0 /\ submission.status = "NONE"
  BY <1>1 DEF Create, NoSubmission
<1>3. been' = been \union {"DRAFT"} BY <1>1 DEF Create
<1>4. Lived' = Life!Turned(Lived, "DRAFT", FALSE)
  BY <1>2, <1>3, LivesEqual DEF Lived, Life!Turned
<1> QED BY <1>2, <1>4 DEF Life!After, Lived

LEMMA FinalizeLives ==
    ASSUME Inv, NEW q \in Requests, Finalize(q)
    PROVE  Lived' \in Life!After(Lived)
<1>1. NewNumber # 0 BY DEF NewNumber, Inv, TypeOK
<1>2. submission'.final = NewNumber /\ submission'.status = "FINALIZED"
  BY DEF Finalize, Inv, TypeOK
<1>3. submission.status = "DRAFT" /\ submission.final = 0 BY DEF Finalize, Accepts
<1>4. been' = been \union {"FINALIZED"} BY DEF Finalize
<1>5. Lived' = Life!Turned(Lived, "FINALIZED", TRUE)
  BY <1>1, <1>2, <1>4, LivesEqual DEF Lived, Life!Turned
<1>6. Lived.status = "DRAFT" /\ ~Lived.final BY <1>3 DEF Lived
<1> QED BY <1>5, <1>6 DEF Life!After

LEMMA DecideLives ==
    ASSUME Inv, NEW q \in Requests, Reopen(q) \/ Disqualify(q) \/ Reinstate(q)
    PROVE  Lived' \in Life!After(Lived)
<1>1. Lived.status # "NONE" /\ Lived.been = been
  BY DEF Reopen, Disqualify, Reinstate, Decide, Answer, Inv, Told, Lived
<1>2. CASE Reopen(q)
  <2>1. "FINALIZED" \in been BY <1>2 DEF Reopen, Decide, Answer, Inv, Told
  <2>2. /\ submission'.status = "DRAFT" /\ submission'.final = submission.final
        /\ been' = been \union {"DRAFT"}
    BY <1>2 DEF Reopen, Decide, Inv, TypeOK
  <2>3. Lived' = Life!Turned(Lived, "DRAFT", Lived.final) BY <2>2, TurnStep
  <2> QED BY <1>1, <2>1, <2>3 DEF Life!After
<1>3. CASE Disqualify(q)
  <2>1. /\ submission'.status = "DISQUALIFIED" /\ submission'.final = submission.final
        /\ been' = been \union {"DISQUALIFIED"}
    BY <1>3 DEF Disqualify, Decide, Inv, TypeOK
  <2>2. Lived' = Life!Turned(Lived, "DISQUALIFIED", Lived.final) BY <2>1, TurnStep
  <2> QED BY <1>1, <2>2 DEF Life!After
<1>4. CASE Reinstate(q)
  <2>1. "DISQUALIFIED" \in been BY <1>4 DEF Reinstate, Decide, Answer, Inv, Told
  <2>2. /\ submission'.status = "FINALIZED" /\ submission'.final = submission.final
        /\ been' = been \union {"FINALIZED"}
    BY <1>4 DEF Reinstate, Decide, Inv, TypeOK
  <2>3. Lived' = Life!Turned(Lived, "FINALIZED", Lived.final) BY <2>2, TurnStep
  <2> QED BY <1>1, <2>1, <2>3 DEF Life!After
<1> QED BY <1>2, <1>3, <1>4

\* Every step of a submission is a step of its life, or leaves it as it is.
LEMMA LifeStep == Inv /\ [Next]_vars => Lived' \in Life!After(Lived) \/ Lived' = Lived
<1> SUFFICES ASSUME Inv, [Next]_vars
             PROVE  Lived' \in Life!After(Lived) \/ Lived' = Lived
  OBVIOUS
<1>1. ASSUME NEW q \in Requests, Check(q) \/ Refuse(q) PROVE Lived' = Lived
  BY <1>1 DEF Check, CheckCreate, ReadChallenge, CheckFinalize, CheckReopen, CheckDisqualify,
              CheckReinstate, Admit, Refuse, rowVars, history, Lived
<1>2. ASSUME NEW q \in Requests, Save(q)
      PROVE  Lived' = Lived
  <2>1. /\ submission'.status = submission.status /\ submission'.final = submission.final
        /\ been' = been
    BY <1>2 DEF Save, history, Inv, TypeOK
  <2> QED BY <2>1, LivesEqual DEF Lived
<1>3. CASE (\E d \in Deadlines : SetDeadline(d)) \/ EndChallenge \/ Tick
  BY <1>3 DEF SetDeadline, EndChallenge, Tick, rowVars, history, Lived
<1>4. CASE UNCHANGED vars BY <1>4 DEF vars, rowVars, history, Lived
<1> QED
  BY <1>1, <1>2, <1>3, <1>4, CreateLives, FinalizeLives, DecideLives DEF Next, Commit

\* Submissions implements SubmissionLife, the interface judging is modelled against.
THEOREM LifeImplemented == Spec => ImplementsLife
<1>1. Init => Life!Init
  <2> SUFFICES ASSUME Init PROVE Lived = Life!Unborn
    BY DEF Life!Init, Lived
  <2>1. Lived = [status |-> "NONE", final |-> FALSE, been |-> {}]
    BY LivesEqual DEF Init, NoSubmission, Lived
  <2> QED BY <2>1 DEF Life!Unborn
<1>2. Inv /\ [Next]_vars => [Life!Next]_Lived
  BY LifeStep DEF Life!Next, Lived
<1> QED BY <1>1, <1>2, Invariance, PTL DEF Spec, ImplementsLife, Life!Spec, Lived
=============================================================================

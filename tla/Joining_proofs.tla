--------------------------- MODULE Joining_proofs ---------------------------
(***************************************************************************)
(* Proofs about Joining, for any users, requests, join requests, uses and  *)
(* resends: the types, the grounds of memberships, the uses of the code,   *)
(* decisions, the link of the invitation and overwritten memberships.      *)
(***************************************************************************)
EXTENDS Joining, FiniteSetTheorems, TLAPS

ByMember == {"accept", "redeem", "ask", "approve", "reinstate"}

\* What a request r may rely on, over the join requests k and the invitation i.
Sound(r, k, i) ==
    /\ r \in Request
    /\ r.kind \in ByMember => r.user \in Users
    /\ r.kind = "accept" => r.user = Invitee
    /\ (r.kind = "accept" /\ r.existing # "UNREAD") => r.seen = "PENDING"
    /\ r.kind = "approve" =>
          r.ask \in Asks /\ k[r.ask].status # "NONE" /\ k[r.ask].user = r.user
    /\ r.existing # "ACTIVE"
    /\ r.count <= i.resends

AllSound == \A q \in Requests : Sound(request[q], ask, invitation)

AsksNamed == \A a \in Asks : ask[a].status # "NONE" => ask[a].user \in Users

\* The dedupe keys beyond the resends counted are free.
KeysBehind == \A key \in 1..MaxResends : mailed[key] # None => key <= invitation.resends

Core == TypeOK /\ AllSound /\ AsksNamed /\ KeysBehind

rows == <<invitation, mailed, ask, member>>

-----------------------------------------------------------------------------
(* Requests that stay sound.                                               *)

LEMMA IdleSound ==
    ASSUME NEW k, NEW i, i.resends \in Nat
    PROVE  Sound(Idle, k, i)
<1>1. Idle \in Request BY JoiningAssumption DEF Idle, Request, Statuses, Tokens
<1>2. Idle.kind = "none" /\ Idle.existing = "UNREAD" /\ Idle.count = 0 BY DEF Idle
<1> QED BY <1>1, <1>2 DEF Sound, ByMember

LEMMA StaysSound ==
    ASSUME NEW r, NEW k, NEW l, NEW i, NEW j, Sound(r, k, i),
           i.resends \in Nat, j.resends \in Nat, i.resends <= j.resends,
           \A a \in Asks : k[a].status # "NONE" => l[a].status # "NONE" /\ l[a].user = k[a].user
    PROVE  Sound(r, l, j)
<1>1. r.count \in Nat BY JoiningAssumption DEF Sound, Request, Tokens
<1> QED BY <1>1 DEF Sound

LEMMA Resends == TypeOK => invitation.resends \in Nat /\ invitation.resends <= MaxResends
BY JoiningAssumption DEF TypeOK, Invitation, Tokens

\* A step that only lets a request begin or go on.
LEMMA RequestKeeps ==
    ASSUME Core, UNCHANGED rows, code' \in Code, NEW q \in Requests, NEW r,
           request' = [request EXCEPT ![q] = r], Sound(r, ask, invitation)
    PROVE  Core'
<1>1. request \in [Requests -> Request] /\ r \in Request BY DEF Core, TypeOK, Sound
<1>2. TypeOK' BY <1>1 DEF Core, TypeOK, rows
<1>3. AllSound' BY <1>1 DEF Core, AllSound, rows
<1>4. AsksNamed' /\ KeysBehind' BY DEF Core, AsksNamed, KeysBehind, rows
<1> QED BY <1>2, <1>3, <1>4 DEF Core

\* A step of the rows, after which the requests are as before or answered.
LEMMA RowsKeep ==
    ASSUME Core, invitation' \in Invitation, code' \in Code, ask' \in [Asks -> Ask],
           mailed' \in [1..MaxResends -> Tokens \cup {None}], member' \in [Users -> Member],
           request' \in [Requests -> Request],
           \A q \in Requests : request'[q] = request[q] \/ request'[q] = Idle,
           invitation.resends <= invitation'.resends,
           \A a \in Asks : ask[a].status # "NONE" =>
              ask'[a].status # "NONE" /\ ask'[a].user = ask[a].user,
           AsksNamed', KeysBehind'
    PROVE  Core'
<1>1. TypeOK' BY DEF TypeOK
<1>2. invitation.resends \in Nat /\ invitation'.resends \in Nat BY <1>1, Resends DEF Core, TypeOK, Invitation, Tokens
<1>3. ASSUME NEW q \in Requests PROVE Sound(request'[q], ask', invitation')
  <2>1. CASE request'[q] = Idle BY <2>1, <1>2, IdleSound
  <2>2. CASE request'[q] = request[q]
    <3>1. Sound(request[q], ask, invitation) BY DEF Core, AllSound
    <3> QED BY <3>1, <2>2, <1>2, StaysSound
  <2> QED BY <2>1, <2>2
<1>4. AllSound' BY <1>3 DEF AllSound
<1> QED BY <1>1, <1>4 DEF Core

LEMMA Finished ==
    ASSUME Core, NEW q \in Requests, Finish(q)
    PROVE  /\ request' \in [Requests -> Request]
           /\ request'[q] = Idle
           /\ \A p \in Requests : request'[p] = request[p] \/ request'[p] = Idle
           /\ \A p \in Requests : p # q => request'[p] = request[p]
<1>1. Idle \in Request BY JoiningAssumption DEF Idle, Request, Statuses, Tokens
<1> QED BY <1>1 DEF Core, TypeOK, Finish

\* Who joins is an active member by that source, and found not to be one.
LEMMA Joined ==
    ASSUME Core, NEW q \in Requests, request[q].kind \in ByMember, NEW source \in Sources,
           Join(q, source)
    PROVE  /\ request[q].user \in Users
           /\ member' \in [Users -> Member]
           /\ member'[request[q].user] = [status |-> "ACTIVE", source |-> source]
           /\ \A u \in Users : u # request[q].user => member'[u] = member[u]
           /\ member[request[q].user].status = "ACTIVE" => request[q].existing = "INACTIVE"
<1>1. Sound(request[q], ask, invitation) BY DEF Core, AllSound
<1>2. request[q].user \in Users /\ request[q].existing \in {"NONE", "INACTIVE"}
  BY <1>1 DEF Sound, Join, Request, Statuses
<1>3. [status |-> "ACTIVE", source |-> source] \in Member BY DEF Member, Statuses
<1> QED BY <1>2, <1>3 DEF Join, Core, TypeOK

-----------------------------------------------------------------------------
(* The core of the invariant.                                              *)

LEMMA InitCore == Init => Core
<1> SUFFICES ASSUME Init PROVE Core OBVIOUS
<1>1. invitation \in Invitation /\ invitation.resends = 0 /\ invitation.resends \in Nat
  BY JoiningAssumption DEF Init, Invitation, Tokens
<1>2. code \in Code BY JoiningAssumption DEF Init, Code
<1>3. ask \in [Asks -> Ask] BY DEF Init, Ask
<1>4. member \in [Users -> Member] BY DEF Init, Member, Statuses, Sources
<1>5. mailed \in [1..MaxResends -> Tokens \cup {None}] BY DEF Init
<1>6. Sound(Idle, ask, invitation) BY <1>1, IdleSound
<1>7. request \in [Requests -> Request] /\ AllSound BY <1>6 DEF Init, AllSound, Sound
<1>8. AsksNamed /\ KeysBehind BY DEF Init, AsksNamed, KeysBehind
<1> QED BY <1>1, <1>2, <1>3, <1>4, <1>5, <1>7, <1>8 DEF Core, TypeOK

\* A request of u that has just begun, and has found u's membership.
LEMMA FieldsSound ==
    ASSUME Core, NEW u \in Users, NEW kind \in {"ask", "reinstate"},
           NEW existing \in {"NONE", "INACTIVE"}
    PROVE  Sound([Idle EXCEPT !.kind = kind, !.user = u, !.existing = existing], ask, invitation)
<1> DEFINE r == [Idle EXCEPT !.kind = kind, !.user = u, !.existing = existing]
<1>1. Idle \in Request /\ invitation.resends \in Nat
  BY JoiningAssumption, Resends DEF Core, Idle, Request, Statuses, Tokens
<1>2. /\ r \in Request /\ r.kind = kind /\ r.user = u /\ r.existing = existing
      /\ r.count = 0
  BY <1>1 DEF Idle, Request, Statuses
<1> HIDE DEF r
<1>3. Sound(r, ask, invitation) BY <1>1, <1>2 DEF Sound
<1> QED BY <1>3 DEF r

LEMMA BeginCore ==
    ASSUME Core, NEW q \in Requests,
           \/ BeginAccept(q) \/ BeginDecline(q) \/ BeginResend(q)
           \/ \E u \in Users : Pay(q, u) \/ FindAsk(q, u) \/ BeginReinstate(q, u)
           \/ \E a \in Asks : FindApprove(q, a)
    PROVE  Core'
<1>1. /\ Idle \in Request /\ invitation.resends \in Tokens /\ invitation.resends \in Nat
      /\ invitation.status \in {"PENDING", "ACCEPTED", "DECLINED", "REVOKED"}
      /\ code \in Code
  BY JoiningAssumption, Resends DEF Core, TypeOK, Invitation, Idle, Request, Statuses, Tokens
<1>2. CASE BeginAccept(q)
  <2> DEFINE r == [Idle EXCEPT !.kind = "accept", !.user = Invitee, !.seen = invitation.status]
  <2>1. /\ r \in Request /\ r.kind = "accept" /\ r.user = Invitee /\ r.existing = "UNREAD"
        /\ r.count = 0
    BY <1>1, JoiningAssumption DEF Idle, Request
  <2>2. request' = [request EXCEPT ![q] = r] /\ UNCHANGED rows /\ code' = code
    BY <1>2 DEF BeginAccept, Begin, rows
  <2> HIDE DEF r
  <2>3. Sound(r, ask, invitation) BY <2>1, <1>1, JoiningAssumption DEF Sound
  <2> QED BY <2>2, <2>3, <1>1, RequestKeeps
<1>3. CASE BeginDecline(q)
  <2> DEFINE r == [Idle EXCEPT !.kind = "decline", !.user = Invitee]
  <2>1. r \in Request /\ r.kind = "decline" /\ r.existing = "UNREAD" /\ r.count = 0
    BY <1>1, JoiningAssumption DEF Idle, Request
  <2>2. request' = [request EXCEPT ![q] = r] /\ UNCHANGED rows /\ code' = code
    BY <1>3 DEF BeginDecline, Begin, rows
  <2> HIDE DEF r
  <2>3. Sound(r, ask, invitation) BY <2>1, <1>1 DEF Sound, ByMember
  <2> QED BY <2>2, <2>3, <1>1, RequestKeeps
<1>4. CASE BeginResend(q)
  <2> DEFINE r == [Idle EXCEPT !.kind = "resend", !.count = invitation.resends]
  <2>1. /\ r \in Request /\ r.kind = "resend" /\ r.existing = "UNREAD"
        /\ r.count = invitation.resends
    BY <1>1 DEF Idle, Request
  <2>2. request' = [request EXCEPT ![q] = r] /\ UNCHANGED rows /\ code' = code
    BY <1>4 DEF BeginResend, Begin, rows
  <2> HIDE DEF r
  <2>3. Sound(r, ask, invitation) BY <2>1, <1>1 DEF Sound, ByMember
  <2> QED BY <2>2, <2>3, <1>1, RequestKeeps
<1>5. ASSUME NEW u \in Users, Pay(q, u) PROVE Core'
  <2> DEFINE r == [Idle EXCEPT !.kind = "redeem", !.user = u]
  <2>1. /\ r \in Request /\ r.kind = "redeem" /\ r.user = u /\ r.existing = "UNREAD"
        /\ r.count = 0
    BY <1>1 DEF Idle, Request
  <2>2. code.uses < MaxUses /\ code' = [code EXCEPT !.uses = code.uses + 1]
    BY <1>5 DEF Pay, Redeemable
  <2>3. code.uses + 1 \in 0..MaxUses BY <1>1, <2>2, JoiningAssumption DEF Code
  <2>4. code' \in Code BY <1>1, <2>2, <2>3 DEF Code
  <2>5. request' = [request EXCEPT ![q] = r] /\ UNCHANGED rows
    BY <1>5 DEF Pay, Begin, rows
  <2> HIDE DEF r
  <2>6. Sound(r, ask, invitation) BY <2>1, <1>1 DEF Sound
  <2> QED BY <2>4, <2>5, <2>6, RequestKeeps
<1>6. ASSUME NEW u \in Users, FindAsk(q, u) \/ BeginReinstate(q, u) PROVE Core'
  <2>1. member[u].status \in {"NONE", "INACTIVE"}
    BY <1>6 DEF FindAsk, BeginReinstate, Core, TypeOK, Member, Statuses
  <2>2. PICK kind \in {"ask", "reinstate"} :
           request' = [request EXCEPT ![q] =
              [Idle EXCEPT !.kind = kind, !.user = u, !.existing = member[u].status]]
    BY <1>6 DEF FindAsk, BeginReinstate, Begin
  <2>3. UNCHANGED rows /\ code' = code BY <1>6 DEF FindAsk, BeginReinstate, rows
  <2> QED BY <2>1, <2>2, <2>3, <1>1, FieldsSound, RequestKeeps
<1>7. ASSUME NEW a \in Asks, FindApprove(q, a) PROVE Core'
  <2> DEFINE u == ask[a].user
             r == [Idle EXCEPT !.kind = "approve", !.user = u, !.ask = a,
                               !.existing = member[u].status]
  <2>1. u \in Users /\ ask[a].status # "NONE" BY <1>7 DEF FindApprove, Core, AsksNamed
  <2>2. member[u].status \in {"NONE", "INACTIVE"}
    BY <1>7, <2>1 DEF FindApprove, Core, TypeOK, Member, Statuses
  <2>3. /\ r \in Request /\ r.kind = "approve" /\ r.user = u /\ r.ask = a
        /\ r.existing \in {"NONE", "INACTIVE"} /\ r.count = 0
    BY <1>1, <2>1, <2>2 DEF Idle, Request, Statuses
  <2>4. request' = [request EXCEPT ![q] = r] /\ UNCHANGED rows /\ code' = code
    BY <1>7 DEF FindApprove, Begin, rows
  <2> HIDE DEF r
  <2>5. Sound(r, ask, invitation) BY <2>1, <2>3, <1>1 DEF Sound, ByMember
  <2> QED BY <2>4, <2>5, <1>1, RequestKeeps
<1> QED BY <1>2, <1>3, <1>4, <1>5, <1>6, <1>7

LEMMA FindCore ==
    ASSUME Core, NEW q \in Requests, FindAccept(q) \/ FindRedeem(q)
    PROVE  Core'
<1> DEFINE existing == member[request[q].user].status
           r == [request[q] EXCEPT !.existing = existing]
<1>1. Sound(request[q], ask, invitation) BY DEF Core, AllSound
<1>2. /\ existing # "ACTIVE" /\ request[q].kind \in {"accept", "redeem"}
      /\ request[q].kind = "accept" => request[q].seen = "PENDING"
      /\ request' = [request EXCEPT ![q].existing = existing]
      /\ UNCHANGED rows /\ code' = code
  BY DEF FindAccept, FindRedeem, Find, rows
<1>3. existing \in Statuses BY <1>1, <1>2 DEF Sound, ByMember, Core, TypeOK, Member
<1>4. /\ r \in Request /\ r.kind = request[q].kind /\ r.user = request[q].user
      /\ r.existing = existing /\ r.seen = request[q].seen /\ r.count = request[q].count
  BY <1>1, <1>3 DEF Sound, Request
<1>5. request' = [request EXCEPT ![q] = r] BY <1>2
<1> HIDE DEF r
<1>6. Sound(r, ask, invitation) BY <1>1, <1>2, <1>4 DEF Sound, ByMember
<1>7. code' \in Code BY <1>2 DEF Core, TypeOK
<1> QED BY <1>2, <1>5, <1>6, <1>7, RequestKeeps

LEMMA CommitCore ==
    ASSUME Core, NEW q \in Requests,
           \/ Accept(q) \/ Decline(q) \/ Resend(q) \/ Redeem(q) \/ Approve(q) \/ Reinstate(q)
           \/ Refuse(q) \/ \E a \in Asks : CreateAsk(q, a)
    PROVE  Core'
<1>1. /\ invitation \in Invitation /\ code \in Code /\ ask \in [Asks -> Ask]
      /\ mailed \in [1..MaxResends -> Tokens \cup {None}] /\ member \in [Users -> Member]
      /\ invitation.resends \in Nat /\ invitation.resends <= MaxResends
      /\ AsksNamed /\ KeysBehind /\ Sound(request[q], ask, invitation)
  BY Resends DEF Core, TypeOK, AllSound
<1>2. Finish(q)
  BY DEF Accept, Decline, Resend, Redeem, Approve, Reinstate, Refuse, CreateAsk
<1>3. /\ request' \in [Requests -> Request]
      /\ \A p \in Requests : request'[p] = request[p] \/ request'[p] = Idle
  BY <1>2, Finished
<1>4. CASE Accept(q) \/ Redeem(q) \/ Reinstate(q)
  <2>1. PICK source \in Sources : Join(q, source)
    BY <1>4 DEF Accept, Redeem, Reinstate, Sources
  <2>2. request[q].kind \in ByMember BY <1>4 DEF Accept, Redeem, Reinstate, ByMember
  <2>3. member' \in [Users -> Member] BY <2>1, <2>2, Joined
  <2>4. /\ invitation' \in Invitation /\ invitation'.resends = invitation.resends
        /\ UNCHANGED <<code, ask, mailed>>
    BY <1>1, <1>4 DEF Accept, Redeem, Reinstate, Invitation
  <2>5. AsksNamed' /\ KeysBehind' BY <1>1, <2>4 DEF AsksNamed, KeysBehind
  <2> QED BY <1>1, <1>3, <2>3, <2>4, <2>5, RowsKeep
<1>5. CASE Decline(q) \/ Refuse(q)
  <2>1. /\ invitation' \in Invitation /\ invitation'.resends = invitation.resends
        /\ UNCHANGED <<code, ask, mailed, member>>
    BY <1>1, <1>5 DEF Decline, Refuse, Invitation
  <2>2. AsksNamed' /\ KeysBehind' BY <1>1, <2>1 DEF AsksNamed, KeysBehind
  <2> QED BY <1>1, <1>3, <2>1, <2>2, RowsKeep
<1>6. CASE Resend(q)
  <2>1. invitation.resends + 1 \in Tokens BY <1>1, <1>6, JoiningAssumption DEF Resend, Tokens
  <2>2. /\ invitation' \in Invitation /\ invitation'.resends = invitation.resends + 1
        /\ mailed' \in [1..MaxResends -> Tokens \cup {None}]
        /\ UNCHANGED <<code, ask, member>>
    BY <1>1, <1>6, <2>1 DEF Resend, Invitation
  <2>3. request[q].count \in Nat /\ request[q].count <= invitation.resends
    BY <1>1, JoiningAssumption DEF Sound, Request, Tokens
  <2>4. KeysBehind'
    <3> SUFFICES ASSUME NEW key \in 1..MaxResends, mailed'[key] # None
                 PROVE  key <= invitation'.resends
      BY DEF KeysBehind
    <3>1. CASE key = request[q].count + 1 BY <3>1, <2>2, <2>3, <1>1
    <3>2. CASE key # request[q].count + 1
      <4>1. mailed'[key] = mailed[key] BY <1>1, <1>6, <3>2 DEF Resend
      <4> QED BY <4>1, <1>1, <2>2 DEF KeysBehind
    <3> QED BY <3>1, <3>2
  <2>5. AsksNamed' BY <1>1, <2>2 DEF AsksNamed
  <2>6. invitation.resends <= invitation'.resends BY <1>1, <2>2
  <2> QED BY <1>1, <1>3, <2>2, <2>4, <2>5, <2>6, RowsKeep
<1>7. CASE Approve(q)
  <2>1. request[q].kind \in ByMember /\ Join(q, "JOIN_REQUEST") /\ Decide(request[q].ask, "APPROVED")
    BY <1>7 DEF Approve, ByMember
  <2>2. member' \in [Users -> Member] BY <2>1, Joined DEF Sources
  <2>3. UNCHANGED <<invitation, mailed, code>> BY <1>7 DEF Approve
  <2>4. /\ ask' \in [Asks -> Ask]
        /\ \A a \in Asks : ask[a].status # "NONE" =>
              ask'[a].status # "NONE" /\ ask'[a].user = ask[a].user
        /\ \A a \in Asks : ask'[a].user = ask[a].user
        /\ \A a \in Asks : ask'[a].status # "NONE" => ask[a].status # "NONE"
    BY <1>1, <2>1 DEF Decide, Ask, Decisions
  <2>5. AsksNamed' /\ KeysBehind' BY <1>1, <2>3, <2>4 DEF AsksNamed, KeysBehind
  <2> QED BY <1>1, <1>3, <2>2, <2>3, <2>4, <2>5, RowsKeep
<1>8. ASSUME NEW a \in Asks, CreateAsk(q, a) PROVE Core'
  <2>1. request[q].user \in Users BY <1>1, <1>8 DEF CreateAsk, Sound, ByMember
  <2>2. /\ ask[a].status = "NONE" /\ UNCHANGED <<invitation, mailed, code, member>>
        /\ ask' = [ask EXCEPT ![a] = [user |-> request[q].user, status |-> "PENDING"]]
    BY <1>8 DEF CreateAsk
  <2>3. ask' \in [Asks -> Ask] BY <1>1, <2>1, <2>2 DEF Ask
  <2>4. AsksNamed' BY <1>1, <2>1, <2>2 DEF AsksNamed
  <2>5. KeysBehind' BY <1>1, <2>2 DEF KeysBehind
  <2>6. \A b \in Asks : ask[b].status # "NONE" =>
           ask'[b].status # "NONE" /\ ask'[b].user = ask[b].user
    BY <1>1, <2>2
  <2> QED BY <1>1, <1>3, <2>2, <2>3, <2>4, <2>5, <2>6, RowsKeep
<1> QED BY <1>4, <1>5, <1>6, <1>7, <1>8

\* The steps that no request in progress stands behind.
LEMMA SingleCore ==
    ASSUME Core,
           \/ Revoke \/ CloseCode \/ \E u \in Users : MemberLeaves(u)
           \/ \E a \in Asks : Withdraw(a) \/ Reject(a)
    PROVE  Core'
<1>1. /\ invitation \in Invitation /\ code \in Code /\ ask \in [Asks -> Ask]
      /\ mailed \in [1..MaxResends -> Tokens \cup {None}] /\ member \in [Users -> Member]
      /\ request \in [Requests -> Request]
      /\ invitation.resends \in Nat /\ AsksNamed /\ KeysBehind
  BY Resends DEF Core, TypeOK
<1>2. CASE Revoke \/ CloseCode \/ \E u \in Users : MemberLeaves(u)
  <2>1. /\ invitation' \in Invitation /\ invitation'.resends = invitation.resends
        /\ code' \in Code /\ UNCHANGED <<ask, mailed, request>>
    BY <1>1, <1>2 DEF Revoke, CloseCode, MemberLeaves, Invitation, Code
  <2>2. member' \in [Users -> Member]
    BY <1>1, <1>2 DEF Revoke, CloseCode, MemberLeaves, Member, Statuses
  <2>3. AsksNamed' /\ KeysBehind' BY <1>1, <2>1 DEF AsksNamed, KeysBehind
  <2> QED BY <1>1, <2>1, <2>2, <2>3, RowsKeep
<1>3. ASSUME NEW a \in Asks, Withdraw(a) \/ Reject(a) PROVE Core'
  <2>1. PICK d \in Decisions : Decide(a, d) BY <1>3 DEF Withdraw, Reject, Decisions
  <2>2. UNCHANGED <<invitation, mailed, code, member, request>> BY <1>3 DEF Withdraw, Reject
  <2>3. /\ ask' \in [Asks -> Ask]
        /\ \A b \in Asks : ask[b].status # "NONE" =>
              ask'[b].status # "NONE" /\ ask'[b].user = ask[b].user
        /\ \A b \in Asks : ask'[b].user = ask[b].user
        /\ \A b \in Asks : ask'[b].status # "NONE" => ask[b].status # "NONE"
    BY <1>1, <2>1 DEF Decide, Ask, Decisions
  <2>4. AsksNamed' /\ KeysBehind' BY <1>1, <2>2, <2>3 DEF AsksNamed, KeysBehind
  <2> QED BY <1>1, <2>2, <2>3, <2>4, RowsKeep
<1> QED BY <1>2, <1>3

LEMMA StepCore == Core /\ [Next]_vars => Core'
<1> SUFFICES ASSUME Core, [Next]_vars PROVE Core' OBVIOUS
<1>1. CASE UNCHANGED vars
  BY <1>1 DEF vars, Core, TypeOK, AllSound, AsksNamed, KeysBehind
<1>2. CASE Next BY <1>2, BeginCore, FindCore, CommitCore, SingleCore DEF Next
<1> QED BY <1>1, <1>2

-----------------------------------------------------------------------------
(* Types.                                                                  *)

LEMMA CoreHolds == Spec => []Core
BY InitCore, StepCore, PTL DEF Spec

\* Every row and every request keeps its type.
THEOREM TypeCorrect == Spec => []TypeOK
<1>1. Core => TypeOK BY DEF Core
<1> QED BY <1>1, CoreHolds, PTL

-----------------------------------------------------------------------------
(* Memberships keep their grounds.                                         *)

Grounded(u) ==
    /\ member[u].source = "INVITATION" => u = Invitee /\ invitation.status = "ACCEPTED"
    /\ member[u].source = "JOIN_REQUEST" =>
          \E a \in Asks : ask[a] = [user |-> u, status |-> "APPROVED"]

\* Acceptance and approval last, and every new source is grounded.
LEMMA GroundsKeep ==
    ASSUME GroundsStand,
           invitation.status = "ACCEPTED" => invitation'.status = "ACCEPTED",
           \A a \in Asks : ask[a].status = "APPROVED" => ask'[a] = ask[a],
           \A u \in Users : member'[u].source = member[u].source \/ Grounded(u)'
    PROVE  GroundsStand'
<1> SUFFICES ASSUME NEW u \in Users PROVE Grounded(u)' BY DEF GroundsStand, Grounded
<1>1. CASE member'[u].source = member[u].source
  <2>1. Grounded(u) BY DEF GroundsStand, Grounded
  <2>2. ASSUME NEW a \in Asks, ask[a] = [user |-> u, status |-> "APPROVED"]
        PROVE  ask'[a] = [user |-> u, status |-> "APPROVED"]
    BY <2>2
  <2> QED BY <1>1, <2>1, <2>2 DEF Grounded
<1> QED BY <1>1

LEMMA StepGrounds == Core /\ GroundsStand /\ [Next]_vars => GroundsStand'
<1> SUFFICES ASSUME Core, GroundsStand, [Next]_vars PROVE GroundsStand' OBVIOUS
<1>1. \/ UNCHANGED <<invitation, ask, member>>
      \/ \E q \in Requests : \/ Accept(q) \/ Redeem(q) \/ Approve(q) \/ Reinstate(q)
                            \/ Decline(q) \/ Resend(q) \/ \E a \in Asks : CreateAsk(q, a)
      \/ Revoke \/ \E u \in Users : MemberLeaves(u)
      \/ \E a \in Asks : Withdraw(a) \/ Reject(a)
  BY DEF vars, Next, BeginAccept, FindAccept, BeginDecline, BeginResend, Pay, FindAsk,
         BeginReinstate, FindRedeem, Find, FindApprove, Refuse, CloseCode
<1>2. /\ invitation \in Invitation /\ ask \in [Asks -> Ask] /\ member \in [Users -> Member]
  BY DEF Core, TypeOK
<1>3. CASE UNCHANGED <<invitation, ask, member>> BY <1>3, GroundsKeep
<1>4. ASSUME NEW q \in Requests, Accept(q) PROVE GroundsStand'
  <2>1. request[q].user = Invitee BY <1>4 DEF Accept, Core, AllSound, Sound
  <2>2. invitation'.status = "ACCEPTED" /\ UNCHANGED ask BY <1>2, <1>4 DEF Accept, Invitation
  <2>3. /\ member'[Invitee].source = "INVITATION"
        /\ \A u \in Users : u # Invitee => member'[u] = member[u]
    BY <1>4, <2>1, Joined DEF Accept, ByMember, Sources
  <2> QED BY <2>2, <2>3, GroundsKeep DEF Grounded
<1>5. ASSUME NEW q \in Requests, Redeem(q) \/ Reinstate(q) PROVE GroundsStand'
  <2>1. PICK source \in {"JOIN_CODE", "REACTIVATION"} : Join(q, source)
    BY <1>5 DEF Redeem, Reinstate
  <2>2. /\ member'[request[q].user].source = source
        /\ \A u \in Users : u # request[q].user => member'[u] = member[u]
    BY <1>5, <2>1, Joined DEF Redeem, Reinstate, ByMember, Sources
  <2>3. UNCHANGED <<invitation, ask>> BY <1>5 DEF Redeem, Reinstate
  <2> QED BY <2>1, <2>2, <2>3, GroundsKeep DEF Grounded
<1>6. ASSUME NEW q \in Requests, Approve(q) PROVE GroundsStand'
  <2>1. PICK a \in Asks, u \in Users : a = request[q].ask /\ u = request[q].user /\ ask[a].user = u
    BY <1>6 DEF Approve, Core, AllSound, Sound, ByMember
  <2>2. ask[a].status = "PENDING" /\ ask' = [ask EXCEPT ![a].status = "APPROVED"]
    BY <1>6, <2>1 DEF Approve, Decide
  <2>3. ask'[a] = [user |-> u, status |-> "APPROVED"] BY <1>2, <2>1, <2>2 DEF Ask
  <2>4. \A b \in Asks : ask[b].status = "APPROVED" => ask'[b] = ask[b] BY <1>2, <2>2
  <2>5. /\ member'[u].source = "JOIN_REQUEST"
        /\ \A v \in Users : v # u => member'[v] = member[v]
    BY <1>6, <2>1, Joined DEF Approve, ByMember, Sources
  <2>6. Grounded(u)' BY <2>3, <2>5 DEF Grounded
  <2>7. invitation' = invitation BY <1>6 DEF Approve
  <2>8. \A v \in Users : member'[v].source = member[v].source \/ Grounded(v)'
    <3> TAKE v \in Users
    <3>1. CASE v = u BY <3>1, <2>6
    <3>2. CASE v # u BY <3>2, <2>5
    <3> QED BY <3>1, <3>2
  <2> QED BY <2>4, <2>7, <2>8, GroundsKeep
<1>7. ASSUME NEW q \in Requests, Decline(q) \/ Resend(q) PROVE GroundsStand'
  <2>1. invitation.status = "ACCEPTED" => invitation'.status = "ACCEPTED"
    BY <1>2, <1>7 DEF Decline, Resend, Invitation
  <2>2. UNCHANGED <<ask, member>> BY <1>7 DEF Decline, Resend
  <2> QED BY <2>1, <2>2, GroundsKeep
<1>8. CASE Revoke BY <1>8, GroundsKeep DEF Revoke
<1>9. ASSUME NEW q \in Requests, NEW a \in Asks, CreateAsk(q, a) PROVE GroundsStand'
  <2>1. \A b \in Asks : ask[b].status = "APPROVED" => ask'[b] = ask[b]
    BY <1>2, <1>9 DEF CreateAsk
  <2> QED BY <1>9, <2>1, GroundsKeep DEF CreateAsk
<1>10. ASSUME NEW a \in Asks, Withdraw(a) \/ Reject(a) PROVE GroundsStand'
  <2>1. \A b \in Asks : ask[b].status = "APPROVED" => ask'[b] = ask[b]
    BY <1>2, <1>10 DEF Withdraw, Reject, Decide
  <2>2. UNCHANGED <<invitation, member>> BY <1>10 DEF Withdraw, Reject
  <2> QED BY <2>1, <2>2, GroundsKeep
<1>11. ASSUME NEW u \in Users, MemberLeaves(u) PROVE GroundsStand'
  <2>1. \A v \in Users : member'[v].source = member[v].source
    BY <1>2, <1>11 DEF MemberLeaves, Member
  <2>2. UNCHANGED <<invitation, ask>> BY <1>11 DEF MemberLeaves
  <2> QED BY <2>1, <2>2, GroundsKeep
<1> QED BY <1>1, <1>3, <1>4, <1>5, <1>6, <1>7, <1>8, <1>9, <1>10, <1>11

\* A membership that names an invitation or a join request has one that says so.
THEOREM GroundsCorrect == Spec => []GroundsStand
<1>1. Init => GroundsStand BY DEF Init, GroundsStand
<1> QED BY <1>1, StepGrounds, CoreHolds, PTL DEF Spec

-----------------------------------------------------------------------------
(* Every membership by code is paid for.                                   *)

LEMMA Counted ==
    /\ IsFiniteSet(JoinedByCode) /\ Cardinality(JoinedByCode) \in Nat
    /\ IsFiniteSet(Redeeming) /\ Cardinality(Redeeming) \in Nat
<1>1. JoinedByCode \subseteq Users /\ Redeeming \subseteq Requests
  BY DEF JoinedByCode, Redeeming
<1> QED BY <1>1, JoiningAssumption, FS_Subset, FS_CardinalityType

\* Neither set grows and no use is taken back.
LEMMA PaidKeep ==
    ASSUME Core, JoinsArePaid, JoinedByCode' \subseteq JoinedByCode,
           Redeeming' \subseteq Redeeming, code'.uses = code.uses
    PROVE  JoinsArePaid'
<1>1. /\ Cardinality(JoinedByCode') \in Nat /\ Cardinality(JoinedByCode') <= Cardinality(JoinedByCode)
      /\ Cardinality(Redeeming') \in Nat /\ Cardinality(Redeeming') <= Cardinality(Redeeming)
  BY Counted, FS_Subset, FS_CardinalityType
<1>2. code.uses \in Nat BY JoiningAssumption DEF Core, TypeOK, Code
<1> QED BY <1>1, <1>2, Counted DEF JoinsArePaid

LEMMA StepPaid == Core /\ JoinsArePaid /\ [Next]_vars => JoinsArePaid'
<1> SUFFICES ASSUME Core, JoinsArePaid, [Next]_vars PROVE JoinsArePaid' OBVIOUS
<1>1. /\ request \in [Requests -> Request] /\ member \in [Users -> Member] /\ code \in Code
      /\ code.uses \in Nat
  BY JoiningAssumption DEF Core, TypeOK, Code
<1>2. ASSUME NEW q \in Requests, NEW r, request' = [request EXCEPT ![q] = r],
             r.kind = "redeem" => request[q].kind = "redeem"
      PROVE  Redeeming' \subseteq Redeeming
  BY <1>1, <1>2 DEF Redeeming
<1>3. CASE UNCHANGED <<member, request, code>>
  <2>1. JoinedByCode' = JoinedByCode /\ Redeeming' = Redeeming BY <1>3 DEF JoinedByCode, Redeeming
  <2> QED BY <1>3, <2>1, PaidKeep
<1>4. ASSUME NEW q \in Requests, UNCHANGED <<member, code>>,
             \/ BeginAccept(q) \/ BeginDecline(q) \/ BeginResend(q)
             \/ \E u \in Users : FindAsk(q, u) \/ BeginReinstate(q, u)
             \/ \E a \in Asks : FindApprove(q, a)
             \/ FindAccept(q) \/ FindRedeem(q)
             \/ Finish(q)
      PROVE  JoinsArePaid'
  <2>1. PICK r : /\ request' = [request EXCEPT ![q] = r]
                 /\ r.kind = "redeem" => request[q].kind = "redeem"
    <3>1. CASE Finish(q)
      <4>1. Idle.kind = "none" BY DEF Idle
      <4> QED BY <3>1, <4>1 DEF Finish
    <3>2. CASE FindAccept(q) \/ FindRedeem(q)
      <4> DEFINE r == [request[q] EXCEPT !.existing = member[request[q].user].status]
      <4>1. request' = [request EXCEPT ![q] = r] BY <3>2 DEF FindAccept, FindRedeem, Find
      <4>2. r.kind = request[q].kind BY <1>1 DEF Request
      <4> QED BY <4>1, <4>2
    <3>3. CASE BeginAccept(q) \/ BeginDecline(q) \/ BeginResend(q)
      BY <3>3 DEF BeginAccept, BeginDecline, BeginResend, Begin, Idle
    <3>4. CASE \E u \in Users : FindAsk(q, u) \/ BeginReinstate(q, u)
      BY <3>4 DEF FindAsk, BeginReinstate, Begin, Idle
    <3>5. CASE \E a \in Asks : FindApprove(q, a)
      BY <3>5 DEF FindApprove, Begin, Idle
    <3> QED BY <1>4, <3>1, <3>2, <3>3, <3>4, <3>5
  <2>2. Redeeming' \subseteq Redeeming BY <1>2, <2>1
  <2>3. JoinedByCode' = JoinedByCode BY <1>4 DEF JoinedByCode
  <2> QED BY <1>4, <2>2, <2>3, PaidKeep
<1>5. ASSUME NEW q \in Requests, NEW u \in Users, Pay(q, u) PROVE JoinsArePaid'
  <2>1. request[q] = Idle /\ code.uses < MaxUses /\ code'.uses = code.uses + 1 /\ member' = member
    BY <1>1, <1>5 DEF Pay, Begin, Redeemable, Code
  <2>2. request'[q].kind = "redeem" /\ \A p \in Requests : p # q => request'[p] = request[p]
    BY <1>1, <1>5 DEF Pay, Begin, Idle
  <2>3. q \notin Redeeming /\ Redeeming' = Redeeming \cup {q}
    BY <2>1, <2>2 DEF Redeeming, Idle
  <2>4. Cardinality(Redeeming') = Cardinality(Redeeming) + 1 BY <2>3, Counted, FS_AddElement
  <2>5. JoinedByCode' = JoinedByCode BY <2>1 DEF JoinedByCode
  <2> QED BY <1>1, <2>1, <2>4, <2>5, Counted, JoiningAssumption DEF JoinsArePaid
<1>6. ASSUME NEW q \in Requests, Accept(q) \/ Approve(q) \/ Reinstate(q) PROVE JoinsArePaid'
  <2>1. PICK source \in Sources \ {"JOIN_CODE"} : Join(q, source)
    BY <1>6 DEF Accept, Approve, Reinstate, Sources
  <2>2. /\ member'[request[q].user].source = source
        /\ \A u \in Users : u # request[q].user => member'[u] = member[u]
    <3>1. source \in Sources /\ request[q].kind \in ByMember
      BY <1>6 DEF Accept, Approve, Reinstate, ByMember
    <3>2. [status |-> "ACTIVE", source |-> source].source = source OBVIOUS
    <3> QED BY <2>1, <3>1, <3>2, Joined
  <2>3. JoinedByCode' \subseteq JoinedByCode BY <2>1, <2>2 DEF JoinedByCode
  <2>4. Redeeming' \subseteq Redeeming
    BY <1>2, <1>6 DEF Accept, Approve, Reinstate, Finish, Idle
  <2>5. code' = code BY <1>6 DEF Accept, Approve, Reinstate
  <2> QED BY <2>3, <2>4, <2>5, PaidKeep
<1>7. ASSUME NEW q \in Requests, Redeem(q) PROVE JoinsArePaid'
  <2> DEFINE u == request[q].user
  <2>1. /\ u \in Users
        /\ \A v \in Users : v # u => member'[v] = member[v]
        /\ member'[u].source = "JOIN_CODE"
    BY <1>7, Joined DEF Redeem, ByMember, Sources
  <2>2. JoinedByCode' = JoinedByCode \cup {u} BY <2>1 DEF JoinedByCode
  <2>3. Cardinality(JoinedByCode') <= Cardinality(JoinedByCode) + 1
    <3>1. CASE u \in JoinedByCode
      <4>1. JoinedByCode' = JoinedByCode BY <2>2, <3>1
      <4> QED BY <4>1, Counted
    <3>2. CASE u \notin JoinedByCode
      <4>1. Cardinality(JoinedByCode') = Cardinality(JoinedByCode) + 1
        BY <2>2, <3>2, Counted, FS_AddElement
      <4> QED BY <4>1, Counted
    <3> QED BY <3>1, <3>2
  <2>4. q \in Redeeming /\ Redeeming' = Redeeming \ {q}
    BY <1>1, <1>7, Finished DEF Redeem, Redeeming, Idle
  <2>5. Cardinality(Redeeming') = Cardinality(Redeeming) - 1
    BY <2>4, Counted, FS_RemoveElement
  <2>6. code' = code BY <1>7 DEF Redeem
  <2>7. Cardinality(JoinedByCode') \in Nat
    <3>1. IsFiniteSet(JoinedByCode') BY <2>2, Counted, FS_AddElement
    <3> QED BY <3>1, FS_CardinalityType
  <2> QED BY <1>1, <2>3, <2>5, <2>6, <2>7, Counted DEF JoinsArePaid
<1>8. ASSUME NEW u \in Users, MemberLeaves(u) PROVE JoinsArePaid'
  <2>1. \A v \in Users : member'[v].source = member[v].source
    BY <1>1, <1>8 DEF MemberLeaves, Member
  <2>2. JoinedByCode' = JoinedByCode BY <2>1 DEF JoinedByCode
  <2>3. Redeeming' = Redeeming /\ code' = code BY <1>8 DEF MemberLeaves, Redeeming
  <2> QED BY <2>2, <2>3, PaidKeep
<1>9. CASE CloseCode
  <2>1. code'.uses = code.uses BY <1>1, <1>9 DEF CloseCode, Code
  <2>2. JoinedByCode' = JoinedByCode /\ Redeeming' = Redeeming
    BY <1>9 DEF CloseCode, JoinedByCode, Redeeming
  <2> QED BY <2>1, <2>2, PaidKeep
<1>10. \A q \in Requests :
          \/ BeginAccept(q) \/ BeginDecline(q) \/ BeginResend(q)
          \/ \E u \in Users : FindAsk(q, u) \/ BeginReinstate(q, u)
          \/ \E a \in Asks : FindApprove(q, a)
          \/ FindAccept(q) \/ FindRedeem(q)
          \/ Decline(q) \/ Resend(q) \/ Refuse(q) \/ \E a \in Asks : CreateAsk(q, a)
       => JoinsArePaid'
  BY <1>4 DEF BeginAccept, BeginDecline, BeginResend, FindAsk, BeginReinstate, FindApprove,
              FindAccept, FindRedeem, Find, Decline, Resend, Refuse, CreateAsk
<1>11. CASE Revoke \/ \E a \in Asks : Withdraw(a) \/ Reject(a)
  BY <1>3, <1>11 DEF Revoke, Withdraw, Reject
<1>12. CASE UNCHANGED vars BY <1>3, <1>12 DEF vars
<1> QED BY <1>5, <1>6, <1>7, <1>8, <1>9, <1>10, <1>11, <1>12 DEF Next

\* Nobody joins by a code without a use of it, and the uses respect the limit.
THEOREM PaidCorrect == Spec => []JoinsArePaid
<1>1. Init => JoinsArePaid
  <2> SUFFICES ASSUME Init PROVE JoinsArePaid OBVIOUS
  <2>1. JoinedByCode = {} /\ Redeeming = {} BY DEF Init, JoinedByCode, Redeeming, Idle
  <2>2. Cardinality({}) = 0 BY FS_EmptySet
  <2>3. code.uses = 0 BY DEF Init
  <2> QED BY <2>1, <2>2, <2>3, JoiningAssumption DEF JoinsArePaid
<1> QED BY <1>1, StepPaid, CoreHolds, PTL DEF Spec

-----------------------------------------------------------------------------
(* What a step may not do.                                                 *)

Restored ==
    \E q \in Requests :
       request[q].kind = "accept" /\ request[q].seen = "PENDING" /\ request'[q] = Idle

Settled ==
    /\ \A a \in Asks : ask[a].status \in Decisions => ask'[a] = ask[a]
    /\ (invitation.status \in {"DECLINED", "REVOKED"} /\ invitation'.status # invitation.status)
          => Restored

LEMMA StepSettled == Core /\ [Next]_vars => Settled
<1> SUFFICES ASSUME Core, [Next]_vars PROVE Settled OBVIOUS
<1>1. invitation \in Invitation /\ ask \in [Asks -> Ask] BY DEF Core, TypeOK
<1>2. CASE UNCHANGED vars BY <1>2 DEF vars, Settled
<1>3. ASSUME NEW q \in Requests, Accept(q) PROVE Settled
  <2>1. request[q].seen = "PENDING"
    BY <1>3 DEF Accept, Join, Core, AllSound, Sound
  <2>2. request'[q] = Idle BY <1>3, Finished DEF Accept
  <2>3. Restored BY <1>3, <2>1, <2>2 DEF Accept, Restored
  <2> QED BY <1>3, <2>3 DEF Accept, Settled
<1>4. ASSUME NEW q \in Requests, Decline(q) \/ Resend(q) PROVE Settled
  BY <1>1, <1>4 DEF Decline, Resend, Settled, Invitation
<1>5. ASSUME NEW q \in Requests, NEW a \in Asks, CreateAsk(q, a) PROVE Settled
  BY <1>1, <1>5 DEF CreateAsk, Settled, Decisions
<1>6. ASSUME NEW q \in Requests, Approve(q) PROVE Settled
  BY <1>1, <1>6 DEF Approve, Decide, Settled, Decisions
<1>7. ASSUME NEW a \in Asks, Withdraw(a) \/ Reject(a) PROVE Settled
  BY <1>1, <1>7 DEF Withdraw, Reject, Decide, Settled, Decisions
<1>8. CASE Revoke BY <1>8 DEF Revoke, Settled
<1>9. CASE UNCHANGED <<invitation, ask>> BY <1>9 DEF Settled
<1> QED BY <1>2, <1>3, <1>4, <1>5, <1>6, <1>7, <1>8, <1>9
        DEF Next, BeginAccept, FindAccept, BeginDecline, BeginResend, Pay, FindAsk,
            BeginReinstate, FindRedeem, Find, FindApprove, Refuse, CloseCode, Redeem,
            Reinstate, MemberLeaves

\* Decided join requests never change, and a settled invitation is only brought back
\* by an acceptance that had looked it up before the decision.
THEOREM DecisionsCorrect == Spec => DecisionsStand
<1>1. Core /\ [Next]_vars => [Settled]_vars BY StepSettled
<1> QED BY <1>1, CoreHolds, PTL DEF Spec, DecisionsStand, Settled, Restored

Overlapped ==
    (invitation'.resends # invitation.resends /\ ~LinkWorks') =>
       \E q \in Requests :
          /\ request[q].kind = "resend" /\ request'[q] = Idle
          /\ request[q].count # invitation.resends

LEMMA StepOverlapped == Core /\ [Next]_vars => Overlapped
<1> SUFFICES ASSUME Core, [Next]_vars PROVE Overlapped OBVIOUS
<1>1. invitation \in Invitation BY DEF Core, TypeOK
<1>2. ASSUME NEW q \in Requests, Resend(q) PROVE Overlapped
  <2> DEFINE token == invitation.resends + 1
  <2>1. /\ request[q].kind = "resend" /\ request'[q] = Idle
        /\ token <= MaxResends /\ invitation'.resends = token
        /\ mailed' = [mailed EXCEPT ![request[q].count + 1] = IF @ = None THEN token ELSE @]
    BY <1>1, <1>2, Finished DEF Resend, Invitation
  <2>2. CASE request[q].count = invitation.resends
    <3>1. invitation.resends \in Nat BY Resends DEF Core
    <3>2. token \in 1..MaxResends BY <3>1, <2>1, JoiningAssumption
    <3>3. mailed[token] = None BY <3>1, <3>2 DEF Core, KeysBehind
    <3>4. mailed'[token] = token BY <2>1, <2>2, <3>2, <3>3 DEF Core, TypeOK
    <3>5. LinkWorks' BY <2>1, <3>2, <3>4 DEF LinkWorks
    <3> QED BY <3>5 DEF Overlapped
  <2>3. CASE request[q].count # invitation.resends BY <2>1, <2>3 DEF Overlapped
  <2> QED BY <2>2, <2>3
<1>3. CASE invitation'.resends = invitation.resends BY <1>3 DEF Overlapped
<1>4. ASSUME NEW q \in Requests, Accept(q) \/ Decline(q) PROVE invitation'.resends = invitation.resends
  BY <1>1, <1>4 DEF Accept, Decline, Invitation
<1>5. CASE Revoke BY <1>1, <1>3, <1>5 DEF Revoke, Invitation
<1> QED BY <1>2, <1>3, <1>4, <1>5
        DEF vars, Next, BeginAccept, FindAccept, BeginDecline, BeginResend, Pay, FindAsk,
            BeginReinstate, FindRedeem, Find, FindApprove, Refuse, CloseCode, Redeem,
            Reinstate, MemberLeaves, CreateAsk, Approve, Withdraw, Reject

\* A resend that read the present count leaves the invitee with a working link.
THEOREM LinkCorrect == Spec => LinkDiesOnlyByOverlap
<1>1. Core /\ [Next]_vars => [Overlapped]_vars BY StepOverlapped
<1> QED BY <1>1, CoreHolds, PTL DEF Spec, LinkDiesOnlyByOverlap, Overlapped

=============================================================================

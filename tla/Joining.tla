------------------------------ MODULE Joining ------------------------------
(***************************************************************************)
(* The ways into one organization: an invitation by email, a join code, a  *)
(* request to join, and the reactivation of a former member.               *)
(*                                                                         *)
(* A request reads first and writes in one transaction after that, so each *)
(* is a lookup and a commit, READ COMMITTED in between.  The acceptance    *)
(* and the redemption even span two transactions.  Any of them may be      *)
(* refused: expiry, the email domain, the join policy, the organization's  *)
(* status and the actor's permissions only ever do that.  Roles are those  *)
(* of Memberships.                                                         *)
(*                                                                         *)
(* The invitation is bound to an email address.  The plaintext token of an *)
(* unbound one is neither returned nor mailed, and nobody can present it.  *)
(***************************************************************************)
EXTENDS Naturals, FiniteSets

CONSTANTS
    Users,
    Invitee,     \* the user whose address the invitation is bound to
    Requests,    \* requests that may be in progress at the same time
    Asks,        \* organization_join_request rows there is room for
    MaxUses,     \* max_uses of the join code
    MaxResends,  \* bound on the resends of the invitation
    None

ASSUME JoiningAssumption ==
    /\ IsFiniteSet(Users)
    /\ IsFiniteSet(Requests)
    /\ Invitee \in Users
    /\ None \notin Users
    /\ MaxUses \in Nat
    /\ MaxResends \in Nat
    /\ None \notin Nat

VARIABLES
    invitation,  \* the organization_invitation row
    mailed,      \* the token in the outbox event of each dedupe key
    code,        \* the organization_join_code row
    ask,         \* the organization_join_request rows
    member,      \* the organization_membership rows
    request      \* the requests in progress

vars == <<invitation, mailed, code, ask, member, request>>

-----------------------------------------------------------------------------
(* Rows.  The n-th resend issues token n; the first link carries token 0.  *)

Tokens == 0..MaxResends

Invitation == [status  : {"PENDING", "ACCEPTED", "DECLINED", "REVOKED"},
               resends : Tokens]

Code == [uses : 0..MaxUses, open : BOOLEAN]

Decisions == {"APPROVED", "REJECTED", "WITHDRAWN"}

Ask == [user : Users \cup {None}, status : {"NONE", "PENDING"} \cup Decisions]

Statuses == {"NONE", "ACTIVE", "INACTIVE"}

Sources == {"INVITATION", "JOIN_CODE", "JOIN_REQUEST", "REACTIVATION", "NONE"}

Member == [status : Statuses, source : Sources]

\* `existing` is the membership's status the request has found, `seen` the
\* invitation's status, `count` its resendCount.
Request == [kind     : {"none", "accept", "decline", "resend", "redeem", "ask",
                        "approve", "reinstate"},
            user     : Users \cup {None},
            existing : Statuses \cup {"UNREAD"},
            seen     : {"PENDING", "ACCEPTED", "DECLINED", "REVOKED"},
            count    : Tokens,
            ask      : Asks \cup {None}]

Idle == [kind |-> "none", user |-> None, existing |-> "UNREAD", seen |-> "PENDING",
         count |-> 0, ask |-> None]

TypeOK ==
    /\ invitation \in Invitation
    /\ mailed \in [1..MaxResends -> Tokens \cup {None}]
    /\ code \in Code
    /\ ask \in [Asks -> Ask]
    /\ member \in [Users -> Member]
    /\ request \in [Requests -> Request]

Init ==
    /\ invitation = [status |-> "PENDING", resends |-> 0]
    /\ mailed = [key \in 1..MaxResends |-> None]
    /\ code = [uses |-> 0, open |-> TRUE]
    /\ ask = [a \in Asks |-> [user |-> None, status |-> "NONE"]]
    /\ member = [u \in Users |-> [status |-> "NONE", source |-> "NONE"]]
    /\ request = [q \in Requests |-> Idle]

-----------------------------------------------------------------------------
(* Requests and memberships.                                               *)

Begin(q, fields) ==
    /\ request[q] = Idle
    /\ request' = [request EXCEPT ![q] = fields]

Finish(q) == request' = [request EXCEPT ![q] = Idle]

\* A guard fails, the transaction is rolled back, or the process dies.
Refuse(q) ==
    /\ request[q] # Idle
    /\ Finish(q)
    /\ UNCHANGED <<invitation, mailed, code, ask, member>>

\* The membership is read; an active member is refused.
Find(q, kind) ==
    LET existing == member[request[q].user].status IN
    /\ request[q].kind = kind /\ request[q].existing = "UNREAD"
    /\ existing # "ACTIVE"
    /\ request' = [request EXCEPT ![q].existing = existing]
    /\ UNCHANGED <<invitation, mailed, code, ask, member>>

\* A former membership is reactivated whatever it has become since; a new one is
\* created only where the unique index finds none.
Join(q, source) ==
    LET u == request[q].user IN
    /\ request[q].existing # "UNREAD"
    /\ request[q].existing = "NONE" => member[u].status = "NONE"
    /\ member' = [member EXCEPT ![u] = [status |-> "ACTIVE", source |-> source]]

MemberLeaves(u) ==
    /\ member[u].status = "ACTIVE"
    /\ member' = [member EXCEPT ![u].status = "INACTIVE"]
    /\ UNCHANGED <<invitation, mailed, code, ask, request>>

BeginReinstate(q, u) ==
    /\ member[u].status = "INACTIVE"
    /\ Begin(q, [Idle EXCEPT !.kind = "reinstate", !.user = u, !.existing = "INACTIVE"])
    /\ UNCHANGED <<invitation, mailed, code, ask, member>>

Reinstate(q) ==
    /\ request[q].kind = "reinstate"
    /\ Join(q, "REACTIVATION")
    /\ Finish(q)
    /\ UNCHANGED <<invitation, mailed, code, ask>>

-----------------------------------------------------------------------------
(* The invitation.                                                         *)

\* The invitee holds the link whose hash the row stores.
LinkWorks ==
    \/ invitation.resends = 0
    \/ \E key \in 1..MaxResends : mailed[key] = invitation.resends

\* The lookup by token, in a transaction of its own.
BeginAccept(q) ==
    /\ LinkWorks
    /\ Begin(q, [Idle EXCEPT !.kind = "accept", !.user = Invitee, !.seen = invitation.status])
    /\ UNCHANGED <<invitation, mailed, code, ask, member>>

\* Mutant: the status of the row that was looked up is not checked.
FindAcceptSettled(q) == Find(q, "accept")

\* The status judged is that of the row the lookup returned.
FindAccept(q) ==
    /\ request[q].seen = "PENDING"
    /\ Find(q, "accept")

\* markAccepted: an UPDATE by id.
Accept(q) ==
    /\ request[q].kind = "accept"
    /\ Join(q, "INVITATION")
    /\ invitation' = [invitation EXCEPT !.status = "ACCEPTED"]
    /\ Finish(q)
    /\ UNCHANGED <<mailed, code, ask>>

BeginDecline(q) ==
    /\ LinkWorks
    /\ Begin(q, [Idle EXCEPT !.kind = "decline", !.user = Invitee])
    /\ UNCHANGED <<invitation, mailed, code, ask, member>>

Decline(q) ==
    /\ request[q].kind = "decline"
    /\ invitation.status = "PENDING"
    /\ invitation' = [invitation EXCEPT !.status = "DECLINED"]
    /\ Finish(q)
    /\ UNCHANGED <<mailed, code, ask, member>>

\* Mutant: an invitation is revoked whatever its status.
RevokeAny ==
    /\ invitation.status # "REVOKED"
    /\ invitation' = [invitation EXCEPT !.status = "REVOKED"]
    /\ UNCHANGED <<mailed, code, ask, member, request>>

Revoke ==
    /\ invitation.status = "PENDING"
    /\ invitation' = [invitation EXCEPT !.status = "REVOKED"]
    /\ UNCHANGED <<mailed, code, ask, member, request>>

BeginResend(q) ==
    /\ invitation.status = "PENDING"
    /\ Begin(q, [Idle EXCEPT !.kind = "resend", !.count = invitation.resends])
    /\ UNCHANGED <<invitation, mailed, code, ask, member>>

\* Mutant: the dedupe key does not count the resends.
ResendUncounted(q) ==
    LET token == invitation.resends + 1 IN
    /\ request[q].kind = "resend" /\ token <= MaxResends
    /\ invitation' = [invitation EXCEPT !.resends = token]
    /\ mailed' = [mailed EXCEPT ![1] = IF @ = None THEN token ELSE @]
    /\ Finish(q)
    /\ UNCHANGED <<code, ask, member>>

\* The row's token is replaced by id.  The event goes out under the key of the
\* count that was read, and an event that has this key already stays.
Resend(q) ==
    LET token == invitation.resends + 1 IN
    /\ request[q].kind = "resend" /\ token <= MaxResends
    /\ invitation' = [invitation EXCEPT !.resends = token]
    /\ mailed' = [mailed EXCEPT ![request[q].count + 1] = IF @ = None THEN token ELSE @]
    /\ Finish(q)
    /\ UNCHANGED <<code, ask, member>>

-----------------------------------------------------------------------------
(* The join code.                                                          *)

\* Mutant: one use too many.
RedeemableOnceMore == code.open /\ code.uses <= MaxUses

\* The WHERE clause of the UPDATE.
Redeemable == code.open /\ code.uses < MaxUses

\* The guarded UPDATE that counts a use, in a transaction of its own.
Pay(q, u) ==
    /\ Redeemable
    /\ Begin(q, [Idle EXCEPT !.kind = "redeem", !.user = u])
    /\ code' = [code EXCEPT !.uses = @ + 1]
    /\ UNCHANGED <<invitation, mailed, ask, member>>

FindRedeem(q) == Find(q, "redeem")

Redeem(q) ==
    /\ request[q].kind = "redeem"
    /\ Join(q, "JOIN_CODE")
    /\ Finish(q)
    /\ UNCHANGED <<invitation, mailed, code, ask>>

CloseCode ==
    /\ code.open
    /\ code' = [code EXCEPT !.open = FALSE]
    /\ UNCHANGED <<invitation, mailed, ask, member, request>>

-----------------------------------------------------------------------------
(* Requests to join.                                                       *)

FindAsk(q, u) ==
    /\ member[u].status # "ACTIVE"
    /\ Begin(q, [Idle EXCEPT !.kind = "ask", !.user = u, !.existing = member[u].status])
    /\ UNCHANGED <<invitation, mailed, code, ask, member>>

\* hasPending, and the partial unique index behind it.
CreateAsk(q, a) ==
    LET u == request[q].user IN
    /\ request[q].kind = "ask"
    /\ ask[a].status = "NONE"
    /\ \A b \in Asks : ask[b] # [user |-> u, status |-> "PENDING"]
    /\ ask' = [ask EXCEPT ![a] = [user |-> u, status |-> "PENDING"]]
    /\ Finish(q)
    /\ UNCHANGED <<invitation, mailed, code, member>>

\* The guarded UPDATE of a row that waits for a decision.
Decide(a, decision) ==
    /\ ask[a].status = "PENDING"
    /\ ask' = [ask EXCEPT ![a].status = decision]

FindApprove(q, a) ==
    LET u == ask[a].user IN
    /\ ask[a].status # "NONE"
    /\ member[u].status # "ACTIVE"
    /\ Begin(q, [Idle EXCEPT !.kind = "approve", !.user = u, !.ask = a,
                             !.existing = member[u].status])
    /\ UNCHANGED <<invitation, mailed, code, ask, member>>

Approve(q) ==
    /\ request[q].kind = "approve"
    /\ Decide(request[q].ask, "APPROVED")
    /\ Join(q, "JOIN_REQUEST")
    /\ Finish(q)
    /\ UNCHANGED <<invitation, mailed, code>>

\* Mutant: whoever asked may take the request back after the decision.
WithdrawDecided(a) ==
    /\ ask[a].status \in {"PENDING", "APPROVED", "REJECTED"}
    /\ ask' = [ask EXCEPT ![a].status = "WITHDRAWN"]
    /\ UNCHANGED <<invitation, mailed, code, member, request>>

Withdraw(a) ==
    /\ Decide(a, "WITHDRAWN")
    /\ UNCHANGED <<invitation, mailed, code, member, request>>

Reject(a) ==
    /\ Decide(a, "REJECTED")
    /\ UNCHANGED <<invitation, mailed, code, member, request>>

-----------------------------------------------------------------------------
Next ==
    \/ \E q \in Requests :
          \/ BeginAccept(q) \/ FindAccept(q) \/ Accept(q)
          \/ BeginDecline(q) \/ Decline(q)
          \/ BeginResend(q) \/ Resend(q)
          \/ \E u \in Users : Pay(q, u) \/ FindAsk(q, u) \/ BeginReinstate(q, u)
          \/ FindRedeem(q) \/ Redeem(q)
          \/ \E a \in Asks : CreateAsk(q, a) \/ FindApprove(q, a)
          \/ Approve(q) \/ Reinstate(q) \/ Refuse(q)
    \/ \E a \in Asks : Withdraw(a) \/ Reject(a)
    \/ \E u \in Users : MemberLeaves(u)
    \/ Revoke \/ CloseCode

Spec == Init /\ [][Next]_vars

-----------------------------------------------------------------------------
(* Properties.                                                             *)

\* A membership that names an invitation or a join request as its source has one
\* that says so: neither is undone by what happens at the same time.
GroundsStand ==
    \A u \in Users :
        /\ member[u].source = "INVITATION" => u = Invitee /\ invitation.status = "ACCEPTED"
        /\ member[u].source = "JOIN_REQUEST" =>
              \E a \in Asks : ask[a] = [user |-> u, status |-> "APPROVED"]

JoinedByCode == {u \in Users : member[u].source = "JOIN_CODE"}
Redeeming == {q \in Requests : request[q].kind = "redeem"}

\* Nobody joins by a code without a use of it, and the uses never exceed the limit,
\* however the two transactions of the redemptions overlap.
JoinsArePaid ==
    Cardinality(JoinedByCode) + Cardinality(Redeeming) <= code.uses /\ code.uses <= MaxUses

\* A decided request to join never changes.  A declined or revoked invitation is
\* only brought back by an acceptance that had looked it up before the decision.
DecisionsStand ==
    [][/\ \A a \in Asks : ask[a].status \in Decisions => ask'[a] = ask[a]
       /\ (invitation.status \in {"DECLINED", "REVOKED"} /\ invitation'.status # invitation.status) =>
             \E q \in Requests :
                request[q].kind = "accept" /\ request[q].seen = "PENDING" /\ request'[q] = Idle]_vars

\* A resend leaves the invitee without a working link only if another resend has
\* committed since it read the count.
LinkDiesOnlyByOverlap ==
    [][(invitation'.resends # invitation.resends /\ ~LinkWorks') =>
          \E q \in Requests :
             /\ request[q].kind = "resend" /\ request'[q] = Idle
             /\ request[q].count # invitation.resends]_vars

=============================================================================

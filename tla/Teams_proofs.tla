---------------------------- MODULE Teams_proofs ----------------------------
(***************************************************************************)
(* Proofs about Teams, for any users, teams, invitations and requests: the *)
(* types; that only an organizer's exception takes a team beyond the       *)
(* challenge's limit, however the acceptances overlap; and what a request  *)
(* that no other has overtaken keeps of rosters, invitations and deadline. *)
(***************************************************************************)
EXTENDS Teams, FiniteSetTheorems, TLAPS

\* What a request's invitation and team were when it read them, they still are in part:
\* an invitation never becomes unused again, and a used one has a team.
Pointed ==
    /\ \A q \in Requests : req[q].inv # None => invitation[req[q].inv].status # "unused"
    /\ \A q \in Requests : req[q].kind \in {"invite", "leave"} => req[q].team \in Teams
    /\ \A i \in Invitations : invitation[i].status # "unused" => invitation[i].team \in Teams

Typed == TypeOK /\ Pointed

-----------------------------------------------------------------------------
(* Types: the checks.                                                      *)

LEMMA RecordTypes ==
    /\ Idle \in Request
    /\ NoRow \in Row
    /\ Unused \in Invitation
    /\ \A kind \in Kinds, t \in Teams \cup {None}, u \in Users \cup {None} :
          Checked("any", kind, t, u) \in Request
<1>1. 0 \in 0..Cardinality(Users) BY FS_CardinalityType, TeamsAssumption
<1> QED BY <1>1 DEF Idle, NoRow, Unused, Request, Row, Invitation, Checked

LEMMA CheckedTypes ==
    ASSUME NEW q, NEW kind \in Kinds, NEW t \in Teams \cup {None}, NEW u \in Users \cup {None}
    PROVE  /\ Checked(q, kind, t, u) \in Request
           /\ Checked(q, kind, t, u).inv = None
           /\ Checked(q, kind, t, u).kind = kind
           /\ Checked(q, kind, t, u).team = t
BY RecordTypes DEF Checked, Idle, Request

\* Whatever a check stores is kept, if it has the type of a request and points well.
LEMMA SetTyped ==
    ASSUME Typed, NEW q \in Requests, NEW r \in Request, Set(q, r),
           r.inv # None => invitation[r.inv].status # "unused",
           r.kind \in {"invite", "leave"} => r.team \in Teams
    PROVE  Typed'
<1>1. TypeOK' BY DEF Typed, TypeOK, Set, rows
<1>2. req'[q] = r /\ \A p \in Requests : p # q => req'[p] = req[p]
  BY DEF Typed, TypeOK, Set
<1>3. Pointed' BY <1>2 DEF Typed, Pointed, Set, rows
<1> QED BY <1>1, <1>3 DEF Typed

LEMMA RejectTyped ==
    ASSUME Typed, NEW q \in Requests, Reject(q)
    PROVE  Typed'
BY SetTyped, RecordTypes DEF Reject, Idle

\* The members of a team are a finite set, no more than the users.
LEMMA Counted ==
    ASSUME NEW table, NEW t
    PROVE  /\ IsFiniteSet(MembersIn(table, t))
           /\ Cardinality(MembersIn(table, t)) \in 0..Cardinality(Users)
<1>1. MembersIn(table, t) \subseteq Users BY DEF MembersIn
<1>2. IsFiniteSet(MembersIn(table, t)) /\ Cardinality(MembersIn(table, t)) <= Cardinality(Users)
  BY <1>1, FS_Subset, TeamsAssumption
<1> QED BY <1>2, FS_CardinalityType, TeamsAssumption

LEMMA PlainCheckTyped ==
    ASSUME Typed, NEW q \in Requests, NEW kind \in Kinds, NEW t \in Teams \cup {None},
           NEW u \in Users \cup {None}, kind \in {"invite", "leave"} => t \in Teams,
           Set(q, Checked(q, kind, t, u))
    PROVE  Typed'
BY SetTyped, CheckedTypes

LEMMA CheckTyped ==
    ASSUME Typed, NEW q \in Requests, Check(q)
    PROVE  Typed'
<1>1. ASSUME NEW u \in Users, CheckCreate(q, u) PROVE Typed'
  BY <1>1, PlainCheckTyped DEF CheckCreate, Kinds
<1>2. ASSUME NEW u \in Users, CheckSolo(q, u) PROVE Typed'
  BY <1>2, PlainCheckTyped DEF CheckSolo, Kinds
<1>3. ASSUME NEW u \in Users, CheckLeave(q, u) PROVE Typed'
  <2> DEFINE t == member[u].team
             count == Cardinality(Members(t))
             r == [Checked(q, "leave", t, u) EXCEPT !.count = count]
  <2>1. t \in Teams BY <1>3 DEF CheckLeave, Typed, TypeOK, Row
  <2>2. Checked(q, "leave", t, u) \in Request BY <2>1, CheckedTypes DEF Kinds
  <2>3. count \in 0..Cardinality(Users) BY Counted DEF Members
  <2>4. /\ r \in Request
        /\ r.inv = Checked(q, "leave", t, u).inv
        /\ r.kind = Checked(q, "leave", t, u).kind
        /\ r.team = Checked(q, "leave", t, u).team
    BY <2>2, <2>3 DEF Request
  <2>7. /\ Checked(q, "leave", t, u).inv = None
        /\ Checked(q, "leave", t, u).kind = "leave"
        /\ Checked(q, "leave", t, u).team = t
    BY <2>1, CheckedTypes DEF Kinds
  <2>5. r.inv = None /\ r.kind = "leave" /\ r.team = t
    BY <2>4, <2>7
  <2>6. Set(q, r) BY <1>3 DEF CheckLeave
  <2> QED BY <2>1, <2>4, <2>5, <2>6, SetTyped
<1>4. ASSUME NEW u \in Users, CheckRemove(q, u) PROVE Typed'
  <2>1. member[u].team \in Teams \cup {None} BY DEF Typed, TypeOK, Row
  <2> QED BY <1>4, <2>1, PlainCheckTyped DEF CheckRemove, Kinds
<1>5. ASSUME NEW u \in Users, CheckDrop(q, u) PROVE Typed'
  <2>1. member[u].team \in Teams \cup {None} BY DEF Typed, TypeOK, Row
  <2> QED BY <1>5, <2>1, PlainCheckTyped DEF CheckDrop, Kinds
<1>6. ASSUME NEW u \in Users, NEW t \in Teams, CheckInvite(q, t, u) PROVE Typed'
  BY <1>6, PlainCheckTyped DEF CheckInvite, Kinds
<1>7. ASSUME NEW u \in Users, NEW t \in Teams, CheckAdd(q, t, u) PROVE Typed'
  BY <1>7, PlainCheckTyped DEF CheckAdd, Kinds
<1>8. ASSUME NEW u \in Users, NEW c \in Users, CheckTransfer(q, c, u) PROVE Typed'
  <2> DEFINE t == member[c].team
             r == [Checked(q, "transfer", t, u) EXCEPT !.by = c]
  <2>1. t \in Teams \cup {None} BY DEF Typed, TypeOK, Row
  <2>2. Checked(q, "transfer", t, u) \in Request BY <2>1, CheckedTypes DEF Kinds
  <2>3. r \in Request /\ r.inv = Checked(q, "transfer", t, u).inv
                      /\ r.kind = Checked(q, "transfer", t, u).kind
    BY <2>2 DEF Request
  <2>4. r.inv = None /\ r.kind = "transfer" BY <2>1, <2>3, CheckedTypes DEF Kinds
  <2>5. Set(q, r) BY <1>8 DEF CheckTransfer
  <2> QED BY <2>3, <2>4, <2>5, SetTyped
<1>9. ASSUME NEW i \in Invitations, CheckRevoke(q, i) PROVE Typed'
  <2> DEFINE t == invitation[i].team
             u == invitation[i].user
             r == [Checked(q, "revoke", t, u) EXCEPT !.inv = i]
  <2>1. t \in Teams \cup {None} /\ u \in Users \cup {None} BY DEF Typed, TypeOK, Invitation
  <2>2. Checked(q, "revoke", t, u) \in Request BY <2>1, CheckedTypes DEF Kinds
  <2>3. r \in Request /\ r.inv = i /\ r.kind = Checked(q, "revoke", t, u).kind
    BY <2>2 DEF Request
  <2>4. r.kind = "revoke" BY <2>1, <2>3, CheckedTypes DEF Kinds
  <2>5. Set(q, r) BY <1>9 DEF CheckRevoke
  <2>6. invitation[i].status # "unused" BY <1>9 DEF CheckRevoke
  <2> QED BY <2>3, <2>4, <2>5, <2>6, SetTyped
<1>10. ASSUME NEW i \in Invitations, NEW kind \in Answers, LookUp(q, i, kind) PROVE Typed'
  <2> DEFINE r == [Idle EXCEPT !.kind = kind, !.phase = "begun", !.team = invitation[i].team,
                               !.user = invitation[i].user, !.inv = i]
  <2>1. invitation[i].team \in Teams \cup {None} /\ invitation[i].user \in Users \cup {None}
    BY DEF Typed, TypeOK, Invitation
  <2>2. r \in Request
    <3>1. kind \in Kinds BY DEF Answers, Kinds
    <3>2. 0 \in 0..Cardinality(Users) BY FS_CardinalityType, TeamsAssumption
    <3> QED BY <2>1, <3>1, <3>2 DEF Request, Idle
  <2>3. r.inv = i /\ r.kind = kind BY DEF Idle
  <2>4. Set(q, r) /\ invitation[i].status # "unused" BY <1>10 DEF LookUp
  <2> QED BY <2>2, <2>3, <2>4, SetTyped DEF Answers
<1>11. ASSUME CheckAnswer(q) PROVE Typed'
  <2> DEFINE r == [req[q] EXCEPT !.phase = "checked"]
  <2>1. req[q] \in Request BY DEF Typed, TypeOK
  <2>2. r \in Request /\ r.inv = req[q].inv /\ r.kind = req[q].kind /\ r.team = req[q].team
    BY <2>1 DEF Request
  <2>3. Set(q, r) BY <1>11 DEF CheckAnswer
  <2> QED BY <2>2, <2>3, SetTyped DEF Typed, Pointed
<1> QED BY <1>1, <1>2, <1>3, <1>4, <1>5, <1>6, <1>7, <1>8, <1>9, <1>10, <1>11 DEF Check

-----------------------------------------------------------------------------
(* Types: the commits.                                                     *)

\* The requests after a commit or a change of the deadline.
LEMMA RequestsTyped ==
    ASSUME Typed,
           \A p \in Requests : \/ req'[p] = Idle
                               \/ req'[p] = [req[p] EXCEPT !.alone = FALSE],
           req' \in [Requests -> {req'[p] : p \in Requests}]
    PROVE  /\ req' \in [Requests -> Request]
           /\ \A p \in Requests : \/ req'[p] = Idle
                                  \/ /\ req'[p].inv = req[p].inv
                                     /\ req'[p].kind = req[p].kind
                                     /\ req'[p].team = req[p].team
<1>1. ASSUME NEW p \in Requests
      PROVE  [req[p] EXCEPT !.alone = FALSE] \in Request
  <2>1. req[p] \in Request BY DEF Typed, TypeOK
  <2> QED BY <2>1 DEF Request
<1>2. \A p \in Requests : req'[p] \in Request BY <1>1, RecordTypes
<1>3. \A p \in Requests : req[p] \in Request BY DEF Typed, TypeOK
<1> QED BY <1>2, <1>3 DEF Request

LEMMA CommittedTyped ==
    ASSUME Typed, NEW q \in Requests, Committed(q)
    PROVE  /\ req' \in [Requests -> Request]
           /\ req'[q] = Idle
           /\ \A p \in Requests : \/ req'[p] = Idle
                                  \/ /\ req'[p].inv = req[p].inv
                                     /\ req'[p].kind = req[p].kind
                                     /\ req'[p].team = req[p].team
           /\ locked' \in BOOLEAN
<1>1. /\ req'[q] = Idle
      /\ \A p \in Requests : \/ req'[p] = Idle
                             \/ req'[p] = [req[p] EXCEPT !.alone = FALSE]
      /\ req' \in [Requests -> {req'[p] : p \in Requests}]
  BY DEF Committed
<1>2. locked' \in BOOLEAN BY DEF Committed, Typed, TypeOK
<1> QED BY <1>1, <1>2, RequestsTyped

\* What a commit must leave of teams, members and invitations.
RowsTyped ==
    /\ team \in [Teams -> {"unused", "live", "deleted"}]
    /\ member \in [Users -> Row]
    /\ invitation \in [Invitations -> Invitation]
    /\ \A u \in Users : member[u].team # None => team[member[u].team] = "live"
    /\ \A i \in Invitations : invitation[i].status \notin {"unused", "deleted"}
                                => team[invitation[i].team] = "live"
    /\ \A i \in Invitations : invitation[i].status # "unused" => invitation[i].team \in Teams

NoneForgotten ==
    \A i \in Invitations : invitation[i].status # "unused" => invitation'[i].status # "unused"

LEMMA CommitTyped ==
    ASSUME Typed, NEW q \in Requests, Committed(q), RowsTyped', NoneForgotten
    PROVE  Typed'
<1>1. TypeOK' BY CommittedTyped DEF RowsTyped, TypeOK
<1>2. \A p \in Requests : req'[p].inv # None => invitation'[req'[p].inv].status # "unused"
  <2> SUFFICES ASSUME NEW p \in Requests, req'[p].inv # None
               PROVE  invitation'[req'[p].inv].status # "unused"
    OBVIOUS
  <2>1. Idle.inv = None BY DEF Idle
  <2>2. req'[p].inv = req[p].inv BY <2>1, CommittedTyped
  <2>3. req[p].inv \in Invitations BY <2>2 DEF Typed, TypeOK, Request
  <2>4. invitation[req[p].inv].status # "unused" BY <2>2 DEF Typed, Pointed
  <2> QED BY <2>2, <2>3, <2>4 DEF NoneForgotten
<1>3. \A p \in Requests : req'[p].kind \in {"invite", "leave"} => req'[p].team \in Teams
  <2>1. Idle.kind \notin {"invite", "leave"} BY DEF Idle
  <2> QED BY <2>1, CommittedTyped DEF Typed, Pointed
<1> QED BY <1>1, <1>2, <1>3 DEF Typed, Pointed, RowsTyped

LEMMA RowsTypedNow == Typed => RowsTyped
BY DEF Typed, TypeOK, Pointed, RowsTyped

LEMMA JoinsTyped ==
    ASSUME RowsTyped, NEW u, NEW t, NEW role \in {"CAPTAIN", "MEMBER"}, Joins(u, t, role),
           team' \in [Teams -> {"unused", "live", "deleted"}],
           \A x \in Teams : team[x] = "live" => team'[x] = "live",
           t \in Teams \cup {None}, t # None => team'[t] = "live"
    PROVE  /\ member' \in [Users -> Row]
           /\ \A v \in Users : member'[v].team # None => team'[member'[v].team] = "live"
<1>1. [team |-> t, role |-> role] \in Row BY DEF Row
<1>2. member' \in [Users -> Row] BY <1>1 DEF Joins, RowsTyped
<1>3. ASSUME NEW v \in Users, member'[v].team # None
      PROVE  team'[member'[v].team] = "live"
  <2>1. CASE v = u
    <3>1. member'[v].team = t BY <2>1 DEF Joins, RowsTyped
    <3> QED BY <3>1, <1>3
  <2>2. CASE v # u
    <3>1. member'[v] = member[v] BY <2>2 DEF Joins, RowsTyped
    <3>2. member[v].team \in Teams BY <3>1, <1>3 DEF RowsTyped, Row
    <3> QED BY <3>1, <3>2, <1>3 DEF RowsTyped
  <2> QED BY <2>1, <2>2
<1> QED BY <1>2, <1>3

LEMMA LeavesTyped ==
    ASSUME RowsTyped, NEW u, NEW t, member' = Leaves(u, t), UNCHANGED team
    PROVE  /\ member' \in [Users -> Row]
           /\ \A v \in Users : member'[v].team # None => team'[member'[v].team] = "live"
BY RecordTypes DEF Leaves, RowsTyped, NoRow, Row

LEMMA SetStatusTyped ==
    ASSUME Typed, NEW q \in Requests, NEW status \in {"ACCEPTED", "DECLINED", "REVOKED"},
           SetStatus(req[q].inv, status)
    PROVE  /\ invitation' \in [Invitations -> Invitation]
           /\ NoneForgotten
           /\ \A i \in Invitations : /\ invitation'[i].team = invitation[i].team
                                     /\ invitation'[i].status # "unused"
                                          => invitation[i].status # "unused"
                                     /\ invitation'[i].status = "deleted"
                                          <=> invitation[i].status = "deleted"
<1> DEFINE j == req[q].inv
<1>1. CASE invitation[j].status = "deleted"
  BY <1>1 DEF SetStatus, Typed, TypeOK, NoneForgotten
<1>2. CASE invitation[j].status # "deleted"
  <2>1. invitation' = [invitation EXCEPT ![j].status = status] BY <1>2 DEF SetStatus
  <2>2. j \in Invitations \cup {None} BY DEF Typed, TypeOK, Request
  <2>3. \A i \in Invitations : i # j => invitation'[i] = invitation[i]
    BY <2>1 DEF Typed, TypeOK
  <2>4. ASSUME j \in Invitations
        PROVE  /\ invitation'[j] \in Invitation
               /\ invitation'[j].team = invitation[j].team
               /\ invitation'[j].status = status
               /\ invitation[j].status # "unused"
    <3>1. invitation[j] \in Invitation BY <2>4 DEF Typed, TypeOK
    <3>2. invitation'[j] = [invitation[j] EXCEPT !.status = status]
      BY <2>1, <2>4 DEF Typed, TypeOK
    <3>3. j # None BY <2>4, TeamsAssumption
    <3>4. invitation[j].status # "unused" BY <3>3 DEF Typed, Pointed
    <3> QED BY <3>1, <3>2, <3>4 DEF Invitation
  <2>5. \A i \in Invitations : invitation'[i] \in Invitation
    BY <2>3, <2>4 DEF Typed, TypeOK
  <2>6. invitation' \in [Invitations -> Invitation]
    BY <2>1, <2>5 DEF Typed, TypeOK
  <2> QED BY <1>2, <2>3, <2>4, <2>6 DEF NoneForgotten
<1> QED BY <1>1, <1>2

LEMMA CreateTyped ==
    ASSUME Typed, NEW q \in Requests, Create(q)
    PROVE  Typed'
<1>1. PICK t \in Teams : /\ team[t] = "unused"
                         /\ team' = [team EXCEPT ![t] = "live"]
                         /\ Joins(req[q].user, t, "CAPTAIN")
  BY DEF Create
<1>2. RowsTyped BY RowsTypedNow
<1>3. /\ team' \in [Teams -> {"unused", "live", "deleted"}]
      /\ team'[t] = "live"
      /\ \A x \in Teams : team[x] = "live" => team'[x] = "live"
  BY <1>1, <1>2 DEF RowsTyped
<1>4. /\ member' \in [Users -> Row]
      /\ \A v \in Users : member'[v].team # None => team'[member'[v].team] = "live"
  BY <1>1, <1>2, <1>3, JoinsTyped
<1>5. UNCHANGED invitation /\ Committed(q) BY DEF Create
<1>6. RowsTyped' /\ NoneForgotten
  BY <1>2, <1>3, <1>4, <1>5 DEF RowsTyped, NoneForgotten
<1> QED BY <1>5, <1>6, CommitTyped

LEMMA InviteTyped ==
    ASSUME Typed, NEW q \in Requests, Invite(q)
    PROVE  Typed'
<1> DEFINE r == [status |-> "PENDING", team |-> req[q].team, user |-> req[q].user]
<1>1. PICK i \in Invitations : /\ invitation[i] = Unused
                               /\ invitation' = [invitation EXCEPT ![i] = r]
  BY DEF Invite
<1>2. RowsTyped BY RowsTypedNow
<1>3. req[q].team \in Teams BY DEF Invite, Ready, Typed, Pointed
<1>4. req[q].user \in Users \cup {None} BY DEF Typed, TypeOK, Request
<1>5. r \in Invitation BY <1>3, <1>4 DEF Invitation
<1>6. /\ UNCHANGED <<team, member>> /\ team[req[q].team] = "live" /\ Committed(q)
  BY DEF Invite
<1>7. /\ invitation' \in [Invitations -> Invitation]
      /\ invitation'[i] = r
      /\ \A j \in Invitations : j # i => invitation'[j] = invitation[j]
  BY <1>1, <1>2, <1>5 DEF RowsTyped
<1>8. RowsTyped' /\ NoneForgotten
  BY <1>2, <1>3, <1>6, <1>7 DEF RowsTyped, NoneForgotten
<1> QED BY <1>6, <1>8, CommitTyped

\* A commit that sets an invitation's status and leaves the team's rows in order.
LEMMA AnswerTyped ==
    ASSUME Typed, NEW q \in Requests, NEW status \in {"ACCEPTED", "DECLINED", "REVOKED"},
           SetStatus(req[q].inv, status), UNCHANGED team, Committed(q),
           member' \in [Users -> Row],
           \A v \in Users : member'[v].team # None => team'[member'[v].team] = "live"
    PROVE  Typed'
<1>1. RowsTyped BY RowsTypedNow
<1>2. RowsTyped' /\ NoneForgotten BY <1>1, SetStatusTyped DEF RowsTyped
<1> QED BY <1>2, CommitTyped

LEMMA AcceptTyped ==
    ASSUME Typed, NEW q \in Requests, Accept(q)
    PROVE  Typed'
<1>1. RowsTyped BY RowsTypedNow
<1>2. req[q].team \in Teams \cup {None} BY DEF Typed, TypeOK, Request
<1>3. /\ team[req[q].team] = "live" /\ UNCHANGED team /\ Committed(q)
      /\ Joins(req[q].user, req[q].team, "MEMBER")
      /\ SetStatus(req[q].inv, "ACCEPTED")
  BY DEF Accept
<1>4. /\ member' \in [Users -> Row]
      /\ \A v \in Users : member'[v].team # None => team'[member'[v].team] = "live"
  BY <1>1, <1>2, <1>3, JoinsTyped DEF RowsTyped
<1> QED BY <1>3, <1>4, AnswerTyped

LEMMA DeclineTyped ==
    ASSUME Typed, NEW q \in Requests, Revoke(q) \/ Decline(q)
    PROVE  Typed'
<1>1. RowsTyped BY RowsTypedNow
<1>2. /\ UNCHANGED <<team, member>> /\ Committed(q)
      /\ \E status \in {"ACCEPTED", "DECLINED", "REVOKED"} : SetStatus(req[q].inv, status)
  BY DEF Revoke, Decline
<1> QED BY <1>1, <1>2, AnswerTyped DEF RowsTyped

\* A commit that changes nothing but rows of members.
LEMMA MembersTyped ==
    ASSUME Typed, NEW q \in Requests, UNCHANGED <<team, invitation>>, Committed(q),
           member' \in [Users -> Row],
           \A v \in Users : member'[v].team # None => team'[member'[v].team] = "live"
    PROVE  Typed'
<1>1. RowsTyped BY RowsTypedNow
<1>2. RowsTyped' /\ NoneForgotten BY <1>1 DEF RowsTyped, NoneForgotten
<1> QED BY <1>2, CommitTyped

LEMMA RemoveTyped ==
    ASSUME Typed, NEW q \in Requests, Remove(q)
    PROVE  Typed'
<1>1. RowsTyped BY RowsTypedNow
<1> QED BY <1>1, LeavesTyped, MembersTyped DEF Remove

LEMMA AddTyped ==
    ASSUME Typed, NEW q \in Requests, Add(q)
    PROVE  Typed'
<1>1. RowsTyped BY RowsTypedNow
<1>2. req[q].team \in Teams \cup {None} BY DEF Typed, TypeOK, Request
<1>3. /\ team[req[q].team] = "live" /\ UNCHANGED <<team, invitation>> /\ Committed(q)
      /\ Joins(req[q].user, req[q].team, "MEMBER")
  BY DEF Add
<1>4. /\ member' \in [Users -> Row]
      /\ \A v \in Users : member'[v].team # None => team'[member'[v].team] = "live"
  BY <1>1, <1>2, <1>3, JoinsTyped DEF RowsTyped
<1> QED BY <1>3, <1>4, MembersTyped

\* A transfer changes roles, never teams.
LEMMA TransferMembers ==
    ASSUME Typed, NEW q \in Requests, Transfer(q)
    PROVE  /\ member' \in [Users -> Row]
           /\ \A v \in Users : member'[v].team = member[v].team
<1>1. ASSUME NEW v \in Users
      PROVE  member'[v] \in {[member[v] EXCEPT !.role = "CAPTAIN"],
                             [member[v] EXCEPT !.role = "MEMBER"], member[v]}
  BY DEF Transfer
<1>2. ASSUME NEW v \in Users PROVE member'[v] \in Row /\ member'[v].team = member[v].team
  <2>1. member[v] \in Row BY DEF Typed, TypeOK
  <2> QED BY <2>1, <1>1 DEF Row
<1>3. member' = [v \in Users |-> member'[v]] BY DEF Transfer
<1> QED BY <1>2, <1>3

LEMMA TransferTyped ==
    ASSUME Typed, NEW q \in Requests, Transfer(q)
    PROVE  Typed'
<1>1. UNCHANGED <<team, invitation>> /\ Committed(q) BY DEF Transfer
<1>2. \A v \in Users : member'[v].team # None => team'[member'[v].team] = "live"
  BY <1>1, TransferMembers DEF Typed, TypeOK
<1> QED BY <1>1, <1>2, TransferMembers, MembersTyped

LEMMA LeaveTyped ==
    ASSUME Typed, NEW q \in Requests, Leave(q)
    PROVE  Typed'
<1> DEFINE t == req[q].team
<1>0. RowsTyped BY RowsTypedNow
<1>1. CASE req[q].count > 1
  <2>1. UNCHANGED <<team, invitation>> /\ Committed(q) /\ member' = Leaves(req[q].user, t)
    BY <1>1 DEF Leave, Typed, TypeOK, Request
  <2> QED BY <1>0, <2>1, LeavesTyped, MembersTyped
<1>2. CASE ~(req[q].count > 1)
  <2>1. /\ team' = [team EXCEPT ![t] = "deleted"]
        /\ member' = [u \in Users |-> IF member[u].team = t THEN NoRow ELSE member[u]]
        /\ invitation' = [i \in Invitations |->
                             IF invitation[i].team = t
                             THEN [invitation[i] EXCEPT !.status = "deleted"]
                             ELSE invitation[i]]
        /\ Committed(q)
    BY <1>2 DEF Leave
  <2>2. /\ team' \in [Teams -> {"unused", "live", "deleted"}]
        /\ \A x \in Teams : x # t => team'[x] = team[x]
    BY <2>1 DEF Typed, TypeOK
  <2>3. member' \in [Users -> Row] BY <2>1, RecordTypes DEF Typed, TypeOK
  <2>4. ASSUME NEW v \in Users, member'[v].team # None
        PROVE  team'[member'[v].team] = "live"
    <3>1. member'[v] = member[v] /\ member[v].team # t BY <2>1, <2>4 DEF NoRow
    <3>2. member[v].team \in Teams BY <3>1, <2>4 DEF Typed, TypeOK, Row
    <3> QED BY <3>1, <3>2, <2>2, <2>4 DEF Typed, TypeOK
  <2>5. ASSUME NEW i \in Invitations
        PROVE  /\ invitation'[i] \in Invitation
               /\ invitation'[i].team = invitation[i].team
               /\ \/ invitation'[i] = invitation[i]
                  \/ invitation[i].team = t /\ invitation'[i].status = "deleted"
               /\ invitation[i].team = t => invitation'[i].status = "deleted"
    <3>1. invitation[i] \in Invitation BY DEF Typed, TypeOK
    <3>2. invitation'[i] = IF invitation[i].team = t
                           THEN [invitation[i] EXCEPT !.status = "deleted"]
                           ELSE invitation[i]
      BY <2>1
    <3>3. [invitation[i] EXCEPT !.status = "deleted"] \in Invitation
          /\ [invitation[i] EXCEPT !.status = "deleted"].team = invitation[i].team
          /\ [invitation[i] EXCEPT !.status = "deleted"].status = "deleted"
      BY <3>1 DEF Invitation
    <3>4. CASE invitation[i].team = t
      <4>1. invitation'[i] = [invitation[i] EXCEPT !.status = "deleted"] BY <3>2, <3>4
      <4> QED BY <3>3, <3>4, <4>1
    <3>5. CASE invitation[i].team # t
      <4>1. invitation'[i] = invitation[i] BY <3>2, <3>5
      <4> QED BY <3>1, <3>5, <4>1
    <3> QED BY <3>4, <3>5
  <2>6. invitation' \in [Invitations -> Invitation] BY <2>1, <2>5
  <2>7. NoneForgotten BY <2>5 DEF NoneForgotten
  <2>8. ASSUME NEW i \in Invitations, invitation'[i].status \notin {"unused", "deleted"}
        PROVE  team'[invitation'[i].team] = "live"
    <3>1. invitation'[i] = invitation[i] /\ invitation[i].team # t BY <2>5, <2>8
    <3>2. invitation[i].team \in Teams BY <3>1, <2>8, <1>0 DEF RowsTyped
    <3> QED BY <3>1, <3>2, <2>2, <2>8, <1>0 DEF RowsTyped
  <2>9. ASSUME NEW i \in Invitations, invitation'[i].status # "unused"
        PROVE  invitation'[i].team \in Teams
    <3>1. CASE invitation'[i] = invitation[i]
      BY <3>1, <2>9, <1>0 DEF RowsTyped
    <3>2. CASE invitation'[i] # invitation[i]
      <4>1. invitation[i].team = t BY <3>2, <2>5
      <4>2. t \in Teams BY DEF Leave, Ready, Typed, Pointed
      <4> QED BY <4>1, <4>2, <2>5
    <3> QED BY <3>1, <3>2
  <2>10. RowsTyped' BY <2>2, <2>3, <2>4, <2>6, <2>8, <2>9 DEF RowsTyped
  <2> QED BY <2>1, <2>7, <2>10, CommitTyped
<1> QED BY <1>1, <1>2

LEMMA DeadlineTyped ==
    ASSUME Typed, Deadline
    PROVE  Typed'
<1>1. /\ \A p \in Requests : req'[p] = Idle \/ req'[p] = [req[p] EXCEPT !.alone = FALSE]
      /\ req' \in [Requests -> {req'[p] : p \in Requests}]
      /\ locked' \in BOOLEAN
      /\ UNCHANGED rows
  BY DEF Deadline, Typed, TypeOK
<1>2. /\ req' \in [Requests -> Request]
      /\ \A p \in Requests : \/ req'[p] = Idle
                             \/ /\ req'[p].inv = req[p].inv
                                /\ req'[p].kind = req[p].kind
                                /\ req'[p].team = req[p].team
  BY <1>1, RequestsTyped
<1>3. TypeOK' BY <1>1, <1>2 DEF Typed, TypeOK, rows
<1>4. Idle.inv = None /\ Idle.kind \notin {"invite", "leave"} BY DEF Idle
<1>5. \A p \in Requests : req'[p].inv # None => invitation'[req'[p].inv].status # "unused"
  BY <1>1, <1>2, <1>4 DEF Typed, Pointed, rows
<1>6. \A p \in Requests : req'[p].kind \in {"invite", "leave"} => req'[p].team \in Teams
  BY <1>2, <1>4 DEF Typed, Pointed
<1>7. \A i \in Invitations : invitation'[i].status # "unused" => invitation'[i].team \in Teams
  BY <1>1 DEF Typed, Pointed, rows
<1> QED BY <1>3, <1>5, <1>6, <1>7 DEF Typed, Pointed

LEMMA InitTyped == Init => Typed
<1> SUFFICES ASSUME Init PROVE Typed OBVIOUS
<1>1. TypeOK BY RecordTypes DEF Init, TypeOK, NoRow, Unused
<1>2. Pointed BY DEF Init, Pointed, Idle, Unused
<1> QED BY <1>1, <1>2 DEF Typed

LEMMA StepTyped == Typed /\ [Next]_vars => Typed'
<1> SUFFICES ASSUME Typed, [Next]_vars PROVE Typed' OBVIOUS
<1>1. CASE UNCHANGED vars
  BY <1>1 DEF vars, rows, Typed, TypeOK, Pointed
<1>2. ASSUME NEW q \in Requests, Check(q) PROVE Typed' BY <1>2, CheckTyped
<1>3. ASSUME NEW q \in Requests, Apply(q) PROVE Typed'
  BY <1>3, CreateTyped, InviteTyped, DeclineTyped, AcceptTyped, LeaveTyped, TransferTyped,
     RemoveTyped, AddTyped DEF Apply
<1>4. ASSUME NEW q \in Requests, Reject(q) PROVE Typed' BY <1>4, RejectTyped
<1>5. CASE Deadline BY <1>5, DeadlineTyped
<1> QED BY <1>1, <1>2, <1>3, <1>4, <1>5 DEF Next

\* The rows and the requests keep their types, a member's team is live, and so is the team
\* of every invitation that is left.
THEOREM TypeCorrect == Spec => []TypeOK
<1>1. Init => Typed BY InitTyped
<1>2. Typed /\ [Next]_vars => Typed' BY StepTyped
<1>3. Typed => TypeOK BY DEF Typed
<1> QED BY <1>1, <1>2, <1>3, PTL DEF Spec

-----------------------------------------------------------------------------
(* Capacity.                                                               *)

\* No team grows beyond the limit in this step.
Held == \A t \in Teams :
    Cardinality(MembersIn(member', t)) > Cardinality(Members(t))
       => Cardinality(MembersIn(member', t)) <= MaxTeamSize

\* A team that gains nobody does not grow.
LEMMA NobodyGained ==
    ASSUME NEW t, MembersIn(member', t) \subseteq Members(t)
    PROVE  ~(Cardinality(MembersIn(member', t)) > Cardinality(Members(t)))
<1>1. Cardinality(MembersIn(member', t)) <= Cardinality(Members(t))
  BY Counted, FS_Subset DEF Members
<1>2. Cardinality(MembersIn(member', t)) \in Nat /\ Cardinality(Members(t)) \in Nat
  BY Counted, FS_CardinalityType DEF Members
<1> QED BY <1>1, <1>2

\* One element adds at most one to a finite set.
LEMMA AtMostOneMore ==
    ASSUME NEW S, IsFiniteSet(S), NEW u
    PROVE  IsFiniteSet(S \cup {u}) /\ Cardinality(S \cup {u}) <= Cardinality(S) + 1
<1>1. Cardinality(S) \in Nat BY FS_CardinalityType
<1>2. CASE u \in S
  <2>1. S \cup {u} = S BY <1>2
  <2>2. Cardinality(S \cup {u}) = Cardinality(S) BY <2>1
  <2>3. IsFiniteSet(S \cup {u}) BY <2>1, Zenon
  <2> QED BY <1>1, <2>2, <2>3
<1>3. CASE u \notin S
  <2>1. IsFiniteSet(S \cup {u}) /\ Cardinality(S \cup {u}) = Cardinality(S) + 1
    BY <1>3, FS_AddElement
  <2> QED BY <1>1, <2>1
<1> QED BY <1>2, <1>3

\* One user joins one team: the others gain nobody, and it gains the user.
LEMMA JoinerCounted ==
    ASSUME Typed, NEW u, NEW t, NEW role, Joins(u, t, role), NEW x \in Teams
    PROVE  IF x = t THEN Cardinality(MembersIn(member', x)) <= Cardinality(Members(x)) + 1
                    ELSE MembersIn(member', x) \subseteq Members(x)
<1>1. \A v \in Users : v # u => member'[v] = member[v] BY DEF Joins, Typed, TypeOK
<1>2. \A v \in Users : v = u => member'[v].team = t BY DEF Joins, Typed, TypeOK
<1>3. CASE x # t BY <1>1, <1>2, <1>3 DEF Members, MembersIn
<1>4. CASE x = t
  <2>1. MembersIn(member', x) \subseteq Members(x) \cup {u} BY <1>1 DEF Members, MembersIn
  <2>2. IsFiniteSet(Members(x)) /\ Cardinality(Members(x)) \in Nat
    BY Counted, FS_CardinalityType DEF Members
  <2>3. /\ IsFiniteSet(Members(x) \cup {u})
        /\ Cardinality(Members(x) \cup {u}) <= Cardinality(Members(x)) + 1
    BY <2>2, AtMostOneMore
  <2>4. Cardinality(MembersIn(member', x)) <= Cardinality(Members(x) \cup {u})
    BY <2>1, <2>3, FS_Subset
  <2>5. /\ Cardinality(MembersIn(member', x)) \in Nat
        /\ Cardinality(Members(x) \cup {u}) \in Nat
    BY <2>3, Counted, FS_CardinalityType
  <2> QED BY <1>4, <2>2, <2>3, <2>4, <2>5
<1> QED BY <1>3, <1>4

LEMMA CreateHeld ==
    ASSUME Typed, NEW q \in Requests, Create(q)
    PROVE  Held
<1>1. PICK t \in Teams : team[t] = "unused" /\ Joins(req[q].user, t, "CAPTAIN")
  BY DEF Create
<1>2. Members(t) = {} BY <1>1, TeamsAssumption DEF Members, MembersIn, Typed, TypeOK
<1>3. Cardinality(Members(t)) = 0 BY <1>2, FS_EmptySet
<1>4. ASSUME NEW x \in Teams, Cardinality(MembersIn(member', x)) > Cardinality(Members(x))
      PROVE  Cardinality(MembersIn(member', x)) <= MaxTeamSize
  <2>1. x = t BY <1>1, <1>4, JoinerCounted, NobodyGained
  <2>2. Cardinality(MembersIn(member', x)) <= 1 BY <1>1, <1>3, <2>1, JoinerCounted
  <2>3. Cardinality(MembersIn(member', x)) \in Nat BY Counted, FS_CardinalityType
  <2> QED BY <2>2, <2>3, TeamsAssumption
<1> QED BY <1>4 DEF Held

LEMMA AcceptHeld ==
    ASSUME Typed, NEW q \in Requests, Accept(q)
    PROVE  Held
<1> DEFINE t == req[q].team
<1>1. Joins(req[q].user, t, "MEMBER") /\ Cardinality(Members(t)) < MaxTeamSize
  BY DEF Accept
<1>2. ASSUME NEW x \in Teams, Cardinality(MembersIn(member', x)) > Cardinality(Members(x))
      PROVE  Cardinality(MembersIn(member', x)) <= MaxTeamSize
  <2>1. x = t BY <1>1, <1>2, JoinerCounted, NobodyGained
  <2>2. Cardinality(MembersIn(member', x)) <= Cardinality(Members(x)) + 1
    BY <1>1, <2>1, JoinerCounted
  <2>3. Cardinality(MembersIn(member', x)) \in Nat /\ Cardinality(Members(x)) \in Nat
    BY Counted, FS_CardinalityType DEF Members
  <2> QED BY <1>1, <2>1, <2>2, <2>3, TeamsAssumption
<1> QED BY <1>2 DEF Held

\* A step after which every member is of the team it was of, or of none.
LEMMA NobodyJoins ==
    ASSUME \A u \in Users : \/ member'[u].team = member[u].team
                            \/ member'[u].team = None
    PROVE  Held
<1>1. \A t \in Teams : MembersIn(member', t) \subseteq Members(t)
  BY TeamsAssumption DEF Members, MembersIn
<1> QED BY <1>1, NobodyGained DEF Held

LEMMA LeaveHeld ==
    ASSUME Typed, NEW q \in Requests, Leave(q) \/ Remove(q)
    PROVE  Held
<1>1. \/ member' = Leaves(req[q].user, req[q].team)
      \/ member' = [u \in Users |-> IF member[u].team = req[q].team THEN NoRow ELSE member[u]]
  BY DEF Leave, Remove
<1>2. \A u \in Users : member'[u].team = member[u].team \/ member'[u].team = None
  BY <1>1 DEF Leaves, NoRow, Typed, TypeOK
<1> QED BY <1>2, NobodyJoins

\* An organizer's exception is the only way past the limit, and it commits in that step.
LEMMA AddCommits ==
    ASSUME Typed, NEW q \in Requests, Add(q)
    PROVE  \/ Held
           \/ Commits(q) /\ req[q].kind = "add"
<1> DEFINE u == req[q].user
           t == req[q].team
<1>1. /\ req[q].phase = "checked" /\ req[q].kind = "add"
      /\ Joins(u, t, "MEMBER") /\ member[u] = NoRow /\ Committed(q)
  BY DEF Add, Ready
<1>2. req'[q] = Idle BY <1>1, CommittedTyped
<1>3. CASE u \in Users /\ t # None
  <2>1. member'[u] # member[u] BY <1>1, <1>3 DEF Joins, NoRow, Typed, TypeOK
  <2> QED BY <1>1, <1>2, <2>1 DEF Commits, rows
<1>4. CASE ~(u \in Users /\ t # None)
  <2>1. \A v \in Users : member'[v].team = member[v].team \/ member'[v].team = None
    BY <1>1, <1>4 DEF Joins, Typed, TypeOK
  <2> QED BY <2>1, NobodyJoins
<1> QED BY <1>3, <1>4

LEMMA StepHeld ==
    ASSUME Typed, [Next]_vars
    PROVE  Held \/ \E q \in Requests : Commits(q) /\ req[q].kind = "add"
<1>1. ASSUME UNCHANGED member PROVE Held
  BY <1>1, NobodyJoins
<1>2. ASSUME NEW q \in Requests, Check(q) PROVE UNCHANGED member
  BY <1>2 DEF Check, CheckCreate, CheckSolo, CheckLeave, CheckRemove, CheckDrop, CheckInvite,
     CheckAdd, CheckTransfer, CheckRevoke, LookUp, CheckAnswer, Set, rows
<1>3. ASSUME NEW q \in Requests, Reject(q) PROVE UNCHANGED member
  BY <1>3 DEF Reject, Set, rows
<1>4. ASSUME NEW q \in Requests, Invite(q) \/ Revoke(q) \/ Decline(q) PROVE UNCHANGED member
  BY <1>4 DEF Invite, Revoke, Decline
<1>5. ASSUME NEW q \in Requests, Transfer(q) PROVE Held
  BY <1>5, TransferMembers, NobodyJoins
<1>6. ASSUME NEW q \in Requests, Apply(q)
      PROVE  Held \/ (Commits(q) /\ req[q].kind = "add")
  BY <1>6, <1>1, <1>4, <1>5, CreateHeld, AcceptHeld, LeaveHeld, AddCommits DEF Apply
<1>7. ASSUME Deadline \/ UNCHANGED vars PROVE UNCHANGED member
  BY <1>7 DEF Deadline, vars, rows
<1> QED BY <1>1, <1>2, <1>3, <1>6, <1>7 DEF Next

\* However many invitees accept at once, and whatever leaves, joins and changes hands
\* meanwhile, only an organizer's exception makes a team larger than the challenge allows.
THEOREM CapacityIsHeld == Spec => CapacityHeld
<1>1. ASSUME Typed, [Next]_vars
      PROVE  [\A t \in Teams :
                (Cardinality(MembersIn(member', t)) > Cardinality(Members(t))
                 /\ Cardinality(MembersIn(member', t)) > MaxTeamSize)
                    => \E q \in Requests : Commits(q) /\ req[q].kind = "add"]_vars
  <2>1. \A t \in Teams : Cardinality(MembersIn(member', t)) \in Nat
    BY Counted, FS_CardinalityType
  <2> QED BY <1>1, <2>1, StepHeld, TeamsAssumption DEF Held
<1>2. Init => Typed BY InitTyped
<1>3. Typed /\ [Next]_vars => Typed' BY StepTyped
<1> QED BY <1>1, <1>2, <1>3, PTL DEF Spec, CapacityHeld

-----------------------------------------------------------------------------
(* Requests that run alone.                                                *)

\* While a request runs alone, what it has read still holds: the deadline it was held to
\* has not passed, and the invitation it answers or revokes is pending.
Current(r, passed, invitations) ==
    r.alone =>
       /\ r.phase = "begun" => r.kind \in Answers
       /\ (r.phase = "checked" /\ r.kind \notin Timeless) => ~passed
       /\ r.kind \in Answers \cup {"revoke"} => invitations[r.inv].status = "PENDING"

AloneIsCurrent == \A q \in Requests : Current(req[q], locked, invitation)

Guarded == Typed /\ AloneIsCurrent

LEMMA IdleCurrent == \A passed, invitations : Current(Idle, passed, invitations)
BY DEF Current, Idle, Answers

\* A commit and a change of the deadline leave nobody alone.
LEMMA CommitCurrent ==
    ASSUME Typed, NEW q \in Requests, Committed(q)
    PROVE  AloneIsCurrent'
<1>1. ASSUME NEW p \in Requests
      PROVE  req'[p] = Idle \/ req'[p].alone = FALSE
  <2>1. req[p] \in Request BY DEF Typed, TypeOK
  <2>2. req'[p] = Idle \/ req'[p] = [req[p] EXCEPT !.alone = FALSE] BY DEF Committed
  <2> QED BY <2>1, <2>2 DEF Request
<1>2. ASSUME NEW p \in Requests
      PROVE  Current(req'[p], locked', invitation')
  <2>1. CASE req'[p] = Idle BY <2>1, IdleCurrent
  <2>2. CASE req'[p].alone = FALSE BY <2>2 DEF Current
  <2> QED BY <1>1, <2>1, <2>2
<1> QED BY <1>2 DEF AloneIsCurrent

LEMMA DeadlineCurrent ==
    ASSUME Typed, Deadline
    PROVE  AloneIsCurrent'
<1>1. ASSUME NEW p \in Requests
      PROVE  req'[p] = Idle \/ req'[p].alone = FALSE
  <2>1. req[p] \in Request BY DEF Typed, TypeOK
  <2>2. req'[p] = Idle \/ req'[p] = [req[p] EXCEPT !.alone = FALSE] BY DEF Deadline
  <2> QED BY <2>1, <2>2 DEF Request
<1>2. ASSUME NEW p \in Requests
      PROVE  Current(req'[p], locked', invitation')
  <2>1. CASE req'[p] = Idle BY <2>1, IdleCurrent
  <2>2. CASE req'[p].alone = FALSE BY <2>2 DEF Current
  <2> QED BY <1>1, <2>1, <2>2
<1> QED BY <1>2 DEF AloneIsCurrent

LEMMA SetCurrent ==
    ASSUME Guarded, NEW q \in Requests, NEW r, Set(q, r), Current(r, locked, invitation)
    PROVE  AloneIsCurrent'
<1>1. \A p \in Requests : p # q => req'[p] = req[p] BY DEF Guarded, Typed, TypeOK, Set
<1>2. req'[q] = r BY DEF Guarded, Typed, TypeOK, Set
<1>3. UNCHANGED <<locked, invitation>> BY DEF Set, rows
<1>4. ASSUME NEW p \in Requests PROVE Current(req'[p], locked', invitation')
  <2>1. Current(req'[p], locked, invitation) BY <1>1, <1>2 DEF Guarded, AloneIsCurrent
  <2> QED BY <2>1, <1>3 DEF Current
<1> QED BY <1>4 DEF AloneIsCurrent

LEMMA CheckCurrent ==
    ASSUME Guarded, NEW q \in Requests, Check(q)
    PROVE  AloneIsCurrent'
<1>1. ASSUME NEW kind, NEW t, NEW u, Set(q, Checked(q, kind, t, u)),
             kind \notin Answers \cup {"revoke"}, kind \in Timeless \/ ~locked
      PROVE  AloneIsCurrent'
  <2>1. Checked(q, kind, t, u).kind = kind /\ Checked(q, kind, t, u).phase = "checked"
    BY DEF Checked, Idle
  <2>2. Current(Checked(q, kind, t, u), locked, invitation) BY <1>1, <2>1 DEF Current
  <2> QED BY <1>1, <2>2, SetCurrent
<1>2. ASSUME NEW u \in Users, \/ CheckCreate(q, u) \/ CheckSolo(q, u) \/ CheckRemove(q, u)
                              \/ CheckDrop(q, u)
      PROVE  AloneIsCurrent'
  BY <1>1, <1>2 DEF CheckCreate, CheckSolo, CheckRemove, CheckDrop, Timeless, Exceptions, Answers
<1>3. ASSUME NEW u \in Users, NEW t \in Teams, CheckInvite(q, t, u) \/ CheckAdd(q, t, u)
      PROVE  AloneIsCurrent'
  BY <1>1, <1>3 DEF CheckInvite, CheckAdd, Timeless, Exceptions, Answers
<1>4. ASSUME NEW u \in Users, CheckLeave(q, u) PROVE AloneIsCurrent'
  <2> DEFINE r == [Checked(q, "leave", member[u].team, u)
                     EXCEPT !.count = Cardinality(Members(member[u].team))]
  <2>1. r.kind = "leave" /\ r.phase = "checked" BY DEF Checked, Idle
  <2>2. Set(q, r) /\ ~locked BY <1>4 DEF CheckLeave
  <2>3. Current(r, locked, invitation) BY <2>1, <2>2 DEF Current, Answers
  <2> QED BY <2>2, <2>3, SetCurrent
<1>5. ASSUME NEW u \in Users, NEW c \in Users, CheckTransfer(q, c, u) PROVE AloneIsCurrent'
  <2> DEFINE r == [Checked(q, "transfer", member[c].team, u) EXCEPT !.by = c]
  <2>1. r.kind = "transfer" /\ r.phase = "checked" BY DEF Checked, Idle
  <2>2. Current(r, locked, invitation) BY <2>1 DEF Current, Answers, Timeless
  <2>3. Set(q, r) BY <1>5 DEF CheckTransfer
  <2> QED BY <2>2, <2>3, SetCurrent
<1>6. ASSUME NEW i \in Invitations, CheckRevoke(q, i) PROVE AloneIsCurrent'
  <2> DEFINE r == [Checked(q, "revoke", invitation[i].team, invitation[i].user)
                     EXCEPT !.inv = i]
  <2>1. r.kind = "revoke" /\ r.phase = "checked" /\ r.inv = i BY DEF Checked, Idle
  <2>2. Set(q, r) /\ invitation[i].status = "PENDING" BY <1>6 DEF CheckRevoke
  <2>3. Current(r, locked, invitation) BY <2>1, <2>2 DEF Current, Timeless
  <2> QED BY <2>2, <2>3, SetCurrent
<1>7. ASSUME NEW i \in Invitations, NEW kind \in Answers, LookUp(q, i, kind)
      PROVE  AloneIsCurrent'
  <2> DEFINE r == [Idle EXCEPT !.kind = kind, !.phase = "begun", !.team = invitation[i].team,
                               !.user = invitation[i].user, !.inv = i]
  <2>1. r.phase = "begun" /\ r.kind = kind /\ r.inv = i BY DEF Idle
  <2>2. Set(q, r) /\ invitation[i].status = "PENDING" BY <1>7 DEF LookUp
  <2>3. Current(r, locked, invitation) BY <2>1, <2>2 DEF Current
  <2> QED BY <2>2, <2>3, SetCurrent
<1>8. ASSUME CheckAnswer(q) PROVE AloneIsCurrent'
  <2> DEFINE r == [req[q] EXCEPT !.phase = "checked"]
  <2>1. req[q] \in Request BY DEF Guarded, Typed, TypeOK
  <2>2. /\ r.kind = req[q].kind /\ r.inv = req[q].inv /\ r.alone = req[q].alone
        /\ r.phase = "checked"
    BY <2>1 DEF Request
  <2>3. Set(q, r) /\ (req[q].kind = "accept" => ~locked) BY <1>8 DEF CheckAnswer
  <2>4. req[q].alone => req[q].kind \in Answers
    BY <1>8 DEF CheckAnswer, Guarded, AloneIsCurrent, Current
  <2>5. Current(r, locked, invitation)
    BY <2>2, <2>3, <2>4 DEF Current, Guarded, AloneIsCurrent, Answers, Timeless
  <2> QED BY <2>3, <2>5, SetCurrent
<1> QED BY <1>2, <1>3, <1>4, <1>5, <1>6, <1>7, <1>8 DEF Check

LEMMA StepCurrent == Guarded /\ [Next]_vars => Guarded'
<1> SUFFICES ASSUME Guarded, [Next]_vars PROVE Guarded' OBVIOUS
<1>1. Typed' BY StepTyped DEF Guarded
<1>2. CASE UNCHANGED vars
  <2>1. UNCHANGED <<req, locked, invitation>> BY <1>2 DEF vars, rows
  <2>2. ASSUME NEW p \in Requests PROVE Current(req'[p], locked', invitation')
    <3>1. Current(req[p], locked, invitation) BY DEF Guarded, AloneIsCurrent
    <3> QED BY <2>1, <3>1
  <2>3. AloneIsCurrent' BY <2>2 DEF AloneIsCurrent
  <2> QED BY <1>1, <2>3 DEF Guarded
<1>3. ASSUME NEW q \in Requests, Check(q) PROVE AloneIsCurrent' BY <1>3, CheckCurrent
<1>4. ASSUME NEW q \in Requests, Apply(q) PROVE AloneIsCurrent'
  <2>1. Committed(q)
    BY <1>4 DEF Apply, Create, Invite, Revoke, Decline, Accept, Leave, Transfer, Remove, Add
  <2> QED BY <2>1, CommitCurrent DEF Guarded
<1>5. ASSUME NEW q \in Requests, Reject(q) PROVE AloneIsCurrent'
  BY <1>5, SetCurrent, IdleCurrent DEF Reject
<1>6. ASSUME Deadline PROVE AloneIsCurrent' BY <1>6, DeadlineCurrent DEF Guarded
<1> QED BY <1>1, <1>2, <1>3, <1>4, <1>5, <1>6 DEF Next, Guarded

LEMMA InitGuarded == Init => Guarded
BY InitTyped, IdleCurrent DEF Init, Guarded, AloneIsCurrent

\* An invitation that was revoked, declined or used lets its user in, or is answered again,
\* only when another request committed after it was read.
THEOREM AloneAnswersPending == Spec => AloneAcceptsPending
<1>1. ASSUME Guarded, [Next]_vars
      PROVE  [\A q \in Requests :
                (Commits(q) /\ req[q].alone /\ req[q].kind \in Answers \cup {"revoke"})
                    => invitation[req[q].inv].status = "PENDING"]_vars
  BY <1>1 DEF Guarded, AloneIsCurrent, Current
<1> QED BY <1>1, InitGuarded, StepCurrent, PTL DEF Spec, AloneAcceptsPending

\* After the deadline only exceptions, transfers, solo teams and requests that the deadline
\* or another commit has overtaken change rosters.
THEOREM FrozenAfterDeadline == Spec => RostersFreeze
<1>1. ASSUME Guarded, [Next]_vars
      PROVE  [\A q \in Requests :
                (Commits(q) /\ locked /\ member' # member)
                    => req[q].kind \in Timeless \/ ~req[q].alone]_vars
  BY <1>1 DEF Guarded, AloneIsCurrent, Current, Commits
<1> QED BY <1>1, InitGuarded, StepCurrent, PTL DEF Spec, RostersFreeze

-----------------------------------------------------------------------------
(* Rosters.                                                                *)

\* While a request runs alone, the roster is still as it has read it.
Read(r, table) ==
    r.alone =>
       /\ r.kind \in {"create", "solo", "leave", "remove", "transfer"} => r.user \in Users
       /\ r.kind \in {"leave", "remove", "transfer"}
             => r.team \in Teams /\ table[r.user].team = r.team
       /\ r.kind = "leave"
             => /\ r.count = Cardinality(MembersIn(table, r.team))
                /\ table[r.user].role = "CAPTAIN" => r.count <= 1
       /\ r.kind = "remove" => table[r.user].role # "CAPTAIN"
       /\ r.kind = "transfer"
             => /\ r.by \in Users
                /\ table[r.by].team = r.team /\ table[r.by].role = "CAPTAIN"

AloneHasRead == \A q \in Requests : Read(req[q], member)

Informed == Typed /\ AloneHasRead

LEMMA IdleRead == \A table : Read(Idle, table)
BY DEF Read, Idle

LEMMA OvertakenRead ==
    ASSUME Typed, \A p \in Requests : \/ req'[p] = Idle
                                      \/ req'[p] = [req[p] EXCEPT !.alone = FALSE]
    PROVE  AloneHasRead'
<1> SUFFICES ASSUME NEW p \in Requests PROVE Read(req'[p], member') BY DEF AloneHasRead
<1>1. CASE req'[p] = Idle BY <1>1, IdleRead
<1>2. CASE req'[p] = [req[p] EXCEPT !.alone = FALSE]
  <2>1. req[p] \in Request BY DEF Typed, TypeOK
  <2>2. req'[p].alone = FALSE BY <1>2, <2>1 DEF Request
  <2> QED BY <2>2 DEF Read
<1> QED BY <1>1, <1>2

LEMMA SetRead ==
    ASSUME Informed, NEW q \in Requests, NEW r, Set(q, r), Read(r, member)
    PROVE  AloneHasRead'
<1>1. \A p \in Requests : p # q => req'[p] = req[p] BY DEF Informed, Typed, TypeOK, Set
<1>2. req'[q] = r BY DEF Informed, Typed, TypeOK, Set
<1>3. UNCHANGED member BY DEF Set, rows
<1>4. ASSUME NEW p \in Requests PROVE Read(req'[p], member')
  <2>1. Read(req'[p], member) BY <1>1, <1>2 DEF Informed, AloneHasRead
  <2> QED BY <2>1, <1>3
<1> QED BY <1>4 DEF AloneHasRead

LEMMA CheckRead ==
    ASSUME Informed, NEW q \in Requests, Check(q)
    PROVE  AloneHasRead'
<1>0. \A u \in Users : member[u].team \in Teams \cup {None}
  BY DEF Informed, Typed, TypeOK, Row
<1>1. ASSUME NEW kind, NEW t, NEW u
      PROVE  /\ Checked(q, kind, t, u).kind = kind /\ Checked(q, kind, t, u).team = t
             /\ Checked(q, kind, t, u).user = u
  BY DEF Checked, Idle
<1>2. ASSUME NEW u \in Users, CheckCreate(q, u) \/ CheckSolo(q, u) PROVE AloneHasRead'
  <2>1. PICK kind \in {"create", "solo"} : Set(q, Checked(q, kind, None, u))
    BY <1>2 DEF CheckCreate, CheckSolo
  <2>2. Read(Checked(q, kind, None, u), member) BY <1>1 DEF Read
  <2> QED BY <2>1, <2>2, SetRead
<1>3. ASSUME NEW u \in Users, CheckLeave(q, u) PROVE AloneHasRead'
  <2> DEFINE t == member[u].team
             r == [Checked(q, "leave", t, u) EXCEPT !.count = Cardinality(Members(t))]
  <2>1. /\ r.kind = "leave" /\ r.team = t /\ r.user = u /\ r.count = Cardinality(Members(t))
    BY DEF Checked, Idle
  <2>2. /\ Set(q, r) /\ t # None
        /\ member[u].role = "CAPTAIN" => Cardinality(Members(t)) <= 1
    BY <1>3 DEF CheckLeave
  <2> HIDE DEF r
  <2>3. Read(r, member) BY <1>0, <2>1, <2>2 DEF Read, Members
  <2> QED BY <2>2, <2>3, SetRead
<1>4. ASSUME NEW u \in Users, CheckRemove(q, u) PROVE AloneHasRead'
  <2>1. Read(Checked(q, "remove", member[u].team, u), member)
    BY <1>0, <1>1, <1>4 DEF Read, CheckRemove
  <2> QED BY <1>4, <2>1, SetRead DEF CheckRemove
<1>5. ASSUME NEW u \in Users, NEW c \in Users, CheckTransfer(q, c, u) PROVE AloneHasRead'
  <2> DEFINE t == member[c].team
             r == [Checked(q, "transfer", t, u) EXCEPT !.by = c]
  <2>1. r.kind = "transfer" /\ r.team = t /\ r.user = u /\ r.by = c BY DEF Checked, Idle
  <2>2. /\ Set(q, r) /\ t # None /\ member[c].role = "CAPTAIN" /\ member[u].team = t
    BY <1>5 DEF CheckTransfer
  <2> HIDE DEF r
  <2>3. Read(r, member) BY <1>0, <2>1, <2>2 DEF Read
  <2> QED BY <2>2, <2>3, SetRead
<1>6. ASSUME NEW r, Set(q, r),
             r.kind \notin {"create", "solo", "leave", "remove", "transfer"}
      PROVE  AloneHasRead'
  <2>1. Read(r, member) BY <1>6 DEF Read
  <2> QED BY <1>6, <2>1, SetRead
<1>7. ASSUME NEW u \in Users, CheckDrop(q, u) PROVE AloneHasRead'
  BY <1>1, <1>6, <1>7 DEF CheckDrop
<1>8. ASSUME NEW u \in Users, NEW t \in Teams, CheckInvite(q, t, u) \/ CheckAdd(q, t, u)
      PROVE  AloneHasRead'
  BY <1>1, <1>6, <1>8 DEF CheckInvite, CheckAdd
<1>9. ASSUME NEW i \in Invitations, CheckRevoke(q, i) PROVE AloneHasRead'
  <2> DEFINE r == [Checked(q, "revoke", invitation[i].team, invitation[i].user)
                     EXCEPT !.inv = i]
  <2>1. r.kind = "revoke" BY DEF Checked, Idle
  <2>2. Set(q, r) BY <1>9 DEF CheckRevoke
  <2> QED BY <2>1, <2>2, <1>6
<1>10. ASSUME NEW i \in Invitations, NEW kind \in Answers, LookUp(q, i, kind)
       PROVE  AloneHasRead'
  <2> DEFINE r == [Idle EXCEPT !.kind = kind, !.phase = "begun", !.team = invitation[i].team,
                               !.user = invitation[i].user, !.inv = i]
  <2>1. r.kind \in Answers BY DEF Idle
  <2>2. Set(q, r) BY <1>10 DEF LookUp
  <2> QED BY <2>1, <2>2, <1>6 DEF Answers
<1>11. ASSUME CheckAnswer(q) PROVE AloneHasRead'
  <2> DEFINE r == [req[q] EXCEPT !.phase = "checked"]
  <2>1. req[q] \in Request BY DEF Informed, Typed, TypeOK
  <2>2. /\ r.kind = req[q].kind /\ r.alone = req[q].alone /\ r.user = req[q].user
        /\ r.team = req[q].team /\ r.by = req[q].by /\ r.count = req[q].count
    BY <2>1 DEF Request
  <2>3. Set(q, r) BY <1>11 DEF CheckAnswer
  <2> HIDE DEF r
  <2>4. Read(r, member) BY <2>2 DEF Informed, AloneHasRead, Read
  <2> QED BY <2>3, <2>4, SetRead
<1> QED BY <1>2, <1>3, <1>4, <1>5, <1>7, <1>8, <1>9, <1>10, <1>11 DEF Check

LEMMA StepRead == Informed /\ [Next]_vars => Informed'
<1> SUFFICES ASSUME Informed, [Next]_vars PROVE Informed' OBVIOUS
<1>1. Typed' BY StepTyped DEF Informed
<1>2. CASE UNCHANGED vars
  <2>1. UNCHANGED <<req, member>> BY <1>2 DEF vars, rows
  <2>2. ASSUME NEW p \in Requests PROVE Read(req'[p], member')
    <3>1. Read(req[p], member) BY DEF Informed, AloneHasRead
    <3> QED BY <2>1, <3>1
  <2> QED BY <1>1, <2>2 DEF Informed, AloneHasRead
<1>3. ASSUME NEW q \in Requests, Check(q) PROVE AloneHasRead' BY <1>3, CheckRead
<1>4. ASSUME NEW q \in Requests, Apply(q) PROVE AloneHasRead'
  <2>1. Committed(q)
    BY <1>4 DEF Apply, Create, Invite, Revoke, Decline, Accept, Leave, Transfer, Remove, Add
  <2> QED BY <2>1, OvertakenRead DEF Committed, Informed
<1>5. ASSUME NEW q \in Requests, Reject(q) PROVE AloneHasRead'
  BY <1>5, SetRead, IdleRead DEF Reject
<1>6. ASSUME Deadline PROVE AloneHasRead' BY <1>6, OvertakenRead DEF Deadline, Informed
<1> QED BY <1>1, <1>2, <1>3, <1>4, <1>5, <1>6 DEF Next, Informed

\* The step that commits a request is the request's own.
LEMMA CommitsApplies ==
    ASSUME Typed, [Next]_vars, NEW q \in Requests, Commits(q)
    PROVE  Apply(q)
<1>1. rows' # rows /\ req[q].phase = "checked" /\ req'[q] = Idle BY DEF Commits
<1>2. Idle.phase = "idle" BY DEF Idle
<1>3. ASSUME NEW p \in Requests, Check(p) PROVE UNCHANGED rows
  BY <1>3 DEF Check, CheckCreate, CheckSolo, CheckLeave, CheckRemove, CheckDrop, CheckInvite,
     CheckAdd, CheckTransfer, CheckRevoke, LookUp, CheckAnswer, Set
<1>4. ASSUME NEW p \in Requests, Reject(p) PROVE UNCHANGED rows BY <1>4 DEF Reject, Set
<1>5. Deadline => UNCHANGED rows BY DEF Deadline
<1>6. PICK p \in Requests : Apply(p) BY <1>1, <1>3, <1>4, <1>5 DEF Next, vars
<1>7. Committed(p)
  BY <1>6 DEF Apply, Create, Invite, Revoke, Decline, Accept, Leave, Transfer, Remove, Add
<1>8. CASE p # q
  <2>1. req'[q] = [req[q] EXCEPT !.alone = FALSE] BY <1>1, <1>2, <1>7, <1>8 DEF Committed
  <2>2. req[q] \in Request BY DEF Typed, TypeOK
  <2>3. req'[q].phase = "checked" BY <1>1, <2>1, <2>2 DEF Request
  <2> QED BY <1>1, <1>2, <2>3
<1> QED BY <1>6, <1>8

\* What the property asks of a step that commits q.
KeepsRosters(q) ==
    /\ Rostered(team, member) => Rostered(team', member')
    /\ \A u \in Users : (member[u] # NoRow /\ member'[u] = NoRow) => u = req[q].user

\* If no live team gains or loses a captain, rosters are kept.
LEMMA CaptainsKept ==
    ASSUME \A t \in Teams : team'[t] = "live"
              => team[t] = "live" /\ Captains(member', t) = Captains(member, t)
    PROVE  Rostered(team, member) => Rostered(team', member')
BY DEF Rostered

\* A user without a team joins one as an ordinary member: captains are as before.
LEMMA MemberJoins ==
    ASSUME Typed, NEW q \in Requests, NEW u, NEW t, member[u] = NoRow, Joins(u, t, "MEMBER"),
           UNCHANGED team
    PROVE  KeepsRosters(q)
<1>1. \A v \in Users : v # u => member'[v] = member[v] BY DEF Joins, Typed, TypeOK
<1>2. u \in Users => member'[u] = [team |-> t, role |-> "MEMBER"]
  BY DEF Joins, Typed, TypeOK
<1>3. member[u].role = "MEMBER" BY DEF NoRow
<1>4. \A x \in Teams : Captains(member', x) = Captains(member, x)
  BY <1>1, <1>2, <1>3 DEF Captains, MembersIn
<1>5. \A v \in Users : (member[v] # NoRow /\ member'[v] = NoRow) => v = req[q].user
  BY <1>1
<1> QED BY <1>4, <1>5, CaptainsKept DEF KeepsRosters

\* An ordinary member goes: captains are as before.
LEMMA MemberLeaves ==
    ASSUME Typed, NEW q \in Requests, req[q].user \in Users, req[q].team \in Teams,
           member[req[q].user].team = req[q].team, member[req[q].user].role # "CAPTAIN",
           member' = Leaves(req[q].user, req[q].team), UNCHANGED team
    PROVE  KeepsRosters(q)
<1> DEFINE u == req[q].user
<1>1. member' = [member EXCEPT ![u] = NoRow] BY DEF Leaves
<1>2. \A v \in Users : v # u => member'[v] = member[v] BY <1>1 DEF Typed, TypeOK
<1>3. member'[u].role = "MEMBER" BY <1>1 DEF Typed, TypeOK, NoRow
<1>4. \A x \in Teams : Captains(member', x) = Captains(member, x)
  BY <1>2, <1>3 DEF Captains, MembersIn
<1>5. \A v \in Users : (member[v] # NoRow /\ member'[v] = NoRow) => v = u BY <1>2
<1> QED BY <1>4, <1>5, CaptainsKept DEF KeepsRosters

\* A new team has its creator as its one member and captain.
LEMMA CreateKeeps ==
    ASSUME Typed, NEW q \in Requests, Create(q), req[q].user \in Users
    PROVE  KeepsRosters(q)
<1> DEFINE u == req[q].user
<1>1. PICK t \in Teams : /\ team[t] = "unused"
                         /\ team' = [team EXCEPT ![t] = "live"]
                         /\ Joins(u, t, "CAPTAIN")
  BY DEF Create
<1>2. member[u] = NoRow BY DEF Create
<1>3. /\ member'[u] = [team |-> t, role |-> "CAPTAIN"]
      /\ \A v \in Users : v # u => member'[v] = member[v]
  BY <1>1 DEF Joins, Typed, TypeOK
<1>4. \A x \in Teams : x # t => team'[x] = team[x] BY <1>1 DEF Typed, TypeOK
<1>5. \A v \in Users : member[v].team # t BY <1>1, TeamsAssumption DEF Typed, TypeOK
<1>6. Captains(member', t) = {u} BY <1>3, <1>5 DEF Captains, MembersIn
<1>7. Cardinality(Captains(member', t)) = 1 BY <1>6, FS_Singleton
<1>8. \A x \in Teams : x # t => Captains(member', x) = Captains(member, x)
  BY <1>2, <1>3 DEF Captains, MembersIn, NoRow
<1>9. Rostered(team, member) => Rostered(team', member') BY <1>4, <1>7, <1>8 DEF Rostered
<1>10. \A v \in Users : (member[v] # NoRow /\ member'[v] = NoRow) => v = u BY <1>3
<1> QED BY <1>9, <1>10 DEF KeepsRosters

\* Who leaves is no captain, or the last member, with whom the team goes.
LEMMA LeaveKeeps ==
    ASSUME Informed, NEW q \in Requests, Leave(q), req[q].alone
    PROVE  KeepsRosters(q)
<1> DEFINE u == req[q].user
           t == req[q].team
<1> USE DEF Informed
<1>1. /\ u \in Users /\ t \in Teams /\ member[u].team = t
      /\ req[q].count = Cardinality(Members(t))
      /\ member[u].role = "CAPTAIN" => req[q].count <= 1
  BY DEF AloneHasRead, Read, Leave, Ready, Members
<1>2. Cardinality(Members(t)) \in Nat BY Counted, FS_CardinalityType DEF Members
<1>3. CASE req[q].count > 1
  <2>1. member' = Leaves(u, t) /\ UNCHANGED team BY <1>1, <1>2, <1>3 DEF Leave
  <2>2. member[u].role # "CAPTAIN" BY <1>1, <1>2, <1>3
  <2> QED BY <1>1, <2>1, <2>2, MemberLeaves
<1>4. CASE ~(req[q].count > 1)
  <2>1. /\ team' = [team EXCEPT ![t] = "deleted"]
        /\ member' = [v \in Users |-> IF member[v].team = t THEN NoRow ELSE member[v]]
    BY <1>4 DEF Leave
  <2>2. \A v \in Users : member[v].team = t => v = u
    <3> SUFFICES ASSUME NEW v \in Users, member[v].team = t, v # u PROVE FALSE OBVIOUS
    <3>1. {u, v} \subseteq Members(t) BY <1>1 DEF Members, MembersIn
    <3>2. Cardinality({u, v}) = 2
      <4>1. {u, v} = {u} \cup {v} /\ v \notin {u} OBVIOUS
      <4>2. IsFiniteSet({u}) /\ Cardinality({u}) = 1 BY FS_Singleton
      <4>3. Cardinality({u} \cup {v}) = Cardinality({u}) + 1 BY <4>1, <4>2, FS_AddElement, Zenon
      <4> QED BY <4>1, <4>2, <4>3
    <3>3. Cardinality({u, v}) <= Cardinality(Members(t)) BY <3>1, Counted, FS_Subset DEF Members
    <3> QED BY <1>1, <1>2, <1>4, <3>2, <3>3
  <2>3. \A v \in Users : (member[v] # NoRow /\ member'[v] = NoRow) => v = u BY <2>1, <2>2
  <2>4. \A x \in Teams : team'[x] = "live" => x # t /\ team[x] = "live"
    BY <1>1, <2>1 DEF Typed, TypeOK
  <2>5. NoRow.role = "MEMBER" BY DEF NoRow
  <2>6. \A x \in Teams : x # t => Captains(member', x) = Captains(member, x)
    BY <2>1, <2>5 DEF Captains, MembersIn
  <2> QED BY <2>3, <2>4, <2>6, CaptainsKept DEF KeepsRosters
<1> QED BY <1>3, <1>4

\* A hand-over leaves the team with the new captain alone.
LEMMA TransferKeeps ==
    ASSUME Informed, NEW q \in Requests, Transfer(q), req[q].alone
    PROVE  KeepsRosters(q)
<1> DEFINE u == req[q].user
           c == req[q].by
           t == req[q].team
<1> USE DEF Informed
<1>1. /\ u \in Users /\ c \in Users /\ t \in Teams /\ member[u].team = t
      /\ member[c].team = t /\ member[c].role = "CAPTAIN"
  BY DEF AloneHasRead, Read, Transfer, Ready
<1>2. UNCHANGED team BY DEF Transfer
<1>3. \A v \in Users : member'[v].team = member[v].team BY TransferMembers
<1>4. \A v \in Users : v \notin {u, c} => member'[v] = member[v] BY DEF Transfer
<1>5. member'[u].role = "CAPTAIN" /\ (c # u => member'[c].role = "MEMBER")
  <2>1. member[u] \in Row /\ member[c] \in Row BY <1>1 DEF Typed, TypeOK
  <2>2. /\ member'[u] = [member[u] EXCEPT !.role = "CAPTAIN"]
        /\ c # u => member'[c] = [member[c] EXCEPT !.role = "MEMBER"]
    BY <1>1 DEF Transfer
  <2> QED BY <2>1, <2>2 DEF Row
<1>6. \A x \in Teams : x # t => Captains(member', x) = Captains(member, x)
  BY <1>1, <1>3, <1>4 DEF Captains, MembersIn
<1>7. Rostered(team, member) => Rostered(team', member')
  <2> SUFFICES ASSUME Rostered(team, member), NEW x \in Teams, team'[x] = "live"
               PROVE  Cardinality(Captains(member', x)) = 1
    BY DEF Rostered
  <2>1. Cardinality(Captains(member, x)) = 1 BY <1>2 DEF Rostered
  <2>2. CASE x # t BY <2>1, <2>2, <1>6
  <2>3. CASE x = t
    <3>1. Captains(member, t) \subseteq Users BY DEF Captains, MembersIn
    <3>2. IsFiniteSet(Captains(member, t)) BY <3>1, FS_Subset, TeamsAssumption
    <3>3. PICK w : Captains(member, t) = {w} BY <2>1, <2>3, <3>2, FS_Singleton
    <3>4. Captains(member, t) = {c} BY <1>1, <3>3 DEF Captains, MembersIn
    <3>5. Captains(member', t) = {u}
      BY <1>1, <1>3, <1>4, <1>5, <3>4 DEF Captains, MembersIn
    <3> QED BY <2>3, <3>5, FS_Singleton
  <2> QED BY <2>2, <2>3
<1>8. \A v \in Users : (member[v] # NoRow /\ member'[v] = NoRow) => v = u
  <2>1. NoRow.team = None /\ None \notin Teams BY TeamsAssumption DEF NoRow
  <2> QED BY <1>1, <1>3, <1>4, <2>1
<1> QED BY <1>7, <1>8 DEF KeepsRosters

LEMMA AloneKeeps ==
    ASSUME Informed, [Next]_vars, NEW q \in Requests, Commits(q), req[q].alone,
           req[q].kind \notin Exceptions
    PROVE  KeepsRosters(q)
<1> USE DEF Informed
<1>1. Apply(q) BY CommitsApplies
<1>2. CASE Create(q)
  <2>1. req[q].user \in Users BY <1>2 DEF AloneHasRead, Read, Create, Ready
  <2> QED BY <1>2, <2>1, CreateKeeps
<1>3. CASE Invite(q) \/ Revoke(q) \/ Decline(q)
  <2>1. UNCHANGED <<team, member>> BY <1>3 DEF Invite, Revoke, Decline
  <2> QED BY <2>1 DEF KeepsRosters
<1>4. CASE Accept(q) BY <1>4, MemberJoins DEF Accept
<1>5. CASE Leave(q) BY <1>5, LeaveKeeps
<1>6. CASE Transfer(q) BY <1>6, TransferKeeps
<1>7. CASE Remove(q)
  <2>1. req[q].kind = "remove" BY <1>7 DEF Remove, Ready, Exceptions
  <2> QED BY <1>7, <2>1, MemberLeaves DEF Remove, AloneHasRead, Read
<1>8. CASE Add(q) BY <1>8 DEF Add, Ready, Exceptions
<1> QED BY <1>1, <1>2, <1>3, <1>4, <1>5, <1>6, <1>7, <1>8 DEF Apply

\* A request that no other commit has overtaken and that is no exception leaves every live
\* team with one captain, if it had one, and lets nobody but the requester go.
THEOREM AloneRostersKept == Spec => AloneKeepsRosters
<1>1. Init => Informed BY InitTyped, IdleRead DEF Init, Informed, AloneHasRead
<1>2. Informed /\ [Next]_vars => Informed' BY StepRead
<1>3. Informed /\ [Next]_vars
        => [\A q \in Requests :
              (Commits(q) /\ req[q].alone /\ req[q].kind \notin Exceptions)
                  => /\ Rostered(team, member) => Rostered(team', member')
                     /\ \A u \in Users : (member[u] # NoRow /\ member'[u] = NoRow)
                                            => u = req[q].user]_vars
  BY AloneKeeps DEF KeepsRosters
<1> QED BY <1>1, <1>2, <1>3, PTL DEF Spec, AloneKeepsRosters

=============================================================================

------------------------------- MODULE Teams -------------------------------
(***************************************************************************)
(* The teams of one challenge: created, joined by invitation, left, handed *)
(* over and corrected by organizers, by concurrent requests.               *)
(*                                                                         *)
(* Each request is one READ COMMITTED transaction: its reads and checks    *)
(* are one action, its writes and the commit a later one, so that whatever *)
(* was read may be stale.  Only acceptInvitation locks the team, and it    *)
(* counts the members under that lock.  Answers to an invitation read it   *)
(* in an earlier transaction of their own.                                 *)
(*                                                                         *)
(* Every user is an approved participant.  Who asks is left out where an   *)
(* organizer may ask as well as the captain.  Any request may also be      *)
(* refused for reasons outside the model (an expired invitation, a team    *)
(* that has a submission and cannot be deleted).                           *)
(***************************************************************************)
EXTENDS Integers, FiniteSets

CONSTANTS
    Users,
    Teams,        \* ids of teams, each used once
    Invitations,  \* ids of invitations, each used once
    Requests,     \* requests that may be in progress at the same time
    MaxTeamSize,  \* challenge.maxTeamSize
    None          \* no user, team or invitation

ASSUME TeamsAssumption ==
    /\ IsFiniteSet(Users)
    /\ MaxTeamSize \in Nat \ {0}
    /\ None \notin Users \cup Teams \cup Invitations

VARIABLES
    team,        \* which challenge_team rows exist
    member,      \* challenge_team_member: the one row a user may have
    invitation,  \* the team_invitation rows
    locked,      \* now() is past the submission deadline
    req          \* the requests in progress

rows == <<team, member, invitation>>
vars == <<rows, locked, req>>

Kinds == {"create", "solo", "invite", "revoke", "accept", "decline", "leave", "transfer",
          "remove", "add", "drop"}

Answers == {"accept", "decline"}

\* What organizerException does, and what is not bound to the deadline.
Exceptions == {"add", "drop"}
Timeless == Exceptions \cup {"solo", "transfer", "revoke", "decline"}

Row == [team : Teams \cup {None}, role : {"CAPTAIN", "MEMBER"}]
NoRow == [team |-> None, role |-> "MEMBER"]

Invitation == [status : {"unused", "PENDING", "ACCEPTED", "DECLINED", "REVOKED", "deleted"},
               team : Teams \cup {None}, user : Users \cup {None}]
Unused == [status |-> "unused", team |-> None, user |-> None]

\* by: the captain who hands over; count: the members a leaver has counted;
\* alone: history, nothing has been committed since the request first read.
Request == [kind  : Kinds \cup {"none"},
            phase : {"idle", "begun", "checked"},
            team  : Teams \cup {None},
            user  : Users \cup {None},
            by    : Users \cup {None},
            inv   : Invitations \cup {None},
            count : 0..Cardinality(Users),
            alone : BOOLEAN]

Idle == [kind |-> "none", phase |-> "idle", team |-> None, user |-> None, by |-> None,
         inv |-> None, count |-> 0, alone |-> TRUE]

MembersIn(table, t) == {u \in Users : table[u].team = t}
Members(t) == MembersIn(member, t)

TypeOK ==
    /\ team \in [Teams -> {"unused", "live", "deleted"}]
    /\ member \in [Users -> Row]
    /\ invitation \in [Invitations -> Invitation]
    /\ locked \in BOOLEAN
    /\ req \in [Requests -> Request]
    /\ \A u \in Users : member[u].team # None => team[member[u].team] = "live"
    /\ \A i \in Invitations : invitation[i].status \notin {"unused", "deleted"}
                                => team[invitation[i].team] = "live"

Init ==
    /\ team = [t \in Teams |-> "unused"]
    /\ member = [u \in Users |-> NoRow]
    /\ invitation = [i \in Invitations |-> Unused]
    /\ locked = FALSE
    /\ req = [q \in Requests |-> Idle]

-----------------------------------------------------------------------------
(* Requests: reads and checks.                                             *)

Set(q, r) == req' = [req EXCEPT ![q] = r] /\ UNCHANGED <<rows, locked>>

\* An error, a refusal or a rollback.
Reject(q) == req[q] # Idle /\ Set(q, Idle)

Checked(q, kind, t, u) == [Idle EXCEPT !.kind = kind, !.phase = "checked", !.team = t, !.user = u]

CheckCreate(q, u) ==
    /\ req[q] = Idle
    /\ ~locked
    /\ member[u] = NoRow
    /\ Set(q, Checked(q, "create", None, u))

\* ensureTeamForSubmission, for a participant without a team.
CheckSolo(q, u) ==
    /\ req[q] = Idle
    /\ member[u] = NoRow
    /\ Set(q, Checked(q, "solo", None, u))

CheckInvite(q, t, u) ==
    /\ req[q] = Idle
    /\ ~locked
    /\ team[t] = "live"
    /\ member[u] = NoRow
    /\ Cardinality(Members(t)) < MaxTeamSize
    /\ Set(q, Checked(q, "invite", t, u))

CheckRevoke(q, i) ==
    /\ req[q] = Idle
    /\ invitation[i].status = "PENDING"
    /\ Set(q, [Checked(q, "revoke", invitation[i].team, invitation[i].user) EXCEPT !.inv = i])

\* Mutant: a used invitation is looked up as well as a pending one.
LookUpAnyStatus(q, i, kind) ==
    /\ req[q] = Idle
    /\ kind \in Answers
    /\ invitation[i].status \notin {"unused", "deleted"}
    /\ Set(q, [Idle EXCEPT !.kind = kind, !.phase = "begun", !.team = invitation[i].team,
                           !.user = invitation[i].user, !.inv = i])

\* The invitee's invitation is read by its token.  Its status is checked later, but
\* as it was read here.
LookUp(q, i, kind) ==
    /\ req[q] = Idle
    /\ kind \in Answers
    /\ invitation[i].status = "PENDING"
    /\ Set(q, [Idle EXCEPT !.kind = kind, !.phase = "begun", !.team = invitation[i].team,
                           !.user = invitation[i].user, !.inv = i])

CheckAnswer(q) ==
    /\ req[q].phase = "begun"
    /\ req[q].kind = "accept" => ~locked /\ member[req[q].user] = NoRow
    /\ Set(q, [req[q] EXCEPT !.phase = "checked"])

\* Mutant: a captain may leave the others behind.
CheckLeaveAnyRole(q, u) ==
    /\ req[q] = Idle
    /\ ~locked
    /\ member[u].team # None
    /\ Set(q, [Checked(q, "leave", member[u].team, u)
                 EXCEPT !.count = Cardinality(Members(member[u].team))])

CheckLeave(q, u) ==
    LET count == Cardinality(Members(member[u].team)) IN
    /\ req[q] = Idle
    /\ ~locked
    /\ member[u].team # None
    /\ member[u].role = "CAPTAIN" => count <= 1
    /\ Set(q, [Checked(q, "leave", member[u].team, u) EXCEPT !.count = count])

CheckTransfer(q, c, u) ==
    /\ req[q] = Idle
    /\ member[c].team # None /\ member[c].role = "CAPTAIN"
    /\ member[u].team = member[c].team
    /\ Set(q, [Checked(q, "transfer", member[c].team, u) EXCEPT !.by = c])

\* Mutant: the deadline does not bind removals.
CheckRemoveAnyTime(q, u) ==
    /\ req[q] = Idle
    /\ member[u].team # None /\ member[u].role # "CAPTAIN"
    /\ Set(q, Checked(q, "remove", member[u].team, u))

CheckRemove(q, u) ==
    /\ req[q] = Idle
    /\ ~locked
    /\ member[u].team # None /\ member[u].role # "CAPTAIN"
    /\ Set(q, Checked(q, "remove", member[u].team, u))

CheckAdd(q, t, u) ==
    /\ req[q] = Idle
    /\ team[t] = "live"
    /\ member[u] = NoRow
    /\ Set(q, Checked(q, "add", t, u))

CheckDrop(q, u) ==
    /\ req[q] = Idle
    /\ member[u].team # None
    /\ Set(q, Checked(q, "drop", member[u].team, u))

-----------------------------------------------------------------------------
(* Requests: writes and commit.                                            *)

Ready(q, kind) == req[q].phase = "checked" /\ req[q].kind = kind

\* The request ends; the others no longer run alone.
Committed(q) ==
    /\ req' = [p \in Requests |-> IF p = q \/ req[p] = Idle THEN Idle
                                  ELSE [req[p] EXCEPT !.alone = FALSE]]
    /\ UNCHANGED locked

Joins(u, t, role) == member' = [member EXCEPT ![u] = [team |-> t, role |-> role]]

\* deleteMany on the user's row in the team.
Leaves(u, t) == IF member[u].team = t THEN [member EXCEPT ![u] = NoRow] ELSE member

\* createTeam with its captain; the unique index refuses a second row of the user.
Create(q) ==
    /\ Ready(q, "create") \/ Ready(q, "solo")
    /\ member[req[q].user] = NoRow
    /\ \E t \in Teams :
          /\ team[t] = "unused"
          /\ team' = [team EXCEPT ![t] = "live"]
          /\ Joins(req[q].user, t, "CAPTAIN")
    /\ UNCHANGED invitation
    /\ Committed(q)

Invite(q) ==
    /\ Ready(q, "invite")
    /\ team[req[q].team] = "live"
    /\ \E i \in Invitations :
          /\ invitation[i] = Unused
          /\ invitation' = [invitation EXCEPT ![i] =
                              [status |-> "PENDING", team |-> req[q].team, user |-> req[q].user]]
    /\ UNCHANGED <<team, member>>
    /\ Committed(q)

\* setInvitationStatus: by id, whatever the status has become.
SetStatus(i, status) ==
    invitation' = IF invitation[i].status = "deleted" THEN invitation
                  ELSE [invitation EXCEPT ![i].status = status]

Revoke(q) ==
    /\ Ready(q, "revoke")
    /\ SetStatus(req[q].inv, "REVOKED")
    /\ UNCHANGED <<team, member>>
    /\ Committed(q)

Decline(q) ==
    /\ Ready(q, "decline")
    /\ SetStatus(req[q].inv, "DECLINED")
    /\ UNCHANGED <<team, member>>
    /\ Committed(q)

\* Mutant: the team's size is not counted again under the lock.
AcceptUncounted(q) ==
    LET u == req[q].user  t == req[q].team IN
    /\ Ready(q, "accept")
    /\ team[t] = "live"
    /\ member[u] = NoRow
    /\ Joins(u, t, "MEMBER")
    /\ SetStatus(req[q].inv, "ACCEPTED")
    /\ UNCHANGED team
    /\ Committed(q)

\* Under the lock on the team: the count, the new row and the status.
Accept(q) ==
    LET u == req[q].user  t == req[q].team IN
    /\ Ready(q, "accept")
    /\ team[t] = "live"
    /\ Cardinality(Members(t)) < MaxTeamSize
    /\ member[u] = NoRow
    /\ Joins(u, t, "MEMBER")
    /\ SetStatus(req[q].inv, "ACCEPTED")
    /\ UNCHANGED team
    /\ Committed(q)

\* The last to leave, by the leaver's count, takes the team, its rows and its
\* invitations along (ON DELETE CASCADE).
Leave(q) ==
    LET t == req[q].team IN
    /\ Ready(q, "leave")
    /\ \/ /\ req[q].count > 1
          /\ member' = Leaves(req[q].user, t)
          /\ UNCHANGED <<team, invitation>>
       \/ /\ req[q].count <= 1
          /\ team' = [team EXCEPT ![t] = "deleted"]
          /\ member' = [u \in Users |-> IF member[u].team = t THEN NoRow ELSE member[u]]
          /\ invitation' = [i \in Invitations |->
                               IF invitation[i].team = t
                               THEN [invitation[i] EXCEPT !.status = "deleted"]
                               ELSE invitation[i]]
    /\ Committed(q)

\* Two updateMany on (team, user): the old captain first.
Transfer(q) ==
    LET In(u) == member[u].team = req[q].team IN
    /\ Ready(q, "transfer")
    /\ member' = [u \in Users |->
                     CASE u = req[q].user /\ In(u) -> [member[u] EXCEPT !.role = "CAPTAIN"]
                       [] u = req[q].by /\ u # req[q].user /\ In(u)
                                                   -> [member[u] EXCEPT !.role = "MEMBER"]
                       [] OTHER                    -> member[u]]
    /\ UNCHANGED <<team, invitation>>
    /\ Committed(q)

Remove(q) ==
    /\ Ready(q, "remove") \/ Ready(q, "drop")
    /\ member' = Leaves(req[q].user, req[q].team)
    /\ UNCHANGED <<team, invitation>>
    /\ Committed(q)

\* The foreign key and the unique index still hold for an organizer.
Add(q) ==
    /\ Ready(q, "add")
    /\ team[req[q].team] = "live"
    /\ member[req[q].user] = NoRow
    /\ Joins(req[q].user, req[q].team, "MEMBER")
    /\ UNCHANGED <<team, invitation>>
    /\ Committed(q)

\* The submission deadline passes, or an organizer extends it.
Deadline ==
    /\ locked' = ~locked
    /\ req' = [q \in Requests |-> IF req[q] = Idle THEN Idle ELSE [req[q] EXCEPT !.alone = FALSE]]
    /\ UNCHANGED rows

-----------------------------------------------------------------------------
Check(q) ==
    \/ \E u \in Users :
          \/ CheckCreate(q, u) \/ CheckSolo(q, u) \/ CheckLeave(q, u)
          \/ CheckRemove(q, u) \/ CheckDrop(q, u)
          \/ \E t \in Teams : CheckInvite(q, t, u) \/ CheckAdd(q, t, u)
          \/ \E c \in Users : CheckTransfer(q, c, u)
    \/ \E i \in Invitations : CheckRevoke(q, i) \/ \E kind \in Answers : LookUp(q, i, kind)
    \/ CheckAnswer(q)

Apply(q) ==
    \/ Create(q) \/ Invite(q) \/ Revoke(q) \/ Decline(q) \/ Accept(q)
    \/ Leave(q) \/ Transfer(q) \/ Remove(q) \/ Add(q)

Next == (\E q \in Requests : Check(q) \/ Apply(q) \/ Reject(q)) \/ Deadline

Spec == Init /\ [][Next]_vars

-----------------------------------------------------------------------------
(* Properties.                                                             *)

\* The step that commits request q.
Commits(q) == req[q].phase = "checked" /\ req'[q] = Idle /\ rows' # rows

\* However many invitees accept at once, no team grows beyond the challenge's limit
\* unless an organizer makes the exception.
CapacityHeld ==
    [][\A t \in Teams :
          (Cardinality(MembersIn(member', t)) > Cardinality(Members(t))
           /\ Cardinality(MembersIn(member', t)) > MaxTeamSize)
              => \E q \in Requests : Commits(q) /\ req[q].kind = "add"]_vars

Captains(table, t) == {u \in MembersIn(table, t) : table[u].role = "CAPTAIN"}

\* A live team has exactly one captain.
Rostered(liveness, table) ==
    \A t \in Teams : liveness[t] = "live" => Cardinality(Captains(table, t)) = 1

\* Only an exception or a race breaks a team up: a request that ran alone leaves
\* every live team with one captain, and lets nobody but the requester go.
AloneKeepsRosters ==
    [][\A q \in Requests :
          (Commits(q) /\ req[q].alone /\ req[q].kind \notin Exceptions)
              => /\ Rostered(team, member) => Rostered(team', member')
                 /\ \A u \in Users : (member[u] # NoRow /\ member'[u] = NoRow)
                                        => u = req[q].user]_vars

\* Without a race, only an invitation that is still pending lets its user in.
AloneAcceptsPending ==
    [][\A q \in Requests :
          (Commits(q) /\ req[q].alone /\ req[q].kind \in Answers \cup {"revoke"})
              => invitation[req[q].inv].status = "PENDING"]_vars

\* After the deadline rosters are left alone, but for exceptions, changes of the
\* captain, solo teams, and requests that the deadline has overtaken.
RostersFreeze ==
    [][\A q \in Requests :
          (Commits(q) /\ locked /\ member' # member)
              => req[q].kind \in Timeless \/ ~req[q].alone]_vars

=============================================================================

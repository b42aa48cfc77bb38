---------------------------- MODULE Memberships ----------------------------
(***************************************************************************)
(* The members of one organization, changed by concurrent requests: role   *)
(* changes, removals, reactivations, people who join, and the account      *)
(* deletion sweep.                                                         *)
(*                                                                         *)
(* Each request is one PostgreSQL transaction.  What it knows is stale:    *)
(* the actor's role comes from the access context captured before the      *)
(* transaction, `existing` from a plain SELECT, and the owners counted by  *)
(* the guarded UPDATE from that statement's snapshot.  READ COMMITTED      *)
(* re-evaluates the UPDATE on the newest version of the locked row alone;  *)
(* the count stays that of the snapshot.  A transaction writes one         *)
(* membership row, so taking the row lock and committing are one action.   *)
(***************************************************************************)
EXTENDS Integers, FiniteSets

CONSTANTS
    Users,
    NoUser,
    Requests,  \* requests that may be in progress at the same time
    Kinds      \* which of AllKinds are made

AllKinds == {"changeRole", "remove", "reactivate", "join", "delete"}

ASSUME MembershipsAssumption ==
    /\ IsFiniteSet(Users)
    /\ NoUser \notin Users
    /\ Kinds \subseteq AllKinds

VARIABLES
    member,  \* the organization_membership rows
    req      \* the requests in progress

vars == <<member, req>>

-----------------------------------------------------------------------------
(* Roles and rows.                                                         *)

\* CHALLENGE_MANAGER is left out: here it could do no more than MEMBER.
Roles == {"OWNER", "ADMIN", "MEMBER"}

Rank == [role \in Roles |-> CASE role = "OWNER" -> 4 [] role = "ADMIN" -> 3 [] OTHER -> 1]

canAssignRole(actorRole, role) == Rank[actorRole] >= Rank[role]

\* The roles that carry organization.manage_members and .manage_roles.
Managers == {"OWNER", "ADMIN"}

Row == [role : Roles, status : {"ACTIVE", "INACTIVE", "NONE"}]

Absent == [role |-> "MEMBER", status |-> "NONE"]
Active(role) == [role |-> role, status |-> "ACTIVE"]

OwnersIn(table) == {u \in Users : table[u] = Active("OWNER")}
Owners == OwnersIn(member)

-----------------------------------------------------------------------------
(* Requests.                                                               *)

Request == [kind      : AllKinds \cup {"none"},
            phase     : {"idle", "begun", "found", "locking"},
            target    : Users \cup {NoUser},
            role      : Roles \cup {"KEEP"},
            actorRole : Roles,
            existing  : Row,
            owners    : SUBSET Users]

Idle == [kind |-> "none", phase |-> "idle", target |-> NoUser, role |-> "KEEP",
         actorRole |-> "MEMBER", existing |-> Absent, owners |-> {}]

TypeOK ==
    /\ member \in [Users -> Row]
    /\ req \in [Requests -> Request]

\* createOwnerMembership: the approval of the organization's application.
Init ==
    /\ \E u \in Users :
          member = [v \in Users |-> IF v = u THEN Active("OWNER") ELSE Absent]
    /\ req = [q \in Requests |-> Idle]

Begin(q, kind, target, role, actorRole) ==
    /\ req[q] = Idle
    /\ kind \in Kinds
    /\ req' = [req EXCEPT ![q] =
                 [Idle EXCEPT !.kind = kind, !.phase = "begun", !.target = target,
                              !.role = role, !.actorRole = actorRole]]
    /\ UNCHANGED member

\* The request resolves its access context and is authorized by it.
BeginChangeRole(q, actor, u, role) ==
    /\ member[actor].status = "ACTIVE"
    /\ member[actor].role \in Managers
    /\ canAssignRole(member[actor].role, role)
    /\ Begin(q, "changeRole", u, role, member[actor].role)

BeginRemove(q, actor, u) ==
    /\ member[actor].status = "ACTIVE"
    /\ member[actor].role \in Managers
    /\ Begin(q, "remove", u, "KEEP", member[actor].role)

BeginReactivate(q, actor, u, role) ==
    /\ member[actor].status = "ACTIVE"
    /\ member[actor].role \in Managers
    /\ Begin(q, "reactivate", u, role, member[actor].role)

\* An invitation accepted, a join code redeemed or a join request approved: the
\* role was fixed when it was issued.
BeginJoin(q, u, role) == Begin(q, "join", u, role, "MEMBER")

\* The retention sweep executes u's due account-deletion request.
BeginDelete(q, u) == Begin(q, "delete", u, "KEEP", "MEMBER")

Reject(q) ==
    /\ req' = [req EXCEPT ![q] = Idle]
    /\ UNCHANGED member

\* The transaction's first read.
Found(q, role) ==
    /\ req' = [req EXCEPT ![q].phase = "found",
                          ![q].role = role,
                          ![q].existing = member[req[q].target],
                          ![q].owners = Owners]
    /\ UNCHANGED member

\* Mutant: only the new role is compared with the actor's.
FindChangeRoleAnyTarget(q) ==
    LET existing == member[req[q].target] IN
    /\ req[q].phase = "begun" /\ req[q].kind = "changeRole"
    /\ \/ existing.status = "ACTIVE" /\ Found(q, req[q].role)
       \/ existing.status # "ACTIVE" /\ Reject(q)

FindChangeRole(q) ==
    LET existing == member[req[q].target]
        allowed  == existing.status = "ACTIVE" /\ canAssignRole(req[q].actorRole, existing.role)
    IN
    /\ req[q].phase = "begun" /\ req[q].kind = "changeRole"
    /\ \/ allowed /\ Found(q, req[q].role)
       \/ ~allowed /\ Reject(q)

FindRemove(q) ==
    LET existing == member[req[q].target]
        allowed  == /\ existing.status = "ACTIVE"
                    /\ existing.role = "OWNER" => canAssignRole(req[q].actorRole, "OWNER")
    IN
    /\ req[q].phase = "begun" /\ req[q].kind = "remove"
    /\ \/ allowed /\ Found(q, req[q].role)
       \/ ~allowed /\ Reject(q)

FindReactivate(q) ==
    LET existing  == member[req[q].target]
        effective == IF req[q].role = "KEEP" THEN existing.role ELSE req[q].role
        allowed   == existing.status = "INACTIVE" /\ canAssignRole(req[q].actorRole, effective)
    IN
    /\ req[q].phase = "begun" /\ req[q].kind = "reactivate"
    /\ \/ allowed /\ Found(q, effective)
       \/ ~allowed /\ Reject(q)

FindJoin(q) ==
    LET existing == member[req[q].target] IN
    /\ req[q].phase = "begun" /\ req[q].kind = "join"
    /\ \/ existing.status # "ACTIVE" /\ Found(q, req[q].role)
       \/ existing.status = "ACTIVE" /\ Reject(q)

\* The sweep's serializable snapshot: a sole owner's deletion is blocked.
FindDelete(q) ==
    LET blocked == req[q].target \in Owners /\ Cardinality(Owners) <= 1 IN
    /\ req[q].phase = "begun" /\ req[q].kind = "delete"
    /\ \/ ~blocked /\ Found(q, req[q].role)
       \/ blocked /\ Reject(q)

-----------------------------------------------------------------------------
(* The guarded UPDATE of changeRole and remove.                            *)

\* Mutant: the guard counts the owner it is about to lose.
KeepsAnOwnerOffByOne(row, newRole, owners) ==
    row.role # "OWNER" \/ row.role = newRole \/ Cardinality(owners) >= 1

KeepsAnOwner(row, newRole, owners) ==
    row.role # "OWNER" \/ row.role = newRole \/ Cardinality(owners) > 1

Matches(q, row, owners) == row.status = "ACTIVE" /\ KeepsAnOwner(row, req[q].role, owners)

\* The statement starts.  Without a matching row it ends, and the request is
\* refused; otherwise it waits for the row lock.
Snapshot(q) ==
    /\ req[q].phase = "found" /\ req[q].kind \in {"changeRole", "remove"}
    /\ \/ /\ Matches(q, member[req[q].target], Owners)
          /\ req' = [req EXCEPT ![q].phase = "locking", ![q].owners = Owners]
          /\ UNCHANGED member
       \/ /\ ~Matches(q, member[req[q].target], Owners)
          /\ Reject(q)

Commit(q, row) ==
    /\ member' = [member EXCEPT ![req[q].target] = row]
    /\ req' = [req EXCEPT ![q] = Idle]

\* Mutant: the UPDATE looks at the row its snapshot shows, not at the locked one.
UpdateRoleUnchecked(q) ==
    /\ req[q].phase = "locking" /\ req[q].kind = "changeRole"
    /\ Commit(q, [member[req[q].target] EXCEPT !.role = req[q].role])

\* The lock is granted and the WHERE clause re-evaluated on the locked row.
UpdateRole(q) ==
    LET row == member[req[q].target] IN
    /\ req[q].phase = "locking" /\ req[q].kind = "changeRole"
    /\ \/ /\ Matches(q, row, req[q].owners)
          /\ Commit(q, [row EXCEPT !.role = req[q].role])
       \/ ~Matches(q, row, req[q].owners) /\ Reject(q)

Remove(q) ==
    LET row == member[req[q].target] IN
    /\ req[q].phase = "locking" /\ req[q].kind = "remove"
    /\ \/ /\ Matches(q, row, req[q].owners)
          /\ Commit(q, [row EXCEPT !.status = "INACTIVE"])
       \/ ~Matches(q, row, req[q].owners) /\ Reject(q)

\* reactivate: an UPDATE of the row by its key, whatever it has become.
Reactivate(q) ==
    /\ req[q].phase = "found"
    /\ \/ req[q].kind = "reactivate"
       \/ req[q].kind = "join" /\ req[q].existing.status = "INACTIVE"
    /\ Commit(q, Active(req[q].role))

\* create: the unique index refuses a second row for the user.
Create(q) ==
    LET row == member[req[q].target] IN
    /\ req[q].phase = "found" /\ req[q].kind = "join" /\ req[q].existing.status = "NONE"
    /\ \/ row.status = "NONE" /\ Commit(q, Active(req[q].role))
       \/ row.status # "NONE" /\ Reject(q)

-----------------------------------------------------------------------------
(* Account deletion: a serializable transaction.                           *)

\* Of two deletions that read the same owners and remove one each, PostgreSQL
\* aborts one.
Skewed(q) ==
    {p \in Requests \ {q} :
        /\ req[p].kind = "delete" /\ req[p].phase = "found"
        /\ req[q].target \in req[p].owners}

\* A row changed since the snapshot is a serialization failure; otherwise every
\* active membership ends.  Concurrent READ COMMITTED transactions are no conflict.
Delete(q) ==
    LET row == member[req[q].target] IN
    /\ req[q].phase = "found" /\ req[q].kind = "delete"
    /\ \/ row # req[q].existing /\ Reject(q)
       \/ /\ row = req[q].existing
          /\ member' = [member EXCEPT ![req[q].target].status =
                          IF row.status = "ACTIVE" THEN "INACTIVE" ELSE row.status]
          /\ req' = [p \in Requests |-> IF p = q \/ p \in Skewed(q) THEN Idle ELSE req[p]]

\* A transaction fails and is rolled back.
Fail(q) == req[q].phase # "idle" /\ Reject(q)

-----------------------------------------------------------------------------
Next ==
    \E q \in Requests :
        \/ \E u \in Users, actor \in Users :
              \/ \E role \in Roles : BeginChangeRole(q, actor, u, role)
              \/ BeginRemove(q, actor, u)
              \/ \E role \in Roles \cup {"KEEP"} : BeginReactivate(q, actor, u, role)
        \/ \E u \in Users :
              \/ \E role \in Roles : BeginJoin(q, u, role)
              \/ BeginDelete(q, u)
        \/ FindChangeRole(q) \/ FindRemove(q) \/ FindReactivate(q) \/ FindJoin(q)
        \/ FindDelete(q)
        \/ Snapshot(q) \/ UpdateRole(q) \/ Remove(q) \/ Reactivate(q) \/ Create(q)
        \/ Delete(q) \/ Fail(q)

Spec == Init /\ [][Next]_vars

-----------------------------------------------------------------------------
(* Properties.                                                             *)

\* The step that commits request q.
Commits(q) ==
    /\ req[q] # Idle /\ req'[q] = Idle
    /\ member'[req[q].target] # member[req[q].target]

\* The organization loses its last owner only to a race: the request that takes
\* the last owner away decided on owners that have changed since.
OwnerlessOnlyByOverlap ==
    [][(Owners # {} /\ Owners' = {}) => \E q \in Requests : Commits(q) /\ req[q].owners # Owners]_vars

\* Nobody changes or removes a member who outranks them, unless the member was
\* promoted after the request had looked at the row.
BettersOnlyByOverlap ==
    [][\A q \in Requests :
          (/\ Commits(q) /\ req[q].kind \in {"changeRole", "remove"}
           /\ ~canAssignRole(req[q].actorRole, member[req[q].target].role))
              => member[req[q].target] # req[q].existing]_vars

\* A role change that was checked before a removal does not touch the removed
\* row: it changes only when the user comes back, and then becomes active.
RemovedRowsStay ==
    [][\A u \in Users :
          (member[u].status = "INACTIVE" /\ member'[u] # member[u]) => member'[u].status = "ACTIVE"]_vars

\* "An active organization must always have at least one active owner ... the
\* refusal is race-safe under concurrent requests" (memberships.service.ts).
AlwaysAnOwner == Owners # {}

=============================================================================

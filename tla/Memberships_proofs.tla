------------------------ MODULE Memberships_proofs ------------------------
(***************************************************************************)
(* Proofs about Memberships, for any users, requests and kinds: the types, *)
(* and that an organization loses its last owner, and a member is changed  *)
(* by someone below, only through requests that decided on rows that have  *)
(* changed since.                                                          *)
(***************************************************************************)
EXTENDS Memberships, FiniteSetTheorems, TLAPS

\* A set with more than one member has one besides any given member.
LEMMA AnotherMember ==
    ASSUME NEW S, IsFiniteSet(S), NEW u, Cardinality(S) > 1
    PROVE  \E v \in S : v # u
<1>1. CASE u \in S
  <2>1. S # {u} BY FS_Singleton
  <2> QED BY <2>1, <1>1
<1>2. CASE u \notin S
  <2>1. S # {} BY FS_EmptySet
  <2> QED BY <2>1, <1>2
<1> QED BY <1>1, <1>2

-----------------------------------------------------------------------------
(* Types.                                                                  *)

LEMMA RowTypes ==
    /\ Absent \in Row
    /\ \A role \in Roles : Active(role) \in Row
    /\ \A row \in Row, role \in Roles : [row EXCEPT !.role = role] \in Row
    /\ \A row \in Row, s \in {"ACTIVE", "INACTIVE", "NONE"} : [row EXCEPT !.status = s] \in Row
    /\ Idle \in Request
BY DEF Absent, Active, Row, Roles, Idle, Request, AllKinds

LEMMA FoundTypes ==
    ASSUME TypeOK, NEW q \in Requests, NEW role \in Roles \cup {"KEEP"}, req[q].target \in Users,
           Found(q, role)
    PROVE  TypeOK'
<1>1. Owners \in SUBSET Users BY DEF Owners, OwnersIn
<1>2. member[req[q].target] \in Row BY DEF TypeOK
<1>3. [req[q] EXCEPT !.phase = "found", !.role = role, !.existing = member[req[q].target],
                     !.owners = Owners] \in Request
  <2>1. req[q] \in Request BY DEF TypeOK
  <2> QED BY <2>1, <1>1, <1>2 DEF Request
<1>4. req' = [req EXCEPT ![q] =
                [req[q] EXCEPT !.phase = "found", !.role = role,
                               !.existing = member[req[q].target], !.owners = Owners]]
  BY DEF TypeOK, Found, Request
<1> QED BY <1>3, <1>4 DEF TypeOK, Found

LEMMA RejectTypes ==
    ASSUME TypeOK, NEW q \in Requests, Reject(q)
    PROVE  TypeOK'
BY RowTypes DEF TypeOK, Reject

LEMMA CommitTypes ==
    ASSUME TypeOK, NEW q \in Requests, NEW row \in Row, Commit(q, row)
    PROVE  TypeOK'
BY RowTypes DEF TypeOK, Commit

LEMMA BeginTypes ==
    ASSUME TypeOK, NEW q \in Requests, NEW kind \in AllKinds, NEW u \in Users,
           NEW role \in Roles \cup {"KEEP"}, NEW actorRole \in Roles,
           Begin(q, kind, u, role, actorRole)
    PROVE  TypeOK'
<1>1. [Idle EXCEPT !.kind = kind, !.phase = "begun", !.target = u, !.role = role,
                   !.actorRole = actorRole] \in Request
  BY RowTypes DEF Idle, Request
<1> QED BY <1>1 DEF TypeOK, Begin

\* A request in progress has a target among the users and a kind.
Targeted == \A q \in Requests :
    req[q].phase # "idle" => req[q].target \in Users /\ req[q].kind \in AllKinds

\* The lookup has settled the role of everyone who comes back; a removal has none.
RoleSettled == \A q \in Requests :
    /\ req[q].kind \in {"join", "changeRole"} => req[q].role \in Roles
    /\ (req[q].kind = "reactivate" /\ req[q].phase = "found") => req[q].role \in Roles
    /\ req[q].kind = "remove" => req[q].role = "KEEP"

Typed == TypeOK /\ Targeted /\ RoleSettled

LEMMA InitTyped == Init => Typed
<1> SUFFICES ASSUME Init PROVE Typed OBVIOUS
<1>1. TypeOK
  <2>1. PICK u \in Users : member = [v \in Users |-> IF v = u THEN Active("OWNER") ELSE Absent]
    BY DEF Init
  <2>2. Active("OWNER") \in Row /\ Absent \in Row BY RowTypes DEF Roles
  <2> QED BY <2>1, <2>2, RowTypes DEF Init, TypeOK
<1>2. Targeted /\ RoleSettled BY DEF Init, Targeted, RoleSettled, Idle
<1> QED BY <1>1, <1>2 DEF Typed

LEMMA StepTyped == Typed /\ [Next]_vars => Typed'
<1> SUFFICES ASSUME Typed, [Next]_vars PROVE Typed' OBVIOUS
<1> USE DEF Typed
<1>1. CASE UNCHANGED vars
  BY <1>1 DEF vars, TypeOK, Targeted, RoleSettled
<1>2. ASSUME NEW q \in Requests, Reject(q) PROVE Typed'
  <2>1. TypeOK' BY <1>2, RejectTypes
  <2>2. Targeted' /\ RoleSettled' BY <1>2 DEF Reject, Targeted, RoleSettled, TypeOK, Idle
  <2> QED BY <2>1, <2>2
<1>3. ASSUME NEW q \in Requests, NEW row \in Row, Commit(q, row) PROVE Typed'
  <2>1. TypeOK' BY <1>3, CommitTypes
  <2>2. Targeted' /\ RoleSettled' BY <1>3 DEF Commit, Targeted, RoleSettled, TypeOK, Idle
  <2> QED BY <2>1, <2>2
<1>4. ASSUME NEW q \in Requests, NEW kind \in AllKinds, NEW u \in Users,
             NEW role \in Roles \cup {"KEEP"}, NEW actorRole \in Roles,
             Begin(q, kind, u, role, actorRole),
             kind \in {"join", "changeRole"} => role \in Roles,
             kind = "remove" => role = "KEEP"
      PROVE  Typed'
  <2>1. TypeOK' BY <1>4, BeginTypes
  <2>2. req'[q] = [Idle EXCEPT !.kind = kind, !.phase = "begun", !.target = u, !.role = role,
                               !.actorRole = actorRole]
    BY <1>4 DEF Begin, TypeOK
  <2>3. \A p \in Requests : p # q => req'[p] = req[p] BY <1>4 DEF Begin, TypeOK
  <2>4. req'[q].target = u /\ req'[q].kind = kind /\ req'[q].role = role /\ req'[q].phase = "begun"
    BY <2>2 DEF Idle
  <2>5. Targeted' BY <1>4, <2>4, <2>3 DEF Targeted
  <2>6. RoleSettled' BY <1>4, <2>4, <2>3 DEF RoleSettled
  <2> QED BY <2>1, <2>5, <2>6
<1>5. ASSUME NEW q \in Requests, NEW role \in Roles \cup {"KEEP"}, Found(q, role),
             req[q].phase # "idle",
             req[q].kind \in {"join", "changeRole", "reactivate"} => role \in Roles,
             req[q].kind = "remove" => role = "KEEP"
      PROVE  Typed'
  <2>1. req[q].target \in Users /\ req[q] \in Request BY <1>5 DEF Targeted, TypeOK
  <2>2. TypeOK' BY <1>5, <2>1, FoundTypes
  <2>3. /\ req'[q].kind = req[q].kind /\ req'[q].target = req[q].target /\ req'[q].role = role
        /\ \A p \in Requests : p # q => req'[p] = req[p]
    BY <1>5, <2>1 DEF Found, TypeOK, Request
  <2>4. Targeted' BY <1>5, <2>3, <2>1 DEF Targeted
  <2>5. RoleSettled' BY <1>5, <2>3 DEF RoleSettled
  <2> QED BY <2>2, <2>4, <2>5
<1>6. ASSUME NEW q \in Requests, NEW actor \in Users, NEW u \in Users, NEW role \in Roles,
             BeginChangeRole(q, actor, u, role)
      PROVE  Typed'
  <2>1. member[actor].role \in Roles BY DEF TypeOK, Row
  <2> QED BY <1>6, <2>1, <1>4 DEF BeginChangeRole, AllKinds
<1>7. ASSUME NEW q \in Requests, NEW actor \in Users, NEW u \in Users, BeginRemove(q, actor, u)
      PROVE  Typed'
  <2>1. member[actor].role \in Roles BY DEF TypeOK, Row
  <2> QED BY <1>7, <2>1, <1>4 DEF BeginRemove, AllKinds
<1>8. ASSUME NEW q \in Requests, NEW actor \in Users, NEW u \in Users,
             NEW role \in Roles \cup {"KEEP"}, BeginReactivate(q, actor, u, role)
      PROVE  Typed'
  <2>1. member[actor].role \in Roles BY DEF TypeOK, Row
  <2> QED BY <1>8, <2>1, <1>4 DEF BeginReactivate, AllKinds
<1>9. ASSUME NEW q \in Requests, NEW u \in Users, NEW role \in Roles, BeginJoin(q, u, role)
      PROVE  Typed'
  BY <1>9, <1>4 DEF BeginJoin, AllKinds, Roles
<1>10. ASSUME NEW q \in Requests, NEW u \in Users, BeginDelete(q, u) PROVE Typed'
  BY <1>10, <1>4 DEF BeginDelete, AllKinds, Roles
<1>11. ASSUME NEW q \in Requests,
              FindChangeRole(q) \/ FindRemove(q) \/ FindJoin(q) \/ FindDelete(q)
       PROVE  Typed'
  <2>1. req[q].role \in Roles \cup {"KEEP"} BY DEF TypeOK, Request
  <2> QED BY <1>11, <2>1, <1>2, <1>5
          DEF FindChangeRole, FindRemove, FindJoin, FindDelete, RoleSettled
<1>12. ASSUME NEW q \in Requests, FindReactivate(q) PROVE Typed'
  <2>1. req[q].target \in Users BY <1>12 DEF FindReactivate, Targeted
  <2>2. member[req[q].target].role \in Roles BY <2>1 DEF TypeOK, Row
  <2>3. (IF req[q].role = "KEEP" THEN member[req[q].target].role ELSE req[q].role) \in Roles
    BY <2>2 DEF TypeOK, Request
  <2> QED BY <1>12, <2>3, <1>2, <1>5 DEF FindReactivate
<1>13. ASSUME NEW q \in Requests, Snapshot(q) PROVE Typed'
  <2>1. CASE Reject(q) BY <2>1, <1>2
  <2>2. CASE req' = [req EXCEPT ![q].phase = "locking", ![q].owners = Owners] /\ UNCHANGED member
    <3>1. Owners \in SUBSET Users BY DEF Owners, OwnersIn
    <3>2. TypeOK'
      <4>1. [req[q] EXCEPT !.phase = "locking", !.owners = Owners] \in Request
        <5>1. req[q] \in Request BY DEF TypeOK
        <5> QED BY <5>1, <3>1 DEF Request
      <4>2. req' = [req EXCEPT ![q] = [req[q] EXCEPT !.phase = "locking", !.owners = Owners]]
        BY <2>2 DEF TypeOK, Request
      <4> QED BY <4>1, <4>2, <2>2 DEF TypeOK
    <3>3. Targeted' /\ RoleSettled'
      BY <1>13, <2>2 DEF Snapshot, Targeted, RoleSettled, TypeOK, Request
    <3> QED BY <3>2, <3>3
  <2> QED BY <1>13, <2>1, <2>2 DEF Snapshot
<1>14. ASSUME NEW q \in Requests, UpdateRole(q) \/ Remove(q) \/ Reactivate(q) \/ Create(q)
       PROVE  Typed'
  <2>1. req[q].target \in Users BY <1>14 DEF UpdateRole, Remove, Reactivate, Create, Targeted
  <2>2. member[req[q].target] \in Row BY <2>1 DEF TypeOK
  <2>3. CASE UpdateRole(q)
    <3>1. req[q].role \in Roles BY <2>3 DEF UpdateRole, RoleSettled
    <3>2. [member[req[q].target] EXCEPT !.role = req[q].role] \in Row BY <2>2, <3>1, RowTypes
    <3> QED BY <2>3, <3>2, <1>2, <1>3 DEF UpdateRole
  <2>4. CASE Remove(q)
    <3>1. [member[req[q].target] EXCEPT !.status = "INACTIVE"] \in Row BY <2>2, RowTypes
    <3> QED BY <2>4, <3>1, <1>2, <1>3 DEF Remove
  <2>5. CASE Reactivate(q) \/ Create(q)
    <3>1. req[q].role \in Roles BY <2>5 DEF Reactivate, Create, RoleSettled
    <3>2. Active(req[q].role) \in Row BY <3>1, RowTypes
    <3> QED BY <2>5, <3>2, <1>2, <1>3 DEF Reactivate, Create
  <2> QED BY <1>14, <2>3, <2>4, <2>5
<1>15. ASSUME NEW q \in Requests, Delete(q) PROVE Typed'
  <2>1. CASE Reject(q) BY <2>1, <1>2
  <2>2. CASE /\ member' = [member EXCEPT ![req[q].target].status =
                   IF member[req[q].target].status = "ACTIVE" THEN "INACTIVE"
                   ELSE member[req[q].target].status]
             /\ req' = [p \in Requests |-> IF p = q \/ p \in Skewed(q) THEN Idle ELSE req[p]]
    <3>1. req[q].target \in Users BY <1>15 DEF Delete, Targeted
    <3>2. member[req[q].target] \in Row BY <3>1 DEF TypeOK
    <3>3. member' \in [Users -> Row] BY <2>2, <3>2 DEF TypeOK, Row
    <3>4. req' \in [Requests -> Request] BY <2>2, RowTypes DEF TypeOK
    <3>5. Targeted' /\ RoleSettled' BY <2>2 DEF Targeted, RoleSettled, Idle
    <3> QED BY <3>3, <3>4, <3>5 DEF TypeOK
  <2> QED BY <1>15, <2>1, <2>2 DEF Delete
<1>16. ASSUME NEW q \in Requests, Fail(q) PROVE Typed' BY <1>16, <1>2 DEF Fail
<1> QED BY <1>1, <1>6, <1>7, <1>8, <1>9, <1>10, <1>11, <1>12, <1>13, <1>14, <1>15, <1>16 DEF Next

\* The rows and the requests keep their types.
THEOREM TypeCorrect == Spec => []TypeOK
<1>1. Typed => TypeOK BY DEF Typed
<1> QED BY InitTyped, StepTyped, <1>1, PTL DEF Spec

-----------------------------------------------------------------------------
(* The last owner.                                                         *)

\* What a request that has looked at the table goes by.  Someone about to come
\* back was no owner then, and the owner a sweep deletes was not alone.
Looked ==
    \A q \in Requests : req[q].phase = "found" =>
        /\ req[q].kind \in {"reactivate", "join"} => req[q].target \notin req[q].owners
        /\ (req[q].kind = "delete" /\ req[q].target \in req[q].owners)
               => Cardinality(req[q].owners) > 1

LEMMA OwnersFinite == ASSUME MembershipsAssumption PROVE IsFiniteSet(Owners)
BY FS_Subset DEF MembershipsAssumption, Owners, OwnersIn

\* A found request looked at the table of this step; every other request that has
\* looked is the same as before.
LEMMA LookedStep ==
    ASSUME MembershipsAssumption, Typed, Looked, [Next]_vars
    PROVE  Looked'
<1> USE DEF Typed
<1>1. CASE UNCHANGED vars
  BY <1>1 DEF vars, Looked
<1>2. ASSUME NEW q \in Requests, Reject(q) \/ \E row : Commit(q, row) PROVE Looked'
  BY <1>2 DEF Reject, Commit, Looked, TypeOK, Idle
<1>3. ASSUME NEW q \in Requests, NEW kind, NEW u, NEW role, NEW actorRole,
             Begin(q, kind, u, role, actorRole)
      PROVE  Looked'
  <2>1. req'[q].phase = "begun" BY <1>3 DEF Begin, TypeOK, Idle
  <2>2. \A p \in Requests : p # q => req'[p] = req[p] BY <1>3 DEF Begin, TypeOK
  <2> QED BY <2>1, <2>2 DEF Looked
<1>4. ASSUME NEW q \in Requests, NEW role, Found(q, role),
             req[q].kind \in {"reactivate", "join"}
                 => member[req[q].target].status # "ACTIVE",
             (req[q].kind = "delete" /\ req[q].target \in Owners) => Cardinality(Owners) > 1
      PROVE  Looked'
  <2>1. /\ req'[q].kind = req[q].kind /\ req'[q].target = req[q].target
        /\ req'[q].owners = Owners
        /\ \A p \in Requests : p # q => req'[p] = req[p]
    <3>1. req[q] \in Request BY DEF TypeOK
    <3> QED BY <1>4, <3>1 DEF Found, TypeOK, Request
  <2>2. req[q].kind \in {"reactivate", "join"} => req[q].target \notin Owners
    BY <1>4 DEF Owners, OwnersIn, Active
  <2> QED BY <2>1, <2>2, <1>4 DEF Looked
<1>5. ASSUME NEW q \in Requests,
             FindChangeRole(q) \/ FindRemove(q) \/ FindReactivate(q) \/ FindJoin(q)
      PROVE  Looked'
  BY <1>5, <1>2, <1>4 DEF FindChangeRole, FindRemove, FindReactivate, FindJoin
<1>6. ASSUME NEW q \in Requests, FindDelete(q) PROVE Looked'
  <2>1. Cardinality(Owners) \in Nat BY OwnersFinite, FS_CardinalityType
  <2>2. Cardinality(Owners) <= 1 \/ Cardinality(Owners) > 1 BY <2>1
  <2> QED BY <1>6, <1>2, <1>4, <2>2 DEF FindDelete
<1>7. ASSUME NEW q \in Requests, Snapshot(q) PROVE Looked'
  <2>1. CASE Reject(q) BY <2>1, <1>2
  <2>2. CASE req' = [req EXCEPT ![q].phase = "locking", ![q].owners = Owners]
    <3>1. req'[q].phase = "locking" /\ \A p \in Requests : p # q => req'[p] = req[p]
      <4>1. req[q] \in Request BY DEF TypeOK
      <4> QED BY <2>2, <4>1 DEF TypeOK, Request
    <3> QED BY <3>1 DEF Looked
  <2> QED BY <1>7, <2>1, <2>2 DEF Snapshot
<1>8. ASSUME NEW q \in Requests, UpdateRole(q) \/ Remove(q) \/ Reactivate(q) \/ Create(q)
      PROVE  Looked'
  BY <1>8, <1>2 DEF UpdateRole, Remove, Reactivate, Create
<1>9. ASSUME NEW q \in Requests, Delete(q) PROVE Looked'
  BY <1>9, <1>2 DEF Delete, Looked, Idle
<1>10. ASSUME NEW q \in Requests, Fail(q) PROVE Looked' BY <1>10, <1>2 DEF Fail
<1> QED
  BY <1>1, <1>3, <1>5, <1>6, <1>7, <1>8, <1>9, <1>10
     DEF Next, BeginChangeRole, BeginRemove, BeginReactivate, BeginJoin, BeginDelete

\* If the row that loses its owner is the only one that changes, and the owners
\* decided on are the present ones and more than one, an owner remains.
LEMMA AnOwnerRemains ==
    ASSUME MembershipsAssumption, TypeOK, NEW u, NEW row,
           member' = [member EXCEPT ![u] = row],
           Cardinality(Owners) > 1
    PROVE  Owners' # {}
<1>1. PICK v \in Owners : v # u BY OwnersFinite, AnotherMember
<1>2. v \in Users /\ member'[v] = member[v] BY <1>1 DEF Owners, OwnersIn, TypeOK
<1>3. v \in Owners' BY <1>1, <1>2 DEF Owners, OwnersIn
<1> QED BY <1>3

\* Losing the last owner means that a row stops being an owner's.
LEMMA OwnerIsLost ==
    ASSUME TypeOK, NEW u \in Users, NEW row, member' = [member EXCEPT ![u] = row],
           Owners # {}, Owners' = {}
    PROVE  member[u] = Active("OWNER") /\ member'[u] # member[u] /\ u \in Owners
<1>1. PICK v \in Users : member[v] = Active("OWNER") BY DEF Owners, OwnersIn
<1>2. member'[v] # Active("OWNER") BY <1>1 DEF Owners, OwnersIn
<1>3. v = u BY <1>1, <1>2 DEF TypeOK
<1> QED BY <1>1, <1>2, <1>3 DEF Owners, OwnersIn

\* Five actions write a membership row.
LEMMA Writers ==
    ASSUME [Next]_vars, member' # member
    PROVE  \E q \in Requests :
              UpdateRole(q) \/ Remove(q) \/ Reactivate(q) \/ Create(q) \/ Delete(q)
<1>1. Next BY DEF vars
<1>2. \A q \in Requests : \A kind, u, role, actorRole : ~Begin(q, kind, u, role, actorRole)
  BY DEF Begin
<1>3. \A q \in Requests : \A u, role, actor :
        /\ ~BeginChangeRole(q, actor, u, role) /\ ~BeginRemove(q, actor, u)
        /\ ~BeginReactivate(q, actor, u, role) /\ ~BeginJoin(q, u, role) /\ ~BeginDelete(q, u)
  BY <1>2 DEF BeginChangeRole, BeginRemove, BeginReactivate, BeginJoin, BeginDelete
<1>4. \A q \in Requests : ~Reject(q) /\ (\A role : ~Found(q, role))
  BY DEF Reject, Found
<1>5. \A q \in Requests :
        /\ ~FindChangeRole(q) /\ ~FindRemove(q) /\ ~FindReactivate(q) /\ ~FindJoin(q)
        /\ ~FindDelete(q) /\ ~Fail(q)
  BY <1>4 DEF FindChangeRole, FindRemove, FindReactivate, FindJoin, FindDelete, Fail
<1>6. \A q \in Requests : ~Snapshot(q) BY <1>4 DEF Snapshot
<1> QED BY <1>1, <1>3, <1>5, <1>6 DEF Next

LEMMA LastOwnerStep ==
    ASSUME MembershipsAssumption, Typed, Looked, Next, Owners # {}, Owners' = {}
    PROVE  \E q \in Requests : Commits(q) /\ req[q].owners # Owners
<1> USE DEF Typed
<1>1. UNCHANGED member => FALSE BY DEF Owners, OwnersIn
<1>2. PICK q \in Requests :
        UpdateRole(q) \/ Remove(q) \/ Reactivate(q) \/ Create(q) \/ Delete(q)
  BY <1>1, Writers
<1>3. req[q].target \in Users /\ req[q].phase # "idle"
  BY <1>2 DEF UpdateRole, Remove, Reactivate, Create, Delete, Targeted
<1>4. PICK row : member' = [member EXCEPT ![req[q].target] = row]
  BY <1>1, <1>2 DEF UpdateRole, Remove, Reactivate, Create, Delete, Commit, Reject
<1>5. /\ member[req[q].target] = Active("OWNER") /\ req[q].target \in Owners
      /\ member'[req[q].target] # member[req[q].target]
  BY <1>3, <1>4, OwnerIsLost
<1>6. req'[q] = Idle /\ req[q] # Idle
  BY <1>1, <1>2, <1>3 DEF UpdateRole, Remove, Reactivate, Create, Delete, Commit, Reject, TypeOK,
     Idle
<1>7. Commits(q) BY <1>5, <1>6 DEF Commits
<1>8. req[q].owners # Owners
  <2> SUFFICES ASSUME req[q].owners = Owners PROVE FALSE OBVIOUS
  <2>1. ~(Cardinality(Owners) > 1) BY <1>4, AnOwnerRemains
  <2>2. member[req[q].target].role = "OWNER" /\ member[req[q].target].status = "ACTIVE"
    BY <1>5 DEF Active
  <2>3. CASE UpdateRole(q)
    <3>1. req[q].role = "OWNER"
      BY <2>3, <2>1, <2>2, <1>1 DEF UpdateRole, Matches, KeepsAnOwner, Reject
    <3>2. member' = [member EXCEPT ![req[q].target] =
                       [member[req[q].target] EXCEPT !.role = "OWNER"]]
      BY <2>3, <3>1, <1>1 DEF UpdateRole, Commit, Reject
    <3>3. member'[req[q].target] = member[req[q].target]
      BY <3>2, <1>3, <1>5 DEF TypeOK, Active
    <3> QED BY <3>3, <1>5
  <2>4. CASE Remove(q)
    <3>1. req[q].role = "OWNER"
      BY <2>4, <2>1, <2>2, <1>1 DEF Remove, Matches, KeepsAnOwner, Reject
    <3>2. req[q].role = "KEEP" BY <2>4 DEF Remove, RoleSettled
    <3> QED BY <3>1, <3>2
  <2>5. CASE Reactivate(q)
    BY <2>5, <1>5 DEF Reactivate, Looked
  <2>6. CASE Create(q)
    BY <2>6, <1>5 DEF Create, Looked
  <2>7. CASE Delete(q)
    BY <2>7, <1>5, <2>1 DEF Delete, Looked
  <2> QED BY <1>2, <2>3, <2>4, <2>5, <2>6, <2>7
<1> QED BY <1>7, <1>8

\* An organization loses its last owner only to a request that decided on owners
\* that have changed since.
THEOREM OwnersOverlap == Spec => OwnerlessOnlyByOverlap
<1>1. Init => Looked BY DEF Init, Looked, Idle
<1>2. Typed /\ Looked /\ [Next]_vars
        => [(Owners # {} /\ Owners' = {})
              => \E q \in Requests : Commits(q) /\ req[q].owners # Owners]_vars
  BY MembershipsAssumption, LastOwnerStep
<1>3. Typed /\ Looked /\ [Next]_vars => Looked' BY MembershipsAssumption, LookedStep
<1> QED
  BY InitTyped, StepTyped, <1>1, <1>2, <1>3, PTL DEF Spec, OwnerlessOnlyByOverlap

\* A removed row changes only when its user becomes an active member again.
THEOREM RemovedStays == Spec => RemovedRowsStay
<1>1. ASSUME Typed, [Next]_vars, NEW u \in Users, member[u].status = "INACTIVE",
             member'[u] # member[u]
      PROVE  member'[u].status = "ACTIVE"
  <2> USE <1>1 DEF Typed
  <2>1. PICK q \in Requests :
          UpdateRole(q) \/ Remove(q) \/ Reactivate(q) \/ Create(q) \/ Delete(q)
    BY Writers
  <2>2. req[q].target \in Users
    BY <2>1 DEF UpdateRole, Remove, Reactivate, Create, Delete, Targeted
  <2>3. u = req[q].target
    BY <2>1, <2>2 DEF UpdateRole, Remove, Reactivate, Create, Delete, Commit, Reject, TypeOK
  <2>4. CASE UpdateRole(q) \/ Remove(q)
    BY <2>3, <2>4 DEF UpdateRole, Remove, Matches, Reject
  <2>5. CASE Reactivate(q)
    BY <2>3, <2>5 DEF Reactivate, Commit, Active, TypeOK
  <2>6. CASE Create(q)
    BY <2>3, <2>6 DEF Create, Commit, Active, TypeOK, Reject
  <2>7. CASE Delete(q)
    <3>1. member[u] \in Row BY DEF TypeOK
    <3>2. member' = member \/ member' = [member EXCEPT ![u].status = "INACTIVE"]
      BY <2>3, <2>7 DEF Delete, Reject
    <3> QED BY <3>1, <3>2 DEF TypeOK, Row
  <2> QED BY <2>1, <2>4, <2>5, <2>6, <2>7
<1>2. Typed /\ [Next]_vars
        => [\A u \in Users : (member[u].status = "INACTIVE" /\ member'[u] # member[u])
                              => member'[u].status = "ACTIVE"]_vars
  BY <1>1
<1> QED BY InitTyped, StepTyped, <1>2, PTL DEF Spec, RemovedRowsStay

-----------------------------------------------------------------------------
(* Ranks.                                                                  *)

\* Who changes or removes a member is a manager, and not below the role that the
\* request has seen.
Ranked ==
    \A q \in Requests : req[q].kind \in {"changeRole", "remove"} =>
        /\ req[q].actorRole \in Managers
        /\ canAssignRole(req[q].actorRole, req[q].existing.role)

\* A manager ranks with or above everyone but an owner.
LEMMA ManagersRank ==
    ASSUME NEW actorRole \in Managers, NEW role \in Roles,
           role = "OWNER" => canAssignRole(actorRole, "OWNER")
    PROVE  canAssignRole(actorRole, role)
BY DEF canAssignRole, Managers, Rank, Roles

LEMMA RankedStep ==
    ASSUME Typed, Ranked, [Next]_vars
    PROVE  Ranked'
<1> USE DEF Typed
<1>1. CASE UNCHANGED vars
  BY <1>1 DEF vars, Ranked
<1>2. ASSUME NEW q \in Requests, Reject(q) \/ \E row : Commit(q, row) PROVE Ranked'
  <2>1. req'[q] = Idle /\ \A p \in Requests : p # q => req'[p] = req[p]
    BY <1>2 DEF Reject, Commit, TypeOK
  <2>2. req'[q].kind = "none" BY <2>1 DEF Idle
  <2> QED BY <2>1, <2>2 DEF Ranked
<1>3. ASSUME NEW q \in Requests, NEW kind, NEW u, NEW role, NEW actorRole,
             Begin(q, kind, u, role, actorRole),
             kind \in {"changeRole", "remove"} => actorRole \in Managers
      PROVE  Ranked'
  <2>1. /\ req'[q].kind = kind /\ req'[q].actorRole = actorRole
        /\ req'[q].existing = Absent
    BY <1>3 DEF Begin, TypeOK, Idle
  <2>2. \A p \in Requests : p # q => req'[p] = req[p] BY <1>3 DEF Begin, TypeOK
  <2>3. Absent.role = "MEMBER" /\ "MEMBER" \in Roles BY DEF Absent, Roles
  <2>4. kind \in {"changeRole", "remove"} => canAssignRole(actorRole, Absent.role)
    BY <1>3, <2>3, ManagersRank
  <2> QED BY <1>3, <2>1, <2>2, <2>4 DEF Ranked
<1>4. ASSUME NEW q \in Requests, NEW role, Found(q, role),
             req[q].kind \in {"changeRole", "remove"}
                 => canAssignRole(req[q].actorRole, member[req[q].target].role)
      PROVE  Ranked'
  <2>1. /\ req'[q].kind = req[q].kind /\ req'[q].actorRole = req[q].actorRole
        /\ req'[q].existing = member[req[q].target]
        /\ \A p \in Requests : p # q => req'[p] = req[p]
    <3>1. req[q] \in Request BY DEF TypeOK
    <3> QED BY <1>4, <3>1 DEF Found, TypeOK, Request
  <2> QED BY <1>4, <2>1 DEF Ranked
<1>5. ASSUME NEW q \in Requests, NEW actor \in Users, NEW u \in Users,
             \/ \E role \in Roles : BeginChangeRole(q, actor, u, role)
             \/ BeginRemove(q, actor, u)
             \/ \E role \in Roles \cup {"KEEP"} : BeginReactivate(q, actor, u, role)
      PROVE  Ranked'
  BY <1>5, <1>3 DEF BeginChangeRole, BeginRemove, BeginReactivate
<1>6. ASSUME NEW q \in Requests, NEW u \in Users,
             (\E role \in Roles : BeginJoin(q, u, role)) \/ BeginDelete(q, u)
      PROVE  Ranked'
  BY <1>6, <1>3 DEF BeginJoin, BeginDelete
<1>7. ASSUME NEW q \in Requests, FindChangeRole(q) PROVE Ranked'
  BY <1>7, <1>2, <1>4 DEF FindChangeRole
<1>8. ASSUME NEW q \in Requests, FindRemove(q) PROVE Ranked'
  <2>1. member[req[q].target].role \in Roles
    BY <1>8 DEF FindRemove, Targeted, TypeOK, Row
  <2>2. req[q].actorRole \in Managers BY <1>8 DEF FindRemove, Ranked
  <2> QED BY <1>8, <1>2, <1>4, <2>1, <2>2, ManagersRank DEF FindRemove
<1>9. ASSUME NEW q \in Requests, FindReactivate(q) \/ FindJoin(q) \/ FindDelete(q)
      PROVE  Ranked'
  BY <1>9, <1>2, <1>4 DEF FindReactivate, FindJoin, FindDelete
<1>10. ASSUME NEW q \in Requests, Snapshot(q) PROVE Ranked'
  <2>1. CASE Reject(q) BY <2>1, <1>2
  <2>2. CASE req' = [req EXCEPT ![q].phase = "locking", ![q].owners = Owners]
    <3>1. /\ req'[q].kind = req[q].kind /\ req'[q].actorRole = req[q].actorRole
          /\ req'[q].existing = req[q].existing
          /\ \A p \in Requests : p # q => req'[p] = req[p]
      <4>1. req[q] \in Request BY DEF TypeOK
      <4> QED BY <2>2, <4>1 DEF TypeOK, Request
    <3> QED BY <3>1 DEF Ranked
  <2> QED BY <1>10, <2>1, <2>2 DEF Snapshot
<1>11. ASSUME NEW q \in Requests, UpdateRole(q) \/ Remove(q) \/ Reactivate(q) \/ Create(q)
       PROVE  Ranked'
  BY <1>11, <1>2 DEF UpdateRole, Remove, Reactivate, Create
<1>12. ASSUME NEW q \in Requests, Delete(q) PROVE Ranked'
  <2>1. CASE Reject(q) BY <2>1, <1>2
  <2>2. CASE req' = [p \in Requests |-> IF p = q \/ p \in Skewed(q) THEN Idle ELSE req[p]]
    <3>1. \A p \in Requests : req'[p] \in {Idle, req[p]} BY <2>2
    <3>2. Idle.kind = "none" BY DEF Idle
    <3> QED BY <3>1, <3>2 DEF Ranked
  <2> QED BY <1>12, <2>1, <2>2 DEF Delete
<1>13. ASSUME NEW q \in Requests, Fail(q) PROVE Ranked' BY <1>13, <1>2 DEF Fail
<1> QED
  BY <1>1, <1>5, <1>6, <1>7, <1>8, <1>9, <1>10, <1>11, <1>12, <1>13 DEF Next

\* Nobody changes or removes a member who outranks them, unless the row is no longer
\* the one that the request was checked against.
THEOREM BettersOverlap == Spec => BettersOnlyByOverlap
<1>1. Init => Ranked BY DEF Init, Ranked, Idle
<1>2. Typed /\ Ranked /\ [Next]_vars => Ranked' BY RankedStep
<1>3. Typed /\ Ranked /\ [Next]_vars
        => [\A q \in Requests :
              (/\ Commits(q) /\ req[q].kind \in {"changeRole", "remove"}
               /\ ~canAssignRole(req[q].actorRole, member[req[q].target].role))
                  => member[req[q].target] # req[q].existing]_vars
  BY DEF Ranked
<1> QED BY InitTyped, StepTyped, <1>1, <1>2, <1>3, PTL DEF Spec, BettersOnlyByOverlap

=============================================================================

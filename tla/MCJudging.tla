------------------------------ MODULE MCJudging ------------------------------
(***************************************************************************)
(* Instances of Judging for TLC: requests are interchangeable, and so are  *)
(* the ids of assignments.                                                 *)
(***************************************************************************)
EXTENDS Judging, TLC

Symmetry == Permutations(Requests) \union Permutations(Cards)

\* One assignment is scored in every way; a second one, to which the first is
\* reassigned or which is created beside it, is followed until one is scored.
CardsBound ==
    \/ \E c \in Cards : \A d \in Cards \ {c} : assignment[d].status = "NONE"
    \/ /\ ~challenge.started /\ challenge.status = "open"
       /\ \A c \in Cards : card[c].scores = 0 /\ card[c].rubric <= 1

\* A submission is a draft and finalized, again and again, or a draft and disqualified.
LivesBound == \A s \in Submissions : Cardinality(life[s].been) <= 2

\* Only an activation looks at the status, and once judging has started it is refused.
StatusBound == challenge.started => challenge.status \in {"open", "results"}

Bound == CardsBound /\ LivesBound /\ StatusBound
=============================================================================

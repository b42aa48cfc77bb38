--------------------------- MODULE MCSubmissions ----------------------------
(***************************************************************************)
(* Instances of Submissions for TLC.                                       *)
(***************************************************************************)
EXTENDS Submissions, TLC

Symmetry == Permutations(Requests)
=============================================================================

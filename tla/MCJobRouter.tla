----------------------------- MODULE MCJobRouter -----------------------------
(* Instances of JobRouter for TLC. *)
EXTENDS JobRouter, TLC

=============================================================================

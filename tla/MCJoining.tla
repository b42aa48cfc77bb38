----------------------------- MODULE MCJoining -----------------------------
(* Joining on a small instance.                                            *)
EXTENDS Joining, TLC

Symmetry == Permutations(Requests) \cup Permutations(Asks)

=============================================================================

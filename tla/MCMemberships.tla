--------------------------- MODULE MCMemberships ---------------------------
(* Instances of Memberships for TLC; users and requests are interchangeable. *)
EXTENDS Memberships, TLC

Symmetry == Permutations(Users) \cup Permutations(Requests)
=============================================================================

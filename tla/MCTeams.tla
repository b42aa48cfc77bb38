------------------------------ MODULE MCTeams ------------------------------
(* Instances of Teams for TLC; users, teams, invitations and requests are      *)
(* interchangeable.                                                            *)
EXTENDS Teams, TLC

Symmetry == Permutations(Users) \cup Permutations(Teams)
              \cup Permutations(Invitations) \cup Permutations(Requests)
=============================================================================

------------------------------ MODULE MCOutbox ------------------------------
(***************************************************************************)
(* Instances of Outbox for TLC.  Dispatchers are interchangeable; worker   *)
(* slots are not, since some may run a build that is behind.               *)
(***************************************************************************)
EXTENDS Outbox, TLC

Symmetry == Permutations(Dispatchers)

\* One row at a time: two rows share nothing but the batch, whose failure is in MCDispatch.
OneRow == \A e, f \in Events : e # f => "absent" \in {state[e], state[f]}
=============================================================================

------------------------------- MODULE MCTddl -------------------------------
(* Instances of Tddl for TLC. *)
EXTENDS Tddl, TLC

CONSTANTS c1, c2

\* Two processes with different configured steps share the sequence.
StepMixed == c1 :> 2 @@ c2 :> 1
=============================================================================

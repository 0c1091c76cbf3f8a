------------------------------ MODULE MCOnboarding ------------------------------
(* The symmetry of the constants of Onboarding, for model checking. *)
EXTENDS Onboarding, TLC

Symmetry == Permutations(Handlers)
=============================================================================

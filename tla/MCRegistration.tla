---------------------------- MODULE MCRegistration ----------------------------
(* Instances of Registration for TLC. *)
EXTENDS Registration, TLC

CONSTANTS a, b
Two == {a, b}
Symmetry == Permutations(Two)
=============================================================================

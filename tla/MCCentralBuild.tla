--------------------------- MODULE MCCentralBuild ---------------------------
(***************************************************************************)
(* Instances of CentralBuild for TLC.  With as many run IDs as builds every*)
(* accepted dispatch can become a run; builds and run IDs are otherwise    *)
(* interchangeable.                                                        *)
(***************************************************************************)
EXTENDS CentralBuild, TLC

Symmetry == Permutations(Builds) \cup Permutations(RunIds)
=============================================================================

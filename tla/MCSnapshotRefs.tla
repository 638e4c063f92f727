--------------------------- MODULE MCSnapshotRefs ---------------------------
(* Instances of SnapshotRefs for TLC: who runs and which ref is which does not matter. *)
EXTENDS SnapshotRefs, TLC

Symmetry == Permutations(Builds) \cup Permutations(Ids) \cup Permutations(Sweeps)
=============================================================================

------------------------- MODULE MCSnapshotTransport -------------------------
(* Instances of SnapshotTransport for TLC, in units of 5 MiB. *)
EXTENDS SnapshotTransport, TLC

CONSTANTS a, b, c, r
Data(v, n) == [k \in 1..n |-> <<v, k>>]
File(mode, v, n) == [mode |-> mode, data |-> Data(v, n)]
\* Small, at the threshold, above it, two whole chunks, over the limit of a blob; equal contents.
Sizes == {File("link", 1, 1), File("exec", 1, 9), File("file", 1, 10), File("exec", 1, 10), File("file", 2, 16), File("file", 1, 25)}
Contents == {1, 2} \X (1..25)
Symmetry == Permutations({a, b, c})
=============================================================================

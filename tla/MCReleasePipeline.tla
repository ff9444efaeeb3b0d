------------------------- MODULE MCReleasePipeline -------------------------
(* Small instances of the release pipeline for TLC. *)
EXTENDS ReleaseRefinement, TLC

CONSTANTS n1, n2, r1, r2, a, b

\* Replicas, request slots and letters are interchangeable.
Symmetry == Permutations(Node) \cup Permutations(Request) \cup Permutations(Letter)
=============================================================================

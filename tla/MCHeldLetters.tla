---------------------------- MODULE MCHeldLetters ----------------------------
(* Small instances of the held letters for TLC. *)
EXTENDS HeldLetters, TLC

CONSTANTS n1, n2, r1, a, cap, w, d1, d2

Symmetry == Permutations(Deputy)

\* A letter, or a capsule, falls due after one instant.
Tomorrow == [l \in Dated |-> 1]

\* One node serves every co-steward.
OnOne == [d \in Deputy |-> n1]
=============================================================================

--------------------------- MODULE MCBeaconSystem ---------------------------
(* Small instances of the whole system for TLC. *)
EXTENDS BeaconSystem, TLC

CONSTANTS n1, n2, r1, r2, a, b

Symmetry == Permutations(Node) \cup Permutations(Request) \cup Permutations(Letter)

\* A missed gap meets the threshold, but for the number of classes.
Attentive == [HEARTBEAT |-> 70, BUDDY |-> 100]

\* One subscription per class the aggregator observes: two missed gaps meet the
\* threshold of 0.7, but for the number of classes.
Thorough == [HEARTBEAT |-> 60, CDR |-> 40, BUDDY |-> 100]
=============================================================================

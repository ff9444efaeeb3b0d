--------------------------- MODULE DeadMansSwitch ---------------------------
(***************************************************************************)
(* What a dead-man's switch promises, whoever performs it: letters stay in *)
(* until a cooling-off has been opened and ended, then each of them leaves *)
(* once, and the release is complete when all are out.  A drill hands the  *)
(* switch back afterwards.                                                 *)
(***************************************************************************)
CONSTANT Letter

VARIABLES
  phase,  \* where the switch is
  handed  \* the letters handed out since the last opening

Init == phase = "held" /\ handed = {}

TypeOK ==
  /\ phase \in {"held", "cooling", "releasing", "released"}
  /\ handed \subseteq Letter

Open ==
  /\ phase = "held" /\ phase' = "cooling"
  /\ handed' = {}

Fire ==
  /\ phase = "cooling" /\ phase' = "releasing"
  /\ handed = {} /\ UNCHANGED handed

Hand(l) ==
  /\ phase = "releasing" /\ UNCHANGED phase
  /\ l \notin handed /\ handed' = handed \cup {l}

Complete ==
  /\ phase = "releasing" /\ phase' = "released"
  /\ handed = Letter /\ UNCHANGED handed

Return ==
  /\ phase = "released" /\ phase' = "held"
  /\ UNCHANGED handed

Next == Open \/ Fire \/ (\E l \in Letter : Hand(l)) \/ Complete \/ Return

Spec == Init /\ [][Next]_<<phase, handed>>

=============================================================================

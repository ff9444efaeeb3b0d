--------------------------- MODULE MCHeldLiveness ---------------------------
(***************************************************************************)
(* What must become of held letters, for TLC, in two plots, so that their  *)
(* state spaces add up.  "dates": the scheduled-release loops of two nodes *)
(* and a request of the principal race for the vault of a dated letter     *)
(* while the subscription may expire, and no co-steward comes.             *)
(* "redirects": one node's loop releases the vault, and a co-steward       *)
(* redirects and triggers an event letter.  In both one node polls; two    *)
(* poll loops are in the runs of the pipeline.                             *)
(***************************************************************************)
EXTENDS HeldLetters

CONSTANTS n1, n2, r1, a, w, d1

VARIABLE plot

\* A letter falls due after one instant.
Tomorrow == [l \in Dated |-> 1]

\* One node serves every co-steward.
OnOne == [d \in Deputy |-> n1]

PlotInit == HeldInit /\ plot \in {"dates", "redirects"}

PlotNext ==
  /\ HeldNext /\ UNCHANGED plot
  /\ due'[n2] = due[n2]
  /\ plot = "dates" => UNCHANGED pmVars
  /\ plot = "redirects" => UNCHANGED <<req, subscription>> /\ sched'[n2] = sched[n2]

\* HeldFairness, without the loops a plot does without.
PlotFairness ==
  /\ TasksFair
  /\ WF_heldVars(PollLoop(n1)) /\ WF_heldVars(SchedLoop(n1))
  /\ WF_heldVars(SchedLoop(n2) /\ plot = "dates")

PlotSpec == PlotInit /\ [][PlotNext]_<<heldVars, plot>> /\ PlotFairness
=============================================================================

-------------------------- MODULE ReleaseRefinement --------------------------
(***************************************************************************)
(* Where nobody cancels, the release pipeline implements DeadMansSwitch:   *)
(* the replicas, timers, poll loops and crashes behind it do not show.     *)
(***************************************************************************)
EXTENDS ReleasePipeline

\* The refinement mapping: the phase is the vault's state, and what has been
\* handed out are the claims of the current cooling-off window.
Phase ==
  CASE vaultState = "COOLING_OFF" -> "cooling"
    [] vaultState = "RELEASING"   -> "releasing"
    [] vaultState = "RELEASED"    -> "released"
    [] OTHER                      -> "held"

Handed == {c.letter : c \in {d \in claims : d.window = window}}

Switch == INSTANCE DeadMansSwitch WITH phase <- Phase, handed <- Handed

\* Every step of the pipeline is a step of the switch, or invisible: no letter
\* leaves but in RELEASING, none twice, and RELEASED comes after the last one.
ImplementsSwitch == Switch!Spec

\* What makes it so: no cancel is in flight, and a performer owns the current
\* window and the state of the vault until it is done.
UncancelledInv ==
  /\ \A r \in Request : req[r].pc \in {"idle", "claim", "create"}
  /\ \A w \in Worker : IsPerforming(w) =>
       /\ job[w].window = window
       /\ vaultState = IF job[w].pc = "deliver" THEN "RELEASING" ELSE "RELEASED"
       /\ Letter \ job[w].todo \subseteq Handed

=============================================================================

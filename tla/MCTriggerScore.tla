--------------------------- MODULE MCTriggerScore ---------------------------
(* The scoring functions over every small set of observations, for TLC. *)
EXTENDS TriggerScore

VARIABLES
  current,  \* the vault state the aggregator read
  obs       \* what it observed

Watchable == {"ACTIVE", "SUSPICIOUS", "ALERT"}
Contribution == {0, 10, 20, 35, 100}

\* Two sources of one class, two more classes; heavy and light weights.
MCWeight == [HEARTBEAT |-> 60, CDR |-> 50, BUDDY |-> 100, GUARDIAN |-> 40]

\* The observations change in any way from one evaluation to the next.
Observe(s, c) == obs' = [obs EXCEPT ![s] = c] /\ UNCHANGED current

Next == \E s \in DOMAIN Weight, c \in Contribution : Observe(s, c)

Rank(s) ==
  CASE s = "ACTIVE" -> 0 [] s = "SUSPICIOUS" -> 1 [] s = "ALERT" -> 2 [] s = "COOLING_OFF" -> 3

\* evaluate is monotone: more evidence never makes for a calmer state, and a
\* more alarmed vault never ends up calmer than a less alarmed one on the same
\* evidence, so the aggregator cannot oscillate on steady observations.
Escalates ==
  /\ \A s \in DOMAIN Weight, c \in Contribution :
       c >= obs[s] => Rank(Evaluate(current, obs)) <= Rank(Evaluate(current, [obs EXCEPT ![s] = c]))
  /\ \A calmer \in Watchable :
       Rank(calmer) <= Rank(current) =>
         Rank(Evaluate(calmer, obs)) <= Rank(Evaluate(current, obs))
=============================================================================

----------------------------- MODULE MCServices -----------------------------
(***************************************************************************)
(* The parts of the service that share no state with one another, checked  *)
(* side by side: each history is of one part, the others stay as they      *)
(* began.  So the state spaces add up instead of multiplying.              *)
(***************************************************************************)
EXTENDS Estate, MCAccess, KeyFile, Circle, Leadership, Migrations, PrivateLetters,
        MCTriggerScore

CONSTANTS l1, f1, home, away, m1, m2, s, d, c1, c2, c3, g1, g2, e1, e2, n1, n2, n3, b1, b2, z, y,
          p1, p2

VARIABLE part   \* the part this history is of

\* One letter with one attachment.
AllOfOne == [x \in File |-> l1]

\* Two kinds of operation at a time, over the sealing of the letter.
Pairs == {{"move", "deletion"}, {"move", "delete"}, {"move", "release"},
          {"release", "deletion"}, {"release", "delete"}, {"deletion", "delete"},
          {"subscription"}}

estatePart == <<estateVars>>
accessPart == <<accessVars>>
keyPart    == <<keyVars>>
circlePart == <<circleVars>>
leaderPart == <<leaderVars>>
bootPart   == <<migrationVars>>
lettersPart == <<lettersVars>>
scorePart  == <<current, obs>>
servicesVars == <<part, estatePart, accessPart, keyPart, circlePart, leaderPart, bootPart,
                  lettersPart, scorePart>>

\* Releases, of one letter; and recoveries, of two letters that are sealed for their
\* author alone.
OneLetter == sealing'[y] = NotSealing
NoRelease ==
  zkVault' = "ACTIVE" /\ readdressed' = {} /\ \A x \in ZkLetter : sealing'[x].mode = NoMode

ServicesInit ==
  /\ part \in {"estate", "door", "house", "key", "circle", "leader", "boot", "letters",
               "recovery", "score"}
  /\ EstateInit /\ (part # "estate" => ops = {"subscription"})
  /\ IF part = "house" THEN HouseInit ELSE AccessInit
  /\ KeyInit /\ CircleInit /\ LeaderInit /\ LettersInit
  /\ MigrationsInit /\ (part # "boot" => byHand = 0)
  /\ obs = [x \in DOMAIN Weight |-> 0]
  /\ IF part = "score" THEN current \in Watchable ELSE current = "ACTIVE"

ServicesNext ==
  /\ UNCHANGED part
  /\ IF part = "estate" THEN EstateNext ELSE UNCHANGED estatePart
  /\ CASE part = "door" -> DoorNext
       [] part = "house" -> HouseNext
       [] OTHER -> UNCHANGED accessPart
  /\ IF part = "key" THEN KeyNext ELSE UNCHANGED keyPart
  /\ IF part = "circle" THEN CircleNext ELSE UNCHANGED circlePart
  /\ IF part = "leader" THEN LeaderNext ELSE UNCHANGED leaderPart
  /\ IF part = "boot" THEN MigrationsNext ELSE UNCHANGED bootPart
  /\ CASE part = "letters" -> LettersNext /\ OneLetter
       [] part = "recovery" -> LettersNext /\ NoRelease
       [] OTHER -> UNCHANGED lettersPart
  /\ IF part = "score" THEN Next ELSE UNCHANGED scorePart

ServicesSpec == ServicesInit /\ [][ServicesNext]_servicesVars

\* Every part keeps to its types.
ServicesTypeOK ==
  /\ EstateTypeOK /\ AccessTypeOK /\ KeyTypeOK /\ CircleTypeOK /\ LeaderTypeOK
  /\ MigrationsTypeOK /\ LettersTypeOK

\* More evidence never makes for a calmer vault, nor does a more alarmed one calm down
\* below a less alarmed one on the same evidence: the aggregator cannot oscillate.
EvidenceEscalates == part = "score" => Escalates
=============================================================================

--------------------------- MODULE ServicesProofs ---------------------------
(***************************************************************************)
(* Proofs about the parts side by side.  The histories of each part are    *)
(* histories of its own specification, so what is proved of the part holds *)
(* here, its types among it; the scoring, which has no specification of    *)
(* its own, cannot make the aggregator oscillate.                          *)
(***************************************************************************)
EXTENDS MCServices, EstateProofs, AccessProofs, PartsProofs, TriggerScoreProofs

-----------------------------------------------------------------------------
\* evaluate (scheduler.rs) is monotone in both of its arguments when the trigger
\* threshold is at least 0.2.
LEMMA EvaluateMonotone ==
  ASSUME Threshold >= 20,
         NEW calmer \in Watchable, NEW alarmed \in Watchable, Rank(calmer) <= Rank(alarmed),
         NEW less \in Evidence, NEW more \in Evidence, AtMost(less, more)
  PROVE  Rank(Evaluate(calmer, less)) <= Rank(Evaluate(alarmed, more))
<1>1. /\ ShouldAlert(less) => ShouldAlert(more)
      /\ SoftThreshold(less) => SoftThreshold(more)
  BY AlarmGrows
<1>2. /\ ShouldAlert(less) => SoftThreshold(less)
      /\ ShouldAlert(more) => SoftThreshold(more)
      /\ SoftThreshold(more) => ScoreAtLeast(more, 1000)
  BY AlarmsNest
<1>3. ScoreAtLeast(less, 1000) => ScoreAtLeast(more, 1000)
  BY LevelGrows
<1>4. CASE alarmed = "ALERT"
  BY <1>1, <1>2, <1>4 DEF Watchable, Rank, Evaluate
<1>5. CASE alarmed = "SUSPICIOUS"
  <2>1. calmer \in {"ACTIVE", "SUSPICIOUS"}
    BY <1>5 DEF Watchable, Rank
  <2> QED
    BY <1>1, <1>2, <1>3, <1>5, <2>1 DEF Rank, Evaluate
<1>6. CASE alarmed = "ACTIVE"
  <2>1. calmer = "ACTIVE"
    BY <1>6 DEF Watchable, Rank
  <2> QED
    BY <1>1, <1>2, <1>6, <2>1 DEF Rank, Evaluate
<1> QED
  BY <1>4, <1>5, <1>6 DEF Watchable

\* What the aggregator reads is a watched state and one contribution per source.
ScoreInv == obs \in Evidence /\ current \in Watchable

LEMMA ObserveKeeps ==
  ASSUME ScoreInv, Next
  PROVE  ScoreInv'
<1>1. PICK src \in DOMAIN Weight, amount \in Contribution : Observe(src, amount)
  BY DEF Next
<1>2. amount \in Nat
  BY DEF Contribution
<1> QED
  BY <1>1, <1>2 DEF ScoreInv, Observe, Evidence

LEMMA ScoreInvEscalates ==
  ASSUME Threshold >= 20, ScoreInv
  PROVE  Escalates
<1> USE DEF ScoreInv
<1>1. ASSUME NEW src \in DOMAIN Weight, NEW amount \in Contribution, amount >= obs[src]
      PROVE  Rank(Evaluate(current, obs)) <= Rank(Evaluate(current, [obs EXCEPT ![src] = amount]))
  <2>1. amount \in Nat
    BY DEF Contribution
  <2>2. PICK more : more = [obs EXCEPT ![src] = amount]
    OBVIOUS
  <2>3. more \in Evidence /\ AtMost(obs, more)
    BY <1>1, <2>1, <2>2 DEF Evidence, AtMost
  <2>4. Rank(current) <= Rank(current)
    BY DEF Watchable, Rank
  <2> QED
    BY <2>2, <2>3, <2>4, EvaluateMonotone
<1>2. ASSUME NEW calmer \in Watchable, Rank(calmer) <= Rank(current)
      PROVE  Rank(Evaluate(calmer, obs)) <= Rank(Evaluate(current, obs))
  <2>1. AtMost(obs, obs)
    BY DEF Evidence, AtMost
  <2> QED
    BY <1>2, <2>1, EvaluateMonotone
<1> QED
  BY <1>1, <1>2 DEF Escalates

\* Steady evidence never calms a vault that more evidence or an earlier alarm has
\* alarmed: the aggregator cannot oscillate, whatever the weights, the number of
\* classes and the contributions, when trigger_threshold is at least 0.2 (the
\* service takes any threshold from its environment, 0.7 when none is set).
THEOREM EvaluateEscalates ==
  Threshold >= 20 => (ServicesSpec => []EvidenceEscalates)
<1> SUFFICES ASSUME Threshold >= 20
             PROVE  ServicesSpec => []EvidenceEscalates
  OBVIOUS
<1>1. ServicesInit => ScoreInv
  <2> SUFFICES ASSUME ServicesInit PROVE ScoreInv
    OBVIOUS
  <2>1. obs = [x \in DOMAIN Weight |-> 0]
    BY DEF ServicesInit
  <2>2. current \in Watchable
    BY DEF ServicesInit, Watchable
  <2> QED
    BY <2>1, <2>2 DEF ScoreInv, Evidence
<1>2. ScoreInv /\ [ServicesNext]_servicesVars => ScoreInv'
  <2> SUFFICES ASSUME ScoreInv, [ServicesNext]_servicesVars PROVE ScoreInv'
    OBVIOUS
  <2>1. Next \/ UNCHANGED scorePart
    BY DEF ServicesNext, servicesVars
  <2> QED
    BY <2>1, ObserveKeeps DEF ScoreInv, scorePart
<1>3. ScoreInv => EvidenceEscalates
  BY ScoreInvEscalates DEF EvidenceEscalates
<1> QED
  BY <1>1, <1>2, <1>3, PTL DEF ServicesSpec

-----------------------------------------------------------------------------
\* Each step is of the part the history is about, and the others stand still.
LEMMA EachPartSteps ==
  ASSUME [ServicesNext]_servicesVars
  PROVE  /\ [EstateNext]_estateVars /\ [KeyNext]_keyVars /\ [CircleNext]_circleVars
         /\ [LeaderNext]_leaderVars /\ [MigrationsNext]_migrationVars /\ [LettersNext]_lettersVars
         /\ DoorNext \/ HouseNext \/ UNCHANGED accessVars
<1>1. CASE UNCHANGED servicesVars
  BY <1>1 DEF servicesVars, estatePart, keyPart, circlePart, leaderPart, bootPart, lettersPart,
              accessPart
<1>2. CASE ServicesNext
  <2>1. /\ EstateNext \/ UNCHANGED estateVars
        /\ KeyNext \/ UNCHANGED keyVars
        /\ CircleNext \/ UNCHANGED circleVars
        /\ LeaderNext \/ UNCHANGED leaderVars
        /\ MigrationsNext \/ UNCHANGED migrationVars
    BY <1>2 DEF ServicesNext, estatePart, keyPart, circlePart, leaderPart, bootPart
  <2>2. LettersNext \/ UNCHANGED lettersVars
    BY <1>2 DEF ServicesNext, lettersPart
  <2>3. DoorNext \/ HouseNext \/ UNCHANGED accessVars
    BY <1>2 DEF ServicesNext, accessPart
  <2>4. QED
    BY <2>1, <2>2, <2>3
<1>3. QED
  BY <1>1, <1>2

\* The estate, the key file, the circle, the workers, the migrations and the Private
\* Letters do side by side what each does by itself: every invariant proved of one of
\* these specifications is one of ServicesSpec.
THEOREM PartsAreThemselves ==
  ServicesSpec =>
    EstateSpec /\ KeySpec /\ CircleSpec /\ LeaderSpec /\ MigrationsSpec /\ LettersSpec
<1>1. ServicesInit => /\ EstateInit /\ KeyInit /\ CircleInit /\ LeaderInit /\ MigrationsInit
                      /\ LettersInit
  BY DEF ServicesInit
<1>2. [ServicesNext]_servicesVars =>
        /\ [EstateNext]_estateVars /\ [KeyNext]_keyVars /\ [CircleNext]_circleVars
        /\ [LeaderNext]_leaderVars /\ [MigrationsNext]_migrationVars /\ [LettersNext]_lettersVars
  BY EachPartSteps
<1>3. QED
  BY <1>1, <1>2, PTL DEF ServicesSpec, EstateSpec, KeySpec, CircleSpec, LeaderSpec,
     MigrationsSpec, LettersSpec

\* Signing in begins with no account, or with an owner who is signed in; its requests
\* are those of AccessSpec, one kind of them at a time.
LEMMA AccessHere ==
  /\ ServicesInit => AccessTyped
  /\ AccessTyped /\ [ServicesNext]_servicesVars => AccessTyped'
<1>1. ASSUME ServicesInit PROVE AccessTyped
  <2>1. AccessInit \/ HouseInit
    BY <1>1 DEF ServicesInit
  <2>2. CASE AccessInit
    <3>1. SignInStarts(NoAccount, 0) /\ NoVaultYet
      BY <2>2 DEF AccessInit
    <3>2. /\ NoAccount \in [exists: BOOLEAN, tos: BOOLEAN, subscribed: BOOLEAN]
          /\ ~NoAccount.exists
      BY DEF NoAccount
    <3>3. TypesInv
      BY <3>1, <3>2, TypesBegin
    <3>4. QED
      BY <3>1, <3>3 DEF AccessTyped, NoVaultYet
  <2>3. CASE HouseInit
    <3>1. PICK owner : owner = [exists |-> TRUE, tos |-> TRUE, subscribed |-> TRUE]
      OBVIOUS
    <3>2. SignInStarts(owner, 1) /\ NoVaultYet
      BY <2>3, <3>1 DEF HouseInit
    <3>3. /\ owner \in [exists: BOOLEAN, tos: BOOLEAN, subscribed: BOOLEAN]
          /\ owner.exists /\ owner.tos /\ owner.subscribed
      BY <3>1
    <3>4. TypesInv
      BY <3>2, <3>3, TypesBegin
    <3>5. QED
      BY <3>2, <3>4 DEF AccessTyped, NoVaultYet
  <2>4. QED
    BY <2>1, <2>2, <2>3
<1>2. ASSUME AccessTyped, [ServicesNext]_servicesVars PROVE AccessTyped'
  <2>1. DoorNext \/ HouseNext \/ UNCHANGED accessVars
    BY <1>2, EachPartSteps
  <2>2. CASE DoorNext
    <3>1. AccessMoves
      BY <2>2 DEF DoorNext, AccessMoves, TabStep
    <3>2. UNCHANGED crossed
      BY <2>2 DEF DoorNext
    <3>3. QED
      BY <1>2, <3>1, <3>2, TypesKept DEF AccessTyped
  <2>3. CASE HouseNext
    <3>1. AccessMoves
      BY <2>3 DEF HouseNext, AccessMoves, SignInStep
    <3>2. crossed' \in BOOLEAN
      BY <2>3 DEF HouseNext, Crossing
    <3>3. QED
      BY <1>2, <3>1, <3>2, TypesKept DEF AccessTyped
  <2>4. CASE UNCHANGED accessVars
    <3>1. UNCHANGED crossed
      BY <2>4 DEF accessVars
    <3>2. QED
      BY <1>2, <2>4, <3>1, TypesKept DEF AccessTyped
  <2>5. QED
    BY <2>1, <2>2, <2>3, <2>4
<1>3. QED
  BY <1>1, <1>2

\* Every part keeps to its types, whatever the others do and however many of
\* everything there are.
THEOREM ServicesTypes == ServicesSpec => []ServicesTypeOK
<1>1. ServicesSpec => []AccessTyped
  BY AccessHere, PTL DEF ServicesSpec
<1>2. AccessTyped => AccessTypeOK
  BY TypesAreRight
<1>3. LettersInv => LettersTypeOK
  BY DEF LettersInv
<1>4. EstateTypeOK /\ AccessTypeOK /\ KeyTypeOK /\ CircleTypeOK /\ LeaderTypeOK
        /\ MigrationsTypeOK /\ LettersTypeOK => ServicesTypeOK
  BY DEF ServicesTypeOK
<1>5. QED
  BY <1>1, <1>2, <1>3, <1>4, PartsAreThemselves, EstateTypes, KeyTypes, CircleTypes, LeaderTypes,
     MigrationsTypes, LettersInductive, PTL

-----------------------------------------------------------------------------
\* Codes and passkeys are of the house: elsewhere there is none.
HouseInv ==
  IF part = "house" THEN CodeInv /\ DropInv ELSE verifier = 0 /\ passkeys = {}

\* In the house, a step is one of AccessSpec; at the door nobody registers a passkey.
LEMMA HouseSteps ==
  ASSUME [ServicesNext]_servicesVars
  PROVE  /\ part' = part
         /\ part = "house" => [AccessNext]_accessVars
         /\ part # "house" => UNCHANGED <<verifier, passkeys>>
<1>1. CASE UNCHANGED servicesVars
  <2>1. UNCHANGED accessVars /\ part' = part
    BY <1>1 DEF servicesVars, accessPart
  <2>2. UNCHANGED <<verifier, passkeys>>
    BY <2>1 DEF accessVars, privateVars, passkeyVars, recoveryVars
  <2>3. QED
    BY <2>1, <2>2
<1>2. CASE ServicesNext
  <2>1. /\ part' = part
        /\ part = "house" => HouseNext
        /\ part # "house" => DoorNext \/ UNCHANGED accessVars
    BY <1>2 DEF ServicesNext, accessPart
  <2>2. HouseNext => AccessNext
    BY DEF HouseNext, AccessNext, SignInStep
  <2>3. DoorNext => UNCHANGED <<verifier, passkeys>>
    BY DEF DoorNext, RegisterAnswer, privateVars, passkeyVars, recoveryVars
  <2>4. UNCHANGED accessVars => UNCHANGED <<verifier, passkeys>>
    BY DEF accessVars, privateVars, passkeyVars, recoveryVars
  <2>5. QED
    BY <2>1, <2>2, <2>3, <2>4
<1>3. QED
  BY <1>1, <1>2

LEMMA HouseHere ==
  /\ ServicesInit => HouseInv
  /\ AccessTyped /\ HouseInv /\ [ServicesNext]_servicesVars => HouseInv'
<1>1. ASSUME ServicesInit PROVE HouseInv
  <2>1. NoVaultYet
    BY <1>1 DEF ServicesInit, HouseInit, AccessInit
  <2>2. /\ tab = [t \in Tab |-> Free] /\ faults = 0
    BY <1>1 DEF ServicesInit, HouseInit, AccessInit, SignInStarts
  <2>3. \A t \in Tab : tab[t].pc = "idle" /\ tab[t].code = 0
    BY <2>2 DEF Free, Request
  <2>4. CodeInv
    BY <2>1, <2>2, <2>3 DEF NoVaultYet, NoWraps, CodeInv
  <2>5. DropInv
    BY <2>3 DEF DropInv, Crowded, AtPasskeys
  <2>6. QED
    BY <2>1, <2>4, <2>5 DEF HouseInv, NoVaultYet
<1>2. ASSUME AccessTyped, HouseInv, [ServicesNext]_servicesVars PROVE HouseInv'
  <2>1. CASE part = "house"
    <3>1. AccessInv /\ MakingInv /\ CodeInv /\ DropInv
      BY <1>2, <2>1 DEF AccessTyped, TypesInv, HouseInv
    <3>2. CodeInv' /\ DropInv'
      BY <1>2, <2>1, <3>1, HouseSteps, PrivateKept
    <3>3. QED
      BY <1>2, <2>1, <3>2, HouseSteps DEF HouseInv
  <2>2. CASE part # "house"
    BY <1>2, <2>2, HouseSteps DEF HouseInv
  <2>3. QED
    BY <2>1, <2>2
<1>3. QED
  BY <1>1, <1>2

\* Whatever is proved of a part by itself is proved of it here: rows, letters and heirs of
\* the estate; sessions, accounts and recovery codes, with an account that is being made
\* or that exists; the key file, the circle, the workers, the migrations and the Private
\* Letters.
THEOREM PromisesKept ==
  ServicesSpec =>
    /\ [](RowsResolve /\ NoLeftovers /\ HeirsAreServed /\ ErasureComplete /\ CancelledMeansKept)
    /\ [](OneSessionPerTicket /\ AccountWhole /\ CodeOpensWraps) /\ LastPasskeyStays
    /\ [](EverySealedOpens /\ SeatsInOrder /\ WebhookAnswers /\ WorkIsCoveredOnce /\ BootsSucceed)
    /\ [](HeirOpens /\ RedeemWhole)
<1>1. ServicesSpec => [](AccessTyped /\ HouseInv)
  BY AccessHere, HouseHere, PTL DEF ServicesSpec
<1>2. AccessTyped /\ HouseInv => OneSessionPerTicket /\ AccountWhole /\ CodeOpensWraps
  <2> SUFFICES ASSUME AccessTyped, HouseInv
               PROVE  OneSessionPerTicket /\ AccountWhole /\ CodeOpensWraps
    OBVIOUS
  <2>1. AccessInv /\ MakingInv
    BY DEF AccessTyped, TypesInv
  <2>2. OneSessionPerTicket /\ AccountWhole
    BY <2>1 DEF AccessInv, TicketInv, OneSessionPerTicket, MakingInv, BeingMade, AccountWhole
  <2>3. CodeOpensWraps
    <3>1. CASE part = "house"
      BY <2>1, <3>1, CodeIsTheOne DEF HouseInv
    <3>2. CASE part # "house"
      BY <3>2 DEF HouseInv, CodeOpensWraps
    <3>3. QED
      BY <3>1, <3>2
  <2>4. QED
    BY <2>2, <2>3
<1>3. AccessTyped /\ HouseInv /\ [ServicesNext]_servicesVars =>
        [~crossed' /\ passkeys # {} /\ passkeys' = {} => vaults = {}]_accessVars
  <2> SUFFICES ASSUME AccessTyped, HouseInv, [ServicesNext]_servicesVars,
                      accessVars' # accessVars, ~crossed', passkeys # {}, passkeys' = {}
               PROVE  vaults = {}
    OBVIOUS
  <2>1. part = "house"
    BY DEF HouseInv
  <2>2. AccessNext
    BY <2>1, HouseSteps
  <2>3. AccessInv /\ DropInv
    BY <2>1 DEF HouseInv, AccessTyped, TypesInv
  <2>4. QED
    BY <2>2, <2>3, LastOneKept
<1>4. ServicesSpec => LastPasskeyStays
  BY <1>1, <1>3, PTL DEF ServicesSpec, LastPasskeyStays
<1>5. QED
  BY <1>1, <1>2, <1>4, PartsAreThemselves, RowsNeverDangle, NothingLeftOver, EveryHeirServed,
     ErasedEntirely, CancelledIsKept, SealedOpens, SeatsKept, WebhookKept, WorkersCovered,
     BootsAlwaysSucceed, HeirsOpen, RecoveryIsWhole, PTL

=============================================================================

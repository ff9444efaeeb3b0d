------------------------- MODULE BeaconSystemProofs -------------------------
(***************************************************************************)
(* Proofs about the release pipeline and the signal aggregator together:   *)
(* the aggregators and the duress webhook disturb nothing the pipeline     *)
(* relies on, no entry into COOLING_OFF has two events, silence alone      *)
(* raises no alert, a check-in keeps a vault ACTIVE, and a release that no *)
(* aggregator touches runs its course; for any number of replicas,         *)
(* aggregators, requests, letters, windows and faults.                     *)
(***************************************************************************)
EXTENDS BeaconSystem, ReleasePipelineProofs, TriggerScoreProofs, FiniteSetTheorems

USE BoundsAssumption, PipelineAssumption, SystemAssumption

-----------------------------------------------------------------------------
(* What the pipeline sees of its company.                                  *)

\* What an aggregator or the webhook does to the rows of the vault: nothing, a
\* state it may write, an entry into COOLING_OFF, or a new event.
Meddles ==
  \/ vaultState' \in Watchable /\ UNCHANGED <<window, eventVars>>
  \/ UNCHANGED <<vaultState, window, eventVars>>
  \/ \E from \in Watchable : ClaimVaultCoolingOff(from) /\ UNCHANGED eventVars
  \/ /\ lastEvent < MaxReleases
     /\ \E endsAt \in Nat : CreateReleaseEvent(FALSE, endsAt)
     /\ UNCHANGED <<vaultState, window>>

\* Time stands still and the pipeline's own state with it, but for a fault.
Company ==
  /\ Meddles
  /\ UNCHANGED <<clock, req, timer, due, job, claims>>
  /\ faults' \in 0..MaxFaults

\* No step of the company costs the pipeline its invariant.
LEMMA CompanyKeeps ==
  ASSUME PipelineInv, Company
  PROVE  PipelineInv'
<1> USE DEF Company
<1>1. /\ lastEvent \in 0..MaxReleases /\ window \in 0..MaxReleases
      /\ event \in [Event -> EventRow] /\ vaultState \in VaultState
      /\ released \subseteq Created /\ cancelled \subseteq Created
      /\ timer \in [Event -> TimerState] /\ job \in [Worker -> JobState]
  BY DEF PipelineInv, CoreInv, TypeOK, DbTypeOK
<1>2. /\ \A e \in Created : e \in Created' /\ event'[e] = event[e]
      /\ event' \in [Event -> EventRow] /\ lastEvent' \in 0..MaxReleases
      /\ released' = released /\ cancelled' = cancelled
  <2>1. CASE UNCHANGED eventVars
    BY <1>1, <2>1 DEF eventVars, Created
  <2>2. ASSUME NEW endsAt \in Nat, lastEvent < MaxReleases, CreateReleaseEvent(FALSE, endsAt)
        PROVE  /\ \A e \in Created : e \in Created' /\ event'[e] = event[e]
               /\ event' \in [Event -> EventRow] /\ lastEvent' \in 0..MaxReleases
               /\ released' = released /\ cancelled' = cancelled
    BY <1>1, <2>2 DEF CreateReleaseEvent, NextEvent, Created, Event, EventRow
  <2> QED
    <3>1. \/ UNCHANGED eventVars
          \/ lastEvent < MaxReleases /\ \E endsAt \in Nat : CreateReleaseEvent(FALSE, endsAt)
      BY DEF Meddles
    <3> QED
      BY <2>1, <2>2, <3>1
<1>3. /\ vaultState' \in VaultState /\ window' \in 0..MaxReleases /\ window <= window'
      /\ vaultState' = "COOLING_OFF" =>
           \/ vaultState = "COOLING_OFF" /\ window' = window
           \/ window' = window + 1
      /\ vaultState' = "RELEASED" => vaultState = "RELEASED"
  <2>1. \/ vaultState' \in Watchable /\ window' = window
        \/ vaultState' = vaultState /\ window' = window
        \/ vaultState' = "COOLING_OFF" /\ window' = window + 1 /\ window < MaxReleases
    BY DEF Meddles, ClaimVaultCoolingOff
  <2> QED
    BY <1>1, <2>1 DEF Watchable, VaultState
<1>4. Guest
  BY <1>1, <1>2, <1>3 DEF Guest, IsPerforming
<1>5. CoreInv'
  BY <1>4, GuestKeeps DEF PipelineInv
<1>6. ReleasedMeansDelivered'
  BY <1>2, <1>3 DEF PipelineInv, ReleasedMeansDelivered, StateMeansDelivered, DeliveredInFull,
     HandedOut
<1> QED
  BY <1>5, <1>6 DEF PipelineInv

-----------------------------------------------------------------------------
(* Which steps are the company's.                                          *)

\* Evaluate decides on a state a tick can hold (scheduler.rs, evaluate).
LEMMA EvaluateType ==
  ASSUME NEW current \in Watchable, NEW obs
  PROVE  /\ Evaluate(current, obs) \in Watchable \cup {"COOLING_OFF"}
         /\ Evaluate(current, obs) = "ALERT" => current = "ALERT" \/ ShouldAlert(obs)
         /\ Evaluate(current, obs) = "COOLING_OFF" => current = "ALERT"
BY DEF Evaluate, Watchable

\* What set_vault_state is about to write.
Decided == \A n \in Aggregator : agg[n].pc = "setState" => agg[n].next \in Watchable

AggInv == AggTypeOK /\ Decided

\* A signal, a duress step or a step of a panic release keeps the aggregator's
\* types and is company to the pipeline.
LEMMA SignalsKeep ==
  ASSUME PipelineInv, AggInv, UNCHANGED pipeVars,
         \/ Heartbeat \/ ApplePing \/ BankPing \/ RespondBuddy
         \/ DuressFreeze \/ DuressDisarm \/ PanicBegin \/ PanicStep
  PROVE  AggInv' /\ Company
<1> USE DEF PipelineInv, CoreInv, TypeOK, DbTypeOK, AggInv, AggTypeOK, Decided, pipeVars, dbVars,
            signalVars, aggVars, eventVars, Company, Meddles
<1>1. CASE Heartbeat \/ ApplePing \/ BankPing \/ DuressFreeze \/ DuressDisarm
  BY <1>1 DEF Heartbeat, ApplePing, BankPing, DuressFreeze, DuressDisarm
<1>2. CASE RespondBuddy
  BY <1>2 DEF RespondBuddy, BuddyWorries, BuddySaysWell
<1>3. CASE PanicBegin
  BY <1>3 DEF PanicBegin, OpenerState, OpenerPc, IdleOpener, Watchable
<1>4. CASE PanicList
  BY <1>4 DEF PanicList, OpenerState, OpenerPc, IdleOpener, Watchable
<1>5. CASE PanicClaim
  <2>1. opener' \in OpenerState /\ opener.seen \in Watchable
    BY <1>5 DEF PanicClaim, OpenerState, OpenerPc, IdleOpener, Watchable
  <2> QED
    BY <1>5, <2>1 DEF PanicClaim
<1>6. CASE PanicNotify
  BY <1>6 DEF PanicNotify, OpenerState, OpenerPc, EndsAt
<1>7. CASE PanicCreate
  <2>1. opener' \in OpenerState /\ opener.endsAt \in Nat
    BY <1>7 DEF PanicCreate, OpenerState, OpenerPc, IdleOpener, Watchable
  <2> QED
    BY <1>7, <2>1 DEF PanicCreate
<1> QED
  BY <1>1, <1>2, <1>3, <1>4, <1>5, <1>6, <1>7 DEF PanicStep

\* An aggregator's tick goes on with what is typed and decided.
LEMMA TickMoves ==
  ASSUME AggInv, NEW n \in Aggregator, NEW t \in TickState,
         t.pc = "setState" => t.next \in Watchable,
         agg' = [agg EXCEPT ![n] = t]
  PROVE  /\ agg' \in [Aggregator -> TickState] /\ Decided'
         /\ agg'[n] = t /\ \A m \in Aggregator : m # n => agg'[m] = agg[m]
BY DEF AggInv, AggTypeOK, Decided

\* A tick that ends is typed.
LEMMA IdleTickType == IdleTick \in TickState /\ IdleTick.pc = "idle"
  BY DEF IdleTick, Tick_, TickState, TickPc, Watchable

\* A tick holds at every step what the next one needs.
LEMMA TickType ==
  ASSUME AggInv, NEW n \in Aggregator
  PROVE  /\ agg[n].seen \in Watchable /\ agg[n].last \in Nat /\ agg[n].now \in Nat
         /\ agg[n].endsAt \in Nat /\ agg[n].next \in Watchable \cup {"COOLING_OFF"}
         /\ \A pc \in TickPc, next \in Watchable \cup {"COOLING_OFF"}, endsAt \in Nat :
              Tick_(pc, agg[n].seen, agg[n].last, agg[n].now, next, endsAt) \in TickState
BY DEF AggInv, AggTypeOK, TickState, Tick_

\* A tick that goes on with another step is typed.
LEMMA TickGoesOn ==
  ASSUME AggInv, NEW n \in Aggregator, NEW pc \in TickPc
  PROVE  /\ [agg[n] EXCEPT !.pc = pc] \in TickState
         /\ [agg[n] EXCEPT !.pc = pc].pc = pc
<1>1. agg[n] \in TickState
  BY DEF AggInv, AggTypeOK
<1> DEFINE a == agg[n]
<1> HIDE DEF a
<1>2. a \in TickState
  BY <1>1 DEF a
<1>3. [a EXCEPT !.pc = pc] \in TickState /\ [a EXCEPT !.pc = pc].pc = pc
  BY <1>2 DEF TickState
<1> QED
  BY <1>3 DEF a

\* A step of aggregator_tick keeps the aggregator's types and is company to the
\* pipeline.
LEMMA TicksKeep ==
  ASSUME PipelineInv, AggInv, UNCHANGED pipeVars, NEW n \in Aggregator, AggStep(n)
  PROVE  AggInv' /\ Company
<1> USE DEF pipeVars, dbVars, signalVars, eventVars, Meddles
<1>1. /\ vaultState \in VaultState /\ clock \in Nat /\ faults \in 0..MaxFaults
      /\ attested \in Nat /\ opener \in OpenerState
      /\ agg \in [Aggregator -> TickState]
  BY DEF PipelineInv, CoreInv, TypeOK, DbTypeOK, AggInv, AggTypeOK
<1>2. ASSUME UNCHANGED signalVars, UNCHANGED opener,
             agg' \in [Aggregator -> TickState], Decided'
      PROVE  AggInv'
  BY <1>2 DEF AggInv, AggTypeOK
<1>3. CASE AggList(n)
  <2>1. /\ Tick_(IF RegionListed THEN "evaluate" ELSE "panicked",
                 vaultState, attested, clock, "ACTIVE", 0) \in TickState
        /\ Tick_(IF RegionListed THEN "evaluate" ELSE "panicked",
                 vaultState, attested, clock, "ACTIVE", 0).pc # "setState"
    BY <1>1, <1>3 DEF AggList, Tick_, TickState, TickPc, Watchable
  <2> QED
    BY <1>1, <1>2, <1>3, <2>1, TickMoves DEF AggList, Company
<1>4. CASE AggEvaluate(n)
  <2> DEFINE next == Evaluate(agg[n].seen, Observations(agg[n].last, agg[n].now))
             t == IF next = agg[n].seen THEN IdleTick
                  ELSE Tick_(IF next = "COOLING_OFF" THEN "checkDuress" ELSE "setState",
                             agg[n].seen, agg[n].last, agg[n].now, next, 0)
  <2>1. /\ agg' = [agg EXCEPT ![n] = t]
        /\ UNCHANGED <<dbVars, signalVars, opener>>
    BY <1>4 DEF AggEvaluate
  <2>2. next \in Watchable \cup {"COOLING_OFF"}
    BY TickType, EvaluateType
  <2> HIDE DEF next
  <2>3. t \in TickState
    BY <2>2, TickType, IdleTickType DEF TickPc
  <2>4. t.pc = "setState" => t.next \in Watchable
    BY <2>2, IdleTickType DEF Tick_
  <2> HIDE DEF t
  <2> QED
    BY <1>1, <1>2, <2>1, <2>3, <2>4, TickMoves DEF Company
<1>5. CASE AggCheckDuress(n)
  <2>1. \/ agg' = [agg EXCEPT ![n] = IdleTick]
        \/ agg' = [agg EXCEPT ![n] = [agg[n] EXCEPT !.pc = "claim"]]
    BY <1>5 DEF AggCheckDuress
  <2>2. /\ [agg[n] EXCEPT !.pc = "claim"] \in TickState
        /\ [agg[n] EXCEPT !.pc = "claim"].pc = "claim"
    <3>1. "claim" \in TickPc
      BY DEF TickPc
    <3> QED
      BY <3>1, TickGoesOn, Zenon
  <2>3. \E t \in TickState : t.pc # "setState" /\ agg' = [agg EXCEPT ![n] = t]
    BY <2>1, <2>2, IdleTickType
  <2>4. UNCHANGED <<dbVars, signalVars, opener>>
    BY <1>5 DEF AggCheckDuress
  <2>5. AggInv'
    BY <1>2, <2>3, <2>4, TickMoves
  <2>6. Company
    BY <1>1, <2>4 DEF Company
  <2> QED
    BY <2>5, <2>6
<1>6. CASE AggClaim(n)
  <2>1. \/ agg' = [agg EXCEPT ![n] = IdleTick]
        \/ agg' = [agg EXCEPT ![n] = [agg[n] EXCEPT !.pc = "notify"]]
    BY <1>6 DEF AggClaim
  <2>2. /\ [agg[n] EXCEPT !.pc = "notify"] \in TickState
        /\ [agg[n] EXCEPT !.pc = "notify"].pc = "notify"
    <3>1. "notify" \in TickPc
      BY DEF TickPc
    <3> QED
      BY <3>1, TickGoesOn, Zenon
  <2>3. \E t \in TickState : t.pc # "setState" /\ agg' = [agg EXCEPT ![n] = t]
    BY <2>1, <2>2, IdleTickType
  <2>4. AggInv'
    BY <1>2, <1>6, <2>3, TickMoves DEF AggClaim
  <2>5. Meddles
    BY <1>6, TickType DEF AggClaim
  <2> QED
    BY <1>1, <1>6, <2>4, <2>5 DEF AggClaim, Company
<1>7. CASE AggNotify(n)
  <2>1. PICK ends : ends = EndsAt
    OBVIOUS
  <2>2. ends \in Nat /\ "create" \in TickPc
    BY <1>1, <2>1 DEF EndsAt, TickPc
  <2>3. PICK t : t = [agg[n] EXCEPT !.pc = "create", !.endsAt = ends]
    OBVIOUS
  <2>4. t \in TickState /\ t.pc = "create"
    <3>1. PICK a \in TickState : a = agg[n]
      BY <1>1
    <3>2. t = [a EXCEPT !.pc = "create", !.endsAt = ends]
      BY <2>3, <3>1, Zenon
    <3> QED
      BY <2>2, <3>2 DEF TickState
  <2>5. agg' = [agg EXCEPT ![n] = t] /\ UNCHANGED <<dbVars, signalVars, opener>>
    BY <1>7, <2>1, <2>3 DEF AggNotify
  <2>6. AggInv'
    BY <1>2, <2>4, <2>5, TickMoves
  <2>7. Company
    BY <1>1, <2>5 DEF Company
  <2> QED
    BY <2>6, <2>7
<1>8. CASE AggCreate(n)
  <2>1. AggInv'
    BY <1>2, <1>8, IdleTickType, TickMoves DEF AggCreate
  <2>2. Meddles
    BY <1>8, TickType DEF AggCreate
  <2> QED
    BY <1>1, <1>8, <2>1, <2>2 DEF AggCreate, Company
<1>9. CASE AggSetState(n)
  <2>1. AggInv'
    BY <1>2, <1>9, IdleTickType, TickMoves DEF AggSetState
  <2>2. Meddles
    BY <1>9 DEF AggSetState, SetVaultState, AggInv, Decided
  <2> QED
    BY <1>1, <1>9, <2>1, <2>2 DEF AggSetState, Company
<1> QED
  BY <1>3, <1>4, <1>5, <1>6, <1>7, <1>8, <1>9 DEF AggStep

\* So is a tick or a webhook that fails, and a node that dies is a step of the
\* pipeline.
LEMMA FailuresKeep ==
  ASSUME PipelineInv, AggInv,
         (\E n \in Aggregator : SysAggFails(n)) \/ SysPanicFails
  PROVE  AggInv' /\ Company
<1>1. /\ Fault("error") /\ UNCHANGED <<req, timer, due, job, claims>>
      /\ UNCHANGED <<dbVars, signalVars>>
  BY DEF SysAggFails, SysPanicFails, AggFails, PanicFails
<1>2. faults' \in 0..MaxFaults
  BY <1>1 DEF Fault, PipelineInv, CoreInv, TypeOK
<1>3. Company
  BY <1>1, <1>2 DEF Company, Meddles, dbVars, eventVars
<1>4. AggInv'
  <2>1. ASSUME NEW n \in Aggregator, SysAggFails(n) PROVE AggInv'
    <3>1. agg' = [agg EXCEPT ![n] = IdleTick] /\ UNCHANGED <<signalVars, opener>>
      BY <2>1 DEF SysAggFails, AggFails
    <3> QED
      BY <3>1, IdleTickType, TickMoves DEF AggInv, AggTypeOK, signalVars
  <2>2. CASE SysPanicFails
    BY <2>2 DEF SysPanicFails, PanicFails, AggInv, AggTypeOK, Decided, signalVars,
       OpenerState, OpenerPc, IdleOpener, Watchable
  <2> QED
    BY <2>1, <2>2
<1> QED
  BY <1>3, <1>4

LEMMA CrashKeeps ==
  ASSUME AggInv, NEW n, AggCrash(n)
  PROVE  AggInv'
<1>1. IdleOpener \in OpenerState
  BY DEF IdleOpener, OpenerState, OpenerPc, Watchable
<1>2. agg' \in [Aggregator -> TickState] /\ Decided'
  BY IdleTickType DEF AggCrash, AggInv, AggTypeOK, Decided
<1> QED
  BY <1>1, <1>2 DEF AggCrash, AggInv, AggTypeOK, signalVars

\* Every step of the system is one of the pipeline, with or without company, or
\* one of its company.
LEMMA TogetherStep ==
  ASSUME PipelineInv, AggInv, [SysNext]_sysVars
  PROVE  PipelineInv' /\ AggInv'
<1>1. CASE Running /\ UNCHANGED aggVars
  <2>1. AggInv'
    BY <1>1 DEF AggInv, AggTypeOK, Decided, aggVars
  <2> QED
    BY <1>1, <2>1, PipelineStep DEF Next
<1>2. CASE AggNext /\ UNCHANGED pipeVars
  BY <1>2, SignalsKeep, TicksKeep, CompanyKeeps DEF AggNext
<1>3. CASE (\E n \in Aggregator : SysAggFails(n)) \/ SysPanicFails
  BY <1>3, FailuresKeep, CompanyKeeps
<1>4. ASSUME NEW n \in Node, SysCrash(n) PROVE PipelineInv' /\ AggInv'
  BY <1>4, CrashKeeps, PipelineStep DEF SysCrash, Next
<1>5. CASE UNCHANGED sysVars
  <2>1. UNCHANGED vars /\ UNCHANGED aggVars
    BY <1>5 DEF sysVars
  <2>2. AggInv'
    BY <2>1 DEF AggInv, AggTypeOK, Decided, aggVars
  <2> QED
    BY <2>1, <2>2, PipelineStep
<1> QED
  BY <1>1, <1>2, <1>3, <1>4, <1>5 DEF SysNext

-----------------------------------------------------------------------------
(* One event for each entry into COOLING_OFF.                              *)

\* Nobody more is on the way to an event, or one more after a new entry, or one
\* less after a new event.
Counts ==
  \/ Creating' \subseteq Creating /\ UNCHANGED <<lastEvent, window>>
  \/ /\ window' = window + 1 /\ UNCHANGED lastEvent
     /\ \E x : Creating' \subseteq Creating \cup {x}
  \/ /\ lastEvent' = lastEvent + 1 /\ UNCHANGED window
     /\ \E x \in Creating : Creating' \subseteq Creating \ {x}

\* Such a step keeps the count: entries pay for the events.
LEMMA CountKeeps ==
  ASSUME lastEvent \in Nat, window \in Nat,
         IsFiniteSet(Creating), OneEventPerOpening, Counts
  PROVE  (IsFiniteSet(Creating) /\ OneEventPerOpening)'
<1> DEFINE C == Creating
           D == Creating'
<1>1. IsFiniteSet(C) /\ Cardinality(C) \in Nat /\ lastEvent + Cardinality(C) <= window
  BY FS_CardinalityType DEF OneEventPerOpening
<1>2. SUFFICES IsFiniteSet(D) /\ lastEvent' + Cardinality(D) <= window'
  BY DEF OneEventPerOpening
<1>3. \/ D \subseteq C /\ UNCHANGED <<lastEvent, window>>
      \/ /\ window' = window + 1 /\ UNCHANGED lastEvent
         /\ \E x : D \subseteq C \cup {x}
      \/ /\ lastEvent' = lastEvent + 1 /\ UNCHANGED window
         /\ \E x \in C : D \subseteq C \ {x}
  BY DEF Counts
<1> HIDE DEF C, D
<1>4. ASSUME NEW S, IsFiniteSet(S), D \subseteq S
      PROVE  IsFiniteSet(D) /\ Cardinality(D) \in Nat /\ Cardinality(D) <= Cardinality(S)
  BY <1>4, FS_Subset, FS_CardinalityType
<1>5. CASE D \subseteq C /\ UNCHANGED <<lastEvent, window>>
  <2>1. IsFiniteSet(D) /\ Cardinality(D) \in Nat /\ Cardinality(D) <= Cardinality(C)
    BY <1>1, <1>4, <1>5
  <2> QED
    BY <1>1, <1>5, <2>1
<1>6. ASSUME window' = window + 1, UNCHANGED lastEvent, NEW x, D \subseteq C \cup {x}
      PROVE  IsFiniteSet(D) /\ lastEvent' + Cardinality(D) <= window'
  <2>1. /\ IsFiniteSet(C \cup {x}) /\ Cardinality(C \cup {x}) \in Nat
        /\ Cardinality(C \cup {x}) <= Cardinality(C) + 1
    <3>1. /\ IsFiniteSet(C \cup {x})
          /\ Cardinality(C \cup {x}) = Cardinality(C) \/ Cardinality(C \cup {x}) = Cardinality(C) + 1
      BY <1>1, FS_AddElement, Zenon
    <3> QED
      BY <1>1, <3>1
  <2>2. IsFiniteSet(D) /\ Cardinality(D) \in Nat /\ Cardinality(D) <= Cardinality(C \cup {x})
    BY <1>4, <1>6, <2>1
  <2> QED
    BY <1>1, <1>6, <2>1, <2>2
<1>7. ASSUME lastEvent' = lastEvent + 1, UNCHANGED window, NEW x \in C, D \subseteq C \ {x}
      PROVE  IsFiniteSet(D) /\ lastEvent' + Cardinality(D) <= window'
  <2>1. IsFiniteSet(C \ {x}) /\ Cardinality(C \ {x}) = Cardinality(C) - 1
    BY <1>1, <1>7, FS_RemoveElement
  <2>2. IsFiniteSet(D) /\ Cardinality(D) \in Nat /\ Cardinality(D) <= Cardinality(C \ {x})
    BY <1>4, <1>7, <2>1
  <2>3. lastEvent' = lastEvent + 1 /\ window' = window
    BY <1>7
  <2> QED
    BY <1>1, <2>1, <2>2, <2>3
<1> QED
  BY <1>3, <1>5, <1>6, <1>7

\* Who is on the way to an event.
LEMMA WhoCreates ==
  /\ \A x : x \in Creating <=>
       \/ x \in Request /\ req[x].pc = "create"
       \/ x \in Aggregator /\ agg[x].pc \in {"notify", "create"}
       \/ x = 0 /\ opener.pc \in {"notify", "create"}
  /\ \A x : x \in Creating' <=>
       \/ x \in Request /\ req'[x].pc = "create"
       \/ x \in Aggregator /\ agg'[x].pc \in {"notify", "create"}
       \/ x = 0 /\ opener'.pc \in {"notify", "create"}
BY DEF Creating, ReqAt

\* A step of the pipeline brings a request to its event, past it or neither.
LEMMA PipelineCounts ==
  ASSUME PipelineInv, [Next]_vars,
         \A n \in Aggregator : agg'[n].pc \in {"notify", "create"} =>
                               agg[n].pc \in {"notify", "create"},
         opener'.pc \in {"notify", "create"} => opener.pc \in {"notify", "create"}
  PROVE  Counts
<1> USE DEF dbVars, eventVars, ReqAt, ReqDone, ReqGoto
<1>1. /\ req \in [Request -> ReqState] /\ lastEvent \in Nat
  BY DEF PipelineInv, CoreInv, TypeOK, DbTypeOK
<1>2. ASSUME \A r \in Request : req'[r].pc = "create" => req[r].pc = "create",
             UNCHANGED <<lastEvent, window>>
      PROVE  Counts
  BY <1>2, WhoCreates DEF Counts
<1>3. ASSUME NEW r \in Request, RequestWins(r) PROVE Counts
  <2>1. /\ \A q \in Request : req'[q].pc = "create" => q = r \/ req[q].pc = "create"
        /\ window' = window + 1 /\ lastEvent' = lastEvent
    BY <1>1, <1>3 DEF RequestWins, ClaimVaultCoolingOff
  <2>2. Creating' \subseteq Creating \cup {r}
    BY <2>1, WhoCreates
  <2> QED
    BY <2>1, <2>2 DEF Counts
<1>4. ASSUME NEW r \in Request, RequestCreate(r) PROVE Counts
  <2>1. /\ req[r].pc = "create" /\ req'[r].pc = "idle"
        /\ \A q \in Request : req'[q].pc = "create" => req[q].pc = "create"
        /\ window' = window /\ lastEvent' = lastEvent + 1
    BY <1>1, <1>4 DEF RequestCreate, CreateReleaseEvent, NextEvent, IdleReq, Req
  <2>2. r \in Creating /\ r \notin Aggregator /\ r # 0
    BY <2>1, WhoCreates
  <2>3. Creating' \subseteq Creating \ {r}
    BY <2>1, <2>2, WhoCreates
  <2> QED
    BY <2>1, <2>2, <2>3 DEF Counts
<1>5. ASSUME NEW r \in Request,
             \/ \E n \in Node, drill \in BOOLEAN : RequestBegin(r, n, drill)
             \/ \E n \in Node : CancelBegin(r, n)
             \/ RequestConflict(r) \/ CancelSetActive(r) \/ CancelFetchOpen(r)
             \/ CancelMark(r) \/ RequestFails(r)
      PROVE  /\ \A q \in Request : req'[q].pc = "create" => req[q].pc = "create"
             /\ UNCHANGED <<lastEvent, window>>
  <2>1. CASE \/ \E n \in Node, drill \in BOOLEAN : RequestBegin(r, n, drill)
             \/ \E n \in Node : CancelBegin(r, n)
    BY <1>1, <2>1 DEF RequestBegin, CancelBegin, Req
  <2>2. CASE RequestConflict(r) \/ CancelMark(r) \/ RequestFails(r)
    BY <1>1, <2>2 DEF RequestConflict, CancelMark, MarkReleaseCancelled, RequestFails, Req, IdleReq
  <2>3. CASE CancelSetActive(r)
    BY <1>1, <2>3 DEF CancelSetActive, SetVaultState
  <2>4. CASE CancelFetchOpen(r)
    <3>1. CASE ReqDone(r)
      BY <1>1, <2>4, <3>1 DEF CancelFetchOpen, Req, IdleReq
    <3>2. ASSUME NEW e, req' = [req EXCEPT ![r] = Req("markCancelled", req[r].node, FALSE, 0, e)]
          PROVE  \A q \in Request : req'[q].pc = "create" => req[q].pc = "create"
      BY <1>1, <3>2 DEF Req
    <3> QED
      BY <2>4, <3>1, <3>2 DEF CancelFetchOpen
  <2> QED
    BY <1>5, <2>1, <2>2, <2>3, <2>4
<1>6. ASSUME NEW n \in Node, Crash(n)
      PROVE  /\ \A q \in Request : req'[q].pc = "create" => req[q].pc = "create"
             /\ UNCHANGED <<lastEvent, window>>
  BY <1>1, <1>6 DEF Crash, Req, IdleReq
<1>7. ASSUME \/ \E e \in Event : TimerStep(e)
             \/ \E n \in Node : PollStep(n)
             \/ \E w \in Worker : PerformStep(w) \/ PerformFails(w)
             \/ (Tick /\ UNCHANGED pipeVars) \/ UNCHANGED vars
      PROVE  UNCHANGED <<req, lastEvent, window>>
  <2>1. CASE \E e \in Event : TimerStep(e)
    BY <2>1 DEF TimerStep, TimerWins, TimerAbandons, ClaimVaultForRelease
  <2>2. CASE \E n \in Node : PollStep(n)
    BY <2>2 DEF PollStep, PollList, PollWins, PollSkips, ClaimVaultForRelease
  <2>3. CASE \E w \in Worker : PerformStep(w) \/ PerformFails(w)
    BY <2>3 DEF PerformStep, Deliver, SetReleased, MarkReleased, MarkReleaseReleased,
       ReturnActive, PerformFails, SetVaultState
  <2>4. CASE (Tick /\ UNCHANGED pipeVars) \/ UNCHANGED vars
    BY <2>4 DEF Tick, pipeVars, vars
  <2> QED
    BY <1>7, <2>1, <2>2, <2>3, <2>4
<1>8. CASE \/ \E e \in Event : TimerStep(e)
           \/ \E n \in Node : PollStep(n)
           \/ \E w \in Worker : PerformStep(w) \/ PerformFails(w)
           \/ (Tick /\ UNCHANGED pipeVars) \/ UNCHANGED vars
  BY <1>2, <1>7, <1>8
<1>9. ASSUME NEW r \in Request,
             \/ \E n \in Node, drill \in BOOLEAN : RequestBegin(r, n, drill)
             \/ \E n \in Node : CancelBegin(r, n)
             \/ RequestConflict(r) \/ CancelSetActive(r) \/ CancelFetchOpen(r)
             \/ CancelMark(r) \/ RequestFails(r)
      PROVE  Counts
  BY <1>2, <1>5, <1>9
<1>10. ASSUME NEW n \in Node, Crash(n) PROVE Counts
  BY <1>2, <1>6, <1>10
<1> QED
  BY <1>3, <1>4, <1>8, <1>9, <1>10 DEF Next, Running, RequestStep

\* A tick that wins its claim is on the way to an event, and past it when the
\* event is there.
LEMMA TickCounts ==
  ASSUME AggInv, UNCHANGED pipeVars, NEW n \in Aggregator, AggStep(n)
  PROVE  Counts
<1> USE DEF pipeVars, dbVars, eventVars
<1>1. agg \in [Aggregator -> TickState]
  BY DEF AggInv, AggTypeOK
<1>2. ASSUME UNCHANGED <<req, opener, lastEvent, window>>,
             \A m \in Aggregator : agg'[m].pc \in {"notify", "create"} =>
                                   agg[m].pc \in {"notify", "create"}
      PROVE  Counts
  BY <1>2, WhoCreates DEF Counts
<1>3. CASE AggList(n)
  <2>1. UNCHANGED <<req, opener, lastEvent, window>>
    BY <1>3 DEF AggList
  <2>2. \A m \in Aggregator : m # n => agg'[m] = agg[m]
    BY <1>1, <1>3 DEF AggList
  <2>3. agg'[n].pc \notin {"notify", "create"}
    BY <1>1, <1>3 DEF AggList, Tick_
  <2> QED
    BY <1>2, <2>1, <2>2, <2>3
<1>4. CASE AggEvaluate(n)
  <2>1. UNCHANGED <<req, opener, lastEvent, window>>
    BY <1>4 DEF AggEvaluate
  <2>2. \A m \in Aggregator : m # n => agg'[m] = agg[m]
    BY <1>1, <1>4 DEF AggEvaluate
  <2>3. agg'[n].pc \notin {"notify", "create"}
    BY <1>1, <1>4, IdleTickType DEF AggEvaluate, Tick_
  <2> QED
    BY <1>2, <2>1, <2>2, <2>3
<1>5. CASE AggCheckDuress(n) \/ AggSetState(n)
  <2>1. UNCHANGED <<req, opener, lastEvent, window>>
    BY <1>5 DEF AggCheckDuress, AggSetState, SetVaultState
  <2>2. \A m \in Aggregator : m # n => agg'[m] = agg[m]
    BY <1>1, <1>5 DEF AggCheckDuress, AggSetState
  <2>3. agg'[n].pc \notin {"notify", "create"}
    BY <1>1, <1>5, IdleTickType DEF AggCheckDuress, AggSetState, TickState
  <2> QED
    BY <1>2, <2>1, <2>2, <2>3
<1>6. CASE AggNotify(n)
  <2>1. UNCHANGED <<req, opener, lastEvent, window>> /\ agg[n].pc = "notify"
    BY <1>6 DEF AggNotify
  <2>2. \A m \in Aggregator : m # n => agg'[m] = agg[m]
    BY <1>1, <1>6 DEF AggNotify
  <2> QED
    BY <1>2, <2>1, <2>2
<1>7. CASE AggClaim(n)
  <2>1. \A m \in Aggregator : m # n => agg'[m] = agg[m]
    BY <1>1, <1>7 DEF AggClaim
  <2>2. UNCHANGED <<req, opener, lastEvent>>
    BY <1>7 DEF AggClaim
  <2>3. \/ window' = window /\ agg'[n].pc = "idle"
        \/ window' = window + 1
    BY <1>1, <1>7, IdleTickType DEF AggClaim, ClaimVaultCoolingOff
  <2>4. Creating' \subseteq Creating \cup {n}
    BY <2>1, <2>2, WhoCreates
  <2> QED
    BY <1>2, <2>1, <2>2, <2>3, <2>4 DEF Counts
<1>8. CASE AggCreate(n)
  <2>1. \A m \in Aggregator : m # n => agg'[m] = agg[m]
    BY <1>1, <1>8 DEF AggCreate
  <2>2. UNCHANGED <<req, opener, window>> /\ lastEvent' = lastEvent + 1
    BY <1>8 DEF AggCreate, CreateReleaseEvent, NextEvent
  <2>3. agg[n].pc = "create" /\ agg'[n].pc = "idle"
    BY <1>1, <1>8, IdleTickType DEF AggCreate
  <2>4. n \in Creating /\ n \notin Request /\ n # 0
    BY <2>3, WhoCreates
  <2>5. Creating' \subseteq Creating \ {n}
    BY <2>1, <2>2, <2>3, <2>4, WhoCreates
  <2> QED
    BY <2>2, <2>4, <2>5 DEF Counts
<1> QED
  BY <1>3, <1>4, <1>5, <1>6, <1>7, <1>8 DEF AggStep

\* So is a panic release.
LEMMA PanicCounts ==
  ASSUME UNCHANGED pipeVars,
         \/ Heartbeat \/ ApplePing \/ BankPing \/ RespondBuddy
         \/ DuressFreeze \/ DuressDisarm \/ PanicBegin \/ PanicStep
  PROVE  Counts
<1> USE DEF pipeVars, dbVars, eventVars
<1>1. ASSUME UNCHANGED <<req, agg, lastEvent, window>>,
             opener'.pc \in {"notify", "create"} => opener.pc \in {"notify", "create"}
      PROVE  Counts
  BY <1>1, WhoCreates DEF Counts
<1>2. CASE \/ Heartbeat \/ ApplePing \/ BankPing \/ RespondBuddy
           \/ DuressFreeze \/ DuressDisarm
  BY <1>1, <1>2 DEF Heartbeat, ApplePing, BankPing, RespondBuddy, BuddyWorries, BuddySaysWell,
     DuressFreeze, DuressDisarm, aggVars
<1>3. CASE PanicBegin \/ PanicList \/ PanicNotify
  BY <1>1, <1>3 DEF PanicBegin, PanicList, PanicNotify, IdleOpener
<1>4. CASE PanicClaim
  <2>1. UNCHANGED <<req, agg, lastEvent>>
    BY <1>4 DEF PanicClaim
  <2>2. \/ window' = window /\ opener'.pc = "idle"
        \/ window' = window + 1
    BY <1>4 DEF PanicClaim, ClaimVaultCoolingOff, IdleOpener
  <2>3. Creating' \subseteq Creating \cup {0}
    BY <2>1, WhoCreates
  <2> QED
    BY <1>1, <2>1, <2>2, <2>3 DEF Counts
<1>5. CASE PanicCreate
  <2>1. UNCHANGED <<req, agg, window>> /\ lastEvent' = lastEvent + 1
    BY <1>5 DEF PanicCreate, CreateReleaseEvent, NextEvent
  <2>2. opener.pc = "create" /\ opener'.pc = "idle"
    BY <1>5 DEF PanicCreate, IdleOpener
  <2>3. 0 \in Creating /\ 0 \notin Request /\ 0 \notin Aggregator
    BY <2>2, WhoCreates
  <2>4. Creating' \subseteq Creating \ {0}
    BY <2>1, <2>2, <2>3, WhoCreates
  <2> QED
    BY <2>1, <2>3, <2>4 DEF Counts
<1> QED
  BY <1>2, <1>3, <1>4, <1>5 DEF PanicStep

\* Every step of the system keeps the count.
LEMMA EveryStepCounts ==
  ASSUME PipelineInv, AggInv, [SysNext]_sysVars
  PROVE  Counts
<1>1. CASE Running /\ UNCHANGED aggVars
  BY <1>1, PipelineCounts DEF Next, aggVars
<1>2. CASE AggNext /\ UNCHANGED pipeVars
  BY <1>2, TickCounts, PanicCounts DEF AggNext
<1>3. CASE (\E n \in Aggregator : SysAggFails(n)) \/ SysPanicFails
  <2>1. UNCHANGED <<req, lastEvent, window>>
    BY <1>3 DEF SysAggFails, SysPanicFails, AggFails, PanicFails, dbVars
  <2>2. \A m \in Aggregator : agg'[m] = agg[m] \/ agg'[m].pc = "idle"
    BY <1>3, IdleTickType DEF SysAggFails, SysPanicFails, AggFails, PanicFails, AggInv, AggTypeOK
  <2>3. opener' = opener \/ opener'.pc = "idle"
    BY <1>3 DEF SysAggFails, SysPanicFails, AggFails, PanicFails, IdleOpener
  <2>4. Creating' \subseteq Creating
    BY <2>1, <2>2, <2>3, WhoCreates
  <2> QED
    BY <2>1, <2>4 DEF Counts
<1>4. ASSUME NEW n \in Node, SysCrash(n) PROVE Counts
  <2>1. \A m \in Aggregator : agg'[m] = agg[m] \/ agg'[m].pc = "idle"
    BY <1>4, IdleTickType DEF SysCrash, AggCrash, AggInv, AggTypeOK
  <2>2. opener' = opener \/ opener'.pc = "idle"
    BY <1>4 DEF SysCrash, AggCrash, IdleOpener
  <2> QED
    BY <1>4, <2>1, <2>2, PipelineCounts DEF SysCrash, Next
<1>5. CASE UNCHANGED sysVars
  BY <1>5, PipelineCounts DEF sysVars, aggVars
<1> QED
  BY <1>1, <1>2, <1>3, <1>4, <1>5 DEF SysNext

-----------------------------------------------------------------------------
(* The theorems.                                                           *)

LEMMA SystemStarts == SysInit => SysInv
<1> SUFFICES ASSUME SysInit PROVE SysInv
  OBVIOUS
<1>1. PipelineInv
  BY InitInv DEF SysInit
<1>2. AggTypeOK /\ \A n \in Aggregator : agg[n].pc = "idle"
  BY IdleTickType DEF SysInit, AggInit, AggTypeOK, IdleOpener, OpenerState, OpenerPc, Watchable
<1>3. \A x : x \notin Creating
  BY <1>2, WhoCreates DEF SysInit, Init, IdleReq, Req, AggInit, IdleOpener
<1>4. Creating = {}
  BY <1>3
<1>5. IsFiniteSet(Creating) /\ Cardinality(Creating) = 0
  BY <1>4, FS_EmptySet
<1>6. lastEvent = 0 /\ window = 0
  BY DEF SysInit, Init, DbInit
<1>7. OneEventPerOpening
  BY <1>5, <1>6 DEF OneEventPerOpening
<1> QED
  BY <1>1, <1>2, <1>5, <1>7 DEF SysInv

\* The inductive invariant of pipeline and aggregator together.
THEOREM SystemInductive == SysSpec => []SysInv
<1>1. SysInv /\ [SysNext]_sysVars => SysInv'
  <2> SUFFICES ASSUME SysInv, [SysNext]_sysVars PROVE SysInv'
    OBVIOUS
  <2>1. PipelineInv /\ AggInv /\ lastEvent \in Nat /\ window \in Nat
    BY DEF SysInv, AggInv, Decided, PipelineInv, CoreInv, TypeOK, DbTypeOK
  <2>2. PipelineInv' /\ AggInv'
    BY <2>1, TogetherStep
  <2>3. (IsFiniteSet(Creating) /\ OneEventPerOpening)'
    BY <2>1, EveryStepCounts, CountKeeps DEF SysInv
  <2> QED
    BY <2>2, <2>3 DEF SysInv, AggInv, Decided
<1> QED
  BY SystemStarts, <1>1, PTL DEF SysSpec

\* What the pipeline promises it keeps in the aggregators' company: each letter
\* once per window, none before its deadline or while the vault cools off, and
\* RELEASED only when all are out (scheduler.rs).
THEOREM PipelineHoldsUp == SysSpec => []PipelineInv
<1>1. SysInv => PipelineInv
  BY DEF SysInv
<1> QED
  BY SystemInductive, <1>1, PTL

\* Types of the rows, of the workers' memory and of the ticks (scheduler.rs).
THEOREM SystemTypes == SysSpec => []SysTypeOK
<1>1. SysInv => SysTypeOK
  BY DEF SysInv, SysTypeOK, PipelineInv, CoreInv
<1> QED
  BY SystemInductive, <1>1, PTL

\* Whoever races for an entry into COOLING_OFF, requests, aggregators of a leader
\* and of a former one, or a panic release, it has one release event at most
\* (claim_vault_cooling_off).
THEOREM OneEventEach == SysSpec => []OneEventPerOpening
<1>1. SysInv => OneEventPerOpening
  BY DEF SysInv
<1> QED
  BY SystemInductive, <1>1, PTL

-----------------------------------------------------------------------------
(* Silence.                                                                *)

\* Without a buddy only heartbeat and bank speak up, each a class of its own.
LEMMA SilenceIsNoAlert ==
  ASSUME SilenceIsTooFew, buddy = 0, NEW last, NEW now
  PROVE  ~ShouldAlert(Observations(last, now))
<1> DEFINE obs == Observations(last, now)
           loud == {t \in DOMAIN obs : obs[t] >= 20}
           few == DOMAIN Weight \cap {"HEARTBEAT", "CDR"}
<1>1. /\ DOMAIN obs = DOMAIN Weight
      /\ \A t \in DOMAIN Weight : t \notin {"HEARTBEAT", "CDR"} => obs[t] = 0
  BY DEF Observations
<1>2. loud \subseteq few
  BY <1>1
<1>3. {IndependenceClass(s) : s \in loud} \subseteq few
  BY <1>2 DEF IndependenceClass
<1>4. IsFiniteSet({"HEARTBEAT", "CDR"})
  <2>1. IsFiniteSet({"HEARTBEAT"})
    BY FS_Singleton
  <2>2. IsFiniteSet({"HEARTBEAT"} \cup {"CDR"})
    BY <2>1, FS_AddElement
  <2>3. {"HEARTBEAT"} \cup {"CDR"} = {"HEARTBEAT", "CDR"}
    OBVIOUS
  <2> QED
    BY <2>2, <2>3
<1>5. IsFiniteSet(few) /\ Cardinality(few) \in Nat
  <2>1. few \in SUBSET {"HEARTBEAT", "CDR"}
    OBVIOUS
  <2>2. IsFiniteSet(few)
    BY <1>4, <2>1, FS_Subset
  <2> QED
    BY <2>2, FS_CardinalityType
<1> HIDE DEF few, loud
<1>6. /\ Cardinality({IndependenceClass(s) : s \in loud}) \in Nat
      /\ Cardinality({IndependenceClass(s) : s \in loud}) <= Cardinality(few)
  <2>1. {IndependenceClass(s) : s \in loud} \in SUBSET few
    BY <1>3
  <2>2. /\ IsFiniteSet({IndependenceClass(s) : s \in loud})
        /\ Cardinality({IndependenceClass(s) : s \in loud}) <= Cardinality(few)
    BY <1>5, <2>1, FS_Subset
  <2> QED
    BY <2>2, FS_CardinalityType
<1>7. Cardinality(few) < MinClasses /\ MinClasses \in Nat
  BY ScoreAssumption DEF SilenceIsTooFew, few
<1>8. ~(IndependentClasses(obs) >= MinClasses)
  BY <1>5, <1>6, <1>7 DEF IndependentClasses, loud
<1> QED
  BY <1>8 DEF ShouldAlert

\* Only an aggregator writes ALERT.
LEMMA PipelineRaisesNoAlert ==
  ASSUME [Next]_vars
  PROVE  vaultState' = "ALERT" => vaultState = "ALERT"
<1> USE DEF dbVars, ClaimVaultCoolingOff, ClaimVaultForRelease, SetVaultState
<1>1. ASSUME NEW r \in Request, RequestStep(r) \/ RequestFails(r)
      PROVE  vaultState' = "ALERT" => vaultState = "ALERT"
  BY <1>1 DEF RequestStep, RequestWins, RequestConflict, RequestCreate, CancelSetActive,
     CancelFetchOpen, CancelMark, RequestFails
<1>2. ASSUME \/ \E e \in Event : TimerStep(e)
             \/ \E n \in Node : PollStep(n) \/ Crash(n)
             \/ \E w \in Worker : PerformStep(w) \/ PerformFails(w)
      PROVE  vaultState' = "ALERT" => vaultState = "ALERT"
  BY <1>2 DEF TimerStep, TimerWins, TimerAbandons, PollStep, PollList, PollWins, PollSkips,
     PerformStep, Deliver, SetReleased, MarkReleased, ReturnActive, PerformFails, Crash
<1>3. ASSUME \/ (Tick /\ UNCHANGED pipeVars) \/ UNCHANGED vars
             \/ \E r \in Request, n \in Node, drill \in BOOLEAN : RequestBegin(r, n, drill)
             \/ \E r \in Request, n \in Node : CancelBegin(r, n)
      PROVE  vaultState' = vaultState
  BY <1>3 DEF Tick, vars, RequestBegin, CancelBegin
<1> QED
  BY <1>1, <1>2, <1>3 DEF Next, Running

\* What a tick holds in silence: what it read and decided is no alert.
Calm(t) == t.seen # "ALERT" /\ t.next \notin {"ALERT", "COOLING_OFF"}

LEMMA TicksAreCalm ==
  ASSUME SilenceIsTooFew, AggInv, buddy = 0, vaultState # "ALERT",
         \A m \in Aggregator : Calm(agg[m]),
         NEW n \in Aggregator, AggStep(n)
  PROVE  vaultState' # "ALERT" /\ \A m \in Aggregator : Calm(agg'[m])
<1> USE DEF dbVars, eventVars
<1>1. agg \in [Aggregator -> TickState]
  BY DEF AggInv, AggTypeOK
<1>2. Calm(IdleTick)
  BY DEF Calm, IdleTick, Tick_
<1>3. CASE AggList(n)
  <2>1. Calm(agg'[n]) /\ vaultState' = vaultState
    BY <1>1, <1>3 DEF AggList, Calm, Tick_
  <2>2. \A m \in Aggregator : m # n => agg'[m] = agg[m]
    BY <1>1, <1>3 DEF AggList
  <2> QED
    BY <2>1, <2>2
<1>4. CASE AggEvaluate(n)
  <2> DEFINE obs == Observations(agg[n].last, agg[n].now)
             next == Evaluate(agg[n].seen, obs)
  <2>1. /\ vaultState' = vaultState
        /\ agg' = [agg EXCEPT ![n] =
              IF next = agg[n].seen THEN IdleTick
              ELSE Tick_(IF next = "COOLING_OFF" THEN "checkDuress" ELSE "setState",
                     agg[n].seen, agg[n].last, agg[n].now, next, 0)]
    BY <1>4 DEF AggEvaluate
  <2>2. ~ShouldAlert(obs)
    BY SilenceIsNoAlert
  <2>3. agg[n].seen \in Watchable /\ agg[n].seen # "ALERT"
    BY TickType DEF Calm
  <2>4. next \notin {"ALERT", "COOLING_OFF"}
    BY <2>2, <2>3, EvaluateType
  <2> HIDE DEF next
  <2>5. Calm(agg'[n])
    BY <1>1, <1>2, <2>1, <2>3, <2>4 DEF Calm, Tick_
  <2>6. \A m \in Aggregator : m # n => agg'[m] = agg[m]
    BY <1>1, <2>1
  <2> QED
    BY <2>1, <2>5, <2>6
<1>5. CASE AggCheckDuress(n) \/ AggClaim(n)
  <2>1. vaultState' # "ALERT"
    BY <1>5 DEF AggCheckDuress, AggClaim, ClaimVaultCoolingOff
  <2>2. \A m \in Aggregator :
          \/ agg'[m] = IdleTick
          \/ agg'[m].seen = agg[m].seen /\ agg'[m].next = agg[m].next
    BY <1>1, <1>5 DEF AggCheckDuress, AggClaim, TickState
  <2> QED
    BY <1>2, <2>1, <2>2 DEF Calm
<1>6. CASE AggNotify(n)
  <2>1. vaultState' = vaultState
    BY <1>6 DEF AggNotify
  <2>2. \A m \in Aggregator : agg'[m].seen = agg[m].seen /\ agg'[m].next = agg[m].next
    BY <1>1, <1>6 DEF AggNotify, TickState
  <2> QED
    BY <2>1, <2>2 DEF Calm
<1>7. CASE AggCreate(n) \/ AggSetState(n)
  <2>1. vaultState' # "ALERT"
    BY <1>7 DEF AggCreate, AggSetState, SetVaultState, Calm
  <2>2. \A m \in Aggregator : agg'[m] = IdleTick \/ agg'[m] = agg[m]
    BY <1>1, <1>7 DEF AggCreate, AggSetState
  <2> QED
    BY <1>2, <2>1, <2>2
<1> QED
  BY <1>3, <1>4, <1>5, <1>6, <1>7 DEF AggStep

\* No step of a silent principal's system raises an alert.
LEMMA SilenceStep ==
  ASSUME SilenceIsTooFew, AggInv, SilenceInv, [SysNext]_sysVars
  PROVE  SilenceInv'
<1> SUFFICES ASSUME buddy' = 0
             PROVE  vaultState' # "ALERT" /\ \A m \in Aggregator : Calm(agg'[m])
  BY DEF SilenceInv, SilenceAloneNeverTrips, Calm
<1> USE DEF dbVars, signalVars, aggVars
<1>1. buddy = 0 => vaultState # "ALERT" /\ \A m \in Aggregator : Calm(agg[m])
  BY DEF SilenceInv, SilenceAloneNeverTrips, Calm
<1>2. Calm(IdleTick)
  BY DEF Calm, IdleTick, Tick_
<1>3. CASE Running /\ UNCHANGED aggVars
  BY <1>1, <1>3, PipelineRaisesNoAlert DEF Next
<1>4. ASSUME NEW n \in Aggregator, AggStep(n), UNCHANGED pipeVars
      PROVE  vaultState' # "ALERT" /\ \A m \in Aggregator : Calm(agg'[m])
  <2>1. buddy' = buddy
    BY <1>4 DEF AggStep, AggList, AggEvaluate, AggCheckDuress, AggClaim, AggNotify, AggCreate,
       AggSetState
  <2> QED
    BY <1>1, <1>4, <2>1, TicksAreCalm
<1>5. CASE \/ Heartbeat \/ ApplePing \/ BankPing \/ RespondBuddy
           \/ DuressFreeze \/ DuressDisarm \/ PanicBegin \/ PanicStep
  <2>1. agg' = agg /\ buddy = 0
    <3>1. CASE RespondBuddy
      <4>1. buddy \in {0, 20, 35}
        BY DEF AggInv, AggTypeOK
      <4> QED
        BY <3>1, <4>1 DEF RespondBuddy, BuddyWorries, BuddySaysWell
    <3>2. CASE \/ Heartbeat \/ ApplePing \/ BankPing
               \/ DuressFreeze \/ DuressDisarm \/ PanicBegin \/ PanicStep
      BY <3>2 DEF Heartbeat, ApplePing, BankPing, DuressFreeze, DuressDisarm, PanicBegin,
         PanicStep, PanicList, PanicClaim, PanicNotify, PanicCreate
    <3> QED
      BY <1>5, <3>1, <3>2
  <2>2. vaultState' = vaultState \/ vaultState' = "COOLING_OFF"
    BY <1>5 DEF Heartbeat, ApplePing, BankPing, RespondBuddy, BuddyWorries, BuddySaysWell,
       DuressFreeze, DuressDisarm, PanicBegin, PanicStep, PanicList, PanicClaim, PanicNotify,
       PanicCreate, ClaimVaultCoolingOff
  <2> QED
    BY <1>1, <2>1, <2>2
<1>6. CASE (\E n \in Aggregator : SysAggFails(n)) \/ SysPanicFails
  <2>1. buddy' = buddy /\ vaultState' = vaultState
    BY <1>6 DEF SysAggFails, SysPanicFails, AggFails, PanicFails
  <2>2. \A m \in Aggregator : agg'[m] = agg[m] \/ agg'[m] = IdleTick
    BY <1>6 DEF SysAggFails, SysPanicFails, AggFails, PanicFails, AggInv, AggTypeOK
  <2> QED
    BY <1>1, <1>2, <2>1, <2>2
<1>7. ASSUME NEW n \in Node, SysCrash(n)
      PROVE  vaultState' # "ALERT" /\ \A m \in Aggregator : Calm(agg'[m])
  <2>1. buddy' = buddy /\ vaultState' = vaultState
    BY <1>7 DEF SysCrash, AggCrash
  <2>2. \A m \in Aggregator : agg'[m] = agg[m] \/ agg'[m] = IdleTick
    BY <1>7 DEF SysCrash, AggCrash
  <2> QED
    BY <1>1, <1>2, <2>1, <2>2
<1>8. CASE UNCHANGED sysVars
  BY <1>1, <1>8 DEF sysVars, vars
<1> QED
  BY <1>3, <1>4, <1>5, <1>6, <1>7, <1>8 DEF SysNext, AggNext

\* Where heartbeat and bank are fewer classes than an alert asks for, no length of
\* silence raises ALERT or opens a cooling-off until a buddy worries, whatever an
\* aggregator read before whoever wrote what (score, evaluate, aggregator_tick).
THEOREM SilenceNeverTrips == SilenceIsTooFew => (SysSpec => []SilenceAloneNeverTrips)
<1> SUFFICES ASSUME SilenceIsTooFew PROVE SysSpec => []SilenceAloneNeverTrips
  OBVIOUS
<1>1. SysInit => SilenceInv
  BY DEF SysInit, Init, DbInit, AggInit, SilenceInv, SilenceAloneNeverTrips, IdleTick, Tick_
<1>2. SysInv /\ SilenceInv /\ [SysNext]_sysVars => SilenceInv'
  BY SilenceStep DEF SysInv, AggInv, Decided
<1>3. SilenceInv => SilenceAloneNeverTrips
  BY DEF SilenceInv
<1> QED
  BY SystemInductive, <1>1, <1>2, <1>3, PTL DEF SysSpec

-----------------------------------------------------------------------------
(* Check-ins.                                                              *)

\* A tick stays with what it listed until it has evaluated it.
Listed(t, u) == u.pc # "evaluate" \/ u = t

\* A step that is no listing leaves the ticks that evaluate with what they read.
LEMMA TicksKeepListing ==
  ASSUME AggInv, NEW n \in Aggregator,
         \/ AggEvaluate(n) \/ AggCheckDuress(n) \/ AggClaim(n) \/ AggNotify(n) \/ AggCreate(n)
         \/ AggSetState(n)
  PROVE  /\ UNCHANGED <<attested, vouched, clock>>
         /\ \A m \in Aggregator : Listed(agg[m], agg'[m])
<1> USE DEF dbVars, signalVars, Listed
<1>1. agg \in [Aggregator -> TickState] /\ IdleTick.pc = "idle"
  BY IdleTickType DEF AggInv, AggTypeOK
<1>2. CASE AggEvaluate(n)
  <2> DEFINE next == Evaluate(agg[n].seen, Observations(agg[n].last, agg[n].now))
             t == IF next = agg[n].seen THEN IdleTick
                  ELSE Tick_(IF next = "COOLING_OFF" THEN "checkDuress" ELSE "setState",
                             agg[n].seen, agg[n].last, agg[n].now, next, 0)
  <2>1. agg' = [agg EXCEPT ![n] = t] /\ UNCHANGED <<attested, vouched, clock>>
    BY <1>2 DEF AggEvaluate
  <2>2. t.pc # "evaluate"
    BY <1>1 DEF Tick_
  <2> HIDE DEF t
  <2> QED
    BY <1>1, <2>1, <2>2
<1>3. CASE AggCheckDuress(n) \/ AggClaim(n) \/ AggNotify(n) \/ AggCreate(n) \/ AggSetState(n)
  <2>1. UNCHANGED <<attested, vouched, clock>>
    BY <1>3 DEF AggCheckDuress, AggClaim, AggNotify, AggCreate, AggSetState
  <2>2. PICK t : t.pc # "evaluate" /\ agg' = [agg EXCEPT ![n] = t]
    <3>1. \A pc : [agg[n] EXCEPT !.pc = pc].pc = pc
      BY <1>1 DEF TickState
    <3>2. CASE AggCheckDuress(n)
      BY <1>1, <3>1, <3>2 DEF AggCheckDuress
    <3>3. CASE AggClaim(n)
      BY <1>1, <3>1, <3>3 DEF AggClaim
    <3>4. CASE AggNotify(n)
      <4>1. PICK u : u = [agg[n] EXCEPT !.pc = "create", !.endsAt = EndsAt]
        OBVIOUS
      <4>2. u.pc = "create"
        BY <1>1, <4>1 DEF TickState
      <4>3. agg' = [agg EXCEPT ![n] = u]
        BY <3>4, <4>1 DEF AggNotify
      <4> QED
        BY <4>2, <4>3
    <3>5. CASE AggCreate(n) \/ AggSetState(n)
      BY <1>1, <3>5 DEF AggCreate, AggSetState
    <3> QED
      BY <1>3, <3>2, <3>3, <3>4, <3>5
  <2> QED
    BY <1>1, <2>1, <2>2
<1> QED
  BY <1>2, <1>3

\* Only time and a check-in change what the listing of a tick is compared with,
\* and a check-in is stamped no earlier than any listing.
LEMMA CheckInStep ==
  ASSUME PipelineInv, AggInv, CheckInInv, [SysNext]_sysVars
  PROVE  CheckInInv'
<1> USE DEF dbVars, signalVars, aggVars
<1>0. clock \in Nat
  BY DEF PipelineInv, CoreInv, TypeOK, DbTypeOK
<1>1. agg \in [Aggregator -> TickState]
  BY DEF AggInv, AggTypeOK
<1>2. ASSUME UNCHANGED <<attested, vouched>>, clock' \in Nat, clock <= clock',
             \A m \in Aggregator : Listed(agg[m], agg'[m])
      PROVE  CheckInInv'
  <2>1. \A m \in Aggregator : agg[m].now \in Nat
    BY <1>1 DEF TickState
  <2> QED
    BY <1>0, <1>2, <2>1 DEF CheckInInv, Listed
<1>3. CASE Running /\ UNCHANGED aggVars
  <2>1. clock' \in Nat /\ clock <= clock'
    BY <1>3, DueIsStable DEF Next, PipelineInv
  <2> QED
    BY <1>2, <1>3, <2>1 DEF Listed
<1>4. ASSUME NEW n \in Aggregator, AggStep(n), UNCHANGED pipeVars
      PROVE  CheckInInv'
  <2>1. CASE AggList(n)
    <3>1. /\ agg' = [agg EXCEPT ![n] =
                       Tick_(IF RegionListed THEN "evaluate" ELSE "panicked",
                             vaultState, attested, clock, "ACTIVE", 0)]
          /\ UNCHANGED <<attested, vouched, clock>>
      BY <2>1 DEF AggList
    <3>2. agg'[n].last = attested /\ agg'[n].now = clock
      BY <1>1, <3>1 DEF Tick_
    <3>3. \A m \in Aggregator : m # n => agg'[m] = agg[m]
      BY <1>1, <3>1
    <3> QED
      BY <1>0, <3>1, <3>2, <3>3 DEF CheckInInv
  <2>2. CASE ~AggList(n)
    BY <1>0, <1>2, <1>4, <2>2, TicksKeepListing DEF AggStep
  <2> QED
    BY <2>1, <2>2
<1>5. CASE Heartbeat \/ (RespondBuddy /\ attested' = clock)
  <2>1. attested' = clock /\ vouched' = clock /\ agg' = agg /\ clock' = clock
    BY <1>5 DEF Heartbeat, RespondBuddy, BuddyWorries, BuddySaysWell, CheckInInv
  <2> QED
    BY <1>0, <1>1, <2>1 DEF CheckInInv, TickState
<1>6. CASE \/ ApplePing \/ BankPing \/ (RespondBuddy /\ attested' # clock)
           \/ DuressFreeze \/ DuressDisarm \/ PanicBegin \/ PanicStep
  <2>1. UNCHANGED <<attested, vouched, agg, clock>>
    BY <1>6 DEF ApplePing, BankPing, RespondBuddy, BuddyWorries, BuddySaysWell, DuressFreeze,
       DuressDisarm, PanicBegin, PanicStep, PanicList, PanicClaim, PanicNotify, PanicCreate
  <2> QED
    BY <1>0, <1>2, <2>1 DEF Listed
<1>7. CASE (\E n \in Aggregator : SysAggFails(n)) \/ SysPanicFails
  <2>1. /\ UNCHANGED <<attested, vouched, clock>>
        /\ \A m \in Aggregator : agg'[m] = agg[m] \/ agg'[m] = IdleTick
    BY <1>1, <1>7 DEF SysAggFails, SysPanicFails, AggFails, PanicFails
  <2> QED
    BY <1>0, <1>2, <2>1, IdleTickType DEF Listed
<1>8. ASSUME NEW n \in Node, SysCrash(n)
      PROVE  CheckInInv'
  <2>1. /\ UNCHANGED <<attested, vouched, clock>>
        /\ \A m \in Aggregator : agg'[m] = agg[m] \/ agg'[m] = IdleTick
    BY <1>8 DEF SysCrash, AggCrash
  <2> QED
    BY <1>0, <1>2, <2>1, IdleTickType DEF Listed
<1>9. CASE UNCHANGED sysVars
  BY <1>0, <1>2, <1>9 DEF sysVars, vars, Listed
<1> QED
  BY <1>3, <1>4, <1>5, <1>6, <1>7, <1>8, <1>9 DEF SysNext, AggNext

\* Without a buddy's worries, less than half a gap of silence is at most the
\* silence of half a gap.
LEMMA FreshIsCalm ==
  ASSUME HalfGapIsCalm, buddy = 0, NEW last \in Nat, NEW now \in Nat,
         last <= now, 2 * (now - last) < MaxGap
  PROVE  Evaluate("ACTIVE", Observations(last, now)) = "ACTIVE"
<1>1. /\ now - last \in Nat /\ (MaxGap - 1) \div 2 \in Nat
      /\ now - last <= (MaxGap - 1) \div 2
  BY ScoreAssumption
<1>2. PICK half \in Nat : half = (MaxGap - 1) \div 2 /\ now - last <= half
  BY <1>1
<1>3. /\ Staleness(now - last) \in Nat /\ Staleness(half) \in Nat
      /\ Staleness(now - last) <= Staleness(half)
  BY <1>1, <1>2, StalenessGrows
<1>4. Observations(last, now) \in Evidence /\ HalfGapSilence \in Evidence
  BY <1>2, <1>3 DEF Observations, HalfGapSilence, Evidence
<1>5. AtMost(Observations(last, now), HalfGapSilence)
  BY <1>2, <1>3 DEF Observations, HalfGapSilence, AtMost
<1>6. Threshold * 50 \in Nat
  BY ScoreAssumption
<1>7. ~ScoreAtLeast(Observations(last, now), Threshold * 50)
  BY <1>4, <1>5, <1>6, LevelGrows DEF HalfGapIsCalm
<1>8. ~SoftThreshold(Observations(last, now))
  BY <1>7 DEF SoftThreshold
<1>9. ~ShouldAlert(Observations(last, now))
  BY <1>4, <1>8, AlarmsNest
<1> QED
  BY <1>8, <1>9 DEF Evaluate

\* Where nearly half a gap of silence stays under half of the threshold, no
\* aggregator takes a vault out of ACTIVE within half a gap of a heartbeat or a
\* WELL, however its tick and the check-in interleave (aggregator_tick, evaluate).
THEOREM CheckInHolds == HalfGapIsCalm => (SysSpec => []CheckInKeepsActive)
<1> SUFFICES ASSUME HalfGapIsCalm PROVE SysSpec => []CheckInKeepsActive
  OBVIOUS
<1>1. SysInit => CheckInInv
  BY DEF SysInit, Init, DbInit, AggInit, CheckInInv, IdleTick, Tick_
<1>2. SysInv /\ CheckInInv /\ [SysNext]_sysVars => CheckInInv'
  <2>1. SysInv => AggInv
    BY DEF SysInv, AggInv, Decided
  <2> QED
    BY <2>1, CheckInStep DEF SysInv
<1>3. SysInv /\ CheckInInv => CheckInKeepsActive
  <2> SUFFICES ASSUME SysInv, CheckInInv, NEW n \in Aggregator,
                      agg[n].pc = "evaluate", buddy = 0,
                      vouched < agg[n].now, 2 * (agg[n].now - vouched) < MaxGap
               PROVE  Evaluate("ACTIVE", Observations(agg[n].last, agg[n].now)) = "ACTIVE"
    BY DEF CheckInKeepsActive
  <2>1. agg[n].last \in Nat /\ agg[n].now \in Nat /\ vouched \in Nat
    BY DEF SysInv, AggTypeOK, TickState
  <2>2. vouched = agg[n].last /\ agg[n].last <= agg[n].now
    BY <2>1 DEF CheckInInv
  <2> QED
    BY <2>1, <2>2, FreshIsCalm
<1> QED
  BY SystemInductive, <1>1, <1>2, <1>3, PTL DEF SysSpec

\* The weight of the subscription to a source, 0 without one.
WeightOf(s) == IF s \in DOMAIN Weight THEN Weight[s] ELSE 0

LEMMA WeightType == \A s : WeightOf(s) \in 0..100
<1> SUFFICES ASSUME NEW s PROVE WeightOf(s) \in 0..100
  OBVIOUS
<1>1. CASE s \in DOMAIN Weight
  BY <1>1, ScoreAssumption DEF WeightOf
<1>2. CASE s \notin DOMAIN Weight
  BY <1>2 DEF WeightOf
<1> QED
  BY <1>1, <1>2

\* Half a gap is calm wherever the weights of heartbeat and bank, squared and
\* added, are within the square of the threshold: the defaults of 0.30 and 0.25
\* with a threshold of 0.7 are (default_weight, trigger_threshold).
LEMMA LightWeightsAreCalm ==
  ASSUME WeightOf("HEARTBEAT") * WeightOf("HEARTBEAT") + WeightOf("CDR") * WeightOf("CDR")
           <= Threshold * Threshold
  PROVE  HalfGapIsCalm
<1> USE ScoreAssumption
<1>1. PICK half \in Nat : half = (MaxGap - 1) \div 2 /\ 2 * half < MaxGap
  <2>1. (MaxGap - 1) \div 2 \in Nat /\ 2 * ((MaxGap - 1) \div 2) < MaxGap
    OBVIOUS
  <2> QED
    BY <2>1
<1>2. PICK h \in 0..49 : h = Staleness(half)
  <2>1. (half * 100) \div MaxGap \in 0..49
    BY <1>1
  <2> QED
    BY <1>1, <2>1 DEF Staleness
<1>3. PICK wH \in 0..100, wC \in 0..100 : wH = WeightOf("HEARTBEAT") /\ wC = WeightOf("CDR")
  BY WeightType, Zenon
<1>4. \A s : Squared(HalfGapSilence, s) =
               IF s = "HEARTBEAT" THEN (wH * h) * (wH * h)
               ELSE IF s = "CDR" THEN (wC * h) * (wC * h) ELSE 0
  <2> SUFFICES ASSUME NEW s
               PROVE  Squared(HalfGapSilence, s) =
                        IF s = "HEARTBEAT" THEN (wH * h) * (wH * h)
                        ELSE IF s = "CDR" THEN (wC * h) * (wC * h) ELSE 0
    OBVIOUS
  <2>1. CASE s \in DOMAIN Weight
    <3>1. /\ s \in DOMAIN HalfGapSilence
          /\ HalfGapSilence[s] = IF s \in {"HEARTBEAT", "CDR"} THEN h ELSE 0
      BY <1>1, <1>2, <2>1 DEF HalfGapSilence
    <3>2. Weight[s] \in 0..100
      BY <2>1
    <3>3. /\ s = "HEARTBEAT" => Weight[s] = wH
          /\ s = "CDR" => Weight[s] = wC
      BY <1>3, <2>1 DEF WeightOf
    <3> QED
      BY <3>1, <3>2, <3>3 DEF Squared
  <2>2. CASE s \notin DOMAIN Weight
    <3>1. (s = "HEARTBEAT" => wH = 0) /\ (s = "CDR" => wC = 0)
      BY <1>3, <2>2 DEF WeightOf
    <3>2. s \notin DOMAIN HalfGapSilence
      BY <2>2 DEF HalfGapSilence
    <3> QED
      BY <3>1, <3>2 DEF Squared
  <2> QED
    BY <2>1, <2>2
<1>5. SumOfSquares(HalfGapSilence) = (wH * h) * (wH * h) + (wC * h) * (wC * h)
  BY <1>4 DEF SumOfSquares
<1>6. (wH * h) * (wH * h) + (wC * h) * (wC * h) = (h * h) * (wH * wH + wC * wC)
  OBVIOUS
<1>7. PICK w \in Nat : w = wH * wH + wC * wC /\ w <= Threshold * Threshold
  BY <1>3
<1>8. (h * h) * w <= 2401 * (Threshold * Threshold)
  <2>1. h * h \in 0..2401
    OBVIOUS
  <2>2. (h * h) * w <= 2401 * w
    BY <2>1
  <2> QED
    BY <1>7, <2>2
<1>9. 2401 * (Threshold * Threshold) < (Threshold * 50) * (Threshold * 50)
  OBVIOUS
<1> QED
  BY <1>5, <1>6, <1>7, <1>8, <1>9 DEF HalfGapIsCalm, ScoreAtLeast

-----------------------------------------------------------------------------
(* A release runs its course.                                              *)

\* What a step does to the state of the vault when nobody steers it.
Course ==
  \/ vaultState' = vaultState
  \/ vaultState \in Watchable /\ vaultState' = "COOLING_OFF"
  \/ vaultState = "COOLING_OFF" /\ vaultState' = "RELEASING"
  \/ vaultState \in {"RELEASING", "RELEASED"} /\ vaultState' = "RELEASED"

\* Who performs after the step has claimed the vault by it, or performed before.
Claimant(w) ==
  job'[w].pc \in Performing =>
    /\ job'[w].pc # "returnActive"
    /\ vaultState' = "RELEASING" \/ IsPerforming(w)

\* The requests of a principal who only ever force-releases.
LEMMA CourseOfRequests ==
  ASSUME PipelineInv, CourseInv, Ops \subseteq {"release"}, [Next]_vars
  PROVE  \A r \in Request : req'[r].pc \in {"idle", "claim", "create"} /\ ~req'[r].drill
<1> USE DEF CourseInv
<1>1. req \in [Request -> ReqState]
  BY DEF PipelineInv, CoreInv, TypeOK
<1>2. IdleReq.pc = "idle" /\ ~IdleReq.drill
  BY DEF IdleReq, Req
<1>3. ASSUME NEW r \in Request, NEW n \in Node, NEW drill \in BOOLEAN, RequestBegin(r, n, drill)
      PROVE  \A o \in Request : req'[o].pc \in {"idle", "claim", "create"} /\ ~req'[o].drill
  <2>1. ~drill
    BY <1>3 DEF RequestBegin
  <2>2. PICK q \in {Req("claim", n, drill, clock + CoolOf(drill), NoEvent)} :
          req' = [req EXCEPT ![r] = q]
    BY <1>3 DEF RequestBegin
  <2>3. q.pc = "claim" /\ ~q.drill
    BY <2>1, <2>2 DEF Req
  <2>4. \A o \in Request : req'[o] = IF o = r THEN q ELSE req[o]
    BY <1>1, <2>2
  <2> QED
    BY <2>3, <2>4
<1>4. ASSUME NEW r \in Request, NEW n \in Node, CancelBegin(r, n) PROVE FALSE
  BY <1>4 DEF CancelBegin
<1>5. ASSUME NEW r \in Request, RequestWins(r)
      PROVE  \A o \in Request : req'[o].pc \in {"idle", "claim", "create"} /\ ~req'[o].drill
  <2>1. \A o \in Request : req'[o] = IF o = r THEN [req[r] EXCEPT !.pc = "create"] ELSE req[o]
    BY <1>1, <1>5 DEF RequestWins, ReqGoto
  <2>2. [req[r] EXCEPT !.pc = "create"].pc = "create"
        /\ [req[r] EXCEPT !.pc = "create"].drill = req[r].drill
    BY <1>1 DEF ReqState
  <2> QED
    BY <2>1, <2>2
<1>6. ASSUME NEW r \in Request, RequestConflict(r) \/ RequestCreate(r) \/ RequestFails(r)
      PROVE  \A o \in Request : req'[o].pc \in {"idle", "claim", "create"} /\ ~req'[o].drill
  <2>1. \A o \in Request : req'[o] = IF o = r THEN IdleReq ELSE req[o]
    BY <1>1, <1>6 DEF RequestConflict, RequestCreate, RequestFails, ReqDone
  <2> QED
    BY <1>2, <2>1
<1>7. ASSUME NEW r \in Request, CancelSetActive(r) \/ CancelFetchOpen(r) \/ CancelMark(r)
      PROVE  FALSE
  BY <1>7 DEF CancelSetActive, CancelFetchOpen, CancelMark, ReqAt
<1>8. ASSUME NEW n \in Node, Crash(n)
      PROVE  \A o \in Request : req'[o].pc \in {"idle", "claim", "create"} /\ ~req'[o].drill
  <2>1. \A o \in Request : req'[o] = IF req[o].node = n THEN IdleReq ELSE req[o]
    BY <1>8 DEF Crash
  <2> QED
    BY <1>2, <2>1
<1>9. CASE \/ \E e \in Event : TimerStep(e)
           \/ \E n \in Node : PollStep(n)
           \/ \E w \in Worker : PerformStep(w) \/ PerformFails(w)
           \/ (Tick /\ UNCHANGED pipeVars) \/ UNCHANGED vars
  <2>1. req' = req
    BY <1>9 DEF TimerStep, TimerWins, TimerAbandons, PollStep, PollList, PollWins, PollSkips,
       PerformStep, Deliver, SetReleased, MarkReleased, ReturnActive, PerformFails, pipeVars, vars
  <2> QED
    BY <2>1
<1> QED
  BY <1>3, <1>4, <1>5, <1>6, <1>7, <1>8, <1>9 DEF Next, Running, RequestStep

\* Every event they make is a real release.
LEMMA CourseOfEvents ==
  ASSUME PipelineInv, CourseInv, [Next]_vars
  PROVE  \A e \in Created' : ~event'[e].drill
<1>1. lastEvent \in Nat /\ event \in [Event -> EventRow] /\ lastEvent \in 0..MaxReleases
  BY DEF PipelineInv, CoreInv, TypeOK, DbTypeOK
<1>2. ASSUME NEW r \in Request, RequestCreate(r)
      PROVE  \A e \in Created' : ~event'[e].drill
  <2>1. PICK row \in {[drill |-> req[r].drill, deadline |-> req[r].endsAt]} :
          /\ lastEvent' = lastEvent + 1 /\ lastEvent + 1 \in Event
          /\ event' = [event EXCEPT ![lastEvent + 1] = row]
    BY <1>1, <1>2 DEF RequestCreate, CreateReleaseEvent, NextEvent, Event
  <2>2. ~row.drill
    BY <2>1 DEF CourseInv
  <2>3. \A e \in Event : event'[e] = IF e = lastEvent + 1 THEN row ELSE event[e]
    BY <1>1, <2>1
  <2> QED
    BY <1>1, <2>1, <2>2, <2>3 DEF CourseInv, Created, Event
<1>3. CASE ~\E r \in Request : RequestCreate(r)
  <2>1. event' = event /\ lastEvent' = lastEvent
    BY <1>3 DEF Next, Running, RequestStep, TimerStep, PollStep, PerformStep, Tick, RequestBegin,
       CancelBegin, RequestWins, RequestConflict, RequestFails, CancelSetActive, CancelFetchOpen,
       CancelMark, TimerWins, TimerAbandons, PollList, PollWins, PollSkips, Deliver, SetReleased,
       MarkReleased, ReturnActive, PerformFails, Crash, MarkReleaseReleased, MarkReleaseCancelled,
       vars, dbVars, eventVars
  <2> QED
    BY <2>1 DEF CourseInv, Created
<1> QED
  BY <1>2, <1>3


\* Of the pipeline's steps only a claim, and who won it, writes the state.
LEMMA CourseOfPipeline ==
  ASSUME PipelineInv, CourseInv, [Next]_vars
  PROVE  Course /\ \A w \in Worker : Claimant(w)
<1> USE DEF Course, Claimant, dbVars, eventVars
<1>1. job \in [Worker -> JobState] /\ lastEvent \in Nat
  BY DEF PipelineInv, CoreInv, TypeOK, DbTypeOK
<1>2. \A w \in Worker : IsPerforming(w) =>
        job[w].pc # "returnActive" /\ vaultState \in {"RELEASING", "RELEASED"}
  BY DEF CourseInv
<1>3. \A w \in Worker : job'[w] = job[w] => Claimant(w)
  BY <1>2 DEF IsPerforming
<1>4. ASSUME NEW v \in Worker, ClaimVaultForRelease,
             \E e \in Event : StartPerform(v, e)
      PROVE  Course /\ \A w \in Worker : Claimant(w)
  <2>1. Course /\ vaultState' = "RELEASING"
    BY <1>4 DEF ClaimVaultForRelease
  <2>2. PICK j \in {Job("deliver", e, window, Letter) : e \in Event} :
          job' = [job EXCEPT ![v] = j]
    BY <1>4 DEF StartPerform
  <2>3. j.pc = "deliver"
    BY DEF Job
  <2>4. \A w \in Worker : job'[w] = IF w = v THEN j ELSE job[w]
    BY <1>1, <2>2
  <2> QED
    BY <1>2, <2>1, <2>3, <2>4 DEF IsPerforming
<1>5. ASSUME NEW r \in Request, RequestWins(r)
      PROVE  Course /\ \A w \in Worker : Claimant(w)
  <2>1. job' = job /\ vaultState = "ACTIVE" /\ vaultState' = "COOLING_OFF"
    BY <1>5 DEF RequestWins, ClaimVaultCoolingOff
  <2> QED
    BY <1>3, <2>1 DEF Watchable
<1>6. ASSUME NEW v \in Worker, SetReleased(v)
      PROVE  Course /\ \A w \in Worker : Claimant(w)
  <2>1. IsPerforming(v) /\ vaultState' = "RELEASED"
    BY <1>6 DEF SetReleased, SetVaultState, IsPerforming, Performing
  <2>2. job'[v].pc = "markReleased" /\ \A w \in Worker : w # v => job'[w] = job[w]
    BY <1>1, <1>6 DEF SetReleased, JobState
  <2> QED
    BY <1>2, <1>3, <2>1, <2>2
<1>7. ASSUME NEW v \in Worker, MarkReleased(v)
      PROVE  Course /\ \A w \in Worker : Claimant(w)
  <2>1. IsPerforming(v) /\ job[v].event \in Created /\ vaultState' = vaultState
    BY <1>7 DEF MarkReleased, IsPerforming, Performing, PipelineInv, CoreInv, DeliveryInv
  <2>2. job' = [job EXCEPT ![v] = AfterJob(v)]
    BY <1>7, <2>1 DEF MarkReleased, CourseInv
  <2>3. AfterJob(v).pc \notin Performing
    BY DEF AfterJob, ListingJob, Job, Performing
  <2>4. job'[v].pc \notin Performing /\ \A w \in Worker : w # v => job'[w] = job[w]
    BY <1>1, <2>2, <2>3
  <2> QED
    BY <1>3, <2>1, <2>4
<1>8. ASSUME NEW v \in Worker, NEW l \in Letter, Deliver(v, l)
      PROVE  Course /\ \A w \in Worker : Claimant(w)
  <2>1. vaultState' = vaultState /\ \A w \in Worker : job'[w].pc = job[w].pc
    BY <1>1, <1>8 DEF Deliver, JobState
  <2> QED
    BY <1>2, <2>1 DEF IsPerforming
<1>9. ASSUME NEW v \in Worker, ReturnActive(v) PROVE FALSE
  BY <1>2, <1>9 DEF ReturnActive, IsPerforming, Performing
<1>10. ASSUME NEW r \in Request, RequestCreate(r)
       PROVE  Course /\ \A w \in Worker : Claimant(w)
  <2>1. vaultState' = vaultState
    BY <1>10 DEF RequestCreate
  <2>2. \A w \in Worker : job'[w] = job[w] \/ job'[w].pc = "sleeping"
    BY <1>1, <1>10 DEF RequestCreate, Job
  <2> QED
    BY <1>3, <2>1, <2>2 DEF Performing
<1>11. ASSUME \/ \E e \in Event : TimerAbandons(e)
              \/ \E n \in Node : PollList(n) \/ Crash(n) \/ \E e \in Event : PollSkips(n, e)
              \/ \E w \in Worker : PerformFails(w)
       PROVE  Course /\ \A w \in Worker : Claimant(w)
  <2>1. vaultState' = vaultState
    BY <1>11 DEF TimerAbandons, PollList, Crash, PollSkips, PerformFails
  <2>2. \A w \in Worker : job'[w] = job[w] \/ job'[w].pc \in {"idle", "listed"}
    BY <1>1, <1>11 DEF TimerAbandons, PollList, Crash, PollSkips, PerformFails, AfterJob,
       ListingJob, IdleJob, Job
  <2> QED
    BY <1>3, <2>1, <2>2 DEF Performing
<1>12. ASSUME \/ (Tick /\ UNCHANGED pipeVars) \/ UNCHANGED vars
              \/ \E r \in Request, n \in Node, drill \in BOOLEAN : RequestBegin(r, n, drill)
              \/ \E r \in Request, n \in Node : CancelBegin(r, n)
              \/ \E r \in Request : RequestConflict(r) \/ RequestFails(r)
                   \/ CancelFetchOpen(r) \/ CancelMark(r)
       PROVE  Course /\ \A w \in Worker : Claimant(w)
  <2>1. vaultState' = vaultState /\ job' = job
    BY <1>12 DEF Tick, pipeVars, vars, RequestBegin, CancelBegin, RequestConflict, RequestFails,
       CancelFetchOpen, CancelMark
  <2> QED
    BY <1>3, <2>1
<1>13. ASSUME NEW r \in Request, CancelSetActive(r) PROVE FALSE
  BY <1>13 DEF CancelSetActive, ReqAt, CourseInv
<1>14. ASSUME NEW e \in Event, TimerWins(e)
       PROVE  Course /\ \A w \in Worker : Claimant(w)
  BY <1>4, <1>14 DEF TimerWins, Worker
<1>15. ASSUME NEW n \in Node, NEW e \in Event, PollWins(n, e)
       PROVE  Course /\ \A w \in Worker : Claimant(w)
  BY <1>4, <1>15 DEF PollWins, Worker
<1> QED
  BY <1>5, <1>6, <1>7, <1>8, <1>9, <1>10, <1>11, <1>12, <1>13, <1>14, <1>15
  DEF Next, Running, RequestStep, TimerStep, PollStep, PerformStep


\* An aggregator that cannot read the row writes nothing; a panic release wins its
\* cooling-off only from a state in which nobody performs.
LEMMA CourseOfCompany ==
  ASSUME PipelineInv, AggInv, CourseInv, Aggregator = {} \/ ~RegionListed,
         AggNext, UNCHANGED pipeVars
  PROVE  Course /\ CourseInv'
<1> USE DEF Course, CourseInv, dbVars, eventVars, signalVars
<1>1. /\ agg \in [Aggregator -> TickState] /\ opener.seen \in Watchable
      /\ req' = req /\ job' = job
      /\ lastEvent \in 0..MaxReleases /\ event \in [Event -> EventRow]
  BY DEF AggInv, AggTypeOK, OpenerState, pipeVars, PipelineInv, CoreInv, TypeOK, DbTypeOK
<1>2. ASSUME NEW n \in Aggregator, AggStep(n)
      PROVE  /\ UNCHANGED <<vaultState, eventVars>>
             /\ \A m \in Aggregator : agg'[m].pc \in {"idle", "panicked"}
  <2>1. AggList(n)
    BY <1>2 DEF AggStep, AggEvaluate, AggCheckDuress, AggClaim, AggNotify, AggCreate, AggSetState
  <2>2. PICK t \in {Tick_("panicked", vaultState, attested, clock, "ACTIVE", 0)} :
          agg' = [agg EXCEPT ![n] = t]
    BY <1>2, <2>1 DEF AggList
  <2>3. t.pc = "panicked" /\ \A m \in Aggregator : agg'[m] = IF m = n THEN t ELSE agg[m]
    BY <1>1, <2>2 DEF Tick_
  <2> QED
    BY <2>1, <2>3 DEF AggList
<1>3. CASE PanicClaim /\ vaultState' # vaultState
  <2>1. /\ vaultState \in Watchable /\ vaultState' = "COOLING_OFF"
        /\ agg' = agg /\ UNCHANGED eventVars
    BY <1>1, <1>3 DEF PanicClaim, ClaimVaultCoolingOff
  <2>2. \A w \in Worker : ~IsPerforming(w)
    BY <2>1 DEF Watchable
  <2>3. \A w \in Worker : ~IsPerforming(w)'
    BY <1>1, <2>2 DEF IsPerforming
  <2> QED
    BY <1>1, <2>1, <2>3 DEF Created
<1>4. CASE PanicCreate
  <2>1. PICK row \in {[drill |-> FALSE, deadline |-> opener.endsAt]} :
          /\ lastEvent' = lastEvent + 1 /\ lastEvent + 1 \in Event
          /\ event' = [event EXCEPT ![lastEvent + 1] = row]
    BY <1>1, <1>4 DEF PanicCreate, CreateReleaseEvent, NextEvent, Event
  <2>2. ~row.drill /\ \A e \in Event : event'[e] = IF e = lastEvent + 1 THEN row ELSE event[e]
    BY <1>1, <2>1
  <2>3. \A e \in Created' : ~event'[e].drill
    BY <1>1, <2>1, <2>2 DEF Created, Event
  <2> QED
    BY <1>1, <1>4, <2>3 DEF PanicCreate, IsPerforming
<1>5. CASE /\ UNCHANGED <<vaultState, eventVars>>
           /\ \A m \in Aggregator : agg'[m].pc \in {"idle", "panicked"}
  BY <1>1, <1>5 DEF Created, IsPerforming
<1>6. CASE \/ Heartbeat \/ ApplePing \/ BankPing \/ RespondBuddy
           \/ DuressFreeze \/ DuressDisarm \/ PanicBegin \/ PanicList \/ PanicNotify
           \/ PanicClaim /\ vaultState' = vaultState
  <2>1. UNCHANGED <<vaultState, eventVars, agg>>
    BY <1>6 DEF Heartbeat, ApplePing, BankPing, RespondBuddy, BuddyWorries, BuddySaysWell,
       DuressFreeze, DuressDisarm, PanicBegin, PanicList, PanicNotify, PanicClaim, aggVars
  <2> QED
    BY <1>5, <2>1
<1> QED
  BY <1>2, <1>3, <1>4, <1>5, <1>6 DEF AggNext, PanicStep

\* Every step follows the course and keeps what carries it.
LEMMA CourseStep ==
  ASSUME PipelineInv, AggInv, CourseInv, Undisturbed, [SysNext]_sysVars
  PROVE  Course /\ CourseInv'
<1>1. agg \in [Aggregator -> TickState] /\ IdleTick.pc = "idle"
  BY DEF AggInv, AggTypeOK, IdleTick, Tick_
<1>2. ASSUME [Next]_vars, \A m \in Aggregator : agg'[m] = agg[m] \/ agg'[m] = IdleTick
      PROVE  Course /\ CourseInv'
  <2>1. Course /\ \A w \in Worker : Claimant(w)
    BY <1>2, CourseOfPipeline
  <2>2. \A r \in Request : req'[r].pc \in {"idle", "claim", "create"} /\ ~req'[r].drill
    BY <1>2, CourseOfRequests DEF Undisturbed
  <2>3. \A e \in Created' : ~event'[e].drill
    BY <1>2, CourseOfEvents
  <2>4. \A w \in Worker : job'[w].pc \in Performing =>
          job'[w].pc # "returnActive" /\ vaultState' \in {"RELEASING", "RELEASED"}
    <3>1. ASSUME NEW w \in Worker, job'[w].pc \in Performing
          PROVE  job'[w].pc # "returnActive" /\ vaultState' \in {"RELEASING", "RELEASED"}
      <4>1. job'[w].pc # "returnActive" /\ (vaultState' = "RELEASING" \/ IsPerforming(w))
        BY <2>1, <3>1 DEF Claimant
      <4>2. IsPerforming(w) => vaultState \in {"RELEASING", "RELEASED"}
        BY DEF CourseInv
      <4> QED
        BY <2>1, <4>1, <4>2 DEF Course, Watchable
    <3> QED
      BY <3>1
  <2>5. \A m \in Aggregator : agg'[m].pc \in {"idle", "panicked"}
    BY <1>1, <1>2 DEF CourseInv
  <2> QED
    BY <2>1, <2>2, <2>3, <2>4, <2>5 DEF CourseInv, IsPerforming
<1>3. ASSUME UNCHANGED <<vaultState, eventVars, req, job>>,
             \A m \in Aggregator : agg'[m] = agg[m] \/ agg'[m] = IdleTick
      PROVE  Course /\ CourseInv'
  BY <1>1, <1>3 DEF Course, CourseInv, IsPerforming, Created, eventVars
<1>4. CASE Running /\ UNCHANGED aggVars
  BY <1>2, <1>4 DEF Next, aggVars
<1>5. CASE AggNext /\ UNCHANGED pipeVars
  BY <1>5, CourseOfCompany DEF Undisturbed
<1>6. CASE (\E n \in Aggregator : SysAggFails(n)) \/ SysPanicFails
  <2>1. UNCHANGED <<vaultState, eventVars, req, job>>
    BY <1>6 DEF SysAggFails, SysPanicFails, AggFails, PanicFails, dbVars, eventVars
  <2>2. \A m \in Aggregator : agg'[m] = agg[m] \/ agg'[m] = IdleTick
    BY <1>1, <1>6 DEF SysAggFails, SysPanicFails, AggFails, PanicFails
  <2> QED
    BY <1>3, <2>1, <2>2
<1>7. ASSUME NEW n \in Node, SysCrash(n) PROVE Course /\ CourseInv'
  <2>1. Crash(n) /\ \A m \in Aggregator : agg'[m] = agg[m] \/ agg'[m] = IdleTick
    BY <1>7 DEF SysCrash, AggCrash
  <2> QED
    BY <1>2, <2>1 DEF Next
<1>8. CASE UNCHANGED sysVars
  BY <1>2, <1>8 DEF sysVars, aggVars
<1> QED
  BY <1>4, <1>5, <1>6, <1>7, <1>8 DEF SysNext

\* Where nobody cancels or drills and the aggregators stop at their listing, as this
\* build's do (row_to_vault), a vault that has begun to cool off goes on to RELEASING
\* and RELEASED and nowhere else, whatever requests, timers, pollers, panic releases
\* and faults there are: only the aggregator's set_vault_state leads astray.
THEOREM RunsItsCourse == Undisturbed => (SysSpec => ReleaseRunsItsCourse)
<1> SUFFICES ASSUME Undisturbed PROVE SysSpec => ReleaseRunsItsCourse
  OBVIOUS
<1>1. SysInit => CourseInv
  BY DEF SysInit, Init, DbInit, AggInit, CourseInv, IdleTick, Tick_, IdleReq, Req, IdleJob, Job,
     IsPerforming, Performing, Created
<1>2. SysInv /\ CourseInv /\ [SysNext]_sysVars => CourseInv' /\ Course
  BY CourseStep DEF SysInv, AggInv, Decided
<1>3. Course => [(vaultState \in {"COOLING_OFF", "RELEASING", "RELEASED"})
                   => CanTransition(vaultState, vaultState')]_vaultState
  BY DEF Course, CanTransition, Watchable
<1> QED
  BY SystemInductive, <1>1, <1>2, <1>3, PTL DEF SysSpec, ReleaseRunsItsCourse

=============================================================================

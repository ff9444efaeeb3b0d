-------------------------- MODULE SignalAggregator --------------------------
(***************************************************************************)
(* The signal aggregator of crates/beacon-api/src/scheduler.rs, and the    *)
(* handlers that feed it: heartbeats, Apple and bank pings, buddy          *)
(* responses and the covert duress signal.                                 *)
(*                                                                         *)
(* A tick reads the vault once and goes on for several database            *)
(* statements with what it read: each statement is a step, so a request or *)
(* a second aggregator (a former leader keeps its workers) may come        *)
(* between any two.                                                        *)
(***************************************************************************)
EXTENDS BeaconDb, TriggerScore

CONSTANTS
  Aggregator,   \* the nodes whose aggregator loop runs
  Signals,      \* what may reach the API: a subset of SignalKind
  RegionListed  \* does list_vaults_in_states select storage_region?  It does not.

SignalKind == {"heartbeat", "apple", "bank", "worried", "unreachable", "well",
               "duress", "panicRelease", "disarm"}

ASSUME AggregatorAssumption ==
  /\ Signals \subseteq SignalKind
  /\ RegionListed \in BOOLEAN
  /\ 5 * MaxGap > MaxClock

VARIABLES
  attested,    \* vault.last_attestation_at
  buddy,       \* the strongest buddy signal of the last 30 days
  bankSignal,  \* a bank ping of the last 5 * MaxGap
  vouched,     \* history: when a heartbeat or a buddy's WELL last vouched for them
  duress,      \* duress_signal.triggered_at is set
  agg,         \* agg[n]: where n's tick is, and what it read
  opener       \* the duress webhook handler on its way through a panic release

aggVars == <<attested, buddy, bankSignal, vouched, duress, agg, opener>>
signalVars == <<attested, buddy, bankSignal, vouched, duress>>

Watchable == {"ACTIVE", "SUSPICIOUS", "ALERT"}
OpenerPc == {"idle", "list", "claim", "notify", "create"}
TickPc == {"idle", "evaluate", "claim", "notify", "create",
           "checkDuress", "setState", "panicked"}

\* seen: the state in the snapshot; last: its last_attestation_at; now: the time
\* of the listing; next: the state evaluate decided on; endsAt: the deadline.
Tick_(pc, seen, last, now, next, endsAt) ==
  [pc |-> pc, seen |-> seen, last |-> last, now |-> now, next |-> next, endsAt |-> endsAt]
IdleTick == Tick_("idle", "ACTIVE", 0, 0, "ACTIVE", 0)

TickState == [pc: TickPc, seen: Watchable, last: Nat, now: Nat,
              next: Watchable \cup {"COOLING_OFF"}, endsAt: Nat]
OpenerState == [pc: OpenerPc, seen: Watchable, endsAt: Nat]
IdleOpener == [pc |-> "idle", seen |-> "ACTIVE", endsAt |-> 0]

AggTypeOK ==
  /\ attested \in Nat /\ vouched \in Nat
  /\ buddy \in {0, 20, 35}
  /\ bankSignal \in BOOLEAN /\ duress \in BOOLEAN
  /\ agg \in [Aggregator -> TickState]
  /\ opener \in OpenerState

AggInit ==
  /\ attested = 0 /\ vouched = 0 /\ buddy = 0
  /\ bankSignal = FALSE /\ duress = FALSE
  /\ agg = [n \in Aggregator |-> IdleTick]
  /\ opener = IdleOpener

\* The clock stops at MaxClock, which stands for every later instant.
EndsAt == IF clock + Cool <= MaxClock THEN clock + Cool ELSE MaxClock

-----------------------------------------------------------------------------
(* Proof of life, and of its absence.                                      *)

\* A bug: the check-in is logged but the vault's clock is not reset.
Heartbeat_NotBumped ==
  /\ "heartbeat" \in Signals
  /\ vouched' = clock
  /\ UNCHANGED <<dbVars, attested, buddy, bankSignal, duress, agg, opener>>

\* record_heartbeat: every vault's last_attestation_at is now.  The signal row
\* of contribution 0 that follows is not read by the aggregator.
Heartbeat ==
  /\ "heartbeat" \in Signals
  /\ attested' = clock /\ vouched' = clock
  /\ UNCHANGED <<dbVars, buddy, bankSignal, duress, agg, opener>>

\* apple_icloud_ping records a signal row of contribution 0 and nothing else:
\* no step of the aggregator reads a row of that source.
ApplePing ==
  /\ "apple" \in Signals
  /\ UNCHANGED <<dbVars, aggVars>>

\* bank_dormancy_webhook: the subscription is touched and a signal row recorded;
\* both stay recent for 5 * MaxGap, longer than the clock runs.
BankPing ==
  /\ "bank" \in Signals
  /\ bankSignal' = TRUE
  /\ UNCHANGED <<dbVars, attested, buddy, vouched, duress, agg, opener>>

\* respond_buddy: a worried answer adds a signal row, WELL bumps the vault.  The
\* answer is also written to the buddy's own row, which no other actor reads.
BuddyWorries(contribution) ==
  /\ buddy' = IF contribution > buddy THEN contribution ELSE buddy
  /\ UNCHANGED <<dbVars, attested, bankSignal, vouched, duress, agg, opener>>

BuddySaysWell ==
  /\ attested' = clock /\ vouched' = clock
  /\ UNCHANGED <<dbVars, buddy, bankSignal, duress, agg, opener>>

RespondBuddy ==
  \/ "worried" \in Signals /\ BuddyWorries(20)
  \/ "unreachable" \in Signals /\ BuddyWorries(35)
  \/ "well" \in Signals /\ BuddySaysWell

-----------------------------------------------------------------------------
(* The duress signal.                                                      *)

\* duress_webhook in "freeze" mode.
DuressFreeze ==
  /\ "duress" \in Signals
  /\ duress' = TRUE
  /\ UNCHANGED <<dbVars, attested, buddy, bankSignal, vouched, agg, opener>>

\* revoke_duress deletes the row, arm_duress clears its triggered_at.
DuressDisarm ==
  /\ "disarm" \in Signals
  /\ duress /\ duress' = FALSE
  /\ UNCHANGED <<dbVars, attested, buddy, bankSignal, vouched, agg, opener>>

\* duress_webhook in "release" mode: it marks the trigger ...
PanicBegin ==
  /\ "panicRelease" \in Signals
  /\ opener.pc = "idle"
  /\ duress' = TRUE
  /\ opener' = [IdleOpener EXCEPT !.pc = "list"]
  /\ UNCHANGED <<dbVars, attested, buddy, bankSignal, vouched, agg>>

\* ... lists the vaults and keeps the watchable ones ...
PanicList ==
  /\ opener.pc = "list"
  /\ opener' = IF vaultState \in Watchable
               THEN [pc |-> "claim", seen |-> vaultState, endsAt |-> 0]
               ELSE IdleOpener
  /\ UNCHANGED <<dbVars, signalVars, agg>>

\* ... claims the cooling-off of one from the state it read ...
PanicClaim ==
  /\ opener.pc = "claim"
  /\ \/ /\ ClaimVaultCoolingOff(opener.seen)
        /\ opener' = [pc |-> "notify", seen |-> opener.seen, endsAt |-> 0]
     \/ /\ vaultState # opener.seen
        /\ opener' = IdleOpener
        /\ UNCHANGED <<vaultState, window>>
  /\ UNCHANGED <<clock, eventVars, signalVars, agg>>

\* ... computes the deadline, notifies ...
PanicNotify ==
  /\ opener.pc = "notify"
  /\ opener' = [pc |-> "create", seen |-> opener.seen, endsAt |-> EndsAt]
  /\ UNCHANGED <<dbVars, signalVars, agg>>

\* ... and records the event, without a per-request timer.
PanicCreate ==
  /\ opener.pc = "create" /\ lastEvent < MaxReleases
  /\ CreateReleaseEvent(FALSE, opener.endsAt)
  /\ opener' = IdleOpener
  /\ UNCHANGED <<clock, vaultState, window, signalVars, agg>>

-----------------------------------------------------------------------------
(* aggregator_tick.                                                        *)

\* list_vaults_in_states.  row_to_vault asks each row for storage_region; a row
\* without it panics and takes the aggregator's task with it.
AggList(n) ==
  /\ agg[n].pc = "idle" /\ vaultState \in Watchable
  /\ agg' = [agg EXCEPT ![n] =
               Tick_(IF RegionListed THEN "evaluate" ELSE "panicked",
                     vaultState, attested, clock, "ACTIVE", 0)]
  /\ UNCHANGED <<dbVars, signalVars, opener>>

Observations(last, now) ==
  [s \in DOMAIN Weight |->
     CASE s = "HEARTBEAT" -> Staleness(now - last)
       [] s = "BUDDY" -> buddy
       [] s = "CDR" -> IF bankSignal THEN 0 ELSE Staleness(now - last)
       [] OTHER -> 0]

\* The other reads, and evaluate.
AggEvaluate(n) ==
  LET obs  == Observations(agg[n].last, agg[n].now)
      next == Evaluate(agg[n].seen, obs)
  IN /\ agg[n].pc = "evaluate"
     /\ agg' = [agg EXCEPT ![n] =
          IF next = agg[n].seen THEN IdleTick
          ELSE Tick_(IF next = "COOLING_OFF" THEN "checkDuress" ELSE "setState",
                     agg[n].seen, agg[n].last, agg[n].now, next, 0)]
     /\ UNCHANGED <<dbVars, signalVars, opener>>

\* principal_in_duress freezes the switch until the next tick.
AggCheckDuress(n) ==
  /\ agg[n].pc = "checkDuress"
  /\ agg' = IF duress THEN [agg EXCEPT ![n] = IdleTick]
            ELSE [agg EXCEPT ![n].pc = "claim"]
  /\ UNCHANGED <<dbVars, signalVars, opener>>

\* claim_vault_cooling_off from the state in the snapshot: one winner.
AggClaim(n) ==
  /\ agg[n].pc = "claim"
  /\ \/ /\ ClaimVaultCoolingOff(agg[n].seen)
        /\ agg' = [agg EXCEPT ![n].pc = "notify"]
     \/ /\ vaultState # agg[n].seen
        /\ agg' = [agg EXCEPT ![n] = IdleTick]
        /\ UNCHANGED <<vaultState, window>>
  /\ UNCHANGED <<clock, eventVars, signalVars, opener>>

\* fetch_principal; the deadline is computed, the principal warned.
AggNotify(n) ==
  /\ agg[n].pc = "notify"
  /\ agg' = [agg EXCEPT ![n].pc = "create", ![n].endsAt = EndsAt]
  /\ UNCHANGED <<dbVars, signalVars, opener>>

\* The release event, without a per-request timer: the poll loop will fire it.
AggCreate(n) ==
  /\ agg[n].pc = "create" /\ lastEvent < MaxReleases
  /\ CreateReleaseEvent(FALSE, agg[n].endsAt)
  /\ agg' = [agg EXCEPT ![n] = IdleTick]
  /\ UNCHANGED <<clock, vaultState, window, signalVars, opener>>

\* set_vault_state(next), whatever the state has become since the listing.
AggSetState(n) ==
  /\ agg[n].pc = "setState"
  /\ SetVaultState(agg[n].next)
  /\ agg' = [agg EXCEPT ![n] = IdleTick]
  /\ UNCHANGED <<clock, eventVars, signalVars, opener>>

-----------------------------------------------------------------------------
(* Failures.                                                               *)

\* A statement of the tick fails: `?` ends the tick, the loop logs and sleeps.
AggFails(n) ==
  /\ agg[n].pc \notin {"idle", "panicked"}
  /\ agg' = [agg EXCEPT ![n] = IdleTick]
  /\ UNCHANGED <<dbVars, signalVars, opener>>

\* A statement of the webhook's panic release fails: the error is dropped and the
\* handler answers 200 all the same.
PanicFails ==
  /\ opener.pc # "idle"
  /\ opener' = IdleOpener
  /\ UNCHANGED <<dbVars, signalVars, agg>>

\* The node dies with its aggregator, and with the webhook handler if it was
\* served there.
AggCrash(n) ==
  /\ agg' = [m \in Aggregator |-> IF m = n THEN IdleTick ELSE agg[m]]
  /\ opener' \in {opener, IdleOpener}
  /\ UNCHANGED <<dbVars, signalVars>>

-----------------------------------------------------------------------------
AggStep(n) ==
  \/ AggList(n) \/ AggEvaluate(n) \/ AggCheckDuress(n)
  \/ AggClaim(n) \/ AggNotify(n) \/ AggCreate(n) \/ AggSetState(n)

PanicStep == PanicList \/ PanicClaim \/ PanicNotify \/ PanicCreate

AggNext ==
  \/ Heartbeat \/ ApplePing \/ BankPing \/ RespondBuddy
  \/ DuressFreeze \/ DuressDisarm \/ PanicBegin \/ PanicStep
  \/ \E n \in Aggregator : AggStep(n)

=============================================================================

-------------------------- MODULE ScheduledLetters --------------------------
(***************************************************************************)
(* Letters with a date: scheduled_release_tick of                          *)
(* crates/beacon-api/src/scheduler.rs over the release pipeline.           *)
(*                                                                         *)
(* A letter whose date has come has its whole vault released, if the vault *)
(* is ACTIVE and the principal's subscription allows it, and loses its     *)
(* date; otherwise it waits for a later tick.  The release delivers the    *)
(* letters list_letters_for_signal_release selects; time capsules          *)
(* (SCHEDULED_ONLY) are not among them.                                    *)
(***************************************************************************)
EXTENDS ReleasePipeline

CONSTANTS
  Capsule,    \* SCHEDULED_ONLY letters
  Scheduler,  \* the nodes whose scheduled-release loop runs
  FirstDate,  \* FirstDate[l]: the date l was sealed with, or NoDate
  Subscribed  \* the state of the subscription at first

NoDate == 0
Dated == Letter \cup Capsule
SubscriptionState == {"TRIALING", "ACTIVE", "PAST_DUE", "CANCELED", "EXPIRED"}

ASSUME ScheduleAssumption ==
  /\ Letter \cap Capsule = {}
  /\ Scheduler \subseteq Node
  /\ FirstDate \in [Dated -> Nat]
  /\ Subscribed \in SubscriptionState

VARIABLES
  date,  \* letter.scheduled_release_at
  subscription, \* subscription.state; what follows EXPIRED allows no more than it
  sched  \* sched[n]: where node n's tick is, its listing and the letter in hand

schedVars == <<date, subscription, sched>>

SchedPc == {"idle", "listed", "ask", "claim", "create", "clear"}
SchedState == [pc: SchedPc, rest: SUBSET Dated, hand: SUBSET Dated, endsAt: Nat]
Sched_(pc, rest, hand, endsAt) == [pc |-> pc, rest |-> rest, hand |-> hand, endsAt |-> endsAt]
IdleSched == Sched_("idle", {}, {}, 0)
SchedListing(rest) == IF rest = {} THEN IdleSched ELSE Sched_("listed", rest, {}, 0)

SchedTypeOK ==
  /\ date \in [Dated -> Nat] /\ subscription \in SubscriptionState
  /\ sched \in [Scheduler -> SchedState]

SchedInit ==
  /\ date = FirstDate /\ subscription = Subscribed
  /\ sched = [n \in Scheduler |-> IdleSched]

SchedGoto(n, pc) == sched' = [sched EXCEPT ![n].pc = pc]
\* On to the next letter of the listing, whatever became of the one in hand.
SchedNext(n) == sched' = [sched EXCEPT ![n] = SchedListing(sched[n].rest)]

-----------------------------------------------------------------------------
(* The subscription.                                                       *)

AllowsRelease == subscription \in {"TRIALING", "ACTIVE", "PAST_DUE", "CANCELED"}

\* expire_subscription, of the retention sweep.  No route brings a subscription back.
ExpireSubscription ==
  /\ subscription = "CANCELED"
  /\ subscription' = "EXPIRED"
  /\ UNCHANGED <<vars, date, sched>>

-----------------------------------------------------------------------------
\* A bug: only a tick at the very date finds the letter.
ScheduledLettersDue_Exact == {l \in Dated : date[l] # NoDate /\ date[l] = clock}

\* list_scheduled_letters_due; a listing without letters ends the tick.
ScheduledLettersDue == {l \in Dated : date[l] # NoDate /\ date[l] <= clock}

SchedList(n) ==
  /\ sched[n].pc = "idle" /\ ScheduledLettersDue # {}
  /\ sched' = [sched EXCEPT ![n] = SchedListing(ScheduledLettersDue)]
  /\ UNCHANGED <<vars, date, subscription>>

\* fetch_vault: the letters of a vault that is not ACTIVE wait for a later tick.
SchedSkips(n, l) ==
  /\ sched[n].pc = "listed" /\ l \in sched[n].rest
  /\ vaultState # "ACTIVE"
  /\ sched' = [sched EXCEPT ![n] = SchedListing(sched[n].rest \ {l})]
  /\ UNCHANGED <<vars, date, subscription>>

SchedTakes(n, l) ==
  /\ sched[n].pc = "listed" /\ l \in sched[n].rest
  /\ vaultState = "ACTIVE"
  /\ sched' = [sched EXCEPT ![n] = Sched_("ask", sched[n].rest \ {l}, {l}, 0)]
  /\ UNCHANGED <<vars, date, subscription>>

\* A bug: the letter that is refused loses its date like one that is released.
SchedRefused_Clears(n) ==
  /\ sched[n].pc = "ask" /\ ~AllowsRelease
  /\ SchedGoto(n, "clear")
  /\ UNCHANGED <<vars, date, subscription>>

\* fetch_subscription: the letter waits, though no later tick will find it allowed.
SchedRefused(n) ==
  /\ sched[n].pc = "ask" /\ ~AllowsRelease
  /\ SchedNext(n)
  /\ UNCHANGED <<vars, date, subscription>>

\* The subscription allows it: begin_release, with the vault's own cooling-off.
SchedBegin(n) ==
  /\ sched[n].pc = "ask" /\ AllowsRelease
  /\ window < MaxReleases
  /\ sched' = [sched EXCEPT ![n] = Sched_("claim", sched[n].rest, sched[n].hand, WakeTime(FALSE))]
  /\ UNCHANGED <<vars, date, subscription>>

SchedWins(n) ==
  /\ sched[n].pc = "claim"
  /\ ClaimVaultCoolingOff("ACTIVE")
  /\ SchedGoto(n, "create")
  /\ UNCHANGED <<clock, eventVars, pipeVars, date, subscription>>

\* A conflict is an error the tick ignores: it goes on to clear the date.
SchedConflict(n) ==
  /\ sched[n].pc = "claim"
  /\ vaultState # "ACTIVE"
  /\ SchedGoto(n, "clear")
  /\ UNCHANGED <<vars, date, subscription>>

\* The durable event and its timer, on this node.
SchedCreate(n) ==
  /\ sched[n].pc = "create" /\ lastEvent < MaxReleases
  /\ CreateReleaseEvent(FALSE, sched[n].endsAt)
  /\ timer' = [timer EXCEPT ![NextEvent] = [node |-> n, wake |-> WakeTime(FALSE)]]
  /\ job' = [job EXCEPT ![NextEvent] = Job("sleeping", NextEvent, 0, {})]
  /\ SchedGoto(n, "clear")
  /\ UNCHANGED <<clock, vaultState, window, req, due, claims, faults, date, subscription>>

\* UPDATE letter SET scheduled_release_at = NULL: whatever the date is by now.
SchedClear(n) ==
  /\ sched[n].pc = "clear"
  /\ date' = [l \in Dated |-> IF l \in sched[n].hand THEN NoDate ELSE date[l]]
  /\ SchedNext(n)
  /\ UNCHANGED <<vars, subscription>>

-----------------------------------------------------------------------------
(* Failures.                                                               *)

\* A read of the vault or of the subscription fails: the next letter.  begin_release
\* fails: its error is ignored as a conflict is.  The clearing statement fails: that
\* error is ignored too, and the date stays.
SchedFails(n) ==
  /\ \/ /\ sched[n].pc = "listed"
        /\ \E l \in sched[n].rest :
             sched' = [sched EXCEPT ![n] = SchedListing(sched[n].rest \ {l})]
     \/ sched[n].pc \in {"ask", "clear"} /\ SchedNext(n)
     \/ sched[n].pc \in {"claim", "create"} /\ SchedGoto(n, "clear")
  /\ Fault("error")
  /\ UNCHANGED <<dbVars, req, timer, due, job, claims, date, subscription>>

\* The node dies with its tick.
SchedCrash(n) ==
  /\ sched' = [m \in Scheduler |-> IF m = n THEN IdleSched ELSE sched[m]]
  /\ UNCHANGED <<date, subscription>>

SchedStep(n) ==
  \/ SchedList(n)
  \/ \E l \in Dated : SchedSkips(n, l) \/ SchedTakes(n, l)
  \/ SchedRefused(n) \/ SchedBegin(n)
  \/ SchedWins(n) \/ SchedConflict(n) \/ SchedCreate(n) \/ SchedClear(n)

=============================================================================

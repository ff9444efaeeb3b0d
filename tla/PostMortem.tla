----------------------------- MODULE PostMortem -----------------------------
(***************************************************************************)
(* What co-stewards may do once a vault has RELEASED: redirect a letter    *)
(* held for an event, after a hold during which any of them can cancel,    *)
(* and trigger it.  Handlers of crates/beacon-api/src/routes.rs,           *)
(* trigger_event_release and the recipient-change applier of scheduler.rs. *)
(*                                                                         *)
(* An address is named by the change that gave it: address 0 is the one    *)
(* the principal wrote.                                                    *)
(***************************************************************************)
EXTENDS BeaconDb

CONSTANTS
  EventLetter,  \* letters whose release_mode is EVENT_ON_DEMAND
  Deputy,       \* co-stewards, each with one request in flight at a time
  Applier,      \* the nodes whose recipient-change applier runs
  ServedBy,     \* ServedBy[d]: the node that serves d's requests
  Revocable,    \* bound: the co-stewards the principal may still revoke
  Hold,         \* recipient_change_hold_seconds
  MaxChanges    \* bound: number of letter_recipient_change rows

ASSUME PostMortemAssumption == Hold \in Nat /\ MaxChanges \in Nat

VARIABLES
  recipient,      \* letter.recipient_email
  eventReleased,  \* the letters whose event_released_at is set
  active,         \* the co-stewards confirmed and not revoked
  change,         \* letter_recipient_change rows: letter and effective_at
  lastChange,     \* number of rows, in requested_at order
  applied,        \* the rows whose applied_at is set
  withdrawn,      \* the rows whose cancelled_at is set
  visit,          \* visit[d]: where deputy d's request is, and what it has read
  applier,        \* applier[n]: the rest of the listing node n works through
  eventClaims     \* release_claim rows of event letters, with who issued them

changeVars == <<change, lastChange, applied, withdrawn>>
pmVars == <<recipient, eventReleased, active, change, lastChange, applied, withdrawn,
            visit, applier, eventClaims>>

Change   == 1..MaxChanges
Address  == 0..MaxChanges
NoChange == 0
NoLetter == "none"

VisitPc == {"idle", "insert", "withdraw", "fetchPending", "apply", "mark", "fetchMeta",
            "createEvent", "deliver", "markReleased"}
Firing == {"fetchMeta", "createEvent", "deliver"}

VisitState == [pc: VisitPc, letter: EventLetter \cup {NoLetter}, change: Change \cup {NoChange},
               effectiveAt: Nat, to: Address, event: Event \cup {NoEvent}]
IdleVisit == [pc |-> "idle", letter |-> NoLetter, change |-> NoChange,
              effectiveAt |-> 0, to |-> 0, event |-> NoEvent]
EventClaim == [letter: EventLetter, to: Address, event: Event, by: Deputy]

PmTypeOK ==
  /\ recipient \in [EventLetter -> Address]
  /\ eventReleased \subseteq EventLetter
  /\ active \subseteq Deputy
  /\ change \in [Change -> [letter: EventLetter \cup {NoLetter}, effectiveAt: Nat]]
  /\ lastChange \in 0..MaxChanges
  /\ applied \subseteq 1..lastChange /\ withdrawn \subseteq 1..lastChange
  /\ visit \in [Deputy -> VisitState]
  /\ applier \in [Applier -> SUBSET Change]
  /\ eventClaims \subseteq EventClaim

PmInit ==
  /\ recipient = [l \in EventLetter |-> 0]
  /\ eventReleased = {}
  /\ active = Deputy
  /\ change = [c \in Change |-> [letter |-> NoLetter, effectiveAt |-> 0]]
  /\ lastChange = 0
  /\ applied = {} /\ withdrawn = {}
  /\ visit = [d \in Deputy |-> IdleVisit]
  /\ applier = [n \in Applier |-> {}]
  /\ eventClaims = {}

At(d, pc) == visit[d].pc = pc
Goto(d, pc) == visit' = [visit EXCEPT ![d].pc = pc]
Leave(d) == visit' = [visit EXCEPT ![d] = IdleVisit]
Visit(pc, l) == [IdleVisit EXCEPT !.pc = pc, !.letter = l]

-----------------------------------------------------------------------------
(* Statements on letter_recipient_change and letter.                       *)

\* A bug: rows that are not committed yet are seen.
Pending_Uncommitted == Change \ (applied \cup withdrawn)

Pending == (1..lastChange) \ (applied \cup withdrawn)

\* fetch_pending_recipient_change: the latest pending change of l.
FetchPending(l, c) ==
  /\ c \in Pending /\ change[c].letter = l
  /\ \A p \in Pending : change[p].letter = l => p <= c

\* A bug: a change that was cancelled meanwhile is applied all the same.
ApplyRecipientChange_Blind(c) ==
  /\ applied' = applied \cup {c}
  /\ recipient' = [recipient EXCEPT ![change[c].letter] = c]

\* apply_recipient_change: nothing unless the change is still pending.
ApplyRecipientChange(c) ==
  IF c \in Pending
  THEN /\ applied' = applied \cup {c}
       /\ recipient' = [recipient EXCEPT ![change[c].letter] = c]
  ELSE UNCHANGED <<applied, recipient>>

\* A bug: the hold is not waited for.
DueChanges_Early == Pending

\* list_due_recipient_changes
DueChanges == {c \in Pending : change[c].effectiveAt <= clock}

-----------------------------------------------------------------------------
(* The deputies' requests.                                                 *)

\* authorise_postmortem: a live co-steward of a vault that has RELEASED.
Authorised(d) == d \in active /\ vaultState = "RELEASED"

\* The principal revokes a co-steward.
Revoke(d) ==
  /\ d \in Revocable \cap active /\ active' = active \ {d}
  /\ UNCHANGED <<dbVars, recipient, eventReleased, changeVars, visit, applier, eventClaims>>

\* co_steward_update_recipient: l still waits for its event; the hold starts.
\* Letters with a date ahead can be redirected as well; only event letters are here.
UpdateBegin(d, l) ==
  /\ At(d, "idle") /\ Authorised(d)
  /\ l \notin eventReleased
  /\ visit' = [visit EXCEPT ![d] = [Visit("insert", l) EXCEPT !.effectiveAt = clock + Hold]]
  /\ UNCHANGED <<dbVars, recipient, eventReleased, active, changeVars, applier, eventClaims>>

UpdateInsert(d) ==
  /\ At(d, "insert") /\ lastChange < MaxChanges
  /\ lastChange' = lastChange + 1
  /\ change' = [change EXCEPT ![lastChange + 1] =
                  [letter |-> visit[d].letter, effectiveAt |-> visit[d].effectiveAt]]
  /\ Leave(d)
  /\ UNCHANGED <<dbVars, recipient, eventReleased, active, applied, withdrawn, applier,
                 eventClaims>>

\* co_steward_cancel_recipient_change: any change, whoever asked for it.
CancelChangeBegin(d, c) ==
  /\ At(d, "idle") /\ Authorised(d)
  /\ c \in 1..lastChange
  /\ visit' = [visit EXCEPT ![d] = [Visit("withdraw", change[c].letter) EXCEPT !.change = c]]
  /\ UNCHANGED <<dbVars, recipient, eventReleased, active, changeVars, applier, eventClaims>>

\* cancel_recipient_change: nothing, and a 409, unless it is still pending.
CancelChange(d) ==
  /\ At(d, "withdraw")
  /\ withdrawn' = withdrawn \cup ({visit[d].change} \cap Pending)
  /\ Leave(d)
  /\ UNCHANGED <<dbVars, recipient, eventReleased, active, change, lastChange, applied,
                 applier, eventClaims>>

-----------------------------------------------------------------------------
(* co_steward_release_event_letter and trigger_event_release.              *)

TriggerBegin(d, l) ==
  /\ At(d, "idle") /\ Authorised(d)
  /\ visit' = [visit EXCEPT ![d] = Visit("fetchPending", l)]
  /\ UNCHANGED <<dbVars, recipient, eventReleased, active, changeVars, applier, eventClaims>>

\* The latest pending change, if its hold is over, is applied first.
TriggerFetch(d) ==
  /\ At(d, "fetchPending")
  /\ \/ \E c \in DueChanges :
          /\ FetchPending(visit[d].letter, c)
          /\ visit' = [visit EXCEPT ![d].pc = "apply", ![d].change = c]
     \/ /\ \A c \in DueChanges : ~FetchPending(visit[d].letter, c)
        /\ Goto(d, "mark")
  /\ UNCHANGED <<dbVars, recipient, eventReleased, active, changeVars, applier, eventClaims>>

TriggerApply(d) ==
  /\ At(d, "apply")
  /\ ApplyRecipientChange(visit[d].change)
  /\ Goto(d, "mark")
  /\ UNCHANGED <<dbVars, eventReleased, active, change, lastChange, withdrawn, applier,
                 eventClaims>>

\* A bug: the update does not ask for event_released_at IS NULL.
TriggerMark_Blind(d) ==
  /\ At(d, "mark")
  /\ eventReleased' = eventReleased \cup {visit[d].letter}
  /\ Goto(d, "fetchMeta")
  /\ UNCHANGED <<dbVars, recipient, active, changeVars, applier, eventClaims>>

\* mark_letter_event_released: one winner; the others get a 409.
TriggerMark(d) ==
  /\ At(d, "mark")
  /\ \/ /\ visit[d].letter \notin eventReleased
        /\ eventReleased' = eventReleased \cup {visit[d].letter}
        /\ Goto(d, "fetchMeta")
     \/ /\ visit[d].letter \in eventReleased
        /\ Leave(d)
        /\ UNCHANGED eventReleased
  /\ UNCHANGED <<dbVars, recipient, active, changeVars, applier, eventClaims>>

\* A bug: a letter with a change still pending waits, though it is marked.
TriggerFetchMeta_Waits(d) ==
  /\ At(d, "fetchMeta")
  /\ visit' = IF \E c \in Pending : change[c].letter = visit[d].letter
              THEN [visit EXCEPT ![d] = IdleVisit]
              ELSE [visit EXCEPT ![d].pc = "createEvent", ![d].to = recipient[visit[d].letter]]
  /\ UNCHANGED <<dbVars, recipient, eventReleased, active, changeVars, applier, eventClaims>>

\* fetch_letter_meta: the address the letter will go to, whatever happens to it now.
TriggerFetchMeta(d) ==
  /\ At(d, "fetchMeta")
  /\ visit' = [visit EXCEPT ![d].pc = "createEvent", ![d].to = recipient[visit[d].letter]]
  /\ UNCHANGED <<dbVars, recipient, eventReleased, active, changeVars, applier, eventClaims>>

\* create_release_event leaves cooling_off_ends_at NULL, which no instant is past.
TriggerCreateEvent(d) ==
  /\ At(d, "createEvent") /\ lastEvent < MaxReleases
  /\ CreateReleaseEvent(FALSE, MaxClock + 1)
  /\ visit' = [visit EXCEPT ![d].pc = "deliver", ![d].event = NextEvent]
  /\ UNCHANGED <<clock, vaultState, window, recipient, eventReleased, active, changeVars,
                 applier, eventClaims>>

TriggerClaim(d) ==
  [letter |-> visit[d].letter, to |-> visit[d].to, event |-> visit[d].event, by |-> d]

\* deliver_letter
TriggerDeliver(d) ==
  /\ At(d, "deliver")
  /\ eventClaims' = eventClaims \cup {TriggerClaim(d)}
  /\ Goto(d, "markReleased")
  /\ UNCHANGED <<dbVars, recipient, eventReleased, active, changeVars, applier>>

TriggerMarkReleased(d) ==
  /\ At(d, "markReleased")
  /\ MarkReleaseReleased(visit[d].event)
  /\ Leave(d)
  /\ UNCHANGED <<clock, vaultState, window, recipient, eventReleased, active, changeVars,
                 applier, eventClaims>>

-----------------------------------------------------------------------------
(* recipient_change_tick.                                                  *)

ApplierList(n) ==
  /\ applier[n] = {}
  /\ applier' = [applier EXCEPT ![n] = DueChanges]
  /\ UNCHANGED <<dbVars, recipient, eventReleased, active, changeVars, visit, eventClaims>>

\* A bug: a letter already out is not redirected, and its change stays pending.
ApplierApply_HeldOnly(n, c) ==
  /\ c \in applier[n]
  /\ IF change[c].letter \in eventReleased THEN UNCHANGED <<applied, recipient>>
     ELSE ApplyRecipientChange(c)
  /\ applier' = [applier EXCEPT ![n] = @ \ {c}]
  /\ UNCHANGED <<dbVars, eventReleased, active, change, lastChange, withdrawn, visit,
                 eventClaims>>

\* The listing is not ordered.
ApplierApply(n, c) ==
  /\ c \in applier[n]
  /\ ApplyRecipientChange(c)
  /\ applier' = [applier EXCEPT ![n] = @ \ {c}]
  /\ UNCHANGED <<dbVars, eventReleased, active, change, lastChange, withdrawn, visit,
                 eventClaims>>

-----------------------------------------------------------------------------
(* Failures.                                                               *)

\* A statement of a request fails, or its client hangs up.  In deliver_letter the
\* claim row may already be in.
VisitFails(d) ==
  /\ ~At(d, "idle")
  /\ \/ UNCHANGED eventClaims
     \/ At(d, "deliver") /\ eventClaims' = eventClaims \cup {TriggerClaim(d)}
  /\ Leave(d)
  /\ UNCHANGED <<dbVars, recipient, eventReleased, active, changeVars, applier>>

\* A statement of the applier fails: `?` ends the tick.
ApplierFails(n) ==
  /\ applier[n] # {}
  /\ applier' = [applier EXCEPT ![n] = {}]
  /\ UNCHANGED <<dbVars, recipient, eventReleased, active, changeVars, visit, eventClaims>>

\* A node dies with its applier and with the requests it served.
PmCrash(n) ==
  /\ applier' = [m \in Applier |-> IF m = n THEN {} ELSE applier[m]]
  /\ visit' = [d \in Deputy |-> IF ServedBy[d] = n THEN IdleVisit ELSE visit[d]]
  /\ UNCHANGED <<recipient, eventReleased, active, changeVars, eventClaims>>

-----------------------------------------------------------------------------
VisitStep(d) ==
  \/ UpdateInsert(d) \/ CancelChange(d)
  \/ TriggerFetch(d) \/ TriggerApply(d) \/ TriggerMark(d) \/ TriggerFetchMeta(d)
  \/ TriggerCreateEvent(d) \/ TriggerDeliver(d) \/ TriggerMarkReleased(d)

ApplierStep(n) == ApplierList(n) \/ \E c \in Change : ApplierApply(n, c)

PmNext ==
  \/ \E d \in Deputy :
       \/ Revoke(d) \/ VisitStep(d)
       \/ \E l \in EventLetter : UpdateBegin(d, l) \/ TriggerBegin(d, l)
       \/ \E c \in Change : CancelChangeBegin(d, c)
  \/ \E n \in Applier : ApplierStep(n)

-----------------------------------------------------------------------------
(* What the guardrail promises.                                            *)

\* A change takes effect only after its hold and if nobody cancelled it.
Honoured(c) ==
  /\ c \in applied /\ c \notin withdrawn
  /\ change[c].effectiveAt <= clock

\* No letter is redirected silently: the address on the row, and the one a letter
\* was sent to, are the principal's own or come from a change of that letter whose
\* hold ran out uncancelled, however requests, appliers and triggers interleave
\* (scheduler.rs, lines 697-700).
NoSilentRedirect ==
  /\ \A l \in EventLetter :
       recipient[l] # 0 => Honoured(recipient[l]) /\ change[recipient[l]].letter = l
  /\ \A k \in eventClaims : k.to # 0 => Honoured(k.to) /\ change[k.to].letter = k.letter

\* An event letter fires once, even if two deputies tap "release" at the same
\* moment (beacon-db, lines 1103-1105).
EventFiresOnce == \A j, k \in eventClaims : j.letter = k.letter => j = k

-----------------------------------------------------------------------------
(* The inductive invariant behind the two.                                 *)

\* A change whose hold has run out.
Ripe(c) == c \in 1..lastChange /\ change[c].effectiveAt <= clock

\* Only ripe changes are applied or about to be, and never withdrawn ones.
HoldInv ==
  /\ \A c \in 1..lastChange : change[c].letter \in EventLetter
  /\ applied \cap withdrawn = {}
  /\ \A c \in applied : Ripe(c)
  /\ \A d \in Deputy : At(d, "apply") => Ripe(visit[d].change)
  /\ \A n \in Applier : \A c \in applier[n] : Ripe(c)

\* Every address of letter l in use is the principal's own or was applied to l.
GivenTo(l, to) == to # 0 => to \in applied /\ change[to].letter = l

AddressInv ==
  /\ \A l \in EventLetter : GivenTo(l, recipient[l])
  /\ \A d \in Deputy : visit[d].pc \in {"createEvent", "deliver"} =>
       GivenTo(visit[d].letter, visit[d].to)
  /\ \A k \in eventClaims : GivenTo(k.letter, k.to)

\* The mark on a letter is taken by one deputy, who fires it once or not at all.
FiringInv ==
  /\ \A d \in Deputy : ~At(d, "idle") => visit[d].letter \in EventLetter
  /\ \A d \in Deputy : At(d, "deliver") => visit[d].event \in Event
  /\ \A d \in Deputy : visit[d].pc \in Firing =>
       /\ visit[d].letter \in eventReleased
       /\ \A k \in eventClaims : k.letter # visit[d].letter
       /\ \A b \in Deputy :
            visit[b].pc \in Firing /\ visit[b].letter = visit[d].letter => b = d
  /\ \A k \in eventClaims : k.letter \in eventReleased

PostMortemInv ==
  /\ clock \in Nat /\ lastEvent \in 0..MaxReleases
  /\ PmTypeOK
  /\ HoldInv /\ AddressInv /\ FiringInv /\ EventFiresOnce

=============================================================================

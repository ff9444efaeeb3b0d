------------------------------ MODULE BeaconDb ------------------------------
(***************************************************************************)
(* The rows the release machinery lives on, and the SQL statements that    *)
(* touch them.  One vault row and its release_event rows: every statement  *)
(* modelled here is keyed by a vault id or a release_event id, so vaults   *)
(* do not interfere and one of them is enough.                             *)
(*                                                                         *)
(* Each operator is one statement, hence one atomic step of PostgreSQL.    *)
(* The handlers and loops that issue them are in the modules that extend   *)
(* this one; a handler that issues two statements takes two steps.         *)
(***************************************************************************)
EXTENDS Integers

CONSTANTS
  Cool,         \* vault.cooling_off_seconds
  MaxReleases,  \* bound: times the vault may enter COOLING_OFF
  MaxClock      \* bound: the last instant of the clock

ASSUME BoundsAssumption ==
  /\ Cool \in Nat \ {0}
  /\ MaxReleases \in Nat \ {0}
  /\ MaxClock \in Nat

VARIABLES
  clock,       \* now(): one clock for the database and the API hosts
  vaultState,  \* vault.state
  event,       \* release_event rows: is_drill and cooling_off_ends_at
  lastEvent,   \* number of rows, in triggered_at order; rows above do not exist
  released,    \* the rows whose released_at is set
  cancelled,   \* the rows whose cancelled_at is set
  window       \* history: how many times the vault entered COOLING_OFF

dbVars == <<clock, vaultState, event, lastEvent, released, cancelled, window>>
eventVars == <<event, lastEvent, released, cancelled>>

-----------------------------------------------------------------------------
VaultState == {"ACTIVE", "SUSPICIOUS", "ALERT", "COOLING_OFF",
               "RELEASING", "RELEASED", "ARCHIVED"}

Event   == 1..MaxReleases
NoEvent == 0
Window  == 1..MaxReleases
Created == 1..lastEvent

EventRow == [drill: BOOLEAN, deadline: Nat]
BlankRow == [drill |-> FALSE, deadline |-> 0]

DbInit ==
  /\ clock = 0
  /\ vaultState = "ACTIVE"
  /\ event = [e \in Event |-> BlankRow]
  /\ lastEvent = 0
  /\ released = {} /\ cancelled = {}
  /\ window = 0

DbTypeOK ==
  /\ clock \in Nat
  /\ vaultState \in VaultState
  /\ event \in [Event -> EventRow]
  /\ lastEvent \in 0..MaxReleases
  /\ released \subseteq Created /\ cancelled \subseteq Created
  /\ window \in 0..MaxReleases

\* beacon_core::can_transition
CanTransition(from, to) ==
  <<from, to>> \in
    { <<"ACTIVE", "SUSPICIOUS">>, <<"ACTIVE", "COOLING_OFF">>,
      <<"SUSPICIOUS", "ACTIVE">>, <<"SUSPICIOUS", "ALERT">>,
      <<"ALERT", "SUSPICIOUS">>, <<"ALERT", "COOLING_OFF">>,
      <<"COOLING_OFF", "ACTIVE">>, <<"COOLING_OFF", "RELEASING">>,
      <<"RELEASING", "RELEASED">>, <<"RELEASED", "ARCHIVED">> }

-----------------------------------------------------------------------------
(* Statements on the vault row.                                            *)

\* UPDATE vault SET state = $1 WHERE id = $2: whatever the state was.
SetVaultState(s) ==
  /\ vaultState' = s
  /\ UNCHANGED window

\* A bug the compare-and-set protects from: the claim succeeds from any state.
ClaimVaultForRelease_AnyState ==
  /\ vaultState' = "RELEASING"
  /\ UNCHANGED window

\* Another: the claimant performs the release but leaves the row claimable.
ClaimVaultForRelease_NoMark ==
  /\ vaultState = "COOLING_OFF"
  /\ UNCHANGED <<vaultState, window>>

\* UPDATE ... SET state = 'RELEASING' WHERE state = 'COOLING_OFF', one row hit.
ClaimVaultForRelease ==
  /\ vaultState = "COOLING_OFF"
  /\ vaultState' = "RELEASING"
  /\ UNCHANGED window

\* A bug: the update does not compare the state, so every caller wins.
ClaimVaultCoolingOff_Blind(from) ==
  /\ from \in VaultState
  /\ vaultState = "COOLING_OFF" \/ window < MaxReleases
  /\ vaultState' = "COOLING_OFF"
  /\ window' = IF vaultState = "COOLING_OFF" THEN window ELSE window + 1

\* UPDATE ... SET state = 'COOLING_OFF' WHERE state = from, one row hit.
ClaimVaultCoolingOff(from) ==
  /\ vaultState = from
  /\ window < MaxReleases
  /\ vaultState' = "COOLING_OFF"
  /\ window' = window + 1

-----------------------------------------------------------------------------
(* Statements on the release_event rows.                                   *)

NextEvent == lastEvent + 1

\* A bug: the insert never commits, though the caller goes on with its id.
CreateReleaseEvent_NotCommitted(drill, endsAt) ==
  /\ event' = [event EXCEPT ![NextEvent] = [drill |-> drill, deadline |-> endsAt]]
  /\ UNCHANGED <<lastEvent, released, cancelled>>

\* Another: create_release_event, which leaves cooling_off_ends_at NULL, in its
\* place; no instant is past a NULL deadline.
CreateReleaseEvent_NoDeadline(drill, endsAt) ==
  /\ lastEvent' = NextEvent
  /\ event' = [event EXCEPT ![NextEvent] = [drill |-> drill, deadline |-> MaxClock + 1]]
  /\ UNCHANGED <<released, cancelled>>

\* INSERT INTO release_event (..., is_drill, cooling_off_ends_at)
CreateReleaseEvent(drill, endsAt) ==
  /\ lastEvent' = NextEvent
  /\ event' = [event EXCEPT ![NextEvent] = [drill |-> drill, deadline |-> endsAt]]
  /\ UNCHANGED <<released, cancelled>>

OpenEvents == Created \ (released \cup cancelled)

\* fetch_open_release returns e: the open event with the latest triggered_at.
FetchOpenRelease(e) == e \in OpenEvents /\ \A o \in OpenEvents : o <= e

\* A listing that forgets to compare the deadline with now.
ListDueReleases_IgnoresDeadline ==
  IF vaultState = "COOLING_OFF" THEN OpenEvents ELSE {}

\* list_due_releases: open, past the deadline, of a vault in COOLING_OFF.
ListDueReleases ==
  IF vaultState = "COOLING_OFF"
  THEN {e \in OpenEvents : event[e].deadline <= clock}
  ELSE {}

\* UPDATE release_event SET released_at = now() WHERE id = $1
MarkReleaseReleased(e) ==
  /\ released' = released \cup {e}
  /\ UNCHANGED <<event, lastEvent, cancelled>>

\* ... SET cancelled_at = now() WHERE id = $1 AND the event is still open
MarkReleaseCancelled(e) ==
  /\ cancelled' = cancelled \cup ({e} \cap OpenEvents)
  /\ UNCHANGED <<event, lastEvent, released>>

\* Time passes for everyone.
Tick ==
  /\ clock < MaxClock
  /\ clock' = clock + 1
  /\ UNCHANGED <<vaultState, eventVars, window>>

=============================================================================

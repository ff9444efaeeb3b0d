------------------------------- MODULE Circle -------------------------------
(***************************************************************************)
(* The people and services around a principal: inviting, confirming,       *)
(* revoking and signing in a Co-Steward, and enrolling the bank-activity   *)
(* webhook, in crates/beacon-api/src/routes.rs.                            *)
(*                                                                         *)
(* Each reads before it writes: the seats are counted before a row is      *)
(* inserted, the salt is fetched before the passphrase is compared, the    *)
(* webhook is looked for before one is made.  A passphrase is named by the *)
(* invitation it was chosen with.                                          *)
(***************************************************************************)
EXTENDS Naturals, FiniteSets

CONSTANTS
  Email,           \* addresses that may be invited
  Guest,           \* requests in progress
  MaxSeats,        \* the plan's max_co_stewards
  MaxInvitations,  \* bound: invitations sent
  MaxHooks         \* bound: webhook ids made

ASSUME CircleAssumption ==
  /\ MaxSeats \in Nat /\ MaxInvitations \in Nat /\ MaxHooks \in Nat
  /\ IsFiniteSet(Email)

VARIABLES
  seat,        \* co_steward rows
  invited,     \* how many invitations were sent
  latest,      \* history: the last invitation of each address
  guest,       \* the requests
  dashboards,  \* live CO_STEWARD sessions, as the address they were made for
  hook,        \* bank_dormancy_subscription: its webhook id, or 0
  hooks,       \* how many ids were made
  handed,      \* history: the ids a principal was told
  revoked,     \* history: the ids that were revoked
  jostled      \* history: two requests were at work at the same time

seatVars == <<seat, invited, latest, dashboards>>
hookVars == <<hook, hooks, handed, revoked>>
circleVars == <<seatVars, guest, hookVars, jostled>>

Invitation == 0..MaxInvitations
NoSeat == [taken |-> FALSE, confirmed |-> FALSE, token |-> 0, passphrase |-> 0]
Visitor(pc, e, p, s) == [pc |-> pc, email |-> e, typed |-> p, salt |-> s]
Nobody == "none"
Away == Visitor("idle", Nobody, 0, 0)
VisitorState == [pc: {"idle", "insert", "match", "session", "enrol"},
                 email: Email \cup {Nobody}, typed: Nat, salt: Nat]

CircleTypeOK ==
  /\ seat \in [Email -> [taken: BOOLEAN, confirmed: BOOLEAN, token: Invitation,
                         passphrase: Invitation]]
  /\ invited \in Invitation /\ latest \in [Email -> Invitation]
  /\ guest \in [Guest -> VisitorState]
  /\ dashboards \subseteq Email
  /\ hook \in 0..hooks /\ hooks \in 0..MaxHooks
  /\ handed \subseteq 1..hooks /\ revoked \subseteq 1..hooks
  /\ jostled \in BOOLEAN

CircleInit ==
  /\ seat = [e \in Email |-> NoSeat]
  /\ invited = 0 /\ latest = [e \in Email |-> 0]
  /\ guest = [g \in Guest |-> Away]
  /\ dashboards = {}
  /\ hook = 0 /\ hooks = 0 /\ handed = {} /\ revoked = {}
  /\ jostled = FALSE

GuestAt(g, pc) == guest[g].pc = pc
GuestGoto(g, v) == guest' = [guest EXCEPT ![g] = v]

-----------------------------------------------------------------------------
(* Co-Stewards.  "taken" is a row that is not revoked.                     *)

Taken == {e \in Email : seat[e].taken}

\* co_steward_count
InviteCount(g, e) ==
  /\ GuestAt(g, "idle")
  /\ Cardinality(Taken) < MaxSeats
  /\ GuestGoto(g, Visitor("insert", e, 0, 0))
  /\ UNCHANGED <<seatVars, hookVars>>

\* A bug: the conflicting row keeps its confirmation.
InviteInsert_Confirmed(g) ==
  /\ GuestAt(g, "insert") /\ invited < MaxInvitations
  /\ invited' = invited + 1
  /\ LET e == guest[g].email
     IN /\ seat' = [seat EXCEPT ![e].taken = TRUE, ![e].token = invited + 1]
        /\ latest' = [latest EXCEPT ![e] = invited + 1]
  /\ GuestGoto(g, Away)
  /\ UNCHANGED <<dashboards, hookVars>>

\* invite_co_steward: an address that has a row is invited anew, its old passphrase kept.
InviteInsert(g) ==
  /\ GuestAt(g, "insert") /\ invited < MaxInvitations
  /\ invited' = invited + 1
  /\ LET e == guest[g].email
     IN /\ seat' = [seat EXCEPT ![e].taken = TRUE, ![e].confirmed = FALSE,
                                ![e].token = invited + 1]
        /\ latest' = [latest EXCEPT ![e] = invited + 1]
  /\ GuestGoto(g, Away)
  /\ UNCHANGED <<dashboards, hookVars>>

\* confirm_co_steward, with a token that was mailed; the session comes next.
ConfirmSeat(g, e, n) ==
  /\ GuestAt(g, "idle")
  /\ n # 0 /\ seat[e].token = n /\ seat[e].taken
  /\ seat' = [seat EXCEPT ![e].confirmed = TRUE, ![e].passphrase = n, ![e].token = 0]
  /\ GuestGoto(g, Visitor("session", e, n, 0))
  /\ UNCHANGED <<invited, latest, dashboards, hookVars>>

\* lookup_co_steward_salt, for a passphrase chosen with invitation n.
LookupSalt(g, e, n) ==
  /\ GuestAt(g, "idle") /\ n # 0
  /\ seat[e].confirmed /\ seat[e].taken
  /\ GuestGoto(g, Visitor("match", e, n, seat[e].passphrase))
  /\ UNCHANGED <<seatVars, hookVars>>

\* sign_in_co_steward: the row must still have the hash made with that salt.
MatchPassphrase(g) ==
  /\ GuestAt(g, "match")
  /\ LET v == guest[g]
     IN GuestGoto(g, IF /\ seat[v.email].confirmed /\ seat[v.email].taken
                        /\ v.salt = seat[v.email].passphrase
                        /\ v.typed = seat[v.email].passphrase
                     THEN [v EXCEPT !.pc = "session"] ELSE Away)
  /\ UNCHANGED <<seatVars, hookVars>>

\* create_co_steward_session
OpenDashboard(g) ==
  /\ GuestAt(g, "session")
  /\ dashboards' = dashboards \cup {guest[g].email}
  /\ GuestGoto(g, Away)
  /\ UNCHANGED <<seat, invited, latest, hookVars>>

\* revoke_co_steward marks the row; sessions run out by themselves.
RevokeSeat(e) ==
  /\ seat[e].taken
  /\ seat' = [seat EXCEPT ![e].taken = FALSE]
  /\ UNCHANGED <<invited, latest, dashboards, guest, hookVars>>

DashboardExpires(e) ==
  /\ e \in dashboards
  /\ dashboards' = dashboards \ {e}
  /\ UNCHANGED <<seat, invited, latest, guest, hookVars>>

-----------------------------------------------------------------------------
(* The bank-activity webhook.                                              *)

\* bank_dormancy_enrol returns the webhook there is, or goes on to make one.
EnrolFetch(g) ==
  /\ GuestAt(g, "idle")
  /\ IF hook # 0
     THEN handed' = handed \cup {hook} /\ UNCHANGED guest
     ELSE GuestGoto(g, Visitor("enrol", Nobody, 0, 0)) /\ UNCHANGED handed
  /\ UNCHANGED <<seatVars, hook, hooks, revoked>>

\* A bug: an id that is made is not stored.
EnrolCreate_Unstored(g) ==
  /\ GuestAt(g, "enrol") /\ hooks < MaxHooks
  /\ hooks' = hooks + 1
  /\ handed' = handed \cup {hooks + 1}
  /\ GuestGoto(g, Away)
  /\ UNCHANGED <<seatVars, hook, revoked>>

\* create_bank_dormancy_sub does nothing if there is a row by now, and the principal
\* is told the id that was made in any case.
EnrolCreate(g) ==
  /\ GuestAt(g, "enrol") /\ hooks < MaxHooks
  /\ hooks' = hooks + 1
  /\ hook' = IF hook = 0 THEN hooks + 1 ELSE hook
  /\ handed' = handed \cup {hooks + 1}
  /\ GuestGoto(g, Away)
  /\ UNCHANGED <<seatVars, revoked>>

\* revoke_bank_signal
RevokeHook ==
  /\ hook # 0
  /\ revoked' = revoked \cup {hook}
  /\ hook' = 0
  /\ UNCHANGED <<seatVars, guest, hooks, handed>>

-----------------------------------------------------------------------------
GuestStops(g) ==
  /\ ~GuestAt(g, "idle")
  /\ GuestGoto(g, Away)
  /\ UNCHANGED <<seatVars, hookVars>>

CircleNext ==
  /\ \/ \E g \in Guest : InviteInsert(g) \/ MatchPassphrase(g) \/ OpenDashboard(g)
                         \/ EnrolFetch(g) \/ EnrolCreate(g) \/ GuestStops(g)
     \/ \E g \in Guest : \E e \in Email :
          InviteCount(g, e) \/ \E n \in Invitation : ConfirmSeat(g, e, n) \/ LookupSalt(g, e, n)
     \/ \E e \in Email : RevokeSeat(e) \/ DashboardExpires(e)
     \/ RevokeHook
  /\ jostled' = (jostled \/ \E g, h \in Guest : /\ g # h
                                               /\ guest'[g].pc # "idle" /\ guest'[h].pc # "idle")

CircleSpec == CircleInit /\ [][CircleNext]_circleVars

-----------------------------------------------------------------------------
\* The inductive invariant behind SeatsInOrder and WebhookAnswers: what is confirmed or
\* can be is of the last invitation, and while one request is at work nothing of what
\* it has read has changed.
CircleInv ==
  /\ seat \in [Email -> [taken: BOOLEAN, confirmed: BOOLEAN, token: Nat, passphrase: Nat]]
  /\ invited \in Nat /\ latest \in [Email -> Nat] /\ hooks \in Nat /\ 0 \notin handed
  /\ guest \in [Guest -> VisitorState]
  /\ \A g \in Guest : GuestAt(g, "insert") => guest[g].email \in Email
  /\ \A e \in Email : /\ seat[e].confirmed => seat[e].passphrase = latest[e]
                      /\ seat[e].token # 0 => seat[e].token = latest[e]
  /\ ~jostled =>
       /\ \A g, h \in Guest : g # h => GuestAt(g, "idle") \/ GuestAt(h, "idle")
       /\ Cardinality(Taken) <= MaxSeats
       /\ \A g \in Guest : GuestAt(g, "insert") => Cardinality(Taken) < MaxSeats
       /\ \A g \in Guest : GuestAt(g, "enrol") => hook = 0
       /\ handed \subseteq {hook} \cup revoked

-----------------------------------------------------------------------------
(* Properties.                                                             *)

\* Who may sign in as a Co-Steward answered the last invitation of that address,
\* whatever was sent, answered and revoked before; and there are no more of them than
\* the plan allows, unless two invitations overlapped.
SeatsInOrder ==
  /\ \A e \in Email : seat[e].taken /\ seat[e].confirmed => seat[e].passphrase = latest[e]
  /\ ~jostled => Cardinality(Taken) <= MaxSeats

\* A webhook the principal was told works until it is revoked (routes.rs, line 2743:
\* idempotent), unless two enrolments overlapped: then one of them is told an id that
\* was never stored.
WebhookAnswers == ~jostled => handed \subseteq {hook} \cup revoked
=============================================================================

------------------------------- MODULE SignIn -------------------------------
(***************************************************************************)
(* Making an account and signing in to it: signup, signin and              *)
(* magic_link_verify of crates/beacon-api/src/routes.rs, the registration  *)
(* and authentication ceremonies of passkey.rs up to the session they end  *)
(* in, signout.                                                            *)
(*                                                                         *)
(* One email address, which several browser tabs use at the same time.     *)
(* Each statement is a step of its own; the account's row, its acceptance  *)
(* of the Terms and its subscription are three of them.  A ticket is what  *)
(* a session is obtained with: an emailed link, or the challenge of a      *)
(* passkey ceremony.  Both lapse, and both can be presented many times.    *)
(***************************************************************************)
EXTENDS Naturals, FiniteSets

CONSTANTS
  Tab,           \* requests in progress, one per browser tab
  MaxTickets,    \* bound: links and challenges issued
  LinkTtl,       \* how long a link lasts (15 minutes)
  ChallengeTtl,  \* how long a challenge lasts (5 minutes)
  MaxNow,        \* bound: the clock
  MaxFaults      \* bound: requests that stop half-way

ASSUME SignInAssumption ==
  /\ MaxTickets \in Nat /\ MaxNow \in Nat /\ MaxFaults \in Nat
  /\ LinkTtl \in Nat \ {0} /\ ChallengeTtl \in Nat \ {0}

VARIABLES
  account,   \* principal row, tos_accepted_at, subscription row: which exist
  now,       \* now()
  issued,    \* how many tickets were issued
  tickets,   \* magic_link and webauthn_challenge rows, consumed or not
  sessions,  \* how many live session rows there are
  minted,    \* history: how many sessions each ticket earned
  tab,       \* the requests
  faults,    \* how many requests stopped
  marred     \* history: the account's making was stopped or refused half-way, or a
               \* statement of it failed

accountState == <<account, marred>>
ticketVars == <<issued, tickets, sessions, minted>>
signInVars == <<accountState, now, ticketVars, tab, faults>>

Pass == 1..MaxTickets
Kind == {"link", "REGISTRATION", "AUTHENTICATION"}
NoPass == [kind |-> "link", expires |-> 0, open |-> FALSE]

\* The states of a request: the handlers of this module, then those of PrivateVaults.
Pc == {"idle", "select", "insert", "known", "accept", "subscribe", "link", "session",
       "options", "mint", "auth"}
      \cup {"lookup", "store", "look", "code", "zk", "drop"}

\* The locals of a request: the way it came, the Terms box, the ticket it consumed,
\* and the passkey and code PrivateVaults works with.
Request(pc, way, agreed, k) ==
  [pc |-> pc, way |-> way, agreed |-> agreed, ticket |-> k, passkey |-> 0, code |-> 0]
Free == Request("idle", "email", FALSE, 0)
RequestState == [pc: Pc, way: {"email", "passkey"}, agreed: BOOLEAN, ticket: 0..MaxTickets,
                 passkey: Nat, code: Nat]

SignInTypeOK ==
  /\ account \in [exists: BOOLEAN, tos: BOOLEAN, subscribed: BOOLEAN]
  /\ now \in 0..MaxNow /\ issued \in 0..MaxTickets
  /\ tickets \in [Pass -> [kind: Kind, expires: Nat, open: BOOLEAN]]
  /\ sessions \in 0..MaxTickets + 1
  /\ minted \in [Pass -> Nat]
  /\ tab \in [Tab -> RequestState]
  /\ faults \in 0..MaxFaults /\ marred \in BOOLEAN

NoAccount == [exists |-> FALSE, tos |-> FALSE, subscribed |-> FALSE]

\* No request is in progress and no ticket was issued.
SignInStarts(with, live) ==
  /\ account = with /\ sessions = live
  /\ now = 0 /\ issued = 0
  /\ tickets = [k \in Pass |-> NoPass]
  /\ minted = [k \in Pass |-> 0]
  /\ tab = [t \in Tab |-> Free]
  /\ faults = 0 /\ marred = FALSE

TabGoto(t, pc) == tab' = [tab EXCEPT ![t].pc = pc]
Leave(t) == tab' = [tab EXCEPT ![t] = Free]

-----------------------------------------------------------------------------
(* The account.                                                            *)

\* signup asks for the Terms before anything else, the passkey route later.
Begin(t, way, agreed) ==
  /\ tab[t].pc = "idle"
  /\ way = "email" => agreed
  /\ tab' = [tab EXCEPT ![t] = Request("select", way, agreed, 0)]
  /\ UNCHANGED <<accountState, now, ticketVars, faults>>

\* upsert_principal_by_email: a SELECT ...
UpsertSelect(t) ==
  /\ tab[t].pc = "select"
  /\ TabGoto(t, IF account.exists THEN "known" ELSE "insert")
  /\ UNCHANGED <<accountState, now, ticketVars, faults>>

\* ... and an INSERT, which fails on the address's uniqueness.
UpsertInsert(t) ==
  /\ tab[t].pc = "insert"
  /\ IF account.exists THEN Leave(t) ELSE TabGoto(t, "accept")
  /\ account' = [account EXCEPT !.exists = TRUE]
  /\ UNCHANGED <<marred, now, ticketVars, faults>>

\* set_tos_accepted, unless the passkey route refuses here: the row stays.
Accept(t) ==
  /\ tab[t].pc = "accept"
  /\ IF tab[t].agreed
     THEN /\ account' = [account EXCEPT !.tos = TRUE]
          /\ TabGoto(t, "subscribe")
          /\ UNCHANGED marred
     ELSE Leave(t) /\ marred' = TRUE /\ UNCHANGED account
  /\ UNCHANGED <<now, ticketVars, faults>>

\* A bug: the row of a new account is taken for an old one.
Subscribe_Skipped(t) ==
  /\ tab[t].pc = "subscribe"
  /\ TabGoto(t, IF tab[t].way = "email" THEN "link" ELSE "options")
  /\ UNCHANGED <<accountState, now, ticketVars, faults>>

\* create_subscription
Subscribe(t) ==
  /\ tab[t].pc = "subscribe"
  /\ account' = [account EXCEPT !.subscribed = TRUE]
  /\ TabGoto(t, IF tab[t].way = "email" THEN "link" ELSE "options")
  /\ UNCHANGED <<marred, now, ticketVars, faults>>

\* The acceptance is not recorded, and nobody looks.
AcceptFails(t) ==
  /\ tab[t].pc = "accept" /\ tab[t].agreed /\ faults < MaxFaults
  /\ TabGoto(t, "subscribe")
  /\ marred' = TRUE /\ faults' = faults + 1
  /\ UNCHANGED <<account, now, ticketVars>>

-----------------------------------------------------------------------------
(* Tickets.                                                                *)

Issue(kind, ttl) ==
  /\ issued < MaxTickets
  /\ issued' = issued + 1
  /\ tickets' = [tickets EXCEPT ![issued + 1] =
                   [kind |-> kind, expires |-> now + ttl, open |-> TRUE]]
  /\ UNCHANGED <<sessions, minted>>

\* The address has an account: signup mails a link and answers 409.
MailKnown(t) ==
  /\ tab[t].pc = "known" /\ tab[t].way = "email"
  /\ Issue("link", LinkTtl)
  /\ Leave(t)
  /\ UNCHANGED <<accountState, now, faults>>

\* A passkey is added to an account only for who is signed in to it.
AdmitKnown(t) ==
  /\ tab[t].pc = "known" /\ tab[t].way = "passkey"
  /\ IF sessions # 0 THEN TabGoto(t, "options") ELSE Leave(t)
  /\ UNCHANGED <<accountState, now, ticketVars, faults>>

\* A new account is mailed a link ...
MailLink(t) ==
  /\ tab[t].pc = "link"
  /\ Issue("link", LinkTtl)
  /\ TabGoto(t, "session")
  /\ UNCHANGED <<accountState, now, faults>>

\* ... and handed a session at once.
FirstSession(t) ==
  /\ tab[t].pc = "session"
  /\ sessions' = sessions + 1
  /\ Leave(t)
  /\ UNCHANGED <<accountState, now, issued, tickets, minted, faults>>

\* signin
SigninLink(t) ==
  /\ tab[t].pc = "idle" /\ account.exists
  /\ Issue("link", LinkTtl)
  /\ UNCHANGED <<accountState, now, tab, faults>>

\* create_webauthn_challenge, at the end of passkey_register_options.
RegisterOptions(t) ==
  /\ tab[t].pc = "options"
  /\ Issue("REGISTRATION", ChallengeTtl)
  /\ Leave(t)
  /\ UNCHANGED <<accountState, now, faults>>

Present(t, k) ==
  tab' = [tab EXCEPT ![t] =
    Request(CASE tickets[k].kind = "link" -> "mint"
              [] tickets[k].kind = "REGISTRATION" -> "lookup"
              [] tickets[k].kind = "AUTHENTICATION" -> "auth", "email", FALSE, k)]

\* A bug: the ticket lapses, but nothing marks it as consumed.
Consume_Unmarked(t, k) ==
  /\ tab[t].pc = "idle"
  /\ tickets[k].open /\ tickets[k].expires > now
  /\ Present(t, k)
  /\ UNCHANGED <<accountState, now, ticketVars, faults>>

\* consume_magic_link, consume_webauthn_challenge: one statement, one winner.
Consume(t, k) ==
  /\ tab[t].pc = "idle"
  /\ tickets[k].open /\ tickets[k].expires > now
  /\ Present(t, k)
  /\ tickets' = [tickets EXCEPT ![k].open = FALSE]
  /\ UNCHANGED <<accountState, now, issued, sessions, minted, faults>>

\* create_session
Mint(t) ==
  /\ tab[t].pc = "mint"
  /\ sessions' = sessions + 1
  /\ minted' = [minted EXCEPT ![tab[t].ticket] = @ + 1]
  /\ Leave(t)
  /\ UNCHANGED <<accountState, now, issued, tickets, faults>>

\* signout: revoke_session
Signout ==
  /\ sessions # 0
  /\ sessions' = sessions - 1
  /\ UNCHANGED <<accountState, now, issued, tickets, minted, tab, faults>>

-----------------------------------------------------------------------------
Tick ==
  /\ now < MaxNow
  /\ now' = now + 1
  /\ UNCHANGED <<accountState, ticketVars, tab, faults>>

\* A statement fails, the process dies, or the client goes away.
Stops(t) ==
  /\ tab[t].pc # "idle" /\ faults < MaxFaults
  /\ faults' = faults + 1
  /\ marred' = (marred \/ tab[t].pc \in {"accept", "subscribe"})
  /\ Leave(t)
  /\ UNCHANGED <<account, now, ticketVars>>

SignInStep ==
  \/ \E t \in Tab : \E way \in {"email", "passkey"} : \E agreed \in BOOLEAN :
       Begin(t, way, agreed)
  \/ \E t \in Tab : UpsertSelect(t) \/ UpsertInsert(t) \/ Accept(t) \/ Subscribe(t)
  \/ \E t \in Tab : AcceptFails(t) \/ MailKnown(t) \/ AdmitKnown(t) \/ MailLink(t)
  \/ \E t \in Tab : FirstSession(t) \/ SigninLink(t) \/ RegisterOptions(t)
  \/ \E t \in Tab : Stops(t) \/ \E k \in Pass : Consume(t, k)
  \/ Signout \/ Tick

-----------------------------------------------------------------------------
(* Properties.                                                             *)

\* However many tabs present it, and whatever fails, a link or a challenge earns one
\* session (routes.rs, lines 3101-3104).
OneSessionPerTicket == \A k \in Pass : minted[k] <= 1

\* What makes it inductive: who has consumed a ticket has it alone, and it is shut.
TicketInv ==
  /\ tickets \in [Pass -> [kind: Kind, expires: Nat, open: BOOLEAN]]
  /\ minted \in [Pass -> Nat]
  /\ tab \in [Tab -> RequestState]
  /\ issued \in 0..MaxTickets /\ now \in Nat
  /\ \A k \in Pass : k > issued =>
       minted[k] = 0 /\ ~tickets[k].open /\ \A t \in Tab : tab[t].ticket # k
  /\ \A t \in Tab : tab[t].ticket # 0 =>
       ~tickets[tab[t].ticket].open /\ minted[tab[t].ticket] = 0
  /\ \A t, u \in Tab : tab[t].ticket # 0 /\ tab[t].ticket = tab[u].ticket => t = u
  /\ \A k \in Pass : minted[k] <= 1 /\ (tickets[k].open => minted[k] = 0)

\* An account that nobody is making any more has accepted the Terms and has a
\* subscription, unless its making was stopped or refused after its row was there.
AccountWhole ==
  account.exists /\ ~marred /\ (\A t \in Tab : tab[t].pc \notin {"accept", "subscribe"})
    => account.tos /\ account.subscribed

\* What makes it inductive: one request makes the account, and what the account still
\* lacks is what that request has ahead of it.
BeingMade == {t \in Tab : tab[t].pc \in {"accept", "subscribe"}}

MakingInv ==
  /\ account \in [exists: BOOLEAN, tos: BOOLEAN, subscribed: BOOLEAN] /\ marred \in BOOLEAN
  /\ BeingMade # {} => account.exists
  /\ \A t, u \in BeingMade : t = u
  /\ account.exists /\ ~marred =>
       /\ account.tos \/ \E t \in Tab : tab[t].pc = "accept"
       /\ account.subscribed \/ BeingMade # {}

\* Behind the number of sessions: each is of a ticket that earned it, but for the one
\* that the account's making ends with.
Makers == {t \in Tab : tab[t].pc \in {"accept", "subscribe", "link", "session"}}
Earned == {k \in Pass : minted[k] # 0}

SessionInv ==
  /\ Makers # {} => account.exists
  /\ \A t, u \in Makers : t = u
  /\ \A t \in Tab : tab[t].pc \in {"mint", "lookup", "store", "look", "code", "auth"} =>
       tab[t].ticket # 0
  /\ sessions \in Nat
  /\ sessions <= Cardinality(Earned) + IF account.exists /\ Makers = {} THEN 1 ELSE 0
=============================================================================

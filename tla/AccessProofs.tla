---------------------------- MODULE AccessProofs ----------------------------
(***************************************************************************)
(* A link or a challenge earns at most one session, for any number of tabs *)
(* and tickets.  Who consumed a ticket shut it, and has it alone; nobody   *)
(* can consume it again, so nobody else can mint with it.  Whoever claims  *)
(* a Private Letter gets what its author was told is in place, and whoever *)
(* recovers gets every letter that is left.  One request makes an account; *)
(* and while requests about passkeys take turns, the recovery code opens   *)
(* the Recovery Key and a passkey is left for the Private Vaults.          *)
(***************************************************************************)
EXTENDS PrivateVaults, PrivateLetters, FiniteSetTheorems, TLAPS

\* What nearly every step does to the requests: tickets are kept or given up.
Kept ==
  /\ tab' \in [Tab -> RequestState]
  /\ \A t \in Tab : tab'[t].ticket \in {0, tab[t].ticket}

LEMMA GotoKeeps ==
  ASSUME TicketInv, NEW t \in Tab, NEW pc \in Pc, TabGoto(t, pc)
  PROVE  Kept
<1>1. tab \in [Tab -> RequestState] BY DEF TicketInv
<1>2. tab' = [tab EXCEPT ![t] = [tab[t] EXCEPT !.pc = pc]] BY <1>1 DEF TabGoto
<1>3. tab[t] \in RequestState BY <1>1
<1>4. [tab[t] EXCEPT !.pc = pc] \in RequestState BY <1>3 DEF RequestState
<1>5. [tab[t] EXCEPT !.pc = pc].ticket = tab[t].ticket BY <1>3 DEF RequestState
<1>6. QED BY <1>1, <1>2, <1>4, <1>5 DEF Kept

LEMMA LeaveKeeps ==
  ASSUME TicketInv, NEW t \in Tab, Leave(t)
  PROVE  Kept
<1>1. tab \in [Tab -> RequestState] BY DEF TicketInv
<1>2. Free \in RequestState /\ Free.ticket = 0
  BY SignInAssumption DEF Free, Request, RequestState, Pc
<1>3. QED BY <1>1, <1>2 DEF Kept, Leave

LEMMA SameKeeps ==
  ASSUME TicketInv, UNCHANGED tab
  PROVE  Kept
BY DEF TicketInv, Kept

\* Steps that leave the tickets alone.
LEMMA TicketsAlone ==
  ASSUME TicketInv, Kept, UNCHANGED <<issued, tickets, minted>>, now' \in Nat
  PROVE  TicketInv'
<1>1. \A t \in Tab : tab'[t].ticket # 0 => tab'[t].ticket = tab[t].ticket BY DEF Kept
<1>2. \A t, u \in Tab : tab'[t].ticket # 0 /\ tab'[t].ticket = tab'[u].ticket => t = u
  BY <1>1 DEF TicketInv
<1>3. \A t \in Tab : tab'[t].ticket # 0 =>
         ~tickets[tab'[t].ticket].open /\ minted[tab'[t].ticket] = 0
  BY <1>1 DEF TicketInv
<1>4. \A k \in Pass : k > issued =>
         minted[k] = 0 /\ ~tickets[k].open /\ \A t \in Tab : tab'[t].ticket # k
  <2> SUFFICES ASSUME NEW k \in Pass, k > issued
               PROVE  minted[k] = 0 /\ ~tickets[k].open /\ \A t \in Tab : tab'[t].ticket # k
    OBVIOUS
  <2>1. k # 0 BY DEF Pass
  <2>2. QED BY <1>1, <2>1 DEF TicketInv
<1>5. QED BY <1>2, <1>3, <1>4 DEF TicketInv, Kept

\* Issuing hands out a ticket nobody has heard of.
LEMMA IssueKeeps ==
  ASSUME TicketInv, Kept, UNCHANGED now,
         NEW kind \in Kind, NEW ttl \in Nat, Issue(kind, ttl)
  PROVE  TicketInv'
<1> PICK k : k = issued + 1 OBVIOUS
<1> PICK fresh : fresh = [kind |-> kind, expires |-> now + ttl, open |-> TRUE] OBVIOUS
<1>1. issued \in Nat /\ k \in Pass /\ k > issued /\ k # 0
  BY SignInAssumption DEF TicketInv, Issue, Pass
<1>2. issued' = k /\ k \in 0..MaxTickets /\ UNCHANGED minted
  BY <1>1, SignInAssumption DEF Issue, Pass
<1>3. tickets' = [tickets EXCEPT ![k] = fresh] BY DEF Issue
<1>4. fresh \in [kind: Kind, expires: Nat, open: BOOLEAN] BY DEF TicketInv
<1>5. tickets' \in [Pass -> [kind: Kind, expires: Nat, open: BOOLEAN]]
  BY <1>3, <1>4 DEF TicketInv
<1>6. \A j \in Pass : j # k => tickets'[j] = tickets[j] BY <1>3 DEF TicketInv
<1>7. minted[k] = 0 /\ \A t \in Tab : tab[t].ticket # k BY <1>1 DEF TicketInv
<1>8. \A t \in Tab : tab'[t].ticket # 0 =>
         tab'[t].ticket = tab[t].ticket /\ tab'[t].ticket # k
  BY <1>7 DEF Kept
<1>9. \A t \in Tab : tab'[t].ticket # 0 => tab'[t].ticket \in Pass
  BY SignInAssumption DEF Kept, RequestState, Pass
<1>10. \A t \in Tab : tab'[t].ticket # 0 =>
         ~tickets'[tab'[t].ticket].open /\ minted[tab'[t].ticket] = 0
  BY <1>6, <1>8, <1>9 DEF TicketInv
<1>11. \A t, u \in Tab : tab'[t].ticket # 0 /\ tab'[t].ticket = tab'[u].ticket => t = u
  BY <1>8 DEF TicketInv
<1>12. \A j \in Pass : j > k =>
         minted[j] = 0 /\ ~tickets'[j].open /\ \A t \in Tab : tab'[t].ticket # j
  <2> SUFFICES ASSUME NEW j \in Pass, j > k
               PROVE  minted[j] = 0 /\ ~tickets'[j].open /\ \A t \in Tab : tab'[t].ticket # j
    OBVIOUS
  <2>1. j > issued /\ j # 0 /\ j # k BY <1>1 DEF Pass, TicketInv
  <2>2. tickets'[j] = tickets[j] BY <2>1, <1>6
  <2>3. QED BY <2>1, <2>2, <1>8 DEF TicketInv
<1>13. \A j \in Pass : minted[j] <= 1 /\ (tickets'[j].open => minted[j] = 0)
  BY <1>6, <1>7 DEF TicketInv
<1>14. QED BY <1>2, <1>5, <1>10, <1>11, <1>12, <1>13 DEF TicketInv, Kept

\* Consuming shuts the ticket, and gives it to one request.
LEMMA ConsumeKeeps ==
  ASSUME TicketInv, NEW t \in Tab, NEW k \in Pass, Consume(t, k)
  PROVE  TicketInv'
<1> PICK r : r = Request(CASE tickets[k].kind = "link" -> "mint"
                           [] tickets[k].kind = "REGISTRATION" -> "lookup"
                           [] tickets[k].kind = "AUTHENTICATION" -> "auth",
                         "email", FALSE, k)
  OBVIOUS
<1>1. tickets[k].kind \in Kind /\ tickets[k] \in [kind: Kind, expires: Nat, open: BOOLEAN]
  BY DEF TicketInv
<1>2. r \in RequestState /\ r.ticket = k
  BY <1>1, SignInAssumption DEF Request, RequestState, Pc, Kind, Pass
<1>3. tab' = [tab EXCEPT ![t] = r] BY DEF Consume, Present
<1>4. tab' \in [Tab -> RequestState] /\ tab'[t] = r
       /\ \A u \in Tab : u # t => tab'[u] = tab[u]
  BY <1>2, <1>3 DEF TicketInv
<1>5. tickets' = [tickets EXCEPT ![k] = [tickets[k] EXCEPT !.open = FALSE]]
       /\ UNCHANGED <<issued, minted, now>> /\ tickets[k].open
  BY DEF Consume
<1>6. /\ tickets' \in [Pass -> [kind: Kind, expires: Nat, open: BOOLEAN]]
      /\ ~tickets'[k].open
      /\ \A j \in Pass : j # k => tickets'[j] = tickets[j]
  BY <1>1, <1>5 DEF TicketInv
<1>7. \A u \in Tab : tab[u].ticket # k BY <1>5 DEF TicketInv, Pass
<1>8. minted[k] = 0 BY <1>5 DEF TicketInv
<1>9. \A u \in Tab : tab'[u].ticket # 0 =>
        ~tickets'[tab'[u].ticket].open /\ minted[tab'[u].ticket] = 0
  <2> SUFFICES ASSUME NEW u \in Tab, tab'[u].ticket # 0
               PROVE  ~tickets'[tab'[u].ticket].open /\ minted[tab'[u].ticket] = 0
    OBVIOUS
  <2>1. CASE u = t BY <2>1, <1>2, <1>4, <1>6, <1>8
  <2>2. CASE u # t
    <3>1. tab'[u].ticket = tab[u].ticket /\ tab[u].ticket # k BY <2>2, <1>4, <1>7
    <3>2. tab[u] \in RequestState BY DEF TicketInv
    <3>3. tab[u].ticket \in Pass BY <3>1, <3>2, SignInAssumption DEF RequestState, Pass
    <3>4. QED BY <3>1, <3>3, <1>6 DEF TicketInv
  <2>3. QED BY <2>1, <2>2
<1>10. \A u, w \in Tab : tab'[u].ticket # 0 /\ tab'[u].ticket = tab'[w].ticket => u = w
  <2> SUFFICES ASSUME NEW u \in Tab, NEW w \in Tab, u # w,
                      tab'[u].ticket # 0, tab'[u].ticket = tab'[w].ticket
               PROVE  FALSE
    OBVIOUS
  <2>1. CASE u = t BY <2>1, <1>2, <1>4, <1>7
  <2>2. CASE w = t BY <2>2, <1>2, <1>4, <1>7
  <2>3. CASE u # t /\ w # t BY <2>3, <1>4 DEF TicketInv
  <2>4. QED BY <2>1, <2>2, <2>3
<1>11. \A j \in Pass : j > issued =>
         minted[j] = 0 /\ ~tickets'[j].open /\ \A u \in Tab : tab'[u].ticket # j
  <2> SUFFICES ASSUME NEW j \in Pass, j > issued
               PROVE  minted[j] = 0 /\ ~tickets'[j].open /\ \A u \in Tab : tab'[u].ticket # j
    OBVIOUS
  <2>1. ~tickets[j].open /\ minted[j] = 0 /\ \A u \in Tab : tab[u].ticket # j
    BY DEF TicketInv
  <2>2. j # k BY <2>1, <1>5
  <2>3. QED BY <2>1, <2>2, <1>2, <1>4, <1>6
<1>12. \A j \in Pass : minted[j] <= 1 /\ (tickets'[j].open => minted[j] = 0)
  BY <1>6, <1>8 DEF TicketInv
<1>13. QED BY <1>4, <1>5, <1>6, <1>9, <1>10, <1>11, <1>12 DEF TicketInv

\* Minting spends the ticket, and the request gives it up.
LEMMA MintKeeps ==
  ASSUME TicketInv, NEW t \in Tab, Mint(t)
  PROVE  TicketInv'
<1> PICK k : k = tab[t].ticket OBVIOUS
<1>1. Kept BY LeaveKeeps DEF Mint
<1>2. tab'[t].ticket = 0
  BY SignInAssumption DEF Mint, Leave, TicketInv, Free, Request
<1>3. UNCHANGED <<issued, tickets, now>> /\ minted' = [minted EXCEPT ![k] = @ + 1]
  BY DEF Mint
<1>4. tab[t] \in RequestState BY DEF TicketInv
<1>5. k \in 0..MaxTickets BY <1>4 DEF RequestState
<1>6. CASE k = 0
  <2>1. minted' = minted BY <1>3, <1>6 DEF TicketInv, Pass
  <2>2. QED BY <1>1, <1>3, <2>1, TicketsAlone DEF TicketInv
<1>7. CASE k # 0
  <2>1. k \in Pass BY <1>5, <1>7, SignInAssumption DEF Pass
  <2>2. minted[k] = 0 /\ ~tickets[k].open BY <1>7 DEF TicketInv
  <2>3. /\ minted' \in [Pass -> Nat] /\ minted'[k] = 1
        /\ \A j \in Pass : j # k => minted'[j] = minted[j]
    BY <1>3, <2>1, <2>2 DEF TicketInv
  <2>4. \A u \in Tab : tab'[u].ticket # k
    BY <1>1, <1>2, <1>7 DEF TicketInv, Kept
  <2>5. \A u \in Tab : tab'[u].ticket # 0 => tab'[u].ticket = tab[u].ticket
    BY <1>1 DEF Kept
  <2>6. \A u \in Tab : tab'[u].ticket # 0 =>
          ~tickets[tab'[u].ticket].open /\ minted'[tab'[u].ticket] = 0
    <3> SUFFICES ASSUME NEW u \in Tab, tab'[u].ticket # 0
                 PROVE  ~tickets[tab'[u].ticket].open /\ minted'[tab'[u].ticket] = 0
      OBVIOUS
    <3>1. tab[u] \in RequestState BY DEF TicketInv
    <3>2. tab'[u].ticket \in Pass
      BY <3>1, <2>5, SignInAssumption DEF RequestState, Pass
    <3>3. QED BY <3>2, <2>3, <2>4, <2>5 DEF TicketInv
  <2>7. \A u, w \in Tab : tab'[u].ticket # 0 /\ tab'[u].ticket = tab'[w].ticket => u = w
    BY <2>5 DEF TicketInv
  <2>8. k <= issued BY <1>7, <2>1 DEF TicketInv, Pass
  <2>9. \A j \in Pass : j > issued =>
          minted'[j] = 0 /\ ~tickets[j].open /\ \A u \in Tab : tab'[u].ticket # j
    <3> SUFFICES ASSUME NEW j \in Pass, j > issued
                 PROVE  minted'[j] = 0 /\ ~tickets[j].open /\ \A u \in Tab : tab'[u].ticket # j
      OBVIOUS
    <3>1. j # 0 /\ j # k BY <2>8 DEF Pass, TicketInv
    <3>2. QED BY <3>1, <2>3, <2>5 DEF TicketInv
  <2>10. \A j \in Pass : minted'[j] <= 1 /\ (tickets[j].open => minted'[j] = 0)
    BY <2>2, <2>3 DEF TicketInv
  <2>11. QED BY <1>1, <1>3, <2>3, <2>6, <2>7, <2>9, <2>10 DEF TicketInv, Kept
<1>8. QED BY <1>6, <1>7

-----------------------------------------------------------------------------
\* The steps of SignIn.
LEMMA SignInKeeps ==
  ASSUME TicketInv, SignInStep
  PROVE  TicketInv'
<1> USE SignInAssumption
<1>1. ASSUME NEW t \in Tab, NEW way \in {"email", "passkey"}, NEW agreed \in BOOLEAN,
             Begin(t, way, agreed)
      PROVE  TicketInv'
  <2>1. Request("select", way, agreed, 0) \in RequestState
         /\ Request("select", way, agreed, 0).ticket = 0
    BY DEF Request, RequestState, Pc
  <2>2. Kept BY <1>1, <2>1 DEF Begin, Kept, TicketInv
  <2>3. UNCHANGED <<issued, tickets, minted, now>> BY <1>1 DEF Begin, ticketVars
  <2>4. QED BY <2>2, <2>3, TicketsAlone DEF TicketInv
<1>2. ASSUME NEW t \in Tab,
             UpsertSelect(t) \/ UpsertInsert(t) \/ Accept(t) \/ Subscribe(t)
               \/ AcceptFails(t) \/ AdmitKnown(t) \/ FirstSession(t) \/ Stops(t)
      PROVE  TicketInv'
  <2>1. (\E pc \in Pc : TabGoto(t, pc)) \/ Leave(t)
    BY <1>2 DEF UpsertSelect, UpsertInsert, Accept, Subscribe, AcceptFails, AdmitKnown,
                FirstSession, Stops, Pc
  <2>2. Kept BY <2>1, GotoKeeps, LeaveKeeps
  <2>3. UNCHANGED <<issued, tickets, minted, now>>
    BY <1>2 DEF UpsertSelect, UpsertInsert, Accept, Subscribe, AcceptFails, AdmitKnown,
                FirstSession, Stops, ticketVars
  <2>4. QED BY <2>2, <2>3, TicketsAlone DEF TicketInv
<1>3. ASSUME NEW t \in Tab, MailKnown(t) \/ MailLink(t) \/ SigninLink(t)
      PROVE  TicketInv'
  <2>1. TabGoto(t, "session") \/ Leave(t) \/ UNCHANGED tab
    BY <1>3 DEF MailKnown, MailLink, SigninLink
  <2>2. "session" \in Pc BY DEF Pc
  <2>3. Kept BY <2>1, <2>2, GotoKeeps, LeaveKeeps, SameKeeps
  <2>4. UNCHANGED now /\ Issue("link", LinkTtl) BY <1>3 DEF MailKnown, MailLink, SigninLink
  <2>5. QED BY <2>3, <2>4, IssueKeeps DEF Kind
<1>4. ASSUME NEW t \in Tab, RegisterOptions(t) PROVE TicketInv'
  <2>1. Kept BY <1>4, LeaveKeeps DEF RegisterOptions
  <2>2. QED BY <1>4, <2>1, IssueKeeps DEF RegisterOptions, Kind
<1>5. ASSUME NEW t \in Tab, NEW k \in Pass, Consume(t, k) PROVE TicketInv'
  BY <1>5, ConsumeKeeps
<1>6. CASE Signout
  BY <1>6, SameKeeps, TicketsAlone DEF Signout, TicketInv
<1>7. CASE Tick
  <2>1. UNCHANGED <<issued, tickets, minted, tab>> /\ now' \in Nat
    BY <1>7 DEF Tick, ticketVars, TicketInv
  <2>2. QED BY <2>1, SameKeeps, TicketsAlone
<1>8. QED BY <1>1, <1>2, <1>3, <1>4, <1>5, <1>6, <1>7 DEF SignInStep

-----------------------------------------------------------------------------
\* The steps of PrivateVaults.
LEMMA TabStepKeeps ==
  ASSUME AccessInv, NEW t \in Tab, TabStep(t)
  PROVE  AccessInv'
<1> USE SignInAssumption
<1>0. TicketInv /\ tab \in [Tab -> RequestState] /\ tab[t] \in RequestState
  BY DEF AccessInv, TicketInv
<1>1. CASE RegisterLookup(t) \/ RegisterLook(t) \/ DeleteCountVaults(t)
             \/ \E p \in Passkey : AuthenticateVerify(t, p)
  <2>1. (\E pc \in Pc : TabGoto(t, pc)) \/ Leave(t)
    BY <1>1 DEF RegisterLookup, RegisterLook, DeleteCountVaults, AuthenticateVerify, Pc
  <2>2. Kept BY <1>0, <2>1, GotoKeeps, LeaveKeeps
  <2>3. UNCHANGED <<issued, tickets, minted, now, passkeys, registered, codes>>
    BY <1>1 DEF RegisterLookup, RegisterLook, DeleteCountVaults, AuthenticateVerify,
                signInFrame, privateVars, passkeyVars, recoveryVars
  <2>4. QED BY <1>0, <2>2, <2>3, TicketsAlone DEF AccessInv, TicketInv
<1>2. CASE RegisterStore(t)
  <2>1. registered + 1 \in Nat BY DEF AccessInv
  <2> PICK r : r = [[tab[t] EXCEPT !.pc = "look"] EXCEPT !.passkey = registered + 1] OBVIOUS
  <2>2. r \in RequestState /\ r.ticket = tab[t].ticket
    BY <1>0, <2>1 DEF RequestState, Pc
  <2>3. tab' = [tab EXCEPT ![t] = r] BY <1>0, <1>2 DEF RegisterStore
  <2>4. Kept BY <1>0, <2>2, <2>3 DEF Kept
  <2>5. UNCHANGED <<issued, tickets, minted, now, codes>>
    BY <1>2 DEF RegisterStore, signInFrame, recoveryVars
  <2>6. passkeys' \subseteq Nat /\ registered' \in Nat
    BY <1>2, <2>1 DEF RegisterStore, AccessInv
  <2>7. QED BY <1>0, <2>4, <2>5, <2>6, TicketsAlone DEF AccessInv, TicketInv
<1>3. CASE RegisterCode(t)
  <2>1. codes + 1 \in Nat BY DEF AccessInv
  <2> PICK r : r = [[tab[t] EXCEPT !.pc = "mint"] EXCEPT !.code = codes + 1] OBVIOUS
  <2>2. r \in RequestState /\ r.ticket = tab[t].ticket
    BY <1>0, <2>1 DEF RequestState, Pc
  <2>3. tab' = [tab EXCEPT ![t] = r] BY <1>0, <1>3 DEF RegisterCode
  <2>4. Kept BY <1>0, <2>2, <2>3 DEF Kept
  <2>5. UNCHANGED <<issued, tickets, minted, now, passkeys, registered>> /\ codes' = codes + 1
    BY <1>3 DEF RegisterCode, signInFrame, passkeyVars
  <2>6. QED BY <1>0, <2>1, <2>4, <2>5, TicketsAlone DEF AccessInv, TicketInv
<1>4. CASE RegisterAnswer(t)
  <2>1. TicketInv' BY <1>0, <1>4, MintKeeps DEF RegisterAnswer
  <2>2. QED BY <1>4, <2>1 DEF RegisterAnswer, AccessInv, passkeyVars
<1>5. CASE AuthenticateOptions(t)
  <2>1. TicketInv'
    BY <1>0, <1>5, SameKeeps, IssueKeeps DEF AuthenticateOptions, Kind
  <2>2. QED BY <1>5, <2>1 DEF AuthenticateOptions, AccessInv, privateVars, passkeyVars,
                              recoveryVars
<1>6. CASE DeleteRow(t)
  <2>1. Kept BY <1>0, <1>6, LeaveKeeps DEF DeleteRow
  <2>2. UNCHANGED <<issued, tickets, minted, now, registered, codes>>
         /\ passkeys' \subseteq passkeys
    BY <1>6 DEF DeleteRow, signInFrame, recoveryVars
  <2>3. QED BY <1>0, <2>1, <2>2, TicketsAlone DEF AccessInv, TicketInv
<1>7. ASSUME NEW p \in Passkey, DeleteBegin(t, p) PROVE AccessInv'
  <2> PICK next : next = IF Cardinality(passkeys) <= 1 THEN "zk" ELSE "drop" OBVIOUS
  <2> PICK r : r = [[tab[t] EXCEPT !.pc = next] EXCEPT !.passkey = p] OBVIOUS
  <2>1. next \in Pc /\ p \in Nat BY <1>7 DEF DeleteBegin, AccessInv, Pc
  <2>2. r \in RequestState /\ r.ticket = tab[t].ticket
    BY <1>0, <2>1 DEF RequestState
  <2>3. tab' = [tab EXCEPT ![t] = r] BY <1>0, <1>7 DEF DeleteBegin
  <2>4. Kept BY <1>0, <2>2, <2>3 DEF Kept
  <2>5. UNCHANGED <<issued, tickets, minted, now, passkeys, registered, codes>>
    BY <1>7 DEF DeleteBegin, signInFrame, privateVars, passkeyVars, recoveryVars
  <2>6. QED BY <1>0, <2>4, <2>5, TicketsAlone DEF AccessInv, TicketInv
<1>8. QED BY <1>1, <1>2, <1>3, <1>4, <1>5, <1>6, <1>7 DEF TabStep

LEMMA BrowserKeeps ==
  ASSUME AccessInv, BrowserStep
  PROVE  AccessInv'
<1>1. UNCHANGED <<issued, tickets, minted, now, tab, passkeys, registered, codes>>
  BY DEF BrowserStep, StoreRecoveryKey, CreateVault, StoreEnvelope, StorePrkEnvelope,
         signInVars, ticketVars, passkeyVars, recoveryVars
<1>2. QED BY <1>1, SameKeeps, TicketsAlone DEF AccessInv, TicketInv

-----------------------------------------------------------------------------
\* The inductive invariant of sign-in holds for any number of tabs, links, challenges,
\* passkeys and Private Vaults.
THEOREM AccessInductive == AccessSpec => []AccessInv
<1> USE SignInAssumption
<1>1. AccessInit => AccessInv
  <2>1. Free \in RequestState /\ Free.ticket = 0
    BY DEF Free, Request, RequestState, Pc
  <2>2. NoPass \in [kind: Kind, expires: Nat, open: BOOLEAN] /\ ~NoPass.open
    BY DEF NoPass, Kind
  <2>3. QED BY <2>1, <2>2 DEF AccessInit, SignInStarts, NoVaultYet, AccessInv, TicketInv, Pass
<1>2. AccessInv /\ [AccessNext]_accessVars => AccessInv'
  <2> SUFFICES ASSUME AccessInv, [AccessNext]_accessVars PROVE AccessInv'
    OBVIOUS
  <2>1. CASE SignInStep /\ UNCHANGED privateVars
    BY <2>1, SignInKeeps DEF AccessInv, privateVars, passkeyVars, recoveryVars
  <2>2. CASE BrowserStep BY <2>2, BrowserKeeps
  <2>3. CASE \E t \in Tab : TabStep(t) BY <2>3, TabStepKeeps
  <2>4. CASE UNCHANGED accessVars
    <3>1. UNCHANGED <<issued, tickets, minted, now, tab, passkeys, registered, codes>>
      BY <2>4 DEF accessVars, signInVars, ticketVars, privateVars, passkeyVars, recoveryVars
    <3>2. QED BY <3>1, SameKeeps, TicketsAlone DEF AccessInv, TicketInv
  <2>5. QED BY <2>1, <2>2, <2>3, <2>4 DEF AccessNext
<1>3. QED BY <1>1, <1>2, PTL DEF AccessSpec

\* However many requests present it, in whatever order, and whichever of them stop, a
\* magic link or a passkey challenge earns at most one session.
THEOREM OneSession == AccessSpec => []OneSessionPerTicket
<1>1. AccessInv => OneSessionPerTicket BY DEF AccessInv, TicketInv, OneSessionPerTicket
<1>2. QED BY <1>1, AccessInductive, PTL

-----------------------------------------------------------------------------
(* Private Letters.  The author is told that a mode is in place only when  *)
(* its row is; nothing but the letter's deletion takes the row away; and   *)
(* releases, claims and answers are made out to the recipient who was      *)
(* mailed, so long as the letter keeps its recipient, and what was         *)
(* answered stays on the row.                                              *)

SealRecord == [pc: {"idle", "insert", "heir", "mail"}, to: Anyone, mode: Mode, sound: BOOLEAN]
ClaimRecord == [for: Anyone, drill: BOOLEAN,
                state: {"none", "issued", "opening", "fetched", "emptied", "spent"}]

LEMMA LettersStart == LettersInit => LettersInv
<1> SUFFICES ASSUME LettersInit PROVE LettersInv
  OBVIOUS
<1> USE PrivateLettersAssumption
<1>1. LettersTypeOK
  BY DEF LettersInit, LettersTypeOK, Mode, Anyone, NotSealing, Sealer, NoClaim, Claimed, NoAnswer,
     Answered, NotRedeeming, Redeemer
<1>2. \A z \in ZkLetter : SealKeeps(z) /\ PromiseKept(z) /\ MadeOut(z) /\ AnswerStands(z)
  BY DEF LettersInit, SealKeeps, PromiseKept, MadeOut, AnswerStands, Before, NotSealing, Sealer, NoClaim,
     Claimed, NoAnswer, Answered
<1>3. QED BY <1>1, <1>2 DEF LettersInv

LEMMA SealingTyped ==
  ASSUME LettersTypeOK, NEW z \in ZkLetter,
         \/ SealZkInsert(z) \/ SealWithoutHeir(z) \/ RefuseHeir(z) \/ StoreHeir(z)
         \/ MailHalf(z) \/ MailIsLost(z) \/ SealZkStops(z)
  PROVE  LettersTypeOK'
<1> USE PrivateLettersAssumption DEF LettersTypeOK, letterVars, sealVars, releaseVars, claimVars
<1>1. sealing[z] \in SealRecord /\ sealing[z].to \in Anyone /\ sealing[z].mode \in Mode
  BY DEF SealRecord
<1>2. NotSealing \in SealRecord
  BY DEF NotSealing, Sealer, SealRecord, Anyone, Mode
<1>3. \A pc \in {"heir", "mail"} : [sealing[z] EXCEPT !.pc = pc] \in SealRecord
  BY <1>1 DEF SealRecord
<1>4. sealing' \in [ZkLetter -> SealRecord]
  <2>1. sealing \in [ZkLetter -> SealRecord] BY DEF SealRecord
  <2>2. \/ sealing' = [sealing EXCEPT ![z] = NotSealing]
        \/ \E pc \in {"heir", "mail"} :
             sealing' = [sealing EXCEPT ![z] = [sealing[z] EXCEPT !.pc = pc]]
    BY <2>1 DEF SealZkInsert, SealWithoutHeir, RefuseHeir, StoreHeir, MailHalf, MailIsLost, SealZkStops,
       Sealed, SealGoto
  <2>3. CASE sealing' = [sealing EXCEPT ![z] = NotSealing] BY <2>1, <2>3, <1>2
  <2>4. ASSUME NEW pc \in {"heir", "mail"},
               sealing' = [sealing EXCEPT ![z] = [sealing[z] EXCEPT !.pc = pc]]
        PROVE  sealing' \in [ZkLetter -> SealRecord]
    <3>1. [sealing[z] EXCEPT !.pc = pc] \in SealRecord BY <1>3
    <3>2. QED BY <2>1, <2>4, <3>1
  <2>5. QED BY <2>2, <2>3, <2>4
<1>5. promised' \in [ZkLetter -> Mode] /\ heirEnvelope' \in [ZkLetter -> Mode]
  BY <1>1 DEF SealZkInsert, SealWithoutHeir, RefuseHeir, StoreHeir, MailHalf, MailIsLost, SealZkStops,
     Promise
<1>6. recipient' \in [ZkLetter -> Anyone]
       /\ zkLetter' \in [ZkLetter -> {"absent", "sealed", "erased", "deleted"}]
  BY <1>1 DEF SealZkInsert, SealWithoutHeir, RefuseHeir, StoreHeir, MailHalf, MailIsLost, SealZkStops
<1>7. mailed' \in [ZkLetter -> SUBSET Anyone]
  <2>1. CASE MailHalf(z)
    <3>1. mailed[z] \cup {sealing[z].to} \in SUBSET Anyone BY <1>1
    <3>2. QED BY <2>1, <3>1 DEF MailHalf
  <2>2. CASE ~MailHalf(z)
    BY <2>2 DEF SealZkInsert, SealWithoutHeir, RefuseHeir, StoreHeir, MailIsLost, SealZkStops
  <2>3. QED BY <2>1, <2>2
<1>8. lostMail' \subseteq ZkLetter /\ breaks' \in 0..MaxBreaks
  BY DEF SealZkInsert, SealWithoutHeir, RefuseHeir, StoreHeir, MailHalf, MailIsLost, SealZkStops
<1>9. UNCHANGED <<releaseVars, claimVars, redeem, readdressed>>
  BY DEF SealZkInsert, SealWithoutHeir, RefuseHeir, StoreHeir, MailHalf, MailIsLost, SealZkStops
<1>10. QED BY <1>4, <1>5, <1>6, <1>7, <1>8, <1>9 DEF SealRecord

LEMMA ClaimTyped ==
  ASSUME LettersTypeOK, NEW z \in ZkLetter,
         IssueZk(z) \/ ConsumeZk(z) \/ FetchZk(z) \/ AnswerZk(z)
  PROVE  LettersTypeOK'
<1> USE DEF LettersTypeOK, letterVars, sealVars, releaseVars, claimVars
<1>1. claim \in [ZkLetter -> ClaimRecord] /\ claim[z] \in ClaimRecord
  BY DEF ClaimRecord
<1>2. \A state \in {"opening", "fetched", "emptied", "spent"} : [claim[z] EXCEPT !.state = state] \in ClaimRecord
  BY <1>1 DEF ClaimRecord
<1>3. outbox[z] \in Anyone /\ Claimed(outbox[z], zkVault = "DRILL", "issued") \in ClaimRecord
  BY DEF ClaimRecord, Claimed
<1>4. claim' \in [ZkLetter -> ClaimRecord]
  <2>1. CASE IssueZk(z) BY <2>1, <1>1, <1>3 DEF IssueZk
  <2>2. CASE ~IssueZk(z)
    <3>1. PICK state \in {"opening", "fetched", "emptied", "spent"} :
            claim' = [claim EXCEPT ![z] = [claim[z] EXCEPT !.state = state]]
      BY <2>2, <1>1 DEF ConsumeZk, FetchZk, AnswerZk
    <3>2. [claim[z] EXCEPT !.state = state] \in ClaimRecord BY <1>2
    <3>3. QED BY <1>1, <3>1, <3>2
  <2>3. QED BY <2>1, <2>2
<1>5. outbox' \in [ZkLetter -> Anyone]
  BY DEF IssueZk, ConsumeZk, FetchZk, AnswerZk, Anyone
<1>6. answer' \in [ZkLetter -> [for: Anyone, drill: BOOLEAN, got: Mode, early: BOOLEAN,
                                 erased: BOOLEAN]]
  <2>1. CASE AnswerZk(z)
    <3>1. Answered(claim[z].for, claim[z].drill, heirEnvelope[z], sealing[z].pc = "heir",
                   claim[z].state = "emptied")
            \in [for: Anyone, drill: BOOLEAN, got: Mode, early: BOOLEAN, erased: BOOLEAN]
      BY <1>1 DEF ClaimRecord, Answered
    <3>2. QED BY <2>1, <3>1 DEF AnswerZk
  <2>2. CASE ~AnswerZk(z) BY <2>2 DEF IssueZk, ConsumeZk, FetchZk
  <2>3. QED BY <2>1, <2>2
<1>7. UNCHANGED <<letterVars, sealVars, zkVault, openings, redeem, breaks>>
  BY DEF IssueZk, ConsumeZk, FetchZk, AnswerZk
<1>8. QED BY <1>4, <1>5, <1>6, <1>7 DEF ClaimRecord

LEMMA RedeemTyped ==
  ASSUME LettersTypeOK, RedeemList \/ RedeemAnswer \/ \E z \in ZkLetter : RedeemFetch(z)
  PROVE  LettersTypeOK'
<1> DEFINE R == [pc: {"idle", "fetch"}, listed: SUBSET ZkLetter, todo: SUBSET ZkLetter,
                 has: SUBSET ZkLetter]
<1>1. redeem \in R BY DEF LettersTypeOK
<1>2. NotRedeeming \in R BY DEF NotRedeeming, Redeemer
<1>3. redeem' \in R
  <2>1. CASE RedeemList BY <2>1 DEF RedeemList, Redeemer
  <2>2. CASE RedeemAnswer BY <2>2, <1>2 DEF RedeemAnswer
  <2>3. ASSUME NEW z \in ZkLetter, RedeemFetch(z) PROVE redeem' \in R
    <3>1. CASE ~RowThere(z) BY <2>3, <3>1, <1>2 DEF RedeemFetch
    <3>2. CASE RowThere(z)
      <4>1. redeem' = [redeem EXCEPT !.todo = redeem.todo \ {z},
                                     !.has = IF Readable(z) THEN redeem.has \cup {z} ELSE redeem.has]
        BY <2>3, <3>2 DEF RedeemFetch
      <4>2. redeem.todo \ {z} \in SUBSET ZkLetter /\ redeem.has \cup {z} \in SUBSET ZkLetter
        BY <1>1
      <4>3. QED BY <1>1, <4>1, <4>2
    <3>3. QED BY <3>1, <3>2
  <2>4. QED BY <2>1, <2>2, <2>3
<1>4. UNCHANGED <<letterVars, sealVars, releaseVars, claimVars, breaks>>
  BY DEF RedeemList, RedeemAnswer, RedeemFetch
<1>5. QED BY <1>3, <1>4 DEF LettersTypeOK, letterVars, sealVars, releaseVars, claimVars

\* Sealing: the row before the promise, the mail before the promise of a split key.
LEMMA SealingKeeps ==
  ASSUME LettersInv, NEW z \in ZkLetter, NEW y \in ZkLetter,
         \/ SealZkInsert(z) \/ SealWithoutHeir(z) \/ RefuseHeir(z) \/ StoreHeir(z)
         \/ MailHalf(z) \/ MailIsLost(z) \/ SealZkStops(z)
         \/ \E p \in Person, mode \in Mode, sound \in BOOLEAN : SealZkBegin(z, p, mode, sound)
  PROVE  SealKeeps(y)' /\ PromiseKept(y)' /\ MadeOut(y)' /\ AnswerStands(y)'
<1>1. LettersTypeOK /\ SealKeeps(y) /\ PromiseKept(y) /\ MadeOut(y) /\ AnswerStands(y)
  BY DEF LettersInv
<1> USE <1>1 DEF LettersTypeOK, SealKeeps, PromiseKept, MadeOut, AnswerStands, Before, letterVars, releaseVars,
        claimVars, RowThere, SealGoto, Sealed, Promise, NotSealing, Sealer
<1>2. CASE SealZkInsert(z) BY <1>2 DEF SealZkInsert
<1>3. CASE SealWithoutHeir(z) BY <1>3 DEF SealWithoutHeir
<1>4. CASE RefuseHeir(z) BY <1>4 DEF RefuseHeir
<1>5. CASE StoreHeir(z) BY <1>5 DEF StoreHeir
<1>6. CASE MailHalf(z) BY <1>6 DEF MailHalf
<1>7. CASE MailIsLost(z) BY <1>7 DEF MailIsLost
<1>8. CASE SealZkStops(z) BY <1>8 DEF SealZkStops
<1>9. ASSUME NEW p \in Person, NEW mode \in Mode, NEW sound \in BOOLEAN, SealZkBegin(z, p, mode, sound)
      PROVE  SealKeeps(y)' /\ PromiseKept(y)' /\ MadeOut(y)' /\ AnswerStands(y)'
  BY <1>9 DEF SealZkBegin
<1> HIDE <1>1 DEF LettersTypeOK, SealKeeps, PromiseKept, MadeOut, AnswerStands, Sealer
<1>10. QED BY <1>2, <1>3, <1>4, <1>5, <1>6, <1>7, <1>8, <1>9

\* An answer is for whom the claim was, gives what is on the row, and owns to be early.
LEMMA AnswerReads ==
  ASSUME LettersTypeOK, NEW z \in ZkLetter, AnswerZk(z)
  PROVE  /\ answer'[z].for = claim[z].for /\ answer'[z].got = heirEnvelope[z]
         /\ ~answer'[z].early => sealing[z].pc # "heir"
<1>1. answer'[z] = Answered(claim[z].for, claim[z].drill, heirEnvelope[z], sealing[z].pc = "heir",
                            claim[z].state = "emptied")
  BY DEF AnswerZk, LettersTypeOK
<1>2. answer'[z].for = claim[z].for /\ answer'[z].got = heirEnvelope[z]
  BY <1>1 DEF Answered
<1>3. answer'[z].early = (sealing[z].pc = "heir")
  BY <1>1 DEF Answered
<1>4. ~answer'[z].early => sealing[z].pc # "heir"
  BY <1>3, Zenon
<1>5. QED BY <1>2, <1>4

\* What happens to the row, to a release and to a claim.
LEMMA RowKeeps ==
  ASSUME LettersInv, NEW z \in ZkLetter, NEW y \in ZkLetter,
         \/ DeleteZk(z) \/ EraseZk(z) \/ IssueZk(z) \/ IssueZkFails(z) \/ ConsumeZk(z)
         \/ FetchZk(z) \/ AnswerZk(z)
         \/ \E p \in Person : Readdress(z, p)
  PROVE  SealKeeps(y)' /\ PromiseKept(y)' /\ MadeOut(y)' /\ AnswerStands(y)'
<1>1. LettersTypeOK /\ SealKeeps(y) /\ PromiseKept(y) /\ MadeOut(y) /\ AnswerStands(y)
  BY DEF LettersInv
<1> USE <1>1 DEF LettersTypeOK, SealKeeps, PromiseKept, MadeOut, AnswerStands, Before, letterVars, sealVars,
        releaseVars, claimVars, RowThere, Readable, Claimed, NoClaim
<1>2. CASE DeleteZk(z) BY <1>2 DEF DeleteZk
<1>3. CASE EraseZk(z) BY <1>3 DEF EraseZk
<1>4. CASE IssueZk(z) BY <1>4 DEF IssueZk
<1>5. CASE IssueZkFails(z) BY <1>5 DEF IssueZkFails
<1>6. CASE ConsumeZk(z) BY <1>6 DEF ConsumeZk
<1>7. CASE FetchZk(z) BY <1>7 DEF FetchZk
<1>8. CASE AnswerZk(z)
  <2>1. /\ answer'[z].for = claim[z].for /\ answer'[z].got = heirEnvelope[z]
        /\ ~answer'[z].early => sealing[z].pc # "heir"
    BY <1>1, <1>8, AnswerReads
  <2>2. /\ UNCHANGED <<letterVars, sealVars, releaseVars>>
        /\ claim'[z].state # "none" /\ claim'[z].for = claim[z].for /\ claim[z].state # "none"
        /\ y # z => claim'[y] = claim[y] /\ answer'[y] = answer[y]
    BY <1>8 DEF AnswerZk
  <2>3. CASE y = z
    <3>1. SealKeeps(y)' /\ PromiseKept(y)' BY <2>2
    <3>2. MadeOut(y)' BY <2>1, <2>2, <2>3
    <3>3. ~Before(z) /\ sealing[z].pc # "insert" BY <2>2, <2>3
    <3>4. AnswerStands(y)' BY <2>1, <2>2, <2>3, <3>3
    <3>5. QED BY <3>1, <3>2, <3>4
  <2>4. CASE y # z BY <2>2, <2>4
  <2>5. QED BY <2>3, <2>4
<1>9. ASSUME NEW p \in Person, Readdress(z, p)
      PROVE  SealKeeps(y)' /\ PromiseKept(y)' /\ MadeOut(y)' /\ AnswerStands(y)'
  BY <1>9 DEF Readdress
<1>10. QED BY <1>2, <1>3, <1>4, <1>5, <1>6, <1>7, <1>8, <1>9

LEMMA ReleaseKeeps ==
  ASSUME LettersInv, OpenZkVault("DRILL") \/ OpenZkVault("RELEASED") \/ DrillEnds
  PROVE  LettersTypeOK' /\ \A y \in ZkLetter : SealKeeps(y)' /\ PromiseKept(y)' /\ MadeOut(y)' /\ AnswerStands(y)'
<1>1. LettersTypeOK BY DEF LettersInv
<1>2. LettersTypeOK'
  BY <1>1, PrivateLettersAssumption DEF LettersTypeOK, OpenZkVault, DrillEnds, Anyone, letterVars, sealVars,
     claimVars
<1>3. ASSUME NEW y \in ZkLetter PROVE SealKeeps(y)' /\ PromiseKept(y)' /\ MadeOut(y)' /\ AnswerStands(y)'
  BY <1>1 DEF LettersInv, SealKeeps, PromiseKept, MadeOut, AnswerStands, Before, OpenZkVault, DrillEnds, RowThere,
     letterVars, sealVars, claimVars
<1>4. QED BY <1>2, <1>3

LEMMA LettersTyped ==
  ASSUME LettersTypeOK, LettersNext
  PROVE  LettersTypeOK' \/ OpenZkVault("DRILL") \/ OpenZkVault("RELEASED") \/ DrillEnds
<1> USE PrivateLettersAssumption DEF LettersTypeOK, letterVars, sealVars, releaseVars, claimVars
<1>1. ASSUME NEW z \in ZkLetter, NEW p \in Person, Readdress(z, p)
      PROVE  LettersTypeOK'
  <2>1. p \in Anyone BY DEF Anyone
  <2>2. QED BY <1>1, <2>1 DEF Readdress
<1>2. ASSUME NEW z \in ZkLetter, NEW p \in Person, NEW mode \in Mode, NEW sound \in BOOLEAN,
             SealZkBegin(z, p, mode, sound)
      PROVE  LettersTypeOK'
  <2>1. Sealer("insert", p, mode, sound) \in SealRecord BY DEF Sealer, SealRecord, Anyone
  <2>2. sealing' \in [ZkLetter -> SealRecord]
    <3>1. sealing \in [ZkLetter -> SealRecord] BY DEF SealRecord
    <3>2. QED BY <1>2, <2>1, <3>1 DEF SealZkBegin
  <2>3. UNCHANGED <<letterVars, mailed, promised, lostMail, releaseVars, claimVars, redeem, breaks>>
    BY <1>2 DEF SealZkBegin
  <2>4. QED BY <2>2, <2>3 DEF SealRecord
<1>3. ASSUME NEW z \in ZkLetter, DeleteZk(z) PROVE LettersTypeOK'
  BY <1>3 DEF DeleteZk, NoClaim, Claimed, Anyone, Mode
<1>4. ASSUME NEW z \in ZkLetter, EraseZk(z) PROVE LettersTypeOK'
  BY <1>4 DEF EraseZk
<1>5. ASSUME NEW z \in ZkLetter, IssueZkFails(z) PROVE LettersTypeOK'
  BY <1>5 DEF IssueZkFails, Anyone
<1>6. QED BY <1>1, <1>2, <1>3, <1>4, <1>5, SealingTyped, ClaimTyped, RedeemTyped DEF LettersNext

\* The inductive invariant of Private Letters (seal_zk_letter, claim_release).
THEOREM LettersInductive == LettersSpec => []LettersInv
<1>1. LettersInv /\ [LettersNext]_lettersVars => LettersInv'
  <2> SUFFICES ASSUME LettersInv, [LettersNext]_lettersVars PROVE LettersInv'
    OBVIOUS
  <2>1. CASE LettersNext
    <3>1. LettersTypeOK' BY <2>1, LettersTyped, ReleaseKeeps DEF LettersInv
    <3>2. ASSUME NEW y \in ZkLetter PROVE SealKeeps(y)' /\ PromiseKept(y)' /\ MadeOut(y)' /\ AnswerStands(y)'
      <4>1. CASE RedeemList \/ RedeemAnswer \/ \E z \in ZkLetter : RedeemFetch(z)
        <5>1. SealKeeps(y) /\ PromiseKept(y) /\ MadeOut(y) /\ AnswerStands(y) BY DEF LettersInv
        <5>2. UNCHANGED <<letterVars, sealVars, releaseVars, claimVars>>
          BY <4>1 DEF RedeemList, RedeemAnswer, RedeemFetch
        <5>3. QED BY <5>1, <5>2 DEF SealKeeps, PromiseKept, MadeOut, AnswerStands, Before, letterVars, sealVars,
           releaseVars, claimVars
      <4>2. QED BY <2>1, <4>1, SealingKeeps, RowKeeps, ReleaseKeeps DEF LettersNext
    <3>3. QED BY <3>1, <3>2 DEF LettersInv
  <2>2. CASE UNCHANGED lettersVars
    BY <2>2 DEF LettersInv, LettersTypeOK, SealKeeps, PromiseKept, MadeOut, AnswerStands, Before, lettersVars,
       letterVars, sealVars, releaseVars, claimVars
  <2>3. QED BY <2>1, <2>2
<1>2. QED BY <1>1, LettersStart, PTL DEF LettersSpec

\* Whoever claimed a Private Letter got what its author was told, before or since, is in
\* place, for any number of letters, releases, drills and mishaps: by AnswerStands the row
\* still has what was answered, by PromiseKept it has what was promised, and by MadeOut the
\* claim was made out to the recipient, who was mailed the half (claim_release).
THEOREM HeirsOpen == LettersSpec => []HeirOpens
<1>1. LettersInv => HeirOpens
  <2> SUFFICES ASSUME LettersInv, NEW z \in ZkLetter, promised[z] # NoMode, answer[z].for # NoPerson,
                      ~answer[z].early, zkLetter[z] # "deleted"
               PROVE  /\ answer[z].got = promised[z]
                      /\ answer[z].got = "split" /\ z \notin lostMail \cup readdressed
                           => answer[z].for \in mailed[z]
    BY DEF HeirOpens
  <2>1. answer[z].got = heirEnvelope[z] BY DEF LettersInv, AnswerStands
  <2>2. heirEnvelope[z] = promised[z] BY DEF LettersInv, PromiseKept
  <2>3. ASSUME promised[z] = "split", z \notin lostMail \cup readdressed
        PROVE  answer[z].for \in mailed[z]
    BY <2>3 DEF LettersInv, PromiseKept, MadeOut
  <2>4. QED BY <2>1, <2>2, <2>3
<1>2. QED BY <1>1, LettersInductive, PTL

-----------------------------------------------------------------------------
(* Recovery.                                                               *)

\* No letter that was there becomes readable again: only what is absent is sealed.
LEMMA NoLetterComesBack ==
  ASSUME LettersInv, [LettersNext]_lettersVars
  PROVE  \A z \in ZkLetter : ~Before(z) => ~Before(z)' /\ (Readable(z)' => Readable(z))
<1> USE DEF Before, Readable, letterVars
<1>1. zkLetter \in [ZkLetter -> {"absent", "sealed", "erased", "deleted"}]
  BY DEF LettersInv, LettersTypeOK
<1>2. ASSUME NEW z \in ZkLetter, SealZkInsert(z)
      PROVE  \A y \in ZkLetter : ~Before(y) => zkLetter'[y] = zkLetter[y]
  BY <1>1, <1>2 DEF SealZkInsert, LettersInv, SealKeeps
<1>3. ASSUME NEW z \in ZkLetter, DeleteZk(z) \/ EraseZk(z)
      PROVE  \A y \in ZkLetter : zkLetter'[y] = zkLetter[y] \/ zkLetter'[y] \in {"erased", "deleted"}
  BY <1>1, <1>3 DEF DeleteZk, EraseZk
<1>4. \/ zkLetter' = zkLetter
      \/ \E z \in ZkLetter : SealZkInsert(z) \/ DeleteZk(z) \/ EraseZk(z)
  BY DEF LettersNext, lettersVars, SealZkBegin, SealWithoutHeir, RefuseHeir, StoreHeir, MailHalf,
     MailIsLost, SealZkStops, Readdress, IssueZk, IssueZkFails, ConsumeZk, FetchZk, AnswerZk,
     RedeemFetch, OpenZkVault, DrillEnds, RedeemList, RedeemAnswer
<1>5. QED BY <1>1, <1>2, <1>3, <1>4

\* A listing holds what is there, a fetched letter is kept if it can be read, and what can
\* be read was never passed over.
LEMMA RedeemKeeps ==
  ASSUME LettersInv, RedeemInv, [LettersNext]_lettersVars
  PROVE  RedeemInv'
<1> USE DEF letterVars
<1>1. redeem \in [pc: {"idle", "fetch"}, listed: SUBSET ZkLetter, todo: SUBSET ZkLetter,
                  has: SUBSET ZkLetter]
  BY DEF LettersInv, LettersTypeOK
<1>2. \A z \in ZkLetter : ~Before(z) => ~Before(z)' /\ (Readable(z)' => Readable(z))
  BY NoLetterComesBack
<1>3. CASE redeem' = redeem BY <1>1, <1>2, <1>3 DEF RedeemInv
<1>4. CASE redeem'.pc = "idle" BY <1>4 DEF RedeemInv
<1>5. CASE RedeemList
  <2>1. /\ redeem'.listed = {z \in ZkLetter : RowThere(z)} /\ redeem'.todo = redeem'.listed
        /\ zkLetter' = zkLetter
    BY <1>5 DEF RedeemList, Redeemer
  <2>2. QED BY <2>1 DEF RedeemInv, Before, RowThere
<1>6. ASSUME NEW y \in ZkLetter, RedeemFetch(y), RowThere(y) PROVE RedeemInv'
  <2>1. /\ redeem'.pc = redeem.pc /\ redeem'.listed = redeem.listed
        /\ redeem'.todo = redeem.todo \ {y}
        /\ redeem'.has = IF Readable(y) THEN redeem.has \cup {y} ELSE redeem.has
        /\ zkLetter' = zkLetter
    BY <1>1, <1>6 DEF RedeemFetch
  <2>2. QED BY <1>1, <2>1 DEF RedeemInv, Before, Readable
<1>7. \/ redeem' = redeem \/ redeem'.pc = "idle" \/ RedeemList
      \/ \E y \in ZkLetter : RedeemFetch(y) /\ RowThere(y)
  <2>1. ASSUME NEW y \in ZkLetter, RedeemFetch(y), ~RowThere(y) PROVE redeem'.pc = "idle"
    BY <2>1 DEF RedeemFetch, NotRedeeming, Redeemer
  <2>2. CASE RedeemAnswer BY <2>2 DEF RedeemAnswer, NotRedeeming, Redeemer
  <2>3. \/ redeem' = redeem \/ RedeemAnswer \/ RedeemList \/ \E y \in ZkLetter : RedeemFetch(y)
    BY DEF LettersNext, lettersVars, SealZkBegin, SealZkInsert, SealWithoutHeir, RefuseHeir, StoreHeir,
       MailHalf, MailIsLost, SealZkStops, Readdress, DeleteZk, EraseZk, IssueZk, IssueZkFails, ConsumeZk,
       FetchZk, AnswerZk, OpenZkVault, DrillEnds
  <2>4. QED BY <2>1, <2>2, <2>3
<1>8. QED BY <1>3, <1>4, <1>5, <1>6, <1>7

\* A recovery that answers has every letter it listed that can still be read, whatever was
\* erased or deleted while it fetched them one by one (recovery_redeem).
THEOREM RecoveryIsWhole == LettersSpec => []RedeemWhole
<1>1. LettersInit => RedeemInv BY DEF LettersInit, RedeemInv, NotRedeeming, Redeemer
<1>2. LettersInv /\ RedeemInv /\ [LettersNext]_lettersVars => RedeemInv' BY RedeemKeeps
<1>3. RedeemInv => RedeemWhole BY DEF RedeemInv, RedeemWhole
<1>4. QED BY <1>1, <1>2, <1>3, LettersInductive, PTL DEF LettersSpec

-----------------------------------------------------------------------------
(* Making the account, and what passkeys and codes are for.  An account is *)
(* made by one request, the one whose INSERT succeeded; and as long as     *)
(* requests about passkeys did not overlap there was one recovery code.    *)

\* What a request's next state is, spelled out.
LEMMA GotoIs ==
  ASSUME TicketInv, NEW t \in Tab, NEW pc, TabGoto(t, pc)
  PROVE  /\ tab'[t].pc = pc /\ tab'[t].code = tab[t].code /\ tab'[t].passkey = tab[t].passkey
         /\ tab'[t].ticket = tab[t].ticket
         /\ \A u \in Tab \ {t} : tab'[u] = tab[u]
<1>1. tab \in [Tab -> RequestState] BY DEF TicketInv
<1>2. tab' = [tab EXCEPT ![t] = [tab[t] EXCEPT !.pc = pc]] BY <1>1 DEF TabGoto
<1>3. tab'[t] = [tab[t] EXCEPT !.pc = pc] /\ \A u \in Tab \ {t} : tab'[u] = tab[u]
  BY <1>1, <1>2
<1>4. tab[t] \in RequestState BY <1>1
<1>5. QED BY <1>3, <1>4 DEF RequestState

LEMMA LeaveIs ==
  ASSUME TicketInv, NEW t \in Tab, Leave(t)
  PROVE  /\ tab'[t].pc = "idle" /\ tab'[t].code = 0 /\ tab'[t].passkey = 0
         /\ \A u \in Tab \ {t} : tab'[u] = tab[u]
<1>1. tab \in [Tab -> RequestState] BY DEF TicketInv
<1>2. tab'[t] = Free /\ \A u \in Tab \ {t} : tab'[u] = tab[u] BY <1>1 DEF Leave
<1>3. QED BY <1>2 DEF Free, Request

LEMMA BeginIs ==
  ASSUME TicketInv, NEW t \in Tab, NEW way, NEW agreed, Begin(t, way, agreed)
  PROVE  /\ tab'[t].pc = "select" /\ tab'[t].code = 0 /\ tab[t].pc = "idle"
         /\ \A u \in Tab \ {t} : tab'[u] = tab[u]
<1> PICK r : r = Request("select", way, agreed, 0) OBVIOUS
<1>1. tab \in [Tab -> RequestState] BY DEF TicketInv
<1>2. tab' = [tab EXCEPT ![t] = r] /\ tab[t].pc = "idle" BY DEF Begin
<1>3. r.pc = "select" /\ r.code = 0 BY DEF Request
<1>4. QED BY <1>1, <1>2, <1>3

LEMMA ConsumeIs ==
  ASSUME TicketInv, NEW t \in Tab, NEW k \in Pass, Consume(t, k)
  PROVE  /\ tab'[t].pc \in {"mint", "lookup", "auth"} /\ tab'[t].code = 0
         /\ tab'[t].ticket = k
         /\ tab[t].pc = "idle"
         /\ \A u \in Tab \ {t} : tab'[u] = tab[u]
<1> PICK r : r = Request(CASE tickets[k].kind = "link" -> "mint"
                           [] tickets[k].kind = "REGISTRATION" -> "lookup"
                           [] tickets[k].kind = "AUTHENTICATION" -> "auth",
                         "email", FALSE, k)
  OBVIOUS
<1>1. tickets[k].kind \in Kind /\ tab \in [Tab -> RequestState] BY DEF TicketInv
<1>2. r.pc \in {"mint", "lookup", "auth"} /\ r.code = 0 /\ r.ticket = k BY <1>1 DEF Request, Kind
<1>3. tab' = [tab EXCEPT ![t] = r] /\ tab[t].pc = "idle" BY DEF Consume, Present
<1>4. QED BY <1>1, <1>2, <1>3

\* Who makes the account: nothing but the account's own steps changes that.
LEMMA MakingAside ==
  ASSUME MakingInv, UNCHANGED accountState,
         \A u \in Tab : \/ tab'[u].pc = tab[u].pc
                        \/ {tab[u].pc, tab'[u].pc} \cap {"accept", "subscribe"} = {}
  PROVE  MakingInv'
<1>1. \A u \in Tab : /\ tab'[u].pc = "accept" <=> tab[u].pc = "accept"
                     /\ tab'[u].pc = "subscribe" <=> tab[u].pc = "subscribe"
  OBVIOUS
<1>2. BeingMade' = BeingMade BY <1>1 DEF BeingMade
<1>3. UNCHANGED <<account, marred>> BY DEF accountState
<1>4. QED BY <1>1, <1>2, <1>3 DEF MakingInv

LEMMA SignInMakes ==
  ASSUME TicketInv, MakingInv, SignInStep
  PROVE  MakingInv'
<1>1. ASSUME NEW t \in Tab, NEW way \in {"email", "passkey"}, NEW agreed \in BOOLEAN,
             Begin(t, way, agreed)
      PROVE  MakingInv'
  <2>1. UNCHANGED accountState BY <1>1 DEF Begin
  <2>2. QED BY <1>1, <2>1, BeginIs, MakingAside
<1>2. ASSUME NEW t \in Tab, UpsertSelect(t) PROVE MakingInv'
  <2>1. UNCHANGED accountState /\ tab[t].pc = "select"
         /\ (TabGoto(t, "known") \/ TabGoto(t, "insert"))
    BY <1>2 DEF UpsertSelect
  <2>2. QED BY <2>1, GotoIs, MakingAside
<1>3. ASSUME NEW t \in Tab, UpsertInsert(t) PROVE MakingInv'
  <2>1. CASE account.exists
    <3>1. Leave(t) /\ tab[t].pc = "insert" /\ UNCHANGED marred
           /\ account' = [account EXCEPT !.exists = TRUE]
      BY <1>3, <2>1 DEF UpsertInsert
    <3>2. account' = account BY <3>1, <2>1 DEF MakingInv
    <3>3. QED BY <3>1, <3>2, LeaveIs, MakingAside DEF accountState
  <2>2. CASE ~account.exists
    <3>1. TabGoto(t, "accept") /\ tab[t].pc = "insert" /\ UNCHANGED marred
           /\ account' = [account EXCEPT !.exists = TRUE]
      BY <1>3, <2>2 DEF UpsertInsert
    <3>2. BeingMade = {} BY <2>2 DEF MakingInv
    <3>3. tab'[t].pc = "accept" /\ \A u \in Tab \ {t} : tab'[u] = tab[u]
      BY <3>1, GotoIs
    <3>4. BeingMade' = {t} BY <3>2, <3>3 DEF BeingMade
    <3>5. account' \in [exists: BOOLEAN, tos: BOOLEAN, subscribed: BOOLEAN]
           /\ account'.exists
      BY <3>1 DEF MakingInv
    <3>6. QED BY <3>1, <3>3, <3>4, <3>5 DEF MakingInv
  <2>3. QED BY <2>1, <2>2
<1>4. ASSUME NEW t \in Tab, Accept(t) \/ AcceptFails(t) PROVE MakingInv'
  <2>1. tab[t].pc = "accept" /\ t \in BeingMade BY <1>4 DEF Accept, AcceptFails, BeingMade
  <2>2. account.exists /\ BeingMade = {t} BY <2>1 DEF MakingInv
  <2>3. CASE TabGoto(t, "subscribe") /\ account' = [account EXCEPT !.tos = TRUE]
             /\ UNCHANGED marred
    <3>1. tab'[t].pc = "subscribe" /\ \A u \in Tab \ {t} : tab'[u] = tab[u]
      BY <2>3, GotoIs
    <3>2. BeingMade' = {t} BY <3>1, <2>2 DEF BeingMade
    <3>3. account' \in [exists: BOOLEAN, tos: BOOLEAN, subscribed: BOOLEAN]
           /\ account'.exists /\ account'.tos
      BY <2>2, <2>3 DEF MakingInv
    <3>4. QED BY <2>3, <3>2, <3>3 DEF MakingInv
  <2>4. CASE (Leave(t) \/ TabGoto(t, "subscribe")) /\ marred' = TRUE /\ UNCHANGED account
    <3>1. \A u \in Tab \ {t} : tab'[u] = tab[u] BY <2>4, GotoIs, LeaveIs
    <3>2. BeingMade' \subseteq {t} BY <3>1, <2>2 DEF BeingMade
    <3>3. QED BY <2>2, <2>4, <3>2 DEF MakingInv
  <2>5. QED BY <1>4, <2>3, <2>4 DEF Accept, AcceptFails
<1>5. ASSUME NEW t \in Tab, Subscribe(t) PROVE MakingInv'
  <2>1. tab[t].pc = "subscribe" /\ t \in BeingMade BY <1>5 DEF Subscribe, BeingMade
  <2>2. account.exists /\ BeingMade = {t} BY <2>1 DEF MakingInv
  <2>3. (TabGoto(t, "link") \/ TabGoto(t, "options")) /\ UNCHANGED marred
         /\ account' = [account EXCEPT !.subscribed = TRUE]
    BY <1>5 DEF Subscribe
  <2>4. tab'[t].pc \in {"link", "options"} /\ \A u \in Tab \ {t} : tab'[u] = tab[u]
    BY <2>3, GotoIs
  <2>5. BeingMade' = {} BY <2>2, <2>4 DEF BeingMade
  <2>6. ~\E u \in Tab : tab[u].pc = "accept" BY <2>1, <2>2 DEF BeingMade
  <2>7. ~marred => account.tos BY <2>2, <2>6 DEF MakingInv
  <2>8. account' \in [exists: BOOLEAN, tos: BOOLEAN, subscribed: BOOLEAN]
         /\ account'.exists /\ account'.subscribed /\ account'.tos = account.tos
    BY <2>2, <2>3 DEF MakingInv
  <2>9. QED BY <2>3, <2>5, <2>7, <2>8 DEF MakingInv
<1>6. ASSUME NEW t \in Tab, MailKnown(t) \/ AdmitKnown(t) \/ MailLink(t) \/ FirstSession(t)
                              \/ RegisterOptions(t)
      PROVE  MakingInv'
  <2>1. UNCHANGED accountState /\ tab[t].pc \in {"known", "link", "session", "options"}
         /\ (Leave(t) \/ TabGoto(t, "options") \/ TabGoto(t, "session"))
    BY <1>6 DEF MailKnown, AdmitKnown, MailLink, FirstSession, RegisterOptions
  <2>2. QED BY <2>1, GotoIs, LeaveIs, MakingAside
<1>7. ASSUME NEW t \in Tab, Stops(t) PROVE MakingInv'
  <2>1. Leave(t) /\ UNCHANGED account
         /\ marred' = (marred \/ tab[t].pc \in {"accept", "subscribe"})
    BY <1>7 DEF Stops
  <2>2. tab'[t].pc = "idle" /\ \A u \in Tab \ {t} : tab'[u] = tab[u] BY <2>1, LeaveIs
  <2>3. CASE tab[t].pc \in {"accept", "subscribe"}
    <3>1. BeingMade' \subseteq BeingMade BY <2>2 DEF BeingMade
    <3>2. QED BY <2>1, <2>3, <3>1 DEF MakingInv
  <2>4. CASE tab[t].pc \notin {"accept", "subscribe"}
    <3>1. UNCHANGED accountState BY <2>1, <2>4 DEF MakingInv, accountState
    <3>2. QED BY <2>2, <2>4, <3>1, MakingAside
  <2>5. QED BY <2>3, <2>4
<1>8. ASSUME NEW t \in Tab, NEW k \in Pass, Consume(t, k) PROVE MakingInv'
  <2>1. UNCHANGED accountState BY <1>8 DEF Consume
  <2>2. QED BY <1>8, <2>1, ConsumeIs, MakingAside
<1>9. CASE Signout \/ Tick \/ \E t \in Tab : SigninLink(t)
  <2>1. UNCHANGED <<accountState, tab>> BY <1>9 DEF Signout, Tick, SigninLink
  <2>2. QED BY <2>1, MakingAside
<1>10. QED BY <1>1, <1>2, <1>3, <1>4, <1>5, <1>6, <1>7, <1>8, <1>9 DEF SignInStep


PasskeyGoto(t, pc, n) == tab' = [tab EXCEPT ![t].pc = pc, ![t].passkey = n]
CodeGoto(t, pc, n) == tab' = [tab EXCEPT ![t].pc = pc, ![t].code = n]

LEMMA PasskeyIs ==
  ASSUME TicketInv, NEW t \in Tab, NEW pc, NEW n, PasskeyGoto(t, pc, n)
  PROVE  /\ tab'[t].pc = pc /\ tab'[t].code = tab[t].code /\ tab'[t].passkey = n
         /\ tab'[t].ticket = tab[t].ticket
         /\ \A u \in Tab \ {t} : tab'[u] = tab[u]
<1> PICK r : r = [[tab[t] EXCEPT !.pc = pc] EXCEPT !.passkey = n] OBVIOUS
<1>1. tab \in [Tab -> RequestState] BY DEF TicketInv
<1>2. tab[t] \in RequestState BY <1>1
<1>3. r.pc = pc /\ r.code = tab[t].code /\ r.passkey = n /\ r.ticket = tab[t].ticket
  BY <1>2 DEF RequestState
<1>4. tab' = [tab EXCEPT ![t] = r] BY <1>1 DEF PasskeyGoto
<1>5. QED BY <1>1, <1>3, <1>4

LEMMA CodeIs ==
  ASSUME TicketInv, NEW t \in Tab, NEW pc, NEW n, CodeGoto(t, pc, n)
  PROVE  /\ tab'[t].pc = pc /\ tab'[t].code = n /\ tab'[t].ticket = tab[t].ticket
         /\ \A u \in Tab \ {t} : tab'[u] = tab[u]
<1> PICK r : r = [[tab[t] EXCEPT !.pc = pc] EXCEPT !.code = n] OBVIOUS
<1>1. tab \in [Tab -> RequestState] BY DEF TicketInv
<1>2. tab[t] \in RequestState BY <1>1
<1>3. r.pc = pc /\ r.code = n /\ r.ticket = tab[t].ticket BY <1>2 DEF RequestState
<1>4. tab' = [tab EXCEPT ![t] = r] BY <1>1 DEF CodeGoto
<1>5. QED BY <1>1, <1>3, <1>4

\* No request about passkeys has to do with the making of the account.
LEMMA TabStepMakes ==
  ASSUME TicketInv, MakingInv, NEW t \in Tab, TabStep(t)
  PROVE  MakingInv'
<1>1. UNCHANGED accountState
  BY DEF TabStep, RegisterLookup, RegisterStore, RegisterLook, RegisterCode, RegisterAnswer,
         Mint, AuthenticateOptions, DeleteCountVaults, DeleteRow, AuthenticateVerify,
         DeleteBegin, signInFrame
<1>2. CASE RegisterLookup(t) \/ RegisterLook(t) \/ DeleteCountVaults(t) \/ DeleteRow(t)
             \/ RegisterAnswer(t) \/ \E p \in Passkey : AuthenticateVerify(t, p)
  <2>1. tab[t].pc \in {"lookup", "look", "zk", "drop", "mint", "auth"}
         /\ (Leave(t) \/ \E pc \in {"store", "code", "mint", "drop"} : TabGoto(t, pc))
    BY <1>2 DEF RegisterLookup, RegisterLook, DeleteCountVaults, DeleteRow, RegisterAnswer,
                Mint, AuthenticateVerify
  <2>2. QED BY <1>1, <2>1, GotoIs, LeaveIs, MakingAside
<1>3. CASE RegisterStore(t) \/ \E p \in Passkey : DeleteBegin(t, p)
  <2>1. PICK pc \in {"look", "zk", "drop"}, n \in Nat \cup Passkey \cup {registered + 1} :
          PasskeyGoto(t, pc, n)
    BY <1>3 DEF RegisterStore, DeleteBegin, PasskeyGoto
  <2>2. tab[t].pc \in {"store", "idle"} BY <1>3 DEF RegisterStore, DeleteBegin
  <2>3. QED BY <1>1, <2>1, <2>2, PasskeyIs, MakingAside
<1>4. CASE RegisterCode(t)
  <2>1. tab[t].pc = "code" /\ CodeGoto(t, "mint", codes + 1)
    BY <1>4 DEF RegisterCode, CodeGoto
  <2>2. QED BY <1>1, <2>1, CodeIs, MakingAside
<1>5. CASE AuthenticateOptions(t)
  BY <1>1, <1>5, MakingAside DEF AuthenticateOptions
<1>6. QED BY <1>2, <1>3, <1>4, <1>5 DEF TabStep

-----------------------------------------------------------------------------
(* Recovery codes.                                                         *)

\* A request about anything else holds no code, and comes to hold none.
LEMMA CodeAside ==
  ASSUME CodeInv, codes \in Nat, UNCHANGED recoveryVars, crossed => crossed',
         faults' \in Nat, faults' = 0 => faults = 0,
         \A u \in Tab : \/ tab'[u] = tab[u]
                        \/ /\ tab'[u].code = 0 /\ (tab'[u].pc = "code" => codes = 0)
                           /\ tab[u].code = 0 \/ faults' # 0
  PROVE  CodeInv'
<1>1. UNCHANGED <<codes, verifier, shown, wraps>> BY DEF recoveryVars
<1>2. \A u \in Tab : tab'[u].code \in 0..codes /\ (tab'[u].code # 0 => tab'[u].pc = "mint")
  BY DEF CodeInv
<1>3. ASSUME faults' = 0, codes # 0, codes \notin shown
      PROVE  \E u \in Tab : tab'[u].code = codes
  <2>1. PICK u \in Tab : tab[u].code = codes BY <1>3 DEF CodeInv
  <2>2. tab'[u] = tab[u] BY <1>3, <2>1
  <2>3. QED BY <2>1, <2>2
<1>4. ~crossed => codes <= 1 /\ \A u \in Tab : tab'[u].pc = "code" => codes = 0
  BY DEF CodeInv
<1>5. QED BY <1>1, <1>2, <1>3, <1>4 DEF CodeInv

\* What the steps of SignIn do to the requests, as far as codes and passkeys go.
LEMMA SignInMoves ==
  ASSUME TicketInv, CodeInv, SignInStep
  PROVE  /\ faults' \in Nat /\ (faults' = 0 => faults = 0)
         /\ \A u \in Tab : \/ tab'[u] = tab[u]
                           \/ /\ tab'[u].code = 0 /\ tab'[u].pc \notin {"code", "drop"}
                              /\ tab[u].code = 0 \/ faults' # 0
<1>0. faults \in Nat /\ \A u \in Tab : tab[u].pc # "mint" => tab[u].code = 0 BY DEF CodeInv
<1>1. ASSUME NEW t \in Tab, NEW way \in {"email", "passkey"}, NEW agreed \in BOOLEAN,
             Begin(t, way, agreed)
      PROVE  UNCHANGED faults /\ \A u \in Tab : tab'[u] = tab[u]
               \/ (tab'[u].code = 0 /\ tab[u].code = 0 /\ tab'[u].pc \notin {"code", "drop"})
  <2>1. UNCHANGED faults BY <1>1 DEF Begin
  <2>2. tab'[t].code = 0 /\ tab'[t].pc = "select" /\ tab[t].pc = "idle"
         /\ \A u \in Tab \ {t} : tab'[u] = tab[u]
    BY <1>1, BeginIs
  <2>3. QED BY <1>0, <2>1, <2>2
<1>2. ASSUME NEW t \in Tab, NEW k \in Pass, Consume(t, k)
      PROVE  UNCHANGED faults /\ \A u \in Tab : tab'[u] = tab[u]
               \/ (tab'[u].code = 0 /\ tab[u].code = 0 /\ tab'[u].pc \notin {"code", "drop"})
  <2>1. UNCHANGED faults BY <1>2 DEF Consume
  <2>2. tab'[t].code = 0 /\ tab'[t].pc \in {"mint", "lookup", "auth"} /\ tab[t].pc = "idle"
         /\ \A u \in Tab \ {t} : tab'[u] = tab[u]
    BY <1>2, ConsumeIs
  <2>3. QED BY <1>0, <2>1, <2>2
<1>3. ASSUME NEW t \in Tab,
             UpsertSelect(t) \/ UpsertInsert(t) \/ Accept(t) \/ Subscribe(t)
               \/ AcceptFails(t) \/ AdmitKnown(t) \/ FirstSession(t) \/ MailKnown(t)
               \/ MailLink(t) \/ RegisterOptions(t)
      PROVE  /\ faults' = faults \/ faults' = faults + 1
             /\ \A u \in Tab : tab'[u] = tab[u]
                  \/ (tab'[u].code = 0 /\ tab[u].code = 0 /\ tab'[u].pc \notin {"code", "drop"})
  <2>1. faults' = faults \/ faults' = faults + 1
    BY <1>3 DEF UpsertSelect, UpsertInsert, Accept, Subscribe, AcceptFails, AdmitKnown,
                FirstSession, MailKnown, MailLink, RegisterOptions
  <2>2. tab[t].pc # "mint"
    BY <1>3 DEF UpsertSelect, UpsertInsert, Accept, Subscribe, AcceptFails, AdmitKnown,
                FirstSession, MailKnown, MailLink, RegisterOptions
  <2>3. Leave(t) \/ \E pc \in {"known", "insert", "accept", "subscribe", "link", "options",
                               "session"} : TabGoto(t, pc)
    BY <1>3 DEF UpsertSelect, UpsertInsert, Accept, Subscribe, AcceptFails, AdmitKnown,
                FirstSession, MailKnown, MailLink, RegisterOptions
  <2>4. tab'[t].code = 0 /\ tab'[t].pc \notin {"code", "drop"}
         /\ \A u \in Tab \ {t} : tab'[u] = tab[u]
    BY <1>0, <2>2, <2>3, GotoIs, LeaveIs
  <2>5. QED BY <1>0, <2>1, <2>2, <2>4
<1>4. ASSUME NEW t \in Tab, Stops(t)
      PROVE  /\ faults' = faults + 1
             /\ \A u \in Tab : tab'[u] = tab[u]
                  \/ (tab'[u].code = 0 /\ tab'[u].pc \notin {"code", "drop"})
  <2>1. Leave(t) /\ faults' = faults + 1 BY <1>4 DEF Stops
  <2>2. QED BY <2>1, LeaveIs
<1>5. CASE Signout \/ Tick \/ \E t \in Tab : SigninLink(t)
  <2>1. UNCHANGED <<tab, faults>> BY <1>5 DEF Signout, Tick, SigninLink
  <2>2. QED BY <1>0, <2>1
<1>6. QED BY <1>0, <1>1, <1>2, <1>3, <1>4, <1>5 DEF SignInStep


\* The code of a first passkey is made, sent, and wraps the Recovery Key.
LEMMA TabStepCodes ==
  ASSUME AccessInv, CodeInv, DropInv, NEW t \in Tab, TabStep(t), crossed' = Crossing
  PROVE  CodeInv'
<1>0. /\ TicketInv /\ codes \in Nat /\ faults \in Nat
      /\ \A u \in Tab : tab[u].pc # "mint" => tab[u].code = 0
      /\ crossed => crossed'
  BY DEF AccessInv, CodeInv, Crossing
<1>1. UNCHANGED faults
  BY DEF TabStep, RegisterLookup, RegisterStore, RegisterLook, RegisterCode, RegisterAnswer,
         Mint, AuthenticateOptions, DeleteCountVaults, DeleteRow, AuthenticateVerify,
         DeleteBegin, signInFrame
<1>2. CASE RegisterLookup(t) \/ RegisterLook(t) \/ DeleteCountVaults(t) \/ DeleteRow(t)
             \/ \E p \in Passkey : AuthenticateVerify(t, p)
  <2>1. tab[t].pc # "mint" /\ UNCHANGED recoveryVars
    BY <1>2 DEF RegisterLookup, RegisterLook, DeleteCountVaults, DeleteRow,
                AuthenticateVerify, privateVars
  <2>2. Leave(t) \/ (\E pc \in {"store", "mint", "drop"} : TabGoto(t, pc))
          \/ (TabGoto(t, "code") /\ codes = 0)
    BY <1>2 DEF RegisterLookup, RegisterLook, DeleteCountVaults, DeleteRow,
                AuthenticateVerify, CodeInv
  <2>3. tab'[t].code = 0 /\ (tab'[t].pc = "code" => codes = 0)
         /\ \A u \in Tab \ {t} : tab'[u] = tab[u]
    BY <1>0, <2>1, <2>2, GotoIs, LeaveIs
  <2>4. QED BY <1>0, <1>1, <2>1, <2>3, CodeAside
<1>3. CASE RegisterStore(t) \/ \E p \in Passkey : DeleteBegin(t, p)
  <2>1. PICK pc \in {"look", "zk", "drop"}, n \in Nat \cup Passkey \cup {registered + 1} :
          PasskeyGoto(t, pc, n)
    BY <1>3 DEF RegisterStore, DeleteBegin, PasskeyGoto
  <2>2. tab[t].pc # "mint" /\ UNCHANGED recoveryVars
    BY <1>3 DEF RegisterStore, DeleteBegin, privateVars
  <2>3. tab'[t].code = 0 /\ tab'[t].pc # "code" /\ \A u \in Tab \ {t} : tab'[u] = tab[u]
    BY <1>0, <2>1, <2>2, PasskeyIs
  <2>4. QED BY <1>0, <1>1, <2>2, <2>3, CodeAside
<1>4. CASE AuthenticateOptions(t)
  <2>1. UNCHANGED <<tab, recoveryVars>> BY <1>4 DEF AuthenticateOptions, privateVars
  <2>2. QED BY <1>0, <1>1, <2>1, CodeAside
<1>5. CASE RegisterCode(t)
  <2>1. /\ tab[t].pc = "code" /\ CodeGoto(t, "mint", codes + 1)
        /\ codes' = codes + 1 /\ verifier' = codes + 1 /\ UNCHANGED <<shown, wraps>>
    BY <1>5 DEF RegisterCode, CodeGoto
  <2>2. tab'[t].pc = "mint" /\ tab'[t].code = codes + 1
         /\ \A u \in Tab \ {t} : tab'[u] = tab[u]
    BY <1>0, <2>1, CodeIs
  <2>3. shown' \subseteq 1..codes' BY <1>0, <2>1 DEF CodeInv
  <2>4. \A u \in Tab : tab'[u].code \in 0..codes' /\ (tab'[u].code # 0 => tab'[u].pc = "mint")
    BY <1>0, <2>1, <2>2 DEF CodeInv
  <2>5. ASSUME ~crossed'
        PROVE  codes' <= 1 /\ \A u \in Tab : tab'[u].pc # "code"
    <3>1. ~crossed /\ codes = 0 BY <1>0, <2>1, <2>5 DEF CodeInv
    <3>2. ~Crowded /\ t \in AtPasskeys BY <2>1, <3>1 DEF DropInv, AtPasskeys
    <3>3. \A u \in Tab \ {t} : tab[u].pc # "code" BY <3>2 DEF Crowded, AtPasskeys
    <3>4. \A u \in Tab : tab'[u].pc # "code" BY <2>2, <3>3
    <3>5. codes' <= 1 BY <2>1, <3>1
    <3>6. QED BY <3>4, <3>5
  <2>6. QED BY <1>0, <1>1, <2>1, <2>2, <2>3, <2>4, <2>5 DEF CodeInv
<1>6. CASE RegisterAnswer(t)
  <2>1. /\ Leave(t) /\ UNCHANGED <<codes, verifier, wraps>>
        /\ shown' = shown \cup ({tab[t].code} \ {0})
    BY <1>6 DEF RegisterAnswer, Mint
  <2>2. tab'[t].pc = "idle" /\ tab'[t].code = 0 /\ \A u \in Tab \ {t} : tab'[u] = tab[u]
    BY <1>0, <2>1, LeaveIs
  <2> PICK c : c = tab[t].code OBVIOUS
  <2>3. shown' \subseteq 1..codes
    <3>1. c \in 0..codes /\ shown \subseteq 1..codes BY DEF CodeInv
    <3>2. c = 0 \/ c \in 1..codes BY <1>0, <3>1
    <3>3. shown' = shown \cup ({c} \ {0}) BY <2>1
    <3>4. QED BY <3>1, <3>2, <3>3
  <2>4. \A u \in Tab : tab'[u].code \in 0..codes /\ (tab'[u].code # 0 => tab'[u].pc = "mint")
    BY <1>0, <2>2 DEF CodeInv
  <2>5. ASSUME faults = 0, codes # 0, codes \notin shown'
        PROVE  \E u \in Tab : tab'[u].code = codes
    <3>1. PICK u \in Tab : tab[u].code = codes BY <2>1, <2>5 DEF CodeInv
    <3>2. u # t BY <2>1, <2>5, <3>1
    <3>3. QED BY <2>2, <3>1, <3>2
  <2>6. ~crossed' => codes <= 1 /\ \A u \in Tab : tab'[u].pc = "code" => codes = 0
    BY <1>0, <2>2 DEF CodeInv
  <2>7. QED BY <1>1, <2>1, <2>3, <2>4, <2>5, <2>6 DEF CodeInv
<1>7. QED BY <1>2, <1>3, <1>4, <1>5, <1>6 DEF TabStep

\* A Recovery Key is wrapped under a code that was shown.
LEMMA BrowserCodes ==
  ASSUME AccessInv, CodeInv, BrowserStep, crossed' = Crossing
  PROVE  CodeInv'
<1>0. codes \in Nat /\ faults \in Nat /\ (crossed => crossed')
  BY DEF AccessInv, CodeInv, Crossing
<1>1. UNCHANGED <<tab, faults, codes, verifier, shown>>
  BY DEF BrowserStep, StoreRecoveryKey, CreateVault, StoreEnvelope, StorePrkEnvelope,
         signInVars, recoveryVars
<1>2. wraps' = wraps \/ \E c \in shown : \E p \in passkeys : wraps' = [code |-> c, passkey |-> p]
  BY DEF BrowserStep, StoreRecoveryKey, CreateVault, StoreEnvelope, StorePrkEnvelope,
         recoveryVars
<1>3. wraps' \in [code: Nat, passkey: Nat] /\ (wraps' = NoWraps \/ wraps'.code \in shown)
  <2>1. CASE wraps' = wraps BY <2>1 DEF CodeInv
  <2>2. ASSUME NEW c \in shown, NEW p \in passkeys, wraps' = [code |-> c, passkey |-> p]
        PROVE  wraps' \in [code: Nat, passkey: Nat] /\ wraps'.code \in shown
    <3>1. c \in Nat /\ p \in Nat BY <1>0 DEF CodeInv, AccessInv
    <3>2. QED BY <2>2, <3>1
  <2>3. QED BY <1>2, <2>1, <2>2
<1>4. ~crossed' => codes <= 1 /\ \A u \in Tab : tab[u].pc = "code" => codes = 0
  BY <1>0 DEF CodeInv
<1>5. QED BY <1>1, <1>3, <1>4 DEF CodeInv

-----------------------------------------------------------------------------
(* Deleting passkeys.                                                      *)

\* Who is about to delete a passkey was so before, or another one is left.
LEMMA DropAside ==
  ASSUME DropInv, crossed' = Crossing, UNCHANGED passkeys, vaults' = vaults \/ UNCHANGED tab,
         \A u \in Tab : tab'[u].pc = "drop" =>
           \/ tab'[u] = tab[u]
           \/ vaults = {} /\ UNCHANGED vaults
           \/ \E q \in passkeys : q # tab'[u].passkey
  PROVE  DropInv'
<1> SUFFICES ASSUME ~crossed' PROVE DropInv'
  BY DEF DropInv
<1>1. ~crossed /\ ~Crowded' /\ (vaults' = vaults \/ AtPasskeys = {}) BY DEF Crossing
<1>2. ASSUME NEW u \in Tab, tab'[u].pc = "drop"
      PROVE  vaults' = {} \/ \E q \in passkeys : q # tab'[u].passkey
  <2>1. CASE tab'[u] = tab[u]
    <3>1. u \in AtPasskeys BY <1>2, <2>1 DEF AtPasskeys
    <3>2. UNCHANGED vaults BY <1>1, <3>1
    <3>3. vaults = {} \/ \E q \in passkeys : q # tab[u].passkey
      BY <1>1, <1>2, <2>1 DEF DropInv
    <3>4. QED BY <2>1, <3>2, <3>3
  <2>2. QED BY <1>2, <2>1
<1>3. QED BY <1>1, <1>2 DEF DropInv

\* A request that changes the passkeys is the only one there is.
LEMMA AloneDrops ==
  ASSUME DropInv, crossed' = Crossing, NEW t \in AtPasskeys, tab'[t].pc # "drop",
         \A u \in Tab \ {t} : tab'[u] = tab[u]
  PROVE  DropInv'
<1> SUFFICES ASSUME ~crossed' PROVE DropInv'
  BY DEF DropInv
<1>1. ~crossed /\ ~Crowded' BY DEF Crossing
<1>2. ~Crowded BY <1>1 DEF DropInv
<1>3. \A u \in Tab \ {t} : tab[u].pc # "drop" BY <1>2 DEF Crowded, AtPasskeys
<1>4. \A u \in Tab : tab'[u].pc # "drop" BY <1>3
<1>5. QED BY <1>1, <1>4 DEF DropInv

\* A passkey is about to be deleted when another one is there, or no Private Vault is.
LEMMA TabStepDrops ==
  ASSUME AccessInv, DropInv, NEW t \in Tab, TabStep(t), crossed' = Crossing
  PROVE  DropInv'
<1>0. TicketInv BY DEF AccessInv
<1>1. CASE RegisterLookup(t) \/ RegisterLook(t) \/ \E p \in Passkey : AuthenticateVerify(t, p)
  <2>1. UNCHANGED <<passkeys, vaults>>
    BY <1>1 DEF RegisterLookup, RegisterLook, AuthenticateVerify, privateVars, passkeyVars,
                vaultVars
  <2>2. Leave(t) \/ \E pc \in {"store", "code", "mint"} : TabGoto(t, pc)
    BY <1>1 DEF RegisterLookup, RegisterLook, AuthenticateVerify
  <2>3. tab'[t].pc # "drop" /\ \A u \in Tab \ {t} : tab'[u] = tab[u]
    BY <1>0, <2>2, GotoIs, LeaveIs
  <2>4. QED BY <2>1, <2>3, DropAside
<1>2. CASE RegisterStore(t)
  <2>1. tab[t].pc = "store"
         /\ PasskeyGoto(t, "look", registered + 1)
    BY <1>2 DEF RegisterStore, PasskeyGoto
  <2>2. tab'[t].pc # "drop" /\ \A u \in Tab \ {t} : tab'[u] = tab[u]
    BY <1>0, <2>1, PasskeyIs
  <2>3. QED BY <2>1, <2>2, AloneDrops DEF AtPasskeys
<1>3. CASE RegisterCode(t)
  <2>1. UNCHANGED <<passkeys, vaults>>
         /\ CodeGoto(t, "mint", codes + 1)
    BY <1>3 DEF RegisterCode, CodeGoto, passkeyVars, vaultVars
  <2>2. tab'[t].pc # "drop" /\ \A u \in Tab \ {t} : tab'[u] = tab[u]
    BY <1>0, <2>1, CodeIs
  <2>3. QED BY <2>1, <2>2, DropAside
<1>4. CASE RegisterAnswer(t)
  <2>1. UNCHANGED <<passkeys, vaults>> /\ Leave(t)
    BY <1>4 DEF RegisterAnswer, Mint, passkeyVars, vaultVars
  <2>2. tab'[t].pc # "drop" /\ \A u \in Tab \ {t} : tab'[u] = tab[u] BY <1>0, <2>1, LeaveIs
  <2>3. QED BY <2>1, <2>2, DropAside
<1>5. CASE AuthenticateOptions(t)
  <2>1. UNCHANGED <<tab, passkeys, vaults>>
    BY <1>5 DEF AuthenticateOptions, privateVars, passkeyVars, vaultVars
  <2>2. QED BY <2>1, DropAside
<1>6. CASE DeleteCountVaults(t)
  <2>1. UNCHANGED <<passkeys, vaults>>
    BY <1>6 DEF DeleteCountVaults, privateVars, passkeyVars, vaultVars
  <2>2. (vaults = {} /\ TabGoto(t, "drop")) \/ Leave(t) BY <1>6 DEF DeleteCountVaults
  <2>3. (vaults = {} \/ tab'[t].pc # "drop") /\ \A u \in Tab \ {t} : tab'[u] = tab[u]
    BY <1>0, <2>2, GotoIs, LeaveIs
  <2>4. QED BY <2>1, <2>3, DropAside
<1>7. CASE DeleteRow(t)
  <2>1. tab[t].pc = "drop" /\ Leave(t) BY <1>7 DEF DeleteRow
  <2>2. tab'[t].pc # "drop" /\ \A u \in Tab \ {t} : tab'[u] = tab[u] BY <1>0, <2>1, LeaveIs
  <2>3. QED BY <2>1, <2>2, AloneDrops DEF AtPasskeys
<1>8. ASSUME NEW p \in Passkey, DeleteBegin(t, p) PROVE DropInv'
  <2> PICK pc : pc = IF Cardinality(passkeys) <= 1 THEN "zk" ELSE "drop" OBVIOUS
  <2>1. PasskeyGoto(t, pc, p) /\ p \in passkeys /\ UNCHANGED <<passkeys, vaults>>
    BY <1>8 DEF DeleteBegin, PasskeyGoto, privateVars, passkeyVars, vaultVars
  <2>2. tab'[t].pc = pc /\ tab'[t].passkey = p /\ \A u \in Tab \ {t} : tab'[u] = tab[u]
    BY <1>0, <2>1, PasskeyIs
  <2>3. ASSUME \A q \in passkeys : q = p PROVE pc = "zk"
    <3>1. passkeys = {p} BY <2>1, <2>3
    <3>2. Cardinality(passkeys) = 1 BY <3>1, FS_Singleton
    <3>3. QED BY <3>2
  <2>4. pc = "drop" => \E q \in passkeys : q # p BY <2>3
  <2>5. QED BY <2>1, <2>2, <2>4, DropAside
<1>9. QED BY <1>1, <1>2, <1>3, <1>4, <1>5, <1>6, <1>7, <1>8 DEF TabStep

-----------------------------------------------------------------------------
\* What the requests and browsers keep of the account, the code and the passkeys.
LEMMA PrivateKept ==
  ASSUME AccessInv, MakingInv, CodeInv, DropInv, [AccessNext]_accessVars
  PROVE  MakingInv' /\ CodeInv' /\ DropInv'
<1>0. TicketInv /\ codes \in Nat BY DEF AccessInv
<1>1. CASE SignInStep /\ UNCHANGED privateVars /\ crossed' = Crossing
  <2>1. UNCHANGED <<recoveryVars, passkeys, vaults>> /\ (crossed => crossed')
    BY <1>1 DEF privateVars, passkeyVars, vaultVars, Crossing
  <2>2. MakingInv' BY <1>0, <1>1, SignInMakes
  <2>3. CodeInv' BY <1>0, <1>1, <2>1, SignInMoves, CodeAside
  <2>4. DropInv' BY <1>0, <1>1, <2>1, SignInMoves, DropAside
  <2>5. QED BY <2>2, <2>3, <2>4
<1>2. CASE BrowserStep /\ crossed' = Crossing
  <2>1. UNCHANGED <<tab, accountState, passkeys>>
    BY <1>2 DEF BrowserStep, StoreRecoveryKey, CreateVault, StoreEnvelope,
                StorePrkEnvelope, signInVars, passkeyVars
  <2>2. MakingInv' BY <2>1, MakingAside
  <2>3. CodeInv' BY <1>2, BrowserCodes
  <2>4. DropInv' BY <1>2, <2>1, DropAside
  <2>5. QED BY <2>2, <2>3, <2>4
<1>3. ASSUME NEW t \in Tab, TabStep(t), crossed' = Crossing
      PROVE  MakingInv' /\ CodeInv' /\ DropInv'
  BY <1>0, <1>3, TabStepMakes, TabStepCodes, TabStepDrops
<1>4. CASE UNCHANGED accessVars
  <2>1. UNCHANGED <<account, marred, tab, faults, codes, verifier, shown, wraps, passkeys,
                    vaults, crossed>>
    BY <1>4 DEF accessVars, signInVars, accountState, privateVars, recoveryVars,
                passkeyVars, vaultVars
  <2>2. MakingInv' BY <2>1 DEF MakingInv, BeingMade
  <2>3. CodeInv' BY <2>1 DEF CodeInv
  <2>4. DropInv' BY <2>1 DEF DropInv, Crowded, AtPasskeys
  <2>5. QED BY <2>2, <2>3, <2>4
<1>5. QED BY <1>1, <1>2, <1>3, <1>4 DEF AccessNext

\* The inductive invariant of accounts, recovery codes and passkeys holds for any number
\* of tabs, links, challenges, passkeys and Private Vaults.
THEOREM PrivateInductive == AccessSpec => []PrivateInv
<1>1. AccessInit => MakingInv /\ CodeInv /\ DropInv
  <2> SUFFICES ASSUME AccessInit PROVE MakingInv /\ CodeInv /\ DropInv
    OBVIOUS
  <2>1. \A t \in Tab : tab[t].pc = "idle" /\ tab[t].code = 0
    BY DEF AccessInit, SignInStarts, Free, Request
  <2>2. MakingInv BY <2>1 DEF AccessInit, SignInStarts, NoAccount, MakingInv, BeingMade
  <2>3. CodeInv BY <2>1 DEF AccessInit, SignInStarts, NoVaultYet, NoWraps, CodeInv
  <2>4. DropInv BY <2>1 DEF DropInv, Crowded, AtPasskeys
  <2>5. QED BY <2>2, <2>3, <2>4
<1>2. AccessInv /\ MakingInv /\ CodeInv /\ DropInv /\ [AccessNext]_accessVars
        => MakingInv' /\ CodeInv' /\ DropInv'
  BY PrivateKept
<1>3. QED BY <1>1, <1>2, AccessInductive, PTL DEF AccessSpec, PrivateInv

\* An account whose making ran to its end has accepted the Terms and has a subscription,
\* whichever tabs were signing up with the same address at the time.
THEOREM AccountIsWhole == AccessSpec => []AccountWhole
<1>1. MakingInv => AccountWhole BY DEF MakingInv, BeingMade, AccountWhole
<1>2. QED BY <1>1, PrivateInductive, PTL DEF PrivateInv

\* The latest code is the only one, so it is the one the Recovery Key is wrapped under.
LEMMA CodeIsTheOne ==
  ASSUME AccessInv, CodeInv
  PROVE  CodeOpensWraps
<1> SUFFICES ASSUME ~crossed, verifier # 0
             PROVE  /\ wraps # NoWraps => wraps.code = verifier
                    /\ faults = 0 => verifier \in shown \/ \E t \in Tab : tab[t].code = verifier
  BY DEF CodeOpensWraps
<1>1. codes = 1 /\ verifier = 1 /\ shown \subseteq {1} BY DEF AccessInv, CodeInv
<1>2. wraps # NoWraps => wraps.code = verifier BY <1>1 DEF CodeInv
<1>3. QED BY <1>1, <1>2 DEF CodeInv

\* The recovery code the server accepts is the one that opens the Recovery Key, and a
\* browser was sent it or is about to be, as long as requests about passkeys take turns.
THEOREM CodesOpen == AccessSpec => []CodeOpensWraps
<1>1. AccessInv /\ CodeInv => CodeOpensWraps BY CodeIsTheOne
<1>2. QED BY <1>1, PrivateInductive, PTL DEF PrivateInv

\* Only a request that has counted deletes a passkey, and what it counted is still so.
LEMMA LastOneKept ==
  ASSUME AccessInv, DropInv, AccessNext, ~crossed', passkeys # {}, passkeys' = {}
  PROVE  vaults = {}
<1>1. ~crossed BY DEF AccessNext, Crossing
<1>2. PICK t \in Tab : DeleteRow(t)
  <2>1. ~(SignInStep /\ UNCHANGED privateVars) BY DEF privateVars, passkeyVars
  <2>2. ~BrowserStep
    BY DEF BrowserStep, StoreRecoveryKey, CreateVault, StoreEnvelope, StorePrkEnvelope,
           passkeyVars
  <2>3. ASSUME NEW t \in Tab, TabStep(t) PROVE DeleteRow(t)
    BY <2>3 DEF TabStep, RegisterLookup, RegisterStore, RegisterLook, RegisterCode,
                RegisterAnswer, AuthenticateOptions, DeleteCountVaults,
                AuthenticateVerify, DeleteBegin, privateVars, passkeyVars
  <2>4. QED BY <2>1, <2>2, <2>3 DEF AccessNext
<1>3. tab[t].pc = "drop" /\ passkeys' = passkeys \ {tab[t].passkey} BY <1>2 DEF DeleteRow
<1>4. QED BY <1>1, <1>3 DEF DropInv

\* Deleting the last passkey finds no Private Vault left that only it could open, as long
\* as requests about passkeys take turns.
THEOREM LastOneStays == AccessSpec => LastPasskeyStays
<1>1. PrivateInv /\ [AccessNext]_accessVars =>
        [~crossed' /\ passkeys # {} /\ passkeys' = {} => vaults = {}]_accessVars
  BY LastOneKept DEF PrivateInv
<1>2. QED BY <1>1, PrivateInductive, PTL DEF AccessSpec, LastPasskeyStays

-----------------------------------------------------------------------------
(* Types, and with them the number of sessions.                            *)

\* A step of a request or of a browser, whichever of them a history admits.
AccessMoves ==
  \/ SignInStep /\ UNCHANGED privateVars
  \/ BrowserStep
  \/ \E t \in Tab : TabStep(t)

\* The tickets that earned a session can be counted.
LEMMA EarnedIsCounted ==
  /\ IsFiniteSet(Earned) /\ Cardinality(Earned) \in 0..MaxTickets
<1>1. IsFiniteSet(Pass) /\ Cardinality(Pass) = MaxTickets
  BY FS_Interval, SignInAssumption DEF Pass
<1>2. Earned \in SUBSET Pass BY DEF Earned
<1>3. IsFiniteSet(Earned) /\ Cardinality(Earned) <= Cardinality(Pass) BY <1>1, <1>2, FS_Subset
<1>4. QED BY <1>1, <1>3, FS_CardinalityType, SignInAssumption

Admitted == \A u \in Tab :
  tab[u].pc \in {"mint", "lookup", "store", "look", "code", "auth"} => tab[u].ticket # 0

\* Where no session is made and nobody begins to make the account.
LEMMA SessionsAside ==
  ASSUME SessionInv, UNCHANGED <<sessions, minted>>, account'.exists = account.exists,
         Makers' \subseteq Makers, Admitted'
  PROVE  SessionInv'
<1>1. Earned' = Earned BY DEF Earned
<1>2. Cardinality(Earned) \in Nat BY EarnedIsCounted
<1>3. sessions \in Nat
      /\ sessions <= Cardinality(Earned) + IF account.exists /\ Makers = {} THEN 1 ELSE 0
  BY DEF SessionInv
<1>4. sessions' <= Cardinality(Earned)' + IF account'.exists /\ Makers' = {} THEN 1 ELSE 0
  <2>1. Makers = {} => Makers' = {} OBVIOUS
  <2>2. QED BY <1>1, <1>2, <1>3, <2>1
<1>5. \A t, u \in Makers' : t = u BY DEF SessionInv
<1>6. QED BY <1>3, <1>4, <1>5 DEF SessionInv, Admitted

\* What a request's step does to who makes the account and who holds a ticket.
LEMMA OneMoves ==
  ASSUME SessionInv, NEW t \in Tab, \A u \in Tab \ {t} : tab'[u] = tab[u],
         tab'[t].pc \in {"mint", "lookup", "store", "look", "code", "auth"} => tab'[t].ticket # 0
  PROVE  /\ Admitted'
         /\ Makers' \subseteq Makers \cup {t}
         /\ t \in Makers \/ tab'[t].pc \notin {"accept", "subscribe", "link", "session"} =>
              Makers' \subseteq Makers
         /\ tab'[t].pc \notin {"accept", "subscribe", "link", "session"} => t \notin Makers'
<1>1. Admitted' BY DEF SessionInv, Admitted
<1>2. QED BY <1>1 DEF Makers

\* The steps of SignIn.
LEMMA SignInCounts ==
  ASSUME TicketInv, MakingInv, SessionInv, SignInStep
  PROVE  SessionInv'
<1>0. Admitted /\ Makers' = {t \in Tab : tab'[t].pc \in {"accept", "subscribe", "link", "session"}}
  BY DEF SessionInv, Admitted, Makers
<1>1. ASSUME NEW t \in Tab, NEW way \in {"email", "passkey"}, NEW agreed \in BOOLEAN,
             Begin(t, way, agreed)
      PROVE  SessionInv'
  <2>1. UNCHANGED <<account, sessions, minted>> BY <1>1 DEF Begin, accountState, ticketVars
  <2>2. tab'[t].pc = "select" /\ \A u \in Tab \ {t} : tab'[u] = tab[u] BY <1>1, BeginIs
  <2>3. QED BY <2>1, <2>2, OneMoves, SessionsAside
<1>2. ASSUME NEW t \in Tab, UpsertSelect(t) \/ AdmitKnown(t) PROVE SessionInv'
  <2>1. UNCHANGED <<account, sessions, minted>>
    BY <1>2 DEF UpsertSelect, AdmitKnown, accountState, ticketVars
  <2>2. Leave(t) \/ \E pc \in {"known", "insert", "options"} : TabGoto(t, pc)
    BY <1>2 DEF UpsertSelect, AdmitKnown
  <2>3. tab'[t].pc \in {"idle", "known", "insert", "options"}
         /\ \A u \in Tab \ {t} : tab'[u] = tab[u]
    BY <2>2, GotoIs, LeaveIs
  <2>4. QED BY <2>1, <2>3, OneMoves, SessionsAside
<1>3. ASSUME NEW t \in Tab, UpsertInsert(t) PROVE SessionInv'
  <2>0. UNCHANGED <<sessions, minted>> BY <1>3 DEF UpsertInsert, ticketVars
  <2>1. CASE account.exists
    <3>1. Leave(t) /\ account' = [account EXCEPT !.exists = TRUE]
      BY <1>3, <2>1 DEF UpsertInsert
    <3>2. account' = account BY <3>1, <2>1 DEF MakingInv
    <3>3. tab'[t].pc = "idle" /\ \A u \in Tab \ {t} : tab'[u] = tab[u] BY <3>1, LeaveIs
    <3>4. QED BY <2>0, <3>2, <3>3, OneMoves, SessionsAside
  <2>2. CASE ~account.exists
    <3>1. TabGoto(t, "accept") /\ account' = [account EXCEPT !.exists = TRUE]
      BY <1>3, <2>2 DEF UpsertInsert
    <3>2. Makers = {} /\ sessions \in Nat /\ sessions <= Cardinality(Earned)
      <4>1. Makers = {} BY <2>2 DEF SessionInv
      <4>2. sessions \in Nat /\ sessions <= Cardinality(Earned) + 0 BY <2>2 DEF SessionInv
      <4>3. QED BY <4>1, <4>2, EarnedIsCounted
    <3>3. tab'[t].pc = "accept" /\ \A u \in Tab \ {t} : tab'[u] = tab[u] BY <3>1, GotoIs
    <3>4. Makers' = {t} BY <3>2, <3>3 DEF Makers
    <3>5. account'.exists BY <3>1 DEF MakingInv
    <3>6. Earned' = Earned BY <2>0 DEF Earned
    <3>7. sessions' <= Cardinality(Earned)' + IF account'.exists /\ Makers' = {} THEN 1 ELSE 0
      BY <2>0, <3>2, <3>4, <3>6, EarnedIsCounted
    <3>8. Admitted' BY <3>3, OneMoves
    <3>9. QED BY <2>0, <3>2, <3>4, <3>5, <3>7, <3>8 DEF SessionInv, Admitted
  <2>3. QED BY <2>1, <2>2
<1>4. ASSUME NEW t \in Tab, Accept(t) \/ AcceptFails(t) \/ Subscribe(t) PROVE SessionInv'
  <2>1. t \in Makers BY <1>4 DEF Accept, AcceptFails, Subscribe, Makers
  <2>2. UNCHANGED <<sessions, minted>> BY <1>4 DEF Accept, AcceptFails, Subscribe, ticketVars
  <2>3. account'.exists = account.exists
    BY <1>4 DEF Accept, AcceptFails, Subscribe, MakingInv
  <2>4. Leave(t) \/ \E pc \in {"subscribe", "link", "options"} : TabGoto(t, pc)
    BY <1>4 DEF Accept, AcceptFails, Subscribe
  <2>5. tab'[t].pc \in {"idle", "subscribe", "link", "options"}
         /\ \A u \in Tab \ {t} : tab'[u] = tab[u]
    BY <2>4, GotoIs, LeaveIs
  <2>6. QED BY <2>1, <2>2, <2>3, <2>5, OneMoves, SessionsAside
<1>5. ASSUME NEW t \in Tab, MailKnown(t) \/ RegisterOptions(t) \/ Stops(t) PROVE SessionInv'
  <2>1. UNCHANGED <<account, sessions, minted>> /\ Leave(t)
    BY <1>5 DEF MailKnown, RegisterOptions, Stops, Issue, accountState, ticketVars
  <2>2. tab'[t].pc = "idle" /\ \A u \in Tab \ {t} : tab'[u] = tab[u] BY <2>1, LeaveIs
  <2>3. QED BY <2>1, <2>2, OneMoves, SessionsAside
<1>6. ASSUME NEW t \in Tab, MailLink(t) PROVE SessionInv'
  <2>1. UNCHANGED <<account, sessions, minted>> /\ TabGoto(t, "session") /\ t \in Makers
    BY <1>6 DEF MailLink, Issue, accountState, Makers
  <2>2. tab'[t].pc = "session" /\ \A u \in Tab \ {t} : tab'[u] = tab[u] BY <2>1, GotoIs
  <2>3. QED BY <2>1, <2>2, OneMoves, SessionsAside
<1>7. ASSUME NEW t \in Tab, FirstSession(t) PROVE SessionInv'
  <2>1. /\ UNCHANGED <<account, minted>> /\ sessions' = sessions + 1 /\ Leave(t)
        /\ t \in Makers
    BY <1>7 DEF FirstSession, accountState, Makers
  <2>2. tab'[t].pc = "idle" /\ \A u \in Tab \ {t} : tab'[u] = tab[u] BY <2>1, LeaveIs
  <2>3. Makers' = {} /\ Admitted'
    <3>1. Makers = {t} BY <2>1 DEF SessionInv
    <3>2. QED BY <2>2, <3>1, OneMoves
  <2>4. account.exists /\ sessions \in Nat /\ sessions <= Cardinality(Earned)
    <3>1. account.exists /\ sessions \in Nat /\ sessions <= Cardinality(Earned) + 0
      BY <2>1 DEF SessionInv
    <3>2. QED BY <3>1, EarnedIsCounted
  <2>5. Earned' = Earned BY <2>1 DEF Earned
  <2>6. sessions' <= Cardinality(Earned)' + IF account'.exists /\ Makers' = {} THEN 1 ELSE 0
    BY <2>1, <2>3, <2>4, <2>5, EarnedIsCounted
  <2>7. QED BY <2>1, <2>3, <2>4, <2>6 DEF SessionInv, Admitted
<1>8. ASSUME NEW t \in Tab, NEW k \in Pass, Consume(t, k) PROVE SessionInv'
  <2>1. UNCHANGED <<account, sessions, minted>> BY <1>8 DEF Consume, accountState
  <2>2. tab'[t].pc \in {"mint", "lookup", "auth"} /\ tab'[t].ticket # 0
         /\ \A u \in Tab \ {t} : tab'[u] = tab[u]
    BY <1>8, ConsumeIs DEF Pass
  <2>3. QED BY <2>1, <2>2, OneMoves, SessionsAside
<1>9. CASE Tick \/ \E t \in Tab : SigninLink(t)
  <2>1. UNCHANGED <<account, sessions, minted, tab>>
    BY <1>9 DEF Tick, SigninLink, Issue, accountState, ticketVars
  <2>2. QED BY <1>0, <2>1, SessionsAside DEF Admitted, Makers
<1>10. CASE Signout
  <2>1. /\ UNCHANGED <<account, minted, tab>> /\ sessions # 0 /\ sessions' = sessions - 1
    BY <1>10 DEF Signout, accountState
  <2>2. Earned' = Earned /\ Makers' = Makers BY <2>1 DEF Earned, Makers
  <2>3. sessions \in Nat
        /\ sessions <= Cardinality(Earned) + IF account.exists /\ Makers = {} THEN 1 ELSE 0
    BY DEF SessionInv
  <2>4. sessions' \in Nat
        /\ sessions' <= Cardinality(Earned) + IF account.exists /\ Makers = {} THEN 1 ELSE 0
    BY <2>1, <2>3, EarnedIsCounted
  <2>5. QED BY <2>1, <2>2, <2>4 DEF SessionInv
<1>11. QED
  BY <1>1, <1>2, <1>3, <1>4, <1>5, <1>6, <1>7, <1>8, <1>9, <1>10 DEF SignInStep

\* A session more, a ticket more that earned one.
LEMMA MintCounts ==
  ASSUME TicketInv, SessionInv, NEW t \in Tab, Mint(t)
  PROVE  SessionInv'
<1> PICK k : k = tab[t].ticket OBVIOUS
<1>1. tab[t].pc = "mint" /\ UNCHANGED account /\ sessions' = sessions + 1
       /\ minted' = [minted EXCEPT ![k] = @ + 1] /\ Leave(t)
  BY DEF Mint, accountState
<1>2. k \in Pass /\ minted[k] = 0
  <2>1. tab[t] \in RequestState BY DEF TicketInv
  <2>2. k # 0 BY <1>1 DEF SessionInv
  <2>3. k \in Pass BY <2>1, <2>2, SignInAssumption DEF RequestState, Pass
  <2>4. QED BY <2>2, <2>3 DEF TicketInv
<1>3. Earned' = Earned \cup {k} /\ k \notin Earned
  <2>1. /\ minted' \in [Pass -> Nat] /\ minted'[k] = 1
        /\ \A j \in Pass : j # k => minted'[j] = minted[j]
    BY <1>1, <1>2 DEF TicketInv
  <2>2. QED BY <1>2, <2>1 DEF Earned
<1>4. Cardinality(Earned') = Cardinality(Earned) + 1
  BY <1>3, EarnedIsCounted, FS_AddElement
<1>5. tab'[t].pc = "idle" /\ \A u \in Tab \ {t} : tab'[u] = tab[u] BY <1>1, LeaveIs
<1>6. Admitted' /\ Makers' \subseteq Makers BY <1>5, OneMoves
<1>7. sessions \in Nat
      /\ sessions <= Cardinality(Earned) + IF account.exists /\ Makers = {} THEN 1 ELSE 0
  BY DEF SessionInv
<1>8. sessions' <= Cardinality(Earned') + IF account'.exists /\ Makers' = {} THEN 1 ELSE 0
  <2>1. account' = account /\ (Makers = {} => Makers' = {}) BY <1>1, <1>6
  <2>2. QED BY <1>1, <1>4, <1>7, <2>1, EarnedIsCounted
<1>9. \A u, w \in Makers' : u = w BY <1>6 DEF SessionInv
<1>10. Makers' # {} => account'.exists BY <1>1, <1>6 DEF SessionInv
<1>11. QED BY <1>1, <1>6, <1>7, <1>8, <1>9, <1>10 DEF SessionInv, Admitted

\* The steps of PrivateVaults.
LEMMA TabStepCounts ==
  ASSUME TicketInv, SessionInv, NEW t \in Tab, TabStep(t)
  PROVE  SessionInv'
<1>1. CASE RegisterAnswer(t) BY <1>1, MintCounts DEF RegisterAnswer
<1>2. ASSUME ~RegisterAnswer(t) PROVE UNCHANGED <<account, sessions, minted>>
  BY <1>2 DEF TabStep, RegisterLookup, RegisterStore, RegisterLook, RegisterCode,
         AuthenticateOptions, DeleteCountVaults, DeleteRow, AuthenticateVerify,
         DeleteBegin, signInFrame, accountState, Issue
<1>3. CASE RegisterLookup(t) \/ RegisterLook(t) \/ \E p \in Passkey : AuthenticateVerify(t, p)
  <2>0. ~RegisterAnswer(t)
    BY <1>3 DEF RegisterLookup, RegisterLook, AuthenticateVerify, RegisterAnswer, Mint
  <2>1. tab[t].ticket # 0 /\ (Leave(t) \/ \E pc \in {"store", "code", "mint"} : TabGoto(t, pc))
    BY <1>3 DEF RegisterLookup, RegisterLook, AuthenticateVerify, SessionInv
  <2>2. /\ tab'[t].pc = "idle" \/ (tab'[t].pc \in {"store", "code", "mint"} /\ tab'[t].ticket # 0)
        /\ \A u \in Tab \ {t} : tab'[u] = tab[u]
    BY <2>1, GotoIs, LeaveIs
  <2>3. QED BY <1>2, <2>0, <2>2, OneMoves, SessionsAside
<1>4. CASE DeleteCountVaults(t) \/ DeleteRow(t)
  <2>0. ~RegisterAnswer(t) BY <1>4 DEF DeleteCountVaults, DeleteRow, RegisterAnswer, Mint
  <2>1. Leave(t) \/ TabGoto(t, "drop") BY <1>4 DEF DeleteCountVaults, DeleteRow
  <2>2. tab'[t].pc \in {"idle", "drop"} /\ \A u \in Tab \ {t} : tab'[u] = tab[u]
    BY <2>1, GotoIs, LeaveIs
  <2>3. QED BY <1>2, <2>0, <2>2, OneMoves, SessionsAside
<1>5. CASE RegisterStore(t)
  <2>0. ~RegisterAnswer(t) BY <1>5 DEF RegisterStore, RegisterAnswer, Mint
  <2>1. tab[t].ticket # 0 /\ PasskeyGoto(t, "look", registered + 1)
    BY <1>5 DEF RegisterStore, PasskeyGoto, SessionInv
  <2>2. tab'[t].pc = "look" /\ tab'[t].ticket # 0 /\ \A u \in Tab \ {t} : tab'[u] = tab[u]
    BY <2>1, PasskeyIs
  <2>3. QED BY <1>2, <2>0, <2>2, OneMoves, SessionsAside
<1>6. CASE RegisterCode(t)
  <2>0. ~RegisterAnswer(t) BY <1>6 DEF RegisterCode, RegisterAnswer, Mint
  <2>1. tab[t].ticket # 0 /\ CodeGoto(t, "mint", codes + 1)
    BY <1>6 DEF RegisterCode, CodeGoto, SessionInv
  <2>2. tab'[t].pc = "mint" /\ tab'[t].ticket # 0 /\ \A u \in Tab \ {t} : tab'[u] = tab[u]
    BY <2>1, CodeIs
  <2>3. QED BY <1>2, <2>0, <2>2, OneMoves, SessionsAside
<1>7. CASE AuthenticateOptions(t)
  <2>0. ~RegisterAnswer(t) BY <1>7 DEF AuthenticateOptions, RegisterAnswer, Mint
  <2>1. UNCHANGED tab BY <1>7 DEF AuthenticateOptions
  <2>2. Admitted' /\ Makers' \subseteq Makers BY <2>1 DEF SessionInv, Admitted, Makers
  <2>3. QED BY <1>2, <2>0, <2>2, SessionsAside
<1>8. ASSUME NEW p \in Passkey, DeleteBegin(t, p) PROVE SessionInv'
  <2>0. ~RegisterAnswer(t) BY <1>8 DEF DeleteBegin, RegisterAnswer, Mint
  <2>1. PICK pc \in {"zk", "drop"} : PasskeyGoto(t, pc, p) BY <1>8 DEF DeleteBegin, PasskeyGoto
  <2>2. tab'[t].pc \in {"zk", "drop"} /\ \A u \in Tab \ {t} : tab'[u] = tab[u]
    BY <2>1, PasskeyIs
  <2>3. QED BY <1>2, <2>0, <2>2, OneMoves, SessionsAside
<1>9. QED BY <1>1, <1>3, <1>4, <1>5, <1>6, <1>7, <1>8 DEF TabStep

\* The steps of SignIn keep to the codes there are, the clock and the faults.
LEMMA SignInRanges ==
  ASSUME TicketInv, RangeInv, SignInStep, UNCHANGED privateVars
  PROVE  RangeInv'
<1> USE SignInAssumption
<1>1. now' \in 0..MaxNow /\ faults' \in 0..MaxFaults
  <2>1. now' = now \/ (now < MaxNow /\ now' = now + 1)
    BY DEF SignInStep, Begin, UpsertSelect, UpsertInsert, Accept, Subscribe, AcceptFails,
       MailKnown, AdmitKnown, MailLink, FirstSession, SigninLink, RegisterOptions, Stops,
       Consume, Signout, Tick
  <2>2. faults' = faults \/ (faults < MaxFaults /\ faults' = faults + 1)
    BY DEF SignInStep, Begin, UpsertSelect, UpsertInsert, Accept, Subscribe, AcceptFails,
       MailKnown, AdmitKnown, MailLink, FirstSession, SigninLink, RegisterOptions, Stops,
       Consume, Signout, Tick
  <2>3. QED BY <2>1, <2>2 DEF RangeInv
<1>2. \A u \in Tab : tab'[u].code \in {0, tab[u].code}
  <2>1. ASSUME NEW t \in Tab, NEW way \in {"email", "passkey"}, NEW agreed \in BOOLEAN,
               Begin(t, way, agreed)
        PROVE  \A u \in Tab : tab'[u].code \in {0, tab[u].code}
    BY <2>1, BeginIs
  <2>2. ASSUME NEW t \in Tab, NEW k \in Pass, Consume(t, k)
        PROVE  \A u \in Tab : tab'[u].code \in {0, tab[u].code}
    BY <2>2, ConsumeIs
  <2>3. ASSUME NEW t \in Tab, Leave(t) \/ \E pc : TabGoto(t, pc)
        PROVE  \A u \in Tab : tab'[u].code \in {0, tab[u].code}
    BY <2>3, GotoIs, LeaveIs
  <2>4. ASSUME NEW t \in Tab,
               UpsertSelect(t) \/ UpsertInsert(t) \/ Accept(t) \/ Subscribe(t)
                 \/ AcceptFails(t) \/ MailKnown(t) \/ AdmitKnown(t) \/ MailLink(t)
                 \/ FirstSession(t) \/ RegisterOptions(t) \/ Stops(t)
        PROVE  \A u \in Tab : tab'[u].code \in {0, tab[u].code}
    <3>1. Leave(t) \/ \E pc : TabGoto(t, pc)
      BY <2>4 DEF UpsertSelect, UpsertInsert, Accept, Subscribe, AcceptFails, MailKnown,
         AdmitKnown, MailLink, FirstSession, RegisterOptions, Stops
    <3>2. QED BY <2>3, <3>1
  <2>5. CASE Signout \/ Tick \/ \E t \in Tab : SigninLink(t)
    BY <2>5 DEF Signout, Tick, SigninLink
  <2>6. QED BY <2>1, <2>2, <2>4, <2>5 DEF SignInStep
<1>3. UNCHANGED <<passkeys, registered, codes, verifier, shown, wraps, vaults, envelopes, prkVaults>>
  BY DEF privateVars, passkeyVars, recoveryVars, vaultVars
<1>4. \A u \in Tab : tab'[u].code \in 0..codes
  <2>1. codes \in Nat /\ \A u \in Tab : tab[u].code \in 0..codes BY DEF RangeInv
  <2>2. 0 \in 0..codes BY <2>1
  <2>3. QED BY <1>2, <2>1, <2>2
<1>5. QED BY <1>1, <1>3, <1>4 DEF RangeInv

\* The steps about passkeys keep to what was registered and generated.
LEMMA TabStepRanges ==
  ASSUME TicketInv, RangeInv, NEW t \in Tab, TabStep(t)
  PROVE  RangeInv'
<1> USE VaultAssumption
<1>0. /\ codes \in Nat /\ verifier \in 0..codes /\ shown \subseteq 1..codes
      /\ registered \in 0..MaxPasskeys /\ 0 \in 0..codes
      /\ \A u \in Tab : tab[u].code \in 0..codes
  BY DEF RangeInv
<1>1. UNCHANGED <<now, faults>>
  BY DEF TabStep, RegisterLookup, RegisterStore, RegisterLook, RegisterCode, RegisterAnswer,
         Mint, AuthenticateOptions, DeleteCountVaults, DeleteRow, AuthenticateVerify,
         DeleteBegin, signInFrame
<1>2. CASE RegisterLookup(t) \/ RegisterLook(t) \/ DeleteCountVaults(t)
             \/ \E p \in Passkey : AuthenticateVerify(t, p)
  <2>1. Leave(t) \/ \E pc : TabGoto(t, pc)
    BY <1>2 DEF RegisterLookup, RegisterLook, DeleteCountVaults, AuthenticateVerify
  <2>2. tab'[t].code \in {0, tab[t].code} /\ \A u \in Tab \ {t} : tab'[u] = tab[u]
    BY <2>1, GotoIs, LeaveIs
  <2>3. UNCHANGED <<passkeys, registered, codes, verifier, shown, wraps, vaults, envelopes,
                    prkVaults>>
    BY <1>2 DEF RegisterLookup, RegisterLook, DeleteCountVaults, AuthenticateVerify,
       privateVars, passkeyVars, recoveryVars, vaultVars
  <2>4. \A u \in Tab : tab'[u].code \in 0..codes BY <1>0, <2>2
  <2>5. QED BY <1>1, <2>3, <2>4 DEF RangeInv
<1>3. CASE RegisterStore(t)
  <2>1. /\ registered < MaxPasskeys /\ registered' = registered + 1
        /\ passkeys' = passkeys \cup {registered + 1}
        /\ PasskeyGoto(t, "look", registered + 1)
        /\ UNCHANGED <<codes, verifier, shown, wraps, vaults, envelopes, prkVaults>>
    BY <1>3 DEF RegisterStore, PasskeyGoto, recoveryVars, vaultVars
  <2>2. tab'[t].code = tab[t].code /\ \A u \in Tab \ {t} : tab'[u] = tab[u]
    BY <2>1, PasskeyIs
  <2>3. registered' \in 0..MaxPasskeys /\ passkeys' \subseteq Passkey
    BY <1>0, <2>1 DEF RangeInv, Passkey
  <2>4. envelopes' \subseteq vaults' \X passkeys' BY <2>1 DEF RangeInv
  <2>5. \A u \in Tab : tab'[u].code \in 0..codes BY <1>0, <2>2
  <2>6. QED BY <1>1, <2>1, <2>3, <2>4, <2>5 DEF RangeInv
<1>4. CASE RegisterCode(t)
  <2>1. /\ codes' = codes + 1 /\ verifier' = codes + 1 /\ CodeGoto(t, "mint", codes + 1)
        /\ UNCHANGED <<passkeys, registered, shown, wraps, vaults, envelopes, prkVaults>>
    BY <1>4 DEF RegisterCode, CodeGoto, passkeyVars, vaultVars
  <2>2. tab'[t].code = codes + 1 /\ \A u \in Tab \ {t} : tab'[u] = tab[u]
    BY <2>1, CodeIs
  <2>3. codes' \in Nat /\ verifier' \in 0..codes' /\ shown' \subseteq 1..codes'
    BY <1>0, <2>1
  <2>4. \A u \in Tab : tab'[u].code \in 0..codes' BY <1>0, <2>1, <2>2
  <2>5. wraps' \in [code: 0..codes', passkey: 0..MaxPasskeys]
    <3>1. 0..codes \subseteq 0..codes' BY <1>0, <2>1
    <3>2. wraps \in [code: 0..codes, passkey: 0..MaxPasskeys] BY DEF RangeInv
    <3>3. QED BY <2>1, <3>1, <3>2
  <2>6. QED BY <1>1, <2>1, <2>3, <2>4, <2>5 DEF RangeInv
<1>5. CASE RegisterAnswer(t)
  <2>1. /\ Leave(t) /\ shown' = shown \cup ({tab[t].code} \ {0})
        /\ UNCHANGED <<passkeys, registered, codes, verifier, wraps, vaults, envelopes, prkVaults>>
    BY <1>5 DEF RegisterAnswer, Mint, passkeyVars, vaultVars
  <2>2. tab'[t].code = 0 /\ \A u \in Tab \ {t} : tab'[u] = tab[u] BY <2>1, LeaveIs
  <2>3. shown' \subseteq 1..codes
    <3>1. PICK c : c = tab[t].code OBVIOUS
    <3>2. c = 0 \/ c \in 1..codes BY <1>0, <3>1
    <3>3. shown' = shown \cup ({c} \ {0}) BY <2>1, <3>1
    <3>4. QED BY <1>0, <3>2, <3>3
  <2>4. \A u \in Tab : tab'[u].code \in 0..codes BY <1>0, <2>2
  <2>5. QED BY <1>1, <2>1, <2>3, <2>4 DEF RangeInv
<1>6. CASE AuthenticateOptions(t)
  <2>1. UNCHANGED <<tab, passkeys, registered, codes, verifier, shown, wraps, vaults, envelopes,
                    prkVaults>>
    BY <1>6 DEF AuthenticateOptions, privateVars, passkeyVars, recoveryVars, vaultVars
  <2>2. QED BY <1>1, <2>1 DEF RangeInv
<1>7. CASE DeleteRow(t)
  <2>1. /\ Leave(t) /\ passkeys' = passkeys \ {tab[t].passkey}
        /\ envelopes' = {e \in envelopes : e[2] # tab[t].passkey}
        /\ UNCHANGED <<registered, codes, verifier, shown, wraps, vaults, prkVaults>>
    BY <1>7 DEF DeleteRow, recoveryVars
  <2>2. tab'[t].code = 0 /\ \A u \in Tab \ {t} : tab'[u] = tab[u] BY <2>1, LeaveIs
  <2>3. envelopes' \subseteq vaults' \X passkeys'
    <3>1. envelopes \subseteq vaults \X passkeys BY DEF RangeInv
    <3>2. QED BY <2>1, <3>1
  <2>4. passkeys' \subseteq Passkey BY <2>1 DEF RangeInv
  <2>5. \A u \in Tab : tab'[u].code \in 0..codes BY <1>0, <2>2
  <2>6. QED BY <1>1, <2>1, <2>3, <2>4, <2>5 DEF RangeInv
<1>8. ASSUME NEW p \in Passkey, DeleteBegin(t, p) PROVE RangeInv'
  <2> PICK pc : pc = IF Cardinality(passkeys) <= 1 THEN "zk" ELSE "drop" OBVIOUS
  <2>1. PasskeyGoto(t, pc, p) BY <1>8 DEF DeleteBegin, PasskeyGoto
  <2>2. tab'[t].code = tab[t].code /\ \A u \in Tab \ {t} : tab'[u] = tab[u] BY <2>1, PasskeyIs
  <2>3. UNCHANGED <<passkeys, registered, codes, verifier, shown, wraps, vaults, envelopes,
                    prkVaults>>
    BY <1>8 DEF DeleteBegin, privateVars, passkeyVars, recoveryVars, vaultVars
  <2>4. \A u \in Tab : tab'[u].code \in 0..codes BY <1>0, <2>2
  <2>5. QED BY <1>1, <2>3, <2>4 DEF RangeInv
<1>9. QED BY <1>2, <1>3, <1>4, <1>5, <1>6, <1>7, <1>8 DEF TabStep

\* What a browser stores is of vaults and passkeys that are there.
LEMMA BrowserRanges ==
  ASSUME RangeInv, BrowserStep
  PROVE  RangeInv'
<1>1. UNCHANGED <<now, faults, tab, passkeys, registered, codes, verifier, shown>>
  BY DEF BrowserStep, StoreRecoveryKey, CreateVault, StoreEnvelope, StorePrkEnvelope,
         signInVars, passkeyVars, recoveryVars
<1>2. ASSUME NEW c \in 1..codes, NEW p \in Passkey, StoreRecoveryKey(c, p) PROVE RangeInv'
  <2>1. UNCHANGED <<vaults, envelopes, prkVaults>>
    BY <1>2 DEF StoreRecoveryKey, vaultVars
  <2>2. wraps' = wraps \/ wraps' = [code |-> c, passkey |-> p] BY <1>2 DEF StoreRecoveryKey
  <2>3. c \in 0..codes /\ p \in 0..MaxPasskeys BY VaultAssumption DEF Passkey, RangeInv
  <2>4. wraps' \in [code: 0..codes, passkey: 0..MaxPasskeys] BY <2>2, <2>3 DEF RangeInv
  <2>5. QED BY <1>1, <2>1, <2>4 DEF RangeInv
<1>3. ASSUME NEW v \in Vault, CreateVault(v) PROVE RangeInv'
  <2>1. UNCHANGED <<wraps, envelopes, prkVaults>> /\ vaults' = vaults \cup {v}
    BY <1>3 DEF CreateVault, recoveryVars
  <2>2. QED BY <1>1, <2>1 DEF RangeInv
<1>4. ASSUME NEW v \in Vault, NEW p \in Passkey, StoreEnvelope(v, p) PROVE RangeInv'
  <2>1. /\ UNCHANGED <<wraps, vaults, prkVaults>> /\ envelopes' = envelopes \cup {<<v, p>>}
        /\ v \in vaults /\ p \in passkeys
    BY <1>4 DEF StoreEnvelope, recoveryVars
  <2>2. envelopes' \subseteq vaults \X passkeys BY <2>1 DEF RangeInv
  <2>3. QED BY <1>1, <2>1, <2>2 DEF RangeInv
<1>5. ASSUME NEW v \in Vault, NEW p \in Passkey, StorePrkEnvelope(v, p) PROVE RangeInv'
  <2>1. /\ UNCHANGED <<wraps, vaults, envelopes>> /\ prkVaults' = prkVaults \cup {v}
        /\ <<v, p>> \in envelopes
    BY <1>5 DEF StorePrkEnvelope, recoveryVars
  <2>2. v \in vaults BY <2>1 DEF RangeInv
  <2>3. QED BY <1>1, <2>1, <2>2 DEF RangeInv
<1>6. QED BY <1>2, <1>3, <1>4, <1>5 DEF BrowserStep

\* What every history of requests and browsers keeps.
TypesInv == AccessInv /\ MakingInv /\ SessionInv /\ RangeInv

LEMMA TypesKept ==
  ASSUME TypesInv, AccessMoves \/ UNCHANGED accessVars
  PROVE  TypesInv'
<1>0. AccessInv /\ TicketInv /\ MakingInv /\ SessionInv /\ RangeInv BY DEF TypesInv, AccessInv
<1>1. CASE SignInStep /\ UNCHANGED privateVars
  <2>1. AccessInv'
    BY <1>0, <1>1, SignInKeeps DEF AccessInv, privateVars, passkeyVars, recoveryVars
  <2>2. QED BY <1>0, <1>1, <2>1, SignInMakes, SignInCounts, SignInRanges DEF TypesInv
<1>2. CASE BrowserStep
  <2>1. UNCHANGED <<tab, account, marred, sessions, minted>>
    BY <1>2 DEF BrowserStep, StoreRecoveryKey, CreateVault, StoreEnvelope, StorePrkEnvelope,
                signInVars, accountState, ticketVars
  <2>2. MakingInv' BY <1>0, <2>1, MakingAside DEF accountState
  <2>3. SessionInv' BY <1>0, <2>1 DEF SessionInv, Makers, Earned
  <2>4. QED BY <1>0, <1>2, <2>2, <2>3, BrowserKeeps, BrowserRanges DEF TypesInv
<1>3. ASSUME NEW t \in Tab, TabStep(t) PROVE TypesInv'
  BY <1>0, <1>3, TabStepKeeps, TabStepMakes, TabStepCounts, TabStepRanges DEF TypesInv
<1>4. CASE UNCHANGED accessVars
  <2>1. UNCHANGED <<account, marred, now, issued, tickets, sessions, minted, tab, faults>>
    BY <1>4 DEF accessVars, signInVars, accountState, ticketVars
  <2>2. UNCHANGED <<passkeys, registered, codes, verifier, shown, wraps, vaults, envelopes,
                    prkVaults>>
    BY <1>4 DEF accessVars, privateVars, passkeyVars, recoveryVars, vaultVars
  <2>3. TicketInv' BY <1>0, <2>1 DEF TicketInv
  <2>4. AccessInv' BY <1>0, <2>2, <2>3 DEF AccessInv
  <2>5. MakingInv' BY <1>0, <2>1 DEF MakingInv, BeingMade
  <2>6. SessionInv' BY <1>0, <2>1 DEF SessionInv, Makers, Earned
  <2>7. RangeInv' BY <1>0, <2>1, <2>2 DEF RangeInv
  <2>8. QED BY <2>4, <2>5, <2>6, <2>7 DEF TypesInv
<1>5. QED BY <1>1, <1>2, <1>3, <1>4 DEF AccessMoves

\* It begins with no account and no session, or with an account whose owner has one.
LEMMA TypesBegin ==
  ASSUME NEW with \in [exists: BOOLEAN, tos: BOOLEAN, subscribed: BOOLEAN], NEW live \in {0, 1},
         SignInStarts(with, live), NoVaultYet,
         live = 1 => with.exists, with.exists => with.tos /\ with.subscribed
  PROVE  TypesInv
<1> USE SignInAssumption, VaultAssumption
<1>1. /\ account = with /\ sessions = live /\ now = 0 /\ issued = 0 /\ faults = 0 /\ marred = FALSE
      /\ tickets = [k \in Pass |-> NoPass] /\ minted = [k \in Pass |-> 0]
      /\ tab = [t \in Tab |-> Free]
  BY DEF SignInStarts
<1>2. Free \in RequestState /\ Free.ticket = 0 /\ Free.code = 0 /\ Free.pc = "idle"
  BY DEF Free, Request, RequestState, Pc
<1>3. NoPass \in [kind: Kind, expires: Nat, open: BOOLEAN] /\ ~NoPass.open
  BY DEF NoPass, Kind
<1>4. TicketInv BY <1>1, <1>2, <1>3 DEF TicketInv, Pass
<1>5. AccessInv BY <1>4 DEF AccessInv, NoVaultYet
<1>6. BeingMade = {} /\ Makers = {} /\ Earned = {} BY <1>1, <1>2 DEF BeingMade, Makers, Earned
<1>7. MakingInv BY <1>1, <1>6 DEF MakingInv
<1>8. SessionInv
  <2>1. Cardinality(Earned) = 0 BY <1>6, FS_EmptySet
  <2>2. \A t \in Tab : tab[t].pc = "idle" BY <1>1, <1>2
  <2>3. QED BY <1>1, <1>6, <2>1, <2>2 DEF SessionInv
<1>9. RangeInv BY <1>1, <1>2 DEF RangeInv, NoVaultYet, NoWraps
<1>10. QED BY <1>5, <1>7, <1>8, <1>9 DEF TypesInv

AccessTyped == TypesInv /\ crossed \in BOOLEAN

LEMMA TypesAreRight ==
  ASSUME AccessTyped
  PROVE  AccessTypeOK
<1> USE SignInAssumption
<1>1. TicketInv /\ MakingInv /\ SessionInv /\ RangeInv /\ crossed \in BOOLEAN
  BY DEF AccessTyped, TypesInv, AccessInv
<1>2. sessions \in 0..MaxTickets + 1
  <2>1. sessions \in Nat
        /\ sessions <= Cardinality(Earned) + IF account.exists /\ Makers = {} THEN 1 ELSE 0
    BY <1>1 DEF SessionInv
  <2>2. QED BY <2>1, EarnedIsCounted
<1>3. SignInTypeOK
  BY <1>1, <1>2 DEF TicketInv, MakingInv, RangeInv, SignInTypeOK
<1>4. passkeys \subseteq Passkey /\ registered \in 0..MaxPasskeys
       /\ codes \in Nat /\ verifier \in 0..codes /\ shown \subseteq 1..codes
       /\ wraps \in [code: 0..codes, passkey: 0..MaxPasskeys]
       /\ vaults \subseteq Vault /\ envelopes \subseteq vaults \X passkeys
       /\ prkVaults \subseteq vaults
  BY <1>1 DEF RangeInv
<1>5. QED BY <1>1, <1>3, <1>4 DEF AccessTypeOK

\* Type correctness of accounts, tickets, passkeys, recovery codes and Private Vaults;
\* with it, that there are never more sessions than tickets that earned one, and one.
THEOREM AccessTypes == AccessSpec => []AccessTypeOK
<1>1. AccessInit => AccessTyped
  <2> SUFFICES ASSUME AccessInit PROVE AccessTyped
    OBVIOUS
  <2>1. NoAccount \in [exists: BOOLEAN, tos: BOOLEAN, subscribed: BOOLEAN]
         /\ NoAccount.exists = FALSE
    BY DEF NoAccount
  <2>2. SignInStarts(NoAccount, 0) /\ NoVaultYet BY DEF AccessInit
  <2>3. TypesInv BY <2>1, <2>2, TypesBegin
  <2>4. QED BY <2>2, <2>3 DEF NoVaultYet, AccessTyped
<1>2. AccessTyped /\ [AccessNext]_accessVars => AccessTyped'
  <2> SUFFICES ASSUME AccessTyped, [AccessNext]_accessVars PROVE AccessTyped'
    OBVIOUS
  <2>1. AccessMoves \/ UNCHANGED accessVars BY DEF AccessNext, AccessMoves
  <2>2. crossed' \in BOOLEAN
    <3>1. crossed' = Crossing \/ crossed' = crossed BY DEF AccessNext, accessVars
    <3>2. Crossing \in BOOLEAN BY Zenon DEF Crossing
    <3>3. QED BY <3>1, <3>2 DEF AccessTyped
  <2>3. QED BY <2>1, <2>2, TypesKept DEF AccessTyped
<1>3. QED BY <1>1, <1>2, TypesAreRight, PTL DEF AccessSpec

=============================================================================

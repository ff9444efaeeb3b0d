------------------------- MODULE HeldLettersProofs -------------------------
(***************************************************************************)
(* Machine-checked proofs that no event letter is redirected silently,     *)
(* that each fires at most once and is not lost without a failure, and     *)
(* that the scheduler and the co-stewards leave the pipeline its promises; *)
(* for every number of replicas, co-stewards, appliers, letters, dates,    *)
(* changes and faults.                                                     *)
(***************************************************************************)
EXTENDS HeldLetters, ReleasePipelineProofs

USE BoundsAssumption, PostMortemAssumption

\* The initial state satisfies the invariant.
LEMMA HeldInitInv == HeldInit => PostMortemInv
  BY DEF HeldInit, Init, DbInit, PmInit, PostMortemInv, PmTypeOK, HoldInv, AddressInv,
         FiringInv, EventFiresOnce, GivenTo, Ripe, At, IdleVisit, VisitState, VisitPc, Firing,
         Change, Address, NoChange, NoLetter, NoEvent, Event

-----------------------------------------------------------------------------
(* The pipeline and the scheduler let time pass and insert events.         *)

\* What another component may do to the rows the co-stewards' invariant reads.
Company ==
  /\ clock' = clock \/ clock' = clock + 1
  /\ \/ lastEvent' = lastEvent
     \/ lastEvent < MaxReleases /\ lastEvent' = lastEvent + 1

\* Requests, timers, poll loops and performers.
LEMMA PipelineCompany ==
  ASSUME Next
  PROVE  Company
<1> USE DEF Company, dbVars, eventVars
<1>1. CASE Tick
  BY <1>1 DEF Tick
<1>2. ASSUME NEW r \in Request, NEW n \in Node, NEW drill \in BOOLEAN,
             RequestBegin(r, n, drill) \/ CancelBegin(r, n)
      PROVE  Company
  BY <1>2 DEF RequestBegin, CancelBegin
<1>3. ASSUME NEW r \in Request, RequestStep(r) PROVE Company
  BY <1>3 DEF RequestStep, RequestWins, RequestConflict, RequestCreate, CreateReleaseEvent,
              NextEvent, CancelSetActive, CancelFetchOpen, CancelMark, MarkReleaseCancelled
<1>4. ASSUME NEW r \in Request, RequestFails(r) PROVE Company
  BY <1>4 DEF RequestFails
<1>5. ASSUME NEW e \in Event, TimerStep(e) PROVE Company
  BY <1>5 DEF TimerStep, TimerWins, TimerAbandons
<1>6. ASSUME NEW n \in Node, PollStep(n) PROVE Company
  BY <1>6 DEF PollStep, PollList, PollWins, PollSkips
<1>7. ASSUME NEW w \in Worker, PerformStep(w) PROVE Company
  BY <1>7 DEF PerformStep, Deliver, SetReleased, MarkReleased, MarkReleaseReleased,
              ReturnActive
<1>8. ASSUME NEW w \in Worker, PerformFails(w) PROVE Company
  BY <1>8 DEF PerformFails
<1>9. ASSUME NEW n \in Node, Crash(n) PROVE Company
  BY <1>9 DEF Crash
<1> QED
  BY <1>1, <1>2, <1>3, <1>4, <1>5, <1>6, <1>7, <1>8, <1>9 DEF Next, Running

\* The scheduled-release loop.
LEMMA SchedulerCompany ==
  ASSUME NEW n \in Scheduler, SchedStep(n) \/ SchedFails(n)
  PROVE  Company
BY DEF SchedStep, SchedFails, SchedList, SchedSkips, SchedTakes, SchedRefused, SchedBegin, SchedWins,
       SchedConflict, SchedCreate, CreateReleaseEvent, NextEvent, SchedClear, Company, vars, dbVars, eventVars

\* The invariant does not mind either.
LEMMA CompanyInv ==
  ASSUME PostMortemInv, Company, UNCHANGED pmVars
  PROVE  PostMortemInv'
<1>1. clock' \in Nat /\ lastEvent' \in 0..MaxReleases
  BY DEF PostMortemInv, Company
<1>2. PmTypeOK' /\ AddressInv' /\ FiringInv' /\ EventFiresOnce'
  BY DEF PostMortemInv, PmTypeOK, AddressInv, FiringInv, EventFiresOnce, GivenTo, At, Event, pmVars
<1>3. \A c \in 1..lastChange : change[c].effectiveAt \in Nat
  BY DEF PostMortemInv, PmTypeOK, Change
<1>4. HoldInv'
  BY <1>3 DEF PostMortemInv, Company, HoldInv, Ripe, At, pmVars
<1> QED
  BY <1>1, <1>2, <1>4 DEF PostMortemInv

-----------------------------------------------------------------------------
(* Types.                                                                  *)

\* The idle request, and one that has just arrived, are typed.
LEMMA VisitTypes ==
  /\ IdleVisit \in VisitState
  /\ \A l \in EventLetter : \A pc \in VisitPc : Visit(pc, l) \in VisitState
<1>1. IdleVisit \in VisitState
  BY DEF IdleVisit, VisitState, VisitPc, NoChange, Address
<1>2. ASSUME NEW l \in EventLetter, NEW pc \in VisitPc
      PROVE  Visit(pc, l) \in VisitState
  BY <1>1 DEF Visit, VisitState
<1> QED
  BY <1>1, <1>2

\* What a deputy would write to release_claim is a row.
LEMMA TriggerClaimType ==
  ASSUME PostMortemInv, NEW d \in Deputy, At(d, "deliver")
  PROVE  TriggerClaim(d) \in EventClaim
<1>1. visit[d] \in VisitState
  BY DEF PostMortemInv, PmTypeOK
<1>2. visit[d].letter \in EventLetter
  BY DEF PostMortemInv, FiringInv, At
<1>3. visit[d].event \in Event
  BY DEF PostMortemInv, FiringInv
<1> QED
  BY <1>1, <1>2, <1>3 DEF TriggerClaim, EventClaim, VisitState

\* Going on to the next statement keeps the request typed.
LEMMA GotoType ==
  ASSUME PostMortemInv, NEW d \in Deputy, NEW pc \in VisitPc, Goto(d, pc)
  PROVE  visit' \in [Deputy -> VisitState]
<1>1. visit \in [Deputy -> VisitState]
  BY DEF PostMortemInv, PmTypeOK
<1>2. [visit[d] EXCEPT !.pc = pc] \in VisitState
  BY <1>1 DEF VisitState
<1> QED
  BY <1>1, <1>2 DEF Goto

\* apply_recipient_change touches the row of the change and of its letter only.
LEMMA ApplyTypes ==
  ASSUME PostMortemInv, NEW c, ApplyRecipientChange(c)
  PROVE  /\ applied' \subseteq 1..lastChange
         /\ recipient' \in [EventLetter -> Address]
<1>1. CASE c \in Pending
  <2>1. c \in 1..lastChange /\ c \in Address
    BY <1>1 DEF PostMortemInv, PmTypeOK, Pending, Address
  <2> QED
    BY <1>1, <2>1 DEF PostMortemInv, PmTypeOK, ApplyRecipientChange
<1>2. CASE c \notin Pending
  BY <1>2 DEF PostMortemInv, PmTypeOK, ApplyRecipientChange
<1> QED
  BY <1>1, <1>2

\* Types are preserved by the steps of a co-steward's request.
LEMMA TypeOfVisits ==
  ASSUME PostMortemInv, NEW d \in Deputy,
         \/ Revoke(d) \/ VisitStep(d) \/ VisitFails(d)
         \/ \E l \in EventLetter : UpdateBegin(d, l) \/ TriggerBegin(d, l)
         \/ \E c \in Change : CancelChangeBegin(d, c)
  PROVE  PmTypeOK' /\ clock' \in Nat /\ lastEvent' \in 0..MaxReleases
<1> USE DEF PostMortemInv, PmTypeOK, dbVars, eventVars, changeVars
<1>1. CASE Revoke(d)
  BY <1>1 DEF Revoke
<1>2. ASSUME NEW l \in EventLetter, UpdateBegin(d, l)
      PROVE  PmTypeOK' /\ clock' \in Nat /\ lastEvent' \in 0..MaxReleases
  <2>1. [Visit("insert", l) EXCEPT !.effectiveAt = clock + Hold] \in VisitState
    BY VisitTypes DEF VisitState, VisitPc
  <2> QED
    BY <1>2, <2>1 DEF UpdateBegin
<1>3. ASSUME NEW l \in EventLetter, TriggerBegin(d, l)
      PROVE  PmTypeOK' /\ clock' \in Nat /\ lastEvent' \in 0..MaxReleases
  <2>1. Visit("fetchPending", l) \in VisitState
    BY VisitTypes DEF VisitPc
  <2> QED
    BY <1>3, <2>1 DEF TriggerBegin
<1>4. ASSUME NEW c \in Change, CancelChangeBegin(d, c)
      PROVE  PmTypeOK' /\ clock' \in Nat /\ lastEvent' \in 0..MaxReleases
  <2>1. c \in 1..lastChange /\ change[c].letter \in EventLetter
    BY <1>4 DEF CancelChangeBegin, HoldInv
  <2>2. [Visit("withdraw", change[c].letter) EXCEPT !.change = c] \in VisitState
    BY <2>1, VisitTypes DEF VisitState, VisitPc
  <2> QED
    BY <1>4, <2>2 DEF CancelChangeBegin
<1>5. CASE UpdateInsert(d)
  <2>1. [letter |-> visit[d].letter, effectiveAt |-> visit[d].effectiveAt]
          \in [letter: EventLetter \cup {NoLetter}, effectiveAt: Nat]
    BY DEF VisitState
  <2>2. lastChange' = lastChange + 1 /\ lastChange' \in 0..MaxChanges
    BY <1>5 DEF UpdateInsert
  <2>5. change' \in [Change -> [letter: EventLetter \cup {NoLetter}, effectiveAt: Nat]]
    BY <1>5, <2>1 DEF UpdateInsert
  <2>3. applied' \subseteq 1..lastChange' /\ withdrawn' \subseteq 1..lastChange'
    BY <1>5, <2>2 DEF UpdateInsert
  <2>4. visit' \in [Deputy -> VisitState]
    BY <1>5, VisitTypes DEF UpdateInsert, Leave
  <2> QED
    BY <1>5, <2>2, <2>5, <2>3, <2>4 DEF UpdateInsert
<1>6. CASE CancelChange(d)
  BY <1>6, VisitTypes DEF CancelChange, Leave, Pending
<1>7. CASE TriggerFetch(d)
  <2>1. visit' \in [Deputy -> VisitState]
    <3>1. CASE Goto(d, "mark")
      BY <3>1, GotoType DEF VisitPc
    <3>2. ASSUME NEW c \in DueChanges,
                 visit' = [visit EXCEPT ![d].pc = "apply", ![d].change = c]
          PROVE  visit' \in [Deputy -> VisitState]
      <4>1. c \in Change
        BY DEF DueChanges, Pending, Change
      <4>2. PICK u \in VisitState : u = visit[d]
        OBVIOUS
      <4>3. PICK t : t = [u EXCEPT !.pc = "apply", !.change = c]
        OBVIOUS
      <4>4. t \in VisitState
        BY <4>1, <4>3 DEF VisitState, VisitPc
      <4>5. visit' = [visit EXCEPT ![d] = t]
        BY <3>2, <4>2, <4>3
      <4> QED
        BY <4>4, <4>5
    <3> QED
      BY <1>7, <3>1, <3>2 DEF TriggerFetch
  <2> QED
    BY <1>7, <2>1 DEF TriggerFetch
<1>8. CASE TriggerApply(d)
  <2>1. visit' \in [Deputy -> VisitState]
    BY <1>8, GotoType DEF TriggerApply, VisitPc
  <2> QED
    BY <1>8, <2>1, ApplyTypes DEF TriggerApply
<1>9. CASE TriggerMark(d)
  <2>1. visit' \in [Deputy -> VisitState]
    BY <1>9, VisitTypes, GotoType DEF TriggerMark, Leave, VisitPc
  <2>2. visit[d].letter \in EventLetter
    BY <1>9 DEF TriggerMark, FiringInv, At
  <2> QED
    BY <1>9, <2>1, <2>2 DEF TriggerMark
<1>10. CASE TriggerFetchMeta(d)
  <2>1. visit[d].letter \in EventLetter
    BY <1>10 DEF TriggerFetchMeta, FiringInv, At
  <2>2. visit' \in [Deputy -> VisitState]
    <3>1. PICK u \in VisitState, a \in Address : u = visit[d] /\ a = recipient[visit[d].letter]
      BY <2>1
    <3>2. PICK t : t = [u EXCEPT !.pc = "createEvent", !.to = a]
      OBVIOUS
    <3>3. t \in VisitState
      BY <3>2 DEF VisitState, VisitPc
    <3>4. visit' = [visit EXCEPT ![d] = t]
      BY <1>10, <3>1, <3>2 DEF TriggerFetchMeta
    <3> QED
      BY <3>3, <3>4
  <2> QED
    BY <1>10, <2>2 DEF TriggerFetchMeta
<1>11. CASE TriggerCreateEvent(d)
  <2>1. NextEvent \in Event
    BY <1>11 DEF TriggerCreateEvent, NextEvent, Event
  <2>2. visit' \in [Deputy -> VisitState]
    <3>1. PICK u \in VisitState, e \in Event : u = visit[d] /\ e = NextEvent
      BY <2>1
    <3>2. PICK t : t = [u EXCEPT !.pc = "deliver", !.event = e]
      OBVIOUS
    <3>3. t \in VisitState
      BY <3>2 DEF VisitState, VisitPc
    <3>4. visit' = [visit EXCEPT ![d] = t]
      BY <1>11, <3>1, <3>2 DEF TriggerCreateEvent
    <3> QED
      BY <3>3, <3>4
  <2> QED
    BY <1>11, <2>1, <2>2 DEF TriggerCreateEvent, CreateReleaseEvent, NextEvent
<1>12. CASE TriggerDeliver(d)
  <2>1. visit' \in [Deputy -> VisitState]
    BY <1>12, GotoType DEF TriggerDeliver, VisitPc
  <2> QED
    BY <1>12, <2>1, TriggerClaimType DEF TriggerDeliver
<1>13. CASE TriggerMarkReleased(d)
  BY <1>13, VisitTypes DEF TriggerMarkReleased, MarkReleaseReleased, Leave
<1>14. CASE VisitFails(d)
  <2>1. eventClaims' \subseteq EventClaim
    BY <1>14, TriggerClaimType DEF VisitFails
  <2> QED
    BY <1>14, <2>1, VisitTypes DEF VisitFails, Leave
<1> QED
  BY <1>1, <1>2, <1>3, <1>4, <1>5, <1>6, <1>7, <1>8, <1>9, <1>10, <1>11, <1>12, <1>13, <1>14
     DEF VisitStep

\* Types are preserved by the appliers and by crashes.
LEMMA TypeOfAppliers ==
  ASSUME PostMortemInv,
         \/ \E n \in Applier : ApplierStep(n) \/ ApplierFails(n)
         \/ \E n \in Node : PmCrash(n) /\ UNCHANGED dbVars
  PROVE  PmTypeOK' /\ clock' \in Nat /\ lastEvent' \in 0..MaxReleases
<1> USE DEF PostMortemInv, PmTypeOK, dbVars, eventVars, changeVars
<1>1. ASSUME NEW n \in Applier, ApplierList(n)
      PROVE  PmTypeOK' /\ clock' \in Nat /\ lastEvent' \in 0..MaxReleases
  <2>1. DueChanges \subseteq Change
    BY DEF DueChanges, Pending, Change
  <2> QED
    BY <1>1, <2>1 DEF ApplierList
<1>2. ASSUME NEW n \in Applier, NEW c \in Change, ApplierApply(n, c)
      PROVE  PmTypeOK' /\ clock' \in Nat /\ lastEvent' \in 0..MaxReleases
  BY <1>2, ApplyTypes DEF ApplierApply
<1>3. ASSUME NEW n \in Applier, ApplierFails(n)
      PROVE  PmTypeOK' /\ clock' \in Nat /\ lastEvent' \in 0..MaxReleases
  BY <1>3 DEF ApplierFails
<1>4. ASSUME NEW n \in Node, PmCrash(n), UNCHANGED dbVars
      PROVE  PmTypeOK' /\ clock' \in Nat /\ lastEvent' \in 0..MaxReleases
  BY <1>4, VisitTypes DEF PmCrash
<1> QED
  BY <1>1, <1>2, <1>3, <1>4 DEF ApplierStep

-----------------------------------------------------------------------------
(* Holds and addresses.                                                    *)

\* A change due to the listing is ripe, and ripe changes stay so.
LEMMA DueIsRipe ==
  ASSUME PostMortemInv
  PROVE  \A c \in DueChanges : Ripe(c) /\ c \in Pending
BY DEF DueChanges, Pending, Ripe

\* The address and the marks of apply_recipient_change: a change that is not
\* pending leaves no trace, a ripe pending one gives its own letter its address.
LEMMA ApplyKeeps ==
  ASSUME PostMortemInv, NEW c, Ripe(c), ApplyRecipientChange(c),
         UNCHANGED <<clock, change, lastChange, withdrawn>>
  PROVE  /\ applied \subseteq applied'
         /\ applied' \cap withdrawn' = {}
         /\ \A a \in applied' : Ripe(a)'
         /\ \A l \in EventLetter : GivenTo(l, recipient[l])'
<1>1. /\ applied \subseteq 1..lastChange /\ recipient \in [EventLetter -> Address]
      /\ applied \cap withdrawn = {}
      /\ \A a \in applied : Ripe(a)
      /\ \A l \in EventLetter : GivenTo(l, recipient[l])
  BY DEF PostMortemInv, PmTypeOK, HoldInv, AddressInv
<1>2. CASE c \in Pending
  <2>1. /\ applied' = applied \cup {c}
        /\ recipient' = [recipient EXCEPT ![change[c].letter] = c]
    BY <1>2 DEF ApplyRecipientChange
  <2>2. c \notin withdrawn
    BY <1>2 DEF Pending
  <2>3. \A l \in EventLetter : GivenTo(l, recipient[l])'
    BY <1>1, <2>1 DEF GivenTo
  <2> QED
    BY <1>1, <2>1, <2>2, <2>3 DEF Ripe
<1>3. CASE c \notin Pending
  BY <1>1, <1>3 DEF ApplyRecipientChange, GivenTo, Ripe
<1> QED
  BY <1>2, <1>3

\* Holds and addresses survive every step of a co-steward's request.
LEMMA HoldOfVisits ==
  ASSUME PostMortemInv, PmTypeOK', NEW d \in Deputy,
         \/ Revoke(d) \/ VisitStep(d) \/ VisitFails(d)
         \/ \E l \in EventLetter : UpdateBegin(d, l) \/ TriggerBegin(d, l)
         \/ \E c \in Change : CancelChangeBegin(d, c)
  PROVE  HoldInv' /\ AddressInv'
<1> USE DEF PostMortemInv, PmTypeOK, HoldInv, AddressInv, GivenTo, Ripe, At, dbVars, changeVars
<1>1. CASE Revoke(d)
  BY <1>1 DEF Revoke
<1>2. ASSUME NEW l \in EventLetter, UpdateBegin(d, l) PROVE HoldInv' /\ AddressInv'
  BY <1>2 DEF UpdateBegin, Visit, IdleVisit
<1>3. ASSUME NEW l \in EventLetter, TriggerBegin(d, l) PROVE HoldInv' /\ AddressInv'
  BY <1>3 DEF TriggerBegin, Visit, IdleVisit
<1>4. ASSUME NEW c \in Change, CancelChangeBegin(d, c) PROVE HoldInv' /\ AddressInv'
  BY <1>4 DEF CancelChangeBegin, Visit, IdleVisit
<1>5. CASE UpdateInsert(d)
  <2>1. \A c \in 1..lastChange : c \in 1..lastChange' /\ change'[c] = change[c]
    BY <1>5 DEF UpdateInsert, Change
  <2>2. change'[lastChange'].letter \in EventLetter
    BY <1>5 DEF UpdateInsert, FiringInv, Change
  <2>3. \A b \in Deputy : visit'[b] = visit[b] \/ visit'[b].pc = "idle"
    BY <1>5 DEF UpdateInsert, Leave, IdleVisit
  <2>4. /\ UNCHANGED <<clock, recipient, applied, withdrawn, applier, eventClaims>>
        /\ lastChange' = lastChange + 1
    BY <1>5 DEF UpdateInsert
  <2>5. \A c : Ripe(c) => Ripe(c)'
    BY <2>1, <2>4
  <2>6. \A l, to : GivenTo(l, to) => GivenTo(l, to)'
    BY <2>1, <2>4
  <2>7. \A c \in 1..lastChange' : c \in 1..lastChange \/ c = lastChange'
    BY <2>4
  <2> HIDE DEF Ripe, GivenTo
  <2>8. HoldInv'
    BY <2>1, <2>2, <2>3, <2>4, <2>5, <2>7
  <2>9. AddressInv'
    BY <2>3, <2>4, <2>6
  <2> QED
    BY <2>8, <2>9
<1>6. CASE CancelChange(d)
  BY <1>6 DEF CancelChange, Leave, IdleVisit, Pending
<1>7. CASE TriggerFetch(d)
  <2>1. \A b \in Deputy \ {d} : visit'[b] = visit[b]
    BY <1>7 DEF TriggerFetch, Goto
  <2>2. \/ visit'[d].pc = "mark"
        \/ visit'[d].pc = "apply" /\ visit'[d].change \in DueChanges
    BY <1>7 DEF TriggerFetch, Goto, VisitState
  <2> QED
    BY <1>7, <2>1, <2>2, DueIsRipe DEF TriggerFetch
<1>8. CASE TriggerApply(d)
  <2>1. Ripe(visit[d].change)
    BY <1>8 DEF TriggerApply
  <2>2. /\ applied \subseteq applied'
        /\ applied' \cap withdrawn' = {}
        /\ \A a \in applied' : Ripe(a)'
        /\ \A l \in EventLetter : GivenTo(l, recipient[l])'
    BY <1>8, <2>1, ApplyKeeps DEF TriggerApply
  <2>3. \A b \in Deputy : visit'[b] = visit[b] \/ visit'[b].pc = "mark"
    BY <1>8 DEF TriggerApply, Goto, VisitState
  <2>4. UNCHANGED <<clock, change, lastChange, withdrawn, applier, eventClaims>>
    BY <1>8 DEF TriggerApply
  <2>5. /\ \A c : Ripe(c) => Ripe(c)'
        /\ \A l, to : GivenTo(l, to) => GivenTo(l, to)'
    BY <2>2, <2>4
  <2> HIDE DEF Ripe, GivenTo
  <2>6. HoldInv'
    BY <2>2, <2>3, <2>4, <2>5
  <2>7. AddressInv'
    BY <2>2, <2>3, <2>4, <2>5
  <2> QED
    BY <2>6, <2>7
<1>9. CASE TriggerMark(d)
  <2>1. \A b \in Deputy : visit'[b] = visit[b] \/ visit'[b].pc \in {"idle", "fetchMeta"}
    BY <1>9 DEF TriggerMark, Goto, Leave, IdleVisit, VisitState
  <2> QED
    BY <1>9, <2>1 DEF TriggerMark
<1>10. CASE TriggerFetchMeta(d)
  <2>1. visit[d].letter \in EventLetter
    BY <1>10 DEF TriggerFetchMeta, FiringInv
  <2>2. \A b \in Deputy \ {d} : visit'[b] = visit[b]
    BY <1>10 DEF TriggerFetchMeta
  <2>3. /\ visit'[d].pc = "createEvent" /\ visit'[d].letter = visit[d].letter
        /\ visit'[d].to = recipient[visit[d].letter]
    BY <1>10 DEF TriggerFetchMeta, VisitState
  <2>4. UNCHANGED <<clock, recipient, changeVars, applier, eventClaims>>
    BY <1>10 DEF TriggerFetchMeta
  <2>5. HoldInv'
    BY <2>2, <2>3, <2>4
  <2>6. AddressInv'
    <3>1. GivenTo(visit[d].letter, recipient[visit[d].letter])
      BY <2>1
    <3> QED
      BY <2>2, <2>3, <2>4, <3>1
  <2> QED
    BY <2>5, <2>6
<1>11. CASE TriggerCreateEvent(d)
  <2>1. \A b \in Deputy : \/ visit'[b] = visit[b]
                          \/ /\ b = d /\ visit[b].pc = "createEvent" /\ visit'[b].pc = "deliver"
                             /\ visit'[b].letter = visit[b].letter /\ visit'[b].to = visit[b].to
    BY <1>11 DEF TriggerCreateEvent, VisitState
  <2>2. UNCHANGED <<clock, recipient, changeVars, applier, eventClaims>>
    BY <1>11 DEF TriggerCreateEvent
  <2>3. HoldInv'
    BY <2>1, <2>2
  <2>4. AddressInv'
    BY <2>1, <2>2
  <2> QED
    BY <2>3, <2>4
<1>12. CASE TriggerDeliver(d)
  <2>1. \A b \in Deputy : visit'[b] = visit[b] \/ visit'[b].pc = "markReleased"
    BY <1>12 DEF TriggerDeliver, Goto, VisitState
  <2>2. GivenTo(visit[d].letter, visit[d].to)
    BY <1>12 DEF TriggerDeliver
  <2> QED
    BY <1>12, <2>1, <2>2 DEF TriggerDeliver, TriggerClaim
<1>13. CASE TriggerMarkReleased(d)
  BY <1>13 DEF TriggerMarkReleased, Leave, IdleVisit
<1>14. CASE VisitFails(d)
  <2>1. \A b \in Deputy : visit'[b] = visit[b] \/ visit'[b].pc = "idle"
    BY <1>14 DEF VisitFails, Leave, IdleVisit
  <2>2. \A k \in eventClaims' : \/ k \in eventClaims
                                \/ k = TriggerClaim(d) /\ At(d, "deliver")
    BY <1>14 DEF VisitFails
  <2>3. \A k \in eventClaims' : GivenTo(k.letter, k.to)
    BY <2>2 DEF TriggerClaim
  <2>4. UNCHANGED <<clock, recipient, changeVars, applier>>
    BY <1>14 DEF VisitFails
  <2>5. HoldInv'
    BY <2>1, <2>4
  <2>6. AddressInv'
    BY <2>1, <2>3, <2>4
  <2> QED
    BY <2>5, <2>6
<1> QED
  BY <1>1, <1>2, <1>3, <1>4, <1>5, <1>6, <1>7, <1>8, <1>9, <1>10, <1>11, <1>12, <1>13, <1>14
     DEF VisitStep

\* Holds and addresses survive the appliers and crashes.
LEMMA HoldOfAppliers ==
  ASSUME PostMortemInv,
         \/ \E n \in Applier : ApplierStep(n) \/ ApplierFails(n)
         \/ \E n \in Node : PmCrash(n) /\ UNCHANGED dbVars
  PROVE  HoldInv' /\ AddressInv'
<1> USE DEF PostMortemInv, PmTypeOK, HoldInv, AddressInv, GivenTo, Ripe, At, dbVars, changeVars
<1>1. ASSUME NEW n \in Applier, ApplierList(n) PROVE HoldInv' /\ AddressInv'
  <2>1. \A m \in Applier : applier'[m] = applier[m] \/ applier'[m] = DueChanges
    BY <1>1 DEF ApplierList
  <2>2. \A m \in Applier : \A c \in applier'[m] : Ripe(c)
    BY <2>1, DueIsRipe
  <2> QED
    BY <1>1, <2>2 DEF ApplierList
<1>2. ASSUME NEW n \in Applier, NEW c \in Change, ApplierApply(n, c)
      PROVE  HoldInv' /\ AddressInv'
  <2>1. Ripe(c)
    BY <1>2 DEF ApplierApply
  <2>2. UNCHANGED <<clock, change, lastChange, withdrawn, visit, eventClaims>>
    BY <1>2 DEF ApplierApply
  <2>3. /\ applied \subseteq applied'
        /\ applied' \cap withdrawn' = {}
        /\ \A a \in applied' : Ripe(a)'
        /\ \A l \in EventLetter : GivenTo(l, recipient[l])'
    BY <1>2, <2>1, <2>2, ApplyKeeps DEF ApplierApply
  <2>4. \A m \in Applier : applier'[m] \subseteq applier[m]
    BY <1>2 DEF ApplierApply
  <2>5. /\ \A a : Ripe(a) => Ripe(a)'
        /\ \A l, to : GivenTo(l, to) => GivenTo(l, to)'
    BY <2>2, <2>3
  <2> HIDE DEF Ripe, GivenTo
  <2>6. HoldInv'
    BY <2>2, <2>3, <2>4, <2>5
  <2>7. AddressInv'
    BY <2>2, <2>3, <2>5
  <2> QED
    BY <2>6, <2>7
<1>3. ASSUME NEW n \in Applier, ApplierFails(n) PROVE HoldInv' /\ AddressInv'
  BY <1>3 DEF ApplierFails
<1>4. ASSUME NEW n \in Node, PmCrash(n), UNCHANGED dbVars PROVE HoldInv' /\ AddressInv'
  <2>1. /\ \A b \in Deputy : visit'[b] = visit[b] \/ visit'[b].pc = "idle"
        /\ \A m \in Applier : applier'[m] \subseteq applier[m]
    BY <1>4 DEF PmCrash, IdleVisit
  <2> QED
    BY <1>4, <2>1 DEF PmCrash
<1> QED
  BY <1>1, <1>2, <1>3, <1>4 DEF ApplierStep

-----------------------------------------------------------------------------
(* Firing.                                                                 *)

\* A step that leaves marks and claims alone and lets nobody start to fire keeps
\* every letter's firing unique.
LEMMA FiringKeeps ==
  ASSUME PostMortemInv, UNCHANGED <<eventReleased, eventClaims>>,
         \A b \in Deputy :
           \/ visit'[b] = visit[b]
           \/ visit'[b].pc = "idle"
           \/ visit'[b].letter \in EventLetter /\ visit'[b].pc \notin Firing
           \/ /\ visit[b].pc \in Firing /\ visit'[b].letter = visit[b].letter
              /\ visit'[b].pc # "idle"
              /\ visit'[b].pc = "deliver" => visit'[b].event \in Event
  PROVE  FiringInv' /\ EventFiresOnce'
<1> USE DEF PostMortemInv, FiringInv, EventFiresOnce, At, Firing
<1>1. \A b \in Deputy : visit'[b].pc \in Firing =>
        visit[b].pc \in Firing /\ visit'[b].letter = visit[b].letter
  OBVIOUS
<1>2. \A b \in Deputy : ~At(b, "idle")' => visit'[b].letter \in EventLetter
  OBVIOUS
<1>3. \A b \in Deputy : At(b, "deliver")' => visit'[b].event \in Event
  OBVIOUS
<1>4. EventFiresOnce'
  OBVIOUS
<1>5. FiringInv'
  BY <1>1, <1>2, <1>3 DEF Event
<1> QED
  BY <1>4, <1>5

\* Every letter's firing stays unique over the steps of a co-steward's request.
LEMMA FiringOfVisits ==
  ASSUME PostMortemInv, NEW d \in Deputy,
         \/ Revoke(d) \/ VisitStep(d) \/ VisitFails(d)
         \/ \E l \in EventLetter : UpdateBegin(d, l) \/ TriggerBegin(d, l)
         \/ \E c \in Change : CancelChangeBegin(d, c)
  PROVE  FiringInv' /\ EventFiresOnce'
<1> DEFINE Keeps(b) ==
             \/ visit'[b] = visit[b]
             \/ visit'[b].pc = "idle"
             \/ visit'[b].letter \in EventLetter /\ visit'[b].pc \notin Firing
             \/ /\ visit[b].pc \in Firing /\ visit'[b].letter = visit[b].letter
                /\ visit'[b].pc # "idle"
                /\ visit'[b].pc = "deliver" => visit'[b].event \in Event
<1>0. visit \in [Deputy -> VisitState]
  BY DEF PostMortemInv, PmTypeOK
<1> USE DEF At, Firing
<1>1. CASE Revoke(d) \/ UpdateInsert(d) \/ CancelChange(d) \/ TriggerMarkReleased(d)
  BY <1>0, <1>1, FiringKeeps
     DEF Revoke, UpdateInsert, CancelChange, TriggerMarkReleased, Leave, IdleVisit
<1>2. ASSUME NEW l \in EventLetter, UpdateBegin(d, l) \/ TriggerBegin(d, l)
      PROVE  FiringInv' /\ EventFiresOnce'
  <2>1. PICK v : /\ v.letter = l /\ v.pc \in {"insert", "fetchPending"}
                 /\ visit' = [visit EXCEPT ![d] = v]
                 /\ UNCHANGED <<eventReleased, eventClaims>>
    <3>1. CASE UpdateBegin(d, l)
      BY <3>1 DEF UpdateBegin, Visit, IdleVisit
    <3>2. CASE TriggerBegin(d, l)
      BY <3>2 DEF TriggerBegin, Visit, IdleVisit
    <3> QED
      BY <1>2, <3>1, <3>2
  <2>2. visit'[d] = v /\ \A b \in Deputy : b # d => visit'[b] = visit[b]
    BY <1>0, <2>1
  <2> QED
    BY <2>1, <2>2, FiringKeeps
<1>3. ASSUME NEW c \in Change, CancelChangeBegin(d, c)
      PROVE  FiringInv' /\ EventFiresOnce'
  BY <1>0, <1>3, FiringKeeps
     DEF CancelChangeBegin, Visit, IdleVisit, PostMortemInv, HoldInv
<1>4. CASE TriggerFetch(d) \/ TriggerApply(d)
  <2>1. visit[d].letter \in EventLetter
    BY <1>4 DEF TriggerFetch, TriggerApply, PostMortemInv, FiringInv
  <2>2. PICK u \in VisitState : u = visit[d]
    BY <1>0
  <2>3. PICK v : /\ v.letter = u.letter /\ v.pc \in {"apply", "mark"}
                 /\ visit' = [visit EXCEPT ![d] = v]
                 /\ UNCHANGED <<eventReleased, eventClaims>>
    <3>1. CASE Goto(d, "mark") /\ UNCHANGED <<eventReleased, eventClaims>>
      <4>1. PICK v : v = [u EXCEPT !.pc = "mark"]
        OBVIOUS
      <4>2. v.letter = u.letter /\ v.pc = "mark"
        BY <4>1 DEF VisitState
      <4>3. visit' = [visit EXCEPT ![d] = v]
        BY <2>2, <3>1, <4>1 DEF Goto
      <4> QED
        BY <3>1, <4>2, <4>3
    <3>2. ASSUME NEW c, visit' = [visit EXCEPT ![d].pc = "apply", ![d].change = c],
                 UNCHANGED <<eventReleased, eventClaims>>
          PROVE  \E v : /\ v.letter = u.letter /\ v.pc \in {"apply", "mark"}
                        /\ visit' = [visit EXCEPT ![d] = v]
                        /\ UNCHANGED <<eventReleased, eventClaims>>
      <4>1. PICK v : v = [u EXCEPT !.pc = "apply", !.change = c]
        OBVIOUS
      <4>2. v.letter = u.letter /\ v.pc = "apply"
        BY <4>1 DEF VisitState
      <4>3. visit' = [visit EXCEPT ![d] = v]
        BY <2>2, <3>2, <4>1
      <4> QED
        BY <3>2, <4>2, <4>3
    <3>3. CASE TriggerFetch(d)
      <4>1. CASE Goto(d, "mark")
        BY <3>1, <3>3, <4>1 DEF TriggerFetch
      <4>2. ASSUME NEW c \in DueChanges, visit' = [visit EXCEPT ![d].pc = "apply", ![d].change = c]
            PROVE  \E v : /\ v.letter = u.letter /\ v.pc \in {"apply", "mark"}
                          /\ visit' = [visit EXCEPT ![d] = v]
                          /\ UNCHANGED <<eventReleased, eventClaims>>
        <5>1. UNCHANGED <<eventReleased, eventClaims>>
          BY <3>3 DEF TriggerFetch
        <5> QED
          BY <3>2, <4>2, <5>1
      <4> QED
        BY <3>3, <4>1, <4>2 DEF TriggerFetch
    <3>4. CASE TriggerApply(d)
      <4>1. Goto(d, "mark") /\ UNCHANGED <<eventReleased, eventClaims>>
        BY <3>4 DEF TriggerApply
      <4> QED
        BY <3>1, <4>1
    <3> QED
      BY <1>4, <3>3, <3>4
  <2>4. visit'[d] = v /\ \A b \in Deputy : b # d => visit'[b] = visit[b]
    BY <1>0, <2>3
  <2> QED
    BY <2>1, <2>2, <2>3, <2>4, FiringKeeps
<1>5. CASE TriggerFetchMeta(d) \/ TriggerCreateEvent(d)
  <2>1. PICK u \in VisitState : u = visit[d]
    BY <1>0
  <2>2. PICK v : /\ v.letter = u.letter /\ v.pc \in {"createEvent", "deliver"}
                 /\ v.pc = "deliver" => v.event \in Event
                 /\ visit' = [visit EXCEPT ![d] = v]
    <3>1. CASE TriggerFetchMeta(d)
      <4>1. PICK v : v = [u EXCEPT !.pc = "createEvent", !.to = recipient[visit[d].letter]]
        OBVIOUS
      <4>2. v.letter = u.letter /\ v.pc = "createEvent"
        BY <4>1 DEF VisitState
      <4>3. visit' = [visit EXCEPT ![d] = v]
        BY <2>1, <3>1, <4>1 DEF TriggerFetchMeta
      <4> QED
        BY <4>2, <4>3
    <3>2. CASE TriggerCreateEvent(d)
      <4>1. PICK v : v = [u EXCEPT !.pc = "deliver", !.event = NextEvent]
        OBVIOUS
      <4>2. v.letter = u.letter /\ v.pc = "deliver" /\ v.event = NextEvent
        BY <4>1 DEF VisitState
      <4>3. visit' = [visit EXCEPT ![d] = v] /\ lastEvent < MaxReleases
        BY <2>1, <3>2, <4>1 DEF TriggerCreateEvent
      <4>4. NextEvent \in Event
        BY <4>3 DEF NextEvent, Event, PostMortemInv
      <4> QED
        BY <4>2, <4>3, <4>4
    <3> QED
      BY <1>5, <3>1, <3>2
  <2>3. visit'[d] = v /\ \A b \in Deputy : b # d => visit'[b] = visit[b]
    BY <1>0, <2>2
  <2>4. visit[d].pc \in Firing /\ UNCHANGED <<eventReleased, eventClaims>>
    BY <1>5 DEF TriggerFetchMeta, TriggerCreateEvent
  <2> QED
    BY <2>1, <2>2, <2>3, <2>4, FiringKeeps
<1>6. CASE TriggerMark(d)
  <2>1. CASE Leave(d) /\ UNCHANGED eventReleased
    BY <1>0, <1>6, <2>1, FiringKeeps DEF TriggerMark, Leave, IdleVisit
  <2>2. CASE /\ visit[d].letter \notin eventReleased /\ Goto(d, "fetchMeta")
             /\ eventReleased' = eventReleased \cup {visit[d].letter}
    <3>1. /\ visit'[d].pc = "fetchMeta" /\ visit'[d].letter = visit[d].letter
          /\ \A b \in Deputy \ {d} : visit'[b] = visit[b]
      BY <1>0, <2>2 DEF Goto, VisitState
    <3>2. eventClaims' = eventClaims /\ visit[d].letter \in EventLetter
      BY <1>6 DEF TriggerMark, PostMortemInv, FiringInv
    <3> QED
      BY <2>2, <3>1, <3>2 DEF PostMortemInv, FiringInv, EventFiresOnce, Event
  <2> QED
    BY <1>6, <2>1, <2>2 DEF TriggerMark
<1>7. CASE TriggerDeliver(d) \/ VisitFails(d)
  <2>1. /\ \A b \in Deputy \ {d} : visit'[b] = visit[b]
        /\ visit'[d].pc \in {"markReleased", "idle"} /\ eventReleased' = eventReleased
        /\ visit'[d].pc # "idle" => visit'[d].letter = visit[d].letter /\ At(d, "deliver")
    BY <1>0, <1>7 DEF TriggerDeliver, VisitFails, Goto, Leave, IdleVisit, VisitState
  <2>2. CASE UNCHANGED eventClaims
    <3>1. visit'[d].pc # "idle" => visit'[d].letter \in EventLetter
      BY <2>1 DEF PostMortemInv, FiringInv
    <3> QED
      BY <2>1, <2>2, <3>1, FiringKeeps
  <2>3. CASE At(d, "deliver") /\ eventClaims' = eventClaims \cup {TriggerClaim(d)}
    <3>1. TriggerClaim(d).letter = visit[d].letter
      BY DEF TriggerClaim
    <3> QED
      BY <2>1, <2>3, <3>1 DEF PostMortemInv, FiringInv, EventFiresOnce, Event
  <2> QED
    BY <1>7, <2>2, <2>3 DEF TriggerDeliver, VisitFails
<1> QED
  BY <1>1, <1>2, <1>3, <1>4, <1>5, <1>6, <1>7 DEF VisitStep

\* Appliers and crashes fire nothing.
LEMMA FiringOfAppliers ==
  ASSUME PostMortemInv,
         \/ \E n \in Applier : ApplierStep(n) \/ ApplierFails(n)
         \/ \E n \in Node : PmCrash(n)
  PROVE  FiringInv' /\ EventFiresOnce'
<1>1. UNCHANGED <<eventReleased, eventClaims>>
  BY DEF ApplierStep, ApplierList, ApplierApply, ApplierFails, PmCrash
<1>2. \A b \in Deputy : visit'[b] = visit[b] \/ visit'[b].pc = "idle"
  BY DEF ApplierStep, ApplierList, ApplierApply, ApplierFails, PmCrash, IdleVisit
<1> QED
  BY <1>1, <1>2, FiringKeeps

-----------------------------------------------------------------------------
(* No letter is lost without a fault.                                      *)

\* A deputy's step, none of them a fault, never drops the letter in its hands.
LEMMA VisitNotLost ==
  ASSUME PostMortemInv, EventLetterNotLost, UNCHANGED faults, NEW d \in Deputy,
         \/ Revoke(d) \/ VisitStep(d)
         \/ \E l \in EventLetter : UpdateBegin(d, l) \/ TriggerBegin(d, l)
         \/ \E c \in Change : CancelChangeBegin(d, c)
  PROVE  EventLetterNotLost'
<1>1. visit \in [Deputy -> VisitState]
  BY DEF PostMortemInv, PmTypeOK
<1> USE DEF EventLetterNotLost, At, Firing
<1>2. ASSUME UNCHANGED <<eventReleased, eventClaims>>,
             \A b \in Deputy : visit[b].pc \in Firing =>
               visit'[b].pc \in Firing /\ visit'[b].letter = visit[b].letter
      PROVE  EventLetterNotLost'
  BY <1>2
<1>3. CASE Revoke(d)
  BY <1>2, <1>3 DEF Revoke
<1>4. CASE UpdateInsert(d) \/ CancelChange(d) \/ TriggerMarkReleased(d)
  <2>1. /\ UNCHANGED <<eventReleased, eventClaims>> /\ visit[d].pc \notin Firing
        /\ visit' = [visit EXCEPT ![d] = IdleVisit]
    BY <1>4 DEF UpdateInsert, CancelChange, TriggerMarkReleased, Leave
  <2> QED
    BY <1>1, <1>2, <2>1
<1>5. ASSUME \/ \E l \in EventLetter : UpdateBegin(d, l) \/ TriggerBegin(d, l)
             \/ \E c \in Change : CancelChangeBegin(d, c)
      PROVE  EventLetterNotLost'
  <2>1. /\ UNCHANGED <<eventReleased, eventClaims>> /\ visit[d].pc \notin Firing
        /\ \A b \in Deputy : b # d => visit'[b] = visit[b]
    BY <1>1, <1>5 DEF UpdateBegin, TriggerBegin, CancelChangeBegin
  <2> QED
    BY <1>2, <2>1
<1>6. CASE TriggerFetch(d) \/ TriggerApply(d)
  <2>1. /\ UNCHANGED <<eventReleased, eventClaims>> /\ visit[d].pc \notin Firing
        /\ \A b \in Deputy : b # d => visit'[b] = visit[b]
    BY <1>1, <1>6 DEF TriggerFetch, TriggerApply, Goto
  <2> QED
    BY <1>2, <2>1
<1>7. CASE TriggerFetchMeta(d) \/ TriggerCreateEvent(d)
  <2>1. /\ UNCHANGED <<eventReleased, eventClaims>>
        /\ visit'[d].pc \in Firing /\ visit'[d].letter = visit[d].letter
        /\ \A b \in Deputy : b # d => visit'[b] = visit[b]
    <3>1. visit[d] \in VisitState
      BY <1>1
    <3>2. CASE TriggerFetchMeta(d)
      BY <1>1, <3>1, <3>2 DEF TriggerFetchMeta, VisitState
    <3>3. CASE TriggerCreateEvent(d)
      BY <1>1, <3>1, <3>3 DEF TriggerCreateEvent, VisitState
    <3> QED
      BY <1>7, <3>2, <3>3
  <2> QED
    BY <1>2, <2>1
<1>8. CASE TriggerMark(d)
  <2>1. CASE UNCHANGED eventReleased /\ Leave(d)
    BY <1>1, <1>2, <1>8, <2>1 DEF TriggerMark, Leave
  <2>2. CASE /\ eventReleased' = eventReleased \cup {visit[d].letter}
             /\ Goto(d, "fetchMeta")
    <3>1. /\ visit[d].pc \notin Firing /\ eventClaims' = eventClaims
          /\ visit'[d].pc = "fetchMeta" /\ visit'[d].letter = visit[d].letter
          /\ \A b \in Deputy : b # d => visit'[b] = visit[b]
      BY <1>1, <1>8, <2>2 DEF TriggerMark, Goto, VisitState
    <3> QED
      BY <2>2, <3>1
  <2> QED
    BY <1>8, <2>1, <2>2 DEF TriggerMark
<1>9. CASE TriggerDeliver(d)
  <2>1. /\ eventReleased' = eventReleased
        /\ eventClaims' = eventClaims \cup {TriggerClaim(d)}
        /\ \A b \in Deputy : b # d => visit'[b] = visit[b]
    BY <1>1, <1>9 DEF TriggerDeliver, Goto
  <2>2. TriggerClaim(d).letter = visit[d].letter
    BY DEF TriggerClaim
  <2> QED
    BY <2>1, <2>2
<1> QED
  BY <1>3, <1>4, <1>5, <1>6, <1>7, <1>8, <1>9 DEF VisitStep

\* No step without a fault loses a letter; the appliers touch none.
LEMMA NotLostStep ==
  ASSUME PostMortemInv, EventLetterNotLost, faults \in Nat, [HeldNext]_heldVars
  PROVE  EventLetterNotLost'
<1>1. ASSUME faults' = 0 => faults = 0, UNCHANGED <<eventReleased, eventClaims, visit>>
      PROVE  EventLetterNotLost'
  BY <1>1 DEF EventLetterNotLost
<1>2. CASE Running /\ UNCHANGED <<schedVars, pmVars>>
  BY <1>1, <1>2, FaultsGrow DEF Next, pmVars
<1>3. ASSUME NEW n \in Scheduler, SchedStep(n) \/ SchedFails(n), UNCHANGED pmVars
      PROVE  EventLetterNotLost'
  <2>1. faults' = faults \/ faults' = faults + 1
    BY <1>3 DEF SchedStep, SchedFails, SchedList, SchedSkips, SchedTakes, SchedRefused, SchedBegin,
       SchedWins, SchedConflict, SchedCreate, SchedClear, Fault, vars, pipeVars
  <2> QED
    BY <1>1, <1>3, <2>1 DEF pmVars
<1>4. CASE PmNext /\ UNCHANGED <<pipeVars, schedVars>>
  <2>1. ASSUME NEW n \in Applier, ApplierStep(n) PROVE EventLetterNotLost'
    BY <1>1, <1>4, <2>1 DEF ApplierStep, ApplierList, ApplierApply, pipeVars
  <2>2. UNCHANGED faults
    BY <1>4 DEF pipeVars
  <2> QED
    BY <1>4, <2>1, <2>2, VisitNotLost DEF PmNext
<1>5. ASSUME \E kind : Fault(kind) PROVE EventLetterNotLost'
  BY <1>5 DEF Fault, EventLetterNotLost
<1>6. CASE UNCHANGED heldVars
  BY <1>1, <1>6 DEF heldVars, vars, pmVars
<1>7. CASE ExpireSubscription /\ UNCHANGED pmVars
  BY <1>1, <1>7 DEF ExpireSubscription, vars, pmVars
<1> QED
  BY <1>2, <1>3, <1>4, <1>5, <1>6, <1>7 DEF HeldNext, PmFails, HeldCrash, Crash

-----------------------------------------------------------------------------
(* The scheduler and the deputies as guests of the pipeline.               *)

\* A new event and its timer, if it has one, are what a guest may add.
LEMMA InsertIsGuest ==
  ASSUME CoreInv, NEW drill \in BOOLEAN, NEW endsAt \in Nat, lastEvent < MaxReleases,
         CreateReleaseEvent(drill, endsAt),
         UNCHANGED <<clock, vaultState, window, req, due, claims, faults>>,
         \/ UNCHANGED <<timer, job>>
         \/ \E n \in Node :
              /\ timer' = [timer EXCEPT ![NextEvent] = [node |-> n, wake |-> WakeTime(drill)]]
              /\ job' = [job EXCEPT ![NextEvent] = Job("sleeping", NextEvent, 0, {})]
              /\ endsAt <= WakeTime(drill)
  PROVE  Guest
<1>1. /\ TypeOK /\ clock \in Nat /\ lastEvent \in 0..MaxReleases
      /\ event \in [Event -> EventRow]
      /\ timer \in [Event -> TimerState] /\ job \in [Worker -> JobState]
      /\ released \subseteq Created /\ cancelled \subseteq Created
  BY DEF CoreInv, TypeOK, DbTypeOK
<1>2. NextEvent \in Event /\ NextEvent \notin Created
  BY <1>1 DEF NextEvent, Event, Created
<1>3. /\ event' \in [Event -> EventRow] /\ lastEvent' \in 0..MaxReleases
      /\ \A e \in Created : e \in Created' /\ event'[e] = event[e]
      /\ released' \subseteq Created' /\ cancelled' \subseteq Created'
      /\ NextEvent \in Created' /\ event'[NextEvent].deadline = endsAt
  BY <1>1, <1>2 DEF CreateReleaseEvent, NextEvent, Created, Event, EventRow
<1>4. /\ faults' \in 0..MaxFaults /\ vaultState' \in VaultState /\ window' \in 0..MaxReleases
      /\ window <= window'
  BY DEF CoreInv, TypeOK, DbTypeOK
<1>5. CASE UNCHANGED <<timer, job>>
  BY <1>1, <1>3, <1>4, <1>5 DEF Guest, IsPerforming
<1>6. ASSUME NEW n \in Node,
             timer' = [timer EXCEPT ![NextEvent] = [node |-> n, wake |-> WakeTime(drill)]],
             job' = [job EXCEPT ![NextEvent] = Job("sleeping", NextEvent, 0, {})],
             endsAt <= WakeTime(drill)
      PROVE  Guest
  <2>1. WakeTime(drill) \in Nat
    BY <1>1, PipelineAssumption DEF WakeTime, CoolOf
  <2>2. timer' \in [Event -> TimerState] /\ timer'[NextEvent].wake = WakeTime(drill)
    BY <1>1, <1>2, <1>6, <2>1 DEF TimerState
  <2>3. Job("sleeping", NextEvent, 0, {}) \in JobState
    BY <1>2 DEF Job, JobState, JobPc
  <2>4. /\ job' \in [Worker -> JobState] /\ job'[NextEvent].pc = "sleeping"
        /\ \A w \in Worker : w # NextEvent => job'[w] = job[w]
    BY <1>1, <1>2, <1>6, <2>3 DEF Worker, Job
  <2>5. \A w \in Worker : IsPerforming(w)' => job'[w] = job[w]
    BY <2>4 DEF IsPerforming, Performing
  <2>6. \A e \in Event : job'[e].pc = "sleeping" =>
          \/ job[e].pc = "sleeping" /\ timer'[e] = timer[e]
          \/ e \in Created' /\ event'[e].deadline <= timer'[e].wake
    BY <1>1, <1>3, <1>6, <2>2, <2>4 DEF Worker
  <2> QED
    BY <1>3, <1>4, <2>2, <2>4, <2>5, <2>6 DEF Guest
<1> QED
  BY <1>5, <1>6

\* So is a step that leaves the pipeline alone, but for a fault.
LEMMA StillIsGuest ==
  ASSUME CoreInv, UNCHANGED <<dbVars, req, timer, due, job, claims>>,
         faults' = faults \/ \E kind : Fault(kind)
  PROVE  Guest
<1>1. faults' \in 0..MaxFaults
  BY PipelineAssumption DEF CoreInv, TypeOK, Fault
<1> QED
  BY <1>1 DEF CoreInv, TypeOK, DbTypeOK, Guest, dbVars, IsPerforming, Created

\* A deadline that suits the sleep of a timer started now suits a later one.
LEMMA WakeTimeGrows ==
  ASSUME clock \in Nat, clock' \in Nat, clock <= clock', clock' <= MaxClock,
         NEW drill \in BOOLEAN
  PROVE  /\ WakeTime(drill) \in Nat /\ WakeTime(drill)' \in Nat
         /\ WakeTime(drill) <= WakeTime(drill)'
<1>1. PICK cool : cool = CoolOf(drill) /\ cool \in Nat
  BY PipelineAssumption DEF CoolOf
<1>2. /\ WakeTime(drill) = IF clock + cool <= MaxClock THEN clock + cool ELSE MaxClock
      /\ WakeTime(drill)' = IF clock' + cool <= MaxClock THEN clock' + cool ELSE MaxClock
  BY <1>1 DEF WakeTime, CoolOf
<1> QED
  BY <1>1, <1>2

\* A tick of the scheduled-release loop is a guest and keeps its own invariant.
LEMMA SchedulerKeeps ==
  ASSUME CoreInv, SchedInv, NEW n \in Scheduler, SchedStep(n) \/ SchedFails(n)
  PROVE  Guest /\ SchedInv' /\ (vaultState' = "RELEASED" => vaultState = "RELEASED")
<1>1. /\ clock \in Nat /\ clock <= MaxClock /\ lastEvent \in 0..MaxReleases
      /\ window \in 0..MaxReleases
      /\ sched \in [Scheduler -> SchedState] /\ date \in [Dated -> Nat]
      /\ subscription' \in SubscriptionState
  <2>1. subscription' = subscription
    BY DEF SchedStep, SchedFails, SchedList, SchedSkips, SchedTakes, SchedRefused, SchedBegin, SchedWins,
       SchedConflict, SchedCreate, SchedClear
  <2> QED
    BY <2>1 DEF CoreInv, TypeOK, DbTypeOK, DueInv, SchedInv, SchedTypeOK
<1>2. ASSUME NEW s \in SchedState,
             s.pc \in {"claim", "create"} => s.endsAt <= WakeTime(FALSE),
             sched' = [sched EXCEPT ![n] = s], clock' = clock, date' \in [Dated -> Nat]
      PROVE  SchedInv'
  <2>1. WakeTime(FALSE)' = WakeTime(FALSE)
    BY <1>2 DEF WakeTime, CoolOf
  <2> QED
    BY <1>1, <1>2, <2>1 DEF SchedInv, SchedTypeOK
<1>3. \A rest \in SUBSET Dated :
        SchedListing(rest) \in SchedState /\ SchedListing(rest).pc \in {"idle", "listed"}
  BY DEF SchedListing, IdleSched, Sched_, SchedState, SchedPc
<1>4. sched[n] \in SchedState /\ sched[n].rest \subseteq Dated /\ sched[n].endsAt \in Nat
  BY <1>1 DEF SchedState
<1>5. \A pc \in SchedPc :
        /\ [sched[n] EXCEPT !.pc = pc] \in SchedState
        /\ [sched[n] EXCEPT !.pc = pc].pc = pc
        /\ [sched[n] EXCEPT !.pc = pc].endsAt = sched[n].endsAt
  BY <1>4 DEF SchedState
<1>6. ASSUME NEW rest \in SUBSET Dated, sched' = [sched EXCEPT ![n] = SchedListing(rest)],
             clock' = clock, date' \in [Dated -> Nat]
      PROVE  SchedInv'
  <2>1. SchedListing(rest) \in SchedState /\ SchedListing(rest).pc \notin {"claim", "create"}
    BY <1>3
  <2> QED
    BY <1>2, <1>6, <2>1
<1>7. ASSUME SchedGoto(n, "clear"), clock' = clock, date' = date
      PROVE  SchedInv'
  <2>1. PICK s \in SchedState : s.pc = "clear" /\ s = [sched[n] EXCEPT !.pc = "clear"]
    BY <1>5 DEF SchedPc
  <2> QED
    BY <1>1, <1>2, <1>7, <2>1 DEF SchedGoto
<1>8. CASE SchedList(n)
  <2>1. ScheduledLettersDue \in SUBSET Dated
    BY DEF ScheduledLettersDue
  <2>2. SchedInv'
    BY <1>1, <1>6, <1>8, <2>1 DEF SchedList, vars
  <2> QED
    BY <1>8, <2>2, StillIsGuest DEF SchedList, vars, dbVars, eventVars
<1>9. ASSUME NEW l \in Dated, SchedSkips(n, l)
      PROVE  Guest /\ SchedInv' /\ (vaultState' = "RELEASED" => vaultState = "RELEASED")
  <2>1. SchedInv'
    BY <1>1, <1>4, <1>6, <1>9 DEF SchedSkips, vars
  <2> QED
    BY <1>9, <2>1, StillIsGuest DEF SchedSkips, vars, dbVars, eventVars
<1>10. ASSUME NEW l \in Dated, SchedTakes(n, l)
       PROVE  Guest /\ SchedInv' /\ (vaultState' = "RELEASED" => vaultState = "RELEASED")
  <2>1. PICK s : s = Sched_("ask", sched[n].rest \ {l}, {l}, 0)
    OBVIOUS
  <2>2. s \in SchedState /\ s.pc = "ask"
    BY <1>4, <2>1 DEF Sched_, SchedState, SchedPc
  <2>3. SchedInv'
    BY <1>1, <1>2, <1>10, <2>1, <2>2 DEF SchedTakes, vars
  <2> QED
    BY <1>10, <2>3, StillIsGuest DEF SchedTakes, vars, dbVars, eventVars
<1>11. CASE SchedRefused(n)
  <2>1. SchedInv'
    BY <1>1, <1>4, <1>6, <1>11 DEF SchedRefused, SchedNext, vars
  <2> QED
    BY <1>11, <2>1, StillIsGuest DEF SchedRefused, vars, dbVars, eventVars
<1>12. CASE SchedBegin(n)
  <2>1. WakeTime(FALSE) \in Nat
    BY <1>1 DEF WakeTime, CoolOf
  <2>2. PICK s, wake : /\ s = Sched_("claim", sched[n].rest, sched[n].hand, wake)
                       /\ wake = WakeTime(FALSE)
    OBVIOUS
  <2>3. s \in SchedState /\ s.endsAt <= WakeTime(FALSE)
    <3>1. /\ s = [pc |-> "claim", rest |-> sched[n].rest, hand |-> sched[n].hand, endsAt |-> wake]
          /\ wake \in Nat
      BY <2>1, <2>2 DEF Sched_
    <3>2. sched[n].rest \in SUBSET Dated /\ sched[n].hand \in SUBSET Dated
      BY <1>1 DEF SchedState
    <3>3. s \in SchedState /\ s.endsAt = wake
      BY <3>1, <3>2 DEF SchedState, SchedPc
    <3>4. s.endsAt = WakeTime(FALSE)
      BY <2>2, <3>3, Zenon
    <3>5. wake <= wake
      BY <3>1
    <3> QED
      BY <2>2, <3>3, <3>4, <3>5, Zenon
  <2>4. SchedInv'
    BY <1>1, <1>2, <1>12, <2>2, <2>3 DEF SchedBegin, vars
  <2> QED
    BY <1>12, <2>4, StillIsGuest DEF SchedBegin, vars, dbVars, eventVars
<1>13. CASE SchedWins(n)
  <2>1. PICK s \in SchedState : /\ s.pc = "create" /\ s.endsAt = sched[n].endsAt
                                /\ s = [sched[n] EXCEPT !.pc = "create"]
    BY <1>5 DEF SchedPc
  <2>2. SchedInv'
    <3>1. s.endsAt <= WakeTime(FALSE)
      BY <1>13, <2>1 DEF SchedWins, SchedInv
    <3> QED
      BY <1>1, <1>2, <1>13, <2>1, <3>1 DEF SchedWins, SchedGoto
  <2>3. Guest
    BY <1>1, <1>13 DEF SchedWins, ClaimVaultCoolingOff, Guest, CoreInv, TypeOK, DbTypeOK,
       VaultState, eventVars, pipeVars, IsPerforming, Created
  <2> QED
    BY <1>13, <2>2, <2>3 DEF SchedWins, ClaimVaultCoolingOff
<1>14. CASE SchedConflict(n)
  <2>1. SchedInv'
    BY <1>7, <1>14 DEF SchedConflict, vars
  <2> QED
    BY <1>14, <2>1, StillIsGuest DEF SchedConflict, vars, dbVars, eventVars
<1>15. CASE SchedCreate(n)
  <2>1. SchedInv'
    BY <1>7, <1>15 DEF SchedCreate
  <2>2. sched[n].endsAt <= WakeTime(FALSE)
    BY <1>15 DEF SchedCreate, SchedInv
  <2>3. n \in Node
    BY ScheduleAssumption
  <2>4. Guest
    BY <1>4, <1>15, <2>2, <2>3, InsertIsGuest DEF SchedCreate
  <2> QED
    BY <1>15, <2>1, <2>4 DEF SchedCreate
<1>16. CASE SchedClear(n)
  <2>1. date' \in [Dated -> Nat]
    BY <1>1, <1>16 DEF SchedClear, NoDate
  <2>2. SchedInv'
    BY <1>4, <1>6, <1>16, <2>1 DEF SchedClear, SchedNext, vars
  <2> QED
    BY <1>16, <2>2, StillIsGuest DEF SchedClear, vars, dbVars, eventVars
<1>17. CASE SchedFails(n)
  <2>1. clock' = clock /\ date' = date
    BY <1>17 DEF SchedFails, dbVars
  <2>2. ASSUME NEW l \in Dated, sched' = [sched EXCEPT ![n] = SchedListing(sched[n].rest \ {l})]
        PROVE  SchedInv'
    <3>1. sched[n].rest \ {l} \in SUBSET Dated
      BY <1>4
    <3> QED
      BY <1>1, <1>6, <2>1, <2>2, <3>1
  <2>3. ASSUME SchedNext(n) PROVE SchedInv'
    BY <1>1, <1>4, <1>6, <2>1, <2>3 DEF SchedNext
  <2>4. ASSUME SchedGoto(n, "clear") PROVE SchedInv'
    BY <1>7, <2>1, <2>4
  <2>5. SchedInv'
    BY <1>4, <1>17, <2>2, <2>3, <2>4 DEF SchedFails
  <2> QED
    BY <1>17, <2>5, StillIsGuest DEF SchedFails, dbVars, eventVars
<1> QED
  BY <1>8, <1>9, <1>10, <1>11, <1>12, <1>13, <1>14, <1>15, <1>16, <1>17 DEF SchedStep

\* A step of the co-stewards or of the appliers is a guest too: an event of theirs has
\* no deadline that passes, and closing it hands nothing out.
LEMMA StewardsAreGuests ==
  ASSUME CoreInv, TriggerInv, PmNext, UNCHANGED pipeVars
  PROVE  Guest /\ vaultState' = vaultState
<1> USE DEF pipeVars
<1>1. ASSUME NEW d \in Deputy, TriggerCreateEvent(d) PROVE Guest /\ vaultState' = vaultState
  <2>1. MaxClock + 1 \in Nat
    OBVIOUS
  <2> QED
    BY <1>1, <2>1, InsertIsGuest DEF TriggerCreateEvent
<1>2. ASSUME NEW d \in Deputy, TriggerMarkReleased(d) PROVE Guest /\ vaultState' = vaultState
  <2>1. visit[d].event \in Created
    BY <1>2 DEF TriggerMarkReleased, TriggerInv, At
  <2> QED
    <3>1. /\ UNCHANGED <<clock, vaultState, window, event, lastEvent, cancelled>>
          /\ UNCHANGED <<req, timer, due, job, claims, faults>>
          /\ released' = released \cup {visit[d].event} /\ Created' = Created
      BY <1>2 DEF TriggerMarkReleased, MarkReleaseReleased, Created
    <3>2. TypeOK /\ released' \subseteq Created' /\ cancelled' \subseteq Created'
      BY <2>1, <3>1 DEF CoreInv, TypeOK, DbTypeOK
    <3>3. window <= window'
      BY <3>1, <3>2 DEF TypeOK, DbTypeOK
    <3> QED
      BY <3>1, <3>2, <3>3 DEF TypeOK, DbTypeOK, Guest, IsPerforming
<1>3. CASE UNCHANGED dbVars
  BY <1>3, StillIsGuest DEF dbVars
<1>4. ASSUME NEW d \in Deputy,
             \/ Revoke(d)
             \/ \E l \in EventLetter : UpdateBegin(d, l) \/ TriggerBegin(d, l)
             \/ \E c \in Change : CancelChangeBegin(d, c)
             \/ UpdateInsert(d) \/ CancelChange(d) \/ TriggerFetch(d) \/ TriggerApply(d)
             \/ TriggerMark(d) \/ TriggerFetchMeta(d) \/ TriggerDeliver(d)
      PROVE  UNCHANGED dbVars
  BY <1>4 DEF Revoke, UpdateBegin, TriggerBegin, CancelChangeBegin, UpdateInsert,
     CancelChange, TriggerFetch, TriggerApply, TriggerMark, TriggerFetchMeta, TriggerDeliver
<1>5. ASSUME NEW n \in Applier, ApplierStep(n) PROVE UNCHANGED dbVars
  BY <1>5 DEF ApplierStep, ApplierList, ApplierApply
<1> QED
  BY <1>1, <1>2, <1>3, <1>4, <1>5 DEF PmNext, VisitStep

\* Events are only added, and what a deputy delivers for is an event it has just added.
LEMMA TriggerKeeps ==
  ASSUME PostMortemInv, TriggerInv, [HeldNext]_heldVars,
         \A e \in Created : e \in Created'
  PROVE  TriggerInv'
<1>1. visit \in [Deputy -> VisitState] /\ lastEvent \in 0..MaxReleases
  BY DEF PostMortemInv, PmTypeOK
<1>2. ASSUME \A d \in Deputy : visit'[d].pc \in {"deliver", "markReleased"} =>
               visit[d].pc \in {"deliver", "markReleased"} /\ visit'[d].event = visit[d].event
      PROVE  TriggerInv'
  BY <1>2 DEF TriggerInv
<1>3. ASSUME NEW d \in Deputy, TriggerCreateEvent(d) PROVE TriggerInv'
  <2>1. NextEvent \in Created'
    BY <1>1, <1>3 DEF TriggerCreateEvent, CreateReleaseEvent, NextEvent, Created
  <2>2. PICK e : e = NextEvent
    OBVIOUS
  <2>3. /\ visit'[d].event = e
        /\ \A b \in Deputy : b # d => visit'[b] = visit[b]
    BY <1>1, <1>3, <2>2 DEF TriggerCreateEvent, VisitState
  <2> QED
    BY <2>1, <2>2, <2>3 DEF TriggerInv
<1>4. ASSUME NEW d \in Deputy, TriggerDeliver(d) PROVE TriggerInv'
  <2>1. /\ visit[d].pc = "deliver" /\ visit'[d].event = visit[d].event
        /\ \A b \in Deputy : b # d => visit'[b] = visit[b]
    BY <1>1, <1>4 DEF TriggerDeliver, Goto, At, VisitState
  <2> QED
    BY <1>2, <2>1
<1>5. ASSUME NEW d \in Deputy,
             \/ \E l \in EventLetter : UpdateBegin(d, l) \/ TriggerBegin(d, l)
             \/ \E c \in Change : CancelChangeBegin(d, c)
      PROVE  TriggerInv'
  <2>1. /\ visit'[d].pc \notin {"deliver", "markReleased"}
        /\ \A b \in Deputy : b # d => visit'[b] = visit[b]
    BY <1>1, <1>5 DEF UpdateBegin, TriggerBegin, CancelChangeBegin, Visit, IdleVisit
  <2> QED
    BY <1>2, <2>1
<1>6. ASSUME NEW d \in Deputy,
             \/ UpdateInsert(d) \/ CancelChange(d) \/ TriggerMarkReleased(d) \/ VisitFails(d)
             \/ TriggerFetch(d) \/ TriggerApply(d) \/ TriggerMark(d) \/ TriggerFetchMeta(d)
      PROVE  TriggerInv'
  <2>1. CASE Leave(d)
    BY <1>1, <1>2, <2>1 DEF Leave, IdleVisit
  <2>2. CASE ~Leave(d)
    <3>1. /\ visit'[d].pc \notin {"deliver", "markReleased"}
          /\ \A b \in Deputy : b # d => visit'[b] = visit[b]
      BY <1>1, <1>6, <2>2 DEF UpdateInsert, CancelChange, TriggerMarkReleased, VisitFails,
         TriggerFetch, TriggerApply, TriggerMark, TriggerFetchMeta, Goto, VisitState
    <3> QED
      BY <1>2, <3>1
  <2> QED
    BY <2>1, <2>2
<1>7. CASE visit' = visit
  BY <1>2, <1>7
<1>8. ASSUME NEW d \in Deputy, Revoke(d) PROVE visit' = visit
  BY <1>8 DEF Revoke
<1>9. ASSUME NEW n \in Applier, ApplierStep(n) \/ ApplierFails(n) PROVE visit' = visit
  BY <1>9 DEF ApplierStep, ApplierList, ApplierApply, ApplierFails
<1>10. ASSUME NEW n \in Node, PmCrash(n) PROVE TriggerInv'
  BY <1>2, <1>10 DEF PmCrash, IdleVisit
<1>11. UNCHANGED pmVars => visit' = visit
  BY DEF pmVars
<1>12. CASE PmNext
  BY <1>3, <1>4, <1>5, <1>6, <1>7, <1>8, <1>9, <1>12 DEF PmNext, VisitStep
<1>13. CASE PmFails
  BY <1>6, <1>7, <1>9, <1>13 DEF PmFails
<1> QED
  BY <1>7, <1>10, <1>11, <1>12, <1>13 DEF HeldNext, HeldCrash, heldVars

\* A scheduler that waits keeps a deadline its timer will sleep out.
LEMMA SchedWaits ==
  ASSUME SchedInv, clock \in Nat, clock' \in Nat, clock <= clock', clock' <= MaxClock,
         date' = date, subscription' \in SubscriptionState,
         \A n \in Scheduler : sched'[n] = sched[n] \/ sched'[n] = IdleSched,
         sched' \in [Scheduler -> SchedState]
  PROVE  SchedInv'
<1>1. PICK wake, later : wake = WakeTime(FALSE) /\ later = WakeTime(FALSE)'
  OBVIOUS
<1>2. wake \in Nat /\ wake <= later
  BY <1>1, WakeTimeGrows, Zenon
<1>3. later \in Nat
  BY <1>1, WakeTimeGrows, Zenon
<1>4. \A n \in Scheduler : sched[n].pc \in {"claim", "create"} =>
        sched[n].endsAt <= wake /\ sched[n].endsAt \in Nat
  BY <1>1 DEF SchedInv, SchedTypeOK, SchedState
<1>5. IdleSched.pc = "idle"
  BY DEF IdleSched, Sched_
<1>6. \A n \in Scheduler : sched'[n].pc \in {"claim", "create"} => sched'[n].endsAt <= later
  BY <1>2, <1>3, <1>4, <1>5
<1>7. \A n \in Scheduler : sched'[n].pc \in {"claim", "create"} =>
        sched'[n].endsAt <= WakeTime(FALSE)'
  BY <1>1, <1>6, Zenon
<1> QED
  BY <1>7 DEF SchedInv, SchedTypeOK

\* A guest hands nothing back, so RELEASED stays earned.
LEMMA GuestEarns ==
  ASSUME Guest, StateMeansDelivered, vaultState' = "RELEASED" => vaultState = "RELEASED"
  PROVE  StateMeansDelivered'
BY DEF Guest, StateMeansDelivered, DeliveredInFull, HandedOut

\* Whoever moves, the pipeline keeps its promises, the scheduler its deadlines, and
\* the table of events its rows.
LEMMA HeldPipeline ==
  ASSUME HeldInv, [HeldNext]_heldVars
  PROVE  /\ CoreInv' /\ StateMeansDelivered' /\ SchedInv'
         /\ \A e \in Created : e \in Created'
<1> DEFINE Kept == /\ CoreInv' /\ StateMeansDelivered' /\ SchedInv'
                   /\ \A e \in Created : e \in Created'
<1> USE DEF HeldInv
<1>1. /\ clock \in Nat /\ date \in [Dated -> Nat] /\ sched \in [Scheduler -> SchedState]
      /\ clock <= MaxClock /\ subscription \in SubscriptionState
  BY DEF CoreInv, TypeOK, DbTypeOK, DueInv, SchedInv, SchedTypeOK
<1>2. ASSUME [Next]_vars, date' = date, subscription' \in SubscriptionState, sched' \in [Scheduler -> SchedState],
             \A n \in Scheduler : sched'[n] = sched[n] \/ sched'[n] = IdleSched
      PROVE  Kept
  <2>1. CoreInv' /\ StateMeansDelivered'
    BY <1>2, CoreStep, StateStep
  <2>2. clock' \in Nat /\ clock <= clock' /\ \A e \in Created : e \in Created'
    BY <1>2, DueIsStable
  <2>3. clock' <= MaxClock
    BY <2>1 DEF CoreInv, DueInv
  <2>4. SchedInv'
    BY <1>1, <1>2, <2>2, <2>3, SchedWaits
  <2> QED
    BY <2>1, <2>2, <2>4
<1>3. ASSUME Guest, vaultState' = "RELEASED" => vaultState = "RELEASED"
      PROVE  /\ CoreInv' /\ StateMeansDelivered' /\ clock' = clock
             /\ \A e \in Created : e \in Created'
  BY <1>3, GuestKeeps, GuestEarns DEF Guest
<1>4. ASSUME Guest, vaultState' = "RELEASED" => vaultState = "RELEASED", UNCHANGED schedVars
      PROVE  Kept
  <2>1. SchedInv'
    BY <1>1, <1>3, <1>4, SchedWaits DEF schedVars
  <2> QED
    BY <1>3, <1>4, <2>1
<1>5. CASE Running /\ UNCHANGED <<schedVars, pmVars>>
  BY <1>1, <1>2, <1>5 DEF Next, schedVars
<1>6. ASSUME NEW n \in Scheduler, SchedStep(n) \/ SchedFails(n) PROVE Kept
  BY <1>3, <1>6, SchedulerKeeps
<1>7. CASE PmNext /\ UNCHANGED <<pipeVars, schedVars>>
  BY <1>4, <1>7, StewardsAreGuests
<1>8. CASE PmFails /\ UNCHANGED schedVars
  <2>1. /\ Fault("error") /\ UNCHANGED <<dbVars, req, timer, due, job, claims>>
    BY <1>8 DEF PmFails, VisitFails, ApplierFails
  <2>2. Guest /\ vaultState' = vaultState
    BY <2>1, StillIsGuest DEF dbVars
  <2> QED
    BY <1>4, <1>8, <2>2
<1>9. ASSUME NEW n \in Node, HeldCrash(n) PROVE Kept
  <2>1. IdleSched \in SchedState
    BY DEF IdleSched, Sched_, SchedState, SchedPc
  <2>2. /\ date' = date /\ subscription' = subscription /\ sched' \in [Scheduler -> SchedState]
        /\ \A m \in Scheduler : sched'[m] = sched[m] \/ sched'[m] = IdleSched
    BY <1>1, <1>9, <2>1 DEF HeldCrash, SchedCrash
  <2> QED
    BY <1>1, <1>2, <1>9, <2>2 DEF HeldCrash, Next
<1>10. CASE UNCHANGED heldVars
  <2>1. UNCHANGED vars /\ UNCHANGED schedVars
    BY <1>10 DEF heldVars
  <2> QED
    BY <1>1, <1>2, <2>1 DEF schedVars
<1>11. CASE ExpireSubscription /\ UNCHANGED pmVars
  <2>1. UNCHANGED <<vars, date, sched>> /\ subscription' \in SubscriptionState
    BY <1>11 DEF ExpireSubscription, SubscriptionState
  <2> QED
    BY <1>1, <1>2, <2>1
<1> QED
  BY <1>5, <1>6, <1>7, <1>8, <1>9, <1>10, <1>11 DEF HeldNext

-----------------------------------------------------------------------------
(* The theorems.                                                           *)

\* Every step of the pipeline, the scheduler, the co-stewards and the appliers, and
\* every failure, keeps the invariant.
LEMMA HeldStep ==
  ASSUME PostMortemInv, [HeldNext]_heldVars
  PROVE  PostMortemInv'
<1>1. CASE Running /\ UNCHANGED <<schedVars, pmVars>>
  BY <1>1, PipelineCompany, CompanyInv DEF Next
<1>2. CASE (\E n \in Scheduler : SchedStep(n) \/ SchedFails(n)) /\ UNCHANGED pmVars
  BY <1>2, SchedulerCompany, CompanyInv
<1>3. CASE PmNext
  BY <1>3, TypeOfVisits, TypeOfAppliers, HoldOfVisits, HoldOfAppliers, FiringOfVisits,
     FiringOfAppliers DEF PmNext, PostMortemInv
<1>4. CASE PmFails
  BY <1>4, TypeOfVisits, TypeOfAppliers, HoldOfVisits, HoldOfAppliers, FiringOfVisits,
     FiringOfAppliers DEF PmFails, PostMortemInv
<1>5. ASSUME NEW n \in Node, HeldCrash(n) PROVE PostMortemInv'
  <2>1. PmCrash(n) /\ UNCHANGED dbVars
    BY <1>5 DEF HeldCrash, Crash
  <2> QED
    BY <2>1, TypeOfAppliers, HoldOfAppliers, FiringOfAppliers DEF PostMortemInv
<1>6. CASE UNCHANGED heldVars
  BY <1>6, CompanyInv DEF heldVars, vars, dbVars, Company
<1>7. CASE ExpireSubscription /\ UNCHANGED pmVars
  BY <1>7, CompanyInv DEF ExpireSubscription, vars, dbVars, Company
<1> QED
  BY <1>1, <1>2, <1>3, <1>4, <1>5, <1>6, <1>7 DEF HeldNext

\* PostMortemInv is an inductive invariant of the co-stewards' powers over the whole
\* release pipeline, faults included.
THEOREM PostMortemInductive == HeldSpec => []PostMortemInv
  BY HeldInitInv, HeldStep, PTL DEF HeldSpec

\* No deputy, applier or trigger, in whatever order they run, brings a letter to an
\* address that was not announced for the whole hold and left standing
\* (scheduler.rs, lines 697-700).
THEOREM NeverSilently == HeldSpec => []NoSilentRedirect
<1>1. PostMortemInv => NoSilentRedirect
  BY DEF PostMortemInv, HoldInv, AddressInv, GivenTo, NoSilentRedirect, Honoured, Ripe
<1> QED
  BY PostMortemInductive, <1>1, PTL

\* mark_letter_event_released lets one deputy fire a letter, once
\* (beacon-db, lines 1103-1105).
THEOREM FiresOnce == HeldSpec => []EventFiresOnce
<1>1. PostMortemInv => EventFiresOnce
  BY DEF PostMortemInv
<1> QED
  BY PostMortemInductive, <1>1, PTL

\* HeldInv is an inductive invariant of pipeline, scheduler, co-stewards and appliers
\* together.
THEOREM HeldInductive == HeldSpec => []HeldInv
<1>1. HeldInit => HeldInv
  <2>1. ASSUME HeldInit PROVE SchedInv
    BY <2>1, ScheduleAssumption DEF HeldInit, SchedInit, SchedInv, SchedTypeOK, SchedState,
       SchedPc, IdleSched, Sched_
  <2>2. HeldInit => EventLetterNotLost /\ TriggerInv
    BY DEF HeldInit, PmInit, EventLetterNotLost, TriggerInv, IdleVisit
  <2> QED
    BY <2>1, <2>2, HeldInitInv, InitInv DEF HeldInit, HeldInv, PipelineInv,
       ReleasedMeansDelivered
<1>2. HeldInv /\ [HeldNext]_heldVars => HeldInv'
  <2> SUFFICES ASSUME HeldInv, [HeldNext]_heldVars PROVE HeldInv'
    OBVIOUS
  <2>1. faults \in Nat
    BY PipelineAssumption DEF HeldInv, CoreInv, TypeOK
  <2>2. /\ CoreInv' /\ StateMeansDelivered' /\ SchedInv'
        /\ \A e \in Created : e \in Created'
    BY HeldPipeline
  <2> QED
    BY <2>1, <2>2, HeldStep, NotLostStep, TriggerKeeps DEF HeldInv
<1> QED
  BY <1>1, <1>2, PTL DEF HeldSpec

\* The rows of letters, changes and events, and what the loops and requests hold of
\* them, keep their types.
THEOREM HeldTypes == HeldSpec => []HeldTypeOK
<1>1. HeldInv => HeldTypeOK
  BY DEF HeldInv, CoreInv, SchedInv, PostMortemInv, HeldTypeOK
<1> QED
  BY HeldInductive, <1>1, PTL

\* trigger_event_release finishes what mark_letter_event_released began: a marked letter
\* is out or on its way, unless a statement failed or a process died.
THEOREM NotLost == HeldSpec => []EventLetterNotLost
<1>1. HeldInv => EventLetterNotLost
  BY DEF HeldInv
<1> QED
  BY HeldInductive, <1>1, PTL

\* Dated letters released by the scheduler and letters released by a signal go by the
\* same compare-and-set: no letter is out twice for a window, before its deadline or
\* while the vault cools off, whatever the scheduler and the co-stewards do meanwhile.
THEOREM GuestsKeepPromises ==
  HeldSpec => [](OneFiringPerWindow /\ ClaimsAreDue /\ NothingLeaksWhileCooling)
<1>1. HeldInv => OneFiringPerWindow /\ ClaimsAreDue /\ NothingLeaksWhileCooling
  BY DEF HeldInv, CoreInv, WindowInv, NothingLeaksWhileCooling
<1> QED
  BY HeldInductive, <1>1, PTL

\* A co-steward may only act on a vault whose release, be it a drill's, handed out
\* every letter: authorise_postmortem asks for RELEASED and perform_release writes it
\* last.
THEOREM StewardsComeAfter ==
  HeldSpec => [](\A d \in Deputy : Authorised(d) => \E e \in Created : DeliveredInFull(e))
<1>1. HeldInv => \A d \in Deputy : Authorised(d) => \E e \in Created : DeliveredInFull(e)
  BY DEF HeldInv, StateMeansDelivered, Authorised
<1> QED
  BY HeldInductive, <1>1, PTL

=============================================================================

----------------------- MODULE ReleasePipelineProofs -----------------------
(***************************************************************************)
(* Machine-checked proofs that PipelineInv is an inductive invariant of    *)
(* ReleasePipeline, for every number of nodes, requests, letters, windows  *)
(* and faults and every mix of operations; and that, where nobody cancels, *)
(* the pipeline implements DeadMansSwitch (the initial state maps to an    *)
(* initial state, every step to a step of the switch or to a stutter), and *)
(* no cooling-off is left without an open event but by a failure.          *)
(***************************************************************************)
EXTENDS ReleaseRefinement, TLAPS

USE BoundsAssumption, PipelineAssumption

\* The initial state satisfies every part of the inductive invariant.
LEMMA InitInv == Init => PipelineInv
  BY DEF Init, DbInit, PipelineInv, CoreInv, TypeOK, DbTypeOK, WindowInv, DueInv, DeliveryInv,
         OneFiringPerWindow, ClaimsAreDue, ReleasedMeansDelivered, StateMeansDelivered,
         IsPerforming,
         Performing, Job, IdleJob, Req, IdleReq, NoNode, NoEvent, Event, Worker, Window, Created,
         EventRow, BlankRow, VaultState, ReqState, TimerState, JobState, RequestPc,
         JobPc, Claim, CoolOf

-----------------------------------------------------------------------------
(* Types.                                                                  *)

\* Types are preserved by every step of the request handlers.
LEMMA TypeOfRequests ==
  ASSUME CoreInv, NEW r \in Request,
         \/ \E n \in Node, drill \in BOOLEAN : RequestBegin(r, n, drill)
         \/ \E n \in Node : CancelBegin(r, n)
         \/ RequestStep(r) \/ RequestFails(r)
  PROVE  TypeOK'
<1> USE DEF CoreInv, TypeOK, DbTypeOK, ReqState, RequestPc, Req, IdleReq, NoNode, NoEvent,
            ReqAt, ReqGoto, ReqDone, CoolOf, dbVars, eventVars, VaultState, Created
<1>1. ASSUME NEW n \in Node, NEW drill \in BOOLEAN, RequestBegin(r, n, drill)
      PROVE  TypeOK'
  BY <1>1 DEF RequestBegin
<1>2. ASSUME NEW n \in Node, CancelBegin(r, n) PROVE TypeOK'
  BY <1>2 DEF CancelBegin
<1>3. CASE RequestWins(r)
  BY <1>3 DEF RequestWins, ClaimVaultCoolingOff
<1>4. CASE RequestConflict(r)
  BY <1>4 DEF RequestConflict
<1>5. CASE RequestCreate(r)
  <2>1. NextEvent \in Event /\ WakeTime(req[r].drill) \in Nat
    BY <1>5 DEF RequestCreate, NextEvent, Event, WakeTime
  <2>2. /\ event' \in [Event -> EventRow] /\ lastEvent' \in 0..MaxReleases
        /\ released' \subseteq Created' /\ cancelled' \subseteq Created'
    BY <1>5, <2>1 DEF RequestCreate, CreateReleaseEvent, EventRow, NextEvent, Event, Created
  <2>3. timer' \in [Event -> TimerState]
    BY <1>5, <2>1 DEF RequestCreate, TimerState
  <2>4. job' \in [Worker -> JobState]
    BY <1>5, <2>1 DEF RequestCreate, JobState, Job, IdleJob, JobPc, Worker
  <2> QED
    BY <1>5, <2>2, <2>3, <2>4 DEF RequestCreate
<1>6. CASE CancelSetActive(r)
  BY <1>6 DEF CancelSetActive, SetVaultState
<1>7. CASE CancelFetchOpen(r)
  <2>1. CASE ReqDone(r)
    BY <1>7, <2>1 DEF CancelFetchOpen
  <2>2. CASE \E e \in Event :
               req' = [req EXCEPT ![r] = Req("markCancelled", req[r].node, FALSE, 0, e)]
    <3>1. UNCHANGED <<dbVars, timer, due, job, claims, faults>>
      BY <1>7 DEF CancelFetchOpen
    <3>2. PICK e \in Event :
               req' = [req EXCEPT ![r] = Req("markCancelled", req[r].node, FALSE, 0, e)]
      BY <2>2
    <3> QED
      BY <3>1, <3>2
  <2> QED
    BY <1>7, <2>1, <2>2 DEF CancelFetchOpen
<1>8. CASE CancelMark(r)
  BY <1>8 DEF CancelMark, MarkReleaseCancelled, OpenEvents
<1>9. CASE RequestFails(r)
  BY <1>9 DEF RequestFails, Fault
<1> QED
  BY <1>1, <1>2, <1>3, <1>4, <1>5, <1>6, <1>7, <1>8, <1>9 DEF RequestStep

\* What is common to the steps of timers and poll loops: a worker holds a typed
\* job, and the claim it would issue is typed.
LEMMA PerformerTypes ==
  ASSUME CoreInv, NEW w \in Worker, IsPerforming(w)
  PROVE  /\ job[w].event \in Created /\ job[w].event \in Event
         /\ job[w].window \in Window
         /\ job[w].todo \subseteq Letter
         /\ \A l \in job[w].todo :
              [event |-> job[w].event, window |-> job[w].window, letter |-> l, by |-> w]
                \in Claim
<1>1. job[w] \in JobState /\ lastEvent \in 0..MaxReleases /\ window \in 0..MaxReleases
  BY DEF CoreInv, TypeOK, DbTypeOK
<1>2. job[w].event \in Created /\ job[w].window \in 1..window
  BY DEF CoreInv, DeliveryInv, WindowInv
<1> QED
  BY <1>1, <1>2 DEF JobState, Created, Event, Window, Claim

\* After its release a worker is idle or back at its listing.
LEMMA AfterJobType ==
  /\ \A rest : ListingJob(rest) \in JobState /\ ListingJob(rest).pc \in {"idle", "listed"}
  /\ \A w : AfterJob(w) \in JobState /\ AfterJob(w).pc \in {"idle", "listed"}
BY DEF AfterJob, ListingJob, Job, JobState, JobPc, NoEvent

\* Types are preserved by timers and poll loops on the way to their claim.
LEMMA TypeOfElapse ==
  ASSUME CoreInv,
         \/ \E e \in Event : TimerStep(e)
         \/ \E n \in Node : PollStep(n)
  PROVE  TypeOK'
<1> USE DEF CoreInv, TypeOK, DbTypeOK, NoEvent, dbVars, eventVars, VaultState, Created
<1>1. ASSUME NEW w \in Worker, NEW e \in Event
      PROVE  Job("deliver", e, window, Letter) \in JobState
  BY DEF Job, JobState, JobPc, Window
<1>2. ASSUME NEW e \in Event, TimerWins(e) PROVE TypeOK'
  BY <1>2, <1>1 DEF TimerWins, StartPerform, ClaimVaultForRelease, Worker
<1>3. ASSUME NEW e \in Event, TimerAbandons(e) PROVE TypeOK'
  BY <1>3 DEF TimerAbandons, Job, IdleJob, JobState, JobPc
<1>4. ASSUME NEW n \in Node, PollList(n) PROVE TypeOK'
  <2>1. ListDueReleases \subseteq Event
    BY DEF ListDueReleases, OpenEvents, Event
  <2>2. job' \in [Worker -> JobState]
    BY <1>4, AfterJobType DEF PollList
  <2> QED
    BY <1>4, <2>1, <2>2 DEF PollList
<1>5. ASSUME NEW n \in Node, NEW e \in Event, PollWins(n, e) PROVE TypeOK'
  BY <1>5, <1>1 DEF PollWins, StartPerform, ClaimVaultForRelease, Worker
<1>6. ASSUME NEW n \in Node, NEW e \in Event, PollSkips(n, e) PROVE TypeOK'
  <2>1. job' \in [Worker -> JobState]
    BY <1>6, AfterJobType DEF PollSkips
  <2> QED
    BY <1>6, <2>1 DEF PollSkips
<1> QED
  BY <1>2, <1>3, <1>4, <1>5, <1>6 DEF TimerStep, PollStep

\* Types are preserved by perform_release, by failures and by the clock.
LEMMA TypeOfPerform ==
  ASSUME CoreInv,
         \/ \E w \in Worker : PerformStep(w) \/ PerformFails(w)
         \/ \E n \in Node : Crash(n)
         \/ Tick /\ UNCHANGED pipeVars
         \/ UNCHANGED vars
  PROVE  TypeOK'
<1> USE DEF CoreInv, TypeOK, DbTypeOK, NoEvent, dbVars, eventVars, VaultState, Created
<1>1. ASSUME NEW w \in Worker, NEW l \in Letter, Deliver(w, l) PROVE TypeOK'
  <2>1. claims' \subseteq Claim
    BY <1>1, PerformerTypes DEF Deliver, IsPerforming, Performing
  <2>2. job' \in [Worker -> JobState]
    BY <1>1 DEF Deliver, JobState, JobPc
  <2> QED
    BY <1>1, <2>1, <2>2 DEF Deliver
<1>2. ASSUME NEW w \in Worker, SetReleased(w) PROVE TypeOK'
  <2>1. job' \in [Worker -> JobState]
    BY <1>2 DEF SetReleased, JobState, JobPc
  <2> QED
    BY <1>2, <2>1 DEF SetReleased, SetVaultState
<1>3. ASSUME NEW w \in Worker, MarkReleased(w) PROVE TypeOK'
  <2>1. job[w].event \in Created
    BY <1>3, PerformerTypes DEF MarkReleased, IsPerforming, Performing
  <2>2. job' \in [Worker -> JobState]
    BY <1>3, AfterJobType DEF MarkReleased, JobState, JobPc
  <2> QED
    BY <1>3, <2>1, <2>2 DEF MarkReleased, MarkReleaseReleased
<1>4. ASSUME NEW w \in Worker, ReturnActive(w) PROVE TypeOK'
  BY <1>4, AfterJobType DEF ReturnActive, SetVaultState
<1>5. ASSUME NEW w \in Worker, PerformFails(w) PROVE TypeOK'
  <2>1. claims' \subseteq Claim
    BY <1>5, PerformerTypes DEF PerformFails, IsPerforming
  <2> QED
    BY <1>5, <2>1, AfterJobType DEF PerformFails, Fault
<1>6. ASSUME NEW n \in Node, Crash(n) PROVE TypeOK'
  <2>1. IdleReq \in ReqState
    BY DEF IdleReq, Req, ReqState, RequestPc, NoNode
  <2>3. req' \in [Request -> ReqState]
    BY <1>6, <2>1 DEF Crash
  <2>2. job' \in [Worker -> JobState]
    BY <1>6 DEF Crash, Job, IdleJob, JobState, JobPc
  <2> QED
    BY <1>6, <2>2, <2>3 DEF Crash, Fault
<1>7. CASE Tick /\ UNCHANGED pipeVars
  BY <1>7 DEF Tick, pipeVars
<1>8. CASE UNCHANGED vars
  BY <1>8 DEF vars
<1> QED
  BY <1>1, <1>2, <1>3, <1>4, <1>5, <1>6, <1>7, <1>8 DEF PerformStep

-----------------------------------------------------------------------------
(* Windows.                                                                *)

\* Worker w starts nothing: if it performs after the step it performed before,
\* the same event for the same window with the same letters left.
Continues(w) ==
  job'[w].pc \in Performing =>
    /\ job[w].pc \in Performing
    /\ job'[w].event = job[w].event
    /\ job'[w].window = job[w].window
    /\ job'[w].todo = job[w].todo

\* A step that only moves requests, ends jobs or carries on with them.
Quiet ==
  /\ \A w \in Worker : Continues(w)
  /\ claims' = claims
  /\ window' = window
  /\ vaultState' = "COOLING_OFF" => vaultState = "COOLING_OFF"

\* A step that starts no performer, issues no claim and opens no window keeps
\* the ownership of windows.
LEMMA QuietWindow ==
  ASSUME CoreInv,
         Quiet
  PROVE  WindowInv' /\ OneFiringPerWindow'
<1> USE DEF Quiet, CoreInv, WindowInv, OneFiringPerWindow, IsPerforming, Continues
<1>1. \A v, w \in Worker : IsPerforming(v)' /\ IsPerforming(w)'
        /\ job'[v].window = job'[w].window => v = w
  OBVIOUS
<1>2. \A w \in Worker : \A c \in claims' :
        IsPerforming(w)' /\ c.window = job'[w].window =>
          c.by = w /\ c.event = job'[w].event /\ c.letter \notin job'[w].todo
  OBVIOUS
<1> QED
  BY <1>1, <1>2

\* The winner of a claim owns the window the vault leaves, which nobody owned.
LEMMA WinnerWindow ==
  ASSUME CoreInv, NEW v \in Worker, NEW e \in Event,
         ClaimVaultForRelease, StartPerform(v, e), claims' = claims
  PROVE  WindowInv' /\ OneFiringPerWindow'
<1> USE DEF CoreInv, IsPerforming
<1>1. /\ job \in [Worker -> JobState] /\ window \in Nat
      /\ \A c \in claims : c.window \in Nat /\ c.window <= window /\ c.window # window
  BY DEF TypeOK, DbTypeOK, ClaimVaultForRelease, WindowInv, Claim, Window
<1>2. /\ vaultState' # "COOLING_OFF" /\ window' = window /\ window # 0
      /\ vaultState = "COOLING_OFF"
  BY DEF ClaimVaultForRelease, WindowInv
<1>3. /\ job'[v] = Job("deliver", e, window, Letter)
      /\ \A w \in Worker : w # v => job'[w] = job[w]
  BY <1>1 DEF StartPerform
<1>4. /\ job'[v].window = window /\ job'[v].pc = "deliver"
  BY <1>3 DEF Job
<1>5. \A w \in Worker : IsPerforming(w)' =>
        /\ job'[w].window \in 1..window
        /\ w # v => job'[w].window # window
  BY <1>1, <1>2, <1>3, <1>4 DEF WindowInv, Performing
<1>6. \A u, w \in Worker : IsPerforming(u)' /\ IsPerforming(w)'
        /\ job'[u].window = job'[w].window => u = w
  BY <1>3, <1>4, <1>5 DEF WindowInv
<1>7. \A w \in Worker : \A c \in claims :
        IsPerforming(w)' /\ c.window = job'[w].window =>
          c.by = w /\ c.event = job'[w].event /\ c.letter \notin job'[w].todo
  BY <1>1, <1>3, <1>4 DEF WindowInv
<1>8. OneFiringPerWindow'
  BY DEF OneFiringPerWindow
<1> QED
  BY <1>1, <1>2, <1>5, <1>6, <1>7, <1>8 DEF WindowInv

\* A claim issued by a performer for a letter it still had to deliver is the
\* only one of its window and letter.
LEMMA IssuedClaimIsNew ==
  ASSUME CoreInv, NEW v \in Worker, IsPerforming(v), NEW l \in job[v].todo,
         NEW c, c = [event |-> job[v].event, window |-> job[v].window,
                     letter |-> l, by |-> v],
         claims' = claims \cup {c}
  PROVE  /\ OneFiringPerWindow'
         /\ c.window <= window /\ c.window \in Nat
         /\ vaultState = "COOLING_OFF" => c.window # window
         /\ \A w \in Worker : IsPerforming(w) /\ c.window = job[w].window => w = v
<1> USE DEF CoreInv
<1>1. job[v].window \in 1..window /\ window \in Nat
  BY DEF WindowInv, TypeOK, DbTypeOK
<1>2. \A d \in claims : d.window = c.window => d.letter # l
  BY DEF WindowInv
<1>3. OneFiringPerWindow'
  BY <1>2 DEF OneFiringPerWindow
<1> QED
  BY <1>1, <1>3 DEF WindowInv

\* A step is quiet, or opens a window, wins a claim, delivers or fails to.
LEMMA StepKinds ==
  ASSUME CoreInv, [Next]_vars
  PROVE  \/ Quiet
         \/ \E r \in Request : RequestWins(r)
         \/ \E e \in Event : TimerWins(e)
         \/ \E n \in Node, e \in Event : PollWins(n, e)
         \/ \E w \in Worker, l \in Letter : Deliver(w, l)
         \/ \E w \in Worker : PerformFails(w)
<1> USE DEF CoreInv, dbVars, eventVars, Quiet
<1>0. job \in [Worker -> JobState] /\ lastEvent \in Nat
  BY DEF TypeOK, DbTypeOK
<1>1. CASE Tick /\ UNCHANGED pipeVars
  BY <1>1 DEF Tick, pipeVars, Continues
<1>2. ASSUME NEW r \in Request, NEW n \in Node, NEW drill \in BOOLEAN,
             RequestBegin(r, n, drill)
      PROVE  Quiet
  BY <1>2 DEF RequestBegin, Continues
<1>3. ASSUME NEW r \in Request, NEW n \in Node, CancelBegin(r, n) PROVE Quiet
  BY <1>3 DEF CancelBegin, Continues
<1>4. ASSUME NEW r \in Request, RequestCreate(r) PROVE Quiet
  <2>1. \A w \in Worker : Continues(w)
    BY <1>0, <1>4 DEF RequestCreate, Continues, Job, Performing
  <2> QED
    BY <1>4, <2>1 DEF RequestCreate
<1>5. ASSUME NEW r \in Request,
             RequestConflict(r) \/ CancelSetActive(r) \/ CancelFetchOpen(r)
               \/ CancelMark(r) \/ RequestFails(r)
      PROVE  Quiet
  BY <1>5 DEF RequestConflict, CancelSetActive, CancelFetchOpen, CancelMark,
       RequestFails, Continues, SetVaultState
<1>6. ASSUME NEW e \in Event, TimerAbandons(e) PROVE Quiet
  <2>1. \A w \in Worker : Continues(w)
    BY <1>0, <1>6 DEF TimerAbandons, Continues, IdleJob, Job, Performing
  <2> QED
    BY <1>6, <2>1 DEF TimerAbandons
<1>7. ASSUME NEW n \in Node, PollList(n) PROVE Quiet
  <2>1. \A w \in Worker : Continues(w)
    BY <1>0, <1>7, AfterJobType DEF PollList, Continues, Performing
  <2> QED
    BY <1>7, <2>1 DEF PollList
<1>8. ASSUME NEW n \in Node, NEW e \in Event, PollSkips(n, e) PROVE Quiet
  <2>1. \A w \in Worker : Continues(w)
    BY <1>0, <1>8, AfterJobType DEF PollSkips, Continues, Performing
  <2> QED
    BY <1>8, <2>1 DEF PollSkips
<1>9. ASSUME NEW v \in Worker, SetReleased(v) PROVE Quiet
  <2>1. \A w \in Worker : Continues(w)
    BY <1>0, <1>9 DEF SetReleased, Continues, Performing, JobState
  <2> QED
    BY <1>9, <2>1 DEF SetReleased, SetVaultState
<1>10. ASSUME NEW v \in Worker, MarkReleased(v) PROVE Quiet
  <2>1. \A w \in Worker : Continues(w)
    BY <1>0, <1>10, AfterJobType DEF MarkReleased, Continues, Performing, JobState
  <2> QED
    BY <1>10, <2>1 DEF MarkReleased
<1>11. ASSUME NEW v \in Worker, ReturnActive(v) PROVE Quiet
  <2>1. \A w \in Worker : Continues(w)
    BY <1>0, <1>11, AfterJobType DEF ReturnActive, Continues, Performing
  <2> QED
    BY <1>11, <2>1 DEF ReturnActive, SetVaultState
<1>12. ASSUME NEW n \in Node, Crash(n) PROVE Quiet
  <2>1. \A w \in Worker : Continues(w)
    BY <1>0, <1>12 DEF Crash, Continues, IdleJob, Job, Performing
  <2> QED
    BY <1>12, <2>1 DEF Crash
<1>13. CASE UNCHANGED vars
  BY <1>13 DEF vars, Continues
<1> QED
  BY <1>1, <1>2, <1>3, <1>4, <1>5, <1>6, <1>7, <1>8, <1>9, <1>10, <1>11, <1>12, <1>13
  DEF Next, Running, RequestStep, TimerStep, PollStep, PerformStep

\* Every step keeps the ownership of windows.
LEMMA WindowStep ==
  ASSUME CoreInv, [Next]_vars
  PROVE  WindowInv' /\ OneFiringPerWindow'
<1> USE DEF CoreInv, dbVars, eventVars
<1>0. job \in [Worker -> JobState] /\ window \in Nat
  BY DEF TypeOK, DbTypeOK
<1>1. CASE Quiet
  BY <1>1, QuietWindow
<1>2. ASSUME NEW r \in Request, RequestWins(r)
      PROVE  WindowInv' /\ OneFiringPerWindow'
  <2>1. window' = window + 1 /\ job' = job /\ claims' = claims
    BY <1>2 DEF RequestWins, ClaimVaultCoolingOff
  <2>2. \A c \in claims : c.window \in Nat
    BY DEF TypeOK, Claim, Window
  <2> QED
    BY <1>0, <2>1, <2>2 DEF WindowInv, OneFiringPerWindow, IsPerforming
<1>3. ASSUME NEW e \in Event, TimerWins(e) PROVE WindowInv' /\ OneFiringPerWindow'
  BY <1>3, WinnerWindow DEF TimerWins, Worker
<1>4. ASSUME NEW n \in Node, NEW e \in Event, PollWins(n, e)
      PROVE  WindowInv' /\ OneFiringPerWindow'
  BY <1>4, WinnerWindow DEF PollWins, Worker
<1>5. ASSUME NEW v \in Worker, NEW l \in Letter, Deliver(v, l)
       PROVE  WindowInv' /\ OneFiringPerWindow'
  <2>0. PICK c : c = [event |-> job[v].event, window |-> job[v].window,
                      letter |-> l, by |-> v]
    OBVIOUS
  <2>1. /\ IsPerforming(v) /\ l \in job[v].todo /\ claims' = claims \cup {c}
        /\ vaultState' = vaultState /\ window' = window
    BY <1>5, <2>0 DEF Deliver, IsPerforming, Performing
  <2>2. \A w \in Worker :
          /\ job'[w].pc = job[w].pc /\ job'[w].event = job[w].event
          /\ job'[w].window = job[w].window
          /\ job'[w].todo = IF w = v THEN job[w].todo \ {l} ELSE job[w].todo
    BY <1>0, <1>5 DEF Deliver, JobState
  <2>3. /\ OneFiringPerWindow' /\ c.window <= window /\ c.window \in Nat
        /\ vaultState = "COOLING_OFF" => c.window # window
        /\ \A w \in Worker : IsPerforming(w) /\ c.window = job[w].window => w = v
    BY <2>0, <2>1, IssuedClaimIsNew
  <2>4. c.by = v /\ c.letter = l /\ c.event = job[v].event /\ c.window = job[v].window
    BY <2>0
  <2>5. \A w \in Worker : \A d \in claims' :
          IsPerforming(w)' /\ d.window = job'[w].window =>
            d.by = w /\ d.event = job'[w].event /\ d.letter \notin job'[w].todo
    <3> SUFFICES ASSUME NEW w \in Worker, NEW d \in claims', IsPerforming(w)',
                        d.window = job'[w].window
                 PROVE  d.by = w /\ d.event = job'[w].event /\ d.letter \notin job'[w].todo
      OBVIOUS
    <3>1. IsPerforming(w) /\ d.window = job[w].window
      BY <2>2 DEF IsPerforming
    <3>2. CASE d \in claims
      <4>1. d.by = w /\ d.event = job[w].event /\ d.letter \notin job[w].todo
        BY <3>1, <3>2 DEF WindowInv
      <4> QED
        BY <2>2, <4>1
    <3>3. CASE d = c
      <4>1. w = v
        BY <2>3, <2>4, <3>1, <3>3
      <4> QED
        BY <2>2, <2>4, <3>3, <4>1
    <3> QED
      BY <2>1, <3>2, <3>3
  <2>6. \A w \in Worker : /\ IsPerforming(w)' = IsPerforming(w)
                           /\ job'[w].window = job[w].window
    BY <2>2, Zenon DEF IsPerforming
  <2>7. (vaultState = "COOLING_OFF" => window # 0)'
    BY <2>1 DEF WindowInv
  <2>8. (\A w \in Worker : IsPerforming(w) =>
           /\ job[w].window \in 1..window
           /\ vaultState = "COOLING_OFF" => job[w].window # window)'
    BY <2>1, <2>6 DEF WindowInv
  <2>9. (\A u, w \in Worker :
           IsPerforming(u) /\ IsPerforming(w) /\ job[u].window = job[w].window => u = w)'
    <3>1. \A u, w \in Worker :
             IsPerforming(u) /\ IsPerforming(w) /\ job[u].window = job[w].window => u = w
      BY DEF WindowInv
    <3> QED
      BY <2>6, <3>1
  <2>10. (\A d \in claims :
            d.window <= window /\ (vaultState = "COOLING_OFF" => d.window # window))'
    BY <2>1, <2>3 DEF WindowInv
  <2> QED
    BY <2>3, <2>5, <2>7, <2>8, <2>9, <2>10 DEF WindowInv
<1>6. ASSUME NEW v \in Worker, PerformFails(v) PROVE WindowInv' /\ OneFiringPerWindow'
  <2>1. /\ \A w \in Worker : Continues(w) /\ (w = v => ~IsPerforming(w)')
        /\ window' = window /\ vaultState' = vaultState /\ IsPerforming(v)
    BY <1>0, <1>6, AfterJobType DEF PerformFails, Continues, Performing, IsPerforming
  <2>2. CASE claims' = claims
    BY <2>1, <2>2, QuietWindow DEF Quiet
  <2>3. ASSUME NEW l \in job[v].todo, NEW c,
               c = [event |-> job[v].event, window |-> job[v].window,
                    letter |-> l, by |-> v],
               claims' = claims \cup {c}
        PROVE  WindowInv' /\ OneFiringPerWindow'
    <3>1. /\ OneFiringPerWindow' /\ c.window <= window /\ c.window \in Nat
          /\ vaultState = "COOLING_OFF" => c.window # window
          /\ \A w \in Worker : IsPerforming(w) /\ c.window = job[w].window => w = v
      BY <2>1, <2>3, IssuedClaimIsNew
    <3> QED
      BY <2>1, <2>3, <3>1 DEF WindowInv, IsPerforming, Continues
  <2> QED
    BY <1>6, <2>2, <2>3 DEF PerformFails
<1> QED
  BY <1>1, <1>2, <1>3, <1>4, <1>5, <1>6, StepKinds

-----------------------------------------------------------------------------
(* Deadlines.                                                              *)

\* Rows are only added, a row's deadline never changes and time does not go
\* back: an event that is due stays due.
LEMMA DueIsStable ==
  ASSUME CoreInv, [Next]_vars
  PROVE  /\ clock \in Nat /\ clock' \in Nat /\ clock <= clock'
         /\ clock' <= MaxClock
         /\ \A e \in Created : e \in Created' /\ event'[e] = event[e]
         /\ \A e \in Created : IsDue(e) => IsDue(e)'
<1> USE DEF CoreInv, dbVars, eventVars
<1>1. clock \in Nat /\ clock <= MaxClock /\ lastEvent \in 0..MaxReleases
      /\ event \in [Event -> EventRow]
  BY DEF TypeOK, DbTypeOK, DueInv
<1>2. clock' = clock \/ (clock < MaxClock /\ clock' = clock + 1)
  BY DEF Next, Running, vars, Tick, RequestBegin, CancelBegin, RequestStep, RequestWins,
     RequestConflict, RequestCreate, CancelSetActive, CancelFetchOpen, CancelMark,
     RequestFails, TimerStep, TimerWins, TimerAbandons, PollStep, PollList, PollWins,
     PollSkips, Crash, PerformStep, Deliver, SetReleased, MarkReleased, ReturnActive,
     PerformFails
<1>3. \/ event' = event /\ lastEvent' = lastEvent
      \/ \E r \in Request : RequestCreate(r)
  BY DEF Next, Running, vars, Tick, RequestBegin, CancelBegin, RequestStep, RequestWins,
     RequestConflict, CancelSetActive, CancelFetchOpen, CancelMark, MarkReleaseCancelled,
     RequestFails, TimerStep, TimerWins, TimerAbandons, PollStep, PollList, PollWins,
     PollSkips, Crash, PerformStep, Deliver, SetReleased, MarkReleased,
     MarkReleaseReleased, ReturnActive, PerformFails
<1>4. \A e \in Created : e \in Created' /\ event'[e] = event[e]
  <2>1. CASE event' = event /\ lastEvent' = lastEvent
    BY <2>1 DEF Created
  <2>2. ASSUME NEW r \in Request, RequestCreate(r)
        PROVE  \A e \in Created : e \in Created' /\ event'[e] = event[e]
    BY <1>1, <2>2 DEF RequestCreate, CreateReleaseEvent, NextEvent, Created, Event
  <2> QED
    BY <1>3, <2>1, <2>2
<1>5. \A e \in Created : event[e].deadline \in Nat
  BY <1>1 DEF Created, Event, EventRow
<1>6. \A e \in Created : IsDue(e) => IsDue(e)'
  BY <1>1, <1>2, <1>4, <1>5 DEF IsDue
<1> QED
  BY <1>1, <1>2, <1>4, <1>6

\* A handler between its claim and its insert has not waited past MaxClock nor
\* asked for more than the cooling-off still to come.
EndsAtOK ==
  \A r \in Request : req[r].pc \in {"claim", "create"} =>
    req[r].endsAt <= MaxClock /\ req[r].endsAt <= clock + CoolOf(req[r].drill)

LEMMA EndsAtStep ==
  ASSUME CoreInv, [Next]_vars
  PROVE  EndsAtOK'
<1> USE DEF CoreInv, dbVars, eventVars
<1>1. EndsAtOK /\ req \in [Request -> ReqState]
  BY DEF DueInv, EndsAtOK, TypeOK
<1>2. clock \in Nat /\ clock' \in Nat /\ clock <= clock'
  BY DueIsStable
<1>3. \A r \in Request : req[r].endsAt \in Nat /\ CoolOf(req[r].drill) \in Nat
  BY <1>1 DEF ReqState, CoolOf
<1>4. SUFFICES \A r \in Request : req'[r].pc \in {"claim", "create"} =>
                 /\ req'[r].endsAt <= MaxClock
                 /\ \/ /\ req[r].pc \in {"claim", "create"}
                       /\ req'[r].endsAt = req[r].endsAt /\ req'[r].drill = req[r].drill
                    \/ /\ req'[r].endsAt = clock + CoolOf(req'[r].drill)
                       /\ clock' = clock /\ req'[r].drill \in BOOLEAN
  BY <1>1, <1>2, <1>3 DEF EndsAtOK, CoolOf
<1>5. CASE req' = req
  BY <1>1, <1>5 DEF EndsAtOK
<1>6. ASSUME NEW s \in Request, NEW n \in Node, NEW drill \in BOOLEAN,
             RequestBegin(s, n, drill)
      PROVE  \A r \in Request : req'[r].pc \in {"claim", "create"} =>
                 /\ req'[r].endsAt <= MaxClock
                 /\ \/ /\ req[r].pc \in {"claim", "create"}
                       /\ req'[r].endsAt = req[r].endsAt /\ req'[r].drill = req[r].drill
                    \/ /\ req'[r].endsAt = clock + CoolOf(req'[r].drill)
                       /\ clock' = clock /\ req'[r].drill \in BOOLEAN
  BY <1>1, <1>6 DEF RequestBegin, Req, EndsAtOK
<1>7. ASSUME NEW s \in Request, RequestWins(s)
      PROVE  \A r \in Request : req'[r].pc \in {"claim", "create"} =>
                 /\ req'[r].endsAt <= MaxClock
                 /\ req[r].pc \in {"claim", "create"}
                 /\ req'[r].endsAt = req[r].endsAt /\ req'[r].drill = req[r].drill
  BY <1>1, <1>7 DEF RequestWins, ReqAt, ReqGoto, EndsAtOK, ReqState
<1>8. ASSUME NEW s \in Request,
             \/ RequestConflict(s) \/ RequestCreate(s) \/ CancelSetActive(s)
             \/ CancelMark(s) \/ RequestFails(s)
      PROVE  \A r \in Request : req'[r].pc \in {"claim", "create"} =>
               req'[r] = req[r]
  BY <1>1, <1>8 DEF RequestConflict, RequestCreate, CancelSetActive, CancelMark,
       RequestFails, ReqDone, ReqGoto, IdleReq, Req, ReqState
<1>9. ASSUME NEW s \in Request, CancelFetchOpen(s) \/ \E n \in Node : CancelBegin(s, n)
      PROVE  \A r \in Request : req'[r].pc \in {"claim", "create"} =>
               req'[r] = req[r]
  BY <1>1, <1>9 DEF CancelFetchOpen, CancelBegin, ReqDone, IdleReq, Req
<1>10. ASSUME NEW n \in Node, Crash(n)
       PROVE  \A r \in Request : req'[r].pc \in {"claim", "create"} =>
               req'[r] = req[r]
  BY <1>1, <1>10 DEF Crash, IdleReq, Req
<1>11. \/ req' = req
       \/ \E s \in Request, n \in Node, drill \in BOOLEAN : RequestBegin(s, n, drill)
       \/ \E s \in Request : RequestWins(s)
       \/ \E s \in Request :
            \/ RequestConflict(s) \/ RequestCreate(s) \/ CancelSetActive(s)
            \/ CancelMark(s) \/ RequestFails(s)
       \/ \E s \in Request : CancelFetchOpen(s) \/ \E n \in Node : CancelBegin(s, n)
       \/ \E n \in Node : Crash(n)
  BY DEF Next, Running, vars, pipeVars, RequestStep, TimerStep, TimerWins, TimerAbandons,
     PollStep, PollList, PollWins, PollSkips, PerformStep, Deliver, SetReleased,
     MarkReleased, ReturnActive, PerformFails
<1> QED
  BY <1>1, <1>5, <1>6, <1>7, <1>8, <1>9, <1>10, <1>11 DEF EndsAtOK

\* Only begin_release makes a timer, and it sleeps until the event's deadline.
SleepersOK ==
  \A e \in Event : job[e].pc = "sleeping" =>
    e \in Created /\ event[e].deadline <= timer[e].wake

LEMMA SleepersStep ==
  ASSUME CoreInv, [Next]_vars
  PROVE  SleepersOK'
<1> USE DEF CoreInv, dbVars, eventVars
<1>1. /\ SleepersOK
      /\ job \in [Worker -> JobState] /\ timer \in [Event -> TimerState]
      /\ lastEvent \in 0..MaxReleases /\ event \in [Event -> EventRow]
  BY DEF DueInv, SleepersOK, TypeOK, DbTypeOK
<1>2. \A e \in Created : e \in Created' /\ event'[e] = event[e]
  BY DueIsStable
<1>3. ASSUME timer' = timer,
             \A e \in Event : job'[e].pc = "sleeping" => job[e].pc = "sleeping"
      PROVE  SleepersOK'
  BY <1>1, <1>2, <1>3 DEF SleepersOK
<1>4. ASSUME NEW r \in Request, RequestCreate(r) PROVE SleepersOK'
  <2>1. /\ NextEvent \in Event /\ NextEvent \in Created' /\ NextEvent \notin Created
    BY <1>1, <1>4 DEF RequestCreate, CreateReleaseEvent, NextEvent, Event, Created
  <2>2. /\ event'[NextEvent].deadline = req[r].endsAt
        /\ timer'[NextEvent].wake = WakeTime(req[r].drill)
    BY <1>1, <1>4, <2>1 DEF RequestCreate, CreateReleaseEvent
  <2>3. req[r].endsAt <= WakeTime(req[r].drill)
    BY <1>4 DEF RequestCreate, ReqAt, WakeTime, DueInv
  <2>4. \A e \in Event : e # NextEvent =>
          job'[e] = job[e] /\ timer'[e] = timer[e]
    BY <1>1, <1>4 DEF RequestCreate, Worker
  <2> QED
    BY <1>1, <1>2, <2>1, <2>2, <2>3, <2>4 DEF SleepersOK
<1>5. ASSUME job' = job, timer' = timer PROVE SleepersOK'
  BY <1>3, <1>5
<1>6. ASSUME NEW e \in Event, TimerStep(e) PROVE SleepersOK'
  <2>1. timer' = timer /\ \A f \in Event : job'[f].pc = "sleeping" => job[f].pc = "sleeping"
    BY <1>1, <1>6 DEF TimerStep, TimerWins, TimerAbandons, StartPerform, IdleJob, Job, Worker
  <2> QED
    BY <1>3, <2>1
<1>7. ASSUME NEW n \in Node, PollStep(n) PROVE SleepersOK'
  <2>1. PICK j : job' = [job EXCEPT ![n] = j] /\ j.pc # "sleeping"
    <3>1. ASSUME NEW e \in Event, PollWins(n, e)
          PROVE  job' = [job EXCEPT ![n] = Job("deliver", e, window, Letter)]
      BY <3>1 DEF PollWins, StartPerform
    <3>2. \A e : Job("deliver", e, window, Letter).pc # "sleeping"
      BY DEF Job
    <3>3. ASSUME PollList(n) \/ \E e \in Event : PollSkips(n, e)
          PROVE  \E rest : job' = [job EXCEPT ![n] = ListingJob(rest)]
      BY <3>3 DEF PollList, PollSkips
    <3> QED
      BY <1>7, <3>1, <3>2, <3>3, AfterJobType DEF PollStep
  <2>2. timer' = timer
    BY <1>7 DEF PollStep, PollList, PollWins, PollSkips
  <2>3. \A f \in Event : job'[f].pc = "sleeping" => job[f].pc = "sleeping"
    BY <1>1, <2>1 DEF Worker
  <2> QED
    BY <1>3, <2>2, <2>3
<1>8. ASSUME NEW w \in Worker, PerformStep(w) \/ PerformFails(w) PROVE SleepersOK'
  <2>1. timer' = timer
    BY <1>8 DEF PerformStep, Deliver, SetReleased, MarkReleased, ReturnActive, PerformFails
  <2>2. ASSUME NEW l \in Letter, Deliver(w, l)
        PROVE  \A f \in Event : job'[f].pc = "sleeping" => job[f].pc = "sleeping"
    BY <1>1, <2>2 DEF Deliver, Worker, JobState
  <2>3. ASSUME SetReleased(w) \/ MarkReleased(w) \/ ReturnActive(w) \/ PerformFails(w)
        PROVE  \A f \in Event : job'[f].pc = "sleeping" => job[f].pc = "sleeping"
    BY <1>1, <2>3, AfterJobType
    DEF SetReleased, MarkReleased, ReturnActive, PerformFails, Worker, JobState
  <2> QED
    BY <1>3, <1>8, <2>1, <2>2, <2>3 DEF PerformStep
<1>9. ASSUME NEW n \in Node, Crash(n) PROVE SleepersOK'
  <2>1. timer' = timer /\ \A f \in Event : job'[f].pc = "sleeping" => job[f].pc = "sleeping"
    BY <1>1, <1>9 DEF Crash, IdleJob, Job, Worker
  <2> QED
    BY <1>3, <2>1
<1>10. ASSUME NEW r \in Request,
              \/ \E n \in Node, drill \in BOOLEAN : RequestBegin(r, n, drill)
              \/ \E n \in Node : CancelBegin(r, n)
              \/ RequestWins(r) \/ RequestConflict(r) \/ RequestFails(r)
              \/ CancelSetActive(r) \/ CancelFetchOpen(r) \/ CancelMark(r)
       PROVE  job' = job /\ timer' = timer
  BY <1>10 DEF RequestBegin, CancelBegin, RequestWins, RequestConflict, RequestFails,
     CancelSetActive, CancelFetchOpen, CancelMark
<1>11. (Tick /\ UNCHANGED pipeVars) \/ UNCHANGED vars => job' = job /\ timer' = timer
  BY DEF pipeVars, vars
<1> QED
  BY <1>4, <1>5, <1>6, <1>7, <1>8, <1>9, <1>10, <1>11 DEF Next, Running, RequestStep

\* What a poll loop has listed is due, and it lists only what is due.
ListingsOK == \A n \in Node : \A e \in due[n] : IsDue(e)

LEMMA ListingsStep ==
  ASSUME CoreInv, [Next]_vars
  PROVE  ListingsOK'
<1> USE DEF CoreInv, dbVars, eventVars
<1>1. ListingsOK /\ due \in [Node -> SUBSET Event]
  BY DEF DueInv, ListingsOK, TypeOK
<1>2. \A e \in Created : IsDue(e) => IsDue(e)'
  BY DueIsStable
<1>3. ASSUME \A n \in Node : \A e \in due'[n] : e \in due[n] PROVE ListingsOK'
  BY <1>1, <1>2, <1>3 DEF ListingsOK, IsDue
<1>4. ASSUME NEW n \in Node, PollList(n) PROVE ListingsOK'
  <2>1. \A e \in ListDueReleases : IsDue(e)
    BY DEF ListDueReleases, OpenEvents, IsDue
  <2>2. \A m \in Node : \A e \in due'[m] : IsDue(e)
    BY <1>1, <1>4, <2>1 DEF PollList, ListingsOK
  <2> QED
    BY <1>2, <2>2 DEF ListingsOK, IsDue
<1>5. \/ \E n \in Node : PollList(n)
      \/ \A n \in Node : \A e \in due'[n] : e \in due[n]
  BY <1>1 DEF Next, Running, vars, Tick, pipeVars, RequestBegin, CancelBegin, RequestStep, RequestWins,
     RequestConflict, RequestCreate, CancelSetActive, CancelFetchOpen, CancelMark,
     RequestFails, TimerStep, TimerWins, TimerAbandons, PollStep, PollWins,
     PollSkips, Crash, PerformStep, Deliver, SetReleased, MarkReleased, ReturnActive,
     PerformFails
<1> QED
  BY <1>3, <1>4, <1>5

\* Who starts to perform an event starts it on or after the event's deadline.
PerformersOK == \A w \in Worker : IsPerforming(w) => IsDue(job[w].event)

LEMMA PerformersStep ==
  ASSUME CoreInv, [Next]_vars
  PROVE  PerformersOK'
<1> USE DEF CoreInv, dbVars, eventVars
<1>1. PerformersOK /\ job \in [Worker -> JobState]
  BY DEF DueInv, PerformersOK, TypeOK
<1>2. \A e \in Created : IsDue(e) => IsDue(e)'
  BY DueIsStable
<1>3. ASSUME NEW v \in Worker, NEW e, IsDue(e), StartPerform(v, e)
      PROVE  PerformersOK'
  <2>1. /\ job'[v].event = e
        /\ \A w \in Worker : w # v => job'[w] = job[w]
    BY <1>1, <1>3 DEF StartPerform, Job
  <2> QED
    BY <1>1, <1>2, <1>3, <2>1 DEF PerformersOK, IsDue, IsPerforming
<1>4. ASSUME \A w \in Worker : IsPerforming(w)' =>
               IsPerforming(w) /\ job'[w].event = job[w].event
      PROVE  PerformersOK'
  BY <1>1, <1>2, <1>4 DEF PerformersOK, IsDue
<1>5. CASE Quiet
  BY <1>4, <1>5 DEF Quiet, Continues, IsPerforming
<1>6. ASSUME NEW r \in Request, RequestWins(r) PROVE PerformersOK'
  BY <1>4, <1>6 DEF RequestWins, IsPerforming
<1>7. ASSUME NEW e \in Event, TimerWins(e) PROVE PerformersOK'
  <2>1. e \in Created /\ event[e].deadline <= timer[e].wake /\ timer[e].wake <= clock
    BY <1>7 DEF TimerWins, DueInv
  <2>2. event[e].deadline \in Nat /\ timer[e].wake \in Nat /\ clock \in Nat
    BY DEF TypeOK, DbTypeOK, EventRow, TimerState
  <2> QED
    BY <1>3, <1>7, <2>1, <2>2 DEF TimerWins, IsDue, Worker
<1>8. ASSUME NEW n \in Node, NEW e \in Event, PollWins(n, e) PROVE PerformersOK'
  <2>1. IsDue(e)
    BY <1>8 DEF PollWins, DueInv
  <2> QED
    BY <1>3, <1>8, <2>1 DEF PollWins, Worker
<1>9. ASSUME NEW v \in Worker, NEW l \in Letter, Deliver(v, l) PROVE PerformersOK'
  <2>1. \A w \in Worker : job'[w].pc = job[w].pc /\ job'[w].event = job[w].event
    BY <1>1, <1>9 DEF Deliver, JobState
  <2> QED
    BY <1>4, <2>1 DEF IsPerforming
<1>10. ASSUME NEW v \in Worker, PerformFails(v) PROVE PerformersOK'
  <2>1. \A w \in Worker : IsPerforming(w)' => job'[w] = job[w]
    BY <1>1, <1>10, AfterJobType DEF PerformFails, IsPerforming, Performing
  <2> QED
    BY <1>4, <2>1 DEF IsPerforming
<1> QED
  BY <1>5, <1>6, <1>7, <1>8, <1>9, <1>10, StepKinds

\* Every step keeps the deadlines.
LEMMA DueStep ==
  ASSUME CoreInv, [Next]_vars
  PROVE  DueInv'
BY DueIsStable, EndsAtStep, SleepersStep, ListingsStep, PerformersStep
DEF DueInv, EndsAtOK, SleepersOK, ListingsOK, PerformersOK

-----------------------------------------------------------------------------
(* Claims.                                                                 *)

\* Claims are never withdrawn, and a new one is for the event its issuer
\* performs.
LEMMA ClaimsGrow ==
  ASSUME CoreInv, [Next]_vars
  PROVE  /\ claims \subseteq claims'
         /\ \A c \in claims' : c \in claims \/
              \E w \in Worker : IsPerforming(w) /\ c.event = job[w].event
<1> USE DEF dbVars, eventVars
<1>1. ASSUME NEW w \in Worker, NEW l \in Letter, Deliver(w, l)
      PROVE  /\ claims \subseteq claims'
             /\ \A c \in claims' : c \in claims \/ (IsPerforming(w) /\ c.event = job[w].event)
  <2>1. PICK c : c = [event |-> job[w].event, window |-> job[w].window,
                      letter |-> l, by |-> w]
    OBVIOUS
  <2>2. c.event = job[w].event
    BY <2>1
  <2>3. claims' = claims \cup {c}
    BY <1>1, <2>1 DEF Deliver
  <2>4. IsPerforming(w)
    BY <1>1 DEF Deliver, IsPerforming, Performing
  <2> QED
    BY <2>2, <2>3, <2>4 DEF IsPerforming
<1>2. ASSUME NEW w \in Worker, PerformFails(w)
      PROVE  /\ claims \subseteq claims'
             /\ \A c \in claims' : c \in claims \/ (IsPerforming(w) /\ c.event = job[w].event)
  <2>1. IsPerforming(w)
    BY <1>2 DEF PerformFails, IsPerforming
  <2>2. ASSUME NEW l, NEW c,
               c = [event |-> job[w].event, window |-> job[w].window,
                    letter |-> l, by |-> w],
               claims' = claims \cup {c}
        PROVE  /\ claims \subseteq claims'
               /\ \A d \in claims' : d \in claims \/ d.event = job[w].event
    <3>1. c.event = job[w].event
      BY <2>2
    <3> QED
      BY <2>2, <3>1
  <2>3. \/ claims' = claims
        \/ \E l \in job[w].todo :
             claims' = claims \cup {[event |-> job[w].event, window |-> job[w].window,
                                     letter |-> l, by |-> w]}
    BY <1>2 DEF PerformFails
  <2>4. CASE claims' = claims
    BY <2>4 DEF IsPerforming
  <2>5. ASSUME NEW l \in job[w].todo,
               claims' = claims \cup {[event |-> job[w].event, window |-> job[w].window,
                                       letter |-> l, by |-> w]}
        PROVE  /\ claims \subseteq claims'
               /\ \A d \in claims' : d \in claims \/ d.event = job[w].event
    BY <2>2, <2>5
  <2> QED
    BY <2>1, <2>3, <2>4, <2>5 DEF IsPerforming
<1>3. \/ claims' = claims
      \/ \E w \in Worker, l \in Letter : Deliver(w, l)
      \/ \E w \in Worker : PerformFails(w)
  BY StepKinds DEF Quiet, RequestWins, TimerWins, PollWins
<1> QED
  BY <1>1, <1>2, <1>3

\* What was handed out stays handed out.
LEMMA HandedOutIsStable ==
  ASSUME CoreInv, [Next]_vars, NEW e, NEW l, HandedOut(e, l)
  PROVE  HandedOut(e, l)'
BY ClaimsGrow DEF HandedOut

\* Every step issues claims for due events only.
LEMMA ClaimsStep ==
  ASSUME CoreInv, [Next]_vars
  PROVE  ClaimsAreDue'
<1>1. \A e \in Created : IsDue(e) => IsDue(e)'
  BY DueIsStable
<1>2. \A c \in claims : IsDue(c.event)
  BY DEF CoreInv, ClaimsAreDue, IsDue
<1>3. \A w \in Worker : IsPerforming(w) => IsDue(job[w].event)
  BY DEF CoreInv, DueInv
<1>4. \A c \in claims' : IsDue(c.event)
  BY <1>2, <1>3, ClaimsGrow
<1> QED
  BY <1>1, <1>4 DEF ClaimsAreDue, IsDue

\* A performer that ends its step performing has begun with every letter to do,
\* has handed one out, or has changed neither its event nor its letters.
LEMMA DeliveryStep ==
  ASSUME CoreInv, [Next]_vars
  PROVE  DeliveryInv'
<1> USE DEF CoreInv, dbVars, eventVars
<1>0. job \in [Worker -> JobState]
  BY DEF TypeOK
<1>1. \A w \in Worker : IsPerforming(w)' => job'[w].event \in Created'
  BY PerformersStep DEF PerformersOK, IsDue
<1>2. ASSUME NEW v \in Worker, SetReleased(v) PROVE DeliveryInv'
  <2>1. /\ IsPerforming(v) /\ job[v].todo = {}
        /\ job'[v].pc = "markReleased" /\ job'[v].event = job[v].event /\ job'[v].todo = {}
        /\ \A w \in Worker : w # v => job'[w] = job[w]
    BY <1>0, <1>2 DEF SetReleased, JobState, IsPerforming, Performing
  <2> QED
    BY <1>1, <2>1, HandedOutIsStable DEF DeliveryInv, IsPerforming
<1>3. ASSUME NEW v \in Worker, MarkReleased(v) PROVE DeliveryInv'
  <2>1. /\ IsPerforming(v)
        /\ IsPerforming(v)' =>
             job'[v].event = job[v].event /\ job'[v].todo = job[v].todo /\ job[v].pc # "deliver"
        /\ \A w \in Worker : w # v => job'[w] = job[w]
    BY <1>0, <1>3, AfterJobType DEF MarkReleased, JobState, IsPerforming, Performing
  <2> QED
    BY <1>1, <2>1, HandedOutIsStable DEF DeliveryInv, IsPerforming
<1>4. ASSUME \A w \in Worker : IsPerforming(w)' => IsPerforming(w) /\ job'[w] = job[w]
      PROVE  DeliveryInv'
  BY <1>1, <1>4, HandedOutIsStable DEF DeliveryInv
<1>5. ASSUME NEW v \in Worker, NEW e, StartPerform(v, e) PROVE DeliveryInv'
  <2>1. /\ job'[v].pc = "deliver" /\ job'[v].todo = Letter
        /\ \A w \in Worker : w # v => job'[w] = job[w]
    BY <1>0, <1>5 DEF StartPerform, Job
  <2> QED
    BY <1>1, <2>1, HandedOutIsStable DEF DeliveryInv, IsPerforming
<1>6. ASSUME NEW v \in Worker, NEW l \in Letter, Deliver(v, l) PROVE DeliveryInv'
  <2>1. /\ IsPerforming(v) /\ job'[v].pc = "deliver" /\ job'[v].event = job[v].event
        /\ job'[v].todo = job[v].todo \ {l}
        /\ \A w \in Worker : w # v => job'[w] = job[w]
    BY <1>0, <1>6 DEF Deliver, JobState, IsPerforming, Performing
  <2>2. HandedOut(job[v].event, l)'
    <3>1. PICK c : c = [event |-> job[v].event, window |-> job[v].window,
                        letter |-> l, by |-> v]
      OBVIOUS
    <3>2. c \in claims'
      BY <1>6, <3>1 DEF Deliver
    <3>3. \E d \in claims' : d.event = job[v].event /\ d.letter = l
      BY <3>1, <3>2
    <3> QED
      BY <2>1, <3>3 DEF HandedOut
  <2>3. \A k \in Letter \ job'[v].todo : HandedOut(job[v].event, k)'
    <3>1. ASSUME NEW k \in Letter, k \notin job'[v].todo PROVE HandedOut(job[v].event, k)'
      <4>1. CASE k = l
        BY <2>2, <4>1
      <4>2. CASE k # l
        <5>1. HandedOut(job[v].event, k)
          BY <2>1, <3>1, <4>2 DEF DeliveryInv
        <5> QED
          BY <2>1, <5>1, ClaimsGrow DEF HandedOut
      <4> QED
        BY <4>1, <4>2
    <3> QED
      BY <3>1
  <2>4. \A w \in Worker : w # v /\ IsPerforming(w)' =>
           \A k \in Letter \ job'[w].todo : HandedOut(job[w].event, k)'
    <3>1. ASSUME NEW w \in Worker, w # v, IsPerforming(w)', NEW k \in Letter \ job'[w].todo
          PROVE  HandedOut(job[w].event, k)'
      <4>1. job'[w] = job[w] /\ HandedOut(job[w].event, k)
        BY <2>1, <3>1 DEF DeliveryInv, IsPerforming
      <4> QED
        BY <4>1, ClaimsGrow DEF HandedOut
    <3> QED
      BY <3>1
  <2> QED
    BY <1>1, <2>1, <2>3, <2>4 DEF DeliveryInv, IsPerforming
<1>7. ASSUME NEW v \in Worker, ReturnActive(v) \/ PerformFails(v) PROVE DeliveryInv'
  <2>1. \A w \in Worker : IsPerforming(w)' => IsPerforming(w) /\ job'[w] = job[w]
    BY <1>0, <1>7, AfterJobType DEF ReturnActive, PerformFails, IsPerforming, Performing
  <2> QED
    BY <1>4, <2>1
<1>8. ASSUME NEW r \in Request, RequestCreate(r) PROVE DeliveryInv'
  <2>1. \A w \in Worker : IsPerforming(w)' => IsPerforming(w) /\ job'[w] = job[w]
    BY <1>0, <1>8 DEF RequestCreate, Job, IsPerforming, Performing
  <2> QED
    BY <1>4, <2>1
<1>9. ASSUME NEW e \in Event, TimerAbandons(e) PROVE DeliveryInv'
  <2>1. \A w \in Worker : IsPerforming(w)' => IsPerforming(w) /\ job'[w] = job[w]
    BY <1>0, <1>9 DEF TimerAbandons, IdleJob, Job, IsPerforming, Performing
  <2> QED
    BY <1>4, <2>1
<1>10. ASSUME NEW n \in Node, PollList(n) \/ \E e \in Event : PollSkips(n, e)
       PROVE  DeliveryInv'
  <2>1. \A w \in Worker : IsPerforming(w)' => IsPerforming(w) /\ job'[w] = job[w]
    BY <1>0, <1>10, AfterJobType DEF PollList, PollSkips, IsPerforming, Performing
  <2> QED
    BY <1>4, <2>1
<1>11. ASSUME NEW n \in Node, Crash(n) PROVE DeliveryInv'
  <2>1. \A w \in Worker : IsPerforming(w)' => IsPerforming(w) /\ job'[w] = job[w]
    BY <1>0, <1>11 DEF Crash, IdleJob, Job, IsPerforming, Performing
  <2> QED
    BY <1>4, <2>1
<1>12. CASE job' = job
  BY <1>4, <1>12 DEF IsPerforming
<1>13. ASSUME NEW r \in Request,
              \/ \E n \in Node, drill \in BOOLEAN : RequestBegin(r, n, drill)
              \/ \E n \in Node : CancelBegin(r, n)
              \/ RequestWins(r) \/ RequestConflict(r) \/ RequestFails(r)
              \/ CancelSetActive(r) \/ CancelFetchOpen(r) \/ CancelMark(r)
       PROVE  job' = job
  BY <1>13 DEF RequestBegin, CancelBegin, RequestWins, RequestConflict, RequestFails,
     CancelSetActive, CancelFetchOpen, CancelMark
<1>14. (Tick /\ UNCHANGED pipeVars) \/ UNCHANGED vars => job' = job
  BY DEF pipeVars, vars
<1>15. ASSUME NEW e \in Event, TimerWins(e) PROVE DeliveryInv'
  BY <1>5, <1>15 DEF TimerWins, Worker
<1>16. ASSUME NEW n \in Node, NEW e \in Event, PollWins(n, e) PROVE DeliveryInv'
  BY <1>5, <1>16 DEF PollWins, Worker
<1> QED
  BY <1>2, <1>3, <1>6, <1>7, <1>8, <1>9, <1>10, <1>11, <1>12, <1>13, <1>14, <1>15, <1>16
  DEF Next, Running, RequestStep, TimerStep, PollStep, PerformStep

\* A vault that becomes RELEASED was performed, all its letters out.
LEMMA StateStep ==
  ASSUME CoreInv, StateMeansDelivered, [Next]_vars
  PROVE  StateMeansDelivered'
<1>1. \A e : DeliveredInFull(e) => DeliveredInFull(e)'
  BY HandedOutIsStable DEF DeliveredInFull
<1>2. \A e \in Created : e \in Created'
  BY DueIsStable
<1>3. \/ vaultState' = "RELEASED" => vaultState = "RELEASED"
      \/ \E w \in Worker : SetReleased(w)
  BY DEF Next, Running, vars, dbVars, Tick, RequestBegin, CancelBegin, RequestStep, RequestWins,
     RequestConflict, RequestCreate, CancelSetActive, CancelFetchOpen,
     CancelMark, RequestFails, TimerStep, TimerWins, TimerAbandons,
     PollStep, PollList, PollWins, PollSkips, Crash, PerformStep, Deliver, MarkReleased,
     ReturnActive, PerformFails, ClaimVaultForRelease, ClaimVaultCoolingOff, SetVaultState
<1>4. ASSUME NEW w \in Worker, SetReleased(w)
      PROVE  job[w].event \in Created /\ DeliveredInFull(job[w].event)
  BY <1>4 DEF SetReleased, IsPerforming, Performing, CoreInv, DeliveryInv, DeliveredInFull
<1>5. vaultState' = "RELEASED" => \E e \in Created : DeliveredInFull(e)
  BY <1>3, <1>4 DEF StateMeansDelivered
<1> QED
  BY <1>1, <1>2, <1>5 DEF StateMeansDelivered

\* An event marked released by this step was performed, all its letters out.
LEMMA ReleasedStep ==
  ASSUME PipelineInv, [Next]_vars
  PROVE  ReleasedMeansDelivered'
<1> USE DEF PipelineInv, CoreInv
<1>1. \A e : DeliveredInFull(e) => DeliveredInFull(e)'
  BY HandedOutIsStable DEF DeliveredInFull
<1>2. StateMeansDelivered'
  BY StateStep DEF ReleasedMeansDelivered
<1>3. \/ released' = released
      \/ \E w \in Worker : MarkReleased(w)
  BY DEF Next, Running, vars, dbVars, eventVars, Tick, RequestBegin, CancelBegin, RequestStep,
     RequestWins, RequestConflict, RequestCreate, CreateReleaseEvent, CancelSetActive,
     CancelFetchOpen, CancelMark, MarkReleaseCancelled, RequestFails, TimerStep, TimerWins,
     TimerAbandons, PollStep, PollList, PollWins, PollSkips, Crash, PerformStep, Deliver,
     SetReleased, ReturnActive, PerformFails
<1>4. ASSUME NEW w \in Worker, MarkReleased(w)
      PROVE  \A e \in released' : e \in released \/ DeliveredInFull(e)
  <2>1. IsPerforming(w) /\ job[w].todo = {}
    BY <1>4 DEF MarkReleased, IsPerforming, Performing, DeliveryInv
  <2>2. DeliveredInFull(job[w].event)
    BY <2>1 DEF DeliveryInv, DeliveredInFull
  <2> QED
    BY <1>4, <2>2 DEF MarkReleased, MarkReleaseReleased
<1>5. \A e \in released' : DeliveredInFull(e)
  BY <1>3, <1>4 DEF ReleasedMeansDelivered
<1> QED
  BY <1>1, <1>2, <1>5 DEF ReleasedMeansDelivered

-----------------------------------------------------------------------------
(* Faults are counted.                                                     *)

\* A pipeline step without a fault so far had none before.
LEMMA FaultsGrow ==
  ASSUME faults \in Nat, [Next]_vars
  PROVE  faults' = 0 => faults = 0 /\ \A n \in Node : ~Crash(n)
<1>1. CASE UNCHANGED faults
  BY <1>1 DEF Crash, Fault
<1>2. ASSUME NEW kind, Fault(kind) PROVE faults' # 0
  BY <1>2 DEF Fault
<1>3. (\E kind : Fault(kind)) \/ UNCHANGED faults
  BY DEF Next, Running, vars, pipeVars, RequestBegin, CancelBegin, RequestStep, RequestWins,
     RequestConflict, RequestCreate, CancelSetActive, CancelFetchOpen, CancelMark,
     RequestFails, TimerStep, TimerWins, TimerAbandons, PollStep, PollList, PollWins,
     PollSkips, PerformStep, Deliver, SetReleased, MarkReleased, ReturnActive,
     PerformFails, Crash
<1> QED
  BY <1>1, <1>2, <1>3

-----------------------------------------------------------------------------
(* Others who share the rows.                                              *)

\* What the pipeline stands from the components beside it: they may move the vault
\* among its states and open a window, insert and close events, start timers, and
\* take workers off a job, as long as no event changes under its deadline and no
\* timer ends before it.
Guest ==
  /\ UNCHANGED <<clock, req, due, claims>>
  /\ faults' \in 0..MaxFaults
  /\ vaultState' \in VaultState /\ window' \in 0..MaxReleases /\ window <= window'
  /\ vaultState' = "COOLING_OFF" =>
       \/ window' = window + 1
       \/ vaultState = "COOLING_OFF" /\ window' = window
  /\ event' \in [Event -> EventRow] /\ lastEvent' \in 0..MaxReleases
  /\ \A e \in Created : e \in Created' /\ event'[e] = event[e]
  /\ released' \subseteq Created' /\ cancelled' \subseteq Created'
  /\ timer' \in [Event -> TimerState] /\ job' \in [Worker -> JobState]
  /\ \A w \in Worker : IsPerforming(w)' => job'[w] = job[w]
  /\ \A e \in Event : job'[e].pc = "sleeping" =>
       \/ job[e].pc = "sleeping" /\ timer'[e] = timer[e]
       \/ e \in Created' /\ event'[e].deadline <= timer'[e].wake

\* No step of theirs costs the pipeline its invariant.
LEMMA GuestKeeps ==
  ASSUME CoreInv, Guest
  PROVE  CoreInv'
<1> USE DEF CoreInv, Guest
<1>1. /\ clock \in Nat /\ window \in 0..MaxReleases
      /\ claims \subseteq Claim /\ job \in [Worker -> JobState]
  BY DEF TypeOK, DbTypeOK
<1>2. TypeOK'
  BY DEF TypeOK, DbTypeOK
<1>3. \A w \in Worker : IsPerforming(w)' => IsPerforming(w) /\ job'[w] = job[w]
  BY DEF IsPerforming
<1>4. WindowInv' /\ OneFiringPerWindow'
  <2>1. \A c \in claims : c.window \in Nat
    BY <1>1 DEF Claim, Window
  <2>2. OneFiringPerWindow'
    BY DEF OneFiringPerWindow
  <2>3. /\ vaultState' = "COOLING_OFF" => window' # 0
        /\ \A c \in claims' :
             /\ c.window <= window'
             /\ vaultState' = "COOLING_OFF" => c.window # window'
    BY <1>1, <2>1 DEF WindowInv
  <2>4. \A w \in Worker : IsPerforming(w)' =>
          /\ job'[w].window \in 1..window'
          /\ vaultState' = "COOLING_OFF" => job'[w].window # window'
    BY <1>1, <1>3 DEF WindowInv
  <2>5. /\ \A v, w \in Worker : IsPerforming(v)' /\ IsPerforming(w)'
             /\ job'[v].window = job'[w].window => v = w
        /\ \A w \in Worker : \A c \in claims' :
             IsPerforming(w)' /\ c.window = job'[w].window =>
               c.by = w /\ c.event = job'[w].event /\ c.letter \notin job'[w].todo
    BY <1>3 DEF WindowInv
  <2> QED
    BY <2>2, <2>3, <2>4, <2>5 DEF WindowInv
<1>5. \A e : IsDue(e) => IsDue(e)'
  BY DEF IsDue
<1>6. DueInv'
  <2>1. \A e \in Event : job'[e].pc = "sleeping" =>
          e \in Created' /\ event'[e].deadline <= timer'[e].wake
    BY DEF DueInv
  <2>2. \A n \in Node : \A e \in due'[n] : IsDue(e)'
    BY <1>5 DEF DueInv
  <2>3. \A w \in Worker : IsPerforming(w)' => IsDue(job[w].event)'
    BY <1>3, <1>5 DEF DueInv
  <2>4. /\ clock' <= MaxClock
        /\ \A r \in Request : req'[r].pc \in {"claim", "create"} =>
             req'[r].endsAt <= MaxClock /\ req'[r].endsAt <= clock' + CoolOf(req'[r].drill)
    BY DEF DueInv
  <2> QED
    BY <2>1, <2>2, <2>3, <2>4 DEF DueInv, CoolOf
<1>7. DeliveryInv'
  BY <1>3 DEF DeliveryInv, HandedOut
<1>8. ClaimsAreDue'
  BY <1>5 DEF ClaimsAreDue, IsDue
<1> QED
  BY <1>2, <1>4, <1>6, <1>7, <1>8

-----------------------------------------------------------------------------
(* The theorems.                                                           *)

\* Every step preserves the types.
LEMMA TypeStep ==
  ASSUME CoreInv, [Next]_vars
  PROVE  TypeOK'
BY TypeOfRequests, TypeOfElapse, TypeOfPerform DEF Next, Running

\* Every step preserves every part of the inductive invariant but the last.
LEMMA CoreStep ==
  ASSUME CoreInv, [Next]_vars
  PROVE  CoreInv'
BY TypeStep, WindowStep, DueStep, DeliveryStep, ClaimsStep DEF CoreInv

\* And so is the last.
LEMMA PipelineStep ==
  ASSUME PipelineInv, [Next]_vars
  PROVE  PipelineInv'
BY CoreStep, ReleasedStep DEF PipelineInv

\* PipelineInv holds of the initial state and is preserved by every step: of
\* requests, timers, poll loops, crashes and failing statements alike.
THEOREM InductiveInv == Spec => []PipelineInv
BY InitInv, PipelineStep, PTL DEF Spec

\* The rows and the workers' memory keep their types (scheduler.rs, db lib.rs).
THEOREM TypeCorrect == Spec => []TypeOK
<1>1. PipelineInv => TypeOK
  BY DEF PipelineInv, CoreInv
<1> QED
  BY InductiveInv, <1>1, PTL

\* However many timers, replicas, crashes and failures race, claim_vault_for_release
\* lets each letter out at most once per entry into COOLING_OFF.
THEOREM ExactlyOnce == Spec => []OneFiringPerWindow
<1>1. PipelineInv => OneFiringPerWindow
  BY DEF PipelineInv, CoreInv
<1> QED
  BY InductiveInv, <1>1, PTL

\* No token of a cooling-off window is issued before the claim has ended it.
THEOREM NoLeak == Spec => []NothingLeaksWhileCooling
<1>1. PipelineInv => NothingLeaksWhileCooling
  BY DEF PipelineInv, CoreInv, WindowInv, NothingLeaksWhileCooling
<1> QED
  BY InductiveInv, <1>1, PTL

\* Neither a timer nor the poll loop fires an event before its deadline.
THEOREM NotBeforeDeadline == Spec => []ClaimsAreDue
<1>1. PipelineInv => ClaimsAreDue
  BY DEF PipelineInv, CoreInv
<1> QED
  BY InductiveInv, <1>1, PTL

\* released_at and RELEASED are only written once every letter is out.
THEOREM NoHollowRelease == Spec => []ReleasedMeansDelivered
<1>1. PipelineInv => ReleasedMeansDelivered
  BY DEF PipelineInv, CoreInv
<1> QED
  BY InductiveInv, <1>1, PTL

-----------------------------------------------------------------------------
(* Where nobody cancels: the pipeline is the dead man's switch.             *)

\* Nobody cancels, and the invariants hold before the step.
Uncancelled == "cancel" \notin Ops /\ PipelineInv /\ UncancelledInv

\* The initial state is one of the switch.
LEMMA SwitchInit == Init => UncancelledInv /\ Switch!Init
<1> SUFFICES ASSUME Init PROVE UncancelledInv /\ Switch!Init
  OBVIOUS
<1>1. Phase = "held" /\ Handed = {}
  BY DEF Init, DbInit, Phase, Handed
<1>2. UncancelledInv
  BY DEF Init, UncancelledInv, IsPerforming, Performing, IdleJob, Job, IdleReq, Req
<1> QED
  BY <1>1, <1>2 DEF Switch!Init

-----------------------------------------------------------------------------
(* The requests.                                                           *)

\* No step of a request is, or leads to, a cancel.
LEMMA RequestsStayUncancelled ==
  ASSUME Uncancelled, [Next]_vars
  PROVE  /\ \A r \in Request : req'[r].pc \in {"idle", "claim", "create"}
         /\ \A r \in Request : ~CancelSetActive(r) /\ ~CancelFetchOpen(r) /\ ~CancelMark(r)
         /\ \A r \in Request, n \in Node : ~CancelBegin(r, n)
<1> USE DEF Uncancelled, UncancelledInv, ReqAt, ReqDone, ReqGoto
<1>1. /\ \A r \in Request : ~CancelSetActive(r) /\ ~CancelFetchOpen(r) /\ ~CancelMark(r)
      /\ \A r \in Request, n \in Node : ~CancelBegin(r, n)
  BY DEF CancelSetActive, CancelFetchOpen, CancelMark, CancelBegin
<1>2. req \in [Request -> ReqState]
  BY DEF PipelineInv, CoreInv, TypeOK
<1>3. ASSUME NEW r \in Request, NEW n \in Node, NEW drill \in BOOLEAN,
             RequestBegin(r, n, drill)
      PROVE  \A q \in Request : req'[q].pc \in {"idle", "claim", "create"}
  BY <1>2, <1>3 DEF RequestBegin, Req
<1>4. ASSUME NEW r \in Request, RequestWins(r)
      PROVE  \A q \in Request : req'[q].pc \in {"idle", "claim", "create"}
  BY <1>2, <1>4 DEF RequestWins, ReqState
<1>5. ASSUME NEW r \in Request, RequestConflict(r) \/ RequestCreate(r) \/ RequestFails(r)
      PROVE  \A q \in Request : req'[q].pc \in {"idle", "claim", "create"}
  BY <1>2, <1>5 DEF RequestConflict, RequestCreate, RequestFails, IdleReq, Req
<1>6. ASSUME NEW n \in Node, Crash(n)
      PROVE  \A q \in Request : req'[q].pc \in {"idle", "claim", "create"}
  BY <1>2, <1>6 DEF Crash, IdleReq, Req
<1>7. \/ req' = req
      \/ \E r \in Request, n \in Node, drill \in BOOLEAN : RequestBegin(r, n, drill)
      \/ \E r \in Request : RequestWins(r) \/ RequestConflict(r) \/ RequestCreate(r)
                              \/ RequestFails(r)
      \/ \E n \in Node : Crash(n)
  BY <1>1 DEF Next, Running, vars, pipeVars, RequestStep, TimerStep, TimerWins, TimerAbandons,
     PollStep, PollList, PollWins, PollSkips, PerformStep, Deliver, SetReleased,
     MarkReleased, ReturnActive, PerformFails
<1>8. \A q \in Request : req'[q].pc \in {"idle", "claim", "create"}
  BY <1>3, <1>4, <1>5, <1>6, <1>7
<1> QED
  BY <1>1, <1>8

-----------------------------------------------------------------------------
(* Invisible steps.                                                        *)

\* The step leaves the vault, the windows and the claims alone, and whoever
\* performs afterwards performed before, with the same letters to do.
Invisible ==
  /\ vaultState' = vaultState /\ window' = window /\ claims' = claims
  /\ \A w \in Worker : IsPerforming(w)' =>
       /\ IsPerforming(w)
       /\ job'[w].window = job[w].window /\ job'[w].todo = job[w].todo
       /\ job'[w].pc = "deliver" <=> job[w].pc = "deliver"

\* The part of the invariant about performers, and the step of the switch.
Owned ==
  \A w \in Worker : IsPerforming(w) =>
    /\ job[w].window = window
    /\ vaultState = IF job[w].pc = "deliver" THEN "RELEASING" ELSE "RELEASED"
    /\ Letter \ job[w].todo \subseteq Handed

SwitchStep == [Switch!Next]_<<Phase, Handed>>

LEMMA InvisibleStep ==
  ASSUME Uncancelled, Invisible
  PROVE  Owned' /\ SwitchStep
<1>1. Phase' = Phase /\ Handed' = Handed
  BY DEF Invisible, Phase, Handed
<1>2. Owned
  BY DEF Uncancelled, UncancelledInv, Owned
<1>3. Owned'
  BY <1>1, <1>2 DEF Owned, Invisible
<1> QED
  BY <1>1, <1>3 DEF SwitchStep

-----------------------------------------------------------------------------
(* Visible steps.                                                          *)

\* claim_vault_cooling_off opens the switch: no claim is of the new window.
LEMMA WinsOpens ==
  ASSUME Uncancelled, NEW r \in Request, RequestWins(r)
  PROVE  Owned' /\ SwitchStep
<1> USE DEF Uncancelled, UncancelledInv
<1>1. /\ vaultState = "ACTIVE" /\ vaultState' = "COOLING_OFF"
      /\ window' = window + 1 /\ claims' = claims /\ job' = job
  BY DEF RequestWins, ClaimVaultCoolingOff
<1>2. \A c \in claims : c.window # window'
  BY <1>1 DEF PipelineInv, CoreInv, WindowInv, TypeOK, DbTypeOK, Claim, Window
<1>3. Phase = "held" /\ Phase' = "cooling" /\ Handed' = {}
  BY <1>1, <1>2 DEF Phase, Handed
<1>4. \A w \in Worker : ~IsPerforming(w)
  BY <1>1
<1>5. Owned'
  BY <1>1, <1>4 DEF Owned, IsPerforming
<1> QED
  BY <1>3, <1>5 DEF SwitchStep, Switch!Next, Switch!Open

\* The claim for release fires the switch, before any letter is out.
LEMMA ClaimFires ==
  ASSUME Uncancelled, NEW v \in Worker, NEW e \in Event,
         ClaimVaultForRelease, StartPerform(v, e), claims' = claims
  PROVE  Owned' /\ SwitchStep
<1> USE DEF Uncancelled, UncancelledInv
<1>1. vaultState = "COOLING_OFF" /\ vaultState' = "RELEASING" /\ window' = window
  BY DEF ClaimVaultForRelease
<1>2. \A c \in claims : c.window # window
  BY <1>1 DEF PipelineInv, CoreInv, WindowInv
<1>3. /\ Phase = "cooling" /\ Phase' = "releasing"
      /\ Handed = {} /\ Handed' = {}
  BY <1>1, <1>2 DEF Phase, Handed
<1>4. \A w \in Worker : ~IsPerforming(w)
  BY <1>1
<1>5. job \in [Worker -> JobState]
  BY DEF PipelineInv, CoreInv, TypeOK
<1>6. /\ job'[v].pc = "deliver" /\ job'[v].window = window /\ job'[v].todo = Letter
      /\ \A w \in Worker : w # v => job'[w] = job[w]
  BY <1>5 DEF StartPerform, Job
<1>7. Owned'
  BY <1>1, <1>4, <1>6 DEF Owned, IsPerforming
<1> QED
  BY <1>3, <1>7 DEF SwitchStep, Switch!Next, Switch!Fire

\* A claim issued by a performer hands out a letter that was still in.
LEMMA ClaimHands ==
  ASSUME Uncancelled, NEW v \in Worker, IsPerforming(v), job[v].pc = "deliver",
         NEW l \in job[v].todo,
         claims' = claims \cup {[event |-> job[v].event, window |-> job[v].window,
                                 letter |-> l, by |-> v]},
         vaultState' = vaultState, window' = window
  PROVE  Handed' = Handed \cup {l} /\ SwitchStep
<1> USE DEF Uncancelled, UncancelledInv
<1>1. PICK c : c = [event |-> job[v].event, window |-> job[v].window,
                    letter |-> l, by |-> v]
  OBVIOUS
<1>2. c.window = window /\ c.letter = l /\ claims' = claims \cup {c}
  BY <1>1
<1>3. Handed' = Handed \cup {l}
  BY <1>2 DEF Handed
<1>4. l \notin Handed
  BY DEF Handed, PipelineInv, CoreInv, WindowInv
<1>5. Phase = "releasing" /\ Phase' = "releasing"
  BY DEF Phase
<1>6. l \in Letter
  BY PerformerTypes DEF PipelineInv
<1> QED
  BY <1>3, <1>4, <1>5, <1>6 DEF SwitchStep, Switch!Next, Switch!Hand

\* Only one worker performs, since all who do own the current window.
LEMMA OnePerformer ==
  ASSUME Uncancelled, NEW v \in Worker, NEW w \in Worker, IsPerforming(v), IsPerforming(w)
  PROVE  v = w
BY DEF Uncancelled, UncancelledInv, PipelineInv, CoreInv, WindowInv

\* deliver_letter, and a delivery that fails after its claim row is in.
LEMMA DeliverHands ==
  ASSUME Uncancelled, NEW v \in Worker, NEW l \in Letter, Deliver(v, l)
  PROVE  Owned' /\ SwitchStep
<1> USE DEF Uncancelled, UncancelledInv
<1>1. /\ IsPerforming(v) /\ job[v].pc = "deliver" /\ l \in job[v].todo
      /\ vaultState' = vaultState /\ window' = window
  BY DEF Deliver, IsPerforming, Performing, dbVars
<1>2. Handed' = Handed \cup {l} /\ SwitchStep
  BY <1>1, ClaimHands DEF Deliver
<1>3. job \in [Worker -> JobState]
  BY DEF PipelineInv, CoreInv, TypeOK
<1>4. /\ job'[v].pc = "deliver" /\ job'[v].window = job[v].window
      /\ job'[v].todo = job[v].todo \ {l}
      /\ \A w \in Worker : w # v => job'[w] = job[w]
  BY <1>1, <1>3 DEF Deliver, JobState
<1>5. \A w \in Worker : w # v => ~IsPerforming(w)
  BY <1>1, OnePerformer
<1>6. \A w \in Worker : IsPerforming(w)' => w = v
  BY <1>4, <1>5 DEF IsPerforming
<1>7. Letter \ job[v].todo \subseteq Handed /\ job[v].window = window /\ vaultState = "RELEASING"
  BY <1>1
<1>8. Owned'
  BY <1>1, <1>2, <1>4, <1>6, <1>7 DEF Owned
<1> QED
  BY <1>2, <1>8

LEMMA FailureHands ==
  ASSUME Uncancelled, NEW v \in Worker, PerformFails(v)
  PROVE  Owned' /\ SwitchStep
<1> USE DEF Uncancelled, UncancelledInv
<1>1. /\ IsPerforming(v) /\ vaultState' = vaultState /\ window' = window
  BY DEF PerformFails, IsPerforming, dbVars
<1>2. job \in [Worker -> JobState]
  BY DEF PipelineInv, CoreInv, TypeOK
<1>3. \A w \in Worker : w # v => ~IsPerforming(w)
  BY <1>1, OnePerformer
<1>4. \A w \in Worker : ~IsPerforming(w)'
  <2>1. job'[v].pc \notin Performing
    BY <1>2, AfterJobType DEF PerformFails, Performing
  <2>2. \A w \in Worker : w # v => job'[w] = job[w]
    BY <1>2 DEF PerformFails
  <2> QED
    BY <1>3, <2>1, <2>2 DEF IsPerforming
<1>5. Owned'
  BY <1>4 DEF Owned
<1>6. CASE claims' = claims
  <2>1. Phase' = Phase /\ Handed' = Handed
    BY <1>1, <1>6 DEF Phase, Handed
  <2> QED
    BY <1>5, <2>1 DEF SwitchStep
<1>7. ASSUME NEW l \in job[v].todo,
             claims' = claims \cup {[event |-> job[v].event, window |-> job[v].window,
                                     letter |-> l, by |-> v]}
      PROVE  SwitchStep
  <2>1. job[v].pc = "deliver"
    BY <1>1, <1>7 DEF PipelineInv, CoreInv, DeliveryInv
  <2> QED
    BY <1>1, <1>7, <2>1, ClaimHands
<1> QED
  BY <1>5, <1>6, <1>7 DEF PerformFails

\* set_vault_state(RELEASED) completes the release: every letter is out.
LEMMA ReleasedCompletes ==
  ASSUME Uncancelled, NEW v \in Worker, SetReleased(v)
  PROVE  Owned' /\ SwitchStep
<1> USE DEF Uncancelled, UncancelledInv
<1>1. /\ IsPerforming(v) /\ job[v].pc = "deliver" /\ job[v].todo = {}
      /\ vaultState' = "RELEASED" /\ window' = window /\ claims' = claims
  BY DEF SetReleased, SetVaultState, IsPerforming, Performing
<1>2. vaultState = "RELEASING" /\ Letter \subseteq Handed /\ job[v].window = window
  BY <1>1
<1>3. Handed \subseteq Letter
  BY DEF Handed, PipelineInv, CoreInv, TypeOK, Claim
<1>4. Phase = "releasing" /\ Phase' = "released" /\ Handed' = Handed /\ Handed = Letter
  BY <1>1, <1>2, <1>3 DEF Phase, Handed
<1>5. job \in [Worker -> JobState]
  BY DEF PipelineInv, CoreInv, TypeOK
<1>6. /\ job'[v].pc = "markReleased" /\ job'[v].window = window /\ job'[v].todo = {}
      /\ \A w \in Worker : w # v => job'[w] = job[w]
  BY <1>1, <1>2, <1>5 DEF SetReleased, JobState
<1>7. \A w \in Worker : IsPerforming(w)' => w = v
  BY <1>1, <1>6, OnePerformer DEF IsPerforming
<1>8. Owned'
  BY <1>1, <1>2, <1>4, <1>6, <1>7 DEF Owned
<1> QED
  BY <1>4, <1>8 DEF SwitchStep, Switch!Next, Switch!Complete

\* The end of a drill hands the switch back.
LEMMA DrillReturns ==
  ASSUME Uncancelled, NEW v \in Worker, ReturnActive(v)
  PROVE  Owned' /\ SwitchStep
<1> USE DEF Uncancelled, UncancelledInv
<1>1. /\ IsPerforming(v) /\ job[v].pc = "returnActive"
      /\ vaultState' = "ACTIVE" /\ window' = window /\ claims' = claims
  BY DEF ReturnActive, SetVaultState, IsPerforming, Performing
<1>2. vaultState = "RELEASED"
  BY <1>1
<1>3. Phase = "released" /\ Phase' = "held" /\ Handed' = Handed
  BY <1>1, <1>2 DEF Phase, Handed
<1>4. job \in [Worker -> JobState]
  BY DEF PipelineInv, CoreInv, TypeOK
<1>5. /\ job'[v].pc \notin Performing
      /\ \A w \in Worker : w # v => job'[w] = job[w]
  BY <1>4, AfterJobType DEF ReturnActive, Performing
<1>6. \A w \in Worker : ~IsPerforming(w)'
  BY <1>1, <1>5, OnePerformer DEF IsPerforming
<1>7. Owned'
  BY <1>6 DEF Owned
<1> QED
  BY <1>3, <1>7 DEF SwitchStep, Switch!Next, Switch!Return

-----------------------------------------------------------------------------
(* Which steps are invisible.                                              *)

\* The steps of timers, poll loops, crashes and the clock that claim nothing.
LEMMA QuietSteps ==
  ASSUME Uncancelled,
         \/ Tick /\ UNCHANGED pipeVars
         \/ UNCHANGED vars
         \/ \E e \in Event : TimerAbandons(e)
         \/ \E n \in Node : PollList(n) \/ \E e \in Event : PollSkips(n, e)
         \/ \E w \in Worker : MarkReleased(w)
         \/ \E n \in Node : Crash(n)
  PROVE  Invisible
<1> USE DEF dbVars, eventVars
<1>0. job \in [Worker -> JobState]
  BY DEF Uncancelled, PipelineInv, CoreInv, TypeOK
<1>1. CASE (Tick /\ UNCHANGED pipeVars) \/ UNCHANGED vars
  BY <1>1 DEF Tick, pipeVars, vars, Invisible, IsPerforming
<1>2. ASSUME NEW e \in Event, TimerAbandons(e) PROVE Invisible
  <2>1. \A w \in Worker : job'[w] = job[w] \/ job'[w].pc = "idle"
    BY <1>0, <1>2 DEF TimerAbandons, IdleJob, Job
  <2> QED
    BY <1>2, <2>1 DEF TimerAbandons, Invisible, IsPerforming, Performing
<1>3. ASSUME NEW n \in Node, PollList(n) PROVE Invisible
  <2>1. \A w \in Worker : job'[w] = job[w] \/ job'[w].pc \in {"idle", "listed"}
    BY <1>0, <1>3, AfterJobType DEF PollList
  <2> QED
    BY <1>3, <2>1 DEF PollList, Invisible, IsPerforming, Performing
<1>4. ASSUME NEW n \in Node, NEW e \in Event, PollSkips(n, e) PROVE Invisible
  <2>1. \A w \in Worker : job'[w] = job[w] \/ job'[w].pc \in {"idle", "listed"}
    BY <1>0, <1>4, AfterJobType DEF PollSkips
  <2> QED
    BY <1>4, <2>1 DEF PollSkips, Invisible, IsPerforming, Performing
<1>5. ASSUME NEW v \in Worker, MarkReleased(v) PROVE Invisible
  <2>1. \A w \in Worker : w # v => job'[w] = job[w]
    BY <1>0, <1>5 DEF MarkReleased
  <2>2. \/ job'[v].pc \in {"idle", "listed"}
        \/ /\ job'[v].pc = "returnActive" /\ job'[v].window = job[v].window
           /\ job'[v].todo = job[v].todo
    BY <1>0, <1>5, AfterJobType DEF MarkReleased, JobState
  <2>3. job[v].pc = "markReleased"
    BY <1>5 DEF MarkReleased
  <2> QED
    BY <1>5, <2>1, <2>2, <2>3 DEF MarkReleased, Invisible, IsPerforming, Performing
<1>6. ASSUME NEW n \in Node, Crash(n) PROVE Invisible
  <2>1. \A w \in Worker : job'[w] = job[w] \/ job'[w].pc = "idle"
    BY <1>0, <1>6 DEF Crash, IdleJob, Job
  <2> QED
    BY <1>6, <2>1 DEF Crash, Invisible, IsPerforming, Performing
<1> QED
  BY <1>1, <1>2, <1>3, <1>4, <1>5, <1>6

\* The steps of requests that open nothing.
LEMMA QuietRequests ==
  ASSUME Uncancelled, NEW r \in Request,
         \/ \E n \in Node, drill \in BOOLEAN : RequestBegin(r, n, drill)
         \/ RequestConflict(r) \/ RequestCreate(r) \/ RequestFails(r)
  PROVE  Invisible
<1> USE DEF dbVars, eventVars
<1>1. job \in [Worker -> JobState] /\ lastEvent \in Nat
  BY DEF Uncancelled, PipelineInv, CoreInv, TypeOK, DbTypeOK
<1>2. \A w \in Worker : job'[w] = job[w] \/ job'[w].pc = "sleeping"
  BY <1>1 DEF RequestBegin, RequestConflict, RequestCreate, RequestFails, Job
<1>3. vaultState' = vaultState /\ window' = window /\ claims' = claims
  BY DEF RequestBegin, RequestConflict, RequestCreate, RequestFails
<1> QED
  BY <1>2, <1>3 DEF Invisible, IsPerforming, Performing

\* Every step keeps the invariant and maps to a step of the switch.
LEMMA EveryStep ==
  ASSUME Uncancelled, [Next]_vars
  PROVE  UncancelledInv' /\ SwitchStep
<1>1. Invisible => Owned' /\ SwitchStep
  BY InvisibleStep
<1>2. ASSUME NEW e \in Event, TimerWins(e) PROVE Owned' /\ SwitchStep
  BY <1>2, ClaimFires DEF TimerWins, Worker
<1>3. ASSUME NEW n \in Node, NEW e \in Event, PollWins(n, e) PROVE Owned' /\ SwitchStep
  BY <1>3, ClaimFires DEF PollWins, Worker
<1>4. Owned' /\ SwitchStep
  BY <1>1, <1>2, <1>3, QuietSteps, QuietRequests, RequestsStayUncancelled, WinsOpens,
     DeliverHands, FailureHands, ReleasedCompletes, DrillReturns
  DEF Next, Running, RequestStep, TimerStep, PollStep, PerformStep
<1>5. UncancelledInv'
  BY <1>4, RequestsStayUncancelled DEF UncancelledInv, Owned
<1> QED
  BY <1>4, <1>5

\* Where nobody cancels, timers, poll loops, replicas, crashes and failures
\* together do what the dead-man's switch promises.
THEOREM Refinement == "cancel" \notin Ops => (Spec => ImplementsSwitch)
<1> SUFFICES ASSUME "cancel" \notin Ops PROVE Spec => ImplementsSwitch
  OBVIOUS
<1>1. Init => UncancelledInv /\ Switch!Init
  BY SwitchInit
<1>2. PipelineInv /\ UncancelledInv /\ [Next]_vars
        => UncancelledInv' /\ [Switch!Next]_<<Phase, Handed>>
  BY EveryStep DEF Uncancelled, SwitchStep
<1> QED
  BY InductiveInv, <1>1, <1>2, PTL DEF Spec, ImplementsSwitch, Switch!Spec

-----------------------------------------------------------------------------
(* Durability.                                                             *)

\* A step that touches no event, but perhaps the mark of a release that is over, and
\* drops no request without a fault keeps what a cooling vault has.
LEMMA DurableStays ==
  ASSUME Uncancelled, DurableInv, UNCHANGED <<event, lastEvent, cancelled>>,
         clock' \in Nat, clock <= clock',
         faults' = 0 => faults = 0,
         vaultState' = "COOLING_OFF" => vaultState = "COOLING_OFF" /\ released' = released,
         faults' = 0 => \A r \in Request : ReqAt(r, "create") => ReqAt(r, "create")'
  PROVE  DurableInv'
<1>1. /\ clock \in Nat /\ lastEvent \in 0..MaxReleases /\ event \in [Event -> EventRow]
      /\ \A drill \in BOOLEAN : CoolOf(drill) \in Nat
  BY BoundsAssumption, PipelineAssumption
     DEF Uncancelled, PipelineInv, CoreInv, TypeOK, DbTypeOK, CoolOf
<1>2. lastEvent \in OpenEvents => event[lastEvent] \in EventRow
  BY <1>1 DEF OpenEvents, Created, Event
<1>3. vaultState' = "COOLING_OFF" => OpenEvents' = OpenEvents
  BY DEF OpenEvents, Created
<1>4. ASSUME vaultState' = "COOLING_OFF", faults' = 0,
             lastEvent \in OpenEvents,
             event[lastEvent].deadline <= clock + CoolOf(event[lastEvent].drill)
      PROVE  /\ lastEvent' \in OpenEvents'
             /\ event'[lastEvent'].deadline <= clock' + CoolOf(event'[lastEvent'].drill)
  <2>1. PICK row \in EventRow : row = event[lastEvent]
    BY <1>2, <1>4
  <2>2. PICK cool \in Nat : cool = CoolOf(row.drill)
    BY <1>1, <2>1 DEF EventRow
  <2>3. row.deadline \in Nat /\ row.deadline <= clock + cool
    BY <1>4, <2>1, <2>2 DEF EventRow
  <2>4. row.deadline <= clock' + cool
    BY <1>1, <2>3
  <2> QED
    BY <1>3, <1>4, <2>1, <2>2, <2>4
<1> QED
  BY <1>4 DEF DurableInv, CoolOf

\* begin_release inserts its event open, with a deadline at most one cooling-off away.
LEMMA DurableCreate ==
  ASSUME Uncancelled, DurableInv, NEW r \in Request, RequestCreate(r)
  PROVE  DurableInv'
<1>1. /\ clock \in Nat /\ lastEvent \in 0..MaxReleases /\ event \in [Event -> EventRow]
      /\ released \subseteq Created /\ cancelled \subseteq Created
  BY DEF Uncancelled, PipelineInv, CoreInv, TypeOK, DbTypeOK
<1>2. req[r].endsAt <= clock + CoolOf(req[r].drill)
  BY DEF Uncancelled, PipelineInv, CoreInv, DueInv, RequestCreate, ReqAt
<1>3. /\ lastEvent' = lastEvent + 1 /\ UNCHANGED <<clock, released, cancelled>>
      /\ lastEvent + 1 \in Event
      /\ event'[lastEvent + 1] = [drill |-> req[r].drill, deadline |-> req[r].endsAt]
  BY <1>1, BoundsAssumption DEF RequestCreate, CreateReleaseEvent, NextEvent, Event
<1>4. lastEvent' \in OpenEvents'
  BY <1>1, <1>3 DEF OpenEvents, Created
<1>5. event'[lastEvent'].drill = req[r].drill /\ event'[lastEvent'].deadline = req[r].endsAt
  BY <1>3
<1> QED
  BY <1>2, <1>3, <1>4, <1>5 DEF DurableInv, CoolOf

\* Every step keeps it.  While the vault cools off nobody performs, so no event is
\* marked released.
LEMMA DurableStep ==
  ASSUME Uncancelled, DurableInv, [Next]_vars
  PROVE  DurableInv'
<1> USE DEF dbVars, eventVars, ReqAt
<1>1. /\ clock' \in Nat /\ clock <= clock' /\ faults \in Nat
      /\ req \in [Request -> ReqState]
      /\ \A r \in Request : req[r].pc \in {"idle", "claim", "create"}
  BY DueIsStable, PipelineAssumption
     DEF Uncancelled, UncancelledInv, PipelineInv, CoreInv, TypeOK
<1>2. faults' = 0 => faults = 0 /\ \A n \in Node : ~Crash(n)
  BY <1>1, FaultsGrow
<1>3. ASSUME UNCHANGED <<req, event, lastEvent, cancelled>>,
             vaultState' = "COOLING_OFF" => vaultState = "COOLING_OFF" /\ released' = released
      PROVE  DurableInv'
  BY <1>1, <1>2, <1>3, DurableStays
<1>4. ASSUME NEW r \in Request, RequestWins(r) PROVE DurableInv'
  <2>1. req'[r].pc = "create" /\ cancelled' = cancelled
    BY <1>1, <1>4 DEF RequestWins, ReqGoto, ReqState
  <2> QED
    BY <2>1 DEF DurableInv
<1>5. ASSUME NEW r \in Request,
             RequestConflict(r) \/ \E n \in Node, drill \in BOOLEAN : RequestBegin(r, n, drill)
      PROVE  DurableInv'
  <2>1. /\ req[r].pc # "create" /\ \A q \in Request : q # r => req'[q] = req[q]
        /\ UNCHANGED <<event, lastEvent, released, cancelled, vaultState>>
    BY <1>1, <1>5 DEF RequestConflict, RequestBegin, ReqDone
  <2> QED
    BY <1>1, <1>2, <2>1, DurableStays
<1>6. ASSUME NEW r \in Request,
             \/ CancelSetActive(r) \/ CancelFetchOpen(r) \/ CancelMark(r)
             \/ \E n \in Node : CancelBegin(r, n)
      PROVE  FALSE
  BY <1>1, <1>6 DEF CancelSetActive, CancelFetchOpen, CancelMark, CancelBegin, Uncancelled
<1>7. ASSUME NEW kind, Fault(kind), UNCHANGED dbVars PROVE DurableInv'
  BY <1>1, <1>7 DEF Fault, DurableInv
<1>8. ASSUME NEW e \in Event, TimerStep(e) PROVE DurableInv'
  BY <1>3, <1>8 DEF TimerStep, TimerWins, TimerAbandons, ClaimVaultForRelease
<1>9. ASSUME NEW n \in Node, PollStep(n) PROVE DurableInv'
  BY <1>3, <1>9 DEF PollStep, PollList, PollWins, PollSkips, ClaimVaultForRelease
<1>10. ASSUME NEW w \in Worker, PerformStep(w) PROVE DurableInv'
  <2>1. ASSUME NEW l \in Letter, Deliver(w, l) PROVE DurableInv'
    BY <1>3, <2>1 DEF Deliver
  <2>2. CASE SetReleased(w) \/ ReturnActive(w)
    BY <1>3, <2>2 DEF SetReleased, ReturnActive, SetVaultState
  <2>3. CASE MarkReleased(w)
    <3>1. vaultState = "RELEASED"
      BY <2>3 DEF MarkReleased, Uncancelled, UncancelledInv, IsPerforming, Performing
    <3> QED
      BY <1>3, <2>3, <3>1 DEF MarkReleased, MarkReleaseReleased
  <2> QED
    BY <1>10, <2>1, <2>2, <2>3 DEF PerformStep
<1>11. CASE Tick /\ UNCHANGED pipeVars
  BY <1>3, <1>11 DEF Tick, pipeVars
<1>12. CASE UNCHANGED vars
  BY <1>3, <1>12 DEF vars
<1>13. ASSUME NEW r \in Request, RequestFails(r) PROVE DurableInv'
  BY <1>7, <1>13 DEF RequestFails
<1>14. ASSUME NEW w \in Worker, PerformFails(w) PROVE DurableInv'
  BY <1>7, <1>14 DEF PerformFails
<1>15. ASSUME NEW n \in Node, Crash(n) PROVE DurableInv'
  BY <1>7, <1>15 DEF Crash
<1> QED
  BY <1>4, <1>5, <1>6, <1>8, <1>9, <1>10, <1>11, <1>12, <1>13, <1>14, <1>15, DurableCreate
  DEF Next, Running, RequestStep

\* Where nobody cancels and nothing fails, no begin_release leaves a vault cooling off
\* without an open event for the poll loop: each inserts its event, and no release is
\* marked before the vault has left COOLING_OFF (scheduler.rs, lines 413-414).
THEOREM Durable == "cancel" \notin Ops => (Spec => []CoolingOffIsDurable)
<1> SUFFICES ASSUME "cancel" \notin Ops PROVE Spec => []CoolingOffIsDurable
  OBVIOUS
<1>1. Init => UncancelledInv /\ DurableInv
  BY SwitchInit DEF Init, DbInit, DurableInv
<1>2. PipelineInv /\ UncancelledInv /\ DurableInv /\ [Next]_vars
        => UncancelledInv' /\ DurableInv'
  BY EveryStep, DurableStep DEF Uncancelled
<1>3. PipelineInv /\ DurableInv => CoolingOffIsDurable
  <2> SUFFICES ASSUME PipelineInv, DurableInv, vaultState = "COOLING_OFF", faults = 0,
                      \A r \in Request : ~ReqAt(r, "create")
               PROVE  \E e \in OpenEvents :
                        /\ FetchOpenRelease(e)
                        /\ event[e].deadline <= clock + CoolOf(event[e].drill)
    BY DEF CoolingOffIsDurable
  <2>1. /\ lastEvent \in OpenEvents
        /\ event[lastEvent].deadline <= clock + CoolOf(event[lastEvent].drill)
    BY DEF DurableInv
  <2>2. FetchOpenRelease(lastEvent)
    BY <2>1 DEF FetchOpenRelease, OpenEvents, Created, PipelineInv, CoreInv, TypeOK, DbTypeOK
  <2> QED
    BY <2>1, <2>2
<1> QED
  BY InductiveInv, <1>1, <1>2, <1>3, PTL DEF Spec

=============================================================================

--------------------------- MODULE ReleasePipeline ---------------------------
(***************************************************************************)
(* The release pipeline of crates/beacon-api/src/scheduler.rs together     *)
(* with the three request handlers that open and cancel releases.          *)
(*                                                                         *)
(* Actors, all concurrent, all talking to the rows of BeaconDb:            *)
(*   - HTTP requests: force_release, run_drill, cancel_release;            *)
(*   - one per-request timer for each release event begun by a request;    *)
(*   - the poll loop of every node that runs background workers.  A node   *)
(*     that loses leadership keeps its workers, so several may poll.       *)
(* A timer or a poll loop that wins the claim performs the release.        *)
(* Every database statement is a step; a crash of a node may come between  *)
(* any two and takes with it the node's requests, timers and poll loop.    *)
(***************************************************************************)
EXTENDS BeaconDb

CONSTANTS
  Node,       \* replicas of the API process
  Request,    \* slots for requests in flight
  Letter,     \* the letters a signal release delivers
  DrillCool,  \* the short cooling-off of a drill
  Ops,        \* what the principal does: a subset of "release", "drill", "cancel"
  Faults,     \* what fails: a subset of "crash", "error"
  MaxFaults   \* bound: number of faults

ASSUME PipelineAssumption ==
  /\ Node \cap Int = {}
  /\ DrillCool \in Nat \ {0}
  /\ Ops \subseteq {"release", "drill", "cancel"}
  /\ Faults \subseteq {"crash", "error"}
  /\ MaxFaults \in Nat

VARIABLES
  req,     \* req[r]: where the handler serving slot r is
  timer,   \* timer[e]: the host of e's timer and when its sleep ends
  due,     \* due[n]: the rest of the listing node n's poll loop works through
  job,     \* job[w]: what timer or poll loop w is doing
  claims,  \* release_claim rows, with the window and the worker that issued them
  faults   \* number of faults so far

pipeVars == <<req, timer, due, job, claims, faults>>
vars == <<clock, vaultState, event, lastEvent, released, cancelled, window,
          req, timer, due, job, claims, faults>>

NoNode == "none"

\* A timer is named by its event, a poll loop by its node.
Worker == Event \cup Node

RequestPc == {"idle", "claim", "create", "setActive", "fetchOpen", "markCancelled"}
JobPc     == {"idle", "sleeping", "listed", "deliver", "markReleased", "returnActive"}
Performing == {"deliver", "markReleased", "returnActive"}

ReqState   == [pc: RequestPc, node: Node \cup {NoNode}, drill: BOOLEAN, endsAt: Nat,
               event: Event \cup {NoEvent}]
TimerState == [node: Node \cup {NoNode}, wake: Nat]
JobState   == [pc: JobPc, event: Event \cup {NoEvent}, window: Window \cup {0},
               todo: SUBSET Letter]
Claim      == [event: Event, window: Window, letter: Letter, by: Worker]

Job(pc, e, win, todo) == [pc |-> pc, event |-> e, window |-> win, todo |-> todo]
IdleJob == Job("idle", NoEvent, 0, {})
ListingJob(rest) == Job(IF rest = {} THEN "idle" ELSE "listed", NoEvent, 0, {})
Req(pc, n, drill, endsAt, e) ==
  [pc |-> pc, node |-> n, drill |-> drill, endsAt |-> endsAt, event |-> e]
IdleReq == Req("idle", NoNode, FALSE, 0, NoEvent)

TypeOK ==
  /\ DbTypeOK
  /\ req \in [Request -> ReqState]
  /\ timer \in [Event -> TimerState]
  /\ due \in [Node -> SUBSET Event]
  /\ job \in [Worker -> JobState]
  /\ claims \subseteq Claim
  /\ faults \in 0..MaxFaults

Init ==
  /\ DbInit
  /\ req = [r \in Request |-> IdleReq]
  /\ timer = [e \in Event |-> [node |-> NoNode, wake |-> 0]]
  /\ due = [n \in Node |-> {}]
  /\ job = [w \in Worker |-> IdleJob]
  /\ claims = {}
  /\ faults = 0

CoolOf(drill) == IF drill THEN DrillCool ELSE Cool

ReqAt(r, pc) == req[r].pc = pc
ReqGoto(r, pc) == req' = [req EXCEPT ![r].pc = pc]
ReqDone(r) == req' = [req EXCEPT ![r] = IdleReq]

-----------------------------------------------------------------------------
(* force_release and run_drill, then begin_release_with_cool.              *)

\* The handler reads the vault, insists on ACTIVE and computes ends_at.
RequestBegin(r, n, drill) ==
  /\ (IF drill THEN "drill" ELSE "release") \in Ops
  /\ ReqAt(r, "idle")
  /\ vaultState = "ACTIVE"
  /\ window < MaxReleases
  /\ clock + CoolOf(drill) <= MaxClock
  /\ req' = [req EXCEPT ![r] = Req("claim", n, drill, clock + CoolOf(drill), NoEvent)]
  /\ UNCHANGED <<dbVars, timer, due, job, claims, faults>>

\* claim_vault_cooling_off(ACTIVE): the winner goes on, the others get a 409.
RequestWins(r) ==
  /\ ReqAt(r, "claim")
  /\ ClaimVaultCoolingOff("ACTIVE")
  /\ ReqGoto(r, "create")
  /\ UNCHANGED <<clock, eventVars, timer, due, job, claims, faults>>

RequestConflict(r) ==
  /\ ReqAt(r, "claim")
  /\ vaultState # "ACTIVE"
  /\ ReqDone(r)
  /\ UNCHANGED <<dbVars, timer, due, job, claims, faults>>

\* A bug: the timer does not sleep.
WakeTime_Now(drill) == clock

\* The clock stops at MaxClock, which stands for every later instant: no sleep
\* outlasts it.
WakeTime(drill) ==
  IF clock + CoolOf(drill) <= MaxClock THEN clock + CoolOf(drill) ELSE MaxClock

\* The durable event is inserted and its per-request timer starts to sleep.
RequestCreate(r) ==
  /\ ReqAt(r, "create")
  /\ lastEvent < MaxReleases
  /\ CreateReleaseEvent(req[r].drill, req[r].endsAt)
  /\ timer' = [timer EXCEPT ![NextEvent] =
                 [node |-> req[r].node, wake |-> WakeTime(req[r].drill)]]
  /\ job' = [job EXCEPT ![NextEvent] = Job("sleeping", NextEvent, 0, {})]
  /\ ReqDone(r)
  /\ UNCHANGED <<clock, vaultState, window, due, claims, faults>>

-----------------------------------------------------------------------------
(* cancel_release.                                                         *)

\* The handler reads the vault and insists on COOLING_OFF.
CancelBegin(r, n) ==
  /\ "cancel" \in Ops
  /\ ReqAt(r, "idle")
  /\ vaultState = "COOLING_OFF"
  /\ req' = [req EXCEPT ![r] = Req("setActive", n, FALSE, 0, NoEvent)]
  /\ UNCHANGED <<dbVars, timer, due, job, claims, faults>>

\* set_vault_state(ACTIVE), whatever happened since the read.
CancelSetActive(r) ==
  /\ ReqAt(r, "setActive")
  /\ SetVaultState("ACTIVE")
  /\ ReqGoto(r, "fetchOpen")
  /\ UNCHANGED <<clock, eventVars, timer, due, job, claims, faults>>

CancelFetchOpen(r) ==
  /\ ReqAt(r, "fetchOpen")
  /\ \/ OpenEvents = {} /\ ReqDone(r)
     \/ \E e \in Event :
          /\ FetchOpenRelease(e)
          /\ req' = [req EXCEPT ![r] = Req("markCancelled", req[r].node, FALSE, 0, e)]
  /\ UNCHANGED <<dbVars, timer, due, job, claims, faults>>

CancelMark(r) ==
  /\ ReqAt(r, "markCancelled")
  /\ MarkReleaseCancelled(req[r].event)
  /\ ReqDone(r)
  /\ UNCHANGED <<clock, vaultState, window, timer, due, job, claims, faults>>

-----------------------------------------------------------------------------
(* Who performs a release: elapse_release and release_elapse_tick.         *)

\* The winner of the claim starts perform_release with the event it holds.
StartPerform(w, e) ==
  job' = [job EXCEPT ![w] = Job("deliver", e, window, Letter)]

\* The timer's sleep is over: claim and perform, or abandon the release.
TimerWins(e) ==
  /\ job[e].pc = "sleeping" /\ timer[e].wake <= clock
  /\ ClaimVaultForRelease
  /\ StartPerform(e, e)
  /\ UNCHANGED <<clock, eventVars, req, timer, due, claims, faults>>

TimerAbandons(e) ==
  /\ job[e].pc = "sleeping" /\ timer[e].wake <= clock
  /\ vaultState # "COOLING_OFF"
  /\ job' = [job EXCEPT ![e] = IdleJob]
  /\ UNCHANGED <<dbVars, req, timer, due, claims, faults>>

\* The poll loop lists the due releases, then takes them one after the other.
PollList(n) ==
  /\ job[n].pc = "idle"
  /\ due' = [due EXCEPT ![n] = ListDueReleases]
  /\ job' = [job EXCEPT ![n] = ListingJob(ListDueReleases)]
  /\ UNCHANGED <<dbVars, req, timer, claims, faults>>

PollWins(n, e) ==
  /\ job[n].pc = "listed" /\ e \in due[n]
  /\ ClaimVaultForRelease
  /\ StartPerform(n, e)
  /\ due' = [due EXCEPT ![n] = @ \ {e}]
  /\ UNCHANGED <<clock, eventVars, req, timer, claims, faults>>

PollSkips(n, e) ==
  /\ job[n].pc = "listed" /\ e \in due[n]
  /\ vaultState # "COOLING_OFF"
  /\ due' = [due EXCEPT ![n] = @ \ {e}]
  /\ job' = [job EXCEPT ![n] = ListingJob(due[n] \ {e})]
  /\ UNCHANGED <<dbVars, req, timer, claims, faults>>

-----------------------------------------------------------------------------
(* perform_release.                                                        *)

\* What a worker does once its release is over, well or badly: the timer's
\* task ends, the poll loop takes the next event of its listing.
AfterJob(w) == ListingJob(IF w \in Node THEN due[w] ELSE {})

\* A bug: the first letter delivered ends the loop.
Deliver_FirstOnly(w, l) ==
  /\ job[w].pc = "deliver" /\ l \in job[w].todo
  /\ claims' = claims \cup {[event |-> job[w].event, window |-> job[w].window,
                             letter |-> l, by |-> w]}
  /\ job' = [job EXCEPT ![w].todo = {}]
  /\ UNCHANGED <<dbVars, req, timer, due, faults>>

\* deliver_letter: a claim token is issued and the recipient is notified.
Deliver(w, l) ==
  /\ job[w].pc = "deliver" /\ l \in job[w].todo
  /\ claims' = claims \cup {[event |-> job[w].event, window |-> job[w].window,
                             letter |-> l, by |-> w]}
  /\ job' = [job EXCEPT ![w].todo = @ \ {l}]
  /\ UNCHANGED <<dbVars, req, timer, due, faults>>

\* Bugs: RELEASED before the letters are out, or not written at all.
SetReleased_Early(w) ==
  /\ job[w].pc = "deliver"
  /\ SetVaultState("RELEASED")
  /\ job' = [job EXCEPT ![w].pc = "markReleased"]
  /\ UNCHANGED <<clock, eventVars, req, timer, due, claims, faults>>

SetReleased_NoState(w) ==
  /\ job[w].pc = "deliver" /\ job[w].todo = {}
  /\ job' = [job EXCEPT ![w].pc = "markReleased"]
  /\ UNCHANGED <<dbVars, req, timer, due, claims, faults>>

\* set_vault_state(RELEASED), whatever the state has become meanwhile.
SetReleased(w) ==
  /\ job[w].pc = "deliver" /\ job[w].todo = {}
  /\ SetVaultState("RELEASED")
  /\ job' = [job EXCEPT ![w].pc = "markReleased"]
  /\ UNCHANGED <<clock, eventVars, req, timer, due, claims, faults>>

MarkReleased(w) ==
  /\ job[w].pc = "markReleased"
  /\ MarkReleaseReleased(job[w].event)
  /\ job' = IF event[job[w].event].drill
            THEN [job EXCEPT ![w].pc = "returnActive"]
            ELSE [job EXCEPT ![w] = AfterJob(w)]
  /\ UNCHANGED <<clock, vaultState, window, req, timer, due, claims, faults>>

\* A drill hands the vault back.
ReturnActive(w) ==
  /\ job[w].pc = "returnActive"
  /\ SetVaultState("ACTIVE")
  /\ job' = [job EXCEPT ![w] = AfterJob(w)]
  /\ UNCHANGED <<clock, eventVars, req, timer, due, claims, faults>>

-----------------------------------------------------------------------------
(* Failures.                                                               *)

Fault(kind) ==
  /\ kind \in Faults
  /\ faults < MaxFaults
  /\ faults' = faults + 1

\* A statement of perform_release fails: `?` returns, the caller logs.  In
\* deliver_letter the claim row may already be in.
PerformFails(w) ==
  /\ Fault("error")
  /\ job[w].pc \in Performing
  /\ \/ UNCHANGED claims
     \/ \E l \in job[w].todo :
          claims' = claims \cup {[event |-> job[w].event, window |-> job[w].window,
                                  letter |-> l, by |-> w]}
  /\ job' = [job EXCEPT ![w] = AfterJob(w)]
  /\ UNCHANGED <<dbVars, req, timer, due>>

\* A statement of a request fails and the handler answers 500, or the client
\* hangs up and the server drops the handler between two statements.
RequestFails(r) ==
  /\ Fault("error")
  /\ ~ReqAt(r, "idle")
  /\ ReqDone(r)
  /\ UNCHANGED <<dbVars, timer, due, job, claims>>

\* The process of node n dies and restarts with nothing in memory.
Crash(n) ==
  /\ Fault("crash")
  /\ req' = [r \in Request |-> IF req[r].node = n THEN IdleReq ELSE req[r]]
  /\ job' = [w \in Worker |->
               IF w = n \/ (w \in Event /\ timer[w].node = n) THEN IdleJob ELSE job[w]]
  /\ due' = [due EXCEPT ![n] = {}]
  /\ UNCHANGED <<dbVars, timer, claims>>

-----------------------------------------------------------------------------
RequestStep(r) ==
  \/ RequestWins(r) \/ RequestConflict(r) \/ RequestCreate(r)
  \/ CancelSetActive(r) \/ CancelFetchOpen(r) \/ CancelMark(r)

TimerStep(e) == TimerWins(e) \/ TimerAbandons(e)

PollStep(n) == PollList(n) \/ \E e \in Event : PollWins(n, e) \/ PollSkips(n, e)

PerformStep(w) ==
  \/ \E l \in Letter : Deliver(w, l)
  \/ SetReleased(w) \/ MarkReleased(w) \/ ReturnActive(w)

\* All that happens on nodes that are up.
Running ==
  \/ Tick /\ UNCHANGED pipeVars
  \/ \E r \in Request, n \in Node, drill \in BOOLEAN : RequestBegin(r, n, drill)
  \/ \E r \in Request, n \in Node : CancelBegin(r, n)
  \/ \E r \in Request : RequestStep(r) \/ RequestFails(r)
  \/ \E e \in Event : TimerStep(e)
  \/ \E n \in Node : PollStep(n)
  \/ \E w \in Worker : PerformStep(w) \/ PerformFails(w)

Next == Running \/ \E n \in Node : Crash(n)

Spec == Init /\ [][Next]_vars

\* Time passes, a request in flight is served, a task that can run runs: the
\* runtime schedules every task and the poll loop wakes every two seconds.
\* Nothing says that a request is ever made, or that a fault ever occurs.
Fairness ==
  /\ WF_vars(Tick /\ UNCHANGED pipeVars)
  /\ \A r \in Request : WF_vars(RequestStep(r))
  /\ \A e \in Event : WF_vars(TimerStep(e))
  /\ \A n \in Node : WF_vars(PollStep(n))
  /\ \A w \in Worker : WF_vars(PerformStep(w))

FairSpec == Spec /\ Fairness

-----------------------------------------------------------------------------
(* What the pipeline promises.                                             *)

\* Each letter is handed out at most once per entry into COOLING_OFF, however
\* many timers and replicas race for the claim (migrations/0011, lines 9-13).
OneFiringPerWindow ==
  \A c, d \in claims : c.window = d.window /\ c.letter = d.letter => c = d

\* While the vault cools off, no letter of this cooling-off window is out: the
\* claim leaves COOLING_OFF before the first token is issued.
NothingLeaksWhileCooling ==
  vaultState = "COOLING_OFF" => \A c \in claims : c.window # window

\* A claim token is only ever issued for an existing event whose own deadline
\* has passed, whichever of timer and poll loop fired it.
ClaimsAreDue ==
  \A c \in claims : c.event \in Created /\ event[c.event].deadline <= clock

HandedOut(e, l) == \E c \in claims : c.event = e /\ c.letter = l
DeliveredInFull(e) == \A l \in Letter : HandedOut(e, l)

\* set_vault_state(RELEASED) comes after perform_release's last letter.
StateMeansDelivered == vaultState = "RELEASED" => \E e \in Created : DeliveredInFull(e)

\* RELEASED and released_at are only written after every letter is out: a
\* delivery that fails half-way never reports a completed release.
ReleasedMeansDelivered ==
  /\ \A e \in released : DeliveredInFull(e)
  /\ StateMeansDelivered

\* Unless something failed, and where nobody cancels, a vault in COOLING_OFF whose
\* begin_release is no longer in flight has an open event the poll loop can find:
\* the window would end without any timer (scheduler.rs, lines 413-414).
CoolingOffIsDurable ==
  /\ vaultState = "COOLING_OFF" /\ faults = 0
  /\ \A r \in Request : ~ReqAt(r, "create")
  => \E e \in OpenEvents : FetchOpenRelease(e) /\ event[e].deadline <= clock + CoolOf(event[e].drill)

\* A release that was cancelled is abandoned: no timer and no poll loop starts
\* to perform an event whose cancelled_at is set.
CancelledNeverFires ==
  [][\A w \in Worker :
       job[w].pc \notin Performing /\ job'[w].pc \in Performing
         => job'[w].event \notin cancelled]_job

\* Every cooling-off ends, and a claimed release is not left half-way, but for a
\* process that died.
NoLimbo ==
  vaultState \in {"COOLING_OFF", "RELEASING"}
    ~> vaultState \in {"ACTIVE", "RELEASED"} \/ faults # 0

\* A durable open event of a cooling vault makes it leave COOLING_OFF, even when
\* the timer was lost to a restart, unless the event is closed meanwhile.
DeadlineSurvivesRestart ==
  (vaultState = "COOLING_OFF" /\ OpenEvents # {})
    ~> (vaultState # "COOLING_OFF" \/ OpenEvents = {})

-----------------------------------------------------------------------------
(* The inductive invariant behind the four safety invariants above.        *)

IsPerforming(w) == job[w].pc \in Performing

\* Every claim won consumes a window: a performer and the claims it issued own
\* the window, and nobody owns the one still cooling off.
WindowInv ==
  /\ vaultState = "COOLING_OFF" => window # 0
  /\ \A c \in claims :
       /\ c.window <= window
       /\ vaultState = "COOLING_OFF" => c.window # window
  /\ \A w \in Worker : IsPerforming(w) =>
       /\ job[w].window \in 1..window
       /\ vaultState = "COOLING_OFF" => job[w].window # window
  /\ \A v, w \in Worker : IsPerforming(v) /\ IsPerforming(w)
       /\ job[v].window = job[w].window => v = w
  /\ \A w \in Worker : \A c \in claims :
       IsPerforming(w) /\ c.window = job[w].window =>
         c.by = w /\ c.event = job[w].event /\ c.letter \notin job[w].todo

IsDue(e) == e \in Created /\ event[e].deadline <= clock

\* Whoever holds an event may fire it only from its deadline on.
DueInv ==
  /\ clock <= MaxClock
  /\ \A r \in Request : req[r].pc \in {"claim", "create"} =>
       req[r].endsAt <= MaxClock /\ req[r].endsAt <= clock + CoolOf(req[r].drill)
  /\ \A e \in Event : job[e].pc = "sleeping" =>
       e \in Created /\ event[e].deadline <= timer[e].wake
  /\ \A n \in Node : \A e \in due[n] : IsDue(e)
  /\ \A w \in Worker : IsPerforming(w) => IsDue(job[w].event)

\* What a performer no longer has to do is done.
DeliveryInv ==
  \A w \in Worker : IsPerforming(w) =>
    /\ job[w].event \in Created
    /\ job[w].pc # "deliver" => job[w].todo = {}
    /\ \A l \in Letter \ job[w].todo : HandedOut(job[w].event, l)

\* All of it but the marks of finished releases: this part also holds where others
\* insert and close events of their own.
CoreInv ==
  /\ TypeOK
  /\ WindowInv /\ DueInv /\ DeliveryInv
  /\ OneFiringPerWindow /\ ClaimsAreDue

\* The inductive invariant: the four safety invariants and what carries them.
PipelineInv == CoreInv /\ ReleasedMeansDelivered

\* Where nobody cancels and nothing failed, the last event of a cooling vault is open,
\* or a begin_release is about to insert one.
DurableInv ==
  /\ cancelled = {}
  /\ vaultState = "COOLING_OFF" /\ faults = 0 =>
       \/ \E r \in Request : ReqAt(r, "create")
       \/ /\ lastEvent \in OpenEvents
          /\ event[lastEvent].deadline <= clock + CoolOf(event[lastEvent].drill)

=============================================================================

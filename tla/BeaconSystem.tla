---------------------------- MODULE BeaconSystem ----------------------------
(***************************************************************************)
(* The release pipeline and the signal aggregator over the same rows: the  *)
(* aggregator and the duress webhook open cooling-off, the poll loop fires *)
(* what they opened, and the principal's requests race with all of them.   *)
(***************************************************************************)
EXTENDS ReleasePipeline, SignalAggregator

\* The background workers run on replicas; request slots are named apart from them.
ASSUME SystemAssumption ==
  /\ Aggregator \subseteq Node
  /\ Request \cap (Node \cup Int) = {}

sysVars == <<vars, aggVars>>

SysInit == Init /\ AggInit

SysTypeOK == TypeOK /\ AggTypeOK

\* A statement of an aggregator's tick fails, or one of a panic release.
SysAggFails(n) == Fault("error") /\ AggFails(n) /\ UNCHANGED <<req, timer, due, job, claims>>
SysPanicFails == Fault("error") /\ PanicFails /\ UNCHANGED <<req, timer, due, job, claims>>

\* A node dies with everything it runs.
SysCrash(n) == Crash(n) /\ AggCrash(n)

SysNext ==
  \/ Running /\ UNCHANGED aggVars
  \/ AggNext /\ UNCHANGED pipeVars
  \/ \E n \in Aggregator : SysAggFails(n)
  \/ SysPanicFails
  \/ \E n \in Node : SysCrash(n)

SysSpec == SysInit /\ [][SysNext]_sysVars

\* As in the pipeline; the aggregator loop and a webhook handler keep running,
\* and nothing says that anyone ever sends a signal.
SysFairness ==
  /\ WF_sysVars(Tick /\ UNCHANGED pipeVars /\ UNCHANGED aggVars)
  /\ \A e \in Event : WF_sysVars(TimerStep(e) /\ UNCHANGED aggVars)
  /\ \A n \in Node : WF_sysVars(PollStep(n) /\ UNCHANGED aggVars)
  /\ \A w \in Worker : WF_sysVars(PerformStep(w) /\ UNCHANGED aggVars)
  /\ \A r \in Request : WF_sysVars(RequestStep(r) /\ UNCHANGED aggVars)
  /\ \A n \in Aggregator : WF_sysVars(AggStep(n) /\ UNCHANGED pipeVars)
  /\ WF_sysVars(PanicStep /\ UNCHANGED pipeVars)

SysFairSpec == SysSpec /\ SysFairness

-----------------------------------------------------------------------------
(* What the system promises.                                               *)

Creating ==
  {r \in Request : ReqAt(r, "create")}
    \cup {n \in Aggregator : agg[n].pc \in {"notify", "create"}}
    \cup {x \in {0} : opener.pc \in {"notify", "create"}}

\* Each entry into COOLING_OFF is followed by at most one release event, whether
\* requests, overlapping aggregators or a panic release race for it: the side
\* effects of claim_vault_cooling_off happen once (beacon-db, lines 1423-1425).
OneEventPerOpening == lastEvent + Cardinality(Creating) <= window

\* The principal's silence alone, without a word from a buddy, never raises
\* ALERT nor makes the aggregator open a cooling-off, whatever it read when
\* (docs/how-it-works.md, section 4: one stale heartbeat is not enough).
SilenceAloneNeverTrips ==
  buddy = 0 => /\ vaultState # "ALERT"
               /\ \A n \in Aggregator : agg[n].next \notin {"ALERT", "COOLING_OFF"}

\* Where no buddy worries, a vault read as ACTIVE stays ACTIVE when a heartbeat or
\* a WELL came in less than half of MaxGap before the listing: each check-in resets
\* the countdown (docs/how-it-works.md, section 3, which promises it for the whole
\* gap; staleness grows from the first second, and half the threshold suffices).
CheckInKeepsActive ==
  \A n \in Aggregator :
    /\ agg[n].pc = "evaluate" /\ agg[n].seen = "ACTIVE" /\ buddy = 0
    /\ vouched < agg[n].now /\ 2 * (agg[n].now - vouched) < MaxGap
    => Evaluate("ACTIVE", Observations(agg[n].last, agg[n].now)) = "ACTIVE"

Silent == clock - attested >= MaxGap /\ ~bankSignal /\ buddy = 35 /\ ~duress

\* The switch trips: a principal who has gone silent for good, with a buddy who
\* cannot reach them, has the letters released.
SilenceTrips == <>[]Silent => <>(vaultState = "RELEASED")

\* The inductive invariants behind the types, the count of events and the silence.
\* What a tick decided to write is what set_vault_state may write.
SysInv ==
  /\ PipelineInv /\ AggTypeOK
  /\ \A n \in Aggregator : agg[n].pc = "setState" => agg[n].next \in Watchable
  /\ IsFiniteSet(Creating) /\ OneEventPerOpening

\* What a tick goes on with was read and decided in the same silence.
SilenceInv ==
  /\ SilenceAloneNeverTrips
  /\ buddy = 0 => \A n \in Aggregator : agg[n].seen # "ALERT"

\* Heartbeat and bank are too few classes for an alert.
SilenceIsTooFew == Cardinality(DOMAIN Weight \cap {"HEARTBEAT", "CDR"}) < MinClasses

\* What a tick evaluates is the last check-in before its listing: one that came
\* in later is not before the listing.
CheckInInv ==
  /\ attested \in 0..clock /\ vouched = attested
  /\ \A n \in Aggregator : agg[n].pc = "evaluate" =>
       /\ agg[n].last <= agg[n].now /\ agg[n].now <= clock
       /\ vouched = agg[n].last \/ agg[n].now <= vouched

\* Nearly half a gap of silence, from the heartbeat and the bank alike, stays under
\* half of the threshold.
HalfGapSilence ==
  [s \in DOMAIN Weight |->
     IF s \in {"HEARTBEAT", "CDR"} THEN Staleness((MaxGap - 1) \div 2) ELSE 0]
HalfGapIsCalm == ~ScoreAtLeast(HalfGapSilence, Threshold * 50)

\* A vault that cools off, releases or is released moves on along
\* can_transition only; nobody cancels here and there are no drills.
ReleaseRunsItsCourse ==
  [][(vaultState \in {"COOLING_OFF", "RELEASING", "RELEASED"})
       => CanTransition(vaultState, vaultState')]_vaultState

\* Where nobody cancels or drills and no aggregator gets past its listing, only the
\* release pipeline writes the state of a vault that has begun to cool off ...
Undisturbed == Ops \subseteq {"release"} /\ (Aggregator = {} \/ ~RegionListed)

\* ... who performs has claimed it, and nothing is a drill's.
CourseInv ==
  /\ \A n \in Aggregator : agg[n].pc \in {"idle", "panicked"}
  /\ \A r \in Request : req[r].pc \in {"idle", "claim", "create"} /\ ~req[r].drill
  /\ \A e \in Created : ~event[e].drill
  /\ \A w \in Worker : IsPerforming(w) =>
       job[w].pc # "returnActive" /\ vaultState \in {"RELEASING", "RELEASED"}

=============================================================================

----------------------------- MODULE HeldLetters -----------------------------
(***************************************************************************)
(* Letters that do not simply go out with the signal release: dated        *)
(* letters, time capsules and event letters, over the release pipeline     *)
(* whose RELEASED state unlocks what co-stewards may do.                   *)
(***************************************************************************)
EXTENDS ScheduledLetters, PostMortem

ASSUME HeldAssumption ==
  /\ Applier \subseteq Node
  /\ EventLetter \cap Dated = {}

heldVars == <<vars, schedVars, pmVars>>

HeldInit == Init /\ SchedInit /\ PmInit

HeldTypeOK == TypeOK /\ SchedTypeOK /\ PmTypeOK

\* A statement of a co-steward's request, or of an applier's tick, fails.
PmFails ==
  /\ Fault("error")
  /\ (\E d \in Deputy : VisitFails(d)) \/ (\E n \in Applier : ApplierFails(n))
  /\ UNCHANGED <<req, timer, due, job, claims>>

\* A node dies with everything it runs.
HeldCrash(n) == Crash(n) /\ SchedCrash(n) /\ PmCrash(n)

\* force_release and run_drill ask for the subscription before they begin.
BeginsAllowed ==
  \A r \in Request : ReqAt(r, "idle") /\ req'[r].pc = "claim" => AllowsRelease

HeldNext ==
  \/ Running /\ BeginsAllowed /\ UNCHANGED <<schedVars, pmVars>>
  \/ ExpireSubscription /\ UNCHANGED pmVars
  \/ (\E n \in Scheduler : SchedStep(n) \/ SchedFails(n)) /\ UNCHANGED pmVars
  \/ PmNext /\ UNCHANGED <<pipeVars, schedVars>>
  \/ PmFails /\ UNCHANGED schedVars
  \/ \E n \in Node : HeldCrash(n)

HeldSpec == HeldInit /\ [][HeldNext]_heldVars

\* As in the pipeline; the loops of the scheduler and the applier keep running, and
\* a co-steward's request is served.  Nobody has to make one, and no sweep has to end
\* the subscription.  Apart are the tasks in flight and the loops of the nodes.
TasksFair ==
  LET Others == UNCHANGED <<schedVars, pmVars>>
  IN /\ WF_heldVars(Tick /\ UNCHANGED pipeVars /\ Others)
     /\ \A r \in Request : WF_heldVars(RequestStep(r) /\ Others)
     /\ \A e \in Event : WF_heldVars(TimerStep(e) /\ Others)
     /\ \A w \in Worker : WF_heldVars(PerformStep(w) /\ Others)
     /\ \A d \in Deputy : WF_heldVars(VisitStep(d) /\ UNCHANGED <<pipeVars, schedVars>>)
     /\ \A n \in Applier : WF_heldVars(ApplierStep(n) /\ UNCHANGED <<pipeVars, schedVars>>)

PollLoop(n) == PollStep(n) /\ UNCHANGED <<schedVars, pmVars>>
SchedLoop(n) == SchedStep(n) /\ UNCHANGED pmVars

HeldFairness ==
  /\ TasksFair
  /\ \A n \in Node : WF_heldVars(PollLoop(n))
  /\ \A n \in Scheduler : WF_heldVars(SchedLoop(n))

HeldFairSpec == HeldSpec /\ HeldFairness

-----------------------------------------------------------------------------
(* What the promises to the letters come to.                               *)

Delivered(l) == \E c \in claims : c.letter = l

\* A letter with a date goes out, by its date or by an earlier release, unless
\* something failed or the subscription stopped allowing releases first: then it has
\* its date for good, and is not lost to it.  Nobody cancels here and there are no
\* drills (docs/api.md:205: on signal trigger or scheduled date, whichever comes first;
\* beacon-core, lines 192-193).
DatedLetterLeaves ==
  \A l \in Letter :
    date[l] # NoDate ~> \/ Delivered(l) \/ faults # 0
                        \/ [](~AllowsRelease /\ date[l] # NoDate)

\* A time capsule opens on its date, regardless of the vault's state
\* (migrations/0010_time_capsule.sql, lines 22-25).
CapsuleOpens ==
  \A l \in Capsule : date[l] # NoDate ~> Delivered(l) \/ faults # 0

\* A requested change whose hold runs out is settled: some applier or trigger
\* applies it, or somebody cancelled it, crashes notwithstanding.
DueChangeSettles ==
  \A c \in Change : c \in DueChanges ~> c \in applied \cup withdrawn

\* Unless something failed, an event letter marked as released is out, or its
\* trigger is still on the way to deliver it.
EventLetterNotLost ==
  faults = 0 =>
    \A l \in eventReleased :
      \/ \E k \in eventClaims : k.letter = l
      \/ \E d \in Deputy : visit[d].pc \in Firing /\ visit[d].letter = l

-----------------------------------------------------------------------------
(* The inductive invariant of all of it.                                   *)

\* A begin_release of the scheduler in flight carries a deadline its timer sleeps out.
SchedInv ==
  /\ SchedTypeOK
  /\ \A n \in Scheduler : sched[n].pc \in {"claim", "create"} =>
       sched[n].endsAt <= WakeTime(FALSE)

\* The event a deputy delivers for is a row.
TriggerInv ==
  \A d \in Deputy : visit[d].pc \in {"deliver", "markReleased"} => visit[d].event \in Created

\* The events of the deputies are marked released without a delivery of the pipeline,
\* so of its promises all but the one about those marks remain.
HeldInv ==
  /\ CoreInv /\ StateMeansDelivered
  /\ SchedInv /\ TriggerInv /\ PostMortemInv /\ EventLetterNotLost

=============================================================================

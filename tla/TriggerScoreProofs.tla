------------------------- MODULE TriggerScoreProofs -------------------------
(***************************************************************************)
(* Proofs about the scoring functions: score, should_alert and the soft    *)
(* threshold of evaluate only grow with the contributions, and staleness   *)
(* only grows with the time since the last attestation; for any weights,   *)
(* threshold, number of classes and gap.                                   *)
(***************************************************************************)
EXTENDS TriggerScore, FiniteSetTheorems, TLAPS

\* One contribution per subscription, and one set of them below another.
Evidence == [DOMAIN Weight -> Nat]

AtMost(less, more) == \A s \in DOMAIN Weight : less[s] <= more[s]

-----------------------------------------------------------------------------
\* Products and squares of naturals grow with their factors.
LEMMA ProductGrows ==
  ASSUME NEW i \in Nat, NEW j \in Nat, NEW k \in Nat, i <= j
  PROVE  k * i \in Nat /\ k * j \in Nat /\ k * i <= k * j
OBVIOUS

LEMMA SquareGrows ==
  ASSUME NEW i \in Nat, NEW j \in Nat, i <= j
  PROVE  i * i \in Nat /\ j * j \in Nat /\ i * i <= j * j
OBVIOUS

\* The term of one source grows with its contribution.
LEMMA SquaredGrows ==
  ASSUME NEW less \in Evidence, NEW more \in Evidence, AtMost(less, more), NEW s
  PROVE  Squared(less, s) \in Nat /\ Squared(more, s) \in Nat /\ Squared(less, s) <= Squared(more, s)
<1>1. CASE s \in DOMAIN Weight
  <2>1. /\ Weight[s] \in Nat /\ less[s] \in Nat /\ more[s] \in Nat /\ less[s] <= more[s]
        /\ s \in DOMAIN less /\ s \in DOMAIN more
    BY <1>1, ScoreAssumption DEF Evidence, AtMost
  <2>2. PICK i \in Nat, j \in Nat : i = Weight[s] * less[s] /\ j = Weight[s] * more[s] /\ i <= j
    BY <2>1, ProductGrows
  <2>3. i * i \in Nat /\ j * j \in Nat /\ i * i <= j * j
    BY <2>2, SquareGrows
  <2>4. Squared(less, s) = i * i /\ Squared(more, s) = j * j
    BY <2>1, <2>2 DEF Squared
  <2> QED
    BY <2>3, <2>4
<1>2. CASE s \notin DOMAIN Weight
  BY <1>2 DEF Squared, Evidence
<1> QED
  BY <1>1, <1>2

\* More evidence never lowers the score (beacon-core, score).
LEMMA ScoreGrows ==
  ASSUME NEW less \in Evidence, NEW more \in Evidence, AtMost(less, more)
  PROVE  /\ SumOfSquares(less) \in Nat /\ SumOfSquares(more) \in Nat
         /\ SumOfSquares(less) <= SumOfSquares(more)
<1> DEFINE l(s) == Squared(less, s)
           m(s) == Squared(more, s)
<1>1. \A s : l(s) \in Nat /\ m(s) \in Nat /\ l(s) <= m(s)
  BY SquaredGrows
<1>2. /\ SumOfSquares(less) = l("HEARTBEAT") + l("CDR") + l("APPLE") + l("GOOGLE")
           + l("MICROSOFT") + l("CALENDAR") + l("EMAIL") + l("BUDDY") + l("GUARDIAN")
           + l("DEATH_REGISTRY") + l("SENTINEL")
      /\ SumOfSquares(more) = m("HEARTBEAT") + m("CDR") + m("APPLE") + m("GOOGLE")
           + m("MICROSOFT") + m("CALENDAR") + m("EMAIL") + m("BUDDY") + m("GUARDIAN")
           + m("DEATH_REGISTRY") + m("SENTINEL")
  BY DEF SumOfSquares
<1> HIDE DEF l, m
<1> QED
  BY <1>1, <1>2

\* A level of the score that is reached stays reached.
LEMMA LevelGrows ==
  ASSUME NEW less \in Evidence, NEW more \in Evidence, AtMost(less, more),
         NEW level \in Nat, ScoreAtLeast(less, level)
  PROVE  ScoreAtLeast(more, level)
<1>1. PICK x \in Nat : x = level * level
  BY ProductGrows
<1> QED
  BY <1>1, ScoreGrows DEF ScoreAtLeast

\* A lower level is reached before a higher one.
LEMMA LevelsNest ==
  ASSUME NEW obs \in Evidence, NEW low \in Nat, NEW high \in Nat, low <= high,
         ScoreAtLeast(obs, high)
  PROVE  ScoreAtLeast(obs, low)
<1>1. AtMost(obs, obs)
  BY DEF AtMost, Evidence
<1>2. SumOfSquares(obs) \in Nat
  BY <1>1, ScoreGrows
<1> QED
  BY <1>2, SquareGrows DEF ScoreAtLeast

\* The classes of a set of sources.
ClassesOf(S) == {IndependenceClass(s) : s \in S}

Heard(obs) == {t \in DOMAIN obs : obs[t] >= 20}

\* There are finitely many classes.
LEMMA ClassesFinite ==
  ASSUME NEW S \in SUBSET Source
  PROVE  IsFiniteSet(ClassesOf(S)) /\ Cardinality(ClassesOf(S)) \in Nat
<1> DEFINE Names == Source \cup {"social_meta"} \cup {"human_attestation"}
<1>1. IsFiniteSet(Names)
  <2>1. /\ IsFiniteSet({})
        /\ \A T, x : IsFiniteSet(T) => IsFiniteSet(T \cup {x})
    BY FS_EmptySet, FS_AddElement
  <2>2. IsFiniteSet({} \cup {"HEARTBEAT"} \cup {"CDR"} \cup {"APPLE"} \cup {"GOOGLE"})
    BY <2>1
  <2>3. IsFiniteSet({} \cup {"HEARTBEAT"} \cup {"CDR"} \cup {"APPLE"} \cup {"GOOGLE"}
                      \cup {"MICROSOFT"} \cup {"CALENDAR"} \cup {"EMAIL"} \cup {"BUDDY"})
    BY <2>1, <2>2
  <2>4. Source = {} \cup {"HEARTBEAT"} \cup {"CDR"} \cup {"APPLE"} \cup {"GOOGLE"}
                   \cup {"MICROSOFT"} \cup {"CALENDAR"} \cup {"EMAIL"} \cup {"BUDDY"}
                   \cup {"GUARDIAN"} \cup {"DEATH_REGISTRY"} \cup {"SENTINEL"}
    BY DEF Source
  <2> QED
    BY <2>1, <2>3, <2>4
<1>2. ClassesOf(S) \in SUBSET Names
  BY DEF ClassesOf, IndependenceClass
<1>3. IsFiniteSet(ClassesOf(S))
  BY <1>1, <1>2, FS_Subset
<1> QED
  BY <1>3, FS_CardinalityType

\* More evidence is never of fewer classes (beacon-core, score).
LEMMA ClassesGrow ==
  ASSUME NEW less \in Evidence, NEW more \in Evidence, AtMost(less, more)
  PROVE  /\ IndependentClasses(less) \in Nat /\ IndependentClasses(more) \in Nat
         /\ IndependentClasses(less) <= IndependentClasses(more)
<1>1. Heard(less) \in SUBSET Source /\ Heard(more) \in SUBSET Source
  BY ScoreAssumption DEF Evidence, Heard
<1>2. Heard(less) \subseteq Heard(more)
  BY DEF Evidence, Heard, AtMost
<1>3. ClassesOf(Heard(less)) \in SUBSET ClassesOf(Heard(more))
  BY <1>2 DEF ClassesOf
<1>4. /\ IsFiniteSet(ClassesOf(Heard(more))) /\ Cardinality(ClassesOf(Heard(more))) \in Nat
      /\ Cardinality(ClassesOf(Heard(less))) \in Nat
  BY <1>1, ClassesFinite
<1>5. Cardinality(ClassesOf(Heard(less))) <= Cardinality(ClassesOf(Heard(more)))
  BY <1>3, <1>4, FS_Subset
<1>6. /\ IndependentClasses(less) = Cardinality(ClassesOf(Heard(less)))
      /\ IndependentClasses(more) = Cardinality(ClassesOf(Heard(more)))
  BY DEF IndependentClasses, ClassesOf, Heard
<1> QED
  BY <1>4, <1>5, <1>6

\* Evidence that raises an alert, or that meets the soft threshold, still does
\* when there is more of it.
LEMMA AlarmGrows ==
  ASSUME NEW less \in Evidence, NEW more \in Evidence, AtMost(less, more)
  PROVE  /\ ShouldAlert(less) => ShouldAlert(more)
         /\ SoftThreshold(less) => SoftThreshold(more)
<1>1. Threshold * 100 \in Nat /\ Threshold * 50 \in Nat /\ MinClasses \in Nat
  BY ScoreAssumption
<1>2. /\ ScoreAtLeast(less, Threshold * 100) => ScoreAtLeast(more, Threshold * 100)
      /\ ScoreAtLeast(less, Threshold * 50) => ScoreAtLeast(more, Threshold * 50)
  BY <1>1, LevelGrows
<1> QED
  BY <1>1, <1>2, ClassesGrow DEF ShouldAlert, SoftThreshold

\* An alert meets the soft threshold too; with a threshold of at least 0.2 the
\* soft threshold lies above the 0.1 under which a suspicion is dropped.
LEMMA AlarmsNest ==
  ASSUME NEW obs \in Evidence
  PROVE  /\ ShouldAlert(obs) => SoftThreshold(obs)
         /\ Threshold >= 20 => (SoftThreshold(obs) => ScoreAtLeast(obs, 1000))
<1>1. /\ Threshold * 100 \in Nat /\ Threshold * 50 \in Nat /\ MinClasses \in Nat \ {0}
      /\ Threshold * 50 <= Threshold * 100
      /\ Threshold >= 20 => 1000 <= Threshold * 50
  BY ScoreAssumption
<1>2. ScoreAtLeast(obs, Threshold * 100) => ScoreAtLeast(obs, Threshold * 50)
  BY <1>1, LevelsNest
<1>3. Threshold >= 20 => (ScoreAtLeast(obs, Threshold * 50) => ScoreAtLeast(obs, 1000))
  BY <1>1, LevelsNest
<1>4. IndependentClasses(obs) \in Nat
  BY ClassesGrow DEF AtMost, Evidence
<1> QED
  BY <1>1, <1>2, <1>3, <1>4 DEF ShouldAlert, SoftThreshold

-----------------------------------------------------------------------------
\* So does a quotient by a positive number.
LEMMA QuotientGrows ==
  ASSUME NEW i \in Nat, NEW j \in Nat, i <= j, NEW k \in Nat \ {0}
  PROVE  i \div k \in Nat /\ j \div k \in Nat /\ i \div k <= j \div k
OBVIOUS

\* Silence only grows staler (scheduler.rs, the heartbeat of aggregator_tick).
LEMMA StalenessGrows ==
  ASSUME NEW i \in Nat, NEW j \in Nat, i <= j
  PROVE  Staleness(i) \in Nat /\ Staleness(j) \in Nat /\ Staleness(i) <= Staleness(j)
<1> USE ScoreAssumption
<1>1. \A k \in Nat : k < MaxGap => (k * 100) \div MaxGap \in Nat /\ (k * 100) \div MaxGap <= 100
  <2> SUFFICES ASSUME NEW k \in Nat, k < MaxGap
               PROVE  (k * 100) \div MaxGap \in Nat /\ (k * 100) \div MaxGap <= 100
    OBVIOUS
  <2>1. k * 100 \in Nat /\ MaxGap * 100 \in Nat /\ k * 100 <= MaxGap * 100
    OBVIOUS
  <2>2. (MaxGap * 100) \div MaxGap = 100
    BY SMT
  <2> QED
    BY <2>1, <2>2, QuotientGrows
<1>2. i * 100 \in Nat /\ j * 100 \in Nat /\ i * 100 <= j * 100
  OBVIOUS
<1>3. (i * 100) \div MaxGap <= (j * 100) \div MaxGap
  BY <1>2, QuotientGrows
<1> QED
  BY <1>1, <1>3 DEF Staleness

=============================================================================

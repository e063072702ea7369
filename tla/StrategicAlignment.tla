------------------------- MODULE StrategicAlignment -------------------------
(***************************************************************************)
(* StrategicAlignmentModule (packages/scoring/src): how far an action      *)
(* serves or undermines the registered goals, initiatives and cooperative  *)
(* objectives, and the penalty that reaches RiskScoringEngine.             *)
(*                                                                         *)
(* The text of an action is the set of indicators it contains.             *)
(***************************************************************************)
EXTENDS AdaptiveScoring, FiniteSets, FiniteSetsExt

CONSTANTS Goals,         \* goals, loadDefaultStrategicContext and registerGoal
          Initiatives,   \* initiatives
          Objectives     \* cooperativeObjectives

ASSUME StrategyAssumption ==
    /\ \A g \in Goals :
          g.priority \in 0 .. Scale /\ g.horizon \in {"LONG_TERM", "MEDIUM_TERM", "SHORT_TERM"}
    /\ \A i \in Initiatives : i.importanceWeight \in 0 .. Scale
    /\ \A o \in Objectives : o.weight \in 0 .. Scale

ClampUnit(x) == Clamp(x, -Scale, Scale)

HorizonMultiplier == [LONG_TERM |-> 13000, MEDIUM_TERM |-> 10000, SHORT_TERM |-> 8000]

\* evaluateGoalAlignment, for one goal
GoalScore(text, g) ==
    LET signal == 2500 * Cardinality(text \cap g.alignmentIndicators)
                  - 3500 * Cardinality(text \cap g.misalignmentIndicators)
                  + (IF text \cap g.domains # {} THEN 1500 ELSE 0)
    IN  ClampUnit(Part(Part(signal, HorizonMultiplier[g.horizon]), g.priority))

ResourceConflict(types, i) == types \cap i.resourceDomains # {}

\* evaluateInitiativeAlignment, for one initiative
SynergyScore(text, types, i) ==
    LET synergy == Cardinality(text \cap i.synergyIndicators)
        signal == 3000 * synergy - 4000 * Cardinality(text \cap i.conflictIndicators)
                  - (IF ResourceConflict(types, i) /\ synergy = 0 THEN 2000 ELSE 0)
        modulated == CASE i.status = "SCALING" -> Part(signal, 11500)
                       [] i.status = "WINDING_DOWN" -> Part(signal, 7000)
                       [] OTHER -> signal
    IN  ClampUnit(Part(modulated, i.importanceWeight))

StatusInterference(text, types, i) ==
    /\ i.status = "WINDING_DOWN"
    /\ text \cap i.synergyIndicators = {}
    /\ ResourceConflict(types, i)

\* evaluateCooperativeImpactAlignment, for one objective
ImpactScore(text, impact, o) ==
    LET signal == 3000 * Cardinality(text \cap o.positiveSignals)
                  - 4000 * Cardinality(text \cap o.erosionSignals)
                  + Quotient(impact.cooperativeIntelligenceEvolution
                             + impact.predictiveSynergyDensity, 4)
    IN  ClampUnit(Part(signal, o.weight))

\* weightedAverage, as a number between 0 and 1 instead of -1 and 1
NormalizedAverage(S, value, weight) ==
    LET total == MapThenSumSet(LAMBDA x : weight[x], S)
        average == IF total > 0
                   THEN Quotient(MapThenSumSet(LAMBDA x : value[x] * weight[x], S), total) ELSE 0
    IN  (average + Scale) \div 2

\* computeOverallAlignment
OverallAlignment(text, types, impact) ==
    LET goal == NormalizedAverage(Goals, [g \in Goals |-> GoalScore(text, g)],
                                  [g \in Goals |-> g.priority])
        initiative == NormalizedAverage(Initiatives,
                          [i \in Initiatives |-> SynergyScore(text, types, i)],
                          [i \in Initiatives |-> i.importanceWeight])
        cooperative == NormalizedAverage(Objectives,
                          [o \in Objectives |-> ImpactScore(text, impact, o)],
                          [o \in Objectives |-> o.weight])
    IN  Clamp01(Part(goal, 4000) + Part(initiative, 3500) + Part(cooperative, 2500))

Magnitude(x) == IF x < 0 THEN -x ELSE x

\* The mean of a function over the set on which it is given, 0 for no element.
MeanOver(value) ==
    IF DOMAIN value = {} THEN 0
    ELSE MapThenSumSet(LAMBDA x : value[x], DOMAIN value) \div Cardinality(DOMAIN value)

\* contribution MISALIGNED or STRONGLY_MISALIGNED
MisalignedGoals(text) == {g \in Goals : GoalScore(text, g) <= -1500}

ConflictedInitiatives(text, types) ==
    {i \in Initiatives : \/ SynergyScore(text, types, i) < -1000
                         \/ ResourceConflict(types, i)}

ErodedObjectives(text, impact) == {o \in Objectives : ImpactScore(text, impact, o) < -1000}

\* computeMisalignmentPenalty
MisalignmentPenalty(text, types, impact) ==
    LET goals == MisalignedGoals(text)
        initiatives == ConflictedInitiatives(text, types)
        objectives == ErodedObjectives(text, impact)
        boosted ==
            Scale - OverallAlignment(text, types, impact)
            + Part(MeanOver([g \in goals |-> Magnitude(GoalScore(text, g))]), 1500)
            + Part(MeanOver([i \in initiatives |->
                                Magnitude(SynergyScore(text, types, i))
                                + (IF StatusInterference(text, types, i) THEN 1000 ELSE 0)]), 1200)
            + Part(MeanOver([o \in objectives |-> Magnitude(ImpactScore(text, impact, o))]), 1000)
        breadth == Cardinality({S \in {goals, initiatives, objectives} : S # {}})
    IN  Clamp01(CASE breadth = 3 -> Part(boosted, 12000)
                  [] breadth = 2 -> Part(boosted, 11000)
                  [] OTHER -> boosted)
=============================================================================

------------------------ MODULE ThresholdOptimization ------------------------
(***************************************************************************)
(* ThresholdOptimizationEngine                                             *)
(* (packages/scoring/src/ThresholdOptimizationEngine.ts): reinforcement    *)
(* signals are buffered, optimize turns the buffer into changes of the     *)
(* dimension sensitivities, of the conservatism bias and of the            *)
(* multipliers of the scoring engine, and each change is kept as a version *)
(* that rollback can go back to.  A method runs to its end before another  *)
(* one starts.                                                             *)
(*                                                                         *)
(* The weight of a signal is its confidence after the decay by its age.    *)
(* What reaches the report alone is left out: the shift of the threshold   *)
(* band, the running error rates, whether a delta was capped.              *)
(***************************************************************************)
EXTENDS AdaptiveScoring, FiniteSets, SequencesExt

CONSTANTS BaseRate, MinRate, MaxRate,   \* the learning rate and its clamps
          MinimumSignals,     \* minimumSignalCount
          MinimumSample,      \* overrides that a pattern needs; 5 in the code
          VersionsKept,       \* maxVersionHistory
          MaxSignals,         \* bound: signals received
          MaxVersions         \* bound: versions created

ASSUME OptimizationAssumption ==
    /\ MinRate \in 10 .. 1000 /\ MaxRate \in 500 .. 5000 /\ BaseRate \in 10 .. 5000
    /\ {MinimumSignals, MinimumSample, VersionsKept, MaxVersions} \subseteq Nat \ {0}
    /\ MaxSignals \in Nat

VARIABLES signalBuffer,          \* signals that wait for the next cycle
          signalHistory,         \* signals of the cycles so far
          ingested,              \* auxiliary: signals received, the id of the newest
          versionHistory,        \* the versions kept, oldest first
          versionCounter,
          dimensionSensitivity,
          conservatismBias

\* The lowest and the highest value of a sensitivity, and of the bias.
MinSensitivity == 4000
MaxSensitivity == 20000
MinBias == -6000
MaxBias == 6000

Sensitivity == MinSensitivity .. MaxSensitivity
Bias == MinBias .. MaxBias

\* The largest change of a sensitivity in a cycle: maxShiftPerCycle * 0.1.
MaxDelta == 5000

\* The largest change of the bias in a cycle.
MaxBiasDelta == 1500

-----------------------------------------------------------------------------
(* What a signal asks for.                                                 *)

\* A demand: the sum and the weight it adds for a dimension.
Demand(sum, weight) == [sum |-> sum, weight |-> weight]

NoDemand == Demand(0, 0)

\* The demand on dimension d: one on the dimensions a signal names, and one on all.
Named(s, d, onNamed, onAll) ==
    IF d \in s.named THEN Demand(Part(onNamed, s.weight) + Part(onAll, s.weight),
                                 s.weight + Part(3000, s.weight))
                     ELSE Demand(Part(onAll, s.weight), Part(3000, s.weight))

\* HUMAN_OVERRIDE: the disagreement on d, and a mild push by the verdict.
DemandOfOverride(s, d) ==
    LET disagreement ==
            IF d \in DOMAIN s.disagreements
            THEN Demand(-Part(s.disagreements[d], s.weight), s.weight) ELSE NoDemand
        Pushed(factor) == Demand(disagreement.sum + Part(factor, s.weight),
                                 disagreement.weight + Part(2000, s.weight))
    IN  CASE s.verdict = "APPROVED" -> Pushed(-800)
          [] s.verdict = "REJECTED" -> Pushed(800)
          [] s.verdict = "ESCALATED" -> disagreement

\* REAL_OUTCOME: the error of the prediction, a stability incident, an overrun.
DemandOfOutcome(s, d) ==
    LET error == s.compliance - s.predicted
        On(factor) == Demand(Part(factor, s.weight), s.weight)
    IN  CASE d = "regulatoryExposure" /\ error < -1000 -> On(Part(-error, 5000))
          [] d = "regulatoryExposure" /\ error > 1000 -> On(Part(-error, 3000))
          [] d = "predictedComplianceProbability" /\ error < -1000 -> On(Part(-error, 4000))
          [] d = "cooperativeSystemStability" /\ s.incident -> On(4000)
          [] d = "operationalRisk" /\ s.incident -> On(3000)
          [] d = "financialCost" /\ s.costRatio > 12000 ->
                On(Clamp(Part(s.costRatio - Scale, 3000), 0, 5000))
          [] OTHER -> NoDemand

DemandOf(s, d) ==
    CASE s.type = "FALSE_POSITIVE" -> Named(s, d, -6000, -1000)
      [] s.type = "MISSED_VIOLATION" ->
            Named(s, d, Part(8000, s.severity), Part(1500, s.severity))
      [] s.type = "HUMAN_OVERRIDE" -> DemandOfOverride(s, d)
      [] s.type = "REAL_OUTCOME" -> DemandOfOutcome(s, d)

-----------------------------------------------------------------------------
(* The adjustments derived from a batch of signals.                        *)

Total(Value(_), batch) == SumFunction([i \in DOMAIN batch |-> Value(batch[i].signal)])

\* The weighted mean, and 0 when nothing has weight.
Mean(sum, weight) == IF weight > 0 THEN Quotient(sum * Scale, weight) ELSE 0

\* Mutant: the sign of the demands is lost.
DimensionDelta_Relaxing(batch, d) ==
    Mean(-Total(LAMBDA s : DemandOf(s, d).sum, batch),
         Total(LAMBDA s : DemandOf(s, d).weight, batch))

\* computeDimensionDeltas.
DimensionDelta(batch, d) ==
    Mean(Total(LAMBDA s : DemandOf(s, d).sum, batch),
         Total(LAMBDA s : DemandOf(s, d).weight, batch))

\* The push of a signal on the bias.
BiasPressure(s) ==
    CASE s.type = "FALSE_POSITIVE" -> Part(-5000, s.weight)
      [] s.type = "MISSED_VIOLATION" -> Part(Part(7000, s.severity), s.weight)
      [] s.type = "HUMAN_OVERRIDE" /\ s.verdict = "APPROVED" -> Part(-3000, s.weight)
      [] s.type = "HUMAN_OVERRIDE" /\ s.verdict = "REJECTED" -> Part(2000, s.weight)
      [] s.type = "REAL_OUTCOME" /\ s.incident -> Part(4000, s.weight)
      [] s.type = "REAL_OUTCOME" /\ ~s.incident /\ s.compliance > 8500 ->
            Part(-1500, s.weight)
      [] OTHER -> 0

\* The pushes of the override pattern, each with the weight averageConfidence.
PatternPushes(pattern) ==
    IF pattern.sampleSize < MinimumSample THEN {}
    ELSE {p \in {-3000, 2000} : IF p < 0 THEN pattern.approvalRate > 6000
                                         ELSE pattern.rejectionRate > 5000}

\* computeConservatismDelta.
ConservatismDelta(batch, pattern) ==
    LET pushes == PatternPushes(pattern)
    IN  Mean(Total(BiasPressure, batch)
                + SumFunction([p \in pushes |-> Part(p, pattern.averageConfidence)]),
             Total(LAMBDA s : s.weight, batch)
                + Cardinality(pushes) * pattern.averageConfidence)

LearningRate(batch) ==
    Clamp(Part(BaseRate, Quotient(Total(LAMBDA s : s.weight, batch), Len(batch))),
          MinRate, MaxRate)

\* capDeltas.
CappedDeltas(batch) ==
    [d \in RiskDimension |->
        Clamp(Part(DimensionDelta(batch, d), LearningRate(batch)), -MaxDelta, MaxDelta)]

CappedBiasDelta(batch, pattern) ==
    Clamp(Part(ConservatismDelta(batch, pattern), LearningRate(batch)),
          -MaxBiasDelta, MaxBiasDelta)

\* The outcomes that the signals of a batch tell the classification engine, in order.
OutcomeOf(s) ==
    CASE s.type = "FALSE_POSITIVE" -> [violated |-> FALSE, severity |-> 0]
      [] s.type = "MISSED_VIOLATION" -> [violated |-> TRUE, severity |-> s.severity]
      [] s.type = "REAL_OUTCOME" /\ s.compliance > 7000 ->
            [violated |-> FALSE, severity |-> 0]
      [] s.type = "REAL_OUTCOME" /\ s.compliance <= 7000 ->
            [violated |-> TRUE, severity |-> Part(Scale - s.compliance, 8000)]

TellsOutcome(entry) == entry.signal.type # "HUMAN_OVERRIDE"

OutcomesOf(batch) ==
    FlattenSeq([i \in DOMAIN batch |->
                   IF TellsOutcome(batch[i]) THEN <<OutcomeOf(batch[i].signal)>> ELSE <<>>])

-----------------------------------------------------------------------------
(* The versions.                                                           *)

Version == [number : 1 .. MaxVersions, signals : Seq(1 .. MaxSignals),
            adaptiveMultipliers : [RiskDimension -> Sensitivity],
            dimensionSensitivity : [RiskDimension -> Sensitivity],
            conservatismBias : Bias, active : BOOLEAN]

\* A version's adaptiveMultipliers are a copy of the sensitivities.
NewVersion(number, signals, sensitivity, bias) ==
    [number |-> number, signals |-> signals, adaptiveMultipliers |-> sensitivity,
     dimensionSensitivity |-> sensitivity, conservatismBias |-> bias, active |-> TRUE]

\* Mutant: the versions before stay active.
CreateVersion_KeepsActive(signals, sensitivity, bias) ==
    /\ versionCounter < MaxVersions
    /\ versionCounter' = versionCounter + 1
    /\ versionHistory' = Newest(Append(versionHistory,
                                       NewVersion(versionCounter', signals, sensitivity, bias)),
                                VersionsKept)

\* createVersion, with the new values of the sensitivities and of the bias.
CreateVersion(signals, sensitivity, bias) ==
    /\ versionCounter < MaxVersions
    /\ versionCounter' = versionCounter + 1
    /\ LET before == [i \in DOMAIN versionHistory |->
                         [versionHistory[i] EXCEPT !.active = FALSE]]
       IN  versionHistory' = Newest(Append(before, NewVersion(versionCounter', signals,
                                                              sensitivity, bias)),
                                    VersionsKept)

OptimizationInit ==
    /\ signalBuffer = <<>> /\ signalHistory = <<>> /\ ingested = 0
    /\ dimensionSensitivity = Neutral /\ conservatismBias = 0
    /\ versionHistory = <<NewVersion(1, <<>>, Neutral, 0)>>
    /\ versionCounter = 1

-----------------------------------------------------------------------------
(* The operations.                                                         *)

\* ingestSignal.
IngestSignal(s) ==
    /\ ingested < MaxSignals
    /\ ingested' = ingested + 1
    /\ signalBuffer' = Append(signalBuffer, [id |-> ingested', signal |-> s])
    /\ UNCHANGED <<signalHistory, versionHistory, versionCounter, dimensionSensitivity,
                   conservatismBias, multipliers, violationHistory>>

\* The archive of the signals, cut when it has grown too long.
Archive(batch) ==
    LET all == signalHistory \o batch
    IN  IF Len(all) > 20 * VersionsKept THEN Newest(all, 10 * VersionsKept) ELSE all

Ids(entries) == [i \in DOMAIN entries |-> entries[i].id]

\* Mutant: the buffer is not emptied.
Optimize_KeepsBuffer(pattern) ==
    LET batch == signalBuffer
        deltas == CappedDeltas(batch)
    IN  /\ Len(batch) >= MinimumSignals
        /\ signalBuffer' = batch
        /\ signalHistory' = Archive(batch)
        /\ dimensionSensitivity' = dimensionSensitivity
        /\ conservatismBias' = conservatismBias
        /\ multipliers' = ApplyDeltas(multipliers, deltas, LearningRate(batch))
        /\ RecordOutcomes(OutcomesOf(batch))
        /\ CreateVersion(Ids(batch), dimensionSensitivity', conservatismBias')
        /\ UNCHANGED ingested

\* optimize, with what is known of the pattern of the overrides.
Optimize(pattern) ==
    LET batch == signalBuffer
        deltas == CappedDeltas(batch)
    IN  /\ Len(batch) >= MinimumSignals
        /\ signalBuffer' = <<>>
        /\ signalHistory' = Archive(batch)
        /\ dimensionSensitivity' = [d \in RiskDimension |->
              Clamp(dimensionSensitivity[d] + deltas[d], MinSensitivity, MaxSensitivity)]
        /\ conservatismBias' =
              Clamp(conservatismBias + CappedBiasDelta(batch, pattern), MinBias, MaxBias)
        /\ multipliers' = ApplyDeltas(multipliers, deltas, LearningRate(batch))
        /\ RecordOutcomes(OutcomesOf(batch))
        /\ CreateVersion(Ids(batch), dimensionSensitivity', conservatismBias')
        /\ UNCHANGED ingested

\* Mutant: the operands are swapped.
RollbackDeltas_Swapped(v) ==
    [d \in RiskDimension |-> multipliers[d] - v.adaptiveMultipliers[d]]

\* The delta that rollback asks for, unless it is negligible.
RollbackDeltas(v) ==
    [d \in RiskDimension |->
        LET delta == v.adaptiveMultipliers[d] - multipliers[d]
        IN  IF delta \in -1 .. 1 THEN 0 ELSE delta]

\* rollback to a version of the history; the classification engine is not touched.
Rollback(i) ==
    LET v == versionHistory[i]
    IN  /\ dimensionSensitivity' = v.dimensionSensitivity
        /\ conservatismBias' = v.conservatismBias
        /\ multipliers' = ApplyDeltas(multipliers, RollbackDeltas(v), Scale)
        /\ CreateVersion(<<>>, dimensionSensitivity', conservatismBias')
        /\ UNCHANGED <<signalBuffer, signalHistory, ingested, violationHistory>>

\* The types, with the clamps of the sensitivities and of the bias.
OptimizationTypeOK ==
    /\ dimensionSensitivity \in [RiskDimension -> Sensitivity] /\ conservatismBias \in Bias
    /\ versionCounter \in 1 .. MaxVersions /\ ingested \in 0 .. MaxSignals
    /\ Len(signalBuffer) <= ingested
    /\ versionHistory \in Seq(Version) /\ Len(versionHistory) <= VersionsKept
=============================================================================

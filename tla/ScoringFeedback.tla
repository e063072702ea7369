-------------------------- MODULE ScoringFeedback --------------------------
(***************************************************************************)
(* The feedback loops of packages/scoring together: HumanOverrideInterface *)
(* and ThresholdOptimizationEngine change the same scoring engine and the  *)
(* same classification engine, a resolved override becomes a signal, and   *)
(* the pattern of the overrides reaches optimize.  Nothing in the          *)
(* repository fixes the order of the calls.                                *)
(***************************************************************************)
EXTENDS HumanOverride, ThresholdOptimization, SequencesExt

CONSTANT SignalInputs   \* signals other than those made of an override

\* Confidences, severities and compliances are clamped to 0 .. 1 where a signal is made.
ASSUME SignalAssumption ==
    \A s \in SignalInputs :
        /\ s.type \in {"FALSE_POSITIVE", "MISSED_VIOLATION", "REAL_OUTCOME"}
        /\ s.weight \in 0 .. Scale
        /\ s.type = "MISSED_VIOLATION" => s.severity \in 0 .. Scale
        /\ s.type = "REAL_OUTCOME" => s.compliance \in 0 .. Scale

overrideVars == <<requests, overrideHistory>>

optimizationVars == <<signalBuffer, signalHistory, ingested, versionHistory, versionCounter,
                      dimensionSensitivity, conservatismBias>>

vars == <<multipliers, violationHistory, overrideVars, optimizationVars>>

ScoringInit == AdaptiveInit /\ OverrideInit /\ OptimizationInit

\* createOverrideSignal, whose confidence is the stakeholder's.
SignalOfOverride(record) ==
    [type |-> "HUMAN_OVERRIDE", verdict |-> record.verdict,
     disagreements |-> record.rationale.disagreements, weight |-> record.rationale.confidence]

\* optimize without a signal of the override pattern.
NoPattern == [sampleSize |-> 0, approvalRate |-> 0, rejectionRate |-> 0, averageConfidence |-> 0]

ScoringNext ==
    \/ OverrideNext /\ UNCHANGED optimizationVars
    \/ /\ \/ \E s \in SignalInputs : IngestSignal(s)
          \/ \E i \in DOMAIN overrideHistory :
                IngestSignal(SignalOfOverride(overrideHistory[i]))
          \/ Optimize(NoPattern)
          \/ Optimize(AdaptationSignal)
          \/ \E i \in DOMAIN versionHistory : Rollback(i)
       /\ UNCHANGED overrideVars

ScoringSpec == ScoringInit /\ [][ScoringNext]_vars

-----------------------------------------------------------------------------
(* Properties.                                                             *)

\* A signal that waits, with the number it was received under.
WaitingSignal == [id : 1 .. MaxSignals,
                  signal : SignalInputs \cup {SignalOfOverride(r) : r \in OverrideRecord}]

\* Every multiplier, sensitivity and the bias stay within their clamps, and the histories
\* hold what their types say.
ScoringTypeOK ==
    AdaptiveTypeOK /\ OverrideTypeOK /\ OptimizationTypeOK /\ signalBuffer \in Seq(WaitingSignal)

\* Whatever the order of optimizations and rollbacks, exactly one version is active, it is
\* the newest, and it holds the sensitivities and the bias that are in force; the numbers
\* of the versions kept have no gap.
ActiveVersionIsState ==
    LET newest == Len(versionHistory)
    IN  /\ {i \in DOMAIN versionHistory : versionHistory[i].active} = {newest}
        /\ versionHistory[newest].dimensionSensitivity = dimensionSensitivity
        /\ versionHistory[newest].conservatismBias = conservatismBias
        /\ \A i \in DOMAIN versionHistory :
              versionHistory[i].number = versionCounter - newest + i

\* The signals that have been processed.
Processed == ingested - Len(signalBuffer)

\* ids are the n newest ones up to the one numbered last, in the order they came.
Consecutive(ids, last) == ids = [i \in 1 .. Len(ids) |-> last - Len(ids) + i]

\* No signal is lost or processed twice: the archive and the buffer hold the newest signals
\* in the order they came, and the versions kept name the newest of the processed ones,
\* each once, however optimizations, rollbacks and the trimming of both follow each other.
SignalsProcessedOnce ==
    /\ Consecutive(Ids(signalHistory \o signalBuffer), ingested)
    /\ Consecutive(FlattenSeq([i \in DOMAIN versionHistory |-> versionHistory[i].signals]),
                   Processed)

\* The classification engine has heard each resolved override once and each processed
\* signal that is an outcome once; an override that is also a signal does not count twice.
\* The archive tells which they were until it is cut for the first time.
OutcomesCounted ==
    LET resolved == Cardinality({i \in DOMAIN requests : requests[i].resolved})
        told == Cardinality({i \in DOMAIN signalHistory : TellsOutcome(signalHistory[i])})
    IN  Len(signalHistory) = Processed =>
           Len(violationHistory) =
              (IF resolved + told > HistoryWindow THEN HistoryWindow ELSE resolved + told)

Distance(a, b) == IF a < b THEN b - a ELSE a - b

\* The sensitivities and the bias become those of version v; each multiplier moves towards
\* the version's value, never past it, and over half of the way unless the lowest multiplier
\* stops it.
Approached(v) ==
    /\ dimensionSensitivity' = v.dimensionSensitivity
    /\ conservatismBias' = v.conservatismBias
    /\ \A d \in RiskDimension :
          LET target == v.adaptiveMultipliers[d]
          IN  /\ \/ multipliers[d] <= multipliers'[d] /\ multipliers'[d] <= target
                 \/ multipliers[d] >= multipliers'[d] /\ multipliers'[d] >= target
              /\ \/ 2 * Distance(multipliers'[d], target) <= Distance(multipliers[d], target) + 2
                 \/ multipliers'[d] = MinMultiplier

\* A rollback restores the sensitivities and the bias, and brings the multipliers at least
\* half of the way back.
RollbackApproaches ==
    [][\A i \in DOMAIN versionHistory : Rollback(i) => Approached(versionHistory[i])]_vars

Only(type) == \A i \in DOMAIN signalBuffer : signalBuffer[i].signal.type = type

\* The buffer is emptied by optimize alone.
Optimized == signalBuffer # <<>> /\ signalBuffer' = <<>>

\* A cycle of missed violations relaxes nothing and a cycle of false positives tightens
\* nothing, in the sensitivities and in the multipliers; the bias follows as well, unless
\* the pattern of the overrides speaks for the other side.
SignalsPushTheirWay ==
    [][/\ Optimized /\ Only("MISSED_VIOLATION") =>
            /\ \A d \in RiskDimension : /\ multipliers'[d] >= multipliers[d]
                                        /\ dimensionSensitivity'[d] >= dimensionSensitivity[d]
            /\ AdaptationSignal.approvalRate <= 6000 => conservatismBias' >= conservatismBias
       /\ Optimized /\ Only("FALSE_POSITIVE") =>
            /\ \A d \in RiskDimension : /\ multipliers'[d] <= multipliers[d]
                                        /\ dimensionSensitivity'[d] <= dimensionSensitivity[d]
            /\ AdaptationSignal.rejectionRate <= 5000 => conservatismBias' <= conservatismBias]_vars
=============================================================================

--------------------------- MODULE Classification ---------------------------
(***************************************************************************)
(* ClassificationEngine.classify (packages/scoring/src): a decision's      *)
(* score, the caller's context and the violation history of                *)
(* AdaptiveScoring decide between auto-approve, flag-for-review and block. *)
(*                                                                         *)
(* Scores and thresholds are in hundredths of a point: 100 points are      *)
(* Scale.  The entropy of the score's breakdown is a part of the context.  *)
(***************************************************************************)
EXTENDS AdaptiveScoring, FiniteSets, Functions

ClassificationState == {"auto-approve", "flag-for-review", "block"}

MaxShift == 1800
MinReviewGap == 1200

ViolationRate(events) ==
    IF events = <<>> THEN 0
    ELSE (Cardinality({i \in DOMAIN events : events[i].violated}) * Scale) \div Len(events)

\* severityAdjustedRate; a violation counts 0.1 at least.
SeverityRate(history) ==
    SumFunction([i \in DOMAIN history |->
                    IF history[i].violated THEN Clamp(history[i].severity, 1000, Scale) ELSE 0])
        \div Len(history)

\* How many outcomes are the older half of a history: the only one, if it has no other.
OlderHalf(history) == IF Len(history) = 1 THEN 1 ELSE Len(history) \div 2

\* Mutant: the rates are subtracted the other way round.
Momentum_Reversed(history) ==
    LET older == SubSeq(history, 1, OlderHalf(history))
        recent == SubSeq(history, OlderHalf(history) + 1, Len(history))
    IN  Clamp01((ViolationRate(older) - ViolationRate(recent) + Scale) \div 2)

\* The rate of the recent half against the rate of the older half.
Momentum(history) ==
    LET older == SubSeq(history, 1, OlderHalf(history))
        recent == SubSeq(history, OlderHalf(history) + 1, Len(history))
    IN  Clamp01((ViolationRate(recent) - ViolationRate(older) + Scale) \div 2)

\* computeViolationTrendSnapshot and the signal that classify makes of it.
ViolationTrend(history) ==
    IF history = <<>> THEN 0
    ELSE Clamp01(Part(SeverityRate(history), 7000) + Part(Momentum(history), 3000))

\* How far both thresholds move, from the conservatism signal and the entropy.
ThresholdShift(posture, entropy, trend) ==
    LET signal == Clamp01(Part(posture, 4500) + Part(entropy, 2500) + Part(trend, 3000))
    IN  Part(2 * (signal - 5000), MaxShift) + Part(entropy - 5000, 800)

\* normalizeThresholdBand
NormalizedBand(approve, block) ==
    LET a == Clamp(approve, 5000, 9500)
        b == Clamp(block, 500, 7000)
        center == (a + b) \div 2
    IN  IF a - b < MinReviewGap
        THEN [autoApproveMin |-> Clamp(center + MinReviewGap \div 2, 5000, 9500),
              blockMax |-> Clamp(center - MinReviewGap \div 2, 500, 7000)]
        ELSE [autoApproveMin |-> a, blockMax |-> b]

ThresholdBand(posture, entropy, trend) ==
    LET shift == ThresholdShift(posture, entropy, trend)
    IN  NormalizedBand(7200 + shift, 4200 + shift)

ResolveState(score, band) ==
    IF score >= band.autoApproveMin THEN "auto-approve"
    ELSE IF score <= band.blockMax THEN "block" ELSE "flag-for-review"

\* applyPreemptiveEscalation
Escalated(state, lift, reviewThreshold, blockThreshold) ==
    IF lift >= blockThreshold THEN "block"
    ELSE IF lift >= reviewThreshold /\ state = "auto-approve" THEN "flag-for-review" ELSE state

\* classify
Classify(score, context, history) ==
    LET band == ThresholdBand(Clamp01(context.riskPosture), Clamp01(context.entropyLevel),
                              ViolationTrend(history))
    IN  Escalated(ResolveState(score, band), Clamp01(context.preemptiveRiskLift),
                  Clamp01(context.preemptiveEscalationThreshold),
                  Clamp01(context.preemptiveBlockThreshold))

\* The order of the states from the mildest to the strictest.
Strictness(state) ==
    CASE state = "auto-approve" -> 0 [] state = "flag-for-review" -> 1 [] OTHER -> 2
=============================================================================

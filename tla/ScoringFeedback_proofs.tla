----------------------- MODULE ScoringFeedback_proofs -----------------------
(* The ranges of the scoring package's parameters, its active version, its   *)
(* rollback, what becomes of signals and outcomes, and which way a cycle     *)
(* pushes, for any stakeholders, signals, rates and bounds.                  *)
EXTENDS ScoringFeedback, FiniteSetTheorems, TLAPS

\* Whatever it is given, Clamp stays between its limits.
LEMMA ClampRange ==
  ASSUME NEW value, NEW low \in Int, NEW high \in Int, low <= high
  PROVE  Clamp(value, low, high) \in low .. high
<1>1. CASE value \in low .. high
  BY <1>1 DEF Clamp
<1>2. CASE value \notin low .. high
  <2>1. Clamp(value, low, high) = low \/ Clamp(value, low, high) = high
    BY <1>2, Zenon DEF Clamp
  <2> QED
    BY <2>1
<1> QED
  BY <1>1, <1>2

LEMMA ClampedMultiplier ==
  ASSUME NEW value
  PROVE  ClampMultiplier(value) \in Multiplier
<1>1. MinMultiplier \in Int /\ MaxMultiplier \in Int /\ MinMultiplier <= MaxMultiplier
  BY DEF MinMultiplier, MaxMultiplier
<1> QED
  BY <1>1, ClampRange, Zenon DEF ClampMultiplier, Multiplier

\* The multipliers stay in range, whatever they were and whatever is added to them.
LEMMA AppliedMultipliers ==
  ASSUME NEW m, NEW deltas, NEW rate
  PROVE  ApplyDeltas(m, deltas, rate) \in [RiskDimension -> Multiplier]
BY ClampedMultiplier, SMT DEF ApplyDeltas

LEMMA CalibratedMultipliers ==
  ASSUME NEW m, NEW p, NEW outcome, NEW rate
  PROVE  Calibrate(m, p, outcome, rate) \in [RiskDimension -> Multiplier]
BY ClampedMultiplier, SMT DEF Calibrate

\* The newest elements of a sequence: its end, in order.
LEMMA NewestElements ==
  ASSUME NEW T, NEW s \in Seq(T), NEW n \in Nat \ {0}
  PROVE  LET w == Newest(s, n)
         IN  /\ w \in Seq(T) /\ Len(w) <= n /\ Len(w) <= Len(s)
             /\ s # <<>> => Len(w) >= 1
             /\ \A i \in DOMAIN w : /\ Len(s) - Len(w) + i \in DOMAIN s
                                    /\ w[i] = s[Len(s) - Len(w) + i]
<1>1. CASE Len(s) > n
  <2> DEFINE w == SubSeq(s, Len(s) - n + 1, Len(s))
  <2>1. Len(s) - n + 1 \in 1 .. Len(s) + 1 /\ Len(s) \in Nat
    BY <1>1
  <2>2. w \in Seq(T) /\ Len(w) = n /\ \A i \in 1 .. n : w[i] = s[Len(s) - n + i]
    BY <1>1, <2>1
  <2> QED
    BY <1>1, <2>2 DEF Newest
<1>2. CASE ~(Len(s) > n)
  BY <1>2 DEF Newest
<1> QED
  BY <1>1, <1>2

\* A function on the positions of a sequence is a sequence.
LEMMA ElementsReplaced ==
  ASSUME NEW T, NEW U, NEW s \in Seq(T), NEW f \in [DOMAIN s -> U]
  PROVE  f \in Seq(U)
OBVIOUS

\* An element appended to a sequence comes after all the others, which stay.
LEMMA Appended ==
  ASSUME NEW T, NEW s \in Seq(T), NEW e \in T
  PROVE  LET a == Append(s, e)
         IN  /\ a \in Seq(T) /\ Len(a) = Len(s) + 1 /\ a # <<>>
             /\ a[Len(a)] = e /\ \A i \in DOMAIN s : i \in DOMAIN a /\ a[i] = s[i]
OBVIOUS

-----------------------------------------------------------------------------
(* A new version.                                                          *)

VersionsOK ==
    /\ versionCounter \in 1 .. MaxVersions
    /\ versionHistory \in Seq(Version) /\ Len(versionHistory) <= VersionsKept

\* The versions are numbered up to the counter, and the newest alone is active.
InOrder(versions, counter) ==
    /\ Len(versions) >= 1
    /\ \A i \in DOMAIN versions : /\ (versions[i].active = TRUE) <=> i = Len(versions)
                                  /\ versions[i].number = counter - Len(versions) + i

VersionsInOrder == InOrder(versionHistory, versionCounter)

LEMMA NewVersionType ==
  ASSUME NEW number \in 1 .. MaxVersions, NEW signals \in Seq(1 .. MaxSignals),
         NEW sensitivity \in [RiskDimension -> Sensitivity], NEW bias \in Bias
  PROVE  NewVersion(number, signals, sensitivity, bias) \in Version
BY DEF NewVersion, Version

LEMMA DeactivatedType ==
  ASSUME NEW v \in Version
  PROVE  LET w == [v EXCEPT !.active = FALSE]
         IN  w \in Version /\ w.active = FALSE /\ w.number = v.number
BY DEF Version

\* createVersion keeps the types and the order; the newest version holds what it was given.
LEMMA VersionCreated ==
  ASSUME NEW signals \in Seq(1 .. MaxSignals),
         NEW sensitivity \in [RiskDimension -> Sensitivity], NEW bias \in Bias,
         VersionsOK, CreateVersion(signals, sensitivity, bias)
  PROVE  /\ VersionsOK'
         /\ VersionsInOrder => VersionsInOrder'
         /\ LET newest == Len(versionHistory')
            IN  /\ newest \in DOMAIN versionHistory'
                /\ versionHistory'[newest].dimensionSensitivity = sensitivity
                /\ versionHistory'[newest].conservatismBias = bias
<1> DEFINE before == [i \in DOMAIN versionHistory |-> [versionHistory[i] EXCEPT !.active = FALSE]]
           new == NewVersion(versionCounter + 1, signals, sensitivity, bias)
           all == Append(before, new)
           kept == Newest(all, VersionsKept)
<1>1. /\ MaxVersions \in Nat /\ VersionsKept \in Nat \ {0}
      /\ versionCounter' = versionCounter + 1 /\ versionCounter' \in 1 .. MaxVersions
      /\ versionHistory' = kept
  BY OptimizationAssumption DEF CreateVersion, VersionsOK
<1>2. new \in Version /\ new.active /\ new.number = versionCounter + 1
      /\ new.dimensionSensitivity = sensitivity /\ new.conservatismBias = bias
  BY <1>1, NewVersionType DEF NewVersion
<1>3. before \in Seq(Version) /\ Len(before) = Len(versionHistory)
      /\ \A i \in DOMAIN before : /\ i \in DOMAIN versionHistory
                                  /\ before[i].active = FALSE
                                  /\ before[i].number = versionHistory[i].number
  <2>1. \A i \in DOMAIN versionHistory : /\ versionHistory[i] \in Version
                                         /\ before[i] \in Version /\ before[i].active = FALSE
                                         /\ before[i].number = versionHistory[i].number
    <3>1. SUFFICES ASSUME NEW i \in DOMAIN versionHistory
                   PROVE  /\ versionHistory[i] \in Version
                          /\ before[i] \in Version /\ before[i].active = FALSE
                          /\ before[i].number = versionHistory[i].number
      OBVIOUS
    <3>2. versionHistory[i] \in Version
      BY DEF VersionsOK
    <3>3. before[i] = [versionHistory[i] EXCEPT !.active = FALSE]
      OBVIOUS
    <3> QED
      BY <3>2, <3>3, DeactivatedType, Zenon
  <2> QED
    BY <2>1 DEF VersionsOK
<1> HIDE DEF before, new
<1>4. all \in Seq(Version) /\ Len(all) = Len(before) + 1 /\ all # <<>> /\ all[Len(all)] = new
      /\ \A i \in DOMAIN before : i \in DOMAIN all /\ all[i] = before[i]
  BY <1>2, <1>3, Appended
<1> HIDE DEF all
<1>5. /\ kept \in Seq(Version) /\ Len(kept) <= VersionsKept /\ Len(kept) <= Len(all)
      /\ Len(kept) >= 1
      /\ \A i \in DOMAIN kept : /\ Len(all) - Len(kept) + i \in DOMAIN all
                                /\ kept[i] = all[Len(all) - Len(kept) + i]
  BY <1>1, <1>4, NewestElements
<1> HIDE DEF kept
<1>6. Len(kept) \in DOMAIN kept /\ kept[Len(kept)] = new
  BY <1>4, <1>5
<1>7. VersionsOK'
  BY <1>1, <1>5 DEF VersionsOK
<1>8. ASSUME VersionsInOrder, NEW i \in DOMAIN kept
      PROVE  (kept[i].active = TRUE <=> i = Len(kept))
             /\ kept[i].number = (versionCounter + 1) - Len(kept) + i
  <2> DEFINE j == Len(all) - Len(kept) + i
  <2>1. CASE i = Len(kept)
    BY <1>2, <1>6, <2>1, <1>5 DEF VersionsOK
  <2>2. CASE i # Len(kept)
    <3>1. j \in DOMAIN before /\ kept[i] = before[j]
      BY <1>3, <1>4, <1>5, <2>2
    <3>2. kept[i].active = FALSE /\ kept[i].number = versionCounter - Len(versionHistory) + j
      BY <1>3, <1>8, <3>1 DEF VersionsInOrder, InOrder
    <3>3. i \in Int /\ Len(kept) \in Int /\ Len(versionHistory) \in Int /\ versionCounter \in Int
          /\ Len(all) = Len(versionHistory) + 1
      BY <1>3, <1>4, <1>5 DEF VersionsOK
    <3>4. kept[i].number = (versionCounter + 1) - Len(kept) + i
      BY <3>2, <3>3
    <3> QED
      BY <2>2, <3>2, <3>4
  <2> QED
    BY <2>1, <2>2
<1>9. ASSUME VersionsInOrder PROVE VersionsInOrder'
  <2>1. InOrder(kept, versionCounter + 1)
    <3>1. Len(kept) >= 1
      BY <1>5
    <3>2. \A i \in DOMAIN kept : (kept[i].active = TRUE <=> i = Len(kept))
                               /\ kept[i].number = (versionCounter + 1) - Len(kept) + i
      BY <1>8, <1>9, Zenon
    <3> QED
      BY <3>1, <3>2 DEF InOrder
  <2>2. versionHistory' = kept /\ versionCounter' = versionCounter + 1
    BY <1>1
  <2> QED
    BY <2>1, <2>2 DEF VersionsInOrder
<1> QED
  BY <1>1, <1>2, <1>6, <1>7, <1>9

-----------------------------------------------------------------------------
(* The invariant.                                                          *)

Ranges ==
    /\ multipliers \in [RiskDimension -> Multiplier]
    /\ dimensionSensitivity \in [RiskDimension -> Sensitivity]
    /\ conservatismBias \in Bias

\* The newest version holds what is in force.
NewestInForce ==
    LET newest == Len(versionHistory)
    IN  /\ newest \in DOMAIN versionHistory
        /\ versionHistory[newest].dimensionSensitivity = dimensionSensitivity
        /\ versionHistory[newest].conservatismBias = conservatismBias

BufferOK ==
    /\ ingested \in 0 .. MaxSignals
    /\ signalBuffer \in Seq(WaitingSignal) /\ Len(signalBuffer) <= ingested

ScoringInv ==
    Ranges /\ OverrideTypeOK /\ BufferOK /\ VersionsOK /\ VersionsInOrder /\ NewestInForce

LEMMA InvInitially ==
  ASSUME ScoringInit
  PROVE  ScoringInv
<1> USE DEF ScoringInit, AdaptiveInit, OverrideInit, OptimizationInit
<1>1. Neutral \in [RiskDimension -> Multiplier] /\ Neutral \in [RiskDimension -> Sensitivity]
      /\ 0 \in Bias
  BY DEF Neutral, Scale, Multiplier, MinMultiplier, MaxMultiplier, Sensitivity,
         MinSensitivity, MaxSensitivity, Bias, MinBias, MaxBias
<1>2. Ranges
  BY <1>1 DEF Ranges
<1>3. OverrideTypeOK
  BY OverrideAssumption DEF OverrideTypeOK
<1>4. BufferOK
  BY OptimizationAssumption DEF BufferOK
<1> DEFINE first == NewVersion(1, <<>>, Neutral, 0)
<1>5. first \in Version /\ first.active = TRUE /\ first.number = 1
      /\ first.dimensionSensitivity = Neutral /\ first.conservatismBias = 0
  <2>1. 1 \in 1 .. MaxVersions /\ <<>> \in Seq(1 .. MaxSignals)
    BY OptimizationAssumption
  <2>2. first \in Version
    BY <1>1, <2>1, NewVersionType, Zenon
  <2> QED
    BY <2>2 DEF NewVersion
<1> HIDE DEF first
<1>6. versionHistory = <<first>> /\ Len(versionHistory) = 1 /\ DOMAIN versionHistory = {1}
      /\ versionHistory[1] = first /\ versionCounter = 1
  BY DEF first
<1>7. VersionsOK
  BY <1>5, <1>6, OptimizationAssumption DEF VersionsOK
<1>8. VersionsInOrder
  BY <1>5, <1>6 DEF VersionsInOrder, InOrder
<1>9. NewestInForce
  BY <1>5, <1>6 DEF NewestInForce
<1> QED
  BY <1>2, <1>3, <1>4, <1>7, <1>8, <1>9 DEF ScoringInv

LEMMA OverrideStep ==
  ASSUME ScoringInv, OverrideNext, UNCHANGED optimizationVars
  PROVE  ScoringInv'
<1> USE DEF optimizationVars
<1>1. BufferOK' /\ VersionsOK' /\ VersionsInOrder' /\ NewestInForce'
  BY DEF ScoringInv, BufferOK, VersionsOK, VersionsInOrder, InOrder, NewestInForce
<1>2. ASSUME NEW p \in Predictions, CreateOverrideRequest(p)
      PROVE  Ranges' /\ OverrideTypeOK'
  <2>1. [prediction |-> p, resolved |-> FALSE] \in Request
    BY DEF Request
  <2>2. Ranges'
    BY <1>2 DEF ScoringInv, Ranges, CreateOverrideRequest
  <2>3. OverrideTypeOK'
    BY <1>2, <2>1, OverrideAssumption DEF ScoringInv, OverrideTypeOK, CreateOverrideRequest
  <2> QED
    BY <2>2, <2>3
<1>3. ASSUME NEW i \in DOMAIN requests, NEW s \in Stakeholders, NEW v \in Verdicts,
             NEW r \in Rationales, SubmitOverride(i, s, v, r)
      PROVE  Ranges' /\ OverrideTypeOK'
  <2> DEFINE record == [request |-> i, verdict |-> v, rationale |-> r]
             trail == Append(overrideHistory, record)
  <2>1. Ranges'
    BY <1>3, CalibratedMultipliers DEF ScoringInv, Ranges, SubmitOverride
  <2>2. requests' \in Seq(Request) /\ Len(requests') <= MaxRequests
    <3>1. requests \in Seq(Request) /\ Len(requests) <= MaxRequests /\ requests[i] \in Request
      BY DEF ScoringInv, OverrideTypeOK
    <3> DEFINE resolved == [requests[i] EXCEPT !.resolved = TRUE]
    <3>2. resolved \in Request
      BY <3>1 DEF Request
    <3>3. requests' = [requests EXCEPT ![i] = resolved]
      BY <1>3, Zenon DEF SubmitOverride
    <3> HIDE DEF resolved
    <3> QED
      BY <3>1, <3>2, <3>3
  <2>3. record \in OverrideRecord
    BY OverrideAssumption DEF ScoringInv, OverrideTypeOK, OverrideRecord
  <2> HIDE DEF record
  <2>4. trail \in Seq(OverrideRecord)
    BY <2>3 DEF ScoringInv, OverrideTypeOK
  <2> HIDE DEF trail
  <2>5. 2 * AdaptationWindow \in Nat \ {0}
    BY OverrideAssumption
  <2>6. Newest(trail, 2 * AdaptationWindow) \in Seq(OverrideRecord)
    BY <2>4, <2>5, NewestElements
  <2>7. TrailWith(record) \in Seq(OverrideRecord)
    BY <2>4, <2>6 DEF TrailWith, trail
  <2>8. overrideHistory' = TrailWith(record)
    BY <1>3 DEF SubmitOverride, record
  <2> QED
    BY <2>1, <2>2, <2>7, <2>8 DEF OverrideTypeOK
<1> QED
  BY <1>1, <1>2, <1>3 DEF OverrideNext, ScoringInv

LEMMA WaitingId ==
  ASSUME NEW w \in WaitingSignal
  PROVE  w.id \in 1 .. MaxSignals
<1> DEFINE signals == SignalInputs \cup {SignalOfOverride(r) : r \in OverrideRecord}
<1>1. w \in [id : 1 .. MaxSignals, signal : signals]
  BY DEF WaitingSignal
<1> HIDE DEF signals
<1> QED
  BY <1>1

LEMMA IngestStep ==
  ASSUME ScoringInv, UNCHANGED overrideVars,
         NEW s \in SignalInputs \cup {SignalOfOverride(r) : r \in OverrideRecord},
         IngestSignal(s)
  PROVE  ScoringInv'
<1>1. Ranges' /\ OverrideTypeOK' /\ VersionsOK' /\ VersionsInOrder' /\ NewestInForce'
  BY DEF ScoringInv, IngestSignal, overrideVars, Ranges, OverrideTypeOK, VersionsOK,
         VersionsInOrder, InOrder, NewestInForce
<1>2. ingested' = ingested + 1 /\ ingested' \in 1 .. MaxSignals
  BY OptimizationAssumption DEF ScoringInv, BufferOK, IngestSignal
<1>3. [id |-> ingested', signal |-> s] \in WaitingSignal
  BY <1>2 DEF WaitingSignal
<1>4. BufferOK'
  BY <1>2, <1>3 DEF ScoringInv, BufferOK, IngestSignal
<1> QED
  BY <1>1, <1>4 DEF ScoringInv

\* What optimize and rollback have in common: the parameters stay in range and the version
\* that is created holds the new ones.
LEMMA ParametersChanged ==
  ASSUME ScoringInv, UNCHANGED overrideVars, Ranges', BufferOK',
         NEW signals \in Seq(1 .. MaxSignals),
         CreateVersion(signals, dimensionSensitivity', conservatismBias')
  PROVE  ScoringInv'
<1>1. OverrideTypeOK'
  BY DEF ScoringInv, OverrideTypeOK, overrideVars
<1>2. VersionsOK' /\ VersionsInOrder' /\ NewestInForce'
  BY VersionCreated DEF ScoringInv, Ranges, NewestInForce
<1> QED
  BY <1>1, <1>2 DEF ScoringInv

LEMMA OptimizeStep ==
  ASSUME ScoringInv, UNCHANGED overrideVars, NEW pattern, Optimize(pattern)
  PROVE  ScoringInv'
<1>1. Ranges'
  <2>1. /\ {MinSensitivity, MaxSensitivity, MinBias, MaxBias} \subseteq Int
        /\ MinSensitivity <= MaxSensitivity /\ MinBias <= MaxBias
    BY DEF MinSensitivity, MaxSensitivity, MinBias, MaxBias
  <2>2. \A x : Clamp(x, MinSensitivity, MaxSensitivity) \in Sensitivity
    BY <2>1, ClampRange, Zenon DEF Sensitivity
  <2>3. \A x : Clamp(x, MinBias, MaxBias) \in Bias
    BY <2>1, ClampRange, Zenon DEF Bias
  <2>4. dimensionSensitivity' \in [RiskDimension -> Sensitivity]
    BY <2>2 DEF Optimize
  <2>5. conservatismBias' \in Bias
    BY <2>3 DEF Optimize
  <2>6. multipliers' \in [RiskDimension -> Multiplier]
    BY AppliedMultipliers DEF Optimize
  <2> QED
    BY <2>4, <2>5, <2>6 DEF Ranges
<1>2. BufferOK'
  BY DEF ScoringInv, BufferOK, Optimize
<1>3. Ids(signalBuffer) \in Seq(1 .. MaxSignals)
  <2>1. signalBuffer \in Seq(WaitingSignal)
    BY DEF ScoringInv, BufferOK
  <2>2. \A i \in DOMAIN signalBuffer : signalBuffer[i].id \in 1 .. MaxSignals
    BY <2>1, WaitingId
  <2>3. Ids(signalBuffer) \in [DOMAIN signalBuffer -> 1 .. MaxSignals]
    BY <2>2 DEF Ids
  <2> QED
    BY <2>1, <2>3, ElementsReplaced
<1>4. CreateVersion(Ids(signalBuffer), dimensionSensitivity', conservatismBias')
  BY DEF Optimize
<1> QED
  BY <1>1, <1>2, <1>3, <1>4, ParametersChanged

LEMMA RollbackStep ==
  ASSUME ScoringInv, UNCHANGED overrideVars, NEW i \in DOMAIN versionHistory, Rollback(i)
  PROVE  ScoringInv'
<1>1. versionHistory[i] \in Version
  BY DEF ScoringInv, VersionsOK
<1>2. Ranges'
  <2>1. multipliers' \in [RiskDimension -> Multiplier]
    BY AppliedMultipliers DEF Rollback
  <2>2. dimensionSensitivity' \in [RiskDimension -> Sensitivity] /\ conservatismBias' \in Bias
    BY <1>1 DEF Rollback, Version
  <2> QED
    BY <2>1, <2>2 DEF Ranges
<1>3. BufferOK'
  BY DEF ScoringInv, BufferOK, Rollback
<1>4. CreateVersion(<<>>, dimensionSensitivity', conservatismBias') /\ <<>> \in Seq(1 .. MaxSignals)
  BY DEF Rollback
<1> QED
  BY <1>2, <1>3, <1>4, ParametersChanged

LEMMA InvStep ==
  ASSUME ScoringInv, [ScoringNext]_vars
  PROVE  ScoringInv'
<1>1. CASE OverrideNext /\ UNCHANGED optimizationVars
  BY <1>1, OverrideStep
<1>2. ASSUME UNCHANGED overrideVars, NEW s \in SignalInputs, IngestSignal(s)
      PROVE  ScoringInv'
  BY <1>2, IngestStep
<1>3. ASSUME UNCHANGED overrideVars, NEW i \in DOMAIN overrideHistory,
             IngestSignal(SignalOfOverride(overrideHistory[i]))
      PROVE  ScoringInv'
  <2>1. overrideHistory[i] \in OverrideRecord
    BY DEF ScoringInv, OverrideTypeOK
  <2> QED
    BY <1>3, <2>1, IngestStep
<1>4. ASSUME UNCHANGED overrideVars, Optimize(NoPattern) \/ Optimize(AdaptationSignal)
      PROVE  ScoringInv'
  BY <1>4, OptimizeStep
<1>5. ASSUME UNCHANGED overrideVars, NEW i \in DOMAIN versionHistory, Rollback(i)
      PROVE  ScoringInv'
  BY <1>5, RollbackStep
<1>6. CASE UNCHANGED vars
  BY <1>6 DEF vars, overrideVars, optimizationVars, ScoringInv, Ranges, OverrideTypeOK,
              BufferOK, VersionsOK, VersionsInOrder, InOrder, NewestInForce
<1> QED
  BY <1>1, <1>2, <1>3, <1>4, <1>5, <1>6 DEF ScoringNext

\* ScoringInv holds of every state that the calls of both engines reach.
THEOREM ScoringInvariant == ScoringSpec => []ScoringInv
BY InvInitially, InvStep, PTL DEF ScoringSpec

-----------------------------------------------------------------------------
(* The results.                                                            *)

\* After any optimizations and rollbacks exactly one version is active, the newest, it holds
\* what is in force, and the versions kept are numbered without a gap (createVersion).
THEOREM ScoringActiveVersion == ScoringSpec => []ActiveVersionIsState
<1>1. ASSUME ScoringInv PROVE ActiveVersionIsState
  <2> DEFINE newest == Len(versionHistory)
  <2>1. newest \in DOMAIN versionHistory
    BY <1>1 DEF ScoringInv, NewestInForce
  <2>2. \A i \in DOMAIN versionHistory : /\ versionHistory[i].active = TRUE <=> i = newest
                                         /\ versionHistory[i].active \in BOOLEAN
    <3>1. \A i \in DOMAIN versionHistory : versionHistory[i].active = TRUE <=> i = newest
      BY <1>1 DEF ScoringInv, VersionsInOrder, InOrder
    <3>2. \A v \in Version : v.active \in BOOLEAN
      BY DEF Version
    <3>3. \A i \in DOMAIN versionHistory : versionHistory[i] \in Version
      BY <1>1 DEF ScoringInv, VersionsOK
    <3> QED
      BY <3>1, <3>2, <3>3
  <2>3. {i \in DOMAIN versionHistory : versionHistory[i].active} = {newest}
    BY <2>1, <2>2
  <2>4. \A i \in DOMAIN versionHistory : versionHistory[i].number = versionCounter - newest + i
    BY <1>1 DEF ScoringInv, VersionsInOrder, InOrder
  <2>5. /\ versionHistory[newest].dimensionSensitivity = dimensionSensitivity
        /\ versionHistory[newest].conservatismBias = conservatismBias
    BY <1>1 DEF ScoringInv, NewestInForce
  <2> QED
    BY <2>3, <2>4, <2>5 DEF ActiveVersionIsState
<1> QED
  BY <1>1, ScoringInvariant, PTL

\* Half of a delta, which is what the largest learning rate leaves, cut off towards zero.
Half(delta) == Part(delta, 5000)

IsHalf(h, delta) ==
    /\ h \in Int
    /\ delta >= 0 => 0 <= h /\ 2 * h <= delta /\ delta <= 2 * h + 1
    /\ delta <= 0 => h <= 0 /\ delta <= 2 * h /\ 2 * h - 1 <= delta

LEMMA HalfOfDelta == ASSUME NEW delta \in Int PROVE IsHalf(Half(delta), delta)
BY DEF IsHalf, Half, Part, Quotient, Scale

IsClamped(n, x) ==
    /\ n \in Multiplier
    /\ \/ n = x
       \/ x < MinMultiplier /\ n = MinMultiplier
       \/ x > MaxMultiplier /\ n = MaxMultiplier

LEMMA ClampedInteger == ASSUME NEW x \in Int PROVE IsClamped(ClampMultiplier(x), x)
<1> DEFINE low == MinMultiplier
           high == MaxMultiplier
<1>1. low \in Int /\ high \in Int /\ low <= high
  BY DEF MinMultiplier, MaxMultiplier
<1>2. ClampMultiplier(x) = Clamp(x, low, high) /\ Multiplier = low .. high
  BY DEF ClampMultiplier, Multiplier
<1> HIDE DEF low, high
<1>3. Clamp(x, low, high) = IF x \in low .. high THEN x
                            ELSE IF x < low /\ low <= high THEN low ELSE high
  BY DEF Clamp
<1>4. CASE x \in low .. high
  BY <1>2, <1>3, <1>4 DEF IsClamped
<1>5. CASE x < low
  BY <1>1, <1>2, <1>3, <1>5 DEF IsClamped, low
<1>6. CASE x > high
  BY <1>1, <1>2, <1>3, <1>6 DEF IsClamped, high
<1> QED
  BY <1>1, <1>4, <1>5, <1>6

\* From m towards target, and at least half of the way.
IsApproach(m, n, target) ==
    /\ (m <= n /\ n <= target) \/ (m >= n /\ n >= target)
    /\ 2 * Distance(n, target) <= Distance(m, target) + 2 \/ n = MinMultiplier

RollbackDelta(m, target) == IF target - m \in -1 .. 1 THEN 0 ELSE target - m

LEMMA RollbackDeltaIsInt ==
  ASSUME NEW m \in Multiplier, NEW target \in Sensitivity
  PROVE  RollbackDelta(m, target) \in Int
BY DEF RollbackDelta, Multiplier, MinMultiplier, MaxMultiplier, Sensitivity,
       MinSensitivity, MaxSensitivity

LEMMA HalfOfTheWay ==
  ASSUME NEW m \in Multiplier, NEW target \in Sensitivity, NEW delta \in Int, NEW h \in Int,
         NEW n \in Int,
         delta = RollbackDelta(m, target), IsHalf(h, delta), IsClamped(n, m + h)
  PROVE  IsApproach(m, n, target)
<1>1. /\ m \in Int /\ 5000 <= m /\ m <= 25000
      /\ target \in Int /\ 4000 <= target /\ target <= 20000
  BY DEF Multiplier, MinMultiplier, MaxMultiplier, Sensitivity, MinSensitivity, MaxSensitivity
<1>2. (delta = 0 /\ target - m \in -1 .. 1) \/ delta = target - m
  BY DEF RollbackDelta
<1>3. /\ delta >= 0 => 0 <= h /\ 2 * h <= delta /\ delta <= 2 * h + 1
      /\ delta <= 0 => h <= 0 /\ delta <= 2 * h /\ 2 * h - 1 <= delta
  BY DEF IsHalf
<1>4. n = m + h \/ (m + h < 5000 /\ n = 5000) \/ (m + h > 25000 /\ n = 25000)
  BY DEF IsClamped, MinMultiplier, MaxMultiplier
<1>5. (m <= n /\ n <= target) \/ (m >= n /\ n >= target)
  BY <1>1, <1>2, <1>3, <1>4
<1>6. 2 * Distance(n, target) <= Distance(m, target) + 2 \/ n = MinMultiplier
  BY <1>1, <1>2, <1>3, <1>4 DEF Distance, MinMultiplier
<1> QED
  BY <1>5, <1>6 DEF IsApproach

\* One multiplier of a rollback.
LEMMA MultiplierApproaches ==
  ASSUME NEW m \in Multiplier, NEW target \in Sensitivity
  PROVE  IsApproach(m, ClampMultiplier(m + Half(RollbackDelta(m, target))), target)
<1> DEFINE delta == RollbackDelta(m, target)
           h == Half(delta)
           n == ClampMultiplier(m + h)
<1>1. delta \in Int
  BY RollbackDeltaIsInt, Zenon
<1>2. IsHalf(h, delta)
  BY <1>1, HalfOfDelta, Zenon
<1> HIDE DEF delta, h
<1>3. h \in Int /\ m + h \in Int
  BY <1>2 DEF IsHalf, Multiplier, MinMultiplier, MaxMultiplier
<1>4. IsClamped(n, m + h)
  BY <1>3, ClampedInteger, Zenon
<1> HIDE DEF n
<1>5. n \in Int
  BY <1>4 DEF IsClamped, Multiplier, MinMultiplier, MaxMultiplier
<1> QED
  BY <1>1, <1>2, <1>3, <1>4, <1>5, HalfOfTheWay, Zenon DEF delta, h, n

\* A rollback restores the sensitivities and the bias of the version, and moves each
\* multiplier over half of the way to the version's value and never past it (rollback, whose
\* learning rate applyAdaptiveMultiplierDeltas clamps to one half).
THEOREM ScoringRollback == ScoringSpec => RollbackApproaches
<1>1. ASSUME ScoringInv, NEW i \in DOMAIN versionHistory, Rollback(i)
      PROVE  Approached(versionHistory[i])
  <2> DEFINE v == versionHistory[i]
  <2>1. v \in Version
    BY <1>1 DEF ScoringInv, VersionsOK
  <2>2. dimensionSensitivity' = v.dimensionSensitivity /\ conservatismBias' = v.conservatismBias
    BY <1>1 DEF Rollback
  <2>3. ASSUME NEW d \in RiskDimension
        PROVE  IsApproach(multipliers[d], multipliers'[d], v.adaptiveMultipliers[d])
    <3> DEFINE target == v.adaptiveMultipliers[d]
               delta == RollbackDelta(multipliers[d], target)
    <3>1. target \in Sensitivity
      BY <2>1 DEF Version
    <3>2. multipliers[d] \in Multiplier
      BY <1>1 DEF ScoringInv, Ranges
    <3>3. Clamp(Scale, 100, 5000) = 5000
      BY DEF Clamp, Scale
    <3>4. multipliers' = ApplyDeltas(multipliers, RollbackDeltas(v), Scale)
      BY <1>1 DEF Rollback
    <3>5. RollbackDeltas(v)[d] = delta
      BY DEF RollbackDeltas, RollbackDelta
    <3>6. multipliers'[d] = ClampMultiplier(multipliers[d] + Half(delta))
      BY <3>3, <3>4, <3>5 DEF ApplyDeltas, Half
    <3> QED
      BY <3>1, <3>2, <3>6, MultiplierApproaches, Zenon
  <2> QED
    BY <2>2, <2>3, Zenon DEF Approached, IsApproach
<1>2. ScoringInv => [\A i \in DOMAIN versionHistory :
                        Rollback(i) => Approached(versionHistory[i])]_vars
  BY <1>1, Zenon
<1> QED
  BY <1>2, ScoringInvariant, PTL DEF RollbackApproaches

-----------------------------------------------------------------------------
(* Least elements: what the inductions rest on.                            *)

\* Every non-empty set of natural numbers has a least element: what the inductions below
\* rest on.
LEMMA LeastElement ==
  ASSUME NEW T \in SUBSET Nat, T # {}
  PROVE  \E m \in T : \A k \in T : m <= k
<1> DEFINE R == OpToRel(<, Nat)
<1>1. IsWellFoundedOn(R, Nat)
  BY NatLessThanWellFounded
<1>2. \A x, y \in Nat : <<y, x>> \in R <=> y < x
  BY DEF OpToRel
<1> HIDE DEF R
<1>3. PICK x \in T : \A y \in T : ~(<<y, x>> \in R)
  BY <1>1, WFMin
<1>4. ASSUME NEW k \in T
      PROVE  x <= k
  <2>1. x \in Nat /\ k \in Nat
    OBVIOUS
  <2>2. ~(k < x)
    BY <1>2, <1>3, <2>1
  <2> QED
    BY <2>1, <2>2
<1> QED
  BY <1>4

-----------------------------------------------------------------------------
(* Sums.                                                                   *)

Picked(s) == CHOOSE x \in s : TRUE

\* g is the function by which SumFunction is defined: the sums over the subsets of S.
SumsOver(fun, S, g) ==
    g = [s \in SUBSET S |-> IF s = {} THEN 0 ELSE fun[Picked(s)] + g[s \ {Picked(s)}]]

\* The same, of the subsets with at most n elements.
SumsUpTo(fun, S, n, g) ==
    \A s \in SUBSET S : Cardinality(s) <= n =>
        g[s] = IF s = {} THEN 0 ELSE fun[Picked(s)] + g[s \ {Picked(s)}]

LEMMA PickedRemoved ==
  ASSUME NEW S, IsFiniteSet(S), NEW s \in SUBSET S, s # {}
  PROVE  /\ Picked(s) \in s /\ s \ {Picked(s)} \in SUBSET S
         /\ Cardinality(s) \in Nat
         /\ Cardinality(s \ {Picked(s)}) = Cardinality(s) - 1
<1>1. Picked(s) \in s
  BY DEF Picked
<1>2. IsFiniteSet(s)
  BY FS_Subset
<1> QED
  BY <1>1, <1>2, FS_RemoveElement, FS_CardinalityType

LEMMA SumsExist ==
  ASSUME NEW fun, NEW S, IsFiniteSet(S)
  PROVE  \E g : SumsOver(fun, S, g)
<1> DEFINE Exists(n) == \E g : SumsUpTo(fun, S, n, g)
           Missing == {n \in Nat : ~Exists(n)}
<1>1. \A s \in SUBSET S : Cardinality(s) \in Nat /\ Cardinality(s) <= Cardinality(S)
                          /\ (Cardinality(s) = 0 <=> s = {})
  BY FS_Subset, FS_CardinalityType, FS_EmptySet
<1>2. Exists(0)
  <2>1. SumsUpTo(fun, S, 0, [s \in SUBSET S |-> 0])
    BY <1>1 DEF SumsUpTo
  <2> QED
    BY <2>1
<1>3. ASSUME NEW n \in Nat, Exists(n)
      PROVE  Exists(n + 1)
  <2>1. PICK g : SumsUpTo(fun, S, n, g)
    BY <1>3
  <2> DEFINE h == [s \in SUBSET S |-> IF Cardinality(s) <= n THEN g[s]
                                      ELSE fun[Picked(s)] + g[s \ {Picked(s)}]]
  <2>2. ASSUME NEW s \in SUBSET S, Cardinality(s) <= n + 1
        PROVE  h[s] = IF s = {} THEN 0 ELSE fun[Picked(s)] + h[s \ {Picked(s)}]
    <3>1. CASE s = {}
      <4>1. Cardinality(s) <= n
        BY <1>1, <3>1
      <4> QED
        BY <2>1, <3>1, <4>1 DEF SumsUpTo
    <3>2. CASE s # {}
      <4>1. /\ s \ {Picked(s)} \in SUBSET S
            /\ Cardinality(s \ {Picked(s)}) <= n
        BY <2>2, <3>2, PickedRemoved
      <4>2. h[s \ {Picked(s)}] = g[s \ {Picked(s)}]
        BY <4>1
      <4>3. h[s] = fun[Picked(s)] + g[s \ {Picked(s)}]
        BY <2>1, <3>2 DEF SumsUpTo
      <4> QED
        BY <3>2, <4>2, <4>3
    <3> QED
      BY <3>1, <3>2
  <2> HIDE DEF h
  <2>3. SumsUpTo(fun, S, n + 1, h)
    BY <2>2 DEF SumsUpTo
  <2> QED
    BY <2>3
<1> HIDE DEF Exists
<1>4. Missing = {}
  <2> SUFFICES ASSUME Missing # {} PROVE FALSE
    OBVIOUS
  <2>1. PICK m \in Missing : \A k \in Missing : m <= k
    BY LeastElement, Zenon
  <2>2. m \in Nat /\ ~Exists(m)
    OBVIOUS
  <2>3. m # 0
    BY <1>2, <2>2
  <2>4. m - 1 \in Nat /\ ~(m <= m - 1)
    BY <2>2, <2>3
  <2>5. Exists(m - 1)
    BY <2>1, <2>4
  <2>6. Exists((m - 1) + 1) /\ (m - 1) + 1 = m
    BY <1>3, <2>2, <2>4, <2>5
  <2> QED
    BY <2>2, <2>6
<1>5. PICK g : SumsUpTo(fun, S, Cardinality(S), g)
  BY <1>4, FS_CardinalityType DEF Exists
<1> DEFINE h == [s \in SUBSET S |-> IF s = {} THEN 0
                                    ELSE fun[Picked(s)] + g[s \ {Picked(s)}]]
<1>6. \A s \in SUBSET S : h[s] = g[s]
  BY <1>1, <1>5 DEF SumsUpTo
<1>7. \A s \in SUBSET S : s # {} => h[s \ {Picked(s)}] = g[s \ {Picked(s)}]
  BY <1>6, PickedRemoved
<1>8. SumsOver(fun, S, h)
  BY <1>7 DEF SumsOver
<1> QED
  BY <1>8

LEMMA SumUnfolded ==
  ASSUME NEW fun, IsFiniteSet(DOMAIN fun)
  PROVE  \E g : SumsOver(fun, DOMAIN fun, g) /\ SumFunction(fun) = g[DOMAIN fun]
<1> DEFINE f == CHOOSE g : SumsOver(fun, DOMAIN fun, g)
<1>1. SumsOver(fun, DOMAIN fun, f)
  BY SumsExist
<1>2. SumFunction(fun) = f[DOMAIN fun]
  BY DEF SumFunction, SumFunctionOnSet, FoldFunctionOnSet, MapThenFoldSet, SumsOver, Picked
<1> QED
  BY <1>1, <1>2

\* A sum of numbers of a kind that is closed under addition is of that kind.
LEMMA SumStays ==
  ASSUME NEW fun, IsFiniteSet(DOMAIN fun), NEW Kind, 0 \in Kind,
         \A a, b \in Kind : a + b \in Kind, \A x \in DOMAIN fun : fun[x] \in Kind
  PROVE  SumFunction(fun) \in Kind
<1> DEFINE S == DOMAIN fun
<1>1. PICK g : SumsOver(fun, S, g) /\ SumFunction(fun) = g[S]
  BY SumUnfolded
<1>2. ASSUME NEW s \in SUBSET S
      PROVE  g[s] = IF s = {} THEN 0 ELSE fun[Picked(s)] + g[s \ {Picked(s)}]
  BY <1>1 DEF SumsOver
<1> DEFINE Wrong == {n \in Nat : \E s \in SUBSET S : Cardinality(s) = n /\ g[s] \notin Kind}
<1>3. Wrong = {}
  <2> SUFFICES ASSUME Wrong # {} PROVE FALSE
    OBVIOUS
  <2>1. PICK m \in Wrong : \A k \in Wrong : m <= k
    BY LeastElement, Zenon
  <2>2. PICK s \in SUBSET S : Cardinality(s) = m /\ g[s] \notin Kind
    OBVIOUS
  <2> DEFINE rest == s \ {Picked(s)}
  <2>3. s # {}
    BY <1>2, <2>2
  <2>4. /\ Picked(s) \in S /\ rest \in SUBSET S
        /\ Cardinality(rest) = m - 1 /\ m \in Nat /\ Cardinality(s) \in Nat
    BY <2>2, <2>3, PickedRemoved
  <2>5. Cardinality(rest) \in Nat
    BY <2>4, FS_Subset, FS_CardinalityType
  <2>6. Cardinality(rest) \notin Wrong
    <3> HIDE DEF Wrong, rest
    <3> QED BY <2>1, <2>4
  <2>7. g[rest] \in Kind
    BY <2>4, <2>5, <2>6
  <2>8. g[s] = fun[Picked(s)] + g[rest]
    BY <1>2, <2>3
  <2> QED
    BY <2>2, <2>4, <2>7, <2>8
<1>4. Cardinality(S) \in Nat
  BY FS_CardinalityType
<1>5. g[S] \in Kind
  BY <1>3, <1>4
<1> QED
  BY <1>1, <1>5

-----------------------------------------------------------------------------
(* Concatenations.                                                         *)

\* f is the function by which FlattenSeq is defined: the concatenations of the first
\* sequences of seqs.
Joins(seqs, f) ==
    f = [i \in 1 .. Len(seqs) |-> IF i = 1 THEN seqs[i] ELSE f[i - 1] \o seqs[i]]

\* The same, of the first n.
JoinsUpTo(seqs, n, f) ==
    \A i \in 1 .. n : f[i] = IF i = 1 THEN seqs[i] ELSE f[i - 1] \o seqs[i]

LEMMA JoinsExist ==
  ASSUME NEW seqs, Len(seqs) \in Nat
  PROVE  \E f : Joins(seqs, f)
<1> DEFINE Exists(n) == \E f : JoinsUpTo(seqs, n, f)
           Missing == {n \in Nat : ~Exists(n)}
<1>1. Exists(0)
  BY DEF JoinsUpTo
<1>2. ASSUME NEW n \in Nat, Exists(n)
      PROVE  Exists(n + 1)
  <2>1. PICK f : JoinsUpTo(seqs, n, f)
    BY <1>2
  <2> DEFINE next == IF n = 0 THEN seqs[n + 1] ELSE f[n] \o seqs[n + 1]
             g == [i \in 1 .. n + 1 |-> IF i = n + 1 THEN next ELSE f[i]]
  <2>2. ASSUME NEW i \in 1 .. n + 1
        PROVE  g[i] = IF i = 1 THEN seqs[i] ELSE g[i - 1] \o seqs[i]
    <3>1. CASE i = n + 1
      <4>1. g[i] = next
        BY <3>1
      <4>2. i # 1 => n # 0 /\ i - 1 = n /\ g[i - 1] = f[n]
        <5> HIDE DEF next
        <5> QED BY <3>1
      <4> QED
        BY <3>1, <4>1, <4>2
    <3>2. CASE i # n + 1
      <4>1. i \in 1 .. n
        BY <3>2
      <4>2. g[i] = f[i] /\ (i # 1 => g[i - 1] = f[i - 1])
        <5> HIDE DEF next
        <5> QED BY <4>1
      <4> HIDE DEF g
      <4> QED
        BY <2>1, <4>1, <4>2 DEF JoinsUpTo
    <3> QED
      BY <3>1, <3>2
  <2> HIDE DEF g
  <2>3. JoinsUpTo(seqs, n + 1, g)
    BY <2>2 DEF JoinsUpTo
  <2> QED
    BY <2>3
<1> HIDE DEF Exists
<1>3. Missing = {}
  <2> SUFFICES ASSUME Missing # {} PROVE FALSE
    OBVIOUS
  <2>1. PICK m \in Missing : \A k \in Missing : m <= k
    BY LeastElement, Zenon
  <2>2. m \in Nat /\ ~Exists(m)
    OBVIOUS
  <2>3. m # 0
    BY <1>1, <2>2
  <2>4. m - 1 \in Nat /\ ~(m <= m - 1)
    BY <2>2, <2>3
  <2>5. Exists(m - 1)
    BY <2>1, <2>4
  <2>6. Exists((m - 1) + 1) /\ (m - 1) + 1 = m
    BY <1>2, <2>2, <2>4, <2>5
  <2> QED
    BY <2>2, <2>6
<1>4. PICK f : JoinsUpTo(seqs, Len(seqs), f)
  BY <1>3 DEF Exists
<1> DEFINE g == [i \in 1 .. Len(seqs) |-> f[i]]
<1>5. \A i \in 1 .. Len(seqs) : g[i] = f[i] /\ (i # 1 => g[i - 1] = f[i - 1])
  OBVIOUS
<1>6. g = [i \in 1 .. Len(seqs) |-> IF i = 1 THEN seqs[i] ELSE g[i - 1] \o seqs[i]]
  BY <1>4, <1>5 DEF JoinsUpTo
<1>7. Joins(seqs, g)
  <2> HIDE DEF g
  <2> QED BY <1>6 DEF Joins
<1> QED
  BY <1>7

LEMMA FlattenUnfolded ==
  ASSUME NEW seqs, Len(seqs) \in Nat \ {0}
  PROVE  \E f : /\ FlattenSeq(seqs) = f[Len(seqs)]
                /\ \A i \in 1 .. Len(seqs) :
                      f[i] = IF i = 1 THEN seqs[i] ELSE f[i - 1] \o seqs[i]
<1> DEFINE f == CHOOSE g : Joins(seqs, g)
<1>1. Joins(seqs, f)
  BY JoinsExist
<1>2. FlattenSeq(seqs) = f[Len(seqs)]
  BY DEF FlattenSeq, Joins
<1> HIDE DEF f
<1> QED
  BY <1>1, <1>2 DEF Joins

\* The numbers after a up to b.
Run(a, b) == [k \in 1 .. b - a |-> a + k]

LEMMA Joined ==
  ASSUME NEW T, NEW s \in Seq(T), NEW t \in Seq(T)
  PROVE  /\ s \o t \in Seq(T) /\ Len(s \o t) = Len(s) + Len(t)
         /\ \A i \in 1 .. Len(s) + Len(t) :
               (s \o t)[i] = IF i <= Len(s) THEN s[i] ELSE t[i - Len(s)]
OBVIOUS

LEMMA SameElements ==
  ASSUME NEW T, NEW s \in Seq(T), NEW t \in Seq(T), Len(s) = Len(t),
         \A i \in 1 .. Len(s) : s[i] = t[i]
  PROVE  s = t
OBVIOUS

LEMMA RunIsSequence ==
  ASSUME NEW a \in Nat, NEW b \in Nat, a <= b
  PROVE  /\ Run(a, b) \in Seq(Nat) /\ Len(Run(a, b)) = b - a
         /\ \A i \in 1 .. b - a : Run(a, b)[i] = a + i
BY DEF Run

LEMMA RunsJoin ==
  ASSUME NEW a \in Nat, NEW b \in Nat, NEW c \in Nat, a <= b, b <= c
  PROVE  Run(a, b) \o Run(b, c) = Run(a, c)
<1> DEFINE s == Run(a, b)
           t == Run(b, c)
           u == Run(a, c)
<1>1. /\ s \in Seq(Nat) /\ Len(s) = b - a /\ \A i \in 1 .. b - a : s[i] = a + i
      /\ t \in Seq(Nat) /\ Len(t) = c - b /\ \A i \in 1 .. c - b : t[i] = b + i
  BY RunIsSequence, Zenon
<1>2. u \in Seq(Nat) /\ Len(u) = c - a /\ \A i \in 1 .. c - a : u[i] = a + i
  BY RunIsSequence
<1> HIDE DEF s, t, u
<1>3. /\ s \o t \in Seq(Nat) /\ Len(s \o t) = Len(s) + Len(t)
      /\ \A i \in 1 .. Len(s) + Len(t) :
            (s \o t)[i] = IF i <= Len(s) THEN s[i] ELSE t[i - Len(s)]
  BY <1>1, Joined
<1>4. Len(s) + Len(t) = c - a
  BY <1>1
<1>5. ASSUME NEW i \in 1 .. c - a
      PROVE  (s \o t)[i] = u[i]
  <2>1. CASE i <= Len(s)
    BY <1>1, <1>2, <1>3, <1>4, <2>1
  <2>2. CASE ~(i <= Len(s))
    <3>1. (s \o t)[i] = t[i - Len(s)]
      BY <1>3, <1>4, <2>2
    <3>2. i - Len(s) \in 1 .. c - b /\ b + (i - Len(s)) = a + i
      BY <1>1, <2>2
    <3> QED
      BY <1>1, <1>2, <3>1, <3>2
  <2> QED
    BY <2>1, <2>2
<1>6. s \o t = u
  BY <1>2, <1>3, <1>4, <1>5, SameElements
<1> QED
  BY <1>6 DEF s, t, u

\* Runs of which each begins where the one before ended are one run.
LEMMA RunsFlatten ==
  ASSUME NEW seqs, NEW n \in Nat \ {0}, Len(seqs) = n, NEW ends \in [0 .. n -> Nat],
         \A i \in 1 .. n : /\ ends[i - 1] <= ends[i]
                           /\ seqs[i] = Run(ends[i - 1], ends[i])
  PROVE  ends[0] <= ends[n] /\ FlattenSeq(seqs) = Run(ends[0], ends[n])
<1>1. PICK f : /\ FlattenSeq(seqs) = f[n]
               /\ \A i \in 1 .. n : f[i] = IF i = 1 THEN seqs[i] ELSE f[i - 1] \o seqs[i]
  BY FlattenUnfolded
<1> DEFINE Right(i) == ends[0] <= ends[i] /\ f[i] = Run(ends[0], ends[i])
           Wrong == {i \in Nat : i \in 1 .. n /\ ~Right(i)}
<1>2. Right(1)
  BY <1>1
<1>3. ASSUME NEW i \in 2 .. n, Right(i - 1)
      PROVE  Right(i)
  <2>1. /\ i \in 1 .. n /\ i - 1 \in 1 .. n /\ i # 1
        /\ ends[0] \in Nat /\ ends[i - 1] \in Nat /\ ends[i] \in Nat
        /\ ends[i - 1] <= ends[i]
    BY <1>3
  <2>2. f[i] = Run(ends[0], ends[i - 1]) \o Run(ends[i - 1], ends[i])
    BY <1>1, <1>3, <2>1
  <2>3. ends[0] <= ends[i - 1]
    BY <1>3
  <2>4. ends[0] <= ends[i]
    BY <2>1, <2>3
  <2>5. f[i] = Run(ends[0], ends[i])
    BY <2>1, <2>2, <2>3, RunsJoin
  <2> QED
    BY <2>4, <2>5
<1>4. Wrong = {}
  <2> SUFFICES ASSUME Wrong # {} PROVE FALSE
    OBVIOUS
  <2>1. PICK m \in Wrong : \A k \in Wrong : m <= k
    BY LeastElement, Zenon
  <2> HIDE DEF Right
  <2>2. m \in 1 .. n /\ ~Right(m)
    OBVIOUS
  <2>3. m # 1
    BY <1>2, <2>2
  <2>4. m \in 2 .. n /\ m - 1 \in 1 .. n /\ ~(m <= m - 1)
    BY <2>2, <2>3
  <2>5. Right(m - 1)
    BY <2>1, <2>4
  <2> QED
    BY <1>3, <2>2, <2>4, <2>5
<1> HIDE DEF Right
<1>5. Right(n)
  BY <1>4
<1> QED
  BY <1>1, <1>5 DEF Right

-----------------------------------------------------------------------------
(* Outcomes.                                                               *)

\* Those of the first n signals that are outcomes.
Telling(entries, n) == {i \in 1 .. n : TellsOutcome(entries[i])}

LEMMA TellingCounted ==
  ASSUME NEW entries, NEW n \in Nat
  PROVE  /\ IsFiniteSet(Telling(entries, n)) /\ Cardinality(Telling(entries, n)) \in Nat
         /\ Cardinality(Telling(entries, n + 1)) =
               Cardinality(Telling(entries, n)) + (IF TellsOutcome(entries[n + 1]) THEN 1 ELSE 0)
<1>1. IsFiniteSet(1 .. n)
  BY FS_Interval
<1>2. Telling(entries, n) \in SUBSET (1 .. n) /\ n + 1 \notin Telling(entries, n)
  BY DEF Telling
<1>3. IsFiniteSet(Telling(entries, n)) /\ Cardinality(Telling(entries, n)) \in Nat
  BY <1>1, <1>2, FS_Subset, FS_CardinalityType
<1>4. CASE TellsOutcome(entries[n + 1])
  <2>1. Telling(entries, n + 1) = Telling(entries, n) \cup {n + 1}
    BY <1>4 DEF Telling
  <2> QED
    BY <1>2, <1>3, <1>4, <2>1, FS_AddElement
<1>5. CASE ~TellsOutcome(entries[n + 1])
  <2>1. Telling(entries, n + 1) = Telling(entries, n)
    BY <1>5 DEF Telling
  <2> QED
    BY <1>3, <1>5, <2>1
<1> QED
  BY <1>3, <1>4, <1>5

LEMMA NoneTelling == ASSUME NEW entries PROVE Cardinality(Telling(entries, 0)) = 0
<1>1. Telling(entries, 0) = {}
  BY DEF Telling
<1> QED
  BY <1>1, FS_EmptySet

\* The outcomes among the signals of two sequences are those of the one and of the other.
LEMMA TellingJoined ==
  ASSUME NEW T, NEW s \in Seq(T), NEW t \in Seq(T)
  PROVE  Cardinality(Telling(s \o t, Len(s \o t))) =
            Cardinality(Telling(s, Len(s))) + Cardinality(Telling(t, Len(t)))
<1>1. /\ s \o t \in Seq(T) /\ Len(s \o t) = Len(s) + Len(t)
      /\ \A i \in 1 .. Len(s) + Len(t) :
            (s \o t)[i] = IF i <= Len(s) THEN s[i] ELSE t[i - Len(s)]
  BY Joined
<1>2. Len(s) \in Nat /\ Len(t) \in Nat
  OBVIOUS
<1> DEFINE u == s \o t
           Right(j) == Cardinality(Telling(u, Len(s) + j)) =
                          Cardinality(Telling(s, Len(s))) + Cardinality(Telling(t, j))
           Wrong == {j \in Nat : j <= Len(t) /\ ~Right(j)}
<1>3. Right(0)
  <2>1. Telling(u, Len(s) + 0) = Telling(s, Len(s))
    BY <1>1, <1>2 DEF Telling
  <2>2. Cardinality(Telling(t, 0)) = 0
    BY NoneTelling
  <2>3. Cardinality(Telling(s, Len(s))) \in Nat
    BY <1>2, TellingCounted
  <2> DEFINE x == Cardinality(Telling(u, Len(s) + 0))
             y == Cardinality(Telling(s, Len(s)))
             z == Cardinality(Telling(t, 0))
  <2>4. x = y
    BY <2>1, Zenon
  <2>5. x = y + z
    <3> HIDE DEF x, y, z
    <3> QED BY <2>2, <2>3, <2>4 DEF y, z
  <2> QED
    BY <2>5
<1>4. ASSUME NEW j \in Nat, j + 1 <= Len(t), Right(j)
      PROVE  Right(j + 1)
  <2>1. u[(Len(s) + j) + 1] = t[j + 1]
    BY <1>1, <1>2, <1>4
  <2>2. /\ Cardinality(Telling(u, (Len(s) + j) + 1)) = Cardinality(Telling(u, Len(s) + j))
               + (IF TellsOutcome(u[(Len(s) + j) + 1]) THEN 1 ELSE 0)
        /\ Cardinality(Telling(u, Len(s) + j)) \in Nat
    <3>1. Len(s) + j \in Nat
      BY <1>2
    <3> HIDE DEF u
    <3> QED BY <3>1, TellingCounted
  <2>3. /\ Cardinality(Telling(t, j + 1)) = Cardinality(Telling(t, j))
               + (IF TellsOutcome(t[j + 1]) THEN 1 ELSE 0)
        /\ Cardinality(Telling(t, j)) \in Nat
    BY TellingCounted
  <2>4. Cardinality(Telling(s, Len(s))) \in Nat
    BY <1>2, TellingCounted
  <2>5. (Len(s) + j) + 1 = Len(s) + (j + 1)
    BY <1>2
  <2> HIDE DEF u
  <2>6. CASE TellsOutcome(t[j + 1])
    BY <1>4, <2>1, <2>2, <2>3, <2>4, <2>5, <2>6
  <2>7. CASE ~TellsOutcome(t[j + 1])
    BY <1>4, <2>1, <2>2, <2>3, <2>4, <2>5, <2>7
  <2> QED
    BY <2>6, <2>7
<1> HIDE DEF Right
<1>5. Wrong = {}
  <2> SUFFICES ASSUME Wrong # {} PROVE FALSE
    OBVIOUS
  <2>1. PICK m \in Wrong : \A k \in Wrong : m <= k
    BY LeastElement, Zenon
  <2>2. m \in Nat /\ m <= Len(t) /\ ~Right(m)
    OBVIOUS
  <2>3. m # 0
    BY <1>3, <2>2
  <2>4. m - 1 \in Nat /\ m - 1 <= Len(t) /\ ~(m <= m - 1) /\ (m - 1) + 1 = m
    BY <1>2, <2>2, <2>3
  <2>5. Right(m - 1)
    BY <2>1, <2>4
  <2> QED
    BY <1>4, <2>2, <2>4, <2>5
<1>6. Right(Len(t))
  BY <1>2, <1>5
<1> QED
  BY <1>1, <1>6 DEF Right

\* What a batch tells: an outcome for every signal that is one.
LEMMA OutcomesTold ==
  ASSUME NEW T, NEW batch \in Seq(T),
         \A i \in DOMAIN batch : TellsOutcome(batch[i]) => OutcomeOf(batch[i].signal) \in Outcome
  PROVE  /\ OutcomesOf(batch) \in Seq(Outcome)
         /\ Len(OutcomesOf(batch)) = Cardinality(Telling(batch, Len(batch)))
<1> DEFINE Told(i) == IF TellsOutcome(batch[i]) THEN <<OutcomeOf(batch[i].signal)>> ELSE <<>>
           told == [i \in DOMAIN batch |-> Told(i)]
<1>1. Len(batch) \in Nat /\ DOMAIN batch = 1 .. Len(batch)
  OBVIOUS
<1>2. \A i \in 1 .. Len(batch) : /\ told[i] = Told(i)
                                 /\ Told(i) \in Seq(Outcome)
                                 /\ Len(Told(i)) = IF TellsOutcome(batch[i]) THEN 1 ELSE 0
  BY <1>1
<1>3. Len(told) = Len(batch)
  <2> HIDE DEF Told
  <2> QED BY <1>1
<1>4. OutcomesOf(batch) = FlattenSeq(told)
  BY DEF OutcomesOf
<1> HIDE DEF told, Told
<1>5. CASE Len(batch) = 0
  <2>1. FlattenSeq(told) = told /\ told = <<>>
    BY <1>1, <1>3, <1>5 DEF FlattenSeq, told
  <2>2. Cardinality(Telling(batch, Len(batch))) = 0
    BY <1>5, NoneTelling
  <2>3. OutcomesOf(batch) = <<>>
    BY <1>4, <2>1
  <2> QED
    BY <2>2, <2>3
<1>6. CASE Len(batch) # 0
  <2>1. PICK f : /\ FlattenSeq(told) = f[Len(batch)]
                 /\ \A i \in 1 .. Len(batch) :
                       f[i] = IF i = 1 THEN told[i] ELSE f[i - 1] \o told[i]
    BY <1>1, <1>3, <1>6, FlattenUnfolded
  <2> DEFINE Right(i) == f[i] \in Seq(Outcome) /\ Len(f[i]) = Cardinality(Telling(batch, i))
             Wrong == {i \in Nat : i \in 1 .. Len(batch) /\ ~Right(i)}
  <2>2. Right(1)
    <3>1. f[1] = Told(1) /\ 1 \in 1 .. Len(batch)
      BY <1>1, <1>2, <1>6, <2>1
    <3>2. Cardinality(Telling(batch, 0)) = 0
      BY NoneTelling
    <3>3. Cardinality(Telling(batch, 0 + 1)) =
             Cardinality(Telling(batch, 0)) + (IF TellsOutcome(batch[0 + 1]) THEN 1 ELSE 0)
      BY TellingCounted
    <3>4. 0 + 1 = 1
      OBVIOUS
    <3>5. Cardinality(Telling(batch, 1)) = IF TellsOutcome(batch[1]) THEN 1 ELSE 0
      BY <3>2, <3>3, <3>4
    <3>6. Told(1) \in Seq(Outcome) /\ Len(Told(1)) = IF TellsOutcome(batch[1]) THEN 1 ELSE 0
      BY <1>2, <3>1
    <3> QED
      BY <3>1, <3>5, <3>6
  <2>3. ASSUME NEW i \in 2 .. Len(batch), Right(i - 1)
        PROVE  Right(i)
    <3>1. i \in 1 .. Len(batch) /\ i # 1 /\ i - 1 \in Nat /\ (i - 1) + 1 = i
      BY <1>1
    <3>2. f[i] = f[i - 1] \o Told(i)
      BY <1>2, <2>1, <3>1
    <3>3. /\ Cardinality(Telling(batch, (i - 1) + 1)) = Cardinality(Telling(batch, i - 1))
                + (IF TellsOutcome(batch[(i - 1) + 1]) THEN 1 ELSE 0)
          /\ Cardinality(Telling(batch, i - 1)) \in Nat
      BY <3>1, TellingCounted
    <3>4. f[i] \in Seq(Outcome) /\ Len(f[i]) = Len(f[i - 1]) + Len(Told(i))
      BY <1>2, <2>3, <3>1, <3>2, Joined
    <3> QED
      BY <1>2, <2>3, <3>1, <3>3, <3>4
  <2>4. Wrong = {}
    <3> SUFFICES ASSUME Wrong # {} PROVE FALSE
      OBVIOUS
    <3>1. PICK m \in Wrong : \A k \in Wrong : m <= k
      BY LeastElement, Zenon
    <3> HIDE DEF Right
    <3>2. m \in 1 .. Len(batch) /\ ~Right(m)
      OBVIOUS
    <3>3. m # 1
      BY <2>2, <3>2
    <3>4. m \in 2 .. Len(batch) /\ m - 1 \in 1 .. Len(batch) /\ ~(m <= m - 1)
      BY <1>1, <3>2, <3>3
    <3>5. Right(m - 1)
      BY <3>1, <3>4
    <3> QED
      BY <2>3, <3>2, <3>4, <3>5
  <2> HIDE DEF Right
  <2>5. Right(Len(batch))
    BY <1>1, <1>6, <2>4
  <2> QED
    BY <1>4, <2>1, <2>5 DEF Right
<1> QED
  BY <1>5, <1>6

-----------------------------------------------------------------------------
(* What becomes of signals and outcomes.                                   *)

HistoriesOK ==
    /\ violationHistory \in Seq(Outcome) /\ Len(violationHistory) <= HistoryWindow
    /\ signalHistory \in Seq(WaitingSignal) /\ Len(signalHistory) <= Processed

\* The archive ends where the buffer begins.
SignalsInOrder ==
    /\ \A i \in DOMAIN signalBuffer : signalBuffer[i].id = Processed + i
    /\ \A i \in DOMAIN signalHistory :
          signalHistory[i].id = Processed - Len(signalHistory) + i

\* The versions name the signals up to the numbers "ends", each from where the one before
\* it stopped.
NamedUpTo(versions, ends, last) ==
    /\ ends \in [0 .. Len(versions) -> Nat] /\ ends[Len(versions)] = last
    /\ \A i \in 1 .. Len(versions) : /\ ends[i - 1] <= ends[i]
                                     /\ versions[i].signals = Run(ends[i - 1], ends[i])

NamedInOrder == \E ends : NamedUpTo(versionHistory, ends, Processed)

FeedbackInv == HistoriesOK /\ SignalsInOrder /\ NamedInOrder /\ OutcomesCounted

Least(m, n) == IF n > m THEN m ELSE n

LEMMA NewestLength ==
  ASSUME NEW T, NEW s \in Seq(T), NEW n \in Nat \ {0}
  PROVE  Newest(s, n) \in Seq(T) /\ Len(Newest(s, n)) = Least(n, Len(s))
<1>1. CASE Len(s) > n
  <2>1. Len(s) - n + 1 \in 1 .. Len(s) + 1 /\ Len(s) \in Nat
    BY <1>1
  <2>2. SubSeq(s, Len(s) - n + 1, Len(s)) \in Seq(T)
        /\ Len(SubSeq(s, Len(s) - n + 1, Len(s))) = n
    BY <1>1, <2>1
  <2> QED
    BY <1>1, <2>2 DEF Newest, Least
<1>2. CASE ~(Len(s) > n)
  BY <1>2 DEF Newest, Least
<1> QED
  BY <1>1, <1>2

\* A history that has room for the newest ones forgets no more when it is cut twice.
LEMMA WindowCounts ==
  ASSUME NEW s \in Seq(Outcome), NEW t \in Seq(Outcome), NEW n \in Nat,
         Len(s) = Least(HistoryWindow, n)
  PROVE  /\ Newest(s \o t, HistoryWindow) \in Seq(Outcome)
         /\ Len(Newest(s \o t, HistoryWindow)) = Least(HistoryWindow, n + Len(t))
         /\ Len(Newest(s \o t, HistoryWindow)) <= HistoryWindow
<1> DEFINE w == HistoryWindow
<1>5. w \in Nat \ {0}
  BY HistoryWindowAssumption
<1> HIDE DEF w
<1>1. s \o t \in Seq(Outcome) /\ Len(s \o t) = Len(s) + Len(t)
  BY Joined, Zenon
<1>0. Len(t) \in Nat
  OBVIOUS
<1>2. Newest(s \o t, w) \in Seq(Outcome) /\ Len(Newest(s \o t, w)) = Least(w, Len(s \o t))
  BY <1>1, <1>5, NewestLength
<1>3. Least(w, Least(w, n) + Len(t)) = Least(w, n + Len(t)) /\ Least(w, n + Len(t)) <= w
  BY <1>0, <1>5 DEF Least
<1>4. Len(s \o t) = Least(w, n) + Len(t)
  BY <1>1 DEF w
<1> QED
  BY <1>2, <1>3, <1>4 DEF w

\* How many requests are resolved, and how many signals of the archive are outcomes.
ResolvedCount == Cardinality({i \in DOMAIN requests : requests[i].resolved})

ToldCount == Cardinality({i \in DOMAIN signalHistory : TellsOutcome(signalHistory[i])})

LEMMA CountsAreNatural ==
  ASSUME ScoringInv, HistoriesOK
  PROVE  /\ IsFiniteSet({i \in DOMAIN requests : requests[i].resolved})
         /\ ResolvedCount \in Nat /\ ToldCount \in Nat
         /\ ToldCount = Cardinality(Telling(signalHistory, Len(signalHistory)))
<1>1. /\ requests \in Seq(Request) /\ DOMAIN requests = 1 .. Len(requests)
      /\ Len(requests) \in Nat
  BY DEF ScoringInv, OverrideTypeOK
<1>2. IsFiniteSet({i \in DOMAIN requests : requests[i].resolved})
  <2> DEFINE resolved == {i \in DOMAIN requests : requests[i].resolved}
  <2>1. IsFiniteSet(1 .. Len(requests))
    BY <1>1, FS_Interval
  <2>2. resolved \in SUBSET (1 .. Len(requests))
    BY <1>1
  <2> HIDE DEF resolved
  <2>3. IsFiniteSet(resolved)
    BY <2>1, <2>2, FS_Subset, Zenon
  <2> QED
    BY <2>3 DEF resolved
<1>3. signalHistory \in Seq(WaitingSignal) /\ Len(signalHistory) \in Nat
      /\ DOMAIN signalHistory = 1 .. Len(signalHistory)
  BY DEF HistoriesOK
<1>4. ToldCount = Cardinality(Telling(signalHistory, Len(signalHistory)))
  BY <1>3 DEF ToldCount, Telling
<1>5. Cardinality(Telling(signalHistory, Len(signalHistory))) \in Nat
  BY <1>3, TellingCounted
<1> QED
  BY <1>2, <1>4, <1>5, FS_CardinalityType DEF ResolvedCount

LEMMA CountedMeans ==
  OutcomesCounted <=> (Len(signalHistory) = Processed =>
                          Len(violationHistory) = Least(HistoryWindow, ResolvedCount + ToldCount))
BY DEF OutcomesCounted, Least, ResolvedCount, ToldCount

-----------------------------------------------------------------------------

LEMMA FeedbackInitially ==
  ASSUME ScoringInit
  PROVE  FeedbackInv
<1> USE DEF ScoringInit, AdaptiveInit, OverrideInit, OptimizationInit
<1>1. Processed = 0
  <2>1. ingested = 0 /\ Len(signalBuffer) = 0
    OBVIOUS
  <2> HIDE DEF ScoringInit
  <2> QED
    BY <2>1 DEF Processed
<1>2. HistoriesOK
  BY <1>1, HistoryWindowAssumption DEF HistoriesOK
<1>3. SignalsInOrder
  BY DEF SignalsInOrder
<1>4. NamedInOrder
  <2> DEFINE first == NewVersion(1, <<>>, Neutral, 0)
             ends == [i \in 0 .. 1 |-> 0]
  <2>1. first.signals = <<>>
    BY DEF NewVersion
  <2> HIDE DEF first
  <2>2. versionHistory = <<first>> /\ Len(versionHistory) = 1 /\ versionHistory[1] = first
    BY DEF first
  <2>3. Run(0, 0) = <<>>
    BY DEF Run
  <2>4. /\ ends \in [0 .. 1 -> Nat] /\ ends[0] = 0 /\ ends[1] = 0
    OBVIOUS
  <2> HIDE DEF ends
  <2>5. NamedUpTo(versionHistory, ends, 0)
    BY <2>1, <2>2, <2>3, <2>4 DEF NamedUpTo
  <2> QED
    BY <1>1, <2>5 DEF NamedInOrder
<1>5. OutcomesCounted
  <2>1. {i \in DOMAIN requests : requests[i].resolved} = {}
        /\ {i \in DOMAIN signalHistory : TellsOutcome(signalHistory[i])} = {}
    OBVIOUS
  <2>2. ResolvedCount = 0 /\ ToldCount = 0
    BY <2>1, FS_EmptySet DEF ResolvedCount, ToldCount
  <2>3. Len(violationHistory) = 0 /\ Least(HistoryWindow, 0 + 0) = 0
    BY HistoryWindowAssumption DEF Least
  <2> QED
    BY <2>2, <2>3, CountedMeans
<1> QED
  BY <1>2, <1>3, <1>4, <1>5 DEF FeedbackInv

\* A verdict is one outcome more.
LEMMA OutcomeOfVerdictType ==
  ASSUME NEW verdict \in Verdicts, NEW confidence \in 0 .. Scale
  PROVE  ViolationOfVerdict(verdict, confidence) \in Outcome
<1> DEFINE part == Part(confidence, 5000)
<1>1. part \in 0 .. 5000
  <2>1. confidence \in Int /\ 0 <= confidence /\ confidence <= 10000
    BY DEF Scale
  <2>2. part = (confidence * 5000) \div 10000
    BY <2>1 DEF Part, Quotient, Scale
  <2> HIDE DEF part
  <2> QED
    BY <2>1, <2>2
<1> HIDE DEF part
<1>2. CASE verdict = "APPROVED"
  BY <1>2 DEF ViolationOfVerdict, Outcome, Scale
<1>3. CASE verdict = "REJECTED"
  <2>1. ViolationOfVerdict(verdict, confidence) = [violated |-> TRUE, severity |-> 4000 + part]
    BY <1>3 DEF ViolationOfVerdict, part
  <2> QED
    BY <1>1, <2>1 DEF Outcome, Scale
<1>4. CASE verdict = "ESCALATED"
  BY <1>4 DEF ViolationOfVerdict, Outcome, Scale
<1> QED
  BY <1>2, <1>3, <1>4 DEF Verdicts

LEMMA FeedbackOverride ==
  ASSUME ScoringInv, FeedbackInv, OverrideNext, UNCHANGED optimizationVars
  PROVE  FeedbackInv'
<1> USE DEF optimizationVars
<1>1. Processed' = Processed
  BY DEF Processed
<1>2. SignalsInOrder' /\ NamedInOrder'
  BY <1>1 DEF FeedbackInv, SignalsInOrder, NamedInOrder
<1>3. ToldCount' = ToldCount /\ ResolvedCount \in Nat /\ ToldCount \in Nat
      /\ IsFiniteSet({i \in DOMAIN requests : requests[i].resolved})
  BY CountsAreNatural DEF ToldCount, FeedbackInv
<1>4. requests \in Seq(Request) /\ \A q \in Request : q.resolved \in BOOLEAN
  BY DEF ScoringInv, OverrideTypeOK, Request
<1>5. ASSUME NEW p \in Predictions, CreateOverrideRequest(p)
      PROVE  HistoriesOK' /\ OutcomesCounted'
  <2> DEFINE new == [prediction |-> p, resolved |-> FALSE]
  <2>1. new \in Request /\ ~new.resolved
    BY DEF Request
  <2> HIDE DEF new
  <2>2. requests' = Append(requests, new) /\ UNCHANGED violationHistory
    BY <1>5 DEF CreateOverrideRequest, new
  <2>3. /\ DOMAIN requests' = 1 .. Len(requests) + 1
        /\ requests'[Len(requests) + 1] = new
        /\ \A i \in 1 .. Len(requests) : requests'[i] = requests[i]
        /\ DOMAIN requests = 1 .. Len(requests) /\ Len(requests) \in Nat
    BY <1>4, <2>1, <2>2
  <2>4. {i \in DOMAIN requests' : requests'[i].resolved} =
           {i \in DOMAIN requests : requests[i].resolved}
    BY <2>1, <2>3
  <2>5. ResolvedCount' = ResolvedCount
    BY <2>4 DEF ResolvedCount
  <2> QED
    BY <1>1, <1>3, <2>2, <2>5, CountedMeans DEF FeedbackInv, HistoriesOK, OutcomesCounted,
       ResolvedCount, ToldCount
<1>6. ASSUME NEW i \in DOMAIN requests, NEW s \in Stakeholders, NEW v \in Verdicts,
             NEW r \in Rationales, SubmitOverride(i, s, v, r)
      PROVE  HistoriesOK' /\ OutcomesCounted'
  <2> DEFINE outcome == ViolationOfVerdict(v, r.confidence)
             resolved == {j \in DOMAIN requests : requests[j].resolved}
  <2>1. outcome \in Outcome
    BY OutcomeOfVerdictType, OverrideAssumption
  <2> HIDE DEF outcome
  <2>2. violationHistory' = Newest(violationHistory \o <<outcome>>, HistoryWindow)
    BY <1>6 DEF SubmitOverride, RecordOutcomes, outcome
  <2>3. <<outcome>> \in Seq(Outcome) /\ Len(<<outcome>>) = 1
    BY <2>1
  <2>4. /\ violationHistory \in Seq(Outcome) /\ Len(violationHistory) \in Nat
        /\ Len(violationHistory) = Least(HistoryWindow, Len(violationHistory))
    BY HistoryWindowAssumption DEF FeedbackInv, HistoriesOK, Least
  <2>5. violationHistory' \in Seq(Outcome) /\ Len(violationHistory') <= HistoryWindow
    BY <2>2, <2>3, <2>4, WindowCounts, HistoryWindowAssumption
  <2>6. HistoriesOK'
    BY <1>1, <2>5 DEF FeedbackInv, HistoriesOK
  <2>7. ResolvedCount' = ResolvedCount + 1
    <3>1. requests' = [requests EXCEPT ![i].resolved = TRUE] /\ ~requests[i].resolved
      BY <1>6 DEF SubmitOverride
    <3>2. /\ DOMAIN requests' = DOMAIN requests
          /\ requests'[i].resolved
          /\ \A j \in DOMAIN requests : j # i => requests'[j] = requests[j]
      <4>1. requests[i] \in Request
        BY <1>4
      <4>2. [requests[i] EXCEPT !.resolved = TRUE].resolved = TRUE
        BY <4>1 DEF Request
      <4>3. requests' = [requests EXCEPT ![i] = [requests[i] EXCEPT !.resolved = TRUE]]
        BY <3>1, Zenon
      <4> QED
        BY <1>4, <4>2, <4>3
    <3>3. {j \in DOMAIN requests' : requests'[j].resolved} = resolved \cup {i} /\ i \notin resolved
      BY <3>1, <3>2
    <3> HIDE DEF resolved
    <3>4. Cardinality(resolved \cup {i}) = Cardinality(resolved) + 1
      BY <1>3, <3>3, FS_AddElement DEF resolved
    <3>5. ResolvedCount' = Cardinality(resolved \cup {i})
      BY <3>3 DEF ResolvedCount
    <3> QED
      BY <3>4, <3>5 DEF ResolvedCount, resolved
  <2>8. ASSUME Len(signalHistory) = Processed
        PROVE  Len(violationHistory') = Least(HistoryWindow, ResolvedCount' + ToldCount')
    <3>1. Len(violationHistory) = Least(HistoryWindow, ResolvedCount + ToldCount)
      BY <2>8, CountedMeans DEF FeedbackInv
    <3>2. Len(violationHistory') = Least(HistoryWindow, (ResolvedCount + ToldCount) + 1)
      <4> DEFINE n == ResolvedCount + ToldCount
      <4>1. n \in Nat /\ Len(violationHistory) = Least(HistoryWindow, n)
        BY <1>3, <3>1
      <4> HIDE DEF n
      <4>2. Len(Newest(violationHistory \o <<outcome>>, HistoryWindow))
               = Least(HistoryWindow, n + Len(<<outcome>>))
        <5> DEFINE old == violationHistory
                   new == <<outcome>>
        <5>1. old \in Seq(Outcome) /\ new \in Seq(Outcome) /\ Len(old) = Least(HistoryWindow, n)
              /\ n \in Nat
          BY <2>3, <2>4, <4>1, HistoryWindowAssumption
        <5> HIDE DEF old, new
        <5>2. Len(Newest(old \o new, HistoryWindow)) = Least(HistoryWindow, n + Len(new))
          BY <5>1, WindowCounts, Zenon
        <5> QED
          BY <5>2 DEF old, new
      <4> QED
        BY <2>2, <2>3, <4>2 DEF n
    <3>3. (ResolvedCount + ToldCount) + 1 = ResolvedCount' + ToldCount'
      BY <1>3, <2>7
    <3> QED
      BY <3>2, <3>3
  <2>9. OutcomesCounted'
    BY <1>1, <2>8 DEF OutcomesCounted, Least, ResolvedCount, ToldCount
  <2> QED
    BY <2>6, <2>9
<1> QED
  BY <1>2, <1>5, <1>6 DEF OverrideNext, FeedbackInv

LEMMA FeedbackIngest ==
  ASSUME ScoringInv, FeedbackInv, UNCHANGED overrideVars, NEW s, IngestSignal(s)
  PROVE  FeedbackInv'
<1> DEFINE entry == [id |-> ingested + 1, signal |-> s]
<1>1. /\ ingested' = ingested + 1 /\ ingested \in Nat
      /\ signalBuffer' = Append(signalBuffer, entry)
      /\ UNCHANGED <<signalHistory, versionHistory, violationHistory, requests>>
      /\ signalBuffer \in Seq(WaitingSignal) /\ entry.id = ingested + 1
  BY OptimizationAssumption DEF IngestSignal, overrideVars, ScoringInv, BufferOK
<1> HIDE DEF entry
<1>2. /\ Len(signalBuffer) \in Nat /\ Len(signalBuffer') = Len(signalBuffer) + 1
      /\ DOMAIN signalBuffer = 1 .. Len(signalBuffer)
      /\ DOMAIN signalBuffer' = 1 .. Len(signalBuffer) + 1
      /\ signalBuffer'[Len(signalBuffer) + 1] = entry
      /\ \A i \in 1 .. Len(signalBuffer) : signalBuffer'[i] = signalBuffer[i]
  BY <1>1
<1>3. Processed' = Processed
  BY <1>1, <1>2 DEF Processed
<1>4. HistoriesOK' /\ NamedInOrder' /\ OutcomesCounted'
  BY <1>1, <1>3 DEF FeedbackInv, HistoriesOK, NamedInOrder, OutcomesCounted
<1>5. \A i \in DOMAIN signalBuffer' : signalBuffer'[i].id = Processed + i
  <2>1. ASSUME NEW i \in 1 .. Len(signalBuffer)
        PROVE  signalBuffer'[i].id = Processed + i
    BY <1>2 DEF FeedbackInv, SignalsInOrder
  <2>2. ingested + 1 = Processed + (Len(signalBuffer) + 1)
    BY <1>1, <1>2 DEF Processed
  <2> QED
    BY <1>1, <1>2, <2>1, <2>2
<1>6. SignalsInOrder'
  BY <1>1, <1>3, <1>5 DEF FeedbackInv, SignalsInOrder
<1> QED
  BY <1>4, <1>6 DEF FeedbackInv

LEMMA DeactivatedSignals ==
  ASSUME NEW v \in Version
  PROVE  [v EXCEPT !.active = FALSE] \in Version /\ [v EXCEPT !.active = FALSE].signals = v.signals
BY DEF Version

\* The newest of the versions name the newest of the signals.
LEMMA NewestNamed ==
  ASSUME NEW versions \in Seq(Version), versions # <<>>, NEW last \in Nat, NEW n \in Nat \ {0},
         NEW ends, NamedUpTo(versions, ends, last)
  PROVE  \E e : NamedUpTo(Newest(versions, n), e, last)
<1> DEFINE kept == Newest(versions, n)
           cut == Len(versions) - Len(kept)
           e == [i \in 0 .. Len(kept) |-> ends[cut + i]]
<1>1. /\ kept \in Seq(Version) /\ Len(kept) <= Len(versions)
      /\ \A i \in DOMAIN kept : kept[i] = versions[cut + i]
  BY NewestElements
<1>2. Len(kept) \in Nat /\ DOMAIN kept = 1 .. Len(kept) /\ Len(versions) \in Nat
  BY <1>1
<1> HIDE DEF kept
<1>3. /\ ends \in [0 .. Len(versions) -> Nat] /\ ends[Len(versions)] = last
      /\ \A i \in 1 .. Len(versions) : /\ ends[i - 1] <= ends[i]
                                       /\ versions[i].signals = Run(ends[i - 1], ends[i])
  BY DEF NamedUpTo
<1>4. cut \in Nat /\ cut + Len(kept) = Len(versions)
  BY <1>1, <1>2
<1> HIDE DEF cut
<1>5. e \in [0 .. Len(kept) -> Nat]
  BY <1>2, <1>3, <1>4
<1>6. e[Len(kept)] = last
  <2>1. e[Len(kept)] = ends[cut + Len(kept)]
    BY <1>2
  <2> QED
    BY <1>3, <1>4, <2>1
<1>7. ASSUME NEW i \in 1 .. Len(kept)
      PROVE  e[i - 1] <= e[i] /\ kept[i].signals = Run(e[i - 1], e[i])
  <2>1. cut + i \in 1 .. Len(versions) /\ cut + (i - 1) = (cut + i) - 1
    BY <1>2, <1>4
  <2>2. e[i] = ends[cut + i] /\ e[i - 1] = ends[(cut + i) - 1]
    BY <1>2, <1>4, <2>1
  <2>3. kept[i] = versions[cut + i]
    BY <1>1, <1>2 DEF cut
  <2> HIDE DEF e
  <2> QED
    BY <1>3, <2>1, <2>2, <2>3
<1> HIDE DEF e
<1>8. NamedUpTo(kept, e, last)
  BY <1>5, <1>6, <1>7 DEF NamedUpTo
<1> QED
  BY <1>8 DEF kept

\* A version for the signals processed since the version before.
LEMMA VersionNamed ==
  ASSUME ScoringInv, NamedInOrder, Processed \in Nat, NEW last \in Nat, Processed <= last,
         Run(Processed, last) \in Seq(1 .. MaxSignals),
         Ranges', CreateVersion(Run(Processed, last), dimensionSensitivity', conservatismBias')
  PROVE  \E ends : NamedUpTo(versionHistory', ends, last)
<1> DEFINE before == [i \in DOMAIN versionHistory |-> [versionHistory[i] EXCEPT !.active = FALSE]]
           new == NewVersion(versionCounter + 1, Run(Processed, last), dimensionSensitivity',
                             conservatismBias')
           all == Append(before, new)
<1>1. /\ versionHistory' = Newest(all, VersionsKept) /\ VersionsKept \in Nat \ {0}
      /\ versionHistory \in Seq(Version) /\ versionCounter + 1 \in 1 .. MaxVersions
  BY OptimizationAssumption DEF CreateVersion, ScoringInv, VersionsOK
<1>2. new \in Version /\ new.signals = Run(Processed, last)
  <2>1. new \in Version
    BY <1>1, NewVersionType, Zenon DEF Ranges
  <2> QED
    BY <2>1 DEF NewVersion
<1> HIDE DEF new
<1>3. /\ before \in Seq(Version) /\ Len(before) = Len(versionHistory)
      /\ \A i \in 1 .. Len(versionHistory) : before[i].signals = versionHistory[i].signals
  <2>1. ASSUME NEW i \in DOMAIN versionHistory
        PROVE  before[i] \in Version /\ before[i].signals = versionHistory[i].signals
    <3>1. versionHistory[i] \in Version
      BY <1>1
    <3>2. before[i] = [versionHistory[i] EXCEPT !.active = FALSE]
      OBVIOUS
    <3> QED
      BY <3>1, <3>2, DeactivatedSignals, Zenon
  <2>2. before \in [DOMAIN versionHistory -> Version]
    BY <2>1
  <2>3. before \in Seq(Version)
    BY <1>1, <2>2, ElementsReplaced
  <2>4. DOMAIN before = DOMAIN versionHistory /\ DOMAIN versionHistory = 1 .. Len(versionHistory)
        /\ Len(versionHistory) \in Nat
    BY <1>1
  <2> HIDE DEF before
  <2>5. Len(before) = Len(versionHistory)
    BY <2>3, <2>4
  <2> QED
    BY <2>1, <2>3, <2>4, <2>5
<1> HIDE DEF before
<1> DEFINE n == Len(versionHistory)
<1>4. n \in Nat /\ all \in Seq(Version) /\ Len(all) = n + 1 /\ all # <<>>
      /\ all[n + 1] = new /\ \A i \in 1 .. n : all[i] = before[i]
  BY <1>1, <1>2, <1>3
<1> HIDE DEF all, n
<1>5. PICK ends : NamedUpTo(versionHistory, ends, Processed)
  BY DEF NamedInOrder
<1>6. /\ ends \in [0 .. n -> Nat] /\ ends[n] = Processed
      /\ \A i \in 1 .. n : /\ ends[i - 1] <= ends[i]
                           /\ versionHistory[i].signals = Run(ends[i - 1], ends[i])
  BY <1>5 DEF NamedUpTo, n
<1> DEFINE e == [i \in 0 .. n + 1 |-> IF i = n + 1 THEN last ELSE ends[i]]
<1>7. e \in [0 .. n + 1 -> Nat] /\ e[n + 1] = last /\ \A i \in 0 .. n : e[i] = ends[i]
  BY <1>4, <1>6
<1> HIDE DEF e
<1>8. ASSUME NEW i \in 1 .. n + 1
      PROVE  e[i - 1] <= e[i] /\ all[i].signals = Run(e[i - 1], e[i])
  <2>1. CASE i = n + 1
    <3>1. e[i - 1] = Processed /\ e[i] = last
      BY <1>4, <1>6, <1>7, <2>1
    <3> QED
      BY <1>2, <1>4, <2>1, <3>1
  <2>2. CASE i # n + 1
    <3>1. i \in 1 .. n /\ i \in 0 .. n /\ i - 1 \in 0 .. n
      BY <1>4, <2>2
    <3>2. e[i - 1] = ends[i - 1] /\ e[i] = ends[i]
      BY <1>7, <3>1
    <3>3. all[i].signals = versionHistory[i].signals
      BY <1>3, <1>4, <3>1 DEF n
    <3> QED
      BY <1>6, <3>1, <3>2, <3>3
  <2> QED
    BY <2>1, <2>2
<1>9. NamedUpTo(all, e, last)
  BY <1>4, <1>7, <1>8 DEF NamedUpTo
<1> QED
  BY <1>1, <1>4, <1>9, NewestNamed

LEMMA FeedbackRollback ==
  ASSUME ScoringInv, ScoringInv', FeedbackInv, UNCHANGED overrideVars,
         NEW i \in DOMAIN versionHistory, Rollback(i)
  PROVE  FeedbackInv'
<1>1. UNCHANGED <<signalBuffer, signalHistory, ingested, violationHistory, requests>>
      /\ CreateVersion(<<>>, dimensionSensitivity', conservatismBias')
  BY DEF Rollback, overrideVars
<1>2. Processed' = Processed
  BY <1>1 DEF Processed
<1>3. HistoriesOK' /\ SignalsInOrder' /\ OutcomesCounted'
  BY <1>1, <1>2 DEF FeedbackInv, HistoriesOK, SignalsInOrder, OutcomesCounted
<1>4. Processed \in Nat
  BY DEF Processed, ScoringInv, BufferOK
<1>5. Run(Processed, Processed) = <<>> /\ <<>> \in Seq(1 .. MaxSignals)
  BY <1>4 DEF Run
<1>6. \E ends : NamedUpTo(versionHistory', ends, Processed)
  <2>1. NamedInOrder /\ Ranges' /\ Processed <= Processed
    BY <1>4 DEF FeedbackInv, ScoringInv
  <2>2. /\ Run(Processed, Processed) \in Seq(1 .. MaxSignals)
        /\ CreateVersion(Run(Processed, Processed), dimensionSensitivity', conservatismBias')
    BY <1>1, <1>5
  <2> QED
    BY <1>4, <2>1, <2>2, VersionNamed, Zenon
<1>7. NamedInOrder'
  BY <1>2, <1>6 DEF NamedInOrder
<1> QED
  BY <1>3, <1>7 DEF FeedbackInv

LEMMA OutcomeOfSignal ==
  ASSUME NEW s \in SignalInputs
  PROVE  OutcomeOf(s) \in Outcome
<1>1. /\ s.type \in {"FALSE_POSITIVE", "MISSED_VIOLATION", "REAL_OUTCOME"}
      /\ s.type = "MISSED_VIOLATION" => s.severity \in 0 .. Scale
      /\ s.type = "REAL_OUTCOME" => s.compliance \in 0 .. Scale
  BY SignalAssumption
<1>2. CASE s.type = "FALSE_POSITIVE"
  BY <1>2 DEF OutcomeOf, Outcome, Scale
<1>3. CASE s.type = "MISSED_VIOLATION"
  BY <1>1, <1>3 DEF OutcomeOf, Outcome
<1>4. CASE s.type = "REAL_OUTCOME"
  <2> DEFINE c == s.compliance
             part == Part(Scale - c, 8000)
  <2>0. c \in 0 .. Scale
    BY <1>1, <1>4, Zenon
  <2>1. c \in Int /\ 0 <= c /\ c <= 10000
    <3> HIDE DEF c
    <3> QED BY <2>0 DEF Scale
  <2> HIDE DEF c
  <2>2. part \in 0 .. 8000
    <3>1. part = ((10000 - c) * 8000) \div 10000
      BY <2>1 DEF Part, Quotient, Scale
    <3> HIDE DEF part
    <3> QED
      BY <2>1, <3>1
  <2> HIDE DEF part
  <2>3. CASE c > 7000
    <3>1. OutcomeOf(s) = [violated |-> FALSE, severity |-> 0]
      BY <1>4, <2>1, <2>3 DEF OutcomeOf, c
    <3> QED
      BY <3>1 DEF Outcome, Scale
  <2>4. CASE ~(c > 7000)
    <3>1. OutcomeOf(s) = [violated |-> TRUE, severity |-> part]
      BY <1>4, <2>1, <2>4 DEF OutcomeOf, part, c
    <3> QED
      BY <2>2, <3>1 DEF Outcome, Scale
  <2> QED
    BY <2>3, <2>4
<1> QED
  BY <1>1, <1>2, <1>3, <1>4

\* Only signals that come in as they are tell an outcome.
LEMMA OutcomeOfWaiting ==
  ASSUME NEW w \in WaitingSignal, TellsOutcome(w)
  PROVE  OutcomeOf(w.signal) \in Outcome
<1> DEFINE overrides == {SignalOfOverride(r) : r \in OverrideRecord}
           signals == SignalInputs \cup overrides
<1>1. w \in [id : 1 .. MaxSignals, signal : signals]
  BY DEF WaitingSignal
<1>2. w.signal \in signals
  <2> HIDE DEF signals
  <2> QED BY <1>1
<1>3. w.signal \notin overrides
  BY DEF TellsOutcome, SignalOfOverride
<1>4. w.signal \in SignalInputs
  BY <1>2, <1>3
<1> QED
  BY <1>4, OutcomeOfSignal

LEMMA IdsAreRun ==
  ASSUME ScoringInv, FeedbackInv
  PROVE  /\ Processed \in Nat /\ ingested \in Nat /\ Processed <= ingested
         /\ ingested = Processed + Len(signalBuffer)
         /\ Ids(signalBuffer) = Run(Processed, ingested)
<1>1. /\ signalBuffer \in Seq(WaitingSignal) /\ Len(signalBuffer) <= ingested
      /\ ingested \in Nat
  BY OptimizationAssumption DEF ScoringInv, BufferOK
<1>2. Len(signalBuffer) \in Nat /\ DOMAIN signalBuffer = 1 .. Len(signalBuffer)
  BY <1>1
<1>3. /\ Processed \in Nat /\ Processed <= ingested
      /\ ingested - Processed = Len(signalBuffer) /\ ingested = Processed + Len(signalBuffer)
  BY <1>1, <1>2 DEF Processed
<1>4. \A i \in 1 .. Len(signalBuffer) : signalBuffer[i].id = Processed + i
  BY <1>2 DEF FeedbackInv, SignalsInOrder
<1> HIDE DEF Processed
<1>5. Ids(signalBuffer) = Run(Processed, ingested)
  BY <1>2, <1>3, <1>4 DEF Ids, Run
<1> QED
  BY <1>1, <1>3, <1>5

\* The archive holds the newest of the processed signals, and all of them unless it is cut.
LEMMA Archived ==
  ASSUME ScoringInv, FeedbackInv
  PROVE  LET all == signalHistory \o signalBuffer
             kept == Archive(signalBuffer)
         IN  /\ all \in Seq(WaitingSignal)
             /\ Len(all) = Len(signalHistory) + Len(signalBuffer)
             /\ kept \in Seq(WaitingSignal) /\ Len(kept) <= Len(all)
             /\ Len(kept) = Len(all) => kept = all
             /\ \A i \in DOMAIN kept : /\ Len(all) - Len(kept) + i \in DOMAIN all
                                       /\ kept[i] = all[Len(all) - Len(kept) + i]
<1> DEFINE all == signalHistory \o signalBuffer
           kept == Archive(signalBuffer)
<1>1. signalHistory \in Seq(WaitingSignal) /\ signalBuffer \in Seq(WaitingSignal)
  BY DEF ScoringInv, BufferOK, FeedbackInv, HistoriesOK
<1>2. all \in Seq(WaitingSignal) /\ Len(all) = Len(signalHistory) + Len(signalBuffer)
  BY <1>1, Joined, Zenon
<1>3. kept = IF Len(all) > 20 * VersionsKept THEN Newest(all, 10 * VersionsKept) ELSE all
  BY DEF Archive
<1>4. VersionsKept \in Nat \ {0} /\ 10 * VersionsKept \in Nat \ {0}
      /\ 10 * VersionsKept < 20 * VersionsKept
  BY OptimizationAssumption
<1> HIDE DEF all, kept
<1>5. CASE Len(all) > 20 * VersionsKept
  <2> DEFINE w == Newest(all, 10 * VersionsKept)
  <2>1. /\ w \in Seq(WaitingSignal) /\ Len(w) <= 10 * VersionsKept /\ Len(w) <= Len(all)
        /\ \A i \in DOMAIN w : /\ Len(all) - Len(w) + i \in DOMAIN all
                               /\ w[i] = all[Len(all) - Len(w) + i]
    BY <1>2, <1>4, NewestElements, Zenon
  <2> HIDE DEF w
  <2>2. kept = w
    BY <1>3, <1>5 DEF w
  <2>3. Len(kept) # Len(all)
    BY <1>2, <1>4, <1>5, <2>1, <2>2
  <2> QED
    BY <1>2, <2>1, <2>2, <2>3 DEF all, kept
<1>6. CASE ~(Len(all) > 20 * VersionsKept)
  <2>1. kept = all
    BY <1>3, <1>6
  <2>2. \A i \in DOMAIN all : Len(all) - Len(all) + i = i
    BY <1>2
  <2>3. Len(all) <= Len(all)
    BY <1>2
  <2> QED
    BY <1>2, <2>1, <2>2, <2>3 DEF all, kept
<1> QED
  BY <1>5, <1>6

\* The archive and the buffer together hold the newest signals in the order they came.
LEMMA WaitingInOrder ==
  ASSUME ScoringInv, FeedbackInv
  PROVE  LET all == signalHistory \o signalBuffer
         IN  /\ all \in Seq(WaitingSignal)
             /\ \A j \in 1 .. Len(all) : all[j].id = ingested - Len(all) + j
<1> DEFINE all == signalHistory \o signalBuffer
<1>1. /\ signalHistory \in Seq(WaitingSignal) /\ Len(signalHistory) \in Nat
      /\ signalBuffer \in Seq(WaitingSignal) /\ Len(signalBuffer) \in Nat
      /\ DOMAIN signalHistory = 1 .. Len(signalHistory)
      /\ DOMAIN signalBuffer = 1 .. Len(signalBuffer)
  BY DEF ScoringInv, BufferOK, FeedbackInv, HistoriesOK
<1>2. all \in Seq(WaitingSignal) /\ Len(all) = Len(signalHistory) + Len(signalBuffer)
  BY <1>1, Joined, Zenon
<1>3. /\ Processed \in Nat /\ ingested \in Nat /\ ingested = Processed + Len(signalBuffer)
  BY IdsAreRun
<1> HIDE DEF all
<1>4. ASSUME NEW j \in 1 .. Len(all)
      PROVE  all[j].id = ingested - Len(all) + j
  <2>1. CASE j <= Len(signalHistory)
    <3>1. all[j] = signalHistory[j]
      BY <1>1, <1>2, <2>1, Joined DEF all
    <3>2. j \in DOMAIN signalHistory
      BY <1>1, <2>1
    <3>3. signalHistory[j].id = Processed - Len(signalHistory) + j
      BY <3>2 DEF FeedbackInv, SignalsInOrder
    <3> QED
      BY <1>1, <1>2, <1>3, <3>1, <3>3
  <2>2. CASE ~(j <= Len(signalHistory))
    <3>1. all[j] = signalBuffer[j - Len(signalHistory)]
      BY <1>1, <1>2, <2>2, Joined DEF all
    <3>2. j - Len(signalHistory) \in DOMAIN signalBuffer
      BY <1>1, <1>2, <2>2
    <3>3. signalBuffer[j - Len(signalHistory)].id = Processed + (j - Len(signalHistory))
      BY <3>2 DEF FeedbackInv, SignalsInOrder
    <3> QED
      BY <1>1, <1>2, <1>3, <3>1, <3>3
  <2> QED
    BY <2>1, <2>2
<1> QED
  BY <1>2, <1>4 DEF all

LEMMA FeedbackOptimize ==
  ASSUME ScoringInv, ScoringInv', FeedbackInv, UNCHANGED overrideVars, NEW pattern,
         Optimize(pattern)
  PROVE  FeedbackInv'
<1> DEFINE all == signalHistory \o signalBuffer
           kept == Archive(signalBuffer)
           told == OutcomesOf(signalBuffer)
<1>1. /\ signalBuffer' = <<>> /\ signalHistory' = kept
      /\ violationHistory' = Newest(violationHistory \o told, HistoryWindow)
      /\ CreateVersion(Ids(signalBuffer), dimensionSensitivity', conservatismBias')
      /\ ingested' = ingested /\ UNCHANGED requests
  BY Zenon DEF Optimize, RecordOutcomes, overrideVars
<1>2. /\ Processed \in Nat /\ ingested \in Nat /\ Processed <= ingested
      /\ ingested = Processed + Len(signalBuffer)
      /\ Ids(signalBuffer) = Run(Processed, ingested)
  BY IdsAreRun
<1>3. Processed' = ingested
  <2>1. ingested' = ingested /\ Len(signalBuffer') = 0
    BY <1>1
  <2> QED
    BY <1>2, <2>1 DEF Processed
<1>4. /\ all \in Seq(WaitingSignal) /\ Len(all) = Len(signalHistory) + Len(signalBuffer)
      /\ kept \in Seq(WaitingSignal) /\ Len(kept) <= Len(all)
      /\ Len(kept) = Len(all) => kept = all
      /\ \A i \in DOMAIN kept : /\ Len(all) - Len(kept) + i \in DOMAIN all
                                /\ kept[i] = all[Len(all) - Len(kept) + i]
  BY Archived
<1>5. /\ signalHistory \in Seq(WaitingSignal) /\ Len(signalHistory) \in Nat
      /\ signalBuffer \in Seq(WaitingSignal) /\ Len(signalBuffer) \in Nat
      /\ DOMAIN signalHistory = 1 .. Len(signalHistory)
      /\ DOMAIN signalBuffer = 1 .. Len(signalBuffer)
      /\ Len(signalHistory) <= Processed
  BY DEF ScoringInv, BufferOK, FeedbackInv, HistoriesOK
<1>6. /\ told \in Seq(Outcome)
      /\ Len(told) = Cardinality(Telling(signalBuffer, Len(signalBuffer)))
  <2>1. \A i \in DOMAIN signalBuffer :
           TellsOutcome(signalBuffer[i]) => OutcomeOf(signalBuffer[i].signal) \in Outcome
    <3>1. \A i \in DOMAIN signalBuffer : signalBuffer[i] \in WaitingSignal
      BY <1>5
    <3> QED
      BY <3>1, OutcomeOfWaiting
  <2> QED
    BY <1>5, <2>1, OutcomesTold
<1> HIDE DEF all, kept, told
<1>7. /\ violationHistory \in Seq(Outcome) /\ Len(violationHistory) \in Nat
      /\ Len(violationHistory) = Least(HistoryWindow, Len(violationHistory))
  BY HistoryWindowAssumption DEF FeedbackInv, HistoriesOK, Least
<1>8. violationHistory' \in Seq(Outcome) /\ Len(violationHistory') <= HistoryWindow
  BY <1>1, <1>6, <1>7, WindowCounts
<1>9. HistoriesOK'
  <2>1. Len(kept) <= ingested
    BY <1>2, <1>4, <1>5
  <2> QED
    BY <1>1, <1>3, <1>4, <1>8, <2>1 DEF HistoriesOK
<1>10. \A i \in DOMAIN kept : kept[i].id = ingested - Len(kept) + i
  <2>1. \A j \in 1 .. Len(all) : all[j].id = ingested - Len(all) + j
    BY WaitingInOrder DEF all
  <2>2. ASSUME NEW i \in DOMAIN kept
        PROVE  kept[i].id = ingested - Len(kept) + i
    <3> DEFINE j == Len(all) - Len(kept) + i
    <3>1. j \in 1 .. Len(all) /\ kept[i] = all[j]
      BY <1>4
    <3>2. i \in Int /\ Len(kept) \in Int /\ Len(all) \in Int /\ j = Len(all) - Len(kept) + i
      BY <1>4
    <3> HIDE DEF j
    <3>3. all[j].id = ingested - Len(all) + j
      BY <2>1, <3>1
    <3> QED
      BY <1>2, <3>1, <3>2, <3>3
  <2> QED
    BY <2>2
<1>11. SignalsInOrder'
  <2>1. DOMAIN signalBuffer' = {}
    BY <1>1
  <2> QED
    BY <1>1, <1>3, <1>10, <2>1 DEF SignalsInOrder
<1>12. NamedInOrder'
  <2>1. Ids(signalBuffer) \in Seq(1 .. MaxSignals)
    <3>1. \A i \in DOMAIN signalBuffer : signalBuffer[i].id \in 1 .. MaxSignals
      BY <1>5, WaitingId
    <3>2. Ids(signalBuffer) \in [DOMAIN signalBuffer -> 1 .. MaxSignals]
      BY <3>1 DEF Ids
    <3> QED
      BY <1>5, <3>2, ElementsReplaced
  <2>2. NamedInOrder /\ Ranges'
    BY DEF FeedbackInv, ScoringInv
  <2>3. /\ Run(Processed, ingested) \in Seq(1 .. MaxSignals)
        /\ CreateVersion(Run(Processed, ingested), dimensionSensitivity', conservatismBias')
    BY <1>1, <1>2, <2>1
  <2>4. \E ends : NamedUpTo(versionHistory', ends, ingested)
    BY <1>2, <2>2, <2>3, VersionNamed, Zenon
  <2> QED
    BY <1>3, <2>4 DEF NamedInOrder
<1>13. ASSUME Len(signalHistory') = Processed'
       PROVE  Len(violationHistory') = Least(HistoryWindow, ResolvedCount' + ToldCount')
  <2>1. Len(kept) = ingested
    BY <1>1, <1>3, <1>13
  <2>2. Len(signalHistory) = Processed /\ kept = all
    <3>1. Len(all) = ingested /\ Len(signalHistory) = Processed
      <4> DEFINE p == Processed
                 h == Len(signalHistory)
                 b == Len(signalBuffer)
                 a == Len(all)
      <4>1. /\ p \in Nat /\ h \in Nat /\ b \in Nat /\ a = h + b /\ h <= p
            /\ ingested = p + b /\ ingested <= a
        BY <1>2, <1>4, <1>5, <2>1
      <4> HIDE DEF p, h, b, a
      <4>2. a = ingested /\ h = p
        BY <4>1
      <4> QED
        BY <4>2 DEF a, h, p
    <3> QED
      BY <1>4, <2>1, <3>1
  <2>3. /\ ResolvedCount \in Nat /\ ToldCount \in Nat
        /\ ToldCount = Cardinality(Telling(signalHistory, Len(signalHistory)))
    BY CountsAreNatural DEF FeedbackInv
  <2>4. ResolvedCount' = ResolvedCount
    BY <1>1 DEF ResolvedCount
  <2>5. ToldCount' = Cardinality(Telling(all, Len(all)))
    <3>1. DOMAIN all = 1 .. Len(all)
      BY <1>4
    <3>2. signalHistory' = all
      BY <1>1, <2>2
    <3> QED
      BY <3>1, <3>2 DEF ToldCount, Telling
  <2>6. Cardinality(Telling(all, Len(all))) = ToldCount + Len(told)
    BY <1>5, <1>6, <2>3, TellingJoined DEF all
  <2>7. Len(violationHistory) = Least(HistoryWindow, ResolvedCount + ToldCount)
    BY <2>2, CountedMeans DEF FeedbackInv
  <2> DEFINE n == ResolvedCount + ToldCount
             new == Newest(violationHistory \o told, HistoryWindow)
  <2>8. n \in Nat /\ Len(violationHistory) = Least(HistoryWindow, n) /\ Len(told) \in Nat
    BY <1>6, <2>3, <2>7
  <2> HIDE DEF n
  <2>9. Len(new) = Least(HistoryWindow, n + Len(told))
    BY <1>6, <1>7, <2>8, WindowCounts, Zenon
  <2>10. n + Len(told) = ResolvedCount' + ToldCount'
    BY <2>3, <2>4, <2>5, <2>6, <2>8 DEF n
  <2>11. violationHistory' = new
    BY <1>1
  <2> QED
    BY <2>9, <2>10, <2>11
<1>14. OutcomesCounted'
  BY <1>13 DEF OutcomesCounted, Least, ResolvedCount, ToldCount
<1> QED
  BY <1>9, <1>11, <1>12, <1>14 DEF FeedbackInv

LEMMA FeedbackStep ==
  ASSUME ScoringInv, ScoringInv', FeedbackInv, [ScoringNext]_vars
  PROVE  FeedbackInv'
<1>1. CASE OverrideNext /\ UNCHANGED optimizationVars
  BY <1>1, FeedbackOverride
<1>2. ASSUME UNCHANGED overrideVars, NEW s, IngestSignal(s)
      PROVE  FeedbackInv'
  BY <1>2, FeedbackIngest
<1>3. ASSUME UNCHANGED overrideVars, Optimize(NoPattern) \/ Optimize(AdaptationSignal)
      PROVE  FeedbackInv'
  BY <1>3, FeedbackOptimize
<1>4. ASSUME UNCHANGED overrideVars, NEW i \in DOMAIN versionHistory, Rollback(i)
      PROVE  FeedbackInv'
  BY <1>4, FeedbackRollback
<1>5. CASE UNCHANGED vars
  BY <1>5 DEF vars, overrideVars, optimizationVars, FeedbackInv, HistoriesOK, SignalsInOrder,
              NamedInOrder, OutcomesCounted, Processed
<1> QED
  BY <1>1, <1>2, <1>3, <1>4, <1>5 DEF ScoringNext

\* FeedbackInv holds of every state that the calls of both engines reach.
THEOREM FeedbackInvariant == ScoringSpec => [](ScoringInv /\ FeedbackInv)
<1>1. ScoringInit => ScoringInv /\ FeedbackInv
  BY InvInitially, FeedbackInitially
<1>2. ScoringInv /\ FeedbackInv /\ [ScoringNext]_vars => (ScoringInv /\ FeedbackInv)'
  BY InvStep, FeedbackStep
<1> QED
  BY <1>1, <1>2, PTL DEF ScoringSpec

LEMMA VersionsNameRun ==
  ASSUME ScoringInv, FeedbackInv
  PROVE  \E first \in Nat :
            /\ first <= Processed
            /\ FlattenSeq([i \in DOMAIN versionHistory |-> versionHistory[i].signals]) =
                  Run(first, Processed)
<1> DEFINE named == [i \in DOMAIN versionHistory |-> versionHistory[i].signals]
           n == Len(versionHistory)
<1>1. versionHistory \in Seq(Version) /\ n \in Nat \ {0} /\ DOMAIN versionHistory = 1 .. n
  BY DEF ScoringInv, VersionsOK, VersionsInOrder, InOrder
<1>2. PICK ends : NamedUpTo(versionHistory, ends, Processed)
  BY DEF FeedbackInv, NamedInOrder
<1>3. /\ ends \in [0 .. n -> Nat] /\ ends[n] = Processed
      /\ \A i \in 1 .. n : /\ ends[i - 1] <= ends[i]
                           /\ versionHistory[i].signals = Run(ends[i - 1], ends[i])
  BY <1>2 DEF NamedUpTo
<1>4. \A i \in 1 .. n : named[i] = versionHistory[i].signals
  BY <1>1
<1>5. Len(named) = n
  <2>1. DOMAIN named = 1 .. n
    BY <1>1
  <2> HIDE DEF named, n
  <2> QED
    BY <1>1, <2>1
<1> HIDE DEF named, n
<1>6. \A i \in 1 .. n : /\ ends[i - 1] <= ends[i] /\ named[i] = Run(ends[i - 1], ends[i])
  BY <1>3, <1>4
<1>7. ends[0] <= ends[n] /\ FlattenSeq(named) = Run(ends[0], ends[n])
  BY <1>1, <1>3, <1>5, <1>6, RunsFlatten, Zenon
<1>8. ends[0] \in Nat
  BY <1>1, <1>3
<1> QED
  BY <1>3, <1>7, <1>8 DEF named

\* Signals are lost neither by the trimming of the archive nor by that of the versions, and
\* none is processed twice (ingestSignal, optimize, rollback).
THEOREM ScoringSignalsOnce == ScoringSpec => []SignalsProcessedOnce
<1>1. ASSUME ScoringInv, FeedbackInv PROVE SignalsProcessedOnce
  <2> DEFINE all == signalHistory \o signalBuffer
             ids == Ids(all)
  <2>1. Consecutive(ids, ingested)
    <3>1. all \in Seq(WaitingSignal) /\ \A j \in 1 .. Len(all) : all[j].id = ingested - Len(all) + j
      BY <1>1, WaitingInOrder
    <3>2. DOMAIN all = 1 .. Len(all) /\ Len(all) \in Nat
      BY <3>1
    <3> HIDE DEF all
    <3>3. ids = [j \in 1 .. Len(all) |-> ingested - Len(all) + j]
      BY <3>1, <3>2 DEF Ids
    <3>4. Len(ids) = Len(all)
      BY <3>2, <3>3
    <3> HIDE DEF ids
    <3> QED
      BY <3>3, <3>4 DEF Consecutive
  <2> DEFINE named == FlattenSeq([i \in DOMAIN versionHistory |-> versionHistory[i].signals])
  <2>2. Consecutive(named, Processed)
    <3>1. PICK first \in Nat : first <= Processed /\ named = Run(first, Processed)
      BY <1>1, VersionsNameRun
    <3> HIDE DEF named
    <3>2. Processed \in Nat
      BY <1>1, IdsAreRun
    <3> HIDE DEF Processed
    <3>3. Len(named) = Processed - first
      BY <3>1, <3>2, RunIsSequence
    <3>4. Processed - Len(named) = first
      BY <3>2, <3>3
    <3>5. named = [k \in 1 .. Len(named) |-> Processed - Len(named) + k]
      BY <3>1, <3>3, <3>4 DEF Run
    <3> QED
      BY <3>5 DEF Consecutive
  <2> QED
    BY <2>1, <2>2 DEF SignalsProcessedOnce
<1> QED
  BY <1>1, FeedbackInvariant, PTL

\* The classification engine hears each resolved override and each processed outcome once
\* (recordOutcome from submitOverride and from optimize).
THEOREM ScoringOutcomesCounted == ScoringSpec => []OutcomesCounted
<1>1. FeedbackInv => OutcomesCounted
  BY DEF FeedbackInv
<1> QED
  BY <1>1, FeedbackInvariant, PTL

\* Every multiplier, sensitivity and the bias stay within their clamps, and the histories,
\* requests, overrides, versions and signals are what their types say, whatever signals,
\* rates and outcomes come in (updateCalibrationFromFeedback, applyAdaptiveMultiplierDeltas,
\* recordOutcome, optimize, rollback).
THEOREM ScoringTypes == ScoringSpec => []ScoringTypeOK
<1>1. ScoringInv /\ FeedbackInv => ScoringTypeOK
  BY DEF ScoringInv, Ranges, BufferOK, VersionsOK, OptimizationTypeOK, FeedbackInv, HistoriesOK,
         ScoringTypeOK, AdaptiveTypeOK
<1> QED
  BY <1>1, FeedbackInvariant, PTL

-----------------------------------------------------------------------------
(* Which way a cycle pushes.                                               *)

\* The numbers that push up, or down, and 0.
Way(up) == {x \in Int : IF up THEN x >= 0 ELSE x <= 0}

Moved(up, old, new) == IF up THEN new >= old ELSE new <= old

LEMMA WaysClosed ==
  ASSUME NEW up \in BOOLEAN
  PROVE  /\ Way(up) \subseteq Int /\ 0 \in Way(up)
         /\ \A a, b \in Way(up) : a + b \in Way(up)
BY DEF Way

LEMMA QuotientNat ==
  ASSUME NEW x \in Nat, NEW n \in Nat \ {0}
  PROVE  x \div n \in Nat
<1> DEFINE q == x \div n
<1>1. q \in Int /\ n * q <= x /\ x < n * q + n
  OBVIOUS
<1> HIDE DEF q
<1>2. CASE q < 0
  <2>1. q + 1 <= 0 /\ n * (q + 1) = n * q + n
    BY <1>1, <1>2
  <2>2. n * (q + 1) <= 0
    BY <1>1, <2>1
  <2> QED
    BY <1>1, <2>1, <2>2
<1> QED
  BY <1>1, <1>2 DEF q

LEMMA QuotientWay ==
  ASSUME NEW up \in BOOLEAN, NEW x \in Way(up), NEW n \in Nat \ {0}
  PROVE  Quotient(x, n) \in Way(up)
<1>1. x \in Int /\ (up => x >= 0) /\ (~up => x <= 0)
  BY DEF Way
<1>2. CASE x < 0
  <2>1. (-x) \div n \in Nat
    BY <1>1, <1>2, QuotientNat
  <2>2. ~up
    BY <1>1, <1>2
  <2>3. Quotient(x, n) = -((-x) \div n)
    BY <1>2 DEF Quotient
  <2> QED
    BY <2>1, <2>2, <2>3 DEF Way
<1>3. CASE ~(x < 0)
  <2>1. x \div n \in Nat /\ Quotient(x, n) = x \div n
    BY <1>1, <1>3, QuotientNat DEF Quotient
  <2>2. ~up => x = 0
    BY <1>1, <1>3
  <2>3. x = 0 => x \div n = 0
    OBVIOUS
  <2> QED
    BY <2>1, <2>2, <2>3 DEF Way
<1> QED
  BY <1>2, <1>3

LEMMA ProductWay ==
  ASSUME NEW up \in BOOLEAN, NEW a \in Way(up), NEW b \in Nat
  PROVE  a * b \in Way(up)
<1>1. a \in Int /\ (up => a >= 0) /\ (~up => a <= 0)
  BY DEF Way
<1>2. a >= 0 => a * b >= 0
  BY <1>1
<1>3. a <= 0 => a * b <= 0
  BY <1>1
<1>4. a * b \in Int
  BY <1>1
<1> QED
  BY <1>1, <1>2, <1>3, <1>4 DEF Way

LEMMA PartWay ==
  ASSUME NEW up \in BOOLEAN, NEW a \in Way(up), NEW b \in Nat
  PROVE  Part(a, b) \in Way(up)
<1>1. Scale \in Nat \ {0}
  BY DEF Scale
<1> QED
  BY <1>1, ProductWay, QuotientWay, Zenon DEF Part

LEMMA PartNat == ASSUME NEW a \in Nat, NEW b \in Nat PROVE Part(a, b) \in Nat
<1>1. a * b \in Nat /\ 10000 \in Nat \ {0}
  OBVIOUS
<1>2. (a * b) \div 10000 \in Nat
  BY <1>1, QuotientNat
<1> QED
  BY <1>1, <1>2 DEF Part, Quotient, Scale

LEMMA MeanWay ==
  ASSUME NEW up \in BOOLEAN, NEW sum \in Way(up), NEW weight \in Nat
  PROVE  Mean(sum, weight) \in Way(up)
<1>1. CASE weight > 0
  <2>1. weight \in Nat \ {0} /\ Scale \in Nat
    BY <1>1 DEF Scale
  <2>2. Quotient(sum * Scale, weight) \in Way(up)
    BY <2>1, ProductWay, QuotientWay, Zenon
  <2> QED
    BY <1>1, <2>2 DEF Mean
<1>2. CASE ~(weight > 0)
  BY <1>2, WaysClosed DEF Mean
<1> QED
  BY <1>1, <1>2

\* A value moved and clamped has not moved the other way.
LEMMA ClampMoves ==
  ASSUME NEW up \in BOOLEAN, NEW low \in Int, NEW high \in Int, NEW value \in low .. high,
         NEW x \in Way(up)
  PROVE  Clamp(value + x, low, high) \in Int /\ Moved(up, value, Clamp(value + x, low, high))
<1>1. x \in Int /\ (up => x >= 0) /\ (~up => x <= 0)
  BY DEF Way
<1>2. CASE value + x \in low .. high
  <2>1. Clamp(value + x, low, high) = value + x
    BY <1>2 DEF Clamp
  <2> QED
    BY <1>1, <2>1 DEF Moved
<1>3. CASE value + x < low
  <2>1. Clamp(value + x, low, high) = low /\ ~up
    BY <1>1, <1>3 DEF Clamp
  <2> QED
    BY <2>1 DEF Moved
<1>4. CASE value + x > high
  <2>1. Clamp(value + x, low, high) = high /\ up
    BY <1>1, <1>4 DEF Clamp
  <2> QED
    BY <2>1 DEF Moved
<1> QED
  BY <1>1, <1>2, <1>3, <1>4

LEMMA ClampWay ==
  ASSUME NEW up \in BOOLEAN, NEW x \in Way(up), NEW bound \in Nat
  PROVE  Clamp(x, -bound, bound) \in Way(up)
<1>1. -bound \in Int /\ bound \in Int /\ 0 \in -bound .. bound
  OBVIOUS
<1>2. Clamp(0 + x, -bound, bound) \in Int /\ Moved(up, 0, Clamp(0 + x, -bound, bound))
  BY <1>1, ClampMoves, Zenon
<1>3. 0 + x = x
  BY DEF Way
<1> QED
  BY <1>2, <1>3 DEF Moved, Way

LEMMA ClampNat ==
  ASSUME NEW value, NEW low \in Nat, NEW high \in Nat
  PROVE  Clamp(value, low, high) \in Nat
<1>1. CASE value \in low .. high
  <2>1. value \in Nat
    BY <1>1
  <2> QED
    BY <1>1, <2>1 DEF Clamp
<1>2. CASE value \notin low .. high
  <2>1. Clamp(value, low, high) = low \/ Clamp(value, low, high) = high
    BY <1>2, Zenon DEF Clamp
  <2> QED
    BY <2>1
<1> QED
  BY <1>1, <1>2

LEMMA LearningRateNat == ASSUME NEW batch PROVE LearningRate(batch) \in Nat
<1>1. MinRate \in Nat /\ MaxRate \in Nat
  BY OptimizationAssumption
<1> QED
  BY <1>1, ClampNat, Zenon DEF LearningRate

-----------------------------------------------------------------------------

\* The type of the signals that all push this way.
TypeOf(up) == IF up THEN "MISSED_VIOLATION" ELSE "FALSE_POSITIVE"

LEMMA WaysOfConstants ==
  ASSUME NEW up \in BOOLEAN
  PROVE  /\ up => {8000, 1500, 7000} \subseteq Way(up)
         /\ ~up => {-6000, -1000, -5000} \subseteq Way(up)
         /\ Way(TRUE) = Nat
BY DEF Way

LEMMA NamedWay ==
  ASSUME NEW up \in BOOLEAN, NEW s, s.weight \in Nat, NEW d,
         NEW onNamed \in Way(up), NEW onAll \in Way(up)
  PROVE  Named(s, d, onNamed, onAll).sum \in Way(up)
         /\ Named(s, d, onNamed, onAll).weight \in Nat
<1> DEFINE a == Part(onNamed, s.weight)
           b == Part(onAll, s.weight)
           c == Part(3000, s.weight)
<1>1. a \in Way(up) /\ b \in Way(up)
  BY PartWay, Zenon
<1>2. c \in Nat
  <2> DEFINE k == 3000
             w == s.weight
  <2>1. k \in Nat /\ w \in Nat
    OBVIOUS
  <2> HIDE DEF k, w
  <2>2. Part(k, w) \in Nat
    BY <2>1, PartNat
  <2> QED
    BY <2>2 DEF k, w
<1>3. Named(s, d, onNamed, onAll) =
         IF d \in s.named THEN [sum |-> a + b, weight |-> s.weight + c]
                          ELSE [sum |-> b, weight |-> c]
  BY Zenon DEF Named, Demand
<1> HIDE DEF a, b, c
<1>4. a + b \in Way(up) /\ s.weight + c \in Nat
  BY <1>1, <1>2, WaysClosed
<1>5. CASE d \in s.named
  BY <1>3, <1>4, <1>5
<1>6. CASE ~(d \in s.named)
  BY <1>1, <1>2, <1>3, <1>6
<1> QED
  BY <1>5, <1>6

LEMMA DemandWay ==
  ASSUME NEW up \in BOOLEAN, NEW s \in SignalInputs, s.type = TypeOf(up), NEW d
  PROVE  /\ DemandOf(s, d).sum \in Way(up) /\ DemandOf(s, d).weight \in Nat
         /\ BiasPressure(s) \in Way(up) /\ s.weight \in Nat
<1>1. s.weight \in 0 .. Scale /\ (s.type = "MISSED_VIOLATION" => s.severity \in 0 .. Scale)
  BY SignalAssumption
<1>2. s.weight \in Nat /\ (s.type = "MISSED_VIOLATION" => s.severity \in Nat)
  <2>1. 0 .. Scale \subseteq Nat
    BY DEF Scale
  <2> QED
    BY <1>1, <2>1, Zenon
<1>3. CASE up
  <2>1. s.type = "MISSED_VIOLATION" /\ s.severity \in Nat
    BY <1>2, <1>3 DEF TypeOf
  <2> DEFINE x == Part(8000, s.severity)
             y == Part(1500, s.severity)
             z == Part(7000, s.severity)
  <2>2. 8000 \in Way(up) /\ 1500 \in Way(up) /\ 7000 \in Way(up)
    BY <1>3 DEF Way
  <2>3. x \in Way(up) /\ y \in Way(up) /\ z \in Way(up)
    BY <2>1, <2>2, PartWay
  <2>4. DemandOf(s, d) = Named(s, d, x, y)
    BY <2>1 DEF DemandOf
  <2>5. BiasPressure(s) = Part(z, s.weight)
    BY <2>1 DEF BiasPressure
  <2> HIDE DEF x, y, z
  <2>6. Part(z, s.weight) \in Way(up)
    BY <1>2, <2>3, PartWay, Zenon
  <2> QED
    BY <1>2, <2>3, <2>4, <2>5, <2>6, NamedWay, Zenon
<1>4. CASE ~up
  <2>1. s.type = "FALSE_POSITIVE"
    BY <1>4 DEF TypeOf
  <2>2. -6000 \in Way(up) /\ -1000 \in Way(up) /\ -5000 \in Way(up)
    BY <1>4 DEF Way
  <2>3. DemandOf(s, d) = Named(s, d, -6000, -1000)
    BY <2>1 DEF DemandOf
  <2>4. BiasPressure(s) = Part(-5000, s.weight)
    BY <2>1 DEF BiasPressure
  <2>5. Part(-5000, s.weight) \in Way(up)
    BY <1>2, <2>2, PartWay
  <2> QED
    BY <1>2, <2>2, <2>3, <2>4, <2>5, NamedWay
<1> QED
  BY <1>3, <1>4

\* What a batch asks for whose signals all push one way.
LEMMA BatchWay ==
  ASSUME NEW up \in BOOLEAN, NEW batch \in Seq(WaitingSignal),
         \A i \in DOMAIN batch : batch[i].signal \in SignalInputs
                                 /\ batch[i].signal.type = TypeOf(up),
         NEW d
  PROVE  /\ DimensionDelta(batch, d) \in Way(up)
         /\ Total(BiasPressure, batch) \in Way(up)
         /\ Total(LAMBDA s : s.weight, batch) \in Nat
<1> DEFINE sums == [i \in DOMAIN batch |-> DemandOf(batch[i].signal, d).sum]
           weights == [i \in DOMAIN batch |-> DemandOf(batch[i].signal, d).weight]
           pressures == [i \in DOMAIN batch |-> BiasPressure(batch[i].signal)]
           confidences == [i \in DOMAIN batch |-> batch[i].signal.weight]
<1>1. IsFiniteSet(DOMAIN batch)
  <2>1. DOMAIN batch = 1 .. Len(batch) /\ Len(batch) \in Nat
    OBVIOUS
  <2> QED
    BY <2>1, FS_Interval
<1>2. \A i \in DOMAIN batch :
         /\ DemandOf(batch[i].signal, d).sum \in Way(up)
         /\ DemandOf(batch[i].signal, d).weight \in Nat
         /\ BiasPressure(batch[i].signal) \in Way(up) /\ batch[i].signal.weight \in Nat
  BY DemandWay, Zenon
<1>3. 0 \in Way(up) /\ \A a, b \in Way(up) : a + b \in Way(up)
  BY WaysClosed
<1>4. 0 \in Nat /\ \A a, b \in Nat : a + b \in Nat
  OBVIOUS
<1>5. /\ DOMAIN sums = DOMAIN batch /\ \A i \in DOMAIN batch : sums[i] \in Way(up)
      /\ DOMAIN weights = DOMAIN batch /\ \A i \in DOMAIN batch : weights[i] \in Nat
      /\ DOMAIN pressures = DOMAIN batch /\ \A i \in DOMAIN batch : pressures[i] \in Way(up)
      /\ DOMAIN confidences = DOMAIN batch /\ \A i \in DOMAIN batch : confidences[i] \in Nat
  BY <1>2, Zenon
<1>6. DimensionDelta(batch, d) = Mean(SumFunction(sums), SumFunction(weights))
  BY Zenon DEF DimensionDelta, Total
<1>7. Total(BiasPressure, batch) = SumFunction(pressures)
  BY DEF Total
<1>8. Total(LAMBDA s : s.weight, batch) = SumFunction(confidences)
  BY DEF Total
<1> HIDE DEF sums, weights, pressures, confidences
<1>9. SumFunction(sums) \in Way(up) /\ SumFunction(pressures) \in Way(up)
  BY <1>1, <1>3, <1>5, SumStays
<1>10. SumFunction(weights) \in Nat /\ SumFunction(confidences) \in Nat
  BY <1>1, <1>4, <1>5, SumStays
<1>11. Mean(SumFunction(sums), SumFunction(weights)) \in Way(up)
  BY <1>9, <1>10, MeanWay, Zenon
<1> QED
  BY <1>6, <1>7, <1>8, <1>9, <1>10, <1>11

\* The pattern of the overrides does not speak for the other side.
Agrees(up, pattern) == IF up THEN pattern.approvalRate <= 6000 ELSE pattern.rejectionRate <= 5000

PatternOK(pattern) ==
    /\ pattern.approvalRate \in Int /\ pattern.rejectionRate \in Int
    /\ pattern.averageConfidence \in Nat

LEMMA BiasWay ==
  ASSUME NEW up \in BOOLEAN, NEW batch \in Seq(WaitingSignal),
         \A i \in DOMAIN batch : batch[i].signal \in SignalInputs
                                 /\ batch[i].signal.type = TypeOf(up),
         NEW pattern, PatternOK(pattern),
         Agrees(up, pattern) \/ pattern.sampleSize < MinimumSample
  PROVE  ConservatismDelta(batch, pattern) \in Way(up)
<1> DEFINE pushes == PatternPushes(pattern)
           pushed == [p \in pushes |-> Part(p, pattern.averageConfidence)]
           push == IF up THEN 2000 ELSE -3000
<1>1. pushes \in SUBSET {push}
  BY DEF PatternPushes, PatternOK, Agrees
<1>2. push \in Way(up)
  BY DEF Way
<1> HIDE DEF push
<1>3. IsFiniteSet(pushes) /\ Cardinality(pushes) \in Nat
  BY <1>1, FS_Singleton, FS_Subset, FS_CardinalityType
<1> HIDE DEF pushes
<1>4. pattern.averageConfidence \in Nat
  BY DEF PatternOK
<1>5. DOMAIN pushed = pushes /\ \A p \in pushes : pushed[p] \in Way(up)
  <2>1. \A p \in pushes : p \in Way(up)
    BY <1>1, <1>2
  <2>2. \A p \in pushes : Part(p, pattern.averageConfidence) \in Way(up)
    BY <1>4, <2>1, PartWay
  <2> QED
    BY <2>2
<1> DEFINE told == Total(BiasPressure, batch)
           weight == Total(LAMBDA s : s.weight, batch)
<1>6. told \in Way(up) /\ weight \in Nat
  BY BatchWay
<1>7. ConservatismDelta(batch, pattern) =
         Mean(told + SumFunction(pushed), weight + Cardinality(pushes) * pattern.averageConfidence)
  BY DEF ConservatismDelta, pushes
<1> HIDE DEF told, weight, pushed
<1>8. SumFunction(pushed) \in Way(up)
  BY <1>3, <1>5, WaysClosed, SumStays
<1>9. told + SumFunction(pushed) \in Way(up)
  BY <1>6, <1>8, WaysClosed
<1>10. weight + Cardinality(pushes) * pattern.averageConfidence \in Nat
  <2> DEFINE n == Cardinality(pushes)
             c == pattern.averageConfidence
  <2>1. n \in Nat /\ c \in Nat
    BY <1>3, <1>4
  <2> HIDE DEF n, c
  <2>2. weight + n * c \in Nat
    BY <1>6, <2>1
  <2> QED
    BY <2>2 DEF n, c
<1> QED
  BY <1>7, <1>9, <1>10, MeanWay, Zenon

LEMMA AdaptationSignalOK ==
  ASSUME ScoringInv
  PROVE  PatternOK(AdaptationSignal)
<1> DEFINE window == Newest(overrideHistory, AdaptationWindow)
           With(verdict) == Cardinality({i \in DOMAIN window : window[i].verdict = verdict})
           Rate(n) == IF window = <<>> THEN 0 ELSE Quotient(n, Len(window))
           confidences == [i \in DOMAIN window |-> window[i].rationale.confidence]
<1>1. window \in Seq(OverrideRecord)
  BY NewestElements, OverrideAssumption DEF ScoringInv, OverrideTypeOK
<1>2. AdaptationSignal.approvalRate = Rate(With("APPROVED") * Scale)
      /\ AdaptationSignal.rejectionRate = Rate(With("REJECTED") * Scale)
      /\ AdaptationSignal.averageConfidence = Rate(SumFunction(confidences))
  BY DEF AdaptationSignal
<1> HIDE DEF window
<1>3. DOMAIN window = 1 .. Len(window) /\ Len(window) \in Nat /\ IsFiniteSet(DOMAIN window)
  BY <1>1, FS_Interval
<1>4. ASSUME NEW n \in Nat PROVE Rate(n) \in Nat
  <2>1. CASE window = <<>>
    BY <2>1
  <2>2. CASE window # <<>>
    <3>1. Len(window) \in Nat \ {0}
      BY <1>1, <2>2
    <3>2. n \div Len(window) \in Nat /\ Quotient(n, Len(window)) = n \div Len(window)
      BY <3>1, QuotientNat DEF Quotient
    <3> QED
      BY <2>2, <3>2
  <2> QED
    BY <2>1, <2>2
<1>5. ASSUME NEW verdict PROVE With(verdict) * Scale \in Nat
  <2> DEFINE chosen == {i \in DOMAIN window : window[i].verdict = verdict}
  <2>1. chosen \in SUBSET DOMAIN window
    OBVIOUS
  <2> HIDE DEF chosen
  <2>2. Cardinality(chosen) \in Nat
    BY <1>3, <2>1, FS_Subset, FS_CardinalityType
  <2>3. Cardinality(chosen) * Scale \in Nat
    BY <2>2 DEF Scale
  <2> QED
    BY <2>3 DEF chosen
<1>6. SumFunction(confidences) \in Nat
  <2>1. \A i \in DOMAIN window : window[i].rationale.confidence \in Nat
    <3>1. \A i \in DOMAIN window : window[i] \in OverrideRecord
      BY <1>1
    <3>2. \A r \in OverrideRecord : r.rationale \in Rationales
      BY DEF OverrideRecord
    <3>3. \A r \in Rationales : r.confidence \in Nat
      <4>1. 0 .. Scale \subseteq Nat
        BY DEF Scale
      <4>2. \A r \in Rationales : r.confidence \in 0 .. Scale
        BY OverrideAssumption
      <4> QED
        BY <4>1, <4>2, Zenon
    <3> QED
      BY <3>1, <3>2, <3>3
  <2>2. DOMAIN confidences = DOMAIN window /\ \A i \in DOMAIN window : confidences[i] \in Nat
    BY <2>1
  <2> HIDE DEF confidences
  <2>3. 0 \in Nat /\ \A a, b \in Nat : a + b \in Nat
    OBVIOUS
  <2> QED
    BY <1>3, <2>2, <2>3, SumStays
<1> HIDE DEF With, Rate, confidences
<1>7. /\ AdaptationSignal.approvalRate \in Nat /\ AdaptationSignal.rejectionRate \in Nat
      /\ AdaptationSignal.averageConfidence \in Nat
  BY <1>2, <1>4, <1>5, <1>6
<1> QED
  BY <1>7 DEF PatternOK

\* What optimize does with a batch whose signals all push one way.
LEMMA OptimizeWay ==
  ASSUME ScoringInv, NEW up \in BOOLEAN, Only(TypeOf(up)), NEW pattern, Optimize(pattern)
  PROVE  /\ \A d \in RiskDimension :
               /\ Moved(up, multipliers[d], multipliers'[d])
               /\ Moved(up, dimensionSensitivity[d], dimensionSensitivity'[d])
         /\ PatternOK(pattern) /\ (Agrees(up, pattern) \/ pattern.sampleSize < MinimumSample)
               => Moved(up, conservatismBias, conservatismBias')
<1> DEFINE batch == signalBuffer
           rate == LearningRate(batch)
<1>1. batch \in Seq(WaitingSignal)
  BY DEF ScoringInv, BufferOK
<1>2. ASSUME NEW i \in DOMAIN batch
      PROVE  batch[i].signal \in SignalInputs /\ batch[i].signal.type = TypeOf(up)
  <2> DEFINE overrides == {SignalOfOverride(r) : r \in OverrideRecord}
             signals == SignalInputs \cup overrides
  <2>1. batch[i] \in [id : 1 .. MaxSignals, signal : signals]
    <3>1. batch[i] \in WaitingSignal
      <4> HIDE DEF batch
      <4> QED BY <1>1
    <3> QED
      BY <3>1, Zenon DEF WaitingSignal
  <2>2. batch[i].signal \in signals
    <3> HIDE DEF signals
    <3> QED BY <2>1
  <2>3. batch[i].signal.type = TypeOf(up)
    BY DEF Only
  <2>4. batch[i].signal \notin overrides
    BY <2>3 DEF TypeOf, SignalOfOverride
  <2> QED
    BY <2>2, <2>3, <2>4
<1>3. rate \in Nat
  BY LearningRateNat
<1>4. multipliers \in [RiskDimension -> Multiplier]
      /\ dimensionSensitivity \in [RiskDimension -> Sensitivity] /\ conservatismBias \in Bias
  BY DEF ScoringInv, Ranges
<1>5. /\ dimensionSensitivity' = [d \in RiskDimension |->
            Clamp(dimensionSensitivity[d] + CappedDeltas(batch)[d], MinSensitivity, MaxSensitivity)]
      /\ conservatismBias' =
            Clamp(conservatismBias + CappedBiasDelta(batch, pattern), MinBias, MaxBias)
      /\ multipliers' = ApplyDeltas(multipliers, CappedDeltas(batch), rate)
  BY Zenon DEF Optimize
<1> HIDE DEF batch
<1>6. ASSUME NEW d \in RiskDimension
      PROVE  /\ Moved(up, multipliers[d], multipliers'[d])
             /\ Moved(up, dimensionSensitivity[d], dimensionSensitivity'[d])
  <2> DEFINE delta == CappedDeltas(batch)[d]
             lr == Clamp(rate, 100, 5000)
  <2>1. delta \in Way(up)
    <3>1. DimensionDelta(batch, d) \in Way(up)
      BY <1>1, <1>2, BatchWay
    <3>2. Part(DimensionDelta(batch, d), rate) \in Way(up)
      BY <1>3, <3>1, PartWay, Zenon
    <3>3. MaxDelta \in Nat
      BY DEF MaxDelta
    <3>4. delta = Clamp(Part(DimensionDelta(batch, d), rate), -MaxDelta, MaxDelta)
      BY DEF CappedDeltas
    <3> QED
      BY <3>2, <3>3, <3>4, ClampWay, Zenon
  <2> HIDE DEF delta
  <2>2. Part(delta, lr) \in Way(up)
    <3>1. lr \in Nat
      BY ClampNat
    <3> HIDE DEF lr
    <3> QED
      BY <2>1, <3>1, PartWay, Zenon
  <2>3. /\ MinMultiplier \in Int /\ MaxMultiplier \in Int
        /\ MinSensitivity \in Int /\ MaxSensitivity \in Int
    BY DEF MinMultiplier, MaxMultiplier, MinSensitivity, MaxSensitivity
  <2>4. /\ multipliers[d] \in MinMultiplier .. MaxMultiplier
        /\ dimensionSensitivity[d] \in MinSensitivity .. MaxSensitivity
    BY <1>4, Zenon DEF Multiplier, Sensitivity
  <2>5. multipliers'[d] = Clamp(multipliers[d] + Part(delta, lr), MinMultiplier, MaxMultiplier)
    BY <1>5, Zenon DEF ApplyDeltas, ClampMultiplier, delta
  <2>6. dimensionSensitivity'[d] =
           Clamp(dimensionSensitivity[d] + delta, MinSensitivity, MaxSensitivity)
    BY <1>5, Zenon DEF delta
  <2> HIDE DEF lr
  <2>7. Moved(up, multipliers[d], multipliers'[d])
    BY <2>2, <2>3, <2>4, <2>5, ClampMoves, Zenon
  <2>8. Moved(up, dimensionSensitivity[d], dimensionSensitivity'[d])
    BY <2>1, <2>3, <2>4, <2>6, ClampMoves, Zenon
  <2> QED
    BY <2>7, <2>8
<1>7. ASSUME PatternOK(pattern), Agrees(up, pattern) \/ pattern.sampleSize < MinimumSample
      PROVE  Moved(up, conservatismBias, conservatismBias')
  <2> DEFINE delta == CappedBiasDelta(batch, pattern)
  <2>1. delta \in Way(up)
    <3>1. ConservatismDelta(batch, pattern) \in Way(up)
      BY <1>1, <1>2, <1>7, BiasWay
    <3>2. Part(ConservatismDelta(batch, pattern), rate) \in Way(up)
      BY <1>3, <3>1, PartWay, Zenon
    <3>3. MaxBiasDelta \in Nat
      BY DEF MaxBiasDelta
    <3> QED
      BY <3>2, <3>3, ClampWay, Zenon DEF CappedBiasDelta
  <2> HIDE DEF delta
  <2>2. MinBias \in Int /\ MaxBias \in Int
    BY DEF MinBias, MaxBias
  <2>3. conservatismBias \in MinBias .. MaxBias
    BY <1>4 DEF Bias
  <2>4. conservatismBias' = Clamp(conservatismBias + delta, MinBias, MaxBias)
    BY <1>5 DEF delta
  <2> QED
    BY <2>1, <2>2, <2>3, <2>4, ClampMoves, Zenon
<1> QED
  BY <1>6, <1>7

\* The buffer is emptied by optimize alone.
LEMMA EmptiedByOptimize ==
  ASSUME ScoringInv, [ScoringNext]_vars, Optimized
  PROVE  Optimize(NoPattern) \/ Optimize(AdaptationSignal)
<1>1. signalBuffer # <<>> /\ signalBuffer' = <<>> /\ signalBuffer \in Seq(WaitingSignal)
  BY DEF Optimized, ScoringInv, BufferOK
<1>2. ~UNCHANGED signalBuffer
  BY <1>1
<1>3. ~UNCHANGED vars /\ ~UNCHANGED optimizationVars
  BY <1>2 DEF vars, optimizationVars
<1>4. ASSUME NEW s, IngestSignal(s) PROVE FALSE
  <2>1. signalBuffer' = Append(signalBuffer, [id |-> ingested', signal |-> s])
    BY <1>4 DEF IngestSignal
  <2> DEFINE entry == [id |-> ingested', signal |-> s]
  <2> HIDE DEF entry
  <2>2. Len(Append(signalBuffer, entry)) = Len(signalBuffer) + 1 /\ Len(signalBuffer) \in Nat
    BY <1>1
  <2> QED
    BY <1>1, <2>1, <2>2 DEF entry
<1>5. ASSUME NEW i \in DOMAIN versionHistory, Rollback(i) PROVE FALSE
  BY <1>2, <1>5 DEF Rollback
<1> QED
  BY <1>3, <1>4, <1>5, Zenon DEF ScoringNext

\* A cycle of missed violations relaxes nothing and a cycle of false positives tightens
\* nothing, whatever the weights, severities, rates and the pattern of the overrides
\* (computeDimensionDeltas, computeConservatismDelta, capDeltas, applyAdaptiveMultiplierDeltas).
THEOREM ScoringDirection == ScoringSpec => SignalsPushTheirWay
<1>1. ASSUME ScoringInv, [ScoringNext]_vars, NEW up \in BOOLEAN, Optimized, Only(TypeOf(up))
      PROVE  /\ \A d \in RiskDimension :
                   /\ Moved(up, multipliers[d], multipliers'[d])
                   /\ Moved(up, dimensionSensitivity[d], dimensionSensitivity'[d])
             /\ Agrees(up, AdaptationSignal) => Moved(up, conservatismBias, conservatismBias')
  <2>1. CASE Optimize(AdaptationSignal)
    BY <1>1, <2>1, OptimizeWay, AdaptationSignalOK, Zenon
  <2>2. CASE Optimize(NoPattern)
    <3>1. PatternOK(NoPattern) /\ NoPattern.sampleSize < MinimumSample
      BY OptimizationAssumption DEF PatternOK, NoPattern
    <3> QED
      BY <1>1, <2>2, <3>1, OptimizeWay, Zenon
  <2> QED
    BY <1>1, <2>1, <2>2, EmptiedByOptimize, Zenon
<1> DEFINE A ==
      /\ Optimized /\ Only("MISSED_VIOLATION") =>
            /\ \A d \in RiskDimension : /\ multipliers'[d] >= multipliers[d]
                                        /\ dimensionSensitivity'[d] >= dimensionSensitivity[d]
            /\ AdaptationSignal.approvalRate <= 6000 => conservatismBias' >= conservatismBias
      /\ Optimized /\ Only("FALSE_POSITIVE") =>
            /\ \A d \in RiskDimension : /\ multipliers'[d] <= multipliers[d]
                                        /\ dimensionSensitivity'[d] <= dimensionSensitivity[d]
            /\ AdaptationSignal.rejectionRate <= 5000 => conservatismBias' <= conservatismBias
<1>2. ASSUME ScoringInv, [ScoringNext]_vars PROVE A
  <2>2. ASSUME Optimized, Only("MISSED_VIOLATION")
        PROVE  /\ \A d \in RiskDimension : /\ Moved(TRUE, multipliers[d], multipliers'[d])
                                           /\ Moved(TRUE, dimensionSensitivity[d], dimensionSensitivity'[d])
               /\ Agrees(TRUE, AdaptationSignal) => Moved(TRUE, conservatismBias, conservatismBias')
    <3>1. Only(TypeOf(TRUE)) /\ TRUE \in BOOLEAN
      BY <2>2 DEF Only, TypeOf
    <3> QED
      BY <1>1, <1>2, <2>2, <3>1, Zenon
  <2>3. ASSUME Optimized, Only("FALSE_POSITIVE")
        PROVE  /\ \A d \in RiskDimension : /\ Moved(FALSE, multipliers[d], multipliers'[d])
                                           /\ Moved(FALSE, dimensionSensitivity[d], dimensionSensitivity'[d])
               /\ Agrees(FALSE, AdaptationSignal) => Moved(FALSE, conservatismBias, conservatismBias')
    <3>1. Only(TypeOf(FALSE)) /\ FALSE \in BOOLEAN
      BY <2>3 DEF Only, TypeOf
    <3> QED
      BY <1>1, <1>2, <2>3, <3>1, Zenon
  <2>4. Optimized /\ Only("MISSED_VIOLATION") =>
            /\ \A d \in RiskDimension : /\ multipliers'[d] >= multipliers[d]
                                        /\ dimensionSensitivity'[d] >= dimensionSensitivity[d]
            /\ AdaptationSignal.approvalRate <= 6000 => conservatismBias' >= conservatismBias
    BY <2>2 DEF Moved, Agrees
  <2>5. Optimized /\ Only("FALSE_POSITIVE") =>
            /\ \A d \in RiskDimension : /\ multipliers'[d] <= multipliers[d]
                                        /\ dimensionSensitivity'[d] <= dimensionSensitivity[d]
            /\ AdaptationSignal.rejectionRate <= 5000 => conservatismBias' <= conservatismBias
    BY <2>3 DEF Moved, Agrees
  <2> QED
    BY <2>4, <2>5
<1>3. ScoringInv /\ [ScoringNext]_vars => [A]_vars
  BY <1>2
<1> QED
  BY <1>3, ScoringInvariant, PTL DEF ScoringSpec, SignalsPushTheirWay
=============================================================================

-------------------------- MODULE HealthGateProofs --------------------------
(***************************************************************************)
(* The invariants of HealthGate, for any pair-sets, spreads, windows,      *)
(* limits and instants.                                                    *)
(***************************************************************************)
EXTENDS HealthGate, SumTheorems, SequenceTheorems, TLAPS

LEMMA PairSetsFacts ==
  /\ Len(PairSets) \in Nat \ {0} /\ DOMAIN PairSets = 1..Len(PairSets)
  /\ \A i \in 1..Len(PairSets) : PairSets[i].primary \in Primaries
BY HealthAssumption DEF Primaries

\* current_state answers EmergencyShutdown as soon as one active failure asks for it,
\* whatever else is active. (max_by_key of severity_rank)
THEOREM WorstDecides ==
  ASSUME NEW f \in failures, SeverityFor(f) = "EmergencyShutdown"
  PROVE  CurrentState = "EmergencyShutdown"
<1> DEFINE states == {SeverityFor(g) : g \in failures}
<1>1. "EmergencyShutdown" \in states
  OBVIOUS
<1>2. \A s \in states : s \in {"Healthy", "Degraded", "ReadOnly", "EmergencyShutdown"}
  BY DEF SeverityFor
<1>3. \A s \in states : SeverityRank(s) <= SeverityRank("EmergencyShutdown")
  BY <1>2, SMT DEF SeverityRank
<1>4. PICK s \in states : \A t \in states : SeverityRank(t) <= SeverityRank(s)
  BY <1>1, <1>3
<1>5. /\ CurrentState \in states
      /\ \A t \in states : SeverityRank(t) <= SeverityRank(CurrentState)
  <2>1. CurrentState =
          CHOOSE s1 \in states : \A t \in states : SeverityRank(t) <= SeverityRank(s1)
    BY <1>1 DEF CurrentState
  <2> HIDE DEF states
  <2> QED
    BY <1>4, <2>1
<1>6. SeverityRank("EmergencyShutdown") <= SeverityRank(CurrentState)
  BY <1>1, <1>5
<1> HIDE DEF states
<1> QED
  BY <1>2, <1>5, <1>6, SMT DEF SeverityRank

\* Recording keeps a history well formed and within its window.
LEMMA RecordTyped ==
  ASSUME NEW history \in Histories, Windowed(history),
         NEW s \in Spreads \cup {0}, NEW t \in Stamps
  PROVE  /\ Record(history, s, t) \in Histories
         /\ Windowed(Record(history, s, t))
         /\ Record(history, s, t).last = t
<1> DEFINE longer == Append(history.samples, s)
<1>1. /\ history.samples \in Seq(Spreads \cup {0})
      /\ Len(history.samples) \in Nat /\ Len(history.samples) <= MaxSpreadSamples
  BY DEF Histories, Windowed
<1>2. longer \in Seq(Spreads \cup {0}) /\ Len(longer) = Len(history.samples) + 1
  BY <1>1
<1>3. /\ Tail(longer) \in Seq(Spreads \cup {0})
      /\ Len(Tail(longer)) = Len(history.samples)
  BY <1>1, <1>2
<1>4. MaxSpreadSamples \in Nat \ {0}
  BY HealthAssumption
<1> HIDE DEF longer
<1>5. ~(Len(longer) > MaxSpreadSamples) => Len(longer) <= MaxSpreadSamples
  BY <1>1, <1>2, <1>4, SMT
<1> QED
  BY <1>1, <1>2, <1>3, <1>5 DEF Record, Histories, Windowed, longer

LEMMA RecordSampleTyped ==
  ASSUME NEW state \in Correlations, NEW n \in Nat, NEW t \in Stamps
  PROVE  /\ RecordSample(state, n, t) \in Correlations
         /\ n > 0 => RecordSample(state, n, t).last = t /\ RecordSample(state, n, t).samples # 0
         /\ n = 0 => RecordSample(state, n, t) = state
<1>1. MaxSamples \in Nat \ {0}
  BY HealthAssumption
<1> QED
  BY <1>1, SMT DEF RecordSample, AtMost, Correlations

\* What an invocation finds is not yet old if this invocation wrote it.
LEMMA NowIsFresh ==
  ASSUME now \in Nat, NEW limit \in Nat
  PROVE  ~OlderThan(now, limit)
BY SMT DEF OlderThan

-----------------------------------------------------------------------------

LEMMA InitTyped == Init => LoopInv
<1> SUFFICES ASSUME Init PROVE LoopInv
  OBVIOUS
<1>1. MaxSamples \in Nat /\ MaxSpreadSamples \in Nat
  BY HealthAssumption
<1>2. /\ NoCorrelation \in Correlations /\ NoHistory \in Histories
      /\ Windowed(NoHistory)
  BY <1>1 DEF NoCorrelation, NoHistory, Correlations, Histories, Stamps, Windowed
<1>3. /\ NoFiles \in Files
      /\ \A p \in Primaries : NoFiles.spread[p] = NoHistory
      /\ \A i \in DOMAIN PairSets : NoFiles.correlation[i] = NoCorrelation
  BY <1>2, Zenon DEF NoFiles, Files
<1>4. [correlation |-> correlation, spread |-> spread] = NoFiles
  BY DEF Init, NoFiles
<1>5. TypeOK
  <2>1. machine \in Machines /\ quoted \in [Primaries -> Spreads \cup {0}]
        /\ stale \in [correlation : BOOLEAN, spread : BOOLEAN]
    BY DEF Init, CleanLocals, Machines
  <2>2. histories \in [DOMAIN PairSets -> Histories]
    BY <1>2 DEF Init, CleanLocals
  <2>3. \A p \in Primaries : Windowed(spread[p]) /\ Windowed(pushed.spread[p])
    BY <1>2, <1>3 DEF Init
  <2>4. pc \in Stages /\ now \in Instants \cup {-1} /\ captured \in Stamps
        /\ failures \subseteq Failures /\ rejected \subseteq DOMAIN PairSets
        /\ pushed \in Files /\ before \in Files
    BY <1>3 DEF Init, Stages, Stamps
  <2>5. j \in 1..(Len(PairSets) + 1)
    BY PairSetsFacts, SMT DEF Init
  <2> QED
    BY <1>3, <1>4, <2>1, <2>2, <2>3, <2>4, <2>5 DEF TypeOK
<1>6. EmptyIsUnstamped
  BY <1>3 DEF Init, EmptyIsUnstamped, NoCorrelation
<1>7. CleanAtStart
  BY DEF Init, CleanAtStart, CleanLocals
<1> QED
  BY <1>5, <1>6, <1>7 DEF Init, LoopInv, LoopKnowsSilence, AssessKnowsSilence,
     UnfitIsReported, SilenceIsReported, UnfitMachineNeverEnters

\* The invocation ends: its locals go, and the files stay or go back.
LEMMA BackToIdlePreserves ==
  ASSUME LoopInv, BackToIdle, Keep \/ Revert
  PROVE  LoopInv'
<1>1. MaxSamples \in Nat /\ MaxSpreadSamples \in Nat
  BY HealthAssumption
<1>2. NoHistory \in Histories /\ NoCorrelation \in Correlations
  BY <1>1 DEF NoHistory, NoCorrelation, Histories, Correlations, Stamps
<1>3. NoFiles \in Files
  BY <1>2, Zenon DEF NoFiles, Files
<1>4. /\ [correlation |-> correlation, spread |-> spread]' \in Files
      /\ pushed' \in Files
      /\ \A p \in Primaries : Windowed(spread'[p]) /\ Windowed(pushed'.spread[p])
      /\ EmptyIsUnstamped'
  <2>1. CASE Keep
    BY <2>1 DEF Keep, files, LoopInv, TypeOK, EmptyIsUnstamped, Windowed
  <2>2. CASE Revert
    <3>1. [correlation |-> pushed.correlation, spread |-> pushed.spread] = pushed
      BY DEF LoopInv, TypeOK, Files
    <3> QED
      BY <2>2, <3>1 DEF Revert, LoopInv, TypeOK, EmptyIsUnstamped, Windowed
  <2> QED
    BY <2>1, <2>2
<1>5. TypeOK'
  <2>1. machine' \in Machines /\ quoted' \in [Primaries -> Spreads \cup {0}]
        /\ stale' \in [correlation : BOOLEAN, spread : BOOLEAN]
    BY DEF BackToIdle, CleanLocals, Machines
  <2>2. histories' \in [DOMAIN PairSets -> Histories]
    BY <1>2 DEF BackToIdle, CleanLocals
  <2>3. pc' \in Stages /\ now' \in Instants \cup {-1} /\ captured' \in Stamps
        /\ failures' \subseteq Failures /\ rejected' \subseteq DOMAIN PairSets
        /\ before' \in Files
    BY <1>3 DEF BackToIdle, Stages, Stamps, LoopInv, TypeOK
  <2>4. j' \in 1..(Len(PairSets) + 1)
    BY PairSetsFacts, SMT DEF BackToIdle
  <2> QED
    BY <1>4, <2>1, <2>2, <2>3, <2>4 DEF TypeOK
<1>6. CleanAtStart'
  BY DEF BackToIdle, CleanAtStart, CleanLocals
<1> QED
  BY <1>4, <1>5, <1>6 DEF BackToIdle, LoopInv, LoopKnowsSilence, AssessKnowsSilence,
     UnfitIsReported, SilenceIsReported, UnfitMachineNeverEnters

LEMMA StartPreserves ==
  ASSUME LoopInv, Start
  PROVE  LoopInv'
<1> USE DEF Start
<1>1. TypeOK'
  <2>1. now' \in Instants
    OBVIOUS
  <2> QED
    BY <2>1 DEF LoopInv, TypeOK, files, locals, Stages, Windowed
<1>2. EmptyIsUnstamped' /\ CleanAtStart'
  BY DEF LoopInv, EmptyIsUnstamped, CleanAtStart, files, locals
<1>3. LoopKnowsSilence'
  <2>1. j' = 1 /\ stale'.correlation = FALSE /\ stale'.spread = FALSE /\ j' <= Len(PairSets)
    BY PairSetsFacts DEF LoopInv, CleanAtStart, files, locals
  <2>2. ~CorrelationSilence(j - 1)' /\ ~SpreadSilence(j - 1)'
    BY <2>1, SMT DEF CorrelationSilence, SpreadSilence
  <2>3. correlation' = before'.correlation /\ spread' = before'.spread /\ now' \in Instants
    BY DEF files
  <2> QED
    BY <2>1, <2>2, <2>3 DEF LoopKnowsSilence
<1> QED
  BY <1>1, <1>2, <1>3 DEF LoopInv, AssessKnowsSilence,
     UnfitIsReported, SilenceIsReported, UnfitMachineNeverEnters

LEMMA HeartbeatFailsPreserves ==
  ASSUME LoopInv, HeartbeatFails
  PROVE  LoopInv'
<1> USE DEF HeartbeatFails
<1>1. TypeOK'
  BY DEF LoopInv, TypeOK, files, Stages, Windowed, Reported, Failures
<1> QED
  BY <1>1 DEF LoopInv, EmptyIsUnstamped, CleanAtStart, LoopKnowsSilence, AssessKnowsSilence,
     UnfitIsReported, SilenceIsReported, UnfitMachineNeverEnters, files

LEMMA HeartbeatPreserves ==
  ASSUME LoopInv, Heartbeat
  PROVE  LoopInv'
<1> USE DEF Heartbeat
<1>1. PICK late \in BOOLEAN :
        failures' =
          Reported(
            Reported(
              Reported(failures, "DiskUsageCritical", machine'.disk = "short"),
              "MemoryUsageCritical", machine'.memory = "short"),
            "SnapshotLatencyExceeded", late)
  OBVIOUS
<1>2. /\ failures' \subseteq Failures
      /\ machine'.disk = "short" => "DiskUsageCritical" \in failures'
      /\ machine'.memory = "short" => "MemoryUsageCritical" \in failures'
  BY <1>1 DEF Reported, Failures, LoopInv, TypeOK
<1>3. TypeOK'
  BY <1>2 DEF LoopInv, TypeOK, files, Stages, Windowed
<1>4. LoopKnowsSilence'
  <2>1. /\ j' = j /\ stale' = stale /\ correlation' = correlation /\ spread' = spread
        /\ before' = before /\ now' = now /\ pc = "heartbeat" /\ pc' = "correlation"
    BY DEF files
  <2> QED
    BY <2>1, Zenon DEF LoopInv, LoopKnowsSilence, CorrelationSilence, SpreadSilence, OlderThan
<1> QED
  BY <1>2, <1>3, <1>4 DEF LoopInv, EmptyIsUnstamped, CleanAtStart, AssessKnowsSilence,
     UnfitIsReported, SilenceIsReported, UnfitMachineNeverEnters, files

LEMMA RecordCorrelationPreserves ==
  ASSUME LoopInv, RecordCorrelation
  PROVE  LoopInv'
<1> DEFINE seeded(n) == RecordSample(correlation[j], n, now)
<1>1. /\ pc = "correlation" /\ pc' = "spread" /\ j \in 1..Len(PairSets) /\ j' = j
      /\ spread' = spread /\ pushed' = pushed /\ before' = before /\ now' = now
      /\ machine' = machine /\ quoted' = quoted /\ stale' = stale
      /\ histories' = histories /\ failures' = failures /\ rejected' = rejected
  BY PairSetsFacts, SMT DEF RecordCorrelation, LoopInv, TypeOK
<1>2. PICK n \in IF correlation[j].samples = 0 THEN 0..MaxSamples ELSE {0} :
        /\ captured' = seeded(n).last
        /\ correlation' = [correlation EXCEPT ![j] = RecordSample(seeded(n), 1, now)]
  BY DEF RecordCorrelation
<1>3. /\ correlation \in [DOMAIN PairSets -> Correlations]
      /\ correlation[j] \in Correlations /\ now \in Stamps /\ n \in Nat
  <2>1. MaxSamples \in Nat
    BY HealthAssumption
  <2>2. now \in Instants
    BY <1>1 DEF LoopInv, TypeOK, LoopKnowsSilence
  <2> QED
    BY <1>1, <2>1, <2>2, PairSetsFacts DEF LoopInv, TypeOK, Files, Stamps
<1>4. seeded(n) \in Correlations
  BY <1>3, RecordSampleTyped
<1>5. /\ RecordSample(seeded(n), 1, now) \in Correlations
      /\ RecordSample(seeded(n), 1, now).samples # 0
  BY <1>3, <1>4, RecordSampleTyped
<1>6. seeded(n).last \in Stamps
  BY <1>4 DEF Correlations
<1>7. /\ correlation' \in [DOMAIN PairSets -> Correlations]
      /\ correlation'[j].samples # 0
      /\ \A i \in DOMAIN PairSets : i # j => correlation'[i] = correlation[i]
  <2> HIDE DEF seeded
  <2> QED
    BY <1>1, <1>2, <1>3, <1>5, PairSetsFacts
<1>8. OlderThan(seeded(n).last, CorrelationLimit) <=>
        OlderThan(before.correlation[j].last, CorrelationLimit)
  <2>1. correlation[j] = before.correlation[j]
    BY <1>1, PairSetsFacts DEF LoopInv, LoopKnowsSilence
  <2>2. CASE n = 0
    BY <1>3, <2>1, <2>2, RecordSampleTyped
  <2>3. CASE n # 0
    <3>1. correlation[j].samples = 0
      BY <1>2, <2>3
    <3>2. before.correlation[j].last = None
      BY <1>1, <2>1, <3>1, PairSetsFacts DEF LoopInv, EmptyIsUnstamped
    <3>3. seeded(n).last = now
      BY <1>3, <2>3, RecordSampleTyped
    <3>4. now \in Nat /\ CorrelationLimit \in Nat
      BY <1>1, HealthAssumption, LimitsAssumption DEF LoopInv, LoopKnowsSilence
    <3> QED
      BY <3>2, <3>3, <3>4, NowIsFresh DEF OlderThan
  <2> QED
    BY <2>2, <2>3
<1> HIDE DEF seeded
<1>9. TypeOK'
  BY <1>1, <1>2, <1>6, <1>7 DEF LoopInv, TypeOK, Files, Windowed, Stages
<1>10. EmptyIsUnstamped'
  BY <1>1, <1>7 DEF LoopInv, EmptyIsUnstamped
<1>11. LoopKnowsSilence'
  <2>1. /\ now' \in Instants /\ j' <= Len(PairSets)
        /\ stale'.correlation <=> CorrelationSilence(j - 1)'
        /\ stale'.spread <=> SpreadSilence(j - 1)'
    BY <1>1 DEF LoopInv, LoopKnowsSilence, CorrelationSilence, SpreadSilence, OlderThan
  <2>2. \A i \in DOMAIN PairSets : i > j => correlation'[i] = before'.correlation[i]
    BY <1>1, <1>7, SMT DEF LoopInv, LoopKnowsSilence
  <2>3. OlderThan(captured, CorrelationLimit)' <=>
          OlderThan(before.correlation[j].last, CorrelationLimit)'
    BY <1>1, <1>2, <1>8 DEF OlderThan
  <2>4. \A p \in Primaries :
           \/ spread'[p] = before'.spread[p]
           \/ spread'[p].last = now' /\ \E i \in 1..(j' - 1) : PairSets[i].primary = p
    BY <1>1 DEF LoopInv, LoopKnowsSilence
  <2> QED
    BY <1>1, <2>1, <2>2, <2>3, <2>4 DEF LoopKnowsSilence
<1> QED
  BY <1>1, <1>9, <1>10, <1>11 DEF LoopInv, CleanAtStart, AssessKnowsSilence,
     UnfitIsReported, SilenceIsReported, UnfitMachineNeverEnters

LEMMA RecordSpreadPreserves ==
  ASSUME LoopInv, RecordSpread
  PROVE  LoopInv'
<1> DEFINE p == PairSets[j].primary
           history == Record(spread[p], quoted[p], now)
<1>1. /\ pc = "spread" /\ j \in 1..Len(PairSets) /\ now \in Instants /\ p \in Primaries
      /\ correlation' = correlation /\ pushed' = pushed /\ before' = before /\ now' = now
      /\ machine' = machine /\ quoted' = quoted /\ captured' = None
      /\ failures' = failures /\ rejected' = rejected
  <2>1. j \in 1..Len(PairSets)
    BY PairSetsFacts, SMT DEF RecordSpread, LoopInv, TypeOK, LoopKnowsSilence
  <2> QED
    BY <2>1, PairSetsFacts DEF RecordSpread, LoopInv, LoopKnowsSilence
<1>2. /\ spread' = [spread EXCEPT ![p] = history]
      /\ histories' = [histories EXCEPT ![j] = history]
      /\ stale' = [correlation |-> stale.correlation \/ OlderThan(captured, CorrelationLimit),
                   spread |-> stale.spread \/ OlderThan(spread[p].last, SpreadLimit)]
      /\ IF j < Len(PairSets) THEN pc' = "correlation" /\ j' = j + 1
                              ELSE pc' = "assess" /\ j' = 1
  BY DEF RecordSpread
<1>3. /\ spread \in [Primaries -> Histories] /\ Windowed(spread[p])
      /\ histories \in [DOMAIN PairSets -> Histories]
      /\ quoted[p] \in Spreads \cup {0} /\ now \in Stamps
  BY <1>1 DEF LoopInv, TypeOK, Files, Stamps
<1>4. history \in Histories /\ Windowed(history) /\ history.last = now
  BY <1>1, <1>3, RecordTyped
<1> HIDE DEF history
<1>5. /\ spread' \in [Primaries -> Histories] /\ spread'[p] = history
      /\ \A q \in Primaries : q # p => spread'[q] = spread[q]
      /\ histories' \in [DOMAIN PairSets -> Histories]
  BY <1>1, <1>2, <1>3, <1>4, PairSetsFacts
<1>6. TypeOK'
  <2>1. \A q \in Primaries : Windowed(spread'[q])
    BY <1>4, <1>5 DEF LoopInv, TypeOK
  <2>2. j' \in 1..(Len(PairSets) + 1) /\ pc' \in Stages
    BY <1>1, <1>2, PairSetsFacts, SMT DEF Stages
  <2>3. stale' \in [correlation : BOOLEAN, spread : BOOLEAN]
    BY <1>2 DEF LoopInv, TypeOK
  <2>4. /\ [correlation |-> correlation, spread |-> spread]' \in Files
        /\ pushed' \in Files /\ before' \in Files
        /\ \A q \in Primaries : Windowed(pushed'.spread[q])
    BY <1>1, <1>5 DEF LoopInv, TypeOK, Files
  <2> QED
    BY <1>1, <1>5, <2>1, <2>2, <2>3, <2>4 DEF LoopInv, TypeOK, Stamps
<1>7. stale'.spread <=> SpreadSilence(j)
  <2>1. stale'.spread <=> SpreadSilence(j - 1) \/ OlderThan(spread[p].last, SpreadLimit)
    BY <1>1, <1>2 DEF LoopInv, LoopKnowsSilence
  <2>2. SpreadSilence(j) <=>
          SpreadSilence(j - 1) \/ OlderThan(before.spread[p].last, SpreadLimit)
    BY <1>1, PairSetsFacts, SMT DEF SpreadSilence
  <2>3. CASE spread[p] = before.spread[p]
    BY <2>1, <2>2, <2>3
  <2>4. CASE /\ spread[p].last = now
             /\ \E i \in 1..(j - 1) : PairSets[i].primary = p
    <3>1. now \in Nat /\ SpreadLimit \in Nat
      BY <1>1, HealthAssumption, LimitsAssumption
    <3>2. ~OlderThan(spread[p].last, SpreadLimit)
      BY <2>4, <3>1, NowIsFresh
    <3>3. OlderThan(before.spread[p].last, SpreadLimit) => SpreadSilence(j - 1)
      BY <2>4 DEF SpreadSilence
    <3> QED
      BY <2>1, <2>2, <3>2, <3>3
  <2> QED
    BY <1>1, <2>3, <2>4 DEF LoopInv, LoopKnowsSilence
<1>8. stale'.correlation <=> CorrelationSilence(j)
  <2>1. stale'.correlation <=>
          \/ CorrelationSilence(j - 1)
          \/ OlderThan(before.correlation[j].last, CorrelationLimit)
    BY <1>1, <1>2 DEF LoopInv, LoopKnowsSilence
  <2>2. CorrelationSilence(j) <=>
          \/ CorrelationSilence(j - 1)
          \/ OlderThan(before.correlation[j].last, CorrelationLimit)
    BY <1>1, PairSetsFacts, SMT DEF CorrelationSilence
  <2> QED
    BY <2>1, <2>2
<1>9. /\ SpreadSilence(j) <=> \E i \in 1..j :
           OlderThan(before.spread[PairSets[i].primary].last, SpreadLimit)'
      /\ CorrelationSilence(j) <=> \E i \in 1..j :
           OlderThan(before.correlation[i].last, CorrelationLimit)'
  BY <1>1 DEF SpreadSilence, CorrelationSilence, OlderThan
<1>10. LoopKnowsSilence' /\ AssessKnowsSilence'
  <2>1. CASE j < Len(PairSets)
    <3>1. /\ pc' = "correlation" /\ j' = j + 1 /\ j' - 1 = j /\ j' <= Len(PairSets)
          /\ now' \in Instants
      BY <1>1, <1>2, <2>1, PairSetsFacts, SMT
    <3>2. /\ stale'.correlation <=> CorrelationSilence(j - 1)'
          /\ stale'.spread <=> SpreadSilence(j - 1)'
      BY <1>7, <1>8, <1>9, <3>1, Zenon DEF SpreadSilence, CorrelationSilence
    <3>3. \A i \in DOMAIN PairSets :
             i > j' \/ i = j' => correlation'[i] = before'.correlation[i]
      BY <1>1, <3>1, PairSetsFacts, SMT DEF LoopInv, LoopKnowsSilence
    <3>4. \A q \in Primaries :
             \/ spread'[q] = before'.spread[q]
             \/ spread'[q].last = now' /\ \E i \in 1..(j' - 1) : PairSets[i].primary = q
      <4> SUFFICES ASSUME NEW q \in Primaries
                   PROVE  \/ spread'[q] = before'.spread[q]
                          \/ /\ spread'[q].last = now'
                             /\ \E i \in 1..(j' - 1) : PairSets[i].primary = q
        OBVIOUS
      <4>1. CASE q = p
        BY <1>1, <1>4, <1>5, <3>1, <4>1
      <4>2. CASE q # p
        <5>1. \A i \in 1..(j - 1) : i \in 1..(j' - 1)
          BY <1>1, <3>1, SMT
        <5> QED
          BY <1>1, <1>5, <4>2, <5>1 DEF LoopInv, LoopKnowsSilence
      <4> QED
        BY <4>1, <4>2
    <3> QED
      BY <3>1, <3>2, <3>3, <3>4 DEF LoopKnowsSilence, AssessKnowsSilence
  <2>2. CASE ~(j < Len(PairSets))
    <3>1. j = Len(PairSets)
      <4>1. j \in 1..Len(PairSets) /\ Len(PairSets) \in Nat
        BY <1>1, PairSetsFacts
      <4> HIDE DEF p
      <4> QED
        BY <2>2, <4>1, SMT
    <3>3. pc' = "assess"
      BY <1>2, <2>2
    <3>2. /\ stale'.correlation <=> CorrelationSilence(Len(PairSets))'
          /\ stale'.spread <=> SpreadSilence(Len(PairSets))'
      BY <1>7, <1>8, <1>9, <3>1, Zenon DEF SpreadSilence, CorrelationSilence
    <3> QED
      BY <3>2, <3>3 DEF LoopKnowsSilence, AssessKnowsSilence
  <2> QED
    BY <2>1, <2>2
<1>11. pc' \in {"correlation", "assess"}
  BY <1>2
<1>12. EmptyIsUnstamped' /\ UnfitIsReported'
  BY <1>1, <1>11 DEF LoopInv, EmptyIsUnstamped, UnfitIsReported
<1> QED
  BY <1>6, <1>10, <1>11, <1>12 DEF LoopInv, CleanAtStart, SilenceIsReported,
     UnfitMachineNeverEnters

LEMMA AssessPreserves ==
  ASSUME LoopInv, Assess
  PROVE  LoopInv'
<1>1. /\ pc = "assess" /\ pc' = "gate" /\ correlation' = correlation /\ spread' = spread
      /\ pushed' = pushed /\ before' = before /\ now' = now /\ j' = j
      /\ machine' = machine /\ quoted' = quoted /\ captured' = captured
      /\ stale' = stale /\ histories' = histories /\ rejected' = rejected
  BY DEF Assess, files
<1>2. /\ failures' \subseteq Failures
      /\ "CorrelationStale" \in failures' <=> stale.correlation
      /\ "SpreadHistoryStale" \in failures' <=> stale.spread
      /\ \A f \in {"DiskUsageCritical", "MemoryUsageCritical"} :
           f \in failures => f \in failures'
  BY DEF Assess, Reported, Failures, LoopInv, TypeOK
<1>3. TypeOK'
  BY <1>1, <1>2 DEF LoopInv, TypeOK, Stages, Windowed
<1>4. SilenceIsReported'
  <2>1. stale.correlation <=>
          \E i \in DOMAIN PairSets : OlderThan(before.correlation[i].last, CorrelationLimit)
    BY <1>1, PairSetsFacts DEF LoopInv, AssessKnowsSilence, CorrelationSilence
  <2>2. stale.spread <=>
          \E p \in Primaries : OlderThan(before.spread[p].last, SpreadLimit)
    BY <1>1, PairSetsFacts DEF LoopInv, AssessKnowsSilence, SpreadSilence, Primaries
  <2> QED
    BY <1>1, <1>2, <2>1, <2>2 DEF SilenceIsReported, OlderThan
<1>5. UnfitIsReported'
  BY <1>1, <1>2 DEF LoopInv, UnfitIsReported
<1> QED
  BY <1>1, <1>3, <1>4, <1>5 DEF LoopInv, EmptyIsUnstamped, CleanAtStart, LoopKnowsSilence,
     AssessKnowsSilence, UnfitMachineNeverEnters

\* outside_window, holiday_skip and health_blocked end the invocation.
LEMMA GateEndsPreserves ==
  ASSUME LoopInv, GateRefuses \/ HealthBlocks
  PROVE  LoopInv'
<1>1. pc' = "ended" /\ UNCHANGED <<files, pushed, before, now, j, locals>>
  BY DEF GateRefuses, HealthBlocks
<1>2. TypeOK'
  BY <1>1 DEF LoopInv, TypeOK, files, locals, Stages, Windowed
<1> QED
  BY <1>1, <1>2 DEF LoopInv, EmptyIsUnstamped, CleanAtStart, LoopKnowsSilence,
     AssessKnowsSilence, UnfitIsReported, SilenceIsReported, UnfitMachineNeverEnters,
     files, locals

LEMMA GatesPassPreserves ==
  ASSUME LoopInv, GatesPass
  PROVE  LoopInv'
<1>1. /\ pc = "gate" /\ pc' = "entries" /\ AllowsNewEntries(CurrentState)
      /\ UNCHANGED <<files, pushed, before, now, j, locals>>
  BY DEF GatesPass
<1>2. TypeOK'
  BY <1>1 DEF LoopInv, TypeOK, files, locals, Stages, Windowed
<1>3. SilenceIsReported'
  BY <1>1 DEF LoopInv, SilenceIsReported, files, locals, OlderThan
<1>4. UnfitMachineNeverEnters'
  <2>1. CurrentState # "EmergencyShutdown"
    BY <1>1 DEF AllowsNewEntries
  <2>2. /\ SeverityFor("DiskUsageCritical") = "EmergencyShutdown"
        /\ SeverityFor("MemoryUsageCritical") = "EmergencyShutdown"
    BY DEF SeverityFor
  <2>3. "DiskUsageCritical" \notin failures /\ "MemoryUsageCritical" \notin failures
    BY <2>1, <2>2, WorstDecides
  <2> QED
    BY <1>1, <2>3 DEF LoopInv, UnfitIsReported, UnfitMachineNeverEnters, locals
<1> QED
  BY <1>1, <1>2, <1>3, <1>4 DEF LoopInv, EmptyIsUnstamped, CleanAtStart, LoopKnowsSilence,
     AssessKnowsSilence, UnfitIsReported, files, locals

LEMMA SpreadFilterPreserves ==
  ASSUME LoopInv, SpreadFilter
  PROVE  LoopInv'
<1>1. /\ pc = "entries" /\ pc' = pc /\ correlation' = correlation /\ spread' = spread
      /\ pushed' = pushed /\ before' = before /\ now' = now
      /\ machine' = machine /\ quoted' = quoted /\ captured' = captured
      /\ stale' = stale /\ histories' = histories /\ failures' = failures
  BY DEF SpreadFilter, files
<1>2. j' \in 1..(Len(PairSets) + 1)
  <2>1. j \in 1..(Len(PairSets) + 1) /\ j <= Len(PairSets) /\ j' = j + 1
    BY DEF SpreadFilter, LoopInv, TypeOK
  <2> QED
    BY <2>1, PairSetsFacts, SMT
<1>3. rejected' \subseteq DOMAIN PairSets
  <2>1. j \in 1..(Len(PairSets) + 1) /\ j <= Len(PairSets)
    BY DEF SpreadFilter, LoopInv, TypeOK
  <2>2. j \in DOMAIN PairSets
    BY <2>1, PairSetsFacts, SMT
  <2> QED
    BY <2>2 DEF SpreadFilter, LoopInv, TypeOK
<1>4. TypeOK'
  BY <1>1, <1>2, <1>3 DEF LoopInv, TypeOK, Windowed
<1> QED
  BY <1>1, <1>4 DEF LoopInv, EmptyIsUnstamped, CleanAtStart, LoopKnowsSilence,
     AssessKnowsSilence, UnfitIsReported, SilenceIsReported, UnfitMachineNeverEnters,
     OlderThan

LEMMA EntriesDonePreserves ==
  ASSUME LoopInv, EntriesDone
  PROVE  LoopInv'
<1>1. pc' = "ended" /\ j' = 1 /\ UNCHANGED <<files, pushed, before, now, locals>>
  BY DEF EntriesDone
<1>2. j' \in 1..(Len(PairSets) + 1)
  BY <1>1, PairSetsFacts, SMT
<1>3. TypeOK'
  BY <1>1, <1>2 DEF LoopInv, TypeOK, files, locals, Stages, Windowed
<1> QED
  BY <1>1, <1>3 DEF LoopInv, EmptyIsUnstamped, CleanAtStart, LoopKnowsSilence,
     AssessKnowsSilence, UnfitIsReported, SilenceIsReported, UnfitMachineNeverEnters,
     files, locals

-----------------------------------------------------------------------------

\* No step breaks what the loop and the gates know.
LEMMA StepTyped == LoopInv /\ [Next]_vars => LoopInv'
<1> SUFFICES ASSUME LoopInv, [Next]_vars PROVE LoopInv'
  OBVIOUS
<1>1. CASE Start            BY <1>1, StartPreserves
<1>2. CASE HeartbeatFails   BY <1>2, HeartbeatFailsPreserves
<1>3. CASE Heartbeat        BY <1>3, HeartbeatPreserves
<1>4. CASE RecordCorrelation BY <1>4, RecordCorrelationPreserves
<1>5. CASE RecordSpread     BY <1>5, RecordSpreadPreserves
<1>6. CASE Assess           BY <1>6, AssessPreserves
<1>7. CASE GateRefuses \/ HealthBlocks BY <1>7, GateEndsPreserves
<1>8. CASE GatesPass        BY <1>8, GatesPassPreserves
<1>9. CASE SpreadFilter     BY <1>9, SpreadFilterPreserves
<1>10. CASE EntriesDone     BY <1>10, EntriesDonePreserves
<1>11. CASE Finish \/ Fail
  BY <1>11, BackToIdlePreserves DEF Finish, Fail
<1>12. CASE UNCHANGED vars
  <2>1. TypeOK'
    BY <1>12 DEF vars, files, locals, LoopInv, TypeOK, Windowed
  <2> QED
    BY <1>12, <2>1 DEF vars, files, locals, LoopInv, EmptyIsUnstamped, CleanAtStart,
       LoopKnowsSilence, AssessKnowsSilence, UnfitIsReported, SilenceIsReported,
       UnfitMachineNeverEnters, CorrelationSilence, SpreadSilence, OlderThan
<1> QED
  BY <1>1, <1>2, <1>3, <1>4, <1>5, <1>6, <1>7, <1>8, <1>9, <1>10, <1>11, <1>12 DEF Next

-----------------------------------------------------------------------------
(* The spread filter *)

\* A window's total is the total of its earlier samples and the last one.
LEMMA TotalOfEarlier ==
  ASSUME NEW samples \in Seq(Nat), samples # <<>>
  PROVE  /\ Front(samples) \in Seq(Nat) /\ Last(samples) \in Nat
         /\ Len(samples) = Len(Front(samples)) + 1 /\ Len(Front(samples)) \in Nat
         /\ Total(Front(samples)) \in Nat
         /\ Front(samples) = <<>> => Total(Front(samples)) = 0
         /\ Total(samples) = Total(Front(samples)) + Last(samples)
<1> DEFINE n == Len(samples)
           earlier == Front(samples)
<1>1. n \in Nat /\ n > 0 /\ DOMAIN samples = 1..n /\ samples \in [1..n -> Nat]
  BY EmptySeq, LenProperties, SMT
<1>2. /\ earlier \in Seq(Nat) /\ Len(earlier) = n - 1
      /\ \A i \in 1..(n - 1) : earlier[i] = samples[i]
  <2>1. n - 1 \in Int /\ 1 \in Int /\ \A i \in 1..(n - 1) : samples[i] \in Nat
    BY <1>1, SMT
  <2> HIDE DEF n
  <2>2. /\ SubSeq(samples, 1, n - 1) \in Seq(Nat)
        /\ Len(SubSeq(samples, 1, n - 1)) = IF 1 <= n - 1 THEN n - 1 - 1 + 1 ELSE 0
        /\ \A i \in 1..(n - 1 - 1 + 1) : SubSeq(samples, 1, n - 1)[i] = samples[1 + i - 1]
    BY <2>1, SubSeqProperties
  <2>3. /\ n - 1 - 1 + 1 = n - 1 /\ \A i \in 1..(n - 1) : 1 + i - 1 = i
        /\ (IF 1 <= n - 1 THEN n - 1 - 1 + 1 ELSE 0) = n - 1
    BY <1>1, SMT
  <2> QED
    BY <2>2, <2>3 DEF Front, n
<1>3. earlier = [i \in (1..n) \ {n} |-> samples[i]]
  <2>1. (1..n) \ {n} = 1..(n - 1)
    BY <1>1, SMT
  <2>2. earlier \in [1..(n - 1) -> Nat]
    BY <1>2, LenProperties
  <2> HIDE DEF earlier, n
  <2> QED
    BY <1>2, <2>1, <2>2
<1>4. IsFiniteSet(1..n) /\ n \in 1..n
  BY <1>1, FS_Interval, SMT
<1>5. Total(samples) = samples[n] + Total([i \in (1..n) \ {n} |-> samples[i]])
  <2>1. samples \in [1..n -> Int]
    BY <1>1
  <2> HIDE DEF n
  <2> QED
    BY <1>4, <2>1, TotalSplit
<1>6. samples[n] \in Nat /\ Last(samples) = samples[n]
  BY <1>1, <1>4 DEF Last
<1>7. Total(earlier) \in Nat /\ (earlier = <<>> => Total(earlier) = 0)
  <2>1. IsFiniteSet(1..(n - 1)) /\ earlier \in [1..(n - 1) -> Nat]
    <3> HIDE DEF earlier, n
    <3>1. n - 1 \in Int /\ 1 \in Int
      BY <1>1, SMT
    <3> QED
      BY <1>2, <3>1, FS_Interval, LenProperties
  <2>2. Total(earlier) \in Nat
    <3> HIDE DEF earlier, n
    <3> QED
      BY <2>1, TotalNat
  <2>3. ASSUME earlier = <<>> PROVE Total(earlier) = 0
    <3>1. DOMAIN earlier = {}
      BY <2>3
    <3> HIDE DEF earlier
    <3> QED
      BY <3>1, TotalEmpty
  <2> QED
    BY <2>2, <2>3
<1>8. Total(samples) = Total(earlier) + Last(samples)
  <2> HIDE DEF earlier
  <2> QED
    BY <1>3, <1>5, <1>6, <1>7, SMT
<1> HIDE DEF earlier
<1> QED
  BY <1>1, <1>2, <1>6, <1>7, <1>8, SMT DEF earlier

\* A spread that does not pass the filter was wider than the earlier samples allow,
\* although it is in the average itself: a multiplier of more than 100 percent leaves
\* more of it on its own side than it adds to the other. (passes_filter)
THEOREM TurnedAwayIsWider ==
  ASSUME NEW history, history.samples \in Seq(Nat),
         NEW s \in Nat, s = Last(history.samples), ~PassesFilter(history, s)
  PROVE  LET earlier == Front(history.samples)
         IN  /\ earlier # <<>>
             /\ s * Len(earlier) * 100 > Total(earlier) * SpreadMultiplier
<1> DEFINE samples == history.samples
           earlier == Front(samples)
           e == Len(earlier)
           E == Total(earlier)
           M == SpreadMultiplier
<1>1. samples # <<>> /\ ~(s * Len(samples) * 100 <= Total(samples) * M)
  BY DEF PassesFilter
<1>2. /\ e \in Nat /\ E \in Nat /\ Len(samples) = e + 1 /\ Total(samples) = E + s
      /\ earlier = <<>> => E = 0 /\ e = 0
  <2>1. samples \in Seq(Nat)
    OBVIOUS
  <2>2. s = Last(samples)
    OBVIOUS
  <2> HIDE DEF samples, earlier
  <2>3. /\ e \in Nat /\ E \in Nat /\ Len(samples) = e + 1 /\ Total(samples) = E + s
        /\ earlier = <<>> => E = 0
    BY <1>1, <2>1, <2>2, TotalOfEarlier DEF earlier
  <2> QED
    BY <2>3
<1>3. PICK d \in Nat : M = 100 + d
  BY HealthAssumption, SMT
<1> HIDE DEF samples, earlier, e, E, M
<1>4. (E + s) * M = E * M + s * 100 + s * d /\ s * d \in Nat /\ E * M \in Nat
  BY <1>2, <1>3, SMT
<1>5. s * (e + 1) * 100 = s * e * 100 + s * 100 /\ s * e * 100 \in Nat /\ s * 100 \in Nat
  <2>1. \A a, b \in Nat : a * (b + 1) = a * b + a /\ a * b \in Nat
    BY Z3
  <2>2. s * (e + 1) = s * e + s /\ s * e \in Nat
    BY <1>2, <2>1
  <2>3. PICK product \in Nat : product = s * e
    BY <2>2
  <2>4. (product + s) * 100 = product * 100 + s * 100
        /\ product * 100 \in Nat /\ s * 100 \in Nat
    BY SMT
  <2> QED
    BY <2>2, <2>3, <2>4
<1>6. ~(s * e * 100 + s * 100 <= E * M + s * 100 + s * d)
  BY <1>1, <1>2, <1>4, <1>5
<1>7. s * e * 100 > E * M
  <2>1. \A a, b, c, f \in Nat : ~(a + b <= c + b + f) => a > c
    BY SMT
  <2> QED
    BY <1>4, <1>5, <1>6, <2>1
<1>8. e # 0
  <2> SUFFICES ASSUME e = 0 PROVE FALSE
    OBVIOUS
  <2>1. s * e * 100 = 0
    BY SMT
  <2> QED
    BY <1>4, <1>7, <2>1, SMT
<1> QED
  BY <1>2, <1>7, <1>8 DEF samples, earlier, e, E, M

\* What is recorded stands at the end of the window, which it may have shifted.
LEMMA RecordedIsLast ==
  ASSUME NEW history \in Histories, NEW s \in Spreads \cup {0}, NEW t \in Stamps
  PROVE  /\ Record(history, s, t).samples # <<>>
         /\ Last(Record(history, s, t).samples) = s
<1> DEFINE longer == Append(history.samples, s)
           n == Len(history.samples)
<1>1. /\ history.samples \in Seq(Spreads \cup {0}) /\ n \in Nat
      /\ longer \in Seq(Spreads \cup {0}) /\ Len(longer) = n + 1 /\ longer[n + 1] = s
  BY AppendProperties, LenProperties DEF Histories
<1>2. MaxSpreadSamples \in Nat \ {0}
  BY HealthAssumption
<1>3. longer # <<>> /\ Last(longer) = s
  <2> HIDE DEF longer, n
  <2> QED
    BY <1>1, SMT DEF Last
<1>4. ASSUME Len(longer) > MaxSpreadSamples
      PROVE  Tail(longer) # <<>> /\ Last(Tail(longer)) = s
  <2> HIDE DEF longer, n
  <2>1. n >= 1 /\ n \in 1..n
    BY <1>1, <1>2, <1>4, SMT
  <2>2. /\ Len(Tail(longer)) = Len(longer) - 1
        /\ \A i \in 1..Len(Tail(longer)) : Tail(longer)[i] = longer[i + 1]
    BY <1>1, <1>3, HeadTailProperties
  <2>3. Len(Tail(longer)) = n /\ Tail(longer)[n] = s
    BY <1>1, <2>1, <2>2, SMT
  <2>4. Tail(longer) # <<>>
    BY <2>1, <2>3, SMT
  <2> QED
    BY <2>3, <2>4 DEF Last
<1> QED
  BY <1>3, <1>4 DEF Record

LEMMA InitFilters == Init => FilterInv
BY DEF Init, FilterInv, WindowEndsInQuote, NoneRejectedYet, RejectedIsWider

\* The loop records each pair-set's window in its turn, and nothing changes it, or the
\* quote, before the filter has read it.
LEMMA FilterStep ==
  ASSUME LoopInv, FilterInv, [Next]_vars
  PROVE  FilterInv'
<1> USE DEF FilterInv
<1>1. CASE Start \/ HeartbeatFails \/ Heartbeat
  <2>1. rejected' = {} /\ pc' \in {"heartbeat", "ended", "correlation"}
        /\ (pc' = "correlation" => j' = 1)
    BY <1>1 DEF Start, HeartbeatFails, Heartbeat, locals, NoneRejectedYet, LoopInv,
       CleanAtStart
  <2>2. \A i \in DOMAIN PairSets : ~(i < 1)
    BY PairSetsFacts, SMT
  <2> QED
    BY <2>1, <2>2 DEF WindowEndsInQuote, NoneRejectedYet, RejectedIsWider
<1>2. CASE RecordCorrelation
  BY <1>2 DEF RecordCorrelation, WindowEndsInQuote, NoneRejectedYet, RejectedIsWider
<1>3. CASE RecordSpread
  <2> DEFINE p == PairSets[j].primary
             history == Record(spread[p], quoted[p], now)
  <2>1. /\ pc = "spread" /\ rejected' = rejected /\ quoted' = quoted
        /\ histories' = [histories EXCEPT ![j] = history]
        /\ IF j < Len(PairSets) THEN pc' = "correlation" /\ j' = j + 1
                                ELSE pc' = "assess" /\ j' = 1
    BY <1>3 DEF RecordSpread
  <2>2. /\ j \in 1..Len(PairSets) /\ Len(PairSets) \in Nat /\ DOMAIN PairSets = 1..Len(PairSets)
        /\ now \in Instants /\ p \in Primaries
    <3>1. j \in 1..(Len(PairSets) + 1) /\ j <= Len(PairSets) /\ now \in Instants
      BY <2>1 DEF LoopInv, TypeOK, LoopKnowsSilence
    <3>2. j \in 1..Len(PairSets)
      BY <3>1, PairSetsFacts, SMT
    <3> QED
      BY <3>1, <3>2, PairSetsFacts
  <2>3. history.samples # <<>> /\ Last(history.samples) = quoted[p]
    <3>1. spread[p] \in Histories /\ quoted[p] \in Spreads \cup {0} /\ now \in Stamps
      BY <2>2 DEF LoopInv, TypeOK, Files, Stamps
    <3> QED
      BY <3>1, RecordedIsLast
  <2> HIDE DEF history
  <2>4. histories'[j] = history /\ \A i \in DOMAIN PairSets : i # j => histories'[i] = histories[i]
    BY <2>1, <2>2 DEF LoopInv, TypeOK
  <2>5. \A i \in DOMAIN PairSets : pc' = "assess" \/ i < j' => i = j \/ i < j
    BY <2>1, <2>2, SMT
  <2>6. WindowEndsInQuote'
    <3> SUFFICES ASSUME NEW i \in DOMAIN PairSets, pc' = "assess" \/ i < j'
                 PROVE  /\ histories'[i].samples # <<>>
                        /\ Last(histories'[i].samples) = quoted[PairSets[i].primary]
      BY <2>1 DEF WindowEndsInQuote
    <3>1. CASE i = j
      BY <2>3, <2>4, <3>1
    <3>2. CASE i # j
      BY <2>1, <2>4, <2>5, <3>2 DEF WindowEndsInQuote
    <3> QED
      BY <3>1, <3>2
  <2>7. rejected' = {}
    BY <2>1 DEF NoneRejectedYet
  <2> QED
    BY <2>6, <2>7 DEF NoneRejectedYet, RejectedIsWider
<1>4. CASE Assess \/ GatesPass \/ GateRefuses \/ HealthBlocks
  <2>1. /\ pc \in {"assess", "gate"} /\ pc' \in {"gate", "entries", "ended"}
        /\ UNCHANGED <<j, histories, quoted, rejected>>
    BY <1>4 DEF Assess, GatesPass, GateRefuses, HealthBlocks, locals
  <2>2. rejected' = {}
    BY <2>1 DEF NoneRejectedYet
  <2> QED
    BY <2>1, <2>2 DEF WindowEndsInQuote, NoneRejectedYet, RejectedIsWider
<1>5. CASE SpreadFilter
  <2>1. /\ pc = "entries" /\ pc' = pc /\ UNCHANGED <<histories, quoted>>
        /\ rejected' = IF PassesFilter(histories[j], quoted[PairSets[j].primary])
                       THEN rejected ELSE rejected \cup {j}
    BY <1>5 DEF SpreadFilter
  <2>2. j \in DOMAIN PairSets /\ PairSets[j].primary \in Primaries
    <3>1. j \in 1..(Len(PairSets) + 1) /\ j <= Len(PairSets)
      BY <1>5 DEF SpreadFilter, LoopInv, TypeOK
    <3>2. j \in 1..Len(PairSets)
      BY <3>1, PairSetsFacts, SMT
    <3> QED
      BY <3>2, PairSetsFacts
  <2>3. /\ histories[j].samples \in Seq(Nat) /\ quoted[PairSets[j].primary] \in Nat
        /\ quoted[PairSets[j].primary] = Last(histories[j].samples)
    <3>1. Spreads \cup {0} \subseteq Nat
      BY HealthAssumption, SMT
    <3>2. histories[j].samples \in Seq(Spreads \cup {0})
      BY <2>2 DEF LoopInv, TypeOK, Histories
    <3>3. histories[j].samples \in Seq(Nat)
      BY <3>1, <3>2
    <3>4. quoted[PairSets[j].primary] \in Nat
      BY <2>2, <3>1 DEF LoopInv, TypeOK
    <3> QED
      BY <2>1, <2>2, <3>3, <3>4 DEF WindowEndsInQuote
  <2>4. RejectedIsWider'
    <3>1. ASSUME ~PassesFilter(histories[j], quoted[PairSets[j].primary])
          PROVE  LET earlier == Front(histories[j].samples)
                 IN  /\ earlier # <<>>
                     /\ quoted[PairSets[j].primary] * Len(earlier) * 100
                          > Total(earlier) * SpreadMultiplier
      BY <2>3, <3>1, TurnedAwayIsWider
    <3> HIDE DEF PassesFilter
    <3> QED
      BY <2>1, <3>1 DEF RejectedIsWider
  <2> QED
    BY <2>1, <2>4 DEF WindowEndsInQuote, NoneRejectedYet
<1>6. CASE EntriesDone
  BY <1>6 DEF EntriesDone, locals, WindowEndsInQuote, NoneRejectedYet, RejectedIsWider
<1>7. CASE Finish \/ Fail
  BY <1>7 DEF Finish, Fail, BackToIdle, WindowEndsInQuote, NoneRejectedYet, RejectedIsWider
<1>8. CASE UNCHANGED vars
  BY <1>8 DEF vars, locals, WindowEndsInQuote, NoneRejectedYet, RejectedIsWider
<1> QED
  BY <1>1, <1>2, <1>3, <1>4, <1>5, <1>6, <1>7, <1>8 DEF Next

-----------------------------------------------------------------------------

\* No step breaks the inductive invariant.
LEMMA StepHolds == IInv /\ [Next]_vars => IInv'
  BY StepTyped, FilterStep DEF IInv

\* What the loop over the pair-sets knows at every step of it, and the two gates with
\* it, for any pair-sets, shared primaries included. (run_real_cycle)
THEOREM InductiveInvariant == Spec => []IInv
<1>1. Init => IInv
  BY InitTyped, InitFilters DEF IInv
<1> QED
  BY <1>1, StepHolds, PTL DEF Spec

\* Files, flags, failures and histories keep their form, and no spread history
\* outgrows MAX_SPREAD_SAMPLES.
THEOREM TypeCorrect == Spec => []TypeOK
<1>1. IInv => TypeOK
  BY DEF IInv, LoopInv
<1> QED
  BY <1>1, InductiveInvariant, PTL

\* A silence is reported exactly when a file had one. (any_correlation_stale,
\* any_spread_stale)
THEOREM SilenceReported == Spec => []SilenceIsReported
<1>1. IInv => SilenceIsReported
  BY DEF IInv, LoopInv
<1> QED
  BY <1>1, InductiveInvariant, PTL

\* A full disk or a process that is too large keeps every entry out.
\* (allows_new_entries)
THEOREM UnfitNeverEnters == Spec => []UnfitMachineNeverEnters
<1>1. IInv => UnfitMachineNeverEnters
  BY DEF IInv, LoopInv
<1> QED
  BY <1>1, InductiveInvariant, PTL

\* No spread is turned away that is not wider than the multiplier times the average of
\* the earlier samples, for any window, spreads and multiplier. (passes_filter)
THEOREM WiderTurnedAway == Spec => []RejectedIsWider
<1>1. IInv => RejectedIsWider
  BY DEF IInv, FilterInv
<1> QED
  BY <1>1, InductiveInvariant, PTL

=============================================================================

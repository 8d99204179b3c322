----------------------------- MODULE HealthGate -----------------------------
(***************************************************************************)
(* What one invocation of run_real_cycle (daemon/src/main.rs) knows of its *)
(* own fitness: the heartbeat and the checks after it, the correlation and *)
(* spread files each pair-set stamps (strategy/src/correlation.rs,         *)
(* buffers.rs), the HealthMonitor they report to (daemon/src/health.rs),   *)
(* and the two gates that depend on them: allows_new_entries and, pair-set *)
(* by pair-set, the spread filter.                                         *)
(*                                                                         *)
(* Abstractions. Time is in minutes. Of a correlation window only its      *)
(* length is kept; nothing ever sets its baseline_coefficient, so          *)
(* detect_regime_shift answers None. NoNewsProvider is always fresh.       *)
(* Buffers and signals are MarketState's, positions TradingCycle's.        *)
(* The files survive between invocations on a disk that stays, or, in the  *)
(* workflow, as the last push left them.                                   *)
(***************************************************************************)
EXTENDS Integers, SequencesExt, Sums

CONSTANTS
  Symbols,
  PairSets,           \* config.pairs: a sequence of [primary, secondary]
  Spreads,            \* spreads a broker quotes
  MaxSamples,         \* MAX_SAMPLES of a correlation window
  MaxSpreadSamples,   \* MAX_SPREAD_SAMPLES
  CorrelationLimit,   \* correlation_staleness_minutes
  SpreadLimit,        \* spread_staleness_minutes
  SpreadMultiplier,   \* spread_multiplier, in percent
  Instants,           \* bound: the minutes an invocation may start at
  None                \* Option::None

Primaries == {PairSets[i].primary : i \in DOMAIN PairSets}

\* Config::validate makes sure of the first two.
ASSUME HealthAssumption ==
  /\ PairSets \in Seq([primary : Symbols, secondary : Symbols]) /\ Len(PairSets) > 0
  /\ SpreadMultiplier \in Nat /\ SpreadMultiplier > 100
  /\ Spreads \subseteq Nat
  /\ MaxSamples \in Nat \ {0} /\ MaxSpreadSamples \in Nat \ {0}
  /\ Instants \subseteq Nat /\ None \notin Nat

\* It does not look at these: no limit is negative.
ASSUME LimitsAssumption == CorrelationLimit \in Nat /\ SpreadLimit \in Nat

VARIABLES
  correlation,  \* correlation_{primary}_{secondary}.json
  spread,       \* spread_history_{primary}.json
  pushed,       \* the two maps in the last commit
  before,       \* history: the two maps as the invocation found them
  pc,
  now,          \* the local variable now; between invocations, the last one
  j,            \* the pair-set a loop is at
  machine,      \* available_disk_mb and resident_memory_mb
  quoted,       \* snapshot.spreads
  captured,     \* correlation_last_updated_before_this_cycle
  stale,        \* any_correlation_stale, any_spread_stale
  histories,    \* PairCycleState.spread_history
  failures,     \* HealthMonitor.active_failures
  rejected      \* the pair-sets answered spread_rejected

files == <<correlation, spread>>
locals == <<machine, quoted, captured, stale, histories, failures, rejected>>
vars == <<files, pushed, before, pc, now, j, locals>>

-----------------------------------------------------------------------------
(* Data *)

Failures == {"BrokerHeartbeatFailure", "NewsApiDown", "DiskUsageCritical",
             "MemoryUsageCritical", "CorrelationStale", "SpreadHistoryStale",
             "SnapshotLatencyExceeded", "QueueBackpressure"}

Stages == {"idle", "heartbeat", "correlation", "spread", "assess", "gate",
           "entries", "ended"}

Machines      == [disk : {"enough", "short", "unknown"},
                  memory : {"enough", "short", "unknown"}]
Stamps        == Instants \cup {None}
Correlations  == [samples : 0..MaxSamples, last : Stamps]
Histories     == [samples : Seq(Spreads \cup {0}), last : Stamps]
Files         == [correlation : [DOMAIN PairSets -> Correlations],
                  spread : [Primaries -> Histories]]

Windowed(history) == Len(history.samples) <= MaxSpreadSamples

TypeOK ==
  /\ [correlation |-> correlation, spread |-> spread] \in Files
  /\ pushed \in Files /\ before \in Files
  /\ \A p \in Primaries : Windowed(spread[p]) /\ Windowed(pushed.spread[p])
  /\ pc \in Stages
  /\ now \in Instants \cup {-1}
  /\ j \in 1..(Len(PairSets) + 1)
  /\ machine \in Machines
  /\ quoted \in [Primaries -> Spreads \cup {0}]
  /\ captured \in Stamps
  /\ stale \in [correlation : BOOLEAN, spread : BOOLEAN]
  /\ histories \in [DOMAIN PairSets -> Histories]
  /\ failures \subseteq Failures
  /\ rejected \subseteq DOMAIN PairSets

-----------------------------------------------------------------------------
(* The monitor *)

\* severity_for
SeverityFor(failure) ==
  CASE failure \in {"BrokerHeartbeatFailure", "NewsApiDown"} -> "ReadOnly"
    [] failure \in {"DiskUsageCritical", "MemoryUsageCritical"} -> "EmergencyShutdown"
    [] OTHER -> "Degraded"

\* severity_rank
SeverityRank(state) ==
  CASE state = "Healthy" -> 0 [] state = "Degraded" -> 1
    [] state = "ReadOnly" -> 2 [] state = "EmergencyShutdown" -> 3

\* Variant: the mildest of the active failures decides.
CurrentState_Mildest ==
  LET states == {SeverityFor(f) : f \in failures}
  IN  IF states = {} THEN "Healthy"
      ELSE CHOOSE s \in states : \A t \in states : SeverityRank(s) <= SeverityRank(t)

\* current_state: the worst of them does.
CurrentState ==
  LET states == {SeverityFor(f) : f \in failures}
  IN  IF states = {} THEN "Healthy"
      ELSE CHOOSE s \in states : \A t \in states : SeverityRank(t) <= SeverityRank(s)

AllowsNewEntries(state) == state \in {"Healthy", "Degraded"}

\* report_failure and clear_failure, for one condition.
Reported(active, failure, failing) ==
  IF failing THEN active \cup {failure} ELSE active \ {failure}

-----------------------------------------------------------------------------
(* The trackers *)

AtMost(n, limit) == IF n <= limit THEN n ELSE limit

\* record_sample, n times.
RecordSample(state, n, t) ==
  [samples |-> AtMost(state.samples + n, MaxSamples),
   last    |-> IF n > 0 THEN t ELSE state.last]

\* Variant: the oldest sample is never dropped.
Record_Unbounded(history, s, t) ==
  [samples |-> Append(history.samples, s), last |-> t]

\* SpreadHistory::record
Record(history, s, t) ==
  LET longer == Append(history.samples, s)
  IN  [samples |-> IF Len(longer) > MaxSpreadSamples THEN Tail(longer) ELSE longer,
       last    |-> t]

\* Variant: a spread that is exactly the bound does not pass.
PassesFilter_Strict(history, s) ==
  \/ history.samples = <<>>
  \/ s * Len(history.samples) * 100 < Total(history.samples) * SpreadMultiplier

\* passes_filter: no more than the average times the multiplier.
PassesFilter(history, s) ==
  \/ history.samples = <<>>
  \/ s * Len(history.samples) * 100 <= Total(history.samples) * SpreadMultiplier

OlderThan(stamp, limit) == stamp # None /\ now - stamp > limit

-----------------------------------------------------------------------------
(* One invocation *)

NoCorrelation == [samples |-> 0, last |-> None]
NoHistory     == [samples |-> <<>>, last |-> None]
NoFiles       == [correlation |-> [i \in DOMAIN PairSets |-> NoCorrelation],
                  spread |-> [p \in Primaries |-> NoHistory]]

CleanLocals ==
  [machine |-> [disk |-> "unknown", memory |-> "unknown"],
   quoted |-> [p \in Primaries |-> 0],
   stale |-> [correlation |-> FALSE, spread |-> FALSE],
   histories |-> [i \in DOMAIN PairSets |-> NoHistory]]

Init ==
  /\ correlation = NoFiles.correlation /\ spread = NoFiles.spread
  /\ pushed = NoFiles /\ before = NoFiles
  /\ pc = "idle" /\ now = -1 /\ j = 1
  /\ machine = CleanLocals.machine /\ quoted = CleanLocals.quoted
  /\ captured = None /\ stale = CleanLocals.stale
  /\ histories = CleanLocals.histories /\ failures = {} /\ rejected = {}

\* HealthMonitor::new: nothing is known of the failures of earlier invocations.
Start ==
  /\ pc = "idle"
  /\ now' \in {t \in Instants : t > now}
  /\ before' = [correlation |-> correlation, spread |-> spread]
  /\ pc' = "heartbeat"
  /\ UNCHANGED <<files, pushed, j, locals>>

\* The broker answers with an error or not in time: the invocation ends with Ok.
HeartbeatFails ==
  /\ pc = "heartbeat"
  /\ failures' = Reported(failures, "BrokerHeartbeatFailure", TRUE)
  /\ pc' = "ended"
  /\ UNCHANGED <<files, pushed, before, now, j,
                 machine, quoted, captured, stale, histories, rejected>>

\* The snapshot, and the checks of the machine and of the snapshot's age. A reading
\* of the machine that cannot be had reports nothing.
Heartbeat ==
  /\ pc = "heartbeat"
  /\ quoted' \in [Primaries -> Spreads \cup {0}]
  /\ machine' \in Machines
  /\ \E late \in BOOLEAN :
       failures' =
         Reported(
           Reported(
             Reported(failures, "DiskUsageCritical", machine'.disk = "short"),
             "MemoryUsageCritical", machine'.memory = "short"),
           "SnapshotLatencyExceeded", late)
  /\ pc' = "correlation"
  /\ UNCHANGED <<files, pushed, before, now, j, captured, stale, histories, rejected>>

\* Variant: the age is taken from the state just recorded.
RecordCorrelation_CapturedAfter ==
  /\ pc = "correlation" /\ j <= Len(PairSets)
  /\ correlation' = [correlation EXCEPT ![j] = RecordSample(@, 1, now)]
  /\ captured' = correlation'[j].last
  /\ pc' = "spread"
  /\ UNCHANGED <<spread, pushed, before, now, j,
                 machine, quoted, stale, histories, failures, rejected>>

\* An empty window is first filled from the broker's history, if it has one:
\* backfill_correlation.
RecordCorrelation ==
  /\ pc = "correlation" /\ j <= Len(PairSets)
  /\ \E backfilled \in IF correlation[j].samples = 0 THEN 0..MaxSamples ELSE {0} :
       LET seeded == RecordSample(correlation[j], backfilled, now)
       IN  /\ captured' = seeded.last
           /\ correlation' = [correlation EXCEPT ![j] = RecordSample(seeded, 1, now)]
  /\ pc' = "spread"
  /\ UNCHANGED <<spread, pushed, before, now, j,
                 machine, quoted, stale, histories, failures, rejected>>

\* Variant: each pair-set overwrites what the ones before it found.
RecordSpread_LastOneCounts ==
  /\ pc = "spread"
  /\ LET p == PairSets[j].primary
         history == Record(spread[p], quoted[p], now)
     IN  /\ spread' = [spread EXCEPT ![p] = history]
         /\ histories' = [histories EXCEPT ![j] = history]
         /\ stale' = [correlation |-> OlderThan(captured, CorrelationLimit),
                      spread |-> OlderThan(spread[p].last, SpreadLimit)]
  /\ captured' = None
  /\ IF j < Len(PairSets) THEN pc' = "correlation" /\ j' = j + 1
                          ELSE pc' = "assess" /\ j' = 1
  /\ UNCHANGED <<correlation, pushed, before, now, machine, quoted, failures, rejected>>

RecordSpread ==
  /\ pc = "spread"
  /\ LET p == PairSets[j].primary
         history == Record(spread[p], quoted[p], now)
     IN  /\ spread' = [spread EXCEPT ![p] = history]
         /\ histories' = [histories EXCEPT ![j] = history]
         /\ stale' = [correlation |-> stale.correlation \/ OlderThan(captured, CorrelationLimit),
                      spread |-> stale.spread \/ OlderThan(spread[p].last, SpreadLimit)]
  /\ captured' = None
  /\ IF j < Len(PairSets) THEN pc' = "correlation" /\ j' = j + 1
                          ELSE pc' = "assess" /\ j' = 1
  /\ UNCHANGED <<correlation, pushed, before, now, machine, quoted, failures, rejected>>

Assess ==
  /\ pc = "assess"
  /\ failures' = Reported(Reported(failures, "CorrelationStale", stale.correlation),
                          "SpreadHistoryStale", stale.spread)
  /\ pc' = "gate"
  /\ UNCHANGED <<files, pushed, before, now, j,
                 machine, quoted, captured, stale, histories, rejected>>

\* outside_window and holiday_skip.
GateRefuses ==
  /\ pc = "gate"
  /\ pc' = "ended"
  /\ UNCHANGED <<files, pushed, before, now, j, locals>>

HealthBlocks ==
  /\ pc = "gate"
  /\ ~AllowsNewEntries(CurrentState)
  /\ pc' = "ended"
  /\ UNCHANGED <<files, pushed, before, now, j, locals>>

GatesPass ==
  /\ pc = "gate"
  /\ AllowsNewEntries(CurrentState)
  /\ pc' = "entries"
  /\ UNCHANGED <<files, pushed, before, now, j, locals>>

\* What comes after the filter is TradingCycle's.
SpreadFilter ==
  /\ pc = "entries" /\ j <= Len(PairSets)
  /\ rejected' = IF PassesFilter(histories[j], quoted[PairSets[j].primary])
                 THEN rejected ELSE rejected \cup {j}
  /\ j' = j + 1
  /\ UNCHANGED <<files, pushed, before, pc, now,
                 machine, quoted, captured, stale, histories, failures>>

EntriesDone ==
  /\ pc = "entries" /\ j > Len(PairSets)
  /\ pc' = "ended" /\ j' = 1
  /\ UNCHANGED <<files, pushed, before, now, locals>>

BackToIdle ==
  /\ pc' = "idle" /\ j' = 1
  /\ machine' = CleanLocals.machine /\ quoted' = CleanLocals.quoted
  /\ captured' = None /\ stale' = CleanLocals.stale
  /\ histories' = CleanLocals.histories /\ failures' = {} /\ rejected' = {}
  /\ before' = NoFiles
  /\ UNCHANGED now

\* What the next invocation finds: the files as they are, or the last push.
Keep ==
  /\ pushed' = [correlation |-> correlation, spread |-> spread]
  /\ UNCHANGED files

Revert ==
  /\ correlation' = pushed.correlation /\ spread' = pushed.spread
  /\ UNCHANGED pushed

\* The end of an invocation that returned Ok; its push may be lost.
Finish == pc = "ended" /\ BackToIdle /\ (Keep \/ Revert)

\* A `?` or the end of the process. The workflow pushes nothing of a failed run; on
\* a disk that stays, what was written stays.
Fail == pc \notin {"idle", "ended"} /\ BackToIdle /\ (Keep \/ Revert)

Next ==
  \/ Start \/ HeartbeatFails \/ Heartbeat
  \/ RecordCorrelation \/ RecordSpread \/ Assess
  \/ GateRefuses \/ HealthBlocks \/ GatesPass
  \/ SpreadFilter \/ EntriesDone
  \/ Finish \/ Fail

Spec == Init /\ [][Next]_vars

-----------------------------------------------------------------------------
(* Properties *)

\* Where entries are considered, the monitor knows of a silence exactly when a
\* pair-set's file had one: the age of what the invocation found, neither hidden by
\* its own writes nor by another pair-set's, a shared primary's included.
\* (run_real_cycle: the two ..._before_this_cycle and any_..._stale)
SilenceIsReported ==
  pc \in {"gate", "entries"} =>
    /\ "CorrelationStale" \in failures <=>
         \E i \in DOMAIN PairSets : OlderThan(before.correlation[i].last, CorrelationLimit)
    /\ "SpreadHistoryStale" \in failures <=>
         \E p \in Primaries : OlderThan(before.spread[p].last, SpreadLimit)

\* No milder failure, reported later in the invocation, masks a full disk or a
\* process that is too large: with either, no entry is considered. (health.rs)
UnfitMachineNeverEnters ==
  pc = "entries" => machine.disk # "short" /\ machine.memory # "short"

\* A spread that is turned away was more than the multiplier times the average of
\* the earlier samples, although the average the filter uses has the spread itself
\* in it; so a first sample, or a spread of zero, never is. (passes_filter)
RejectedIsWider ==
  \A i \in rejected :
    LET earlier == Front(histories[i].samples)
    IN  /\ earlier # <<>>
        /\ quoted[PairSets[i].primary] * Len(earlier) * 100
             > Total(earlier) * SpreadMultiplier

-----------------------------------------------------------------------------
(* The inductive invariant *)

\* A pair-set's window is seeded only before its first sample, so backfilling hides
\* no silence.
EmptyIsUnstamped ==
  \A i \in DOMAIN PairSets :
    /\ correlation[i].samples = 0 => correlation[i].last = None
    /\ pushed.correlation[i].samples = 0 => pushed.correlation[i].last = None

\* The silence of the files the loop has passed, as they were found.
CorrelationSilence(n) ==
  \E i \in 1..n : OlderThan(before.correlation[i].last, CorrelationLimit)
SpreadSilence(n) ==
  \E i \in 1..n : OlderThan(before.spread[PairSets[i].primary].last, SpreadLimit)

\* Half way through the loop the flags know of just those files; the files ahead
\* are as they were found, but for a spread file shared with a pair-set behind.
LoopKnowsSilence ==
  pc \in {"heartbeat", "correlation", "spread"} =>
    /\ now \in Instants /\ j <= Len(PairSets)
    /\ pc = "heartbeat" => j = 1
    /\ stale.correlation <=> CorrelationSilence(j - 1)
    /\ stale.spread <=> SpreadSilence(j - 1)
    /\ \A i \in DOMAIN PairSets :
         i > j \/ (i = j /\ pc # "spread") => correlation[i] = before.correlation[i]
    /\ pc = "spread" =>
         (OlderThan(captured, CorrelationLimit) <=>
            OlderThan(before.correlation[j].last, CorrelationLimit))
    /\ \A p \in Primaries :
         \/ spread[p] = before.spread[p]
         \/ spread[p].last = now /\ \E i \in 1..(j - 1) : PairSets[i].primary = p

AssessKnowsSilence ==
  pc = "assess" =>
    /\ stale.correlation <=> CorrelationSilence(Len(PairSets))
    /\ stale.spread <=> SpreadSilence(Len(PairSets))

\* A machine found unfit is a failure from the checks on.
UnfitIsReported ==
  pc \in {"correlation", "spread", "assess", "gate"} =>
    /\ machine.disk = "short" => "DiskUsageCritical" \in failures
    /\ machine.memory = "short" => "MemoryUsageCritical" \in failures

CleanAtStart ==
  pc \in {"idle", "heartbeat"} =>
    j = 1 /\ stale.correlation = FALSE /\ stale.spread = FALSE

LoopInv ==
  /\ TypeOK
  /\ EmptyIsUnstamped
  /\ CleanAtStart
  /\ LoopKnowsSilence
  /\ AssessKnowsSilence
  /\ UnfitIsReported
  /\ SilenceIsReported
  /\ UnfitMachineNeverEnters

\* A window the invocation has recorded ends in the spread it was quoted.
WindowEndsInQuote ==
  \A i \in DOMAIN PairSets :
    \/ pc \in {"assess", "gate", "entries"}
    \/ pc \in {"correlation", "spread"} /\ i < j
    => /\ histories[i].samples # <<>>
       /\ Last(histories[i].samples) = quoted[PairSets[i].primary]

NoneRejectedYet == pc \notin {"entries", "ended"} => rejected = {}

FilterInv == WindowEndsInQuote /\ NoneRejectedYet /\ RejectedIsWider

IInv == LoopInv /\ FilterInv

=============================================================================

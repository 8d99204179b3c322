# Formal model of oboobot

oboobot is a trading daemon written in Rust. A scheduler starts it every five
minutes; one *invocation* (`run_real_cycle`) reads the state directory, asks the
broker what is open, reads prices, closes what should be closed, perhaps opens
something, writes its state back, and ends. Nothing survives in memory. The
scheduled job pushes the state directory to a state repository when, and only
when, the invocation succeeded.

Most of what can go wrong is therefore between steps and between invocations: a
reply lost after the broker acted, a crash between a fill and the log, a log that
is older than the account, a file cut in the middle. That is what these modules
are about.

## 1. The system and its components

| Component | State it keeps | Operations | What makes it correct |
|---|---|---|---|
| Trading cycle (`daemon/src/main.rs`, `.github/workflows/trading.yml`) | `open_positions` in memory; `positions.cursor`, `status.json` on disk; the pushed copy | start, reconcile, snapshot, exit sweep, gates, entry loop, reconcile after a fill, push | own positions stay under the cap and apart in time, none is left unwatched, every fill reaches the log, the invocation ends |
| Reconciliation (`daemon/src/recovery.rs`) | none | diff of local and broker positions; the broker wins | nothing the broker holds is missed |
| Exit monitor (`daemon/src/monitor.rs`) | none | stop, target, news, SMT contradiction | exits follow from the position and the current readings |
| Operations (`daemon/src/operations.rs`) | `PAUSED`, `decisions.cursor`, `status.json` | kill switch, collision guard, records | one entry per pair per window; the status is that of the last run |
| Market buffers (`strategy/src/buffers.rs`) | a daily and a session range per symbol, one file each | update (widen or restart), boundaries | ranges only widen until they expire; a session lies inside its day |
| SMT divergence (`strategy/src/smt.rs`) | none | compare two assets with their ranges, resolve a tier | symmetric in its two assets; fires when one sweeps and the other holds |
| True Open, macro cycle, calendar (`session_time/src`) | weekly and daily level files | capture, bias, gate, window, trading week | a bias comes from the right level; windows and weeks at their boundaries |
| Risk engine (`risk/src/sizing.rs`) | none | an ordered list of checks, then a size | each limit rejects what exceeds it; what is approved is affordable |
| Deriv client (`broker/src/deriv.rs`) | map of pending requests, the socket, a reader task | call, retry, adapter operations | no trade twice, answers go to their askers, every call returns |
| Health (`daemon/src/health.rs`) | active failures of this invocation; stamps in the correlation and spread files | report, clear, heartbeat with a timeout, staleness, spread filter | the worst active failure decides whether to enter; a silence is seen although each run overwrites its traces |
| Persistence (`persistence/src`) | append-only logs, snapshot files | append, read, write by rename | what was acknowledged is there; a reader never sees half a value |
| Replay (`daemon/src/replay.rs`, `main.rs`) | a simulated clock, an index into daily bars, a broker in a file | step, fill, close, report | replay decides as the live cycle does, on its own clock; the report adds up |
| Event bus, scheduler (`daemon/src/event_bus.rs`, `scheduler.rs`) | two bounded channels; the next window | publish, receive; wait | used by nothing but their own tests |
| Mock and Bybit brokers, notifications, assistant, news, configuration | — | — | stubs, output, parsing |

**How they interact.** One task runs the invocation and awaits one broker
operation at a time. Inside the Deriv client a second task reads the socket and
shares the map of pending requests with the caller: the only shared memory of the
program. Everything else communicates through the state directory, from one
invocation to the next, and through the account at the broker, which the broker
itself (stops, targets) and its owner (trades by hand) change at any time.

**What is hard** is listed line by line under `hazards` in `PROJECT.json`, with
the properties that watch each.

## 2. Modules

    PositionBook          what the daemon promises about its account (abstract)
       ^ implemented by
    TradingCycle          one invocation after another, with crashes and lost replies
    MarketState           buffers and the SMT reading, across boundaries and crashes
    DerivClient           request/response client: caller, reader task, Deriv
    StateFiles            CursorFile and SnapshotFile under kills and power losses
    TrueOpen              True Open levels: capture, bias, gate, the two shared files
    Calendar              holidays, New York time, trading weeks, windows (operators)
    HealthGate            what an invocation knows of its own fitness, and the two gates
    RiskEngine            the checks and the size of evaluate (operators)
       ^ used by
    Replay                run_replay: the whole cycle, computed, over historical bars
    Sums                  the sum of a function with a finite domain (operator)
    MC<Module>            bounds for TLC
    <Module>Proofs        theorems and proofs; RiskEngine's are in ReplayProofs
    SumTheorems           what a sum is, for the proofs about reports and averages

Operators named `<Definition>_<Something>` are variants of a definition with one
plausible mistake in it (a dropped count, a missing fsync, a reversed guard). No
specification uses them; putting one in the place of its original makes TLC
report the property it is listed with in `PROJECT.json`, which shows that the
property can fail.

### TradingCycle

`pc` is the stage of `run_real_cycle`: `reconcile`, `snapshot`, `exits`, `close`,
`sweepPersist`, `gates`, `entries`, `submit`, `fillReconcile`, `fillPersist`,
`push`. `broker` is the account, `dir` the state directory (the lines of
`positions.cursor` and the number of the invocation that wrote `status.json`),
`repo` the pushed copy, `open` the vector `open_positions` as a set of entries,
each with the log line it came from, so that repetitions count. `issued` is a
history variable.

Each stage is an action that makes all of that stage's changes: `StartupReconcile`
replaces `open` by what `reconcile` and `apply_reconciliation` return for
`read_all()`; `EvaluateExits` selects exits; `CloseExecuted`/`CloseFails` make one
`close_position`; `ReconcileAfterFill` and `AppendPosition` are the
reconciliation and the appends after a fill; `Approve` is a signal that the
collision guard and the risk engine's cap let through; `SubmitFilled`,
`SubmitReplyLost` and `SubmitPartial` are the outcomes of `submit_order`. `Fail` is
any `?`, a kill, or a rejected push, at any stage. After it the next run finds the
directory as it was left (a machine that keeps it) or as last pushed (the
scheduled job, which checks it out afresh). `BrokerCloses`, `OpenByHand` and `Tick`
may come between any two steps.

Inputs, not computed: which positions are beyond their stop or target (the same
for every copy of a position), the spread filter, the True Open gate, health,
holidays and the window, the risk engine's arithmetic (HealthGate, TrueOpen, Replay
and RiskEngine compute them), and the SMT reading, which may be anything of its
type. **MarketState proves that in the program as composed
today that reading is always `None`**, so the entry part of TradingCycle describes
what the code does once a divergence is reported, which no invocation reaches
until the order of the two steps in `main.rs:386-485` is changed.

Assumed: the broker's clock and the runner's agree; an order whose reply was lost
has executed before the invocation ends, or never does (DerivClient lets it
execute later, and shows what that means for the client); `list_open_positions`
reads the account at one instant; an append is whole or absent (StateFiles looks
inside it); the job's concurrency group keeps invocations from overlapping. An id is
only ever compared, so `Fresh` lets the broker take the ids in one order.

### PositionBook

The abstract specification: a set of positions and a clock. `Enter` requires fewer
than `MaxOpen` positions and `MinGap` since the last open one on the pair; `Leave`
is always possible. TradingCycle implements it with `book <- Own`, the positions
at the broker that the daemon opened itself.

### MarketState

`daily` and `session` are the buffer files; `UpdateDaily` and `UpdateSession` are
the four read-update-write steps of each pair-set in their order, `Detect` is
`evaluate_smt` on the buffers just written, `Fail` ends the invocation between any
two of them. Time is the hour in New York, without daylight saving; a missing
quote is the price 0, as in the code.

### DerivClient

`requests` lists the requests in `req_id` order; `pending` is the map shared by the
caller and the reader task; `wire`, `replies` and `executed` are Deriv's side. `pc`
walks through `call`: `issue` (take an id, insert a sender), `sending`, `waiting`,
`removing` (the timeout has elapsed, the closure has not yet taken the lock),
`backoff`. `Elapsed` may win against a reply already sent or about to be sent.
`ReaderEnds` leaves the senders in the map, as the code does. `HeartbeatElapses`
drops a snapshot at any of its awaits and with it, since the invocation returns,
the client. Adapter operations are sequences of requests (`OrderCalls` is
`proposal` with retry and then `buy` without). Deriv may answer an id at any time,
execute a trade whose caller is long gone, or never answer.

### StateFiles

A file is a sequence of chunks, three to a log line (head, body, newline), so that
a write can be cut inside the JSON text and just before the newline. `AppendFails`
is a full disk or a failed sync, `Kill` leaves what the kernel took, `PowerLoss` a
prefix no shorter than what was synced, and possibly the snapshot's previous
content, because no one syncs the directory after the rename. `ReadFrom` parses
as `read_from` does: one bad line fails the read. It names each record by the place
its line begins at, so that what it returns is a function on those places.

One assumption is not the repository's to keep: a write that fails is reported, by
`write_all` or by `sync_all`. `append` (`cursor.rs:65-75`) and `write`
(`snapshot.rs:69-79`) use tokio's `File` without a `flush`; tokio passes a write to
another thread and may learn of its failure later. Should such an error not come out
of `sync_all`, an append would return Ok for a line that is not whole, and a temporary
file that is not whole would be renamed: `LossIsLoud` and `SnapshotIsWhole` say nothing
of that.

### TrueOpen and Calendar

Calendar holds the pure functions of `session_time` on integers: dates are days,
instants seconds, New York's clock follows the US rule for daylight saving (what
chrono and chrono-tz do is marked external). TLC evaluates two assumptions in it:
the dates the tests of `calendar.rs` name, and, for every year from 1969 to 2099, that
`EasterSunday` is the first Sunday after the paschal full moon, computed another
way.

TrueOpen walks the entry loop: `EnterLoop` has the three gates, with the holiday
check on the UTC date as in `main.rs:651`; `LoadWeekly` and `LoadDaily` are one
`load_or_capture_bias` each, read, capture and write; `GenerateSignal` applies the
gate to any direction a divergence may have. `files` are the two level files,
`repo` the pushed ones, `Fail` ends the invocation anywhere and leaves either.
The clock moves between invocations only: each reads it once, so what passes
during one cannot be told from what passes after it.

`PartialWeekHasNoLevel` is worth a remark. A level captured the week before a week
that opens on a holiday is valid until that Monday at 18:00, and the code never
compares weeks. It is still never used, because the only Sundays that are holidays
are Christmas and New Year's Day, always a week apart, and the days between them
are closed to new entries. A holiday added to `StaticHolidayProvider` on another
Sunday would break it.

### HealthGate

One action per stage of `run_real_cycle` that reports to the `HealthMonitor`:
`Heartbeat` and the checks of disk, memory and latency behind it; for each pair-set
in its turn `RecordCorrelation` (the stamp of the window is captured, then the
window is written with a new one) and `RecordSpread` (the age of the history is
compared, then the history is written); `Assess`, which reports the two flags;
the gates; and `SpreadFilter`. `failures` is `active_failures`, and `CurrentState`
the worst of them. The spread file is named after the primary alone, so two
pair-sets can share it: the second then finds the stamp the first has just
written. A missing stamp is not a silence, as in the code. The next invocation
finds the files as they were left or as last pushed. Time is in minutes.

### RiskEngine

`Rejection` is the order of checks in `evaluate`, `RiskPercent` the capped
multiplier, `PositionSize` the result. Money and percentages are integers; what
the code divides to 28 digits rounds down, so the theorems about upper bounds hold
of the code up to its last digit. The profit of the day and of the week are
arguments, because the daemon passes the constant zero for both.

### Replay

The one module in which a trade is computed from end to end: reconciliation, the
exits of `monitor.rs` from bid, stop and target, equity, the context handed to
RiskEngine, the fill at the bar's close, profit at a later close, and the report.
Nothing acts on a replay but itself, so a stage is one action. Two clocks meet in
it: `clock` is the `ManualClock`, while `ReplayBroker` dates its fills by
`Utc::now()`, day 0, which every simulated day precedes. So each position has two
dates: `enteredAt`, which the guard against a second entry reads, and the history
field `day`, the bar it was entered on. The guard should shut a pair for 170 minutes,
less than a bar, and shuts it for as long as the position is held: `replay_clock`
shows it, and theorem `HeldPairsAreShut` says that it is exactly so. What holds on
either clock is `OneEntryPerPairAndBar`: two pair-sets that share a symbol do not
both enter it on one bar. `bars` are the lengths of the histories, which are loaded
for the first pair-set only; a replay with an empty one bails out before its first
bar, and is not modelled.

What `evaluate_smt` reads is an input, with a stop on the side of the bid where a
buffer can put it. MarketState shows that no reading ever occurs today; what is said
of trades here is said of the rest of the cycle, for whenever one does.

## 3. What TLC checks

| Run | Bounds | What it shows |
|---|---|---|
| `trading_cycle` | 2 invocations, 2 pair-sets that can name the same pair, 3 ids, cap 2, gap 1, clock 0..1, 1 position opened by hand from clock 1 on | cap, spacing, watch, fills logged, `InvocationEnds`, the inductive invariant, the refinement of PositionBook |
| `market_state` | 2 symbols, prices 1, 2 and missing, hours 0, 12, 17, 18 | session inside day, ranges only widen, no reading ever, the inductive invariant |
| `deriv_client` | 2 attempts, 5 frames | one execution per operation, honest outcomes, clean map, every operation returns, the inductive invariant |
| `state_files` | 4 appends, 3 snapshot writes | losses are loud, snapshots whole, the inductive invariant |
| `true_open` | 2 pair-sets, prices 0 to 2, 7 instants in 2033 and 2034 | levels of the running period, pushed levels hold, partial weeks neutral, entries on the right side, the inductive invariant |
| `health_gate` | 2 pair-sets with one primary, spreads 1, 7 and missing, minutes 0, 30, 31, 65, windows of 2 and 3 samples | a silence is reported exactly when there was one, an unfit machine enters nothing, the spread filter rejects only wider spreads, the inductive invariant |
| `replay` | 3 bars, closes 10 and 20, 3 trades; one pair-set, a second on the same symbols, or a second with a symbol of its own | the report adds up, one entry per pair and bar, a foreign symbol silences it, losses within the risk, no bar wasted, the inductive invariant, `ReplayEnds` |
| `reentry`, `sweep`, `torn_log`, `true_open_shared`, `replay_clock` | small | a documented claim that the code does not keep (section 6) |

**Why the bounds are enough to be interesting.** Two invocations are what it takes
for the second to start from what a crash left; with cap 2 and three ids the cap is
reached, exceeded if it is checked wrongly, and reached again after a close; gap 1
on a clock of 0..1 has entries that are too close and entries that are not. The
two pair-sets share their primary, so the second can name the pair just entered. The
position opened by hand is the first of its account and comes at clock 1
(`MaxByHand`, `ByHandFrom`): it stands in the list and counts there while the daemon's
own come and go beside it. Longer times, more of them, and in any order, are the
theorems' part. There is one direction: whether a position is beyond its stop or
target is an input, and a contradiction only adds to the exits that may be chosen.
The hours of MarketState include a session boundary that is not a day's (12), one
that is both (18), the hour before it, and midnight. Five frames are authorize,
an order whose proposal is retried, its buy, and one close while the buy's reply is
still under way. Four appends allow two torn lines with acknowledged ones on each
side. The instants of TrueOpen are both sides of a Monday 18:00, a midnight, a day
closed to entries in a week that opened on a holiday, New Year's Day in New York
when UTC's is over, and the Sunday the clocks change; three prices put one
above a level and below another. `true_open` gives both pair-sets one primary: its
properties do not tell symbols apart, and a second price in one invocation is what
a second invocation at that instant sees. The minutes of HealthGate have a silence
of exactly the limit, one just over it and one of both; its spreads are one that the
filter always passes, one it rejects after the other, and none. Three bars are an
entry, a stay and an exit, or an exit and a new entry; a close moves by more than
the spread, so that it can pass a stop or a target, and histories of 1 to 3 bars
differ in length. A reading is never a Double (`Doubles`); the second of the three
bars is a Tuesday, which doubles the risk past the cap by itself. In `state_files` and `true_open` the type invariant is a conjunct
of `IInv`. `MaxRuns`, `MaxClock`, `MaxByHand`, `MaxRequests`, `MaxRecords`, `MaxValues`,
`MaxTrades`, `ByHandFrom`, `Doubles` and `Instants` appear only in types, in the
choice of the first instant or of a reading, and in guards of the actions they bound,
never in a state constraint, which would cut off behaviours that liveness is about. No
run uses symmetry, for the same reason.

Deadlock is not checked in any run: invocations stop when their bound is reached,
a dropped client makes no further request, a replay ends with its report, and a
state directory may rest.

**Fairness.** `trading_cycle` assumes weak fairness of the process's own steps
(`Step`) while it runs, not of the scheduler, the broker, the clock or of
failures. The broker operations are timed, and Tokio polls a ready task.
`deriv_client` assumes weak fairness of each step of the caller: waits are timed
by `REQUEST_TIMEOUT` and backoffs end. It assumes nothing of the reader task, of
Deriv or of the network. It does assume that `write.send` returns, although the
code awaits it outside the timeout; this is the one assumption the code does not
justify by itself, and it is listed as a hazard. `replay` assumes weak fairness of
`Next`: a replay is one sequential loop that waits for nothing outside itself.

## 4. What is proved

All proofs are checked by TLAPS for every value of the constants that meets the
named assumptions.

**TradingCycleProofs** (from `PairsAssumption`: pair-sets are a non-empty sequence
over `Pairs`, and `None` is not a reading; `LimitsAssumption`: bounds are naturals).
`OwnPositionsCapped` and `OwnPositionsSpaced` are not inductive: the guard and the
cap look at `open`, a list in memory, while the claim is about the broker.
`IInv` adds what connects them. Every copy of a position, in a list or a log, is a
copy of one the broker issued, and ids identify positions (`CopiesAreGenuine`); from
the startup reconciliation to the moment of an order, every own position is in the
list (`EveryOwnPositionWatched`); nothing is dated in the future (`DatesInOrder`); and
what was checked for the order about to be sent still holds of the list
(`OrderChecked`). Since own positions only appear through an order, and `open`
contains them all when it is checked, the cap and the gap transfer from the list to
the account. `CapHolds`, `SpacingHolds`, `NothingUnwatched`, `TypeCorrect` and the
action property `PersistedFillsAreLogged` follow from `InductiveInvariant`;
`Refinement` maps each step to a step of PositionBook or a stutter.

**MarketStateProofs** (from `SymbolsAssumption`, `NoneAssumption`).
`DivergenceIsSymmetric` and `HolderIsTraded` are about `detect_divergence` for any
integers: exchanging the assets exchanges the target (ADR 0001), and the asset
named held where its counterpart swept. `NoSignalEver` rests on `UpToDate`: when
`evaluate_smt` runs, each of its four buffers already contains the price it is
compared with. `SessionsInsideDays` needs `DailyAnchored` in addition: a daily
buffer ends at an 18:00, and one just updated ends later than now, so no running
session outlives it. `RangesOnlyWiden` is the action property.

**DerivClientProofs** (any number of attempts, requests and reply kinds).
`OncePerOperation` counts executions at Deriv, while the code only decides what to
send. `IInv` connects the two: what a reply says of a trade is so and stays so
(`RepliesTrue`), because a frame is served before it is answered and an id is never
used twice; a plain request is issued once per operation (`OneTradePerOperation`),
because at its issue no earlier request of the operation is a trade (`CallKnown`);
and a trade of an operation reported `Rejected` is neither executed nor on the wire
(`RejectedIsOver`). `NoTradeTwice`, `OutcomesHonest` and `MapStaysClean` follow.

**StateFilesProofs** (`BoundsAssumption`: the bounds are naturals).
`AcknowledgedStays`: the line of an append that returned Ok is where append put
it, below the synced length, and a cut never goes below that. It is inductive only
together with the order of the acknowledged lines and with what an append about to
return will say (`NextInPlace`). `SnapshotsWhole` needs `WholeValues`: what the path
names, now or after a power loss, is always a value written out in full, because
the temporary file is complete when it is renamed. `LossesAreLoud` is the promise to a
reader. It needs `RecordsInOrder` in the invariant: of a record that reached the log
there is a beginning, uninterrupted, and heads follow each other in the order of the
appends, for a cut removes only the end of the file. Then a line read from a returned
offset begins with a head (`LinesBeginRecords`), so the records come in order and none
from before the offset. And an acknowledged line after it begins a line of the read,
or the line it stands in has a head before it, which no parse accepts
(`AckedBeginsLine`, by the last line that begins at or before it).

**TrueOpenProofs** (`TrueOpenAssumption`, and `YearsAssumption`: the instants lie
before 2100, where Calendar's leap years end). The core is `ExpiryIsLapse`. A level
expires at an instant that was computed by converting a local boundary back from New
York's clock; the properties speak of that local boundary. The two agree
(`BoundaryGoesBy`) although the clock jumps, because the hours in which it jumps,
7:00 and 6:00 UTC, are not within the hour that follows a local midnight or 18:00
(`BoundaryIsInstant`); a boundary at 1:30 would not have it. The first date
that `next_ny_occurrence` tries is the first whose boundary is still to come
(`FirstBoundary`), and a level just captured ends later than now (`EndsLater`).
`IInv` then says that what a pair-set has loaded is the level on file if it is
valid and nothing otherwise (`ReadIsOnFile`), that every level was set in the past
and ends with its period (`LevelsDated`), and that the directory is never behind the
last push (`PushedOrLater`). `LevelsOfTheirPeriod`, `EntriesFollow` and the action
property `PushedHold` follow.

`PartialWeeks` is the argument of section 2 for every year. `IInv` adds that the loop
runs only on UTC dates open to entries, and that a weekly level was set on one, in a
full trading week (`SetOnOpenDays`). A holiday on a Sunday is Christmas or New Year's
Day (`SundayHolidays`: Thanksgiving is a Thursday, and Good Friday comes two days
before a Sunday by `EasterFollowsTheMoon`, an assumption about constants that TLC
evaluates year by year). In the week after a Christmas Sunday every date is closed
(`ChristmasToNewYearIsClosed`), in New York as in UTC. In the week after a New Year's
Sunday, a level still in force was set after the Monday boundary before it, thus on a
closed day, or in this very week, which is not full.

`WindowsOfElevenMinutes` is about an operator, `IsWithinMacroCycle`, at every instant:
the code takes the least of three distances on one local date, in whole minutes, and
the theorem says what this amounts to. The three distances are enough over midnight
(a centre within the half width is one of the three, `NearestCenter`), and comparing
whole minutes makes the half width 11 minutes where the constant says 10.

**HealthGateProofs** (`HealthAssumption`; `LimitsAssumption`: the two staleness
limits are not negative, which `Config::validate` does not look at). The flags are
accumulated while the files they are about are overwritten. `LoopKnowsSilence` says
half way through the loop what they know: the flags stand for the files passed, the
files ahead are as found, except for a shared spread file that a pair-set behind
has refreshed, and has then already been counted. From it `SilenceReported`, an
equivalence. `WorstDecides` is the lemma on `current_state` behind `UnfitNeverEnters`.
`WiderTurnedAway` is arithmetic over a window of any length. The sample compared is in
the average it is compared with; with a multiplier of more than 100 percent it weighs
more on its own side than on the other (`TurnedAwayIsWider`). The invariant says that
the window ends in the sample the filter looks at (`WindowEndsInQuote`), also where
two pair-sets share a file, and that what was rejected was wider (`FilterInv`).

**ReplayProofs**, for RiskEngine (`ConfigAssumption`: what `Config::validate` ensures;
`DailyLimitAssumption`: the daily limit is not negative, which it does not look at,
and without which an account without equity would be approved).
`RiskIsCapped`, `ApprovedRiskIsBounded` and `ApprovedExposureIsCapped` are about any
signal and context; `DailyGateSeesNoLoss` says what is left of the daily limit when
the profit handed in is the constant zero.

**ReplayProofs**, for Replay (`ReplayAssumption` in addition). `OneEntry` rests on
what a bar entered being still held when its next pair-set is asked (`EnteredToday`:
exits come before entries), on the list holding exactly the positions held when the
guard looks (`KnowsTheHeld`), and on a position held never looking old to the guard
(`HeldIsEntered`), since the clock never gets past day 0 (`InStep`) and fills are dated 0
(`BookInOrder`). The same lemma makes `HeldPairsAreShut`, which is the extent of the
disagreement that `replay_clock` shows.
`ForeignSymbolNeverTrades` needs that such a replay never gets past its snapshot
(`StopsAtSnapshot`). `ReportCorrect` says that the report's counts and its profit are
those of the history and of the equity, although the sweep closes every copy the
cycle's list has of a position: one close moves one term from the open to the closed
positions, and the broker refuses the rest. `TypeCorrect` needs the same sums, for
that the equity is an integer. `LossCapped` brings `ApprovedRiskIsBounded` to the
close: the fill, at the bar's close, is no further from the stop than the ask or bid
the position was sized from, since a reading's stop stays on its side of the bid until
the bar changes (`StopsOfThisBar`), so the loss at the stop is within the cap when the
position enters the book (`BookInOrder`), and a close on the near side of the stop
loses no more. `EveryBar` is the action property.

**SumTheorems**. `Total` is a fold of the community modules, a recursion over a set by
elements chosen in no particular order. `TotalSplit` takes one term out of a sum and
`TotalJoin` adds the sums over two disjoint sets. The library's induction over finite
sets takes an operator, which no backend can instantiate; a smallest set on which the
claim fails does the same, and exists because strict inclusion of finite sets is well
founded (`WFMin`).

Every invariant and every action property of a passing run is the conclusion of a
theorem. **Only model-checked** are the liveness properties `InvocationEnds`,
`OperationEnds` and `ReplayEnds`, since liveness under fairness is out of TLAPS's
reach, and what the runs of section 6 refute.

## 5. What is not modelled

Prices as decimals; the wording of logs, notifications and decision records;
parsing of configuration and of Deriv's replies beyond "holds the field or not";
`fetch_historical_prices` and the correlation coefficient, whose strength is an
input of Replay; `detect_regime_shift`, which never fires because nothing sets a
baseline; the demo and the command line; daylight saving in MarketState (Calendar
has it); reading `/proc` and the disk; symbols that are not six letters, of which
`currency_pair` knows no currency, so that `evaluate` skips its check of them; a
replay with an empty history, which bails out before it begins; a failed write whose
error tokio's `File` would lose (section 2, StateFiles).

Left out whole, with status `not_modelled`: the event bus and the scheduler, which no
path of the program constructs (the workflow starts the invocations, and
`run_real_cycle` publishes nothing); the broker trait and the Bybit stub;
notifications, assistant and news, which are output or stubs. `apply_fill_leg` in
`domain/src/types.rs` is called by tests only.

Each module has its own part of `run_real_cycle`, with the others' parts as inputs.
Replay composes most of them in one state, without crashes; TradingCycle has the
crashes, without the arithmetic.

## 6. Where code and documents disagree

Each is a run that TLC reports as violated; details are in `PROJECT.json`.

1. `reentry`: the collision guard is documented to count closed positions, but is
   given only open ones.
2. `sweep`: a price is merged into a buffer before being compared with it, so a
   sweep is never seen.
3. `torn_log`: what was durably appended is documented to be readable; a torn line
   makes the whole log unreadable, and no later invocation starts.
4. `true_open_shared`: the True Open bias is documented to be each pair-set's own;
   the level is captured for the first pair-set and used for all.
5. `replay_clock`: a replay is documented to run the same logic on its own clock; its
   broker dates fills by the wall clock, so the guard shuts a pair for as long as its
   position is held.

Met while modelling, and plain from the code, so without a run:

- `status.json` is written at the end of each path that returns Ok; every `?`
  leaves the previous one in place.
- `docs/broker.md:29` has `authorize` and rate-limited requests retried; `connect_from_env`
  calls it once, without a retry, and `call` turns every error Deriv answers with, a rate limit among
  them, into `Rejected`, which is not retried.
- `realized_pnl_today` and `realized_pnl_this_week` are the constant zero
  (`main.rs:884`), so neither loss limit acts on a loss (`DailyGateSeesNoLoss`).
- Exposures are summed in units of size (`main.rs:675`), and `evaluate` adds the
  candidate's risk in dollars to them.
- `next_ny_occurrence` is commented (`true_open_capture.rs:22`) as the next instant "at
  or after" the given one; the code (line 38) is strictly after, which the levels need:
  one set at its boundary lasts a whole period.
- The replay warns that it "only evaluates the first configured pair-set"; when another
  pair-set brings a symbol of its own, it evaluates none
  (`ForeignSymbolSilencesReplay`).

## 7. What is left

- **TradingCycle over StateFiles**: a torn append inside an invocation, and the
  startup that then cannot read its log. `torn_log` shows the file's side of it.
- **MarketState with daylight saving**: Calendar's conversion in the two boundaries.
- **Proofs**: that `CurrentState` meets a declarative definition.
- **Event bus and scheduler**, should the program begin to use them.

------------------------------- MODULE Replay -------------------------------
(***************************************************************************)
(* run_replay (daemon/src/main.rs) with ReplayBroker (daemon/src/          *)
(* replay.rs): run_real_cycle once per historical bar, on a clock the      *)
(* harness advances by a day and a broker it advances by a bar. Fills,     *)
(* exits (daemon/src/monitor.rs), equity and what the risk engine is       *)
(* handed are computed; what evaluate_smt reads, the True Open gate, the   *)
(* health and holiday gates and the strength of the correlation are        *)
(* inputs. MarketState shows that evaluate_smt, with the buffers it is     *)
(* given today, never has a reading; what this module says of trades is    *)
(* said of the rest of the cycle, for whenever it has one.                 *)
(*                                                                         *)
(* Abstractions. Nothing else acts on a replay, so the steps of a stage    *)
(* are one action. Prices are integers and a bar's close is chosen when    *)
(* the bar is reached. A position is known by its place in book, and       *)
(* open_positions and positions.cursor are how many copies of it they      *)
(* hold. A stop is a bid the buffers have seen, on the side of the current *)
(* one that MarketState's UpToDate puts it. The file system takes every    *)
(* write, a replay lasts less than a day, and there is at least one bar:   *)
(* run_replay bails out before the first one if a history is empty.        *)
(***************************************************************************)
EXTENDS RiskEngine, Sums, Sequences, FiniteSets

CONSTANTS
  Configs,       \* candidates for config.pairs: sequences of [primary, secondary]
  Closes,        \* closing prices
  Doubles,       \* bound: whether a reading may be a Double
  HalfSpread,    \* half of SYNTHETIC_SPREAD
  StartEquity,
  Days,          \* --replay-days
  FirstWeekday,  \* the weekday of the first simulated day, Sunday 0
  MaxTrades      \* bound: positions opened

ASSUME ReplayAssumption ==
  /\ \A config \in Configs : config \in Seq([primary : Pairs, secondary : Pairs])
  /\ Closes \subseteq Nat /\ None \notin Closes
  /\ Doubles \subseteq BOOLEAN
  /\ HalfSpread \in Nat \ {0}
  /\ StartEquity \in Nat /\ Days \in Nat \ {0} /\ MaxTrades \in Nat

VARIABLES
  pairSets,   \* config.pairs
  bars,       \* how many closes the history of each replayed symbol has
  index,      \* current_index
  clock,      \* the ManualClock, in days; the replay itself runs on day 0
  quote,      \* the close of each symbol at this bar
  book,       \* every position ever opened
  closedAt,   \* and the close each was closed at; the file holds those still open
  pnl,        \* realized_pnl_total
  log,        \* positions.cursor: lines of each position
  open,       \* open_positions: elements for each position
  readings,   \* resolved_divergence of each pair-set
  pc, k,
  opened,     \* decisions "order_submitted"
  closed      \* decisions "position_closed"

harness == <<pairSets, bars, index, clock, quote>>
account == <<book, closedAt, pnl, log, opened, closed>>
vars    == <<harness, account, open, readings, pc, k>>

-----------------------------------------------------------------------------
(* Data *)

Symbols(pairs) == UNION {{pairs[i].primary, pairs[i].secondary} : i \in DOMAIN pairs}

\* Histories are loaded for the first pair-set only.
Replayed == {pairSets[1].primary, pairSets[1].secondary}

\* The closes of one bar. A symbol without a history has none: any fixed number.
Quotes == {q \in [Pairs -> Closes] :
             \A s \in Pairs \ Replayed : q[s] = CHOOSE c \in Closes : TRUE}

Trades   == 1..MaxTrades
Bids     == {c - HalfSpread : c \in Closes}
Readings == [pair : Pairs, dir : Directions, double : Doubles, stop : Bids]

Positions ==
  [pair : Pairs, dir : Directions, size : Nat, fill : Int, stop : Int, target : Int,
   enteredAt : Int,           \* entry_time
   day : Int, equity : Int]   \* history: the simulated day and the equity at its entry

Stages == {"reconcile", "snapshot", "exits", "gates", "entries", "advance", "done"}

TypeOK ==
  /\ pairSets \in Configs
  /\ bars \in [Replayed -> 1..Days]
  /\ index \in 0..(Days - 1)
  /\ clock \in (-Days)..0
  /\ quote \in Quotes
  /\ book \in Seq(Positions) /\ Len(book) <= MaxTrades
  /\ closedAt \in [Trades -> Closes \cup {None}]
  /\ pnl \in Int
  /\ log \in [Trades -> Nat]
  /\ open \in [Trades -> Nat]
  /\ readings \in [DOMAIN pairSets -> Readings \cup {None}]
  /\ pc \in Stages
  /\ k \in 1..(Len(pairSets) + 1)
  /\ opened \in 0..MaxTrades /\ closed \in 0..MaxTrades

-----------------------------------------------------------------------------
(* The broker *)

Bid(pair) == quote[pair] - HalfSpread
Ask(pair) == quote[pair] + HalfSpread

\* The positions in the broker's file.
Held == {i \in DOMAIN book : closedAt[i] = None}

Equity == StartEquity + pnl

Direction(dir) == IF dir = "Buy" THEN 1 ELSE -1

\* submit_order takes Utc::now() for the time of a fill, not the replay's clock.
FillDate == 0

\* close_position: a position's profit at a given close.
Realized(p, price) == (price - p.fill) * p.size * Direction(p.dir)

\* Variant: the longest history counts.
BarCount_Longest ==
  CHOOSE n \in {bars[s] : s \in Replayed} : \A s \in Replayed : bars[s] <= n

\* bar_count: the shortest of the histories.
BarCount ==
  CHOOSE n \in {bars[s] : s \in Replayed} : \A s \in Replayed : n <= bars[s]

\* Variant: a symbol without a history does not fail the snapshot.
HasQuote_OrNoHistory(pair) == pair \in Replayed => index < bars[pair]

\* current_price
HasQuote(pair) == pair \in Replayed /\ index < bars[pair]

-----------------------------------------------------------------------------
(* Reconciliation and exits *)

\* reconcile and apply_reconciliation against the positions held: the copies
\* already known, or one for a position not known.
Reconciled(copies, held) ==
  [i \in Trades |-> IF i \notin held THEN 0
                    ELSE IF copies[i] > 0 THEN copies[i] ELSE 1]

\* The whole list is appended to positions.cursor.
Appended(copies) == [i \in Trades |-> log[i] + copies[i]]

HitsStop(p) ==
  IF p.dir = "Buy" THEN Bid(p.pair) <= p.stop ELSE Bid(p.pair) >= p.stop

HitsTarget(p) ==
  IF p.dir = "Buy" THEN Bid(p.pair) >= p.target ELSE Bid(p.pair) <= p.target

\* smt_contradiction_exit; the last pair-set to name the pair is the one that counts.
Contradicted(p) ==
  LET naming == {j \in DOMAIN readings :
                   readings[j] # None /\ readings[j].pair = p.pair}
  IN  /\ naming # {}
      /\ readings[CHOOSE j \in naming : \A i \in naming : i <= j].dir # p.dir

\* evaluate_exits; NoNewsProvider knows of no event.
Exits == {i \in Trades : open[i] > 0 /\
            (HitsStop(book[i]) \/ HitsTarget(book[i]) \/ Contradicted(book[i]))}

-----------------------------------------------------------------------------
(* What the risk engine is handed *)

\* is_tuesday, of the simulated day.
IsTuesday == (FirstWeekday + clock + Days) % 7 = 2

\* From an entry to now it is less than MIN_MINUTES_BETWEEN_ENTRIES_SAME_PAIR.
WithinTheWindow(enteredAt) == (clock - enteredAt) * 24 * 60 < 170

\* already_entered_this_cycle
AlreadyEntered(pair) ==
  \E i \in Trades : /\ open[i] > 0 /\ book[i].pair = pair
                    /\ WithinTheWindow(book[i].enteredAt)

SizeOpen(pairs) ==
  Total([i \in {i \in Trades : open[i] > 0 /\ book[i].pair \in pairs} |->
           open[i] * book[i].size])

\* currency_exposure_snapshot
CurrencyExposure ==
  [c \in Currencies |->
     Total([i \in {i \in Trades : open[i] > 0} |->
              open[i] * book[i].size * Sign(book[i].pair, book[i].dir, c)])]

Partner(pairSet, pair) ==
  IF pair = pairSet.primary THEN pairSet.secondary ELSE pairSet.primary

EntryPrice(pair, dir) == IF dir = "Buy" THEN Ask(pair) ELSE Bid(pair)

\* realized_pnl_today and realized_pnl_this_week are the constant zero.
Context(reading, strong) ==
  [equity |-> Equity,
   count  |-> Total(open),
   tuesday |-> IsTuesday,
   entry |-> EntryPrice(reading.pair, reading.dir),
   stop  |-> reading.stop,
   pnlToday |-> 0, pnlWeek |-> 0,
   exposure |-> CurrencyExposure,
   correlated |-> IF strong THEN SizeOpen({Partner(pairSets[k], reading.pair)}) ELSE 0]

TakeProfit(dir, entry, stop) == entry + Direction(dir) * 3 * Abs(entry - stop)

-----------------------------------------------------------------------------
(* One replay *)

\* Config::validate: at least one pair-set, and none twice.
ValidPairs(pairs) ==
  /\ Len(pairs) > 0
  /\ \A i, j \in DOMAIN pairs : pairs[i] = pairs[j] => i = j

\* What an invocation keeps in memory goes with it.
NoReadings == [j \in DOMAIN pairSets |-> None]
Nothing    == [i \in Trades |-> 0]

EndOfInvocation ==
  /\ pc' = "advance" /\ k' = 1
  /\ readings' = NoReadings /\ open' = Nothing
  /\ UNCHANGED <<harness, account>>

Init ==
  /\ pairSets \in {c \in Configs : ValidPairs(c)}
  /\ bars \in [Replayed -> 1..Days]
  /\ index = 0 /\ clock = -Days
  /\ quote \in Quotes
  /\ book = <<>> /\ closedAt = [i \in Trades |-> None] /\ pnl = 0 /\ log = Nothing /\ open = Nothing
  /\ readings = NoReadings
  /\ pc = "reconcile" /\ k = 1
  /\ opened = 0 /\ closed = 0

StartupReconcile ==
  /\ pc = "reconcile"
  /\ open' = Reconciled(log, Held)
  /\ pc' = "snapshot"
  /\ UNCHANGED <<harness, account, readings, k>>

\* What a pair-set may read: one of its two assets, with a stop on the side of the
\* bid where its buffer's low (to buy) or high (to sell) is.
ReadingsOf(pairSet) ==
  {None} \cup
  {r \in Readings : /\ r.pair \in {pairSet.primary, pairSet.secondary}
                    /\ IF r.dir = "Buy" THEN r.stop <= Bid(r.pair)
                                        ELSE r.stop >= Bid(r.pair)}

Snapshot ==
  /\ pc = "snapshot"
  /\ \A s \in Symbols(pairSets) : HasQuote(s)
  /\ readings' \in {r \in [DOMAIN pairSets -> UNION {ReadingsOf(pairSets[j]) :
                                                       j \in DOMAIN pairSets}] :
                      \A j \in DOMAIN pairSets : r[j] \in ReadingsOf(pairSets[j])}
  /\ pc' = "exits"
  /\ UNCHANGED <<harness, account, open, k>>

\* Variant: the bar is tried again until it has its prices.
HeartbeatFails_Retries ==
  /\ pc = "snapshot"
  /\ \E s \in Symbols(pairSets) : ~HasQuote(s)
  /\ pc' = "reconcile"
  /\ UNCHANGED <<harness, account, open, readings, k>>

\* get_snapshot knows no price for one of the symbols of the configuration: the
\* invocation writes its status and returns Ok.
HeartbeatFails ==
  /\ pc = "snapshot"
  /\ \E s \in Symbols(pairSets) : ~HasQuote(s)
  /\ EndOfInvocation

\* Variant: every copy of a position in the list is closed and realized.
SweepExits_EveryCopy ==
  /\ pc = "exits"
  /\ closedAt' = [i \in Trades |-> IF i \in Exits THEN quote[book[i].pair]
                                                 ELSE closedAt[i]]
  /\ pnl' = pnl + Total([i \in Exits |-> open[i] * Realized(book[i], quote[book[i].pair])])
  /\ closed' = closed + Total([i \in Exits |-> open[i]])
  /\ IF Exits = {} THEN UNCHANGED <<open, log>>
     ELSE /\ open' = Reconciled(open, Held \ Exits)
          /\ log' = Appended(open')
  /\ pc' = "gates"
  /\ UNCHANGED <<harness, book, readings, k, opened>>

\* The broker has a position once, however many copies the list has: closing a
\* second copy is refused and logged.
SweepExits ==
  /\ pc = "exits"
  /\ closedAt' = [i \in Trades |-> IF i \in Exits THEN quote[book[i].pair]
                                                 ELSE closedAt[i]]
  /\ pnl' = pnl + Total([i \in Exits |-> Realized(book[i], quote[book[i].pair])])
  /\ closed' = closed + Cardinality(Exits)
  /\ IF Exits = {} THEN UNCHANGED <<open, log>>
     ELSE /\ open' = Reconciled(open, Held \ Exits)
          /\ log' = Appended(open')
  /\ pc' = "gates"
  /\ UNCHANGED <<harness, book, readings, k, opened>>

\* health_blocked and holiday_skip; --force skips the window.
GateRefuses ==
  /\ pc = "gates"
  /\ EndOfInvocation

GatesPass ==
  /\ pc = "gates"
  /\ pc' = "entries" /\ k' = 1
  /\ UNCHANGED <<harness, account, open, readings>>

\* no_divergence, gate_rejected, collision_skip and risk_rejected leave nothing
\* but a decision record, and the True Open gate may reject any signal.
PassOver ==
  /\ pc = "entries" /\ k <= Len(pairSets)
  /\ k' = k + 1
  /\ UNCHANGED <<harness, account, open, readings, pc>>

\* Variant: the list is not reconciled after the fill.
Enter_NotReconciled ==
  /\ pc = "entries" /\ k <= Len(pairSets) /\ Len(book) < MaxTrades
  /\ readings[k] # None
  /\ ~AlreadyEntered(readings[k].pair)
  /\ \E strong \in BOOLEAN :
       LET signal   == readings[k]
           context  == Context(signal, strong)
           position == [pair |-> signal.pair, dir |-> signal.dir,
                        size |-> PositionSize(signal, context),
                        fill |-> quote[signal.pair], stop |-> signal.stop,
                        target |-> TakeProfit(signal.dir, context.entry, signal.stop),
                        enteredAt |-> FillDate, day |-> clock, equity |-> Equity]
       IN  /\ Rejection(signal, context) = None
           /\ book' = Append(book, position)
  /\ open' = open
  /\ log' = Appended(open')
  /\ opened' = opened + 1
  /\ k' = k + 1
  /\ UNCHANGED <<harness, closedAt, pnl, closed, readings, pc>>

\* ReplayBroker::submit_order, and the reconciliation and appends after it.
Enter ==
  /\ pc = "entries" /\ k <= Len(pairSets) /\ Len(book) < MaxTrades
  /\ readings[k] # None
  /\ ~AlreadyEntered(readings[k].pair)
  /\ \E strong \in BOOLEAN :
       LET signal   == readings[k]
           context  == Context(signal, strong)
           position == [pair |-> signal.pair, dir |-> signal.dir,
                        size |-> PositionSize(signal, context),
                        fill |-> quote[signal.pair], stop |-> signal.stop,
                        target |-> TakeProfit(signal.dir, context.entry, signal.stop),
                        enteredAt |-> FillDate, day |-> clock, equity |-> Equity]
       IN  /\ Rejection(signal, context) = None
           /\ book' = Append(book, position)
  /\ open' = Reconciled(open, Held \cup {Len(book')})
  /\ log' = Appended(open')
  /\ opened' = opened + 1
  /\ k' = k + 1
  /\ UNCHANGED <<harness, closedAt, pnl, closed, readings, pc>>

EntriesDone ==
  /\ pc = "entries" /\ k > Len(pairSets)
  /\ EndOfInvocation

\* The next bar and the next day, together.
Advance ==
  /\ pc = "advance"
  /\ index + 1 < BarCount
  /\ index' = index + 1 /\ clock' = clock + 1
  /\ quote' \in Quotes
  /\ pc' = "reconcile"
  /\ UNCHANGED <<pairSets, bars, account, open, readings, k>>

Report ==
  /\ pc = "advance"
  /\ index + 1 >= BarCount
  /\ pc' = "done"
  /\ UNCHANGED <<harness, account, open, readings, k>>

Next ==
  \/ StartupReconcile \/ Snapshot \/ HeartbeatFails \/ SweepExits
  \/ GateRefuses \/ GatesPass \/ PassOver \/ Enter \/ EntriesDone
  \/ Advance \/ Report

Spec == Init /\ [][Next]_vars /\ WF_vars(Next)

-----------------------------------------------------------------------------
(* Properties *)

\* The report agrees with the history: what was opened and closed is counted once
\* each, and ending equity is the start plus what the closed trades made at their
\* exits. The cycle's own list of positions, where a position may stand several
\* times, has no part in it. (run_replay, ReplayBroker::close_position)
ReportAddsUp ==
  /\ opened = Len(book)
  /\ closed = Cardinality(DOMAIN book \ Held)
  /\ Equity = StartEquity
                + Total([i \in DOMAIN book \ Held |-> Realized(book[i], closedAt[i])])

\* No pair is entered twice on one bar, also where two pair-sets trade the same
\* symbols: what the first has filled is in the list before the second is checked
\* against it, and the exits of a bar come before its entries.
\* (already_entered_this_cycle, the reconciliation after submit_order)
OneEntryPerPairAndBar ==
  \A i, j \in DOMAIN book :
    book[i].pair = book[j].pair /\ book[i].day = book[j].day => i = j

\* Another pair-set with a symbol of its own keeps the replay from trading at all,
\* the first pair-set included: each bar's snapshot asks for that symbol too.
\* (run_real_cycle's all_symbols, ReplayBroker::get_snapshot)
ForeignSymbolSilencesReplay ==
  Symbols(pairSets) # Replayed => book = <<>>

\* A trade that ended with the close no further than its stop lost no more than
\* the cap on its risk, though it is sized from one price, filled at another and
\* closed at a third. (stop_loss_level, evaluate, submit_order, close_position)
LossWithinRisk ==
  \A i \in DOMAIN book \ Held :
    LET p == book[i]
    IN  (closedAt[i] - p.stop) * Direction(p.dir) >= 0 =>
          -Realized(p, closedAt[i]) <= FromPercentOf(p.equity, MaxPercent)

\* Where every symbol has a history, every bar that is replayed has its prices:
\* no bar ends at the heartbeat. (bar_count, current_price)
EveryBarIsTraded ==
  [][Symbols(pairSets) = Replayed /\ pc = "snapshot" => pc' # "advance"]_vars

\* A replay comes to its report, with or without trades. (run_replay)
ReplayEnds == <>(pc = "done")

-----------------------------------------------------------------------------
(* The inductive invariant *)

\* The clock and the bar move together, and every history reaches to the bar.
InStep ==
  /\ ValidPairs(pairSets)
  /\ \A s \in Replayed : index < bars[s]
  /\ clock = index - Days

\* What a position loses, or wins, at its stop.
LossAtStop(p) == p.size * ((p.fill - p.stop) * Direction(p.dir))

\* The broker's book grows at its end, and dates every fill by the real day.
BookInOrder ==
  /\ \A i \in DOMAIN book : book[i].enteredAt = 0
  /\ \A i \in DOMAIN book : LossAtStop(book[i]) <= FromPercentOf(book[i].equity, MaxPercent)
  /\ \A i \in Trades \ DOMAIN book : closedAt[i] = None

\* Until the bar changes, a reading's stop stays on its side of the bid.
StopsOfThisBar ==
  pc \in {"exits", "gates", "entries"} =>
    \A j \in DOMAIN pairSets : readings[j] # None =>
      IF readings[j].dir = "Buy" THEN readings[j].stop <= Bid(readings[j].pair)
                                 ELSE readings[j].stop >= Bid(readings[j].pair)

\* From its reconciliation on, an invocation knows of exactly the positions held.
KnowsTheHeld ==
  pc \in {"snapshot", "exits", "gates", "entries"} =>
    \A i \in Trades : open[i] > 0 <=> i \in Held

\* Nothing is dated ahead of the replay, and what was entered on this bar is held.
EnteredToday ==
  \A i \in DOMAIN book :
    /\ book[i].day <= clock
    /\ book[i].day = clock => pc \in {"entries", "advance", "done"} /\ i \in Held

\* A foreign symbol ends every invocation at its snapshot.
StopsAtSnapshot ==
  Symbols(pairSets) # Replayed => pc \notin {"exits", "gates", "entries"}

IInv ==
  /\ TypeOK
  /\ InStep
  /\ BookInOrder
  /\ StopsOfThisBar
  /\ KnowsTheHeld
  /\ StopsAtSnapshot
  /\ ForeignSymbolSilencesReplay
  /\ EnteredToday
  /\ OneEntryPerPairAndBar
  /\ ReportAddsUp

-----------------------------------------------------------------------------
(* What the documents say *)

\* A replay runs the same entry logic on its own clock (replay.rs, ADR 0004): a pair
\* is within its window only if it was entered within it on the simulated clock.
GuardGoesByTheReplaysClock ==
  pc = "entries" =>
    \A pair \in Pairs : AlreadyEntered(pair) =>
      \E i \in Trades : /\ open[i] > 0 /\ book[i].pair = pair
                        /\ WithinTheWindow(book[i].day)

=============================================================================

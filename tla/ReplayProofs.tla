---------------------------- MODULE ReplayProofs ----------------------------
(***************************************************************************)
(* RiskEngine and Replay. First what DefaultRiskEngine::evaluate answers,  *)
(* for every configuration that Config::validate lets through and every    *)
(* context; then the invariants of a replay, for any pairs,                *)
(* configurations, prices, percentages and number of days.                 *)
(***************************************************************************)
EXTENDS Replay, SumTheorems, SequenceTheorems, TLAPS

-----------------------------------------------------------------------------
(* RiskEngine *)

\* A larger percentage of the same money is no less of it. (from_percent_of)
LEMMA PercentMonotone ==
  ASSUME NEW equity \in Nat, NEW p \in Nat, NEW q \in Nat, p <= q
  PROVE  /\ FromPercentOf(equity, p) \in Nat
         /\ FromPercentOf(equity, p) <= FromPercentOf(equity, q)
<1>1. equity * p \in Nat /\ equity * q \in Nat /\ equity * p <= equity * q
  <2>1. PICK d \in Nat : q = p + d
    BY SMT
  <2>2. equity * q = equity * p + equity * d
    BY <2>1, SMT
  <2>3. equity * p \in Nat /\ equity * d \in Nat
    BY <2>1, SMT
  <2> QED
    BY <2>2, <2>3, SMT
<1>2. \A a, b \in Nat : a <= b => a \div 100 \in Nat /\ a \div 100 <= b \div 100
  BY SMT
<1> QED
  BY <1>1, <1>2 DEF FromPercentOf

\* The doublings of a Tuesday and of a Double signal do not stack, and nothing gets
\* past max_risk_percent. (effective_coefficient, apply_multiplier)
THEOREM RiskIsCapped ==
  ASSUME NEW signal, NEW context \in Contexts
  PROVE  /\ RiskPercent(signal, context) \in Nat
         /\ RiskPercent(signal, context) <= MaxPercent
         /\ RiskPercent(signal, context) <= 2 * BasePercent
  BY ConfigAssumption, SMT DEF RiskPercent, ApplyMultiplier, EffectiveCoefficient

\* The money at risk is between nothing and the cap's share of the equity.
LEMMA RiskCurrencyBounded ==
  ASSUME NEW signal, NEW context \in Contexts, context.equity \in Nat
  PROVE  /\ RiskCurrency(signal, context) \in Nat
         /\ RiskCurrency(signal, context) <= FromPercentOf(context.equity, MaxPercent)
<1>1. RiskPercent(signal, context) \in Nat /\ RiskPercent(signal, context) <= MaxPercent
  BY RiskIsCapped
<1>2. MaxPercent \in Nat
  BY ConfigAssumption, SMT
<1> HIDE DEF RiskPercent
<1> QED
  BY <1>1, <1>2, PercentMonotone DEF RiskCurrency

\* The daemon always passes no profit and no loss for the day (main.rs, Usd::zero()).
\* The daily gate then turns away exactly the accounts it finds no limit for, those
\* without money among them, and no other, whatever the day has lost.
THEOREM DailyGateSeesNoLoss ==
  ASSUME NEW signal, NEW context \in Contexts, context.pnlToday = 0
  PROVE  /\ Rejection(signal, context) = "DailyLossLimitReached" =>
              FromPercentOf(context.equity, DailyLossPercent) <= 0
         /\ Rejection(signal, context) = None => context.equity > 0
<1> DEFINE limit == FromPercentOf(context.equity, DailyLossPercent)
<1>1. context.equity \in Int
  BY DEF Contexts
<1>2. limit \in Int
  <2>1. context.equity * DailyLossPercent \in Int
    BY <1>1, DailyLimitAssumption, SMT
  <2> QED
    BY <2>1, SMT DEF FromPercentOf
<1>3. context.equity <= 0 => limit <= 0
  <2>1. context.equity <= 0 => context.equity * DailyLossPercent <= 0
    BY <1>1, DailyLimitAssumption, SMT
  <2>2. context.equity * DailyLossPercent \in Int
    BY <1>1, DailyLimitAssumption, SMT
  <2>3. \A a \in Int : a <= 0 => a \div 100 <= 0
    BY SMT
  <2> QED
    BY <2>1, <2>2, <2>3 DEF FromPercentOf
<1> HIDE DEF limit
<1>4. 0 <= -limit <=> limit <= 0
  BY <1>2, SMT
<1>5. Rejection(signal, context) = "DailyLossLimitReached" => 0 <= -limit
  BY NoneAssumption, Zenon DEF Rejection, Reasons, limit
<1>6. Rejection(signal, context) = None => ~(0 <= -limit)
  BY NoneAssumption, Zenon DEF Rejection, Reasons, limit
<1>7. Rejection(signal, context) = None => context.equity > 0
  BY <1>1, <1>3, <1>4, <1>6, SMT
<1> QED
  BY <1>4, <1>5, <1>7 DEF limit

\* What is approved is affordable: there is money in the account, and the size, times
\* the distance to the stop, is no more than the cap's share of it. (evaluate)
THEOREM ApprovedRiskIsBounded ==
  ASSUME NEW signal, NEW context \in Contexts, context.pnlToday = 0,
         Rejection(signal, context) = None
  PROVE  /\ context.equity > 0
         /\ StopDistance(context) > 0
         /\ PositionSize(signal, context) \in Nat
         /\ PositionSize(signal, context) * StopDistance(context)
              <= FromPercentOf(context.equity, MaxPercent)
<1>1. context.equity > 0 /\ context.equity \in Nat
  <2>1. context.equity \in Int
    BY DEF Contexts
  <2>2. context.equity > 0
    BY DailyGateSeesNoLoss
  <2> QED
    BY <2>1, <2>2, SMT
<1>2. StopDistance(context) \in Nat /\ StopDistance(context) # 0
  <2>1. context.entry \in Int /\ context.stop \in Int
    BY DEF Contexts
  <2>2. StopDistance(context) \in Nat
    BY <2>1, SMT DEF StopDistance, Abs
  <2>3. StopDistance(context) # 0
    BY NoneAssumption, Zenon DEF Rejection, Reasons
  <2> QED
    BY <2>2, <2>3
<1>3. RiskCurrency(signal, context) \in Nat
      /\ RiskCurrency(signal, context) <= FromPercentOf(context.equity, MaxPercent)
  BY <1>1, RiskCurrencyBounded
<1>4. \A a \in Nat, d \in Nat \ {0} : a \div d \in Nat /\ (a \div d) * d <= a
  BY SMT
<1>5. FromPercentOf(context.equity, MaxPercent) \in Nat
  <2>1. MaxPercent \in Nat /\ MaxPercent <= MaxPercent
    BY ConfigAssumption, SMT
  <2> QED
    BY <1>1, <2>1, PercentMonotone
<1>6. PositionSize(signal, context) \in Nat
      /\ PositionSize(signal, context) * StopDistance(context) <= RiskCurrency(signal, context)
  BY <1>2, <1>3, <1>4 DEF PositionSize
<1> QED
  BY <1>1, <1>2, <1>3, <1>5, <1>6, SMT

\* An approved trade leaves the net exposure to both of its currencies, and to the
\* correlated counterpart, within their caps. (evaluate)
THEOREM ApprovedExposureIsCapped ==
  ASSUME NEW signal, NEW context \in Contexts,
         Rejection(signal, context) = None
  PROVE  /\ context.count < MaxOpen
         /\ \A c \in {CurrencyPair[signal.pair].base, CurrencyPair[signal.pair].quote} :
              ~(Projected(signal, context, c) >
                  FromPercentOf(context.equity, MaxCurrencyPercent))
         /\ ~CorrelationExposureReached(signal, context)
<1>1. context.count \in Nat
  BY DEF Contexts
<1>2. MaxOpen \in Nat
  BY ConfigAssumption
<1>3. /\ ~(context.count >= MaxOpen)
      /\ ~CurrencyExposureReached(signal, context)
      /\ ~CorrelationExposureReached(signal, context)
  BY NoneAssumption, Zenon DEF Rejection, Reasons
<1> QED
  BY <1>1, <1>2, <1>3, SMT DEF CurrencyExposureReached

-----------------------------------------------------------------------------
(* What the operators of Replay return *)

\* The shortest history is one of the histories, and no longer than any. (bar_count)
LEMMA BarCountShortest ==
  ASSUME bars \in [Replayed -> 1..Days]
  PROVE  BarCount \in 1..Days /\ \A s \in Replayed : BarCount <= bars[s]
<1> DEFINE lengths == {bars[s] : s \in Replayed}
           a == bars[pairSets[1].primary]
           b == bars[pairSets[1].secondary]
<1>1. lengths = {a, b} /\ a \in 1..Days /\ b \in 1..Days
  BY DEF Replayed
<1>2. \E n \in {a, b} : \A m \in {a, b} : n <= m
  <2> HIDE DEF a, b
  <2>1. a <= b \/ b <= a
    BY <1>1, SMT
  <2> QED
    BY <1>1, <2>1, SMT
<1>3. \E n \in lengths : \A s \in Replayed : n <= bars[s]
  BY <1>1, <1>2
<1>4. BarCount \in lengths /\ \A s \in Replayed : BarCount <= bars[s]
  BY <1>3 DEF BarCount
<1> QED
  BY <1>1, <1>4

\* What a reconciliation knows is what the broker holds.
LEMMA ReconciledKnows ==
  ASSUME NEW copies \in [Trades -> Nat], NEW held \in SUBSET Trades
  PROVE  /\ Reconciled(copies, held) \in [Trades -> Nat]
         /\ \A i \in Trades : Reconciled(copies, held)[i] > 0 <=> i \in held
BY SMT DEF Reconciled

LEMMA AppendedTyped ==
  ASSUME log \in [Trades -> Nat], NEW copies \in [Trades -> Nat]
  PROVE  Appended(copies) \in [Trades -> Nat]
BY SMT DEF Appended

LEMMA HeldIsTrade ==
  ASSUME TypeOK
  PROVE  /\ DOMAIN book = 1..Len(book) /\ Len(book) \in Nat /\ Len(book) <= MaxTrades
         /\ DOMAIN book \subseteq Trades /\ Held \subseteq DOMAIN book
         /\ IsFiniteSet(DOMAIN book) /\ Cardinality(DOMAIN book) = Len(book)
         /\ IsFiniteSet(Trades)
<1>1. DOMAIN book = 1..Len(book) /\ Len(book) \in Nat /\ Len(book) <= MaxTrades
  BY LenProperties DEF TypeOK
<1>2. MaxTrades \in Nat
  BY ReplayAssumption
<1>3. DOMAIN book \subseteq Trades /\ Held \subseteq DOMAIN book
  BY <1>1, <1>2, SMT DEF Trades, Held
<1>4. IsFiniteSet(DOMAIN book) /\ Cardinality(DOMAIN book) = Len(book)
  <2>1. /\ IsFiniteSet(1..Len(book))
        /\ Cardinality(1..Len(book)) = IF 1 > Len(book) THEN 0 ELSE Len(book) - 1 + 1
    BY <1>1, FS_Interval
  <2>2. (IF 1 > Len(book) THEN 0 ELSE Len(book) - 1 + 1) = Len(book)
    BY <1>1, SMT
  <2> QED
    BY <1>1, <2>1, <2>2
<1>5. IsFiniteSet(Trades)
  BY <1>2, FS_Interval DEF Trades
<1> QED
  BY <1>1, <1>3, <1>4, <1>5

\* Every symbol of the configuration having a price means there are only two.
LEMMA QuotedMeansReplayed ==
  ASSUME pairSets \in Configs, ValidPairs(pairSets),
         \A s \in Symbols(pairSets) : HasQuote(s)
  PROVE  Symbols(pairSets) = Replayed
<1>1. Symbols(pairSets) \subseteq Replayed
  BY DEF HasQuote
<1>2. 1 \in DOMAIN pairSets
  <2>1. pairSets \in Seq([primary : Pairs, secondary : Pairs])
    BY ReplayAssumption
  <2>2. DOMAIN pairSets = 1..Len(pairSets) /\ Len(pairSets) \in Nat
    BY <2>1, LenProperties
  <2> QED
    BY <2>2, SMT DEF ValidPairs
<1>3. Replayed \subseteq Symbols(pairSets)
  BY <1>2 DEF Replayed, Symbols
<1> QED
  BY <1>1, <1>3

LEMMA QuotesAreCloses ==
  ASSUME NEW q \in Quotes, NEW pair \in Pairs
  PROVE  q[pair] \in Closes /\ q[pair] # None /\ q[pair] \in Nat
BY ReplayAssumption DEF Quotes

LEMMA BidsAreIntegers ==
  ASSUME NEW stop \in Bids
  PROVE  stop \in Int
BY ReplayAssumption, SMT DEF Bids

LEMMA QuoteAndSpread ==
  ASSUME quote \in Quotes, NEW pair \in Pairs
  PROVE  /\ quote[pair] \in Int /\ Bid(pair) \in Int /\ Ask(pair) \in Int
         /\ HalfSpread \in Nat
<1>1. quote[pair] \in Nat /\ HalfSpread \in Nat
  BY ReplayAssumption, QuotesAreCloses
<1> QED
  BY <1>1, SMT DEF Bid, Ask

LEMMA RealizedIsInteger ==
  ASSUME NEW p \in Positions, NEW price \in Int
  PROVE  Realized(p, price) \in Int
<1>1. p.fill \in Int /\ p.size \in Int /\ p.dir \in {"Buy", "Sell"}
  BY SMT DEF Positions, Directions
<1>2. Direction(p.dir) \in Int
  BY <1>1, SMT DEF Direction
<1> HIDE DEF Direction
<1> QED
  BY <1>1, <1>2, SMT DEF Realized

\* An inequality keeps its sense when both sides are multiplied by a size.
LEMMA SizedMonotone ==
  ASSUME NEW n \in Nat, NEW a \in Int, NEW b \in Int, a <= b
  PROVE  n * a \in Int /\ n * b \in Int /\ n * a <= n * b
<1>1. PICK d \in Nat : b = a + d
  BY SMT
<1>2. n * b = n * a + n * d /\ n * d \in Nat /\ n * a \in Int
  BY <1>1, SMT
<1> QED
  BY <1>2, SMT

\* The sizes of the positions known are added up to an integer, whatever their signs.
LEMMA ExposureIsInteger ==
  ASSUME TypeOK, \A i \in Trades : open[i] > 0 => i \in DOMAIN book
  PROVE  /\ \A pairs : SizeOpen(pairs) \in Int
         /\ CurrencyExposure \in [Currencies -> Int]
<1>1. IsFiniteSet(Trades)
  BY HeldIsTrade
<1>2. ASSUME NEW i \in Trades, open[i] > 0
      PROVE  open[i] \in Int /\ book[i].size \in Int /\ open[i] * book[i].size \in Int
  <2>1. open[i] \in Int
    BY SMT DEF TypeOK
  <2>2. book[i] \in Positions
    BY <1>2 DEF TypeOK
  <2>3. book[i].size \in Int
    BY <2>2, SMT DEF Positions
  <2> QED
    BY <2>1, <2>3, SMT
<1>3. ASSUME NEW pairs PROVE SizeOpen(pairs) \in Int
  <2> DEFINE S == {i \in Trades : open[i] > 0 /\ book[i].pair \in pairs}
             f == [i \in S |-> open[i] * book[i].size]
  <2>1. IsFiniteSet(S)
    BY <1>1, FS_Subset
  <2>2. f \in [S -> Int]
    BY <1>2
  <2> HIDE DEF S
  <2>3. Total(f) \in Int
    BY <2>1, <2>2, TotalInt
  <2> QED
    BY <2>3 DEF SizeOpen, S
<1>4. ASSUME NEW c \in Currencies PROVE CurrencyExposure[c] \in Int
  <2> DEFINE S == {i \in Trades : open[i] > 0}
             f == [i \in S |-> open[i] * book[i].size * Sign(book[i].pair, book[i].dir, c)]
  <2>1. IsFiniteSet(S)
    BY <1>1, FS_Subset
  <2>2. ASSUME NEW i \in S PROVE f[i] \in Int
    <3>1. Sign(book[i].pair, book[i].dir, c) \in Int
      BY SMT DEF Sign
    <3>2. \A m, n \in Int : m * n \in Int
      BY SMT
    <3> QED
      BY <1>2, <3>1, <3>2
  <2>3. f \in [S -> Int]
    BY <2>2
  <2> HIDE DEF S
  <2>4. Total(f) \in Int
    BY <2>1, <2>3, TotalInt
  <2> QED
    BY <2>4 DEF CurrencyExposure, S
<1>5. CurrencyExposure = [c \in Currencies |-> CurrencyExposure[c]]
  BY DEF CurrencyExposure
<1> QED
  BY <1>3, <1>4, <1>5

\* What the risk engine is handed is a RiskContext, and no loss of the day or week.
LEMMA ContextTyped ==
  ASSUME TypeOK, \A i \in Trades : open[i] > 0 => i \in DOMAIN book,
         NEW reading \in Readings, NEW strong \in BOOLEAN
  PROVE  /\ Context(reading, strong) \in Contexts
         /\ Context(reading, strong).pnlToday = 0
         /\ Context(reading, strong).equity = Equity
         /\ Context(reading, strong).entry = EntryPrice(reading.pair, reading.dir)
         /\ Context(reading, strong).stop = reading.stop
<1>1. Equity \in Int
  BY ReplayAssumption, SMT DEF Equity, TypeOK
<1>2. Total(open) \in Nat
  BY HeldIsTrade, TotalNat DEF TypeOK
<1>3. reading.pair \in Pairs /\ reading.stop \in Int
  BY BidsAreIntegers DEF Readings
<1>4. EntryPrice(reading.pair, reading.dir) \in Int
  BY <1>3, QuoteAndSpread DEF EntryPrice, TypeOK
<1>5. /\ CurrencyExposure \in [Currencies -> Int]
      /\ (IF strong THEN SizeOpen({Partner(pairSets[k], reading.pair)}) ELSE 0) \in Int
  BY ExposureIsInteger
<1>6. IsTuesday \in BOOLEAN /\ 0 \in Int
  BY DEF IsTuesday
<1> HIDE DEF Total
<1> QED
  BY <1>1, <1>2, <1>3, <1>4, <1>5, <1>6, Zenon DEF Context, Contexts

-----------------------------------------------------------------------------
(* The inductive invariant *)

LEMMA InitHolds == Init => IInv
<1> SUFFICES ASSUME Init PROVE IInv
  OBVIOUS
<1>1. Days \in Nat \ {0} /\ MaxTrades \in Nat /\ StartEquity \in Nat
  BY ReplayAssumption
<1>2. InStep
  BY <1>1, SMT DEF Init, InStep
<1>3. /\ book = <<>> /\ Len(book) = 0 /\ DOMAIN book = {} /\ Held = {}
      /\ DOMAIN book \ Held = {}
  BY DEF Init, Held
<1>4. TypeOK
  <2>1. readings \in [DOMAIN pairSets -> Readings \cup {None}]
    BY DEF Init, NoReadings
  <2>2. Nothing \in [Trades -> Nat]
    BY DEF Nothing
  <2>3. index \in 0..(Days - 1) /\ clock \in (-Days)..0
    BY <1>1, SMT DEF Init
  <2>4. /\ Len(book) <= MaxTrades /\ opened \in 0..MaxTrades /\ closed \in 0..MaxTrades
        /\ pnl \in Int
    BY <1>1, <1>3, SMT DEF Init
  <2>5. k \in 1..(Len(pairSets) + 1)
    <3>1. pairSets \in Seq([primary : Pairs, secondary : Pairs])
      BY ReplayAssumption DEF Init
    <3>2. Len(pairSets) \in Nat
      BY <3>1, LenProperties
    <3> QED
      BY <3>2, SMT DEF Init
  <2>6. book \in Seq(Positions)
    BY <1>3, EmptySeq
  <2> QED
    BY <2>1, <2>2, <2>3, <2>4, <2>5, <2>6 DEF Init, TypeOK, Stages
<1>5. BookInOrder
  BY <1>3 DEF Init, BookInOrder
<1>6. ReportAddsUp
  <2>1. Total([i \in DOMAIN book \ Held |-> Realized(book[i], closedAt[i])]) = 0
    BY <1>3, TotalEmpty
  <2>2. Cardinality(DOMAIN book \ Held) = 0
    BY <1>3, FS_EmptySet
  <2>3. opened = Len(book) /\ closed = 0 /\ pnl = 0
    BY <1>3 DEF Init
  <2> QED
    BY <1>1, <2>1, <2>2, <2>3, SMT DEF ReportAddsUp, Equity
<1> QED
  BY <1>2, <1>3, <1>4, <1>5, <1>6 DEF Init, IInv, KnowsTheHeld, StopsAtSnapshot,
     StopsOfThisBar, ForeignSymbolSilencesReplay, EnteredToday, OneEntryPerPairAndBar

\* What a step leaves as it was that does not move the harness.
LEMMA HarnessKept ==
  ASSUME IInv, UNCHANGED harness
  PROVE  /\ UNCHANGED <<pairSets, bars, index, clock, quote>>
         /\ Replayed' = Replayed /\ Symbols(pairSets)' = Symbols(pairSets)
         /\ Quotes' = Quotes /\ InStep'
<1>1. UNCHANGED <<pairSets, bars, index, clock, quote>>
  BY DEF harness
<1>2. Replayed' = Replayed /\ Symbols(pairSets)' = Symbols(pairSets)
  BY <1>1 DEF Replayed, Symbols
<1>3. Quotes' = Quotes
  BY <1>2 DEF Quotes
<1>4. ValidPairs(pairSets)'
  BY <1>1 DEF IInv, InStep, ValidPairs
<1> QED
  BY <1>1, <1>2, <1>3, <1>4 DEF IInv, InStep

\* What a step leaves as it was that does not touch the broker's file.
LEMMA AccountKept ==
  ASSUME IInv, UNCHANGED account
  PROVE  /\ UNCHANGED <<book, closedAt, pnl, log, opened, closed>>
         /\ Held' = Held /\ BookInOrder' /\ OneEntryPerPairAndBar' /\ ReportAddsUp'
<1>1. UNCHANGED <<book, closedAt, pnl, log, opened, closed>>
  BY DEF account
<1>2. Held' = Held
  BY <1>1 DEF Held
<1>3. BookInOrder'
  BY <1>1 DEF IInv, BookInOrder, LossAtStop
<1>4. OneEntryPerPairAndBar'
  BY <1>1 DEF IInv, OneEntryPerPairAndBar
<1>5. ReportAddsUp'
  BY <1>1, <1>2 DEF IInv, ReportAddsUp, Equity, Realized
<1> QED
  BY <1>1, <1>2, <1>3, <1>4, <1>5

\* A step that touches neither, and does not go back from the entries.
LEMMA QuietPreserves ==
  ASSUME IInv, UNCHANGED <<harness, account>>, pc' \in Stages,
         pc \in {"entries", "advance", "done"} => pc' \in {"entries", "advance", "done"},
         readings' \in [DOMAIN pairSets -> Readings \cup {None}],
         k' \in 1..(Len(pairSets) + 1), open' \in [Trades -> Nat],
         KnowsTheHeld', StopsAtSnapshot', StopsOfThisBar'
  PROVE  IInv'
<1>1. /\ UNCHANGED <<pairSets, bars, index, clock, quote>>
      /\ Replayed' = Replayed /\ Symbols(pairSets)' = Symbols(pairSets)
      /\ Quotes' = Quotes /\ InStep'
  BY HarnessKept
<1>2. /\ UNCHANGED <<book, closedAt, pnl, log, opened, closed>>
      /\ Held' = Held /\ BookInOrder' /\ OneEntryPerPairAndBar' /\ ReportAddsUp'
  BY AccountKept
<1>3. TypeOK'
  BY <1>1, <1>2 DEF IInv, TypeOK
<1>4. ForeignSymbolSilencesReplay'
  BY <1>1, <1>2 DEF IInv, ForeignSymbolSilencesReplay
<1>5. EnteredToday'
  BY <1>1, <1>2 DEF IInv, EnteredToday
<1> QED
  BY <1>1, <1>2, <1>3, <1>4, <1>5 DEF IInv

LEMMA PairSetsLength ==
  ASSUME TypeOK
  PROVE  DOMAIN pairSets = 1..Len(pairSets) /\ Len(pairSets) \in Nat
<1>1. pairSets \in Seq([primary : Pairs, secondary : Pairs])
  BY ReplayAssumption DEF TypeOK
<1> QED
  BY <1>1, LenProperties

LEMMA EndOfInvocationPreserves ==
  ASSUME IInv, EndOfInvocation
  PROVE  IInv'
<1>1. /\ UNCHANGED <<harness, account>> /\ pc' = "advance" /\ open' = Nothing
      /\ readings' = NoReadings /\ k' = 1
  BY DEF EndOfInvocation
<1>2. /\ open' \in [Trades -> Nat] /\ pc' \in Stages
      /\ readings' \in [DOMAIN pairSets -> Readings \cup {None}]
  BY <1>1 DEF Nothing, NoReadings, Stages
<1>3. k' \in 1..(Len(pairSets) + 1)
  BY <1>1, PairSetsLength, SMT DEF IInv
<1>4. KnowsTheHeld' /\ StopsAtSnapshot' /\ StopsOfThisBar'
  BY <1>1 DEF KnowsTheHeld, StopsAtSnapshot, StopsOfThisBar
<1> QED
  BY <1>1, <1>2, <1>3, <1>4, QuietPreserves

LEMMA StartupReconcilePreserves ==
  ASSUME IInv, StartupReconcile
  PROVE  IInv'
<1>1. /\ UNCHANGED <<harness, account, readings, k>>
      /\ pc = "reconcile" /\ pc' = "snapshot" /\ open' = Reconciled(log, Held)
  BY DEF StartupReconcile
<1>2. /\ open' \in [Trades -> Nat]
      /\ \A i \in Trades : open'[i] > 0 <=> i \in Held
  <2>1. log \in [Trades -> Nat] /\ Held \in SUBSET Trades
    BY HeldIsTrade DEF IInv, TypeOK
  <2> QED
    BY <1>1, <2>1, ReconciledKnows
<1>3. /\ readings' \in [DOMAIN pairSets -> Readings \cup {None}]
      /\ k' \in 1..(Len(pairSets) + 1) /\ pc' \in Stages
  BY <1>1 DEF IInv, TypeOK, Stages
<1>4. KnowsTheHeld' /\ StopsAtSnapshot' /\ StopsOfThisBar'
  <2>1. Held' = Held
    BY <1>1, AccountKept
  <2> QED
    BY <1>1, <1>2, <2>1 DEF KnowsTheHeld, StopsAtSnapshot, StopsOfThisBar
<1> QED
  BY <1>1, <1>2, <1>3, <1>4, QuietPreserves

\* Only a replay without a foreign symbol gets past the snapshot.
LEMMA SnapshotPreserves ==
  ASSUME IInv, Snapshot
  PROVE  IInv'
<1>1. /\ UNCHANGED <<harness, account, open, k>>
      /\ pc = "snapshot" /\ pc' = "exits"
  BY DEF Snapshot
<1>2. /\ readings' \in [DOMAIN pairSets -> Readings \cup {None}]
      /\ \A j \in DOMAIN pairSets : readings'[j] \in ReadingsOf(pairSets[j])
  BY DEF Snapshot, ReadingsOf
<1>3. Symbols(pairSets) = Replayed
  BY QuotedMeansReplayed DEF Snapshot, IInv, InStep, TypeOK
<1>4. StopsAtSnapshot'
  BY <1>1, <1>3, HarnessKept DEF StopsAtSnapshot
<1>5. StopsOfThisBar'
  <2>1. pairSets' = pairSets /\ quote' = quote
    BY <1>1, HarnessKept
  <2> QED
    BY <1>2, <2>1 DEF StopsOfThisBar, ReadingsOf, Bid
<1>6. KnowsTheHeld'
  <2>1. Held' = Held /\ open' = open
    BY <1>1, AccountKept
  <2> QED
    BY <1>1, <2>1 DEF IInv, KnowsTheHeld
<1>7. open' \in [Trades -> Nat] /\ k' \in 1..(Len(pairSets) + 1) /\ pc' \in Stages
  BY <1>1 DEF IInv, TypeOK, Stages
<1> QED
  BY <1>1, <1>2, <1>4, <1>5, <1>6, <1>7, QuietPreserves

\* Between the gates and the entries nothing is read or written.
LEMMA GatesPreserve ==
  ASSUME IInv, GatesPass \/ PassOver
  PROVE  IInv'
<1>1. /\ UNCHANGED <<harness, account, open, readings>>
      /\ pc \in {"gates", "entries"} /\ pc' = "entries"
      /\ k' = 1 \/ (k' = k + 1 /\ k <= Len(pairSets))
  BY DEF GatesPass, PassOver
<1>2. /\ readings' \in [DOMAIN pairSets -> Readings \cup {None}]
      /\ open' \in [Trades -> Nat] /\ pc' \in Stages
  BY <1>1 DEF IInv, TypeOK, Stages
<1>3. k' \in 1..(Len(pairSets) + 1)
  <2>1. k \in 1..(Len(pairSets) + 1) /\ Len(pairSets) \in Nat
    BY PairSetsLength DEF IInv, TypeOK
  <2> QED
    BY <1>1, <2>1, SMT
<1>4. KnowsTheHeld'
  <2>1. Held' = Held
    BY <1>1, AccountKept
  <2> QED
    BY <1>1, <2>1 DEF IInv, KnowsTheHeld
<1>5. StopsAtSnapshot' /\ StopsOfThisBar'
  <2>1. /\ pairSets' = pairSets /\ quote' = quote
        /\ Replayed' = Replayed /\ Symbols(pairSets)' = Symbols(pairSets)
    BY <1>1, HarnessKept
  <2> QED
    BY <1>1, <2>1 DEF IInv, StopsAtSnapshot, StopsOfThisBar, Bid
<1> QED
  BY <1>1, <1>2, <1>3, <1>4, <1>5, QuietPreserves

LEMMA StillPreserves ==
  ASSUME IInv, Report \/ UNCHANGED vars
  PROVE  IInv'
<1>1. /\ UNCHANGED <<harness, account, open, readings, k>>
      /\ pc' = "done" \/ pc' = pc
  BY DEF Report, vars
<1>2. /\ readings' \in [DOMAIN pairSets -> Readings \cup {None}]
      /\ open' \in [Trades -> Nat] /\ k' \in 1..(Len(pairSets) + 1) /\ pc' \in Stages
  BY <1>1 DEF IInv, TypeOK, Stages
<1>3. KnowsTheHeld'
  <2>1. Held' = Held
    BY <1>1, AccountKept
  <2> QED
    BY <1>1, <2>1 DEF IInv, KnowsTheHeld
<1>4. StopsAtSnapshot' /\ StopsOfThisBar'
  <2>1. /\ pairSets' = pairSets /\ quote' = quote
        /\ Replayed' = Replayed /\ Symbols(pairSets)' = Symbols(pairSets)
    BY <1>1, HarnessKept
  <2> QED
    BY <1>1, <2>1 DEF IInv, StopsAtSnapshot, StopsOfThisBar, Bid
<1> QED
  BY <1>1, <1>2, <1>3, <1>4, QuietPreserves

\* The harness never advances past its shortest history, and so not past the present.
LEMMA AdvancePreserves ==
  ASSUME IInv, Advance
  PROVE  IInv'
<1>1. /\ UNCHANGED <<pairSets, bars, account, open, readings, k>>
      /\ index + 1 < BarCount /\ index' = index + 1 /\ clock' = clock + 1
      /\ quote' \in Quotes /\ pc' = "reconcile"
  BY DEF Advance
<1>2. /\ Replayed' = Replayed /\ Symbols(pairSets)' = Symbols(pairSets)
      /\ Quotes' = Quotes
  BY <1>1 DEF Replayed, Symbols, Quotes
<1>3. /\ BarCount \in 1..Days /\ Days \in Nat
      /\ bars \in [Replayed -> 1..Days] /\ \A s \in Replayed : BarCount <= bars[s]
  BY ReplayAssumption, BarCountShortest DEF IInv, TypeOK
<1>4. index \in 0..(Days - 1) /\ clock = index - Days
  BY DEF IInv, TypeOK, InStep
<1>5. /\ index' \in 0..(Days - 1) /\ clock' = index' - Days /\ clock' \in (-Days)..0
      /\ \A s \in Replayed : index' < bars[s]
  BY <1>1, <1>3, <1>4, SMT
<1>6. InStep'
  BY <1>1, <1>2, <1>5 DEF IInv, InStep, ValidPairs
<1>7. /\ UNCHANGED <<book, closedAt, pnl, log, opened, closed>>
      /\ Held' = Held /\ BookInOrder' /\ OneEntryPerPairAndBar' /\ ReportAddsUp'
  BY <1>1, AccountKept
<1>8. TypeOK'
  BY <1>1, <1>2, <1>5, <1>7 DEF IInv, TypeOK, Stages
<1>9. ForeignSymbolSilencesReplay'
  BY <1>1, <1>2, <1>7 DEF IInv, ForeignSymbolSilencesReplay
<1>10. EnteredToday'
  <2>1. clock \in Int /\ clock' = clock + 1
    BY <1>1, <1>3, <1>4, SMT
  <2>2. ASSUME NEW i \in DOMAIN book
        PROVE  book[i].day <= clock' /\ book[i].day # clock'
    <3>1. book[i] \in Positions
      BY DEF IInv, TypeOK
    <3>2. book[i].day \in Int
      BY <3>1 DEF Positions
    <3>3. book[i].day <= clock
      BY DEF IInv, EnteredToday
    <3> QED
      BY <2>1, <3>2, <3>3, SMT
  <2> QED
    BY <1>7, <2>2 DEF EnteredToday
<1> QED
  BY <1>1, <1>6, <1>7, <1>8, <1>9, <1>10
  DEF IInv, KnowsTheHeld, StopsAtSnapshot, StopsOfThisBar

\* Closing takes positions from the held ones and leaves the book alone.
LEMMA ExitsLeaveTheBook ==
  ASSUME IInv, SweepExits
  PROVE  /\ UNCHANGED <<harness, book, readings, k, opened>>
         /\ pc = "exits" /\ pc' = "gates"
         /\ Exits \subseteq Held /\ Held' = Held \ Exits
         /\ DOMAIN closedAt' = Trades
         /\ \A i \in Exits : /\ closedAt'[i] = quote[book[i].pair]
                             /\ closedAt'[i] \in Closes /\ closedAt'[i] # None
         /\ \A i \in Trades \ Exits : closedAt'[i] = closedAt[i]
<1>1. /\ UNCHANGED <<harness, book, readings, k, opened>>
      /\ pc = "exits" /\ pc' = "gates"
      /\ closedAt' = [i \in Trades |-> IF i \in Exits THEN quote[book[i].pair]
                                                      ELSE closedAt[i]]
  BY DEF SweepExits
<1>2. DOMAIN book \subseteq Trades /\ Held \subseteq DOMAIN book
  BY HeldIsTrade DEF IInv
<1>3. Exits \subseteq Held
  BY <1>1 DEF Exits, IInv, KnowsTheHeld
<1>4. ASSUME NEW i \in Exits
      PROVE  /\ closedAt'[i] = quote[book[i].pair]
             /\ closedAt'[i] \in Closes /\ closedAt'[i] # None
  <2>1. i \in Trades /\ i \in DOMAIN book
    BY <1>2, <1>3
  <2>2. book[i] \in Positions /\ quote \in Quotes
    BY <2>1 DEF IInv, TypeOK
  <2>3. book[i].pair \in Pairs
    BY <2>2 DEF Positions
  <2> QED
    BY <1>1, <2>1, <2>2, <2>3, QuotesAreCloses
<1>5. \A i \in Trades \ Exits : closedAt'[i] = closedAt[i]
  BY <1>1
<1>6. Held' = Held \ Exits
  BY <1>1, <1>2, <1>3, <1>4, <1>5 DEF Held
<1>7. DOMAIN closedAt' = Trades
  BY <1>1
<1> QED
  BY <1>1, <1>3, <1>4, <1>5, <1>6, <1>7

\* A closed position has its price, and so a profit or a loss.
LEMMA ClosedIsRealized ==
  ASSUME TypeOK, NEW i \in DOMAIN book \ Held
  PROVE  /\ book[i] \in Positions /\ closedAt[i] \in Closes /\ closedAt[i] \in Int
         /\ Realized(book[i], closedAt[i]) \in Int
<1>1. i \in Trades
  BY HeldIsTrade
<1>2. book[i] \in Positions
  BY DEF TypeOK
<1>3. closedAt[i] \in Closes
  BY <1>1 DEF TypeOK, Held
<1>4. closedAt[i] \in Int
  BY <1>3, ReplayAssumption, SMT
<1> QED
  BY <1>2, <1>3, <1>4, RealizedIsInteger

\* What the sweep adds to the total is what the positions it closes made, each once:
\* the positions closed before and the ones closed now are different ones.
LEMMA ExitsAddUp ==
  ASSUME IInv, SweepExits
  PROVE  ReportAddsUp' /\ pnl' \in Int /\ closed' \in 0..MaxTrades
<1> DEFINE C == DOMAIN book \ Held
           D == DOMAIN book \ (Held \ Exits)
           before == [i \in C |-> Realized(book[i], closedAt[i])]
           now == [i \in Exits |-> Realized(book[i], quote[book[i].pair])]
           after == [i \in D |-> Realized(book[i], closedAt'[i])]
<1>1. /\ book' = book /\ opened' = opened /\ Held' = Held \ Exits /\ Exits \subseteq Held
      /\ \A i \in Exits : closedAt'[i] = quote[book[i].pair] /\ closedAt'[i] \in Closes
      /\ \A i \in Trades \ Exits : closedAt'[i] = closedAt[i]
  BY ExitsLeaveTheBook
<1>2. pnl' = pnl + Total(now) /\ closed' = closed + Cardinality(Exits)
  BY DEF SweepExits
<1>3. /\ DOMAIN book \subseteq Trades /\ Held \subseteq DOMAIN book
      /\ IsFiniteSet(DOMAIN book) /\ Cardinality(DOMAIN book) = Len(book)
      /\ Len(book) \in Nat /\ Len(book) <= MaxTrades
  BY HeldIsTrade DEF IInv
<1>4. /\ D = C \cup Exits /\ C \cap Exits = {} /\ C \subseteq Trades
      /\ D \in SUBSET DOMAIN book /\ C \in SUBSET DOMAIN book
      /\ Exits \in SUBSET DOMAIN book
  BY <1>1, <1>3
<1>5. IsFiniteSet(C) /\ IsFiniteSet(Exits) /\ IsFiniteSet(D) /\ Cardinality(D) <= Len(book)
  <2> HIDE DEF C, D
  <2> QED
    BY <1>3, <1>4, FS_Subset
<1>6. before \in [C -> Int]
  BY ClosedIsRealized DEF IInv
<1>7. now \in [Exits -> Int]
  <2> SUFFICES ASSUME NEW i \in Exits
               PROVE  Realized(book[i], quote[book[i].pair]) \in Int
    OBVIOUS
  <2>1. book[i] \in Positions
    BY <1>4 DEF IInv, TypeOK
  <2>2. quote[book[i].pair] \in Closes
    BY <1>1
  <2>3. quote[book[i].pair] \in Int
    <3>1. \A c \in Closes : c \in Int
      BY ReplayAssumption, SMT
    <3> QED
      BY <2>2, <3>1
  <2> QED
    BY <2>1, <2>3, RealizedIsInteger
<1>8. /\ after \in [D -> Int]
      /\ \A i \in C : after[i] = before[i]
      /\ \A i \in Exits : after[i] = now[i]
  BY <1>1, <1>4, <1>6, <1>7
<1>9. Total(after) = Total(before) + Total(now)
  <2> HIDE DEF C, D, before, now, after
  <2>1. after \in [C \cup Exits -> Int]
    BY <1>4, <1>8
  <2>2. JoinOf(after, C, before, Exits, now)
    BY <1>4, <1>5, <1>6, <1>7, <1>8, <2>1 DEF JoinOf
  <2> QED
    BY <2>2, TotalJoin
<1>10. Cardinality(D) = Cardinality(C) + Cardinality(Exits)
  <2> HIDE DEF C, D
  <2>1. Cardinality(D) = Cardinality(C) + Cardinality(Exits) - Cardinality(C \cap Exits)
    BY <1>4, <1>5, FS_Union
  <2>2. Cardinality(C \cap Exits) = 0
    BY <1>4, FS_EmptySet
  <2>3. Cardinality(C) \in Nat /\ Cardinality(Exits) \in Nat
    BY <1>5, FS_CardinalityType
  <2> QED
    BY <2>1, <2>2, <2>3, SMT
<1>11. /\ Total(before) \in Int /\ Total(now) \in Int
       /\ Cardinality(D) \in Nat
  <2> HIDE DEF C, D, before, now
  <2> QED
    BY <1>5, <1>6, <1>7, TotalInt, FS_CardinalityType
<1>12. /\ opened = Len(book) /\ closed = Cardinality(C)
       /\ StartEquity + pnl = StartEquity + Total(before)
       /\ pnl \in Int /\ StartEquity \in Int /\ MaxTrades \in Nat
  BY ReplayAssumption DEF IInv, ReportAddsUp, Equity, TypeOK
<1>13. pnl' \in Int /\ closed' = Cardinality(D) /\ closed' \in 0..MaxTrades
       /\ StartEquity + pnl' = StartEquity + Total(after)
  <2> HIDE DEF C, D, before, now, after
  <2> QED
    BY <1>2, <1>3, <1>5, <1>9, <1>10, <1>11, <1>12, SMT
<1>14. DOMAIN book' \ Held' = D
  BY <1>1
<1>15. [i \in DOMAIN book' \ Held' |-> Realized(book'[i], closedAt'[i])] = after
  BY <1>1, <1>14
<1>16. ReportAddsUp'
  <2> HIDE DEF C, D, before, now, after
  <2>1. /\ opened' = Len(book') /\ closed' = Cardinality(DOMAIN book' \ Held')
        /\ StartEquity + pnl' =
             StartEquity + Total([i \in DOMAIN book' \ Held' |-> Realized(book'[i], closedAt'[i])])
    BY <1>1, <1>12, <1>13, <1>14, <1>15
  <2> QED
    BY <2>1 DEF ReportAddsUp, Equity, Realized
<1> QED
  BY <1>13, <1>16

LEMMA SweepExitsPreserves ==
  ASSUME IInv, SweepExits
  PROVE  IInv'
<1>1. /\ UNCHANGED <<harness, book, readings, k, opened>>
      /\ pc = "exits" /\ pc' = "gates"
      /\ Exits \subseteq Held /\ Held' = Held \ Exits
      /\ DOMAIN closedAt' = Trades
      /\ \A i \in Exits : closedAt'[i] \in Closes
      /\ \A i \in Trades \ Exits : closedAt'[i] = closedAt[i]
  BY ExitsLeaveTheBook
<1>2. DOMAIN book \subseteq Trades /\ Held \subseteq DOMAIN book
  BY HeldIsTrade DEF IInv
<1>3. /\ \/ Exits = {} /\ open' = open /\ log' = log
         \/ open' = Reconciled(open, Held \ Exits) /\ log' = Appended(open')
      /\ closedAt' = [i \in Trades |-> IF i \in Exits THEN quote[book[i].pair]
                                                      ELSE closedAt[i]]
  BY DEF SweepExits
<1>4. /\ open' \in [Trades -> Nat] /\ log' \in [Trades -> Nat]
      /\ \A i \in Trades : open'[i] > 0 <=> i \in Held'
  <2>1. open \in [Trades -> Nat] /\ log \in [Trades -> Nat]
    BY DEF IInv, TypeOK
  <2>2. CASE Exits = {} /\ open' = open /\ log' = log
    BY <1>1, <2>1, <2>2 DEF IInv, KnowsTheHeld
  <2>3. CASE open' = Reconciled(open, Held \ Exits) /\ log' = Appended(open')
    <3>1. Held \ Exits \in SUBSET Trades
      BY <1>2
    <3>2. /\ open' \in [Trades -> Nat]
          /\ \A i \in Trades : open'[i] > 0 <=> i \in Held \ Exits
      BY <2>1, <2>3, <3>1, ReconciledKnows
    <3>3. log' \in [Trades -> Nat]
      BY <2>1, <2>3, <3>2, AppendedTyped
    <3> QED
      BY <1>1, <3>2, <3>3
  <2> QED
    BY <1>3, <2>2, <2>3
<1>5. /\ UNCHANGED <<pairSets, bars, index, clock, quote>>
      /\ Replayed' = Replayed /\ Symbols(pairSets)' = Symbols(pairSets)
      /\ Quotes' = Quotes /\ InStep'
  BY <1>1, HarnessKept
<1>6. ReportAddsUp' /\ pnl' \in Int /\ closed' \in 0..MaxTrades
  BY ExitsAddUp
<1>7. closedAt' \in [Trades -> Closes \cup {None}]
  <2>1. \A i \in Trades : closedAt'[i] \in Closes \cup {None}
    BY <1>1 DEF IInv, TypeOK
  <2> QED
    BY <1>3, <2>1
<1>8. TypeOK'
  BY <1>1, <1>4, <1>5, <1>6, <1>7 DEF IInv, TypeOK, Stages
<1>9. BookInOrder'
  <2>1. \A i \in Trades \ DOMAIN book : closedAt'[i] = None
    BY <1>1, <1>2 DEF IInv, BookInOrder
  <2> QED
    BY <1>1, <2>1 DEF IInv, BookInOrder, LossAtStop
<1>10. OneEntryPerPairAndBar' /\ EnteredToday'
  BY <1>1, <1>5 DEF IInv, OneEntryPerPairAndBar, EnteredToday
<1>11. ForeignSymbolSilencesReplay' /\ StopsAtSnapshot' /\ StopsOfThisBar'
  BY <1>1, <1>5 DEF IInv, ForeignSymbolSilencesReplay, StopsAtSnapshot, StopsOfThisBar, Bid
<1>12. KnowsTheHeld'
  BY <1>4 DEF KnowsTheHeld
<1> QED
  BY <1>5, <1>6, <1>8, <1>9, <1>10, <1>11, <1>12 DEF IInv

\* The position an entry adds: of the pair read, dated by the real day though entered
\* on the simulated one, and sized so
\* that its loss at the stop, though counted from the fill and not from the entry
\* price it was sized with, stays within the cap on the risk of a trade.
LEMMA EnteredPosition ==
  ASSUME IInv, Enter
  PROVE  \E position \in Positions :
           /\ book' = Append(book, position)
           /\ position.pair = readings[k].pair /\ position.pair \in Pairs
           /\ position.enteredAt = 0 /\ position.day = clock
           /\ LossAtStop(position) <= FromPercentOf(position.equity, MaxPercent)
<1> DEFINE signal == readings[k]
           Position(context) ==
             [pair |-> signal.pair, dir |-> signal.dir,
              size |-> PositionSize(signal, context),
              fill |-> quote[signal.pair], stop |-> signal.stop,
              target |-> TakeProfit(signal.dir, context.entry, signal.stop),
              enteredAt |-> FillDate, day |-> clock, equity |-> Equity]
<1>1. PICK strong \in BOOLEAN :
        /\ Rejection(signal, Context(signal, strong)) = None
        /\ book' = Append(book, Position(Context(signal, strong)))
  BY DEF Enter
<1> DEFINE context == Context(signal, strong)
           position == Position(context)
<1>2. pc = "entries" /\ k \in DOMAIN pairSets /\ signal # None
  <2>1. k \in 1..(Len(pairSets) + 1) /\ k <= Len(pairSets)
    BY DEF Enter, IInv, TypeOK
  <2>2. k \in DOMAIN pairSets
    BY <2>1, PairSetsLength, SMT DEF IInv
  <2> QED
    BY <2>2 DEF Enter
<1>3. signal \in Readings
  BY <1>2 DEF IInv, TypeOK
<1>4. /\ signal.pair \in Pairs /\ signal.dir \in {"Buy", "Sell"} /\ signal.stop \in Int
  BY <1>3, BidsAreIntegers DEF Readings, Directions
<1>5. /\ context \in Contexts /\ context.pnlToday = 0 /\ context.equity = Equity
      /\ context.entry = EntryPrice(signal.pair, signal.dir)
      /\ context.stop = signal.stop
  <2>1. \A i \in Trades : open[i] > 0 => i \in DOMAIN book
    BY <1>2, HeldIsTrade DEF IInv, KnowsTheHeld
  <2> HIDE DEF signal
  <2> QED
    BY <1>3, <2>1, ContextTyped DEF IInv
<1>6. /\ PositionSize(signal, context) \in Nat
      /\ StopDistance(context) > 0
      /\ PositionSize(signal, context) * StopDistance(context)
           <= FromPercentOf(context.equity, MaxPercent)
  <2> HIDE DEF signal, context
  <2> QED
    BY <1>1, <1>5, ApprovedRiskIsBounded DEF context
<1>7. /\ quote[signal.pair] \in Int /\ HalfSpread \in Nat /\ Equity \in Int
      /\ Bid(signal.pair) = quote[signal.pair] - HalfSpread
      /\ Ask(signal.pair) = quote[signal.pair] + HalfSpread
  <2>1. Equity \in Int
    BY ReplayAssumption, SMT DEF Equity, IInv, TypeOK
  <2> QED
    BY <1>4, <2>1, QuoteAndSpread DEF IInv, TypeOK, Bid, Ask
<1>8. /\ signal.dir = "Buy" => signal.stop <= Bid(signal.pair)
      /\ signal.dir = "Sell" => signal.stop >= Bid(signal.pair)
  BY <1>2 DEF IInv, StopsOfThisBar
<1> HIDE DEF signal
<1>9. /\ StopDistance(context) \in Int
      /\ (quote[signal.pair] - signal.stop) * Direction(signal.dir) \in Int
      /\ (quote[signal.pair] - signal.stop) * Direction(signal.dir) <= StopDistance(context)
  <2> HIDE DEF context
  <2>1. CASE signal.dir = "Buy"
    <3>1. Direction(signal.dir) = 1 /\ context.entry = quote[signal.pair] + HalfSpread
      BY <1>5, <1>7, <2>1 DEF Direction, EntryPrice
    <3>2. StopDistance(context) = quote[signal.pair] + HalfSpread - signal.stop
      BY <1>4, <1>5, <1>7, <1>8, <2>1, <3>1, SMT DEF StopDistance, Abs
    <3> QED
      BY <1>4, <1>7, <3>1, <3>2, SMT
  <2>2. CASE signal.dir = "Sell"
    <3>1. Direction(signal.dir) = -1 /\ context.entry = quote[signal.pair] - HalfSpread
      BY <1>5, <1>7, <2>2 DEF Direction, EntryPrice
    <3>2. StopDistance(context) = signal.stop - (quote[signal.pair] - HalfSpread)
      BY <1>4, <1>5, <1>7, <1>8, <2>2, <3>1, SMT DEF StopDistance, Abs
    <3> QED
      BY <1>4, <1>7, <3>1, <3>2, SMT
  <2> QED
    BY <1>4, <2>1, <2>2
<1>10. FromPercentOf(Equity, MaxPercent) \in Int
  <2>1. MaxPercent \in Nat
    BY ConfigAssumption, SMT
  <2>2. Equity * MaxPercent \in Int
    BY <1>7, <2>1, SMT
  <2> QED
    BY <2>2, SMT DEF FromPercentOf
<1>11. PositionSize(signal, context) *
         ((quote[signal.pair] - signal.stop) * Direction(signal.dir))
         <= FromPercentOf(Equity, MaxPercent)
  <2> DEFINE size == PositionSize(signal, context)
             loss == (quote[signal.pair] - signal.stop) * Direction(signal.dir)
             distance == StopDistance(context)
             cap == FromPercentOf(Equity, MaxPercent)
  <2>1. size \in Nat /\ loss \in Int /\ distance \in Int /\ loss <= distance /\ cap \in Int
        /\ size * distance <= cap
    BY <1>5, <1>6, <1>9, <1>10
  <2> HIDE DEF size, loss, distance, cap
  <2>2. size * loss \in Int /\ size * distance \in Int /\ size * loss <= size * distance
    BY <2>1, SizedMonotone
  <2>3. size * loss <= cap
    BY <2>1, <2>2, SMT
  <2> QED
    BY <2>3 DEF size, loss, cap
<1>12. /\ position.pair = signal.pair /\ position.enteredAt = 0 /\ position.day = clock
       /\ LossAtStop(position) <= FromPercentOf(position.equity, MaxPercent)
  BY <1>11 DEF LossAtStop, FillDate
<1>13. position \in Positions
  <2>1. TakeProfit(signal.dir, context.entry, signal.stop) \in Int
    <3>1. context.entry \in Int
      BY <1>5 DEF Contexts
    <3>2. Abs(context.entry - signal.stop) \in Int /\ Direction(signal.dir) \in {1, -1}
      BY <1>4, <3>1, SMT DEF Abs, Direction
    <3> HIDE DEF context
    <3> QED
      BY <3>1, <3>2, SMT DEF TakeProfit
  <2>2. FillDate \in Int /\ clock \in Int
    BY ReplayAssumption, SMT DEF FillDate, IInv, TypeOK
  <2> HIDE DEF context
  <2> QED
    BY <1>4, <1>6, <1>7, <2>1, <2>2, Zenon DEF Positions, Directions
<1>14. book' = Append(book, position)
  BY <1>1
<1> QED
  BY <1>4, <1>12, <1>13, <1>14 DEF signal

\* To the guard against a second entry every position held is one of this window: its
\* date is the real day's, which no bar of the replay is after.
LEMMA HeldIsEntered ==
  ASSUME IInv, pc = "entries", NEW i \in Held
  PROVE  AlreadyEntered(book[i].pair)
<1>1. i \in Trades /\ i \in DOMAIN book /\ open[i] > 0
  BY HeldIsTrade DEF IInv, KnowsTheHeld
<1>2. clock \in Int /\ clock <= 0 /\ book[i].enteredAt = 0
  BY <1>1, ReplayAssumption, SMT DEF IInv, TypeOK, BookInOrder
<1>3. WithinTheWindow(book[i].enteredAt)
  BY <1>2, SMT DEF WithinTheWindow
<1> QED
  BY <1>1, <1>3 DEF AlreadyEntered

\* An entry lengthens the book by one position, which is held; a position of the same
\* pair entered on this bar is still held, and would have been taken for this window's
\* own.
LEMMA EnterPreserves ==
  ASSUME IInv, Enter
  PROVE  IInv'
<1> DEFINE n == Len(book) + 1
<1>1. PICK position \in Positions :
        /\ book' = Append(book, position)
        /\ position.pair = readings[k].pair /\ position.pair \in Pairs
        /\ position.enteredAt = 0 /\ position.day = clock
        /\ LossAtStop(position) <= FromPercentOf(position.equity, MaxPercent)
  BY EnteredPosition
<1>2. /\ UNCHANGED <<harness, closedAt, pnl, closed, readings, pc>>
      /\ pc = "entries" /\ k <= Len(pairSets) /\ Len(book) < MaxTrades
      /\ ~AlreadyEntered(readings[k].pair)
      /\ open' = Reconciled(open, Held \cup {Len(book')})
      /\ log' = Appended(open') /\ opened' = opened + 1 /\ k' = k + 1
  BY DEF Enter
<1>3. /\ DOMAIN book = 1..Len(book) /\ Len(book) \in Nat
      /\ DOMAIN book \subseteq Trades /\ Held \subseteq DOMAIN book
      /\ MaxTrades \in Nat /\ book \in Seq(Positions)
  BY HeldIsTrade, ReplayAssumption DEF IInv, TypeOK
<1>4. /\ book' \in Seq(Positions) /\ Len(book') = n
      /\ book'[n] = position
      /\ \A i \in DOMAIN book : book'[i] = book[i]
  BY <1>1, <1>3, AppendProperties
<1>5. /\ n \in Trades /\ n \notin DOMAIN book /\ DOMAIN book' = DOMAIN book \cup {n}
      /\ n <= MaxTrades
  <2>1. DOMAIN book' = 1..n
    BY <1>4, LenProperties
  <2> QED
    BY <1>2, <1>3, <2>1, SMT DEF Trades
<1> HIDE DEF n
<1>6. closedAt[n] = None
  BY <1>5 DEF IInv, BookInOrder
<1>7. Held' = Held \cup {n} /\ DOMAIN book' \ Held' = DOMAIN book \ Held
  BY <1>2, <1>3, <1>5, <1>6 DEF Held
<1>8. /\ open' \in [Trades -> Nat] /\ log' \in [Trades -> Nat]
      /\ \A i \in Trades : open'[i] > 0 <=> i \in Held'
  <2>1. open \in [Trades -> Nat] /\ log \in [Trades -> Nat]
    BY DEF IInv, TypeOK
  <2>2. Held \cup {n} \in SUBSET Trades
    BY <1>3, <1>5
  <2>3. /\ open' \in [Trades -> Nat]
        /\ \A i \in Trades : open'[i] > 0 <=> i \in Held \cup {n}
    BY <1>2, <1>4, <2>1, <2>2, ReconciledKnows
  <2>4. log' \in [Trades -> Nat]
    BY <1>2, <2>1, <2>3, AppendedTyped
  <2> QED
    BY <1>7, <2>3, <2>4
<1>9. /\ UNCHANGED <<pairSets, bars, index, clock, quote>>
      /\ Replayed' = Replayed /\ Symbols(pairSets)' = Symbols(pairSets)
      /\ Quotes' = Quotes /\ InStep'
  BY <1>2, HarnessKept
<1>10. opened' = Len(book') /\ opened' \in 0..MaxTrades
  BY <1>2, <1>3, <1>4, <1>5, SMT DEF IInv, ReportAddsUp, n
<1>11. k' \in 1..(Len(pairSets) + 1)
  <2>1. k \in 1..(Len(pairSets) + 1) /\ Len(pairSets) \in Nat
    BY PairSetsLength DEF IInv, TypeOK
  <2> QED
    BY <1>2, <2>1, SMT
<1>12. TypeOK'
  BY <1>2, <1>4, <1>5, <1>8, <1>9, <1>10, <1>11 DEF IInv, TypeOK
<1>13. BookInOrder'
  <2>1. \A i \in DOMAIN book' : book'[i].enteredAt = 0
    BY <1>1, <1>4, <1>5 DEF IInv, BookInOrder
  <2>2. \A i \in DOMAIN book' :
          LossAtStop(book'[i]) <= FromPercentOf(book'[i].equity, MaxPercent)
    <3> HIDE DEF LossAtStop, FromPercentOf
    <3> QED
      BY <1>1, <1>4, <1>5, Zenon DEF IInv, BookInOrder
  <2>3. \A i \in Trades \ DOMAIN book' : closedAt'[i] = None
    BY <1>2, <1>5 DEF IInv, BookInOrder
  <2> QED
    BY <2>1, <2>2, <2>3 DEF BookInOrder, LossAtStop
<1>14. \A i \in DOMAIN book : book[i].day = clock => book[i].pair # position.pair
  <2> SUFFICES ASSUME NEW i \in DOMAIN book, book[i].day = clock,
                      book[i].pair = readings[k].pair
               PROVE  FALSE
    BY <1>1
  <2>1. i \in Held
    BY DEF IInv, EnteredToday
  <2> QED
    BY <1>2, <2>1, HeldIsEntered
<1>15. OneEntryPerPairAndBar'
  BY <1>1, <1>4, <1>5, <1>9, <1>14 DEF IInv, OneEntryPerPairAndBar
<1>16. ReportAddsUp'
  <2>1. \A i \in DOMAIN book \ Held : book'[i] = book[i]
    BY <1>4
  <2>2. [i \in DOMAIN book' \ Held' |-> Realized(book'[i], closedAt'[i])] =
        [i \in DOMAIN book \ Held |-> Realized(book[i], closedAt[i])]
    BY <1>2, <1>7, <2>1 DEF Realized
  <2>3. closed' = Cardinality(DOMAIN book' \ Held')
    BY <1>2, <1>7 DEF IInv, ReportAddsUp
  <2> QED
    BY <1>2, <1>10, <2>2, <2>3 DEF IInv, ReportAddsUp, Equity, Realized
<1>17. StopsAtSnapshot' /\ StopsOfThisBar'
  BY <1>2, <1>9 DEF IInv, StopsAtSnapshot, StopsOfThisBar, Bid
<1>18. ForeignSymbolSilencesReplay'
  BY <1>2, <1>9 DEF IInv, StopsAtSnapshot, ForeignSymbolSilencesReplay
<1>19. KnowsTheHeld'
  BY <1>8 DEF KnowsTheHeld
<1>20. EnteredToday'
  <2>1. clock \in Int
    BY ReplayAssumption, SMT DEF IInv, TypeOK
  <2>2. ASSUME NEW i \in DOMAIN book
        PROVE  /\ book'[i].day <= clock'
               /\ book'[i].day = clock' => i \in Held'
    BY <1>4, <1>7, <1>9 DEF IInv, EnteredToday
  <2>3. book'[n].day <= clock' /\ n \in Held'
    BY <1>1, <1>4, <1>7, <1>9, <2>1, SMT
  <2> QED
    BY <1>2, <1>5, <2>2, <2>3 DEF EnteredToday
<1> QED
  BY <1>9, <1>12, <1>13, <1>15, <1>16, <1>17, <1>18, <1>19, <1>20 DEF IInv

LEMMA StepHolds == IInv /\ [Next]_vars => IInv'
<1> SUFFICES ASSUME IInv, [Next]_vars PROVE IInv'
  OBVIOUS
<1>1. CASE StartupReconcile BY <1>1, StartupReconcilePreserves
<1>2. CASE Snapshot BY <1>2, SnapshotPreserves
<1>3. CASE HeartbeatFails BY <1>3, EndOfInvocationPreserves DEF HeartbeatFails
<1>4. CASE SweepExits BY <1>4, SweepExitsPreserves
<1>5. CASE GateRefuses BY <1>5, EndOfInvocationPreserves DEF GateRefuses
<1>6. CASE GatesPass BY <1>6, GatesPreserve
<1>7. CASE PassOver BY <1>7, GatesPreserve
<1>8. CASE Enter BY <1>8, EnterPreserves
<1>9. CASE EntriesDone BY <1>9, EndOfInvocationPreserves DEF EntriesDone
<1>10. CASE Advance BY <1>10, AdvancePreserves
<1>11. CASE Report BY <1>11, StillPreserves
<1>12. CASE UNCHANGED vars BY <1>12, StillPreserves
<1> QED
  BY <1>1, <1>2, <1>3, <1>4, <1>5, <1>6, <1>7, <1>8, <1>9, <1>10, <1>11, <1>12 DEF Next

\* The inductive invariant holds throughout a replay.
THEOREM InductiveInvariant == Spec => []IInv
  BY InitHolds, StepHolds, PTL DEF Spec

-----------------------------------------------------------------------------
(* What follows from it *)

\* Every variable keeps its type, the equity and the totals of the report included.
THEOREM TypeCorrect == Spec => []TypeOK
<1>1. IInv => TypeOK
  BY DEF IInv
<1> QED
  BY <1>1, InductiveInvariant, PTL

\* Whatever is traded, for any prices and however many copies of a position the
\* cycle's own list has, the report agrees with the history.
THEOREM ReportCorrect == Spec => []ReportAddsUp
<1>1. IInv => ReportAddsUp
  BY DEF IInv
<1> QED
  BY <1>1, InductiveInvariant, PTL

\* A pair is entered at most once per bar, whichever pair-sets share it, though the
\* exits of the same bar may have made room for it. (already_entered_this_cycle)
THEOREM OneEntry == Spec => []OneEntryPerPairAndBar
<1>1. IInv => OneEntryPerPairAndBar
  BY DEF IInv
<1> QED
  BY <1>1, InductiveInvariant, PTL

\* The guard against a second entry is, in a replay, one against a second position:
\* however many bars ago a pair was entered, it is shut for as long as its position is
\* held, since fills are dated by Utc::now(). (submit_order, already_entered_this_cycle)
THEOREM HeldPairsAreShut ==
  Spec => [](pc = "entries" =>
               \A pair \in Pairs :
                 AlreadyEntered(pair) <=> \E i \in Held : book[i].pair = pair)
<1>1. ASSUME IInv, pc = "entries", NEW pair \in Pairs
      PROVE  AlreadyEntered(pair) <=> \E i \in Held : book[i].pair = pair
  <2>1. AlreadyEntered(pair) => \E i \in Held : book[i].pair = pair
    BY <1>1 DEF AlreadyEntered, IInv, KnowsTheHeld
  <2>2. ASSUME NEW i \in Held, book[i].pair = pair
        PROVE  AlreadyEntered(pair)
    BY <1>1, <2>2, HeldIsEntered
  <2> QED
    BY <2>1, <2>2
<1>2. IInv => (pc = "entries" =>
                 \A pair \in Pairs :
                   AlreadyEntered(pair) <=> \E i \in Held : book[i].pair = pair)
  BY <1>1
<1> QED
  BY <1>2, InductiveInvariant, PTL

\* A symbol that the first pair-set does not have keeps the replay from trading at
\* all, for any configuration, any prices and any number of days. (get_snapshot)
THEOREM ForeignSymbolNeverTrades == Spec => []ForeignSymbolSilencesReplay
<1>1. IInv => ForeignSymbolSilencesReplay
  BY DEF IInv
<1> QED
  BY <1>1, InductiveInvariant, PTL

\* A position closed no further than its stop lost no more than it would have at it.
LEMMA LossIsCapped ==
  ASSUME IInv
  PROVE  LossWithinRisk
<1> SUFFICES ASSUME NEW i \in DOMAIN book \ Held,
                    (closedAt[i] - book[i].stop) * Direction(book[i].dir) >= 0
             PROVE  -Realized(book[i], closedAt[i]) <=
                      FromPercentOf(book[i].equity, MaxPercent)
  BY DEF LossWithinRisk
<1> DEFINE p == book[i]
           price == closedAt[i]
           sign == Direction(p.dir)
           lost == -((price - p.fill) * sign)
           atStop == (p.fill - p.stop) * sign
           cap == FromPercentOf(p.equity, MaxPercent)
<1>1. p \in Positions /\ price \in Int
  BY ClosedIsRealized DEF IInv
<1>2. /\ p.size \in Nat /\ p.fill \in Int /\ p.stop \in Int /\ p.equity \in Int
      /\ p.dir \in {"Buy", "Sell"}
  BY <1>1 DEF Positions, Directions
<1>3. sign \in {1, -1}
  BY <1>2 DEF Direction
<1>4. p.size * atStop <= cap
  BY DEF IInv, BookInOrder, LossAtStop
<1>5. cap \in Int
  <2>1. MaxPercent \in Int
    BY ConfigAssumption, SMT
  <2>2. p.equity * MaxPercent \in Int
    BY <1>2, <2>1, SMT
  <2> QED
    BY <2>2, SMT DEF FromPercentOf
<1>6. (price - p.stop) * sign >= 0
  OBVIOUS
<1>7. -Realized(p, price) = -((price - p.fill) * p.size * sign)
  BY DEF Realized
<1> HIDE DEF p, price, sign, cap
<1>8. /\ lost \in Int /\ atStop \in Int /\ lost <= atStop
      /\ -((price - p.fill) * p.size * sign) = p.size * lost
  <2>1. CASE sign = 1
    <3>1. (price - p.fill) * p.size * 1 = (price - p.fill) * p.size
      BY <1>1, <1>2, SMT
    <3> QED
      BY <1>1, <1>2, <1>6, <2>1, <3>1, SMT DEF price
  <2>2. CASE sign = -1
    BY <1>1, <1>2, <1>6, <2>2, SMT DEF price
  <2> QED
    BY <1>3, <2>1, <2>2
<1> HIDE DEF lost, atStop
<1>9. /\ p.size * lost \in Int /\ p.size * atStop \in Int
      /\ p.size * lost <= p.size * atStop
  BY <1>2, <1>8, SizedMonotone
<1>10. p.size * lost <= cap
  BY <1>4, <1>5, <1>9, SMT
<1> QED
  BY <1>7, <1>8, <1>10 DEF p, price, cap

\* No trade of a replay that ended with the close no further than its stop lost more
\* than the cap on its risk, for any prices and any configuration that passes
\* Config::validate. (stop_loss_level, evaluate, submit_order, close_position)
THEOREM LossCapped == Spec => []LossWithinRisk
  BY LossIsCapped, InductiveInvariant, PTL

\* Where every symbol has a history, no bar ends at the heartbeat. (bar_count)
THEOREM EveryBar == Spec => EveryBarIsTraded
<1>1. IInv /\ [Next]_vars =>
        (Symbols(pairSets) = Replayed /\ pc = "snapshot" => pc' # "advance")
  <2> SUFFICES ASSUME IInv, [Next]_vars, Symbols(pairSets) = Replayed,
                      pc = "snapshot", pc' = "advance"
               PROVE  FALSE
    OBVIOUS
  <2>1. HeartbeatFails
    BY DEF Next, vars, StartupReconcile, Snapshot, SweepExits, GateRefuses, GatesPass,
       PassOver, Enter, EntriesDone, Advance, Report
  <2>2. \A s \in Symbols(pairSets) : HasQuote(s)
    BY DEF IInv, InStep, HasQuote
  <2> QED
    BY <2>1, <2>2 DEF HeartbeatFails
<1> QED
  BY <1>1, InductiveInvariant, PTL DEF Spec, EveryBarIsTraded

=============================================================================

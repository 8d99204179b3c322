----------------------------- MODULE RiskEngine -----------------------------
(***************************************************************************)
(* DefaultRiskEngine::evaluate (risk/src/sizing.rs): a list of checks in a *)
(* fixed order, and the size of what passes them all.                      *)
(*                                                                         *)
(* Money, prices and percentages are integers, and a division that the     *)
(* code carries to 28 digits rounds down here. from_percent_of is the only *)
(* way from a percentage to money, and position_size the only other        *)
(* division.                                                               *)
(***************************************************************************)
EXTENDS Integers

CONSTANTS
  Pairs,
  CurrencyPair,       \* currency_pair: the base and the quote of each pair, for
                      \* symbols of six letters; of others it knows none, and
                      \* evaluate then skips their currencies (not modelled)
  BasePercent,        \* config.risk.base_risk_percent
  MaxPercent,         \* config.risk.max_risk_percent
  DailyLossPercent,   \* config.risk.daily_loss_limit_percent
  WeeklyLossPercent,  \* config.risk.weekly_loss_limit_percent
  MaxOpen,            \* config.risk.max_open_positions
  MaxCurrencyPercent, \* config.risk.max_exposure_per_currency_percent
  MaxCorrelationPercent, \* config.risk.max_correlation_exposure_percent
  None                \* Option::None

Directions == {"Buy", "Sell"}
Currencies == UNION {{CurrencyPair[p].base, CurrencyPair[p].quote} : p \in Pairs}

\* What Config::validate makes sure of.
ASSUME ConfigAssumption ==
  /\ BasePercent \in Nat \ {0}
  /\ MaxPercent \in 0..100
  /\ MaxOpen \in Nat \ {0}
  /\ {DailyLossPercent, WeeklyLossPercent,
      MaxCurrencyPercent, MaxCorrelationPercent} \subseteq Int

\* What it does not look at: a daily loss limit is not negative.
ASSUME DailyLimitAssumption == DailyLossPercent \in Nat

\* The RiskContext the daemon computes for a TradeSignal, which has a pair, a dir and
\* whether it is double. exposure is net and signed, per currency; the profits are
\* negative when they are losses.
Contexts == [equity : Int, count : Nat, tuesday : BOOLEAN,
             entry : Int, stop : Int, pnlToday : Int, pnlWeek : Int,
             exposure : [Currencies -> Int], correlated : Int]

-----------------------------------------------------------------------------
Abs(n) == IF n < 0 THEN -n ELSE n

\* Usd::from_percent_of
FromPercentOf(equity, percent) == (equity * percent) \div 100

\* Tuesday and a Double signal both mean 2, and together no more.
EffectiveCoefficient(tuesday, double) == IF tuesday \/ double THEN 2 ELSE 1

\* Variant: the result of the multiplication is not capped.
ApplyMultiplier_Uncapped(coefficient) == BasePercent * coefficient

\* apply_multiplier: nothing gets past the cap.
ApplyMultiplier(coefficient) ==
  LET scaled == BasePercent * coefficient
  IN  IF scaled <= MaxPercent THEN scaled ELSE MaxPercent

RiskPercent(signal, context) ==
  ApplyMultiplier(EffectiveCoefficient(context.tuesday, signal.double))

RiskCurrency(signal, context) ==
  FromPercentOf(context.equity, RiskPercent(signal, context))

\* Variant: signed.
StopDistance_Signed(context) == context.entry - context.stop

StopDistance(context) == Abs(context.entry - context.stop)

\* Buying is long the base currency and short the quote; selling the reverse.
Sign(pair, dir, currency) ==
  IF currency = CurrencyPair[pair].base
  THEN IF dir = "Buy" THEN 1 ELSE -1
  ELSE IF currency = CurrencyPair[pair].quote
  THEN IF dir = "Buy" THEN -1 ELSE 1
  ELSE 0

\* The net exposure to a currency if the signal were taken.
Projected(signal, context, currency) ==
  Abs(context.exposure[currency]
        + Sign(signal.pair, signal.dir, currency) * RiskCurrency(signal, context))

CurrencyExposureReached(signal, context) ==
  \E currency \in {CurrencyPair[signal.pair].base, CurrencyPair[signal.pair].quote} :
    Projected(signal, context, currency) >
      FromPercentOf(context.equity, MaxCurrencyPercent)

CorrelationExposureReached(signal, context) ==
  context.correlated + RiskCurrency(signal, context) >
    FromPercentOf(context.equity, MaxCorrelationPercent)

Reasons == {"DailyLossLimitReached", "WeeklyLossLimitReached", "MaxOpenPositionsReached",
            "InvalidStopDistance", "MaxCurrencyExposureReached",
            "MaxCorrelationExposureReached"}

ASSUME NoneAssumption == None \notin Reasons

\* The first check that fails names the reason; None approves.
Rejection(signal, context) ==
  IF context.pnlToday <= -FromPercentOf(context.equity, DailyLossPercent)
    THEN "DailyLossLimitReached"
  ELSE IF context.pnlWeek <= -FromPercentOf(context.equity, WeeklyLossPercent)
    THEN "WeeklyLossLimitReached"
  ELSE IF context.count >= MaxOpen THEN "MaxOpenPositionsReached"
  ELSE IF StopDistance(context) = 0 THEN "InvalidStopDistance"
  ELSE IF CurrencyExposureReached(signal, context) THEN "MaxCurrencyExposureReached"
  ELSE IF CorrelationExposureReached(signal, context) THEN "MaxCorrelationExposureReached"
  ELSE None

\* What is left of the RiskDecision once it is approved.
PositionSize(signal, context) ==
  RiskCurrency(signal, context) \div StopDistance(context)

=============================================================================

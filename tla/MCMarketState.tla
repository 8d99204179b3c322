---------------------------- MODULE MCMarketState ----------------------------
(***************************************************************************)
(* Invocations at 0:00, 12:00 (the session has run out, the day has not),  *)
(* 17:00 (neither has) and 18:00 (both have).                              *)
(***************************************************************************)
EXTENDS MarketState

CONSTANTS EURUSD, GBPUSD

MCSymbols == {EURUSD, GBPUSD}

MCPairSets == << [primary |-> EURUSD, secondary |-> GBPUSD] >>

MCQuotes == {1, 2}
MCInstants == {12, 17, 18}

=============================================================================

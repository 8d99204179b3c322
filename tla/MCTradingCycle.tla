--------------------------- MODULE MCTradingCycle ---------------------------
(***************************************************************************)
(* Two pair-sets that share their primary, so that the second can name the *)
(* pair the first has just entered.                                        *)
(***************************************************************************)
EXTENDS TradingCycle

CONSTANTS EURUSD, GBPUSD, Buy, Sell

MCPairs == {EURUSD, GBPUSD}

MCOnePairSet == << [primary |-> EURUSD, secondary |-> GBPUSD] >>

MCTwoPairSets == << [primary |-> EURUSD, secondary |-> GBPUSD],
                    [primary |-> EURUSD, secondary |-> EURUSD] >>

MCOneDirection == {Buy}

=============================================================================

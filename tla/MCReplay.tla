------------------------------ MODULE MCReplay ------------------------------
(* A small instance of Replay: three bars, two closes. *)
EXTENDS Replay

CONSTANTS EURUSD, GBPUSD, USDJPY, EUR, GBP, USD, JPY

MCPairs == {EURUSD, GBPUSD, USDJPY}

MCCurrencyPair ==
  [p \in MCPairs |-> CASE p = EURUSD -> [base |-> EUR, quote |-> USD]
                       [] p = GBPUSD -> [base |-> GBP, quote |-> USD]
                       [] p = USDJPY -> [base |-> USD, quote |-> JPY]]

Majors == [primary |-> GBPUSD, secondary |-> EURUSD]

\* One pair-set; with it one on the same symbols; and one that brings a symbol of
\* its own.
MCConfigs ==
  {<<Majors>>,
   <<Majors, [primary |-> EURUSD, secondary |-> EURUSD]>>,
   <<Majors, [primary |-> EURUSD, secondary |-> USDJPY]>>}

MCOneConfig == {<<Majors>>}

MCCloses == {10, 20}

=============================================================================

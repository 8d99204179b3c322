---------------------------- MODULE MCHealthGate ----------------------------
(* A small instance of HealthGate: two pair-sets that share their primary. *)
EXTENDS HealthGate

CONSTANTS EURUSD, GBPUSD, USDJPY

MCSymbols == {EURUSD, GBPUSD, USDJPY}

MCPairSets == <<[primary |-> GBPUSD, secondary |-> EURUSD],
                [primary |-> GBPUSD, secondary |-> USDJPY]>>

MCSpreads == {1, 7}

MCInstants == {0, 30, 31, 65}

=============================================================================

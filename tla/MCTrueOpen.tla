----------------------------- MODULE MCTrueOpen -----------------------------
(***************************************************************************)
(* The end of 2033, when Christmas and New Year's Day are Sundays, and the *)
(* week in which daylight saving begins in 2034.                           *)
(***************************************************************************)
EXTENDS TrueOpen

CONSTANTS EURUSD, USDJPY

MCSymbols   == {EURUSD, USDJPY}
MCPrimaries == <<EURUSD, USDJPY>>
MCQuotes    == {1, 2}

\* Two pair-sets with one primary. Only BiasOfOwnLevel tells symbols apart; for the
\* rest, a second price in one invocation is a second invocation at that instant.
MCOneSymbol  == {EURUSD}
MCOnePrimary == <<EURUSD, EURUSD>>

At(y, m, d, hour, minute, second) ==
  FromNy(DateOf(y, m, d) * Day + hour * Hour + minute * Minute + second)

\* The week before Christmas, Christmas week, and New Year's Day in New York when it
\* is over in UTC.
Holidays ==
  {At(2033, 12, 19, 18, 0, 0), At(2033, 12, 20, 0, 0, 0),
   At(2033, 12, 26, 12, 0, 0), At(2034, 1, 1, 21, 0, 0)}

\* The Sunday the clocks change, and the last second of its week and the next.
Spring ==
  {At(2034, 3, 12, 0, 0, 0), At(2034, 3, 13, 17, 59, 59), At(2034, 3, 13, 18, 0, 0)}

MCInstants == Holidays \cup Spring

=============================================================================

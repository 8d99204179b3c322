---------------------------- MODULE PositionBook ----------------------------
(***************************************************************************)
(* What the daemon promises about the account it trades, whatever is lost  *)
(* or crashes on the way: the positions it opened itself never outnumber   *)
(* max_open_positions, and two of them on one pair are never opened closer *)
(* together than the collision guard's minimum gap.  A position may leave  *)
(* the book at any time: an exit sweep, the broker's own stop or target.   *)
(* TradingCycle is shown to implement this specification.                  *)
(***************************************************************************)
EXTENDS Integers, FiniteSets

CONSTANTS
  Ids, Pairs, Directions,
  MaxOpen,     \* risk.max_open_positions
  MinGap       \* MIN_MINUTES_BETWEEN_ENTRIES_SAME_PAIR, in clock units

VARIABLES
  book,        \* the open positions the daemon opened
  clock

bookVars == <<book, clock>>

Init == book = {} /\ clock = 0

Positions ==
  [id : Ids, pair : Pairs, dir : Directions, at : Nat, own : {TRUE}]

\* A new position is dated by the clock, fits under the cap, and is at least
\* MinGap after every open position on its pair.
Enter(id, pair, d) ==
  /\ Cardinality(book) < MaxOpen
  /\ \A q \in book : q.pair = pair => clock - q.at >= MinGap
  /\ \A q \in book : q.id # id
  /\ book' = book \cup {[id |-> id, pair |-> pair, dir |-> d,
                         at |-> clock, own |-> TRUE]}
  /\ UNCHANGED clock

Leave(p) ==
  /\ p \in book
  /\ book' = book \ {p}
  /\ UNCHANGED clock

Tick ==
  /\ clock' = clock + 1
  /\ UNCHANGED book

Next ==
  \/ \E id \in Ids, pair \in Pairs, d \in Directions : Enter(id, pair, d)
  \/ \E p \in book : Leave(p)
  \/ Tick

Spec == Init /\ [][Next]_bookVars

=============================================================================

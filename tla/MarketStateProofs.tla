-------------------------- MODULE MarketStateProofs --------------------------
(***************************************************************************)
(* What MarketState promises for every set of symbols, list of pair-sets,  *)
(* prices and hours at which invocations happen.                           *)
(***************************************************************************)
EXTENDS MarketState, TLAPS

-----------------------------------------------------------------------------
(* Lemmas about buffers *)

\* The next 18:00 is an 18:00, in the future, and at most every 18:00 in the
\* future; the next session boundary is no later.
LEMMA Boundaries ==
  ASSUME NEW t \in Nat
  PROVE  /\ NextDailyBoundary(t) \in Nat /\ NextDailyBoundary(t) > t
         /\ NextDailyBoundary(t) % 24 = 18
         /\ NextSessionBoundary(t) \in Nat /\ NextSessionBoundary(t) > t
         /\ \A b \in Nat : b > t /\ b % 24 = 18 => NextSessionBoundary(t) <= b
<1>1. \A h \in {0, 6, 12, 18} :
        /\ NextOccurrence(t, h) \in Nat /\ NextOccurrence(t, h) > t
        /\ NextOccurrence(t, h) % 24 = h
  BY DEF NextOccurrence
<1>2. \A b \in Nat : b > t /\ b % 24 = 18 => NextOccurrence(t, 18) <= b
  BY DEF NextOccurrence
<1>3. /\ NextSessionBoundary(t) \in {NextOccurrence(t, 18), NextOccurrence(t, 0),
                                     NextOccurrence(t, 6), NextOccurrence(t, 12)}
      /\ NextSessionBoundary(t) <= NextOccurrence(t, 18)
  <2> DEFINE B == {NextOccurrence(t, 18), NextOccurrence(t, 0),
                   NextOccurrence(t, 6), NextOccurrence(t, 12)}
  <2>1. \E b \in B : \A c \in B : b <= c
    BY <1>1
  <2>2. NextSessionBoundary(t) = CHOOSE b \in B : \A c \in B : b <= c
    BY DEF NextSessionBoundary
  <2>3. NextSessionBoundary(t) \in B /\ \A c \in B : NextSessionBoundary(t) <= c
    <3> HIDE DEF B
    <3>1. QED
      BY <2>1, <2>2
  <2>4. QED
    BY <2>3
<1>4. QED
  BY <1>1, <1>2, <1>3 DEF NextDailyBoundary

\* An updated buffer is a running one that holds the price, and unless it was
\* restarted it has only widened.
LEMMA UpdatedBuffer ==
  ASSUME NEW buffer \in Buffers \cup {None}, NEW p \in Prices, NEW t \in Nat,
         NEW boundary \in Nat, boundary > t
  PROVE  LET new == UpdateBuffer(buffer, p, boundary, t)
         IN  /\ new \in Buffers /\ new # None
             /\ Holds(new, p) /\ new.resets_at > t
             /\ \/ /\ buffer # None /\ ~IsExpired(buffer, t)
                   /\ new.resets_at = buffer.resets_at
                   /\ new.high >= buffer.high /\ new.low <= buffer.low
                   /\ new.high = buffer.high \/ new.high = p
                   /\ new.low = buffer.low \/ new.low = p
                \/ /\ buffer = None \/ IsExpired(buffer, t)
                   /\ new = FreshBuffer(p, boundary)
<1>1. Prices \subseteq Nat
  BY SymbolsAssumption DEF Prices
<1>2. CASE buffer # None /\ ~IsExpired(buffer, t)
  <2>1. buffer \in Buffers
    BY <1>2
  <2>2. /\ buffer.high \in Prices /\ buffer.low \in Prices
        /\ buffer.resets_at \in Nat
        /\ UpdateBuffer(buffer, p, boundary, t) = Observe(buffer, p)
    BY <1>2, <2>1 DEF Buffers, UpdateBuffer
  <2>3. /\ Observe(buffer, p).high = IF p > buffer.high THEN p ELSE buffer.high
        /\ Observe(buffer, p).low = IF p < buffer.low THEN p ELSE buffer.low
        /\ Observe(buffer, p).resets_at = buffer.resets_at
        /\ Observe(buffer, p) \in Buffers
    BY <2>1, <2>2 DEF Observe, Buffers
  <2>4. buffer.high \in Nat /\ buffer.low \in Nat /\ p \in Nat
    BY <1>1, <2>2
  <2> DEFINE new == Observe(buffer, p)
  <2>5. /\ new \in Buffers /\ new # None
        /\ new.high >= buffer.high /\ new.low <= buffer.low
        /\ new.high = buffer.high \/ new.high = p
        /\ new.low = buffer.low \/ new.low = p
        /\ new.resets_at = buffer.resets_at
        /\ new.low <= p /\ p <= new.high
    <3>1. new # None
      BY <2>3, NoneAssumption
    <3>2. QED
      BY <2>3, <2>4, <3>1
  <2>6. new.resets_at > t
    BY <1>2, <2>2, <2>5 DEF IsExpired
  <2> HIDE DEF new
  <2>7. UpdateBuffer(buffer, p, boundary, t) = new
    BY <2>2 DEF new
  <2>8. QED
    BY <1>2, <2>5, <2>6, <2>7 DEF Holds
<1>3. CASE buffer = None \/ IsExpired(buffer, t)
  <2>1. UpdateBuffer(buffer, p, boundary, t) = FreshBuffer(p, boundary)
    BY <1>3 DEF UpdateBuffer
  <2>2. FreshBuffer(p, boundary) \in Buffers
    BY DEF FreshBuffer, Buffers
  <2>3. QED
    BY <1>1, <1>3, <2>1, <2>2, NoneAssumption DEF Holds, FreshBuffer
<1>4. QED
  BY <1>2, <1>3

-----------------------------------------------------------------------------
(* Lemmas about divergence *)

\* ADR 0001: the check treats the two assets alike. Swapping them swaps the
\* target and nothing else.
THEOREM DivergenceIsSymmetric ==
  ASSUME NEW p \in Int, NEW s \in Int,
         NEW pb \in [high : Int, low : Int], NEW sb \in [high : Int, low : Int]
  PROVE  LET one   == DetectDivergence(p, pb, s, sb)
             other == DetectDivergence(s, sb, p, pb)
         IN  \/ one = None /\ other = None
             \/ /\ one \in Divergences /\ other \in Divergences
                /\ one.dir = other.dir /\ one.target # other.target
BY DEF DetectDivergence, Divergences, Targets, Directions

\* "Always buy the stronger asset, always sell the weaker one": whenever the
\* check names an asset, that asset held its level in the direction at hand and
\* the other one swept past its own.
THEOREM HolderIsTraded ==
  ASSUME NEW p \in Int, NEW s \in Int,
         NEW pb \in [high : Int, low : Int], NEW sb \in [high : Int, low : Int],
         DetectDivergence(p, pb, s, sb) # None
  PROVE  LET d == DetectDivergence(p, pb, s, sb)
             held  == IF d.target = "Primary" THEN p ELSE s
             heldB == IF d.target = "Primary" THEN pb ELSE sb
             swept  == IF d.target = "Primary" THEN s ELSE p
             sweptB == IF d.target = "Primary" THEN sb ELSE pb
         IN  IF d.dir = "Buy" THEN held >= heldB.low /\ swept < sweptB.low
                              ELSE held <= heldB.high /\ swept > sweptB.high
BY DEF DetectDivergence

\* A price inside its own buffer sweeps nothing.
LEMMA InsideIsQuiet ==
  ASSUME NEW p \in Nat, NEW s \in Nat, NEW pb \in Buffers, NEW sb \in Buffers,
         Holds(pb, p), Holds(sb, s)
  PROVE  DetectDivergence(p, pb, s, sb) = None
<1>1. Prices \subseteq Nat
  BY SymbolsAssumption DEF Prices
<1>2. pb.low \in Nat /\ pb.high \in Nat /\ sb.low \in Nat /\ sb.high \in Nat
  BY <1>1 DEF Buffers
<1>3. QED
  BY <1>2 DEF DetectDivergence, Holds

-----------------------------------------------------------------------------
(* The invariant *)

LEMMA InitEstablishes == Init => IInv
<1> SUFFICES ASSUME Init PROVE IInv
  OBVIOUS
<1>1. Len(PairSets) \in Nat
  BY SymbolsAssumption
<1>2. TypeOK
  BY <1>1 DEF Init, TypeOK, NoBuffers, NothingFound, NoReadings, Prices
<1>3. IdleAtStart /\ UpToDate /\ DailyAnchored /\ SessionInsideDaily
      /\ NothingEverFires
  BY DEF Init, IdleAtStart, UpToDate, DailyAnchored, SessionInsideDaily, NothingEverFires,
         NoBuffers
<1>4. QED
  BY <1>2, <1>3 DEF IInv

\* The pair-set at hand names two symbols.
LEMMA PairSetSymbols ==
  ASSUME TypeOK, j <= Len(PairSets)
  PROVE  /\ PairSets[j].primary \in Symbols /\ PairSets[j].secondary \in Symbols
         /\ Len(PairSets) \in Nat /\ j \in 1..Len(PairSets)
<1>1. Len(PairSets) \in Nat /\ j \in 1..Len(PairSets)
  BY SymbolsAssumption DEF TypeOK
<1>2. PairSets[j] \in [primary : Symbols, secondary : Symbols]
  <2> DEFINE R == [primary : Symbols, secondary : Symbols]
  <2>1. PairSets \in Seq(R)
    BY SymbolsAssumption
  <2> HIDE DEF R
  <2>2. PairSets[j] \in R
    BY <1>1, <2>1
  <2>3. QED
    BY <2>2 DEF R
<1>3. QED
  BY <1>1, <1>2

LEMMA UpdateDailyStep ==
  ASSUME IInv, UpdateDaily
  PROVE  IInv'
<1> DEFINE s == SymbolAt(step)
           new == UpdateBuffer(daily[s], price[s], NextDailyBoundary(now), now)
<1>1. /\ pc = "market" /\ j <= Len(PairSets) /\ step \in {1, 2}
      /\ daily' = [daily EXCEPT ![s] = new]
      /\ step' = step + 1
      /\ UNCHANGED <<clock, session, before, pc, now, price, j, readings>>
  BY DEF UpdateDaily
<1>2. /\ s \in Symbols
      /\ s = IF step = 1 THEN PairSets[j].primary ELSE PairSets[j].secondary
      /\ PairSets[j].primary \in Symbols /\ PairSets[j].secondary \in Symbols
  BY <1>1, PairSetSymbols DEF SymbolAt, IInv
<1>3. /\ daily[s] \in Buffers \cup {None} /\ price[s] \in Prices /\ now \in Nat
      /\ clock \in Nat /\ now <= clock
  BY <1>2 DEF IInv, TypeOK, DailyAnchored
<1>4. /\ NextDailyBoundary(now) \in Nat /\ NextDailyBoundary(now) > now
      /\ NextDailyBoundary(now) % 24 = 18
  BY <1>3, Boundaries
<1>5. /\ new \in Buffers /\ new # None /\ Holds(new, price[s]) /\ new.resets_at > now
      /\ \/ /\ daily[s] # None /\ ~IsExpired(daily[s], now)
            /\ new.resets_at = daily[s].resets_at
            /\ new.high >= daily[s].high /\ new.low <= daily[s].low
         \/ /\ daily[s] = None \/ IsExpired(daily[s], now)
            /\ new = FreshBuffer(price[s], NextDailyBoundary(now))
  BY <1>3, <1>4, UpdatedBuffer
<1>6. new.resets_at % 24 = 18
  <2>1. daily[s] # None => daily[s].resets_at % 24 = 18
    BY <1>2 DEF IInv, DailyAnchored
  <2>2. FreshBuffer(price[s], NextDailyBoundary(now)).resets_at % 24 = 18
    BY <1>4 DEF FreshBuffer
  <2> HIDE DEF new, s
  <2>3. QED
    BY <1>5, <2>1, <2>2
<1> HIDE DEF new
<1>7. /\ daily'[s] = new
      /\ \A x \in Symbols : x # s => daily'[x] = daily[x]
      /\ daily' \in [Symbols -> Buffers \cup {None}]
  BY <1>1, <1>2, <1>5 DEF IInv, TypeOK
<1> HIDE DEF s
<1>8. TypeOK'
  BY <1>1, <1>7 DEF IInv, TypeOK
<1>9. UpToDate'
  BY <1>1, <1>2, <1>5, <1>7 DEF IInv, UpToDate
<1>10. DailyAnchored'
  BY <1>1, <1>2, <1>5, <1>6, <1>7 DEF IInv, DailyAnchored
<1>11. SessionInsideDaily'
  <2>1. SUFFICES ASSUME NEW x \in Symbols,
                        session[x] # None, ~IsExpired(session[x], clock)
                 PROVE  /\ daily'[x] # None
                        /\ session[x].resets_at <= daily'[x].resets_at
                        /\ daily'[x].low <= session[x].low
                        /\ session[x].high <= daily'[x].high
    BY <1>1 DEF SessionInsideDaily, IsExpired
  <2>2. /\ daily[x] # None /\ session[x].resets_at <= daily[x].resets_at
        /\ daily[x].low <= session[x].low /\ session[x].high <= daily[x].high
    BY <2>1 DEF IInv, SessionInsideDaily
  <2>3. CASE x # s
    BY <1>7, <2>2, <2>3
  <2>4. CASE x = s
    <3>1. ~IsExpired(daily[s], now)
      <4>1. daily[s] \in Buffers /\ session[s] \in Buffers
        BY <1>2, <2>1, <2>2, <2>4 DEF IInv, TypeOK
      <4>2. QED
        BY <1>3, <2>1, <2>2, <2>4, <4>1 DEF IsExpired, Buffers
    <3>2. /\ new.resets_at = daily[s].resets_at
          /\ new.high >= daily[s].high /\ new.low <= daily[s].low
      BY <1>5, <2>2, <2>4, <3>1
    <3>3. /\ new.high \in Nat /\ new.low \in Nat
          /\ daily[s].high \in Nat /\ daily[s].low \in Nat
          /\ session[s].high \in Nat /\ session[s].low \in Nat
      <4>1. Prices \subseteq Nat
        BY SymbolsAssumption DEF Prices
      <4>2. daily[s] \in Buffers /\ session[s] \in Buffers
        BY <1>2, <2>1, <2>2, <2>4 DEF IInv, TypeOK
      <4>3. QED
        BY <1>5, <4>1, <4>2 DEF Buffers
    <3>4. QED
      BY <1>5, <1>7, <2>2, <2>4, <3>2, <3>3 DEF IsExpired
  <2>5. QED
    BY <2>3, <2>4
<1>12. NothingEverFires' /\ IdleAtStart'
  BY <1>1 DEF IInv, NothingEverFires, NoReadings, IdleAtStart
<1>13. QED
  BY <1>8, <1>9, <1>10, <1>11, <1>12 DEF IInv

LEMMA UpdateSessionStep ==
  ASSUME IInv, UpdateSession
  PROVE  IInv'
<1> DEFINE s == SymbolAt(step)
           new == UpdateBuffer(session[s], price[s], NextSessionBoundary(now), now)
<1>1. /\ pc = "market" /\ j <= Len(PairSets) /\ step \in {3, 4}
      /\ session' = [session EXCEPT ![s] = new]
      /\ step' = step + 1
      /\ UNCHANGED <<clock, daily, before, pc, now, price, j, readings>>
  BY DEF UpdateSession
<1>2. /\ s \in Symbols
      /\ s = IF step = 3 THEN PairSets[j].primary ELSE PairSets[j].secondary
      /\ PairSets[j].primary \in Symbols /\ PairSets[j].secondary \in Symbols
  BY <1>1, PairSetSymbols DEF SymbolAt, IInv
<1>3. /\ session[s] \in Buffers \cup {None} /\ price[s] \in Prices /\ now \in Nat
      /\ clock \in Nat /\ now <= clock
  BY <1>2 DEF IInv, TypeOK, DailyAnchored
<1>4. /\ NextSessionBoundary(now) \in Nat /\ NextSessionBoundary(now) > now
      /\ \A b \in Nat : b > now /\ b % 24 = 18 => NextSessionBoundary(now) <= b
  BY <1>3, Boundaries
<1>5. /\ new \in Buffers /\ new # None /\ Holds(new, price[s]) /\ new.resets_at > now
      /\ \/ /\ session[s] # None /\ ~IsExpired(session[s], now)
            /\ new.resets_at = session[s].resets_at
            /\ new.high = session[s].high \/ new.high = price[s]
            /\ new.low = session[s].low \/ new.low = price[s]
         \/ /\ session[s] = None \/ IsExpired(session[s], now)
            /\ new = FreshBuffer(price[s], NextSessionBoundary(now))
  BY <1>3, <1>4, UpdatedBuffer
<1>6. /\ daily[s] \in Buffers /\ daily[s] # None
      /\ Holds(daily[s], price[s]) /\ daily[s].resets_at > now
      /\ daily[s].resets_at % 24 = 18
  <2>1. daily[s] # None /\ Holds(daily[s], price[s]) /\ daily[s].resets_at > now
    BY <1>1, <1>2 DEF IInv, UpToDate, DailyAnchored
  <2>2. QED
    BY <1>2, <2>1 DEF IInv, TypeOK, DailyAnchored
<1> HIDE DEF new
<1>7. /\ session'[s] = new
      /\ \A x \in Symbols : x # s => session'[x] = session[x]
      /\ session' \in [Symbols -> Buffers \cup {None}]
  BY <1>1, <1>2, <1>5 DEF IInv, TypeOK
<1> HIDE DEF s
<1>8. TypeOK'
  BY <1>1, <1>7 DEF IInv, TypeOK
<1>9. UpToDate'
  BY <1>1, <1>2, <1>5, <1>7 DEF IInv, UpToDate
<1>10. DailyAnchored'
  BY <1>1, <1>2 DEF IInv, DailyAnchored
<1>11. SessionInsideDaily'
  <2>1. SUFFICES ASSUME NEW x \in Symbols,
                        session'[x] # None, ~IsExpired(session'[x], clock)
                 PROVE  /\ daily[x] # None
                        /\ session'[x].resets_at <= daily[x].resets_at
                        /\ daily[x].low <= session'[x].low
                        /\ session'[x].high <= daily[x].high
    BY <1>1 DEF SessionInsideDaily, IsExpired
  <2>2. CASE x # s
    BY <1>7, <2>1, <2>2 DEF IInv, SessionInsideDaily, IsExpired
  <2>3. CASE x = s
    <3>1. clock < new.resets_at
      BY <1>3, <1>5, <1>7, <2>1, <2>3 DEF IsExpired, Buffers
    <3>2. CASE /\ session[s] # None /\ ~IsExpired(session[s], now)
               /\ new.resets_at = session[s].resets_at
               /\ new.high = session[s].high \/ new.high = price[s]
               /\ new.low = session[s].low \/ new.low = price[s]
      <4>1. /\ session[s].resets_at <= daily[s].resets_at
            /\ daily[s].low <= session[s].low /\ session[s].high <= daily[s].high
        BY <1>2, <1>3, <1>5, <3>1, <3>2
           DEF IInv, SessionInsideDaily, IsExpired, Buffers
      <4>2. QED
        BY <1>6, <1>7, <2>3, <3>2, <4>1 DEF Holds
    <3>3. CASE new = FreshBuffer(price[s], NextSessionBoundary(now))
      <4>1. /\ new.high = price[s] /\ new.low = price[s]
            /\ new.resets_at = NextSessionBoundary(now)
        BY <3>3 DEF FreshBuffer
      <4>2. daily[s].resets_at \in Nat /\ NextSessionBoundary(now) <= daily[s].resets_at
        BY <1>4, <1>6 DEF Buffers
      <4>3. QED
        BY <1>6, <1>7, <2>3, <4>1, <4>2 DEF Holds
    <3>4. QED
      BY <1>5, <3>2, <3>3
  <2>4. QED
    BY <2>2, <2>3
<1>12. NothingEverFires' /\ IdleAtStart'
  BY <1>1 DEF IInv, NothingEverFires, NoReadings, IdleAtStart
<1>13. QED
  BY <1>8, <1>9, <1>10, <1>11, <1>12 DEF IInv

LEMMA DetectStep ==
  ASSUME IInv, Detect
  PROVE  IInv'
<1> DEFINE p == PairSets[j].primary
           s == PairSets[j].secondary
<1>1. /\ pc = "market" /\ j <= Len(PairSets) /\ step = 5
      /\ j' = j + 1 /\ step' = 1
      /\ UNCHANGED <<clock, daily, session, before, pc, now, price>>
  BY DEF Detect, files
<1>2. p \in Symbols /\ s \in Symbols /\ Len(PairSets) \in Nat /\ j \in 1..Len(PairSets)
  BY <1>1, PairSetSymbols DEF IInv
<1>3. ResolvedDivergence(PairSets[j], daily, session) = None
  <2>1. /\ daily[p] \in Buffers /\ Holds(daily[p], price[p])
        /\ daily[s] \in Buffers /\ Holds(daily[s], price[s])
        /\ session[p] \in Buffers /\ Holds(session[p], price[p])
        /\ session[s] \in Buffers /\ Holds(session[s], price[s])
    <3>1. /\ daily[p] # None /\ Holds(daily[p], price[p])
          /\ daily[s] # None /\ Holds(daily[s], price[s])
          /\ session[p] # None /\ Holds(session[p], price[p])
          /\ session[s] # None /\ Holds(session[s], price[s])
      BY <1>1 DEF IInv, UpToDate
    <3>2. QED
      BY <1>2, <3>1 DEF IInv, TypeOK
  <2>2. price[p] \in Nat /\ price[s] \in Nat
    <3>1. Prices \subseteq Nat
      BY SymbolsAssumption DEF Prices
    <3>2. QED
      BY <1>2, <3>1 DEF IInv, TypeOK
  <2>3. /\ DetectDivergence(price[p], daily[p], price[s], daily[s]) = None
        /\ DetectDivergence(price[p], session[p], price[s], session[s]) = None
    BY <2>1, <2>2, InsideIsQuiet
  <2>4. QED
    BY <2>3 DEF ResolvedDivergence, EvaluateSmt
<1>4. readings' = readings
  BY <1>2, <1>3 DEF Detect, IInv, NothingEverFires, NoReadings
<1>5. TypeOK'
  BY <1>1, <1>2, <1>4 DEF IInv, TypeOK
<1>6. UpToDate' /\ DailyAnchored' /\ SessionInsideDaily' /\ NothingEverFires'
      /\ IdleAtStart'
  BY <1>1, <1>4 DEF IdleAtStart, IInv, UpToDate, DailyAnchored, SessionInsideDaily,
                    NothingEverFires, NoReadings
<1>7. QED
  BY <1>5, <1>6 DEF IInv

\* The steps that leave every buffer alone.
LEMMA OtherSteps ==
  ASSUME IInv, Snapshot \/ Finish \/ Fail \/ Tick \/ UNCHANGED vars
  PROVE  IInv'
<1>1. CASE Snapshot
  <2>1. /\ pc = "idle" /\ pc' = "market" /\ now' = clock
        /\ price' \in [Symbols -> Prices]
        /\ before' = [daily |-> daily, session |-> session]
        /\ UNCHANGED <<clock, daily, session, j, step, readings>>
    BY <1>1 DEF Snapshot, files
  <2>2. TypeOK'
    BY <2>1 DEF IInv, TypeOK
  <2>3. step = 1
    BY <2>1 DEF IInv, IdleAtStart
  <2>4. UpToDate' /\ DailyAnchored' /\ SessionInsideDaily' /\ NothingEverFires'
    BY <2>1, <2>3 DEF IInv, TypeOK, UpToDate, DailyAnchored, SessionInsideDaily,
                      NothingEverFires, NoReadings
  <2>5. QED
    BY <2>1, <2>2, <2>4 DEF IInv, IdleAtStart
<1>2. CASE Finish \/ Fail
  <2>1. UNCHANGED <<clock, daily, session>> /\ Idle
    BY <1>2 DEF Finish, Fail, files
  <2>2. TypeOK'
    BY <2>1, SymbolsAssumption
       DEF Idle, IInv, TypeOK, NoBuffers, NothingFound, NoReadings, Prices
  <2>3. UpToDate' /\ DailyAnchored' /\ SessionInsideDaily' /\ NothingEverFires'
        /\ IdleAtStart'
    BY <2>1 DEF Idle, IdleAtStart, IInv, TypeOK, UpToDate, DailyAnchored, SessionInsideDaily,
                NothingEverFires, NoReadings
  <2>4. QED
    BY <2>2, <2>3 DEF IInv
<1>3. CASE Tick
  <2>1. /\ clock' \in Nat /\ clock' > clock
        /\ UNCHANGED <<daily, session, before, pc, now, price, j, step, readings>>
    BY <1>3, SymbolsAssumption DEF Tick, files
  <2>2. TypeOK' /\ UpToDate' /\ NothingEverFires' /\ IdleAtStart'
    BY <2>1 DEF IInv, IdleAtStart, TypeOK, UpToDate, NothingEverFires, NoReadings
  <2>3. DailyAnchored'
    BY <2>1 DEF IInv, TypeOK, DailyAnchored
  <2>4. SessionInsideDaily'
    <3>1. \A x \in Symbols : session[x] # None => session[x].resets_at \in Nat
      BY DEF IInv, TypeOK, Buffers
    <3>2. \A x \in Symbols : session[x] # None /\ ~IsExpired(session[x], clock')
                              => ~IsExpired(session[x], clock)
      BY <2>1, <3>1 DEF IsExpired, IInv, TypeOK
    <3>3. QED
      BY <2>1, <3>2 DEF IInv, SessionInsideDaily
  <2>5. QED
    BY <2>2, <2>3, <2>4 DEF IInv
<1>4. CASE UNCHANGED vars
  BY <1>4 DEF vars, IInv, TypeOK, IdleAtStart, UpToDate, DailyAnchored, SessionInsideDaily,
              NothingEverFires, NoReadings
<1>5. QED
  BY <1>1, <1>2, <1>3, <1>4

THEOREM InductiveInvariant == Spec => []IInv
<1>1. IInv /\ [Next]_vars => IInv'
  BY UpdateDailyStep, UpdateSessionStep, DetectStep, OtherSteps DEF Next
<1>2. QED
  BY <1>1, InitEstablishes, PTL DEF Spec

\* No pair-set ever resolves a divergence, whatever the prices do: the strategy,
\* as run_real_cycle feeds it, never signals.
THEOREM NoSignalEver == Spec => []NothingEverFires
<1>1. IInv => NothingEverFires
  BY DEF IInv
<1>2. QED
  BY <1>1, InductiveInvariant, PTL

\* A session buffer always lies within its daily buffer, crashes included.
THEOREM SessionsInsideDays == Spec => []SessionInsideDaily
<1>1. IInv => SessionInsideDaily
  BY DEF IInv
<1>2. QED
  BY <1>1, InductiveInvariant, PTL

\* Every variable always has its type.
THEOREM TypeCorrect == Spec => []TypeOK
<1>1. IInv => TypeOK
  BY DEF IInv
<1>2. QED
  BY <1>1, InductiveInvariant, PTL

\* An update widens a running buffer and restarts an expired one.
LEMMA UpdateWidens ==
  ASSUME NEW buffer \in Buffers \cup {None}, NEW p \in Prices, NEW boundary \in Nat,
         now \in Nat, boundary > now
  PROVE  Widens(buffer, UpdateBuffer(buffer, p, boundary, now))
<1> DEFINE new == UpdateBuffer(buffer, p, boundary, now)
<1>1. /\ new \in Buffers /\ new.resets_at > now
      /\ \/ /\ buffer # None /\ ~IsExpired(buffer, now)
            /\ new.resets_at = buffer.resets_at
            /\ new.high >= buffer.high /\ new.low <= buffer.low
         \/ /\ buffer = None \/ IsExpired(buffer, now)
            /\ new = FreshBuffer(p, boundary)
  BY UpdatedBuffer
<1>2. new.resets_at \in Nat
  BY <1>1 DEF Buffers
<1> HIDE DEF new
<1>3. CASE buffer # None /\ ~IsExpired(buffer, now)
  BY <1>1, <1>3 DEF Widens, new
<1>4. CASE buffer # None /\ IsExpired(buffer, now)
  <2>1. new.high = new.low
    BY <1>1, <1>4 DEF FreshBuffer
  <2>2. ~IsExpired(new, now)
    BY <1>1, <1>2 DEF IsExpired
  <2>3. QED
    BY <1>4, <2>1, <2>2 DEF Widens, new
<1>5. CASE buffer = None
  BY <1>5 DEF Widens
<1>6. QED
  BY <1>3, <1>4, <1>5

\* A buffer only ever widens within its day or session, and restarts after it.
THEOREM RangesOnlyWiden == Spec => BuffersOnlyWiden
<1> DEFINE A == \A s \in Symbols : Widens(daily[s], daily'[s])
                                  /\ Widens(session[s], session'[s])
<1>1. IInv /\ [Next]_vars => [A]_vars
  <2> SUFFICES ASSUME IInv, [Next]_vars, NEW s \in Symbols
               PROVE  Widens(daily[s], daily'[s]) /\ Widens(session[s], session'[s])
    OBVIOUS
  <2>1. \A old : Widens(old, old)
    BY DEF Widens
  <2>2. /\ daily \in [Symbols -> Buffers \cup {None}]
        /\ session \in [Symbols -> Buffers \cup {None}]
        /\ price \in [Symbols -> Prices] /\ now \in Nat
    BY DEF IInv, TypeOK
  <2>3. /\ NextDailyBoundary(now) \in Nat /\ NextDailyBoundary(now) > now
        /\ NextSessionBoundary(now) \in Nat /\ NextSessionBoundary(now) > now
    BY <2>2, Boundaries
  <2>4. CASE UpdateDaily
    <3> DEFINE x == SymbolAt(step)
    <3>1. x \in Symbols
      BY <2>4, PairSetSymbols DEF UpdateDaily, SymbolAt, IInv
    <3>2. /\ session' = session
          /\ daily' = [daily EXCEPT ![x] =
                UpdateBuffer(daily[x], price[x], NextDailyBoundary(now), now)]
      BY <2>4 DEF UpdateDaily
    <3> HIDE DEF x
    <3>3. Widens(daily[x], UpdateBuffer(daily[x], price[x], NextDailyBoundary(now), now))
      BY <2>2, <2>3, <3>1, UpdateWidens
    <3>4. QED
      BY <2>1, <2>2, <3>1, <3>2, <3>3
  <2>5. CASE UpdateSession
    <3> DEFINE x == SymbolAt(step)
    <3>1. x \in Symbols
      BY <2>5, PairSetSymbols DEF UpdateSession, SymbolAt, IInv
    <3>2. /\ daily' = daily
          /\ session' = [session EXCEPT ![x] =
                UpdateBuffer(session[x], price[x], NextSessionBoundary(now), now)]
      BY <2>5 DEF UpdateSession
    <3> HIDE DEF x
    <3>3. Widens(session[x],
                 UpdateBuffer(session[x], price[x], NextSessionBoundary(now), now))
      BY <2>2, <2>3, <3>1, UpdateWidens
    <3>4. QED
      BY <2>1, <2>2, <3>1, <3>2, <3>3
  <2>6. CASE Snapshot \/ Detect \/ Finish \/ Fail \/ Tick \/ UNCHANGED vars
    BY <2>1, <2>6 DEF Snapshot, Detect, Finish, Fail, Tick, files, vars
  <2>7. QED
    BY <2>4, <2>5, <2>6 DEF Next
<1>2. QED
  BY <1>1, InductiveInvariant, PTL DEF Spec, BuffersOnlyWiden

=============================================================================

----------------------------- MODULE MarketState -----------------------------
(***************************************************************************)
(* The market state of run_real_cycle: the daily and the session buffer of *)
(* each symbol (strategy/src/buffers.rs), one file each, updated with the  *)
(* price of this invocation and then handed to evaluate_smt                *)
(* (strategy/src/smt.rs), pair-set by pair-set.                            *)
(*                                                                         *)
(* Time is in hours, New York local time, hour 0 a midnight; daylight      *)
(* saving is left out. A snapshot file is replaced atomically. Prices are  *)
(* integers; a symbol the snapshot has no quote for is priced 0, as the    *)
(* code prices it. Correlation windows and spread histories, which         *)
(* evaluate_smt does not look at, are left out.                            *)
(***************************************************************************)
EXTENDS Integers, Sequences

CONSTANTS
  Symbols,
  Quotes,      \* prices a broker quotes
  PairSets,    \* config.pairs: a sequence of [primary, secondary]
  Instants,    \* bound: the hours at which something happens
  None         \* Option::None

ASSUME SymbolsAssumption ==
  /\ PairSets \in Seq([primary : Symbols, secondary : Symbols])
  /\ Len(PairSets) > 0
  /\ Quotes \subseteq Nat \ {0}
  /\ Instants \subseteq Nat

VARIABLES
  clock,
  daily,      \* buffer_daily_{symbol}.json
  session,    \* buffer_session_{symbol}.json
  before,     \* history: the two maps above as the invocation found them
  pc,         \* "idle", or "market" while run_real_cycle loops over the pair-sets
  now,        \* the local variable now
  price,      \* the bid of each symbol in the snapshot
  j,          \* the pair-set the loop is at
  step,       \* 1..4: the buffer to update next; 5: evaluate_smt
  readings    \* resolved_divergence of the pair-sets done

files == <<daily, session>>
vars  == <<clock, daily, session, before, pc, now, price, j, step, readings>>

-----------------------------------------------------------------------------
(* Data *)

Targets    == {"Primary", "Secondary"}
Directions == {"Buy", "Sell"}
Tiers      == {"Tier1", "Tier2", "Double"}

Prices      == Quotes \cup {0}
Buffers     == [high : Prices, low : Prices, resets_at : Nat]
Divergences == [target : Targets, dir : Directions]
Readings    == [pair : Symbols, dir : Directions, tier : Tiers]

ASSUME NoneAssumption == None \notin Buffers \cup Readings

TypeOK ==
  /\ clock \in Nat
  /\ daily \in [Symbols -> Buffers \cup {None}]
  /\ session \in [Symbols -> Buffers \cup {None}]
  /\ before \in [daily   : [Symbols -> Buffers \cup {None}],
                 session : [Symbols -> Buffers \cup {None}]]
  /\ pc \in {"idle", "market"}
  /\ now \in Nat
  /\ price \in [Symbols -> Prices]
  /\ j \in 1..(Len(PairSets) + 1)
  /\ step \in 1..5
  /\ readings \in [1..Len(PairSets) -> Readings \cup {None}]

-----------------------------------------------------------------------------
(* Buffers *)

\* next_ny_occurrence without a weekday: the next hour:00, strictly later.
NextOccurrence(t, hour) ==
  LET today == t - (t % 24) + hour
  IN  IF t % 24 >= hour THEN today + 24 ELSE today

NextDailyBoundary(t) == NextOccurrence(t, 18)

NextSessionBoundary(t) ==
  LET boundaries == {NextOccurrence(t, 18), NextOccurrence(t, 0),
                     NextOccurrence(t, 6), NextOccurrence(t, 12)}
  IN  CHOOSE b \in boundaries : \A c \in boundaries : b <= c

IsExpired(buffer, t) == t >= buffer.resets_at

FreshBuffer(p, boundary) == [high |-> p, low |-> p, resets_at |-> boundary]

\* RollingBuffer::observe
Observe(buffer, p) ==
  [buffer EXCEPT !.high = IF p > @ THEN p ELSE @,
                 !.low  = IF p < @ THEN p ELSE @]

\* Variant: an expired buffer widened once more before it restarts.
UpdateBuffer_OffByOne(buffer, p, boundary, t) ==
  IF buffer # None /\ t <= buffer.resets_at THEN Observe(buffer, p)
                                            ELSE FreshBuffer(p, boundary)

\* update_daily_buffer, update_session_buffer
UpdateBuffer(buffer, p, boundary, t) ==
  IF buffer # None /\ ~IsExpired(buffer, t) THEN Observe(buffer, p)
                                           ELSE FreshBuffer(p, boundary)

-----------------------------------------------------------------------------
(* SMT divergence *)

\* p, s: the prices of primary and secondary; pb, sb: their buffers. The one that
\* held its level while the other swept past it is the one to trade.
DetectDivergence(p, pb, s, sb) ==
  LET pLow  == p < pb.low    sLow  == s < sb.low
      pHigh == p > pb.high   sHigh == s > sb.high
  IN  IF pLow # sLow
      THEN [target |-> IF pLow THEN "Secondary" ELSE "Primary", dir |-> "Buy"]
      ELSE IF pHigh # sHigh
      THEN [target |-> IF pHigh THEN "Secondary" ELSE "Primary", dir |-> "Sell"]
      ELSE None

\* Daily wins; a session that agrees with it on both target and direction makes
\* it Double, a session alone is Tier2.
EvaluateSmt(onDaily, onSession) ==
  IF onDaily # None
  THEN [target |-> onDaily.target, dir |-> onDaily.dir,
        tier |-> IF onSession = onDaily THEN "Double" ELSE "Tier1"]
  ELSE IF onSession # None
  THEN [target |-> onSession.target, dir |-> onSession.dir, tier |-> "Tier2"]
  ELSE None

\* The reading of a pair-set against given buffers.
ResolvedDivergence(pairSet, dailyOf, sessionOf) ==
  LET p == pairSet.primary   s == pairSet.secondary
      smt == EvaluateSmt(
               DetectDivergence(price[p], dailyOf[p], price[s], dailyOf[s]),
               DetectDivergence(price[p], sessionOf[p], price[s], sessionOf[s]))
  IN  IF smt = None THEN None
      ELSE [pair |-> IF smt.target = "Primary" THEN p ELSE s,
            dir  |-> smt.dir, tier |-> smt.tier]

-----------------------------------------------------------------------------
(* An invocation *)

NoReadings == [i \in 1..Len(PairSets) |-> None]
NoBuffers  == [s \in Symbols |-> None]
NothingFound == [daily |-> NoBuffers, session |-> NoBuffers]

Idle ==
  /\ pc' = "idle" /\ now' = 0 /\ j' = 1 /\ step' = 1
  /\ price' = [s \in Symbols |-> 0]
  /\ readings' = NoReadings
  /\ before' = NothingFound

Init ==
  /\ clock = 0
  /\ daily = NoBuffers /\ session = NoBuffers /\ before = NothingFound
  /\ pc = "idle" /\ now = 0 /\ j = 1 /\ step = 1
  /\ price = [s \in Symbols |-> 0]
  /\ readings = NoReadings

\* Variant: a missing quote left missing.
Snapshot_MissingQuotes ==
  /\ pc = "idle"
  /\ pc' = "market"
  /\ now' = clock
  /\ price' \in [Symbols -> Quotes \cup {None}]
  /\ before' = [daily |-> daily, session |-> session]
  /\ UNCHANGED <<clock, files, j, step, readings>>

\* The snapshot has arrived and now has been read.
Snapshot ==
  /\ pc = "idle"
  /\ pc' = "market"
  /\ now' = clock
  /\ price' \in [Symbols -> Prices]
  /\ before' = [daily |-> daily, session |-> session]
  /\ UNCHANGED <<clock, files, j, step, readings>>

\* Variant: the secondary's daily buffer forgotten.
SymbolAt_PrimaryTwice(n) ==
  IF n \in {1, 2, 3} THEN PairSets[j].primary ELSE PairSets[j].secondary

\* The symbol whose buffer a step updates: primary first, then secondary.
SymbolAt(n) == IF n \in {1, 3} THEN PairSets[j].primary ELSE PairSets[j].secondary

UpdateDaily ==
  /\ pc = "market" /\ j <= Len(PairSets) /\ step \in {1, 2}
  /\ LET s == SymbolAt(step)
     IN  daily' = [daily EXCEPT ![s] =
                     UpdateBuffer(@, price[s], NextDailyBoundary(now), now)]
  /\ step' = step + 1
  /\ UNCHANGED <<clock, session, before, pc, now, price, j, readings>>

UpdateSession ==
  /\ pc = "market" /\ j <= Len(PairSets) /\ step \in {3, 4}
  /\ LET s == SymbolAt(step)
     IN  session' = [session EXCEPT ![s] =
                       UpdateBuffer(@, price[s], NextSessionBoundary(now), now)]
  /\ step' = step + 1
  /\ UNCHANGED <<clock, daily, before, pc, now, price, j, readings>>

\* Variant: evaluate_smt against the buffers as the invocation found them.
Detect_BuffersAsFound ==
  /\ pc = "market" /\ j <= Len(PairSets) /\ step = 5
  /\ LET p == PairSets[j].primary  s == PairSets[j].secondary
         found == {before.daily[p], before.daily[s],
                   before.session[p], before.session[s]}
     IN  readings' = IF None \in found THEN readings
                     ELSE [readings EXCEPT ![j] =
                        ResolvedDivergence(PairSets[j], before.daily, before.session)]
  /\ j' = j + 1 /\ step' = 1
  /\ UNCHANGED <<clock, files, before, pc, now, price>>

\* The four local buffers are the ones just written to the files.
Detect ==
  /\ pc = "market" /\ j <= Len(PairSets) /\ step = 5
  /\ readings' = [readings EXCEPT ![j] =
                    ResolvedDivergence(PairSets[j], daily, session)]
  /\ j' = j + 1 /\ step' = 1
  /\ UNCHANGED <<clock, files, before, pc, now, price>>

\* The rest of the invocation leaves the buffers alone.
Finish ==
  /\ pc = "market" /\ j = Len(PairSets) + 1
  /\ Idle
  /\ UNCHANGED <<clock, files>>

\* A `?` on a read or a write, or the end of the process.
Fail ==
  /\ pc = "market"
  /\ Idle
  /\ UNCHANGED <<clock, files>>

Tick ==
  /\ clock' \in {t \in Instants : t > clock}
  /\ UNCHANGED <<files, before, pc, now, price, j, step, readings>>

Next ==
  \/ Snapshot
  \/ UpdateDaily \/ UpdateSession \/ Detect
  \/ Finish \/ Fail
  \/ Tick

Spec == Init /\ [][Next]_vars

-----------------------------------------------------------------------------
(* Properties *)

Holds(buffer, p) == buffer.low <= p /\ p <= buffer.high

\* A buffer of the running session lies within the buffer of the running day: the
\* two are separate files, written in separate steps with a crash possible in
\* between, and expire on separate clocks, but a session never outlives its day
\* and never knows of a range the day has not seen.
SessionInsideDaily ==
  \A s \in Symbols :
    session[s] # None /\ ~IsExpired(session[s], clock) =>
      /\ daily[s] # None /\ session[s].resets_at <= daily[s].resets_at
      /\ daily[s].low <= session[s].low /\ session[s].high <= daily[s].high

\* Before its boundary a buffer only widens, and from its boundary on nothing of
\* the old range survives an update.
Widens(old, new) ==
  old # None /\ new # old =>
    IF IsExpired(old, now)
    THEN new.high = new.low /\ ~IsExpired(new, now)
    ELSE new.high >= old.high /\ new.low <= old.low /\ new.resets_at = old.resets_at

BuffersOnlyWiden ==
  [][\A s \in Symbols : Widens(daily[s], daily'[s]) /\ Widens(session[s], session'[s])]_vars

\* No pair-set ever resolves a divergence. evaluate_smt compares a price with
\* buffers that already include that price, so neither asset is ever seen to
\* sweep: the entry loop answers no_divergence for every pair-set.
NothingEverFires == readings = NoReadings

-----------------------------------------------------------------------------
(* What the code says of itself *)

\* smt.rs: a signal fires when one of the two sweeps past its buffer while the
\* other does not confirm. The buffers here are the ones previous invocations of
\* the same day and session have built.
SweepFires ==
  \A i \in 1..(j - 1) :
    LET p == PairSets[i].primary  s == PairSets[i].secondary
        found == {before.daily[p], before.daily[s],
                  before.session[p], before.session[s]}
    IN  /\ None \notin found
        /\ \A b \in found : ~IsExpired(b, now)
        /\ ResolvedDivergence(PairSets[i], before.daily, before.session) # None
        => readings[i] # None

-----------------------------------------------------------------------------
(* The inductive invariant *)

\* The buffers updated so far for the pair-set at hand hold the price.
UpToDate ==
  pc = "market" /\ j <= Len(PairSets) =>
    LET p == PairSets[j].primary  s == PairSets[j].secondary
    IN  /\ step > 1 => daily[p] # None /\ Holds(daily[p], price[p])
        /\ step > 2 => daily[s] # None /\ Holds(daily[s], price[s])
        /\ step > 3 => session[p] # None /\ Holds(session[p], price[p])
        /\ step > 4 => session[s] # None /\ Holds(session[s], price[s])

\* A daily buffer ends at an 18:00, and once updated it ends in the future, so no
\* earlier than the session that is running now.
DailyAnchored ==
  /\ now <= clock
  /\ \A s \in Symbols : daily[s] # None => daily[s].resets_at % 24 = 18
  /\ pc = "market" /\ j <= Len(PairSets) =>
       LET p == PairSets[j].primary  s == PairSets[j].secondary
       IN  /\ step > 1 => daily[p] # None /\ daily[p].resets_at > now
           /\ step > 2 => daily[s] # None /\ daily[s].resets_at > now

IdleAtStart == pc = "idle" => step = 1

IInv ==
  /\ TypeOK
  /\ IdleAtStart
  /\ UpToDate
  /\ DailyAnchored
  /\ SessionInsideDaily
  /\ NothingEverFires

=============================================================================

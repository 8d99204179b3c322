------------------------------ MODULE TrueOpen ------------------------------
(***************************************************************************)
(* True Open levels: the entry loop of run_real_cycle loads the weekly and *)
(* the daily level, captures one where none is valid                       *)
(* (load_or_capture_bias, true_open_capture.rs), and lets a signal pass    *)
(* only in the direction they imply (true_open_gate). Two files hold the   *)
(* levels; the scheduled job pushes them after an invocation that          *)
(* succeeded.                                                              *)
(*                                                                         *)
(* Time is in seconds, UTC, with New York's daylight saving (Calendar).    *)
(* The signal's direction, the spread filter and the health state are      *)
(* inputs. The files are replaced atomically (see StateFiles).             *)
(***************************************************************************)
EXTENDS Calendar, Sequences

CONSTANTS
  Symbols,
  Primaries,   \* the primary of each of config.pairs
  Quotes,      \* prices a broker quotes
  Instants,    \* bound: the times at which something happens
  None         \* Option::None

Timeframes == {"weekly", "daily"}
Directions == {"Buy", "Sell"}
Biases     == Directions \cup {"Neutral"}
Prices     == Quotes \cup {0}      \* 0: no quote for the symbol in the snapshot

Levels == [symbol : Symbols, level : Prices, set_at : Instants, expires_at : Nat]

ASSUME TrueOpenAssumption ==
  /\ Primaries \in Seq(Symbols) /\ Len(Primaries) > 0
  /\ Quotes \subseteq Nat \ {0}
  /\ Instants \subseteq Nat /\ Instants # {}
  /\ None \notin Levels \cup Directions

\* Calendar counts leap years as they fall until 2099.
ASSUME YearsAssumption == \A t \in Instants : DateAt(t) < DateOf(2100, 1, 1)

VARIABLES
  now,       \* the time; an invocation reads it once, after its snapshot
  files,     \* true_open_weekly.json and true_open_daily.json
  repo,      \* both as last pushed
  pc,        \* "idle", or what the entry loop does next
  price,     \* the bid of each symbol in the snapshot
  i,         \* the pair-set the loop is at
  read,      \* the levels loaded for this pair-set
  entry      \* the direction just let through for pair-set i, or None

vars == <<now, files, repo, pc, price, i, read, entry>>

NoLevels == [tf \in Timeframes |-> None]

TypeOK ==
  /\ now \in Instants
  /\ files \in [Timeframes -> Levels \cup {None}]
  /\ repo \in [Timeframes -> Levels \cup {None}]
  /\ pc \in {"idle", "weekly", "daily", "gate", "next"}
  /\ price \in [Symbols -> Prices]
  /\ i \in 1..(Len(Primaries) + 1)
  /\ read \in [Timeframes -> Levels \cup {None}]
  /\ entry \in Directions \cup {None}

Working == pc # "idle" /\ i <= Len(Primaries)

Symbol == Primaries[i]

-----------------------------------------------------------------------------
(* Levels and biases *)

IsExpired(level, t) == t >= level.expires_at

NeedsCapture(t, level) == IF level = None THEN TRUE ELSE IsExpired(level, t)

ExpiresAt(tf, t) ==
  IF tf = "weekly" THEN NextNyOccurrence(t, 18, {Monday})
                   ELSE NextNyOccurrence(t, 0, Weekdays)

\* Variant: a level without an end.
CaptureLevel_Endless(tf, symbol, p, t) ==
  [symbol |-> symbol, level |-> p, set_at |-> t, expires_at |-> None]

\* A partial week gets no weekly level.
CaptureLevel(tf, symbol, p, t) ==
  IF tf = "weekly" /\ ~IsFullTradingWeek(WeekStartFor(ToNy(t)))
  THEN None
  ELSE [symbol |-> symbol, level |-> p, set_at |-> t, expires_at |-> ExpiresAt(tf, t)]

BiasFromPrice(p, level) ==
  CASE level = None -> "Neutral"
    [] OTHER -> IF p > level.level THEN "Buy"
                ELSE IF p < level.level THEN "Sell" ELSE "Neutral"

\* Variant: the daily level first.
TrueOpenGate_DailyFirst(weekly, daily, direction) ==
  (IF daily = "Neutral" THEN weekly ELSE daily) \in {direction, "Neutral"}

TrueOpenGate(weekly, daily, direction) ==
  (IF weekly = "Neutral" THEN daily ELSE weekly) \in {direction, "Neutral"}

-----------------------------------------------------------------------------
(* An invocation *)

Init ==
  /\ now \in Instants
  /\ files = NoLevels /\ repo = NoLevels
  /\ pc = "idle"
  /\ price = [s \in Symbols |-> 0]
  /\ i = 1 /\ read = NoLevels /\ entry = None

\* What is local to the invocation is gone.
End ==
  /\ pc' = "idle"
  /\ price' = [s \in Symbols |-> 0]
  /\ i' = 1 /\ read' = NoLevels /\ entry' = None

\* The three gates before the entry loop; the date of the holiday check is UTC's.
\* An invocation they stop changes no level.
EnterLoop(force) ==
  /\ pc = "idle"
  /\ force \/ IsWithinMacroCycle(now)
  /\ ~IsLowLiquidity(DateAt(now))
  /\ pc' = "weekly"
  /\ price' \in [Symbols -> Prices]
  /\ UNCHANGED <<now, files, repo, i, read, entry>>

\* The spread filter rejects the pair-set before its levels are loaded.
SpreadRejected ==
  /\ pc = "weekly" /\ Working
  /\ i' = i + 1
  /\ UNCHANGED <<now, files, repo, pc, price, read, entry>>

\* Variant: where no level was captured, the one on file is used after all.
Load_StaleWhenPartial(tf, next) ==
  /\ pc = tf /\ Working
  /\ LET level == IF NeedsCapture(now, files[tf])
                  THEN CaptureLevel(tf, Symbol, price[Symbol], now)
                  ELSE files[tf]
     IN  /\ files' = [files EXCEPT ![tf] = IF level = None THEN @ ELSE level]
         /\ read' = [read EXCEPT ![tf] = IF level = None THEN files[tf] ELSE level]
  /\ pc' = next
  /\ UNCHANGED <<now, repo, price, i, entry>>

\* load_or_capture_bias.
Load(tf, next) ==
  /\ pc = tf /\ Working
  /\ LET level == IF NeedsCapture(now, files[tf])
                  THEN CaptureLevel(tf, Symbol, price[Symbol], now)
                  ELSE files[tf]
     IN  /\ read' = [read EXCEPT ![tf] = level]
         /\ files' = [files EXCEPT ![tf] = IF level = None THEN @ ELSE level]
  /\ pc' = next
  /\ UNCHANGED <<now, repo, price, i, entry>>

LoadWeekly == Load("weekly", "daily")
LoadDaily  == Load("daily", "gate")

Bias(tf) == BiasFromPrice(price[Symbol], read[tf])

\* generate_signal: a divergence in some direction, or none, which the gate lets
\* through or rejects. Whatever becomes of it, the loop goes on.
GenerateSignal(signal) ==
  /\ pc = "gate" /\ Working
  /\ entry' = IF signal # None /\ TrueOpenGate(Bias("weekly"), Bias("daily"), signal)
              THEN signal ELSE None
  /\ pc' = "next"
  /\ UNCHANGED <<now, files, repo, price, i, read>>

NextPairSet ==
  /\ pc = "next" /\ Working
  /\ i' = i + 1 /\ pc' = "weekly"
  /\ read' = NoLevels /\ entry' = None
  /\ UNCHANGED <<now, files, repo, price>>

\* The loop is done; the job pushes the directory.
Finish ==
  /\ pc = "weekly" /\ i = Len(Primaries) + 1
  /\ repo' = files
  /\ End
  /\ UNCHANGED <<now, files>>

\* A `?`, a kill or a rejected push. The next run finds the directory as it was
\* left, or, checked out afresh, as last pushed.
Fail ==
  /\ pc # "idle"
  /\ files' \in {files, repo}
  /\ End
  /\ UNCHANGED <<now, repo>>

\* Between invocations only: what passes during one is not seen before the next.
Tick ==
  /\ pc = "idle"
  /\ now' \in {t \in Instants : t > now}
  /\ UNCHANGED <<files, repo, pc, price, i, read, entry>>

Next ==
  \/ \E force \in BOOLEAN : EnterLoop(force)
  \/ SpreadRejected
  \/ LoadWeekly \/ LoadDaily
  \/ \E signal \in Directions \cup {None} : GenerateSignal(signal)
  \/ NextPairSet
  \/ Finish \/ Fail
  \/ Tick

Spec == Init /\ [][Next]_vars

-----------------------------------------------------------------------------
(* Properties *)

\* Whether a boundary of the timeframe, in local time a Monday's 18:00 or a
\* midnight, lies after s and no later than t.
Lapsed(tf, s, t) ==
  LET from == ToNy(s)  to == ToNy(t)
  IN  \E date \in DateAt(from)..DateAt(to) :
        LET boundary == date * Day + (IF tf = "weekly" THEN 18 * Hour ELSE 0)
        IN  /\ tf = "weekly" => Weekday(date) = Monday
            /\ from < boundary /\ boundary <= to

\* true_open.rs: a level holds for its period. A pair-set is never judged by a level
\* of an earlier week or day, even at the very second of a boundary, across a change
\* to or from daylight saving, or after an old directory has been checked out.
LevelOfItsPeriod ==
  \A tf \in Timeframes : read[tf] # None => ~Lapsed(tf, read[tf].set_at, now)

\* true_open.rs: "then held fixed until they expire". Once pushed, a level stays
\* the same until its period is over, whatever invocations fail in between and
\* whichever directory they leave behind.
PushedLevelsHold ==
  [][\A tf \in Timeframes :
       repo[tf] # None /\ repo'[tf] # repo[tf] =>
         /\ repo'[tf] # None
         /\ Lapsed(tf, repo[tf].set_at, repo'[tf].set_at)]_vars

\* true_open.rs: in a week that opens on a holiday the weekly bias is neutral
\* throughout. A level captured in the week before is valid until the Monday, and
\* nothing compares its week with the current one: this rests on the days after
\* Christmas being closed to entries, by a check in main.rs on UTC dates.
PartialWeekHasNoLevel ==
  pc \in {"daily", "gate", "next"} =>
    LET today == DateAt(ToNy(now))
    IN  IsHoliday(today - Weekday(today)) => read["weekly"] = None

\* true_open.rs: weekly decides unless it is neutral, then daily. An entry that was
\* let through is on the right side of what the files say: of the weekly level if one
\* of this week is on file and differs from the price, else of the daily level.
EntryFollowsTheFiles ==
  entry # None =>
    LET valid(tf) == files[tf] # None /\ ~Lapsed(tf, files[tf].set_at, now)
        p == price[Symbol]
        decides(tf) == valid(tf) /\ files[tf].level # p
        follows(tf) == (entry = "Buy") <=> (p > files[tf].level)
    IN  IF decides("weekly") THEN follows("weekly")
        ELSE decides("daily") => follows("daily")

-----------------------------------------------------------------------------
(* What the documents say *)

\* README.md, docs/adr/0002: the True Open bias belongs to the pair-set.
BiasOfOwnLevel ==
  \A tf \in Timeframes : read[tf] # None => read[tf].symbol = Symbol

-----------------------------------------------------------------------------
(* The inductive invariant *)

\* Every level anywhere was set in the past and ends where its period does.
LevelsDated ==
  \A tf \in Timeframes : \A level \in {files[tf], repo[tf], read[tf]} \ {None} :
    level.set_at <= now /\ level.expires_at = ExpiresAt(tf, level.set_at)

\* What a pair-set has loaded so far is the level on file if that one is still
\* valid, and nothing if not; between invocations nothing is loaded.
Loaded ==
  {tf \in Timeframes : pc \in {"gate", "next"} \/ (tf = "weekly" /\ pc = "daily")}

ReadIsOnFile ==
  \A tf \in Timeframes :
    read[tf] = IF tf \in Loaded /\ files[tf] # None /\ now < files[tf].expires_at
               THEN files[tf] ELSE None

EntryWasGated ==
  /\ pc \in {"daily", "gate", "next"} => Working
  /\ entry # None =>
       pc = "next" /\ TrueOpenGate(Bias("weekly"), Bias("daily"), entry)

\* The directory has the level last pushed, or one set after that ended.
PushedOrLater ==
  \A tf \in Timeframes : repo[tf] # None =>
    /\ files[tf] # None
    /\ files[tf] = repo[tf] \/ files[tf].set_at >= repo[tf].expires_at

LevelsInv ==
  /\ TypeOK
  /\ LevelsDated
  /\ ReadIsOnFile
  /\ EntryWasGated
  /\ PushedOrLater

\* The loop runs on UTC dates open to entries only, so every weekly level was set on
\* one, and in a week that did not open on a holiday.
SetOnOpenDays ==
  /\ pc # "idle" => ~IsLowLiquidity(DateAt(now))
  /\ \A level \in {files["weekly"], repo["weekly"], read["weekly"]} \ {None} :
       /\ ~IsLowLiquidity(DateAt(level.set_at))
       /\ IsFullTradingWeek(WeekStartFor(ToNy(level.set_at)))

IInv == LevelsInv /\ SetOnOpenDays

=============================================================================

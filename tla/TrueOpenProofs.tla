--------------------------- MODULE TrueOpenProofs ---------------------------
(***************************************************************************)
(* True Open levels, for any pair-sets, prices and instants until 2099:    *)
(* when a level ends and which levels an invocation uses. The core is that *)
(* expires_at, an instant computed through New York's clock, separates     *)
(* exactly the instants before the local boundary from those after it,     *)
(* although that clock jumps twice a year.                                 *)
(***************************************************************************)
EXTENDS TrueOpen, TLAPS

-----------------------------------------------------------------------------
(* The calendar *)

LEMMA Units ==
  /\ Hour = 3600 /\ Day = 86400
  /\ Sunday = 0 /\ Monday = 1 /\ Weekdays = 0..6
BY DEF Minute, Hour, Day, Sunday, Monday, Weekdays

LEMMA NewYear ==
  ASSUME NEW y \in Int
  PROVE  DateOf(y, 1, 1) = 365 * (y - 1970) + (y - 1969) \div 4
<1>1. DaysBefore[1] = 0
  BY DEF DaysBefore
<1>2. ~(1 > 2)
  BY SMT
<1> QED
  BY <1>1, <1>2, SMT DEF DateOf

\* Until the end of 2099 every date is of a year.
LEMMA YearFacts ==
  ASSUME NEW date \in Int, date >= -365, date < DateOf(2100, 1, 1)
  PROVE  LET y == YearOf(date)
         IN  /\ y \in 1969..2099
             /\ DateOf(y, 1, 1) <= date /\ date < DateOf(y + 1, 1, 1)
<1> DEFINE about == 1970 + date \div 366
           P(y) == DateOf(y, 1, 1) <= date /\ date < DateOf(y + 1, 1, 1)
<1>1. date < 47482
  BY NewYear, SMT
<1>2. PICK k \in Int, r \in 0..365 : date = 366 * k + r /\ date \div 366 = k
  <2>1. date \div 366 \in Int /\ date % 366 \in 0..365
        /\ date = 366 * (date \div 366) + (date % 366)
    BY SMT
  <2> QED
    BY <2>1
<1>3. k >= -1 /\ k < 130
  BY <1>1, <1>2, SMT
<1>4. about = 1970 + k /\ about \in Int /\ about + 1 \in Int /\ about + 1 + 1 \in Int
  BY <1>2, SMT
<1> HIDE DEF about
<1>5. DateOf(about, 1, 1) = 365 * k + (k + 1) \div 4
  BY <1>4, NewYear, SMT
<1>6. DateOf(about + 1, 1, 1) = 365 * (k + 1) + (k + 2) \div 4
  BY <1>4, NewYear, SMT
<1>7. DateOf(about + 1 + 1, 1, 1) = 365 * (k + 2) + (k + 3) \div 4
  BY <1>4, NewYear, SMT
<1>8. DateOf(about, 1, 1) <= date
  BY <1>2, <1>3, <1>5, SMT
<1>9. date < DateOf(about + 1 + 1, 1, 1)
  BY <1>2, <1>3, <1>7, SMT
<1>10. P(about) \/ P(about + 1)
  <2>1. DateOf(about + 1, 1, 1) \in Int
    BY <1>2, <1>6, SMT
  <2> QED
    BY <1>8, <1>9, <2>1, SMT
<1>11. \E y \in {about, about + 1} : P(y)
  BY <1>10
<1>12. YearOf(date) = CHOOSE y \in {about, about + 1} : P(y)
  BY DEF YearOf, about
<1> HIDE DEF P
<1>13. YearOf(date) \in {about, about + 1} /\ P(YearOf(date))
  BY <1>11, <1>12
<1>14. ASSUME NEW y \in {about, about + 1}, DateOf(y, 1, 1) <= date
       PROVE  y \in 1969..2099
  <2>1. y \in Int /\ y - 1970 \in {k, k + 1}
    BY <1>4, SMT
  <2>2. 365 * (y - 1970) + (y - 1969) \div 4 <= date
    BY <1>14, <2>1, NewYear
  <2> QED
    BY <1>1, <1>2, <1>3, <2>1, <2>2, SMT
<1> QED
  BY <1>13, <1>14 DEF P

\* The year of a date is the one it lies in.
LEMMA YearOfDate ==
  ASSUME NEW y \in 1969..2100, NEW date \in Int,
         DateOf(y, 1, 1) <= date, date < DateOf(y + 1, 1, 1)
  PROVE  YearOf(date) = y
<1> DEFINE about == 1970 + date \div 366
           P(n) == DateOf(n, 1, 1) <= date /\ date < DateOf(n + 1, 1, 1)
<1>1. \A n \in Int : n + 1 \in Int /\ DateOf(n, 1, 1) = 365 * (n - 1970) + (n - 1969) \div 4
  BY NewYear, SMT
<1>2. y \in Int /\ y + 1 \in Int /\ about \in Int
  BY SMT
<1>3. /\ 365 * (y - 1970) + (y - 1969) \div 4 <= date
      /\ date < 365 * (y - 1969) + (y - 1968) \div 4
  <2>1. y + 1 - 1970 = y - 1969 /\ y + 1 - 1969 = y - 1968
    BY <1>2, SMT
  <2> QED
    BY <1>1, <1>2, <2>1
<1>4. y \in {about, about + 1}
  BY <1>3, SMT
<1>5. \A n \in {about, about + 1} : P(n) => n = y
  <2> SUFFICES ASSUME NEW n \in {about, about + 1}, P(n) PROVE n = y
    OBVIOUS
  <2>1. n \in Int /\ n + 1 \in Int
    BY <1>2, SMT
  <2>2. /\ 365 * (n - 1970) + (n - 1969) \div 4 <= date
        /\ date < 365 * (n - 1969) + (n - 1968) \div 4
    <3>1. n + 1 - 1970 = n - 1969 /\ n + 1 - 1969 = n - 1968
      BY <2>1, SMT
    <3> QED
      BY <1>1, <2>1, <3>1
  <2> QED
    BY <1>2, <1>3, <2>1, <2>2, SMT
<1>6. YearOf(date) = CHOOSE n \in {about, about + 1} : P(n)
  BY DEF YearOf
<1>7. P(y)
  OBVIOUS
<1> HIDE DEF P, about
<1> QED
  BY <1>4, <1>5, <1>6, <1>7

LEMMA NthWeekdayIsNumber ==
  ASSUME NEW y \in Int, NEW m \in {3, 11}, NEW w \in Weekdays, NEW n \in Int
  PROVE  NthWeekdayOfMonth(y, m, w, n) \in Int
<1>1. DaysBefore[m] \in Int
  <2>1. CASE m = 3    BY <2>1 DEF DaysBefore
  <2>2. CASE m = 11   BY <2>2 DEF DaysBefore
  <2> QED
    BY <2>1, <2>2
<1>2. DateOf(y, m, 1) \in Int
  BY <1>1, SMT DEF DateOf
<1> QED
  BY <1>2, Units, SMT DEF NthWeekdayOfMonth, Weekday

\* On one UTC date summer time can begin at 7:00 and end at 6:00, and nowhere else.
SummerIs(date, s, e) ==
  \A x \in Int :
    x \div 86400 = date =>
      (IsSummer(x) <=> x >= s * 86400 + 25200 /\ x < e * 86400 + 21600)

LEMMA SummerOnOneDate ==
  ASSUME NEW date \in Nat, date < DateOf(2100, 1, 1)
  PROVE  \E s, e \in Int : SummerIs(date, s, e)
<1> DEFINE y == YearOf(date)
           s == NthWeekdayOfMonth(y, 3, Sunday, 2)
           e == NthWeekdayOfMonth(y, 11, Sunday, 1)
<1>1. s \in Int /\ e \in Int
  <2>1. YearOf(date) \in Int
    BY YearFacts, SMT
  <2>2. Sunday \in Weekdays /\ 1 \in Int /\ 2 \in Int /\ 3 \in {3, 11} /\ 11 \in {3, 11}
    BY Units
  <2> QED
    BY <2>1, <2>2, NthWeekdayIsNumber
<1>2. ASSUME NEW x \in Int, x \div 86400 = date
      PROVE  IsSummer(x) <=> x >= s * 86400 + 25200 /\ x < e * 86400 + 21600
  <2>1. IsSummer(x) <=> x >= s * 86400 + 7 * 3600 /\ x < e * 86400 + 6 * 3600
    BY <1>2, Units DEF IsSummer
  <2> HIDE DEF s, e
  <2> QED
    BY <1>1, <2>1, SMT
<1> HIDE DEF s, e
<1>3. SummerIs(date, s, e)
  BY <1>2 DEF SummerIs
<1> QED
  BY <1>1, <1>3

LEMMA ToNyFacts ==
  ASSUME NEW t \in Int
  PROVE  /\ ToNy(t) \in Int
         /\ ToNy(t) = IF IsSummer(t) THEN t - 14400 ELSE t - 18000
<1>1. ToNy(t) = t - (IF IsSummer(t) THEN 4 ELSE 5) * 3600
  BY Units DEF ToNy
<1> QED
  BY <1>1, SMT

LEMMA FromNyFacts ==
  ASSUME NEW b \in Int
  PROVE  /\ FromNy(b) \in Int
         /\ FromNy(b) = IF IsSummer(b + 14400) THEN b + 14400 ELSE b + 18000
<1>1. FromNy(b) = IF ToNy(b + 14400) = b THEN b + 14400 ELSE b + 18000
  BY Units, SMT DEF FromNy
<1>2. ToNy(b + 14400) = b <=> IsSummer(b + 14400)
  BY ToNyFacts, SMT
<1> QED
  BY <1>1, <1>2, SMT

\* A local midnight or 18:00 is an instant: the local clock shows it, or later, from
\* that instant on and not before. (At 1:30 on a November night it would not be so.)
LEMMA BoundaryIsInstant ==
  ASSUME NEW t \in Nat, DateAt(t) < DateOf(2100, 1, 1),
         NEW d \in Int, NEW h \in {0, 64800}
  PROVE  FromNy(d * 86400 + h) <= t <=> d * 86400 + h <= ToNy(t)
<1> DEFINE b == d * 86400 + h
           u == b + 14400
<1>1. b \in Int /\ u \in Int /\ u = d * 86400 + h + 14400
  BY SMT
<1>2. ASSUME u <= t, t < u + 3600
      PROVE  IsSummer(u) <=> IsSummer(t)
  <2>1. /\ u \div 86400 = d /\ t \div 86400 = d
    BY <1>1, <1>2, SMT
  <2>2. d \in Nat /\ d < DateOf(2100, 1, 1)
    BY <2>1, Units, SMT DEF DateAt
  <2>3. PICK s \in Int, e \in Int : SummerIs(d, s, e)
    BY <2>2, SummerOnOneDate
  <2>4. /\ IsSummer(u) <=> u >= s * 86400 + 25200 /\ u < e * 86400 + 21600
        /\ IsSummer(t) <=> t >= s * 86400 + 25200 /\ t < e * 86400 + 21600
    BY <1>1, <2>1, <2>3 DEF SummerIs
  <2>5. u >= s * 86400 + 25200 <=> t >= s * 86400 + 25200
    BY <1>1, <1>2, SMT
  <2>6. u < e * 86400 + 21600 <=> t < e * 86400 + 21600
    BY <1>1, <1>2, SMT
  <2> QED
    BY <2>4, <2>5, <2>6
<1>3. FromNy(b) = IF IsSummer(u) THEN b + 14400 ELSE b + 18000
  BY <1>1, FromNyFacts
<1>4. ToNy(t) = IF IsSummer(t) THEN t - 14400 ELSE t - 18000
  BY ToNyFacts
<1> HIDE DEF b
<1>5. FromNy(b) <= t <=> b <= ToNy(t)
  <2>1. CASE u <= t /\ t < u + 3600
    BY <1>1, <1>2, <1>3, <1>4, <2>1, SMT
  <2>2. CASE ~(u <= t /\ t < u + 3600)
    BY <1>1, <1>3, <1>4, <2>2, SMT
  <2> QED
    BY <2>1, <2>2
<1> QED
  BY <1>5 DEF b

-----------------------------------------------------------------------------
(* The next boundary *)

\* A timeframe ends at local midnights, or on Mondays at 18:00.
EndHour(tf) == IF tf = "weekly" THEN 18 ELSE 0
BoundaryOn(tf, d) == d * Day + EndHour(tf) * Hour
EndsOn(tf, d) == tf = "weekly" => Weekday(d) = Monday

LEMMA BoundaryFacts ==
  ASSUME NEW tf \in Timeframes, NEW d \in Int
  PROVE  /\ BoundaryOn(tf, d) = d * 86400 + (IF tf = "weekly" THEN 64800 ELSE 0)
         /\ BoundaryOn(tf, d) \in Int
<1>1. EndHour(tf) * 3600 = IF tf = "weekly" THEN 64800 ELSE 0
  BY SMT DEF EndHour
<1> QED
  BY <1>1, Units, SMT DEF BoundaryOn

LEMMA BoundaryGoesBy ==
  ASSUME NEW t \in Nat, DateAt(t) < DateOf(2100, 1, 1),
         NEW tf \in Timeframes, NEW d \in Int
  PROVE  FromNy(BoundaryOn(tf, d)) <= t <=> BoundaryOn(tf, d) <= ToNy(t)
<1>1. CASE tf = "weekly"
  <2>1. BoundaryOn(tf, d) = d * 86400 + 64800
    BY <1>1, BoundaryFacts, SMT
  <2> QED
    BY <2>1, BoundaryIsInstant, SMT
<1>2. CASE tf # "weekly"
  <2>1. BoundaryOn(tf, d) = d * 86400 + 0
    BY <1>2, BoundaryFacts, SMT
  <2> QED
    BY <2>1, BoundaryIsInstant, SMT
<1> QED
  BY <1>1, <1>2

LEMMA LeastIsMin ==
  ASSUME NEW S \in SUBSET Int, NEW m \in S, \A x \in S : m <= x
  PROVE  Min(S) = m
<1>1. \E x \in S : \A y \in S : x <= y
  OBVIOUS
<1>2. /\ Min(S) \in S /\ \A y \in S : Min(S) <= y
  BY <1>1 DEF Min
<1>3. Min(S) \in Int /\ m \in Int
  BY <1>2
<1>4. Min(S) <= m /\ m <= Min(S)
  BY <1>2
<1> QED
  BY <1>3, <1>4

\* The first Monday no earlier than a date.
LEMMA FirstMonday ==
  ASSUME NEW first \in Int
  PROVE  LET monday == Min({d \in first..(first + 6) : Weekday(d) \in {Monday}})
         IN  /\ monday \in Int /\ monday >= first /\ Weekday(monday) = Monday
             /\ \A d \in Int : d >= first /\ Weekday(d) = Monday => monday <= d
<1> DEFINE S == {d \in first..(first + 6) : Weekday(d) \in {Monday}}
<1>1. \A d \in Int : Weekday(d) = Monday <=> (d + 4) % 7 = 1
  BY Units DEF Weekday
<1>2. PICK a \in Int, w \in 0..6 : first + 4 = 7 * a + w
  <2>1. /\ (first + 4) \div 7 \in Int /\ (first + 4) % 7 \in 0..6
        /\ first + 4 = 7 * ((first + 4) \div 7) + ((first + 4) % 7)
    BY SMT
  <2> QED
    BY <2>1
<1> DEFINE m == IF w <= 1 THEN 7 * a - 3 ELSE 7 * a + 4
<1>3. m \in first..(first + 6) /\ (m + 4) % 7 = 1 /\ m \in Int /\ m >= first
  BY <1>2, SMT
<1>4. ASSUME NEW d \in Int, d >= first, (d + 4) % 7 = 1
      PROVE  m <= d
  <2>1. PICK c \in Int : d + 4 = 7 * c + 1
    <3>1. /\ (d + 4) \div 7 \in Int
          /\ d + 4 = 7 * ((d + 4) \div 7) + ((d + 4) % 7)
      BY SMT
    <3> QED
      BY <1>4, <3>1
  <2> QED
    BY <1>2, <1>4, <2>1, SMT
<1> HIDE DEF m
<1>5. m \in S /\ S \in SUBSET Int /\ \A x \in S : m <= x
  BY <1>1, <1>3, <1>4
<1>6. Min(S) = m
  BY <1>5, LeastIsMin
<1> QED
  BY <1>1, <1>3, <1>4, <1>6

\* The first date no earlier than a date.
LEMMA FirstDay ==
  ASSUME NEW first \in Int
  PROVE  Min({d \in first..(first + 6) : Weekday(d) \in Weekdays}) = first
<1> DEFINE S == {d \in first..(first + 6) : Weekday(d) \in Weekdays}
<1>1. Weekday(first) \in Weekdays
  BY Units, SMT DEF Weekday
<1>2. first \in S /\ S \in SUBSET Int /\ \A x \in S : first <= x
  BY <1>1
<1> QED
  BY <1>2, LeastIsMin

\* r is a time of day, in seconds.
IsTime(r) == r \in Int /\ r >= 0 /\ r <= 86399

LEMMA HourOfDay ==
  ASSUME NEW r, IsTime(r)
  PROVE  r \div 3600 >= 0 /\ (r \div 3600 >= 18 <=> r >= 64800)
BY SMT DEF IsTime

LEMMA DateAndTime ==
  ASSUME NEW x \in Int
  PROVE  \E q \in Int, r \in Int :
           /\ IsTime(r) /\ x = q * 86400 + r /\ DateAt(x) = q
           /\ HourAt(x) >= 0 /\ (HourAt(x) >= 18 <=> r >= 64800)
<1>1. PICK q \in Int : q = x \div 86400
  BY SMT
<1>2. PICK r \in Int : r = x % 86400
  BY SMT
<1>3. IsTime(r)
  BY <1>2, SMT DEF IsTime
<1>4. x = q * 86400 + r
  BY <1>1, <1>2, SMT
<1>5. DateAt(x) = q
  BY <1>1, Units, SMT DEF DateAt
<1>6. HourAt(x) = r \div 3600
  BY <1>2, Units, SMT DEF HourAt
<1>7. HourAt(x) >= 0 /\ (HourAt(x) >= 18 <=> r >= 64800)
  BY <1>3, <1>6, HourOfDay, SMT
<1> QED
  BY <1>3, <1>4, <1>5, <1>7, SMT

\* next_ny_occurrence starts at the first date whose boundary is still to come.
LEMMA FirstBoundary ==
  ASSUME NEW x \in Int, NEW tf \in Timeframes
  PROVE  LET first == DateAt(x) + (IF HourAt(x) >= EndHour(tf) THEN 1 ELSE 0)
         IN  first \in Int /\ \A e \in Int : x < BoundaryOn(tf, e) <=> first <= e
<1> DEFINE first == DateAt(x) + (IF HourAt(x) >= EndHour(tf) THEN 1 ELSE 0)
<1>1. PICK q \in Int, r \in Int :
        /\ IsTime(r) /\ x = q * 86400 + r /\ DateAt(x) = q
        /\ HourAt(x) >= 0 /\ (HourAt(x) >= 18 <=> r >= 64800)
  BY DateAndTime, SMT
<1>2. first = q + (IF tf = "weekly" THEN IF r >= 64800 THEN 1 ELSE 0 ELSE 1)
  BY <1>1, SMT DEF EndHour
<1> HIDE DEF first
<1>3. first \in Int
  BY <1>2, SMT
<1>4. ASSUME NEW e \in Int
      PROVE  x < BoundaryOn(tf, e) <=> first <= e
  <2>1. BoundaryOn(tf, e) = e * 86400 + (IF tf = "weekly" THEN 64800 ELSE 0)
    BY BoundaryFacts, SMT
  <2> QED
    BY <1>1, <1>2, <2>1, SMT DEF IsTime
<1> QED
  BY <1>3, <1>4 DEF first

\* expires_at is the first boundary after the moment of capture.
LEMMA ExpiresAtNext ==
  ASSUME NEW s \in Int, NEW tf \in Timeframes
  PROVE  \E d \in Int :
           /\ ExpiresAt(tf, s) = FromNy(BoundaryOn(tf, d))
           /\ ToNy(s) < BoundaryOn(tf, d) /\ EndsOn(tf, d)
           /\ \A e \in Int : ToNy(s) < BoundaryOn(tf, e) /\ EndsOn(tf, e) => d <= e
<1> DEFINE local == ToNy(s)
           first == DateAt(local) + (IF HourAt(local) >= EndHour(tf) THEN 1 ELSE 0)
           days == IF tf = "weekly" THEN {Monday} ELSE Weekdays
           d == Min({date \in first..(first + 6) : Weekday(date) \in days})
<1>1. local \in Int
  BY ToNyFacts
<1>2. first \in Int /\ \A e \in Int : local < BoundaryOn(tf, e) <=> first <= e
  BY <1>1, FirstBoundary
<1>3. ExpiresAt(tf, s) = FromNy(BoundaryOn(tf, d))
  BY DEF ExpiresAt, NextNyOccurrence, BoundaryOn, EndHour
<1> HIDE DEF first, local
<1>4. /\ d \in Int /\ d >= first /\ EndsOn(tf, d)
      /\ \A e \in Int : e >= first /\ EndsOn(tf, e) => d <= e
  <2>1. CASE tf = "weekly"
    <3>1. d = Min({date \in first..(first + 6) : Weekday(date) \in {Monday}})
      BY <2>1
    <3> HIDE DEF d
    <3> QED
      BY <1>2, <2>1, <3>1, FirstMonday DEF EndsOn
  <2>2. CASE tf # "weekly"
    <3>1. d = Min({date \in first..(first + 6) : Weekday(date) \in Weekdays})
      BY <2>2
    <3> HIDE DEF d
    <3>2. d = first
      BY <1>2, <3>1, FirstDay
    <3> QED
      BY <1>2, <2>2, <3>2 DEF EndsOn
  <2> QED
    BY <2>1, <2>2
<1> HIDE DEF d
<1>5. \A e \in Int : first <= e <=> e >= first
  BY <1>2, SMT
<1>6. local < BoundaryOn(tf, d)
  BY <1>2, <1>4, <1>5
<1>7. \A e \in Int : local < BoundaryOn(tf, e) /\ EndsOn(tf, e) => d <= e
  BY <1>2, <1>4, <1>5
<1> QED
  BY <1>3, <1>4, <1>6, <1>7 DEF local

-----------------------------------------------------------------------------
(* Holidays and weeks *)

\* Where Christmas lies in its year.
LEMMA ChristmasDate ==
  ASSUME NEW y \in Int
  PROVE  /\ DateOf(y, 12, 25) \in Int /\ DateOf(y, 1, 1) \in Int
         /\ DateOf(y + 1, 1, 1) = DateOf(y, 12, 25) + 7
         /\ DateOf(y, 12, 26) = DateOf(y, 12, 25) + 1
         /\ DateOf(y, 12, 31) = DateOf(y, 12, 25) + 6
         /\ DateOf(y, 1, 1) < DateOf(y, 12, 25)
<1>1. DaysBefore[12] = 334 /\ 12 > 2
  BY SMT DEF DaysBefore
<1> DEFINE leap == IF y % 4 = 0 THEN 1 ELSE 0
<1>2. \A d \in Int :
        DateOf(y, 12, d) = 365 * (y - 1970) + (y - 1969) \div 4 + 334 + leap + d - 1
  BY <1>1 DEF DateOf
<1>3. /\ DateOf(y, 12, 25) = 365 * (y - 1970) + (y - 1969) \div 4 + leap + 358
      /\ DateOf(y, 12, 26) = 365 * (y - 1970) + (y - 1969) \div 4 + leap + 359
      /\ DateOf(y, 12, 31) = 365 * (y - 1970) + (y - 1969) \div 4 + leap + 364
  BY <1>2, SMT
<1>4. /\ DateOf(y, 1, 1) = 365 * (y - 1970) + (y - 1969) \div 4
      /\ DateOf(y + 1, 1, 1) = 365 * (y + 1 - 1970) + (y + 1 - 1969) \div 4
  <2>1. y + 1 \in Int
    BY SMT
  <2> QED
    BY <2>1, NewYear
<1>5. (y + 1 - 1969) \div 4 = (y - 1969) \div 4 + leap
  BY SMT
<1> HIDE DEF leap
<1>6. leap \in {0, 1}
  BY DEF leap
<1> QED
  BY <1>3, <1>4, <1>5, <1>6, SMT

\* Of the holidays only Christmas and New Year's Day can be Sundays: Thanksgiving is a
\* Thursday, and Good Friday comes two days before the Sunday of Easter.
LEMMA SundayHolidays ==
  ASSUME NEW date \in Int, date >= -365, date < DateOf(2100, 1, 1),
         Weekday(date) = 0, IsHoliday(date)
  PROVE  \E y \in 1969..2099 : date \in {DateOf(y, 1, 1), DateOf(y, 12, 25)}
<1> DEFINE y == YearOf(date)
<1>1. y \in 1969..2099
  BY YearFacts
<1> HIDE DEF y
<1>2. date # Thanksgiving(y)
  <2> DEFINE first == DateOf(y, 11, 1)
  <2>1. DaysBefore[11] = 304
    BY DEF DaysBefore
  <2>2. first \in Int
    BY <1>1, <2>1, SMT DEF DateOf
  <2> HIDE DEF first
  <2>3. Thanksgiving(y) = first + ((7 + 4 - ((first + 4) % 7)) % 7) + 7 * (4 - 1)
    BY DEF Thanksgiving, NthWeekdayOfMonth, Weekday, Thursday, first
  <2>4. (first + ((7 + 4 - ((first + 4) % 7)) % 7) + 7 * (4 - 1) + 4) % 7 = 4
    BY <2>2, SMT
  <2>5. Weekday(Thanksgiving(y)) = 4
    BY <2>3, <2>4 DEF Weekday
  <2> QED
    BY <2>5
<1>3. date # EasterSunday(y) - 2
  <2> DEFINE m == PaschalFullMoon(y)
             S == SundaysAfterTheMoon(y)
  <2>1. m \in Int
    <3>1. DaysBefore[3] = 59
      BY DEF DaysBefore
    <3>2. DateOf(y, 3, 21) \in Int
      BY <1>1, <3>1, SMT DEF DateOf
    <3>3. (19 * (y % 19) + 24) % 30 \in Int
      BY <1>1, SMT
    <3> QED
      BY <3>2, <3>3, SMT DEF PaschalFullMoon
  <2>2. EasterSunday(y) = Min(S)
    BY <1>1, EasterFollowsTheMoon
  <2> HIDE DEF m
  <2> DEFINE sunday == m + 7 - ((m + 4) % 7)
  <2>3. sunday \in (m + 1)..(m + 7) /\ sunday \in Int /\ (sunday + 4) % 7 = 0
    BY <2>1, SMT
  <2>4. \A x \in (m + 1)..(m + 7) : x \in Int /\ ((x + 4) % 7 = 0 => sunday <= x)
    BY <2>1, SMT
  <2> HIDE DEF sunday
  <2>5. Min(S) = sunday /\ sunday \in S
    <3>1. S = {x \in (m + 1)..(m + 7) : (x + 4) % 7 = 0}
      BY Units DEF Weekday, SundaysAfterTheMoon, m
    <3> HIDE DEF S
    <3>2. S \in SUBSET Int /\ sunday \in S /\ \A x \in S : sunday <= x
      BY <2>3, <2>4, <3>1
    <3> QED
      BY <3>2, LeastIsMin
  <2>6. EasterSunday(y) \in Int /\ Weekday(EasterSunday(y)) = 0
    BY <2>2, <2>3, <2>5 DEF Weekday
  <2>7. \A e \in Int : (e + 4) % 7 = 0 => (e - 2 + 4) % 7 = 5
    BY SMT
  <2>8. Weekday(EasterSunday(y) - 2) = 5
    BY <2>6, <2>7 DEF Weekday
  <2> QED
    BY <2>8
<1> QED
  BY <1>1, <1>2, <1>3 DEF IsHoliday, HolidaysForYear, y

\* The eight days from Christmas to New Year's Day are closed to entries.
ChristmasToNewYear(y) == DateOf(y, 12, 25)..(DateOf(y, 12, 25) + 7)

LEMMA ChristmasToNewYearIsClosed ==
  ASSUME NEW y \in 1969..2099, NEW d \in ChristmasToNewYear(y)
  PROVE  IsLowLiquidity(d)
<1>0. d \in DateOf(y, 12, 25)..(DateOf(y, 12, 25) + 7)
  BY DEF ChristmasToNewYear
<1>1. y \in Int /\ y + 1 \in Int /\ y + 1 \in 1969..2100 /\ y \in 1969..2100
  BY SMT
<1>2. d \in Int
  BY <1>0, <1>1, ChristmasDate, SMT
<1>3. CASE d = DateOf(y, 12, 25) + 7
  <2>1. d = DateOf(y + 1, 1, 1)
    BY <1>1, <1>3, ChristmasDate
  <2>2. YearOf(d) = y + 1
    <3>1. /\ DateOf(y + 1, 1, 1) < DateOf(y + 1, 12, 25)
          /\ DateOf(y + 1 + 1, 1, 1) = DateOf(y + 1, 12, 25) + 7
          /\ DateOf(y + 1, 12, 25) \in Int
      BY <1>1, ChristmasDate
    <3>2. DateOf(y + 1, 1, 1) <= d /\ d < DateOf(y + 1 + 1, 1, 1)
      BY <1>2, <2>1, <3>1, SMT
    <3> QED
      BY <1>1, <1>2, <3>2, YearOfDate
  <2> QED
    BY <2>1, <2>2 DEF IsLowLiquidity, IsHoliday, HolidaysForYear
<1>4. CASE d # DateOf(y, 12, 25) + 7
  <2>1. YearOf(d) = y
    <3>1. DateOf(y, 1, 1) <= d /\ d < DateOf(y + 1, 1, 1)
      BY <1>0, <1>1, <1>2, <1>4, ChristmasDate, SMT
    <3> QED
      BY <1>1, <1>2, <3>1, YearOfDate
  <2>2. CASE d = DateOf(y, 12, 25)
    BY <2>1, <2>2 DEF IsLowLiquidity, IsHoliday, HolidaysForYear
  <2>3. CASE d # DateOf(y, 12, 25)
    <3> DEFINE christmas == DateOf(y, 12, 25)
    <3>1. /\ christmas \in Int /\ d \in christmas..(christmas + 7)
          /\ DateOf(y, 12, 26) = christmas + 1 /\ DateOf(y, 12, 31) = christmas + 6
      BY <1>0, <1>1, ChristmasDate
    <3>2. d # christmas /\ d # christmas + 7
      BY <1>4, <2>3
    <3> HIDE DEF christmas
    <3>3. d \in (christmas + 1)..(christmas + 6)
      BY <1>2, <3>1, <3>2, SMT
    <3>4. d \in DateOf(y, 12, 26)..DateOf(y, 12, 31)
      BY <3>1, <3>3
    <3> QED
      BY <2>1, <3>4 DEF IsLowLiquidity
  <2> QED
    BY <2>2, <2>3
<1> QED
  BY <1>3, <1>4

\* In New York it is UTC's date or the one before.
LEMMA LocalDate ==
  ASSUME NEW t \in Int
  PROVE  /\ DateAt(ToNy(t)) \in Int /\ DateAt(t) \in Int
         /\ DateAt(t) \in {DateAt(ToNy(t)), DateAt(ToNy(t)) + 1}
<1>1. ToNy(t) \in {t - 14400, t - 18000}
  BY ToNyFacts
<1>2. \A x \in Int : DateAt(x) = x \div 86400
  BY Units DEF DateAt
<1>3. t - 14400 \in Int /\ t - 18000 \in Int
  BY SMT
<1>4. CASE ToNy(t) = t - 14400
  BY <1>2, <1>3, <1>4, SMT
<1>5. CASE ToNy(t) = t - 18000
  BY <1>2, <1>3, <1>5, SMT
<1> QED
  BY <1>1, <1>4, <1>5

\* The Sunday of a date, and the date the trading week of a local time opens on.
SundayOf(date) == date - Weekday(date)

LEMMA SundayFacts ==
  ASSUME NEW d \in Int
  PROVE  /\ SundayOf(d) \in Int /\ Weekday(SundayOf(d)) = 0
         /\ SundayOf(d) <= d /\ d <= SundayOf(d) + 6
<1>1. /\ d - ((d + 4) % 7) \in Int /\ (d - ((d + 4) % 7) + 4) % 7 = 0
      /\ d - ((d + 4) % 7) <= d /\ d <= d - ((d + 4) % 7) + 6
  BY SMT
<1> QED
  BY <1>1 DEF SundayOf, Weekday

LEMMA WeekOpensOnSunday ==
  ASSUME NEW local \in Int
  PROVE  DateAt(ToNy(WeekStartFor(local))) = SundayOf(DateAt(local))
<1> DEFINE sunday == SundayOf(DateAt(local))
           b == sunday * 86400 + 64800
           u == FromNy(b)
<1>1. sunday \in Int
  <2>1. DateAt(local) \in Int
    BY Units, SMT DEF DateAt
  <2> QED
    BY <2>1, SundayFacts
<1> HIDE DEF sunday
<1>2. WeekStartFor(local) = u
  <2>1. 18 * Hour = 64800
    BY Units, SMT
  <2> QED
    BY <2>1, Units DEF WeekStartFor, SundayOf, sunday
<1>3. b \in Int
  BY <1>1, SMT
<1> HIDE DEF b
<1>4. u \in {b + 14400, b + 18000}
  BY <1>3, FromNyFacts
<1>5. u \in Int /\ b - 3600 <= u - 18000 /\ u - 14400 <= b + 3600
  BY <1>3, <1>4, SMT
<1> HIDE DEF u
<1>6. ToNy(u) \in Int /\ b - 3600 <= ToNy(u) /\ ToNy(u) <= b + 3600
  <2>1. ToNy(u) \in Int /\ ToNy(u) \in {u - 14400, u - 18000}
    BY <1>5, ToNyFacts
  <2> QED
    BY <1>3, <1>5, <2>1, SMT
<1>7. ToNy(u) \div 86400 = sunday
  BY <1>1, <1>6, SMT DEF b
<1> QED
  BY <1>2, <1>7, Units DEF DateAt, sunday

\* A level of a full trading week was set in a week whose Sunday is no holiday.
LEMMA FullWeekOpensOpen ==
  ASSUME NEW t \in Int, IsFullTradingWeek(WeekStartFor(ToNy(t)))
  PROVE  ~IsHoliday(SundayOf(DateAt(ToNy(t))))
<1>1. ToNy(t) \in Int
  BY ToNyFacts
<1> QED
  BY <1>1, WeekOpensOnSunday DEF IsFullTradingWeek

-----------------------------------------------------------------------------

LEMMA InstantFacts ==
  ASSUME NEW t \in Instants
  PROVE  t \in Nat /\ t \in Int /\ DateAt(t) < DateOf(2100, 1, 1) /\ ToNy(t) \in Int
BY TrueOpenAssumption, YearsAssumption, ToNyFacts

\* A level has expired exactly when a boundary of its timeframe has gone by on New
\* York's clock since it was set. (next_ny_occurrence, TrueOpen::is_expired)
THEOREM ExpiryIsLapse ==
  ASSUME NEW tf \in Timeframes, NEW s \in Instants, NEW t \in Instants
  PROVE  ExpiresAt(tf, s) <= t <=> Lapsed(tf, s, t)
<1>1. PICK d \in Int :
        /\ ExpiresAt(tf, s) = FromNy(BoundaryOn(tf, d))
        /\ ToNy(s) < BoundaryOn(tf, d) /\ EndsOn(tf, d)
        /\ \A e \in Int : ToNy(s) < BoundaryOn(tf, e) /\ EndsOn(tf, e) => d <= e
  BY InstantFacts, ExpiresAtNext
<1>2. ToNy(s) \in Int /\ ToNy(t) \in Int
  BY InstantFacts
<1>3. FromNy(BoundaryOn(tf, d)) <= t <=> BoundaryOn(tf, d) <= ToNy(t)
  BY InstantFacts, BoundaryGoesBy
<1>4. Lapsed(tf, s, t) <=>
        \E e \in DateAt(ToNy(s))..DateAt(ToNy(t)) :
          EndsOn(tf, e) /\ ToNy(s) < BoundaryOn(tf, e) /\ BoundaryOn(tf, e) <= ToNy(t)
  <2>1. EndHour(tf) * Hour = IF tf = "weekly" THEN 18 * Hour ELSE 0
    BY Units, SMT DEF EndHour
  <2> QED
    BY <2>1 DEF Lapsed, EndsOn, BoundaryOn
<1>5. ASSUME BoundaryOn(tf, d) <= ToNy(t)
      PROVE  d \in DateAt(ToNy(s))..DateAt(ToNy(t))
  <2>1. PICK x \in Int, y \in Int : x = ToNy(s) /\ y = ToNy(t)
    BY <1>2
  <2>2. x < BoundaryOn(tf, d) /\ BoundaryOn(tf, d) <= y
    BY <1>1, <1>5, <2>1
  <2>3. d \in (x \div 86400)..(y \div 86400)
    BY <2>2, BoundaryFacts, SMT
  <2>4. DateAt(x) = x \div 86400 /\ DateAt(y) = y \div 86400
    BY Units, SMT DEF DateAt
  <2> QED
    BY <2>1, <2>3, <2>4, SMT
<1>6. ASSUME Lapsed(tf, s, t)
      PROVE  BoundaryOn(tf, d) <= ToNy(t)
  <2>1. PICK e \in DateAt(ToNy(s))..DateAt(ToNy(t)) :
          EndsOn(tf, e) /\ ToNy(s) < BoundaryOn(tf, e) /\ BoundaryOn(tf, e) <= ToNy(t)
    BY <1>4, <1>6
  <2>2. e \in Int /\ d <= e
    BY <1>1, <2>1
  <2>3. /\ BoundaryOn(tf, d) \in Int /\ BoundaryOn(tf, e) \in Int
        /\ BoundaryOn(tf, d) <= BoundaryOn(tf, e)
    BY <2>2, BoundaryFacts, SMT
  <2> QED
    BY <1>2, <2>1, <2>3
<1> QED
  BY <1>1, <1>3, <1>4, <1>5, <1>6

-----------------------------------------------------------------------------
(* The inductive invariant *)

LEMMA NoneFacts == None \notin Levels /\ None \notin Directions
BY TrueOpenAssumption

LEMMA LevelFacts ==
  ASSUME NEW level \in Levels
  PROVE  /\ level # None /\ level.symbol \in Symbols /\ level.level \in Prices
         /\ level.set_at \in Instants /\ level.expires_at \in Nat
BY NoneFacts DEF Levels

\* A level set at this moment has not expired.
LEMMA EndsLater ==
  ASSUME NEW tf \in Timeframes, NEW t \in Instants
  PROVE  ExpiresAt(tf, t) \in Nat /\ t < ExpiresAt(tf, t)
<1>1. ExpiresAt(tf, t) \in Int
  <2>1. PICK d \in Int : ExpiresAt(tf, t) = FromNy(BoundaryOn(tf, d))
    BY InstantFacts, ExpiresAtNext
  <2>2. BoundaryOn(tf, d) \in Int
    BY BoundaryFacts
  <2> QED
    BY <2>1, <2>2, FromNyFacts
<1>2. ~Lapsed(tf, t, t)
  <2>1. ASSUME NEW b, ToNy(t) < b, b <= ToNy(t), b \in Int
        PROVE  FALSE
    BY <2>1, InstantFacts
  <2>2. \A date \in DateAt(ToNy(t))..DateAt(ToNy(t)) :
          date * Day + (IF tf = "weekly" THEN 18 * Hour ELSE 0) \in Int
    BY Units, SMT
  <2> QED
    BY <2>1, <2>2 DEF Lapsed
<1>3. ~(ExpiresAt(tf, t) <= t)
  BY <1>2, ExpiryIsLapse
<1> QED
  BY <1>1, <1>3, InstantFacts

LEMMA CaptureFacts ==
  ASSUME NEW tf \in Timeframes, NEW s \in Symbols, NEW p \in Prices, NEW t \in Instants
  PROVE  LET level == CaptureLevel(tf, s, p, t)
         IN  level # None =>
               /\ level \in Levels /\ level.set_at = t
               /\ level.expires_at = ExpiresAt(tf, t) /\ t < level.expires_at
BY EndsLater DEF CaptureLevel, Levels

LEMMA InitHolds == Init => LevelsInv
<1> SUFFICES ASSUME Init PROVE LevelsInv
  OBVIOUS
<1> USE DEF Init
<1>1. now \in Instants
  OBVIOUS
<1>2. Len(Primaries) \in Nat /\ Len(Primaries) > 0
  BY TrueOpenAssumption
<1>3. TypeOK
  BY <1>1, <1>2 DEF TypeOK, NoLevels, Prices
<1>4. \A tf \in Timeframes : files[tf] = None /\ repo[tf] = None /\ read[tf] = None
  BY DEF NoLevels
<1>5. LevelsDated
  BY <1>4 DEF LevelsDated
<1>6. ReadIsOnFile
  BY <1>4 DEF ReadIsOnFile
<1>7. EntryWasGated
  BY DEF EntryWasGated
<1>8. PushedOrLater
  BY <1>4 DEF PushedOrLater
<1> QED
  BY <1>3, <1>5, <1>6, <1>7, <1>8 DEF LevelsInv

\* What is on file, pushed or loaded is a level or nothing.
LEMMA Stored ==
  ASSUME LevelsInv, NEW tf \in Timeframes
  PROVE  /\ files[tf] \in Levels \cup {None} /\ repo[tf] \in Levels \cup {None}
         /\ read[tf] \in Levels \cup {None}
         /\ now \in Instants
         /\ files[tf] # None =>
              /\ files[tf] \in Levels /\ files[tf].set_at <= now
              /\ files[tf].expires_at = ExpiresAt(tf, files[tf].set_at)
         /\ repo[tf] # None =>
              /\ repo[tf] \in Levels /\ repo[tf].set_at <= now
              /\ repo[tf].expires_at = ExpiresAt(tf, repo[tf].set_at)
BY DEF LevelsInv, TypeOK, LevelsDated

LEMMA EntryUndone ==
  ASSUME LevelsInv, pc # "next"
  PROVE  entry = None
BY DEF LevelsInv, EntryWasGated

\* A step that ends the invocation, whichever directory and push it leaves.
LEMMA EndKeeps ==
  ASSUME LevelsInv, End, now' = now,
         \/ files' = files /\ repo' = files
         \/ files' \in {files, repo} /\ repo' = repo
  PROVE  LevelsInv'
<1> USE DEF End
<1>1. Len(Primaries) \in Nat /\ Len(Primaries) > 0
  BY TrueOpenAssumption
<1>2. TypeOK'
  BY <1>1 DEF LevelsInv, TypeOK, NoLevels, Prices
<1>3. \A tf \in Timeframes : read'[tf] = None
  BY DEF NoLevels
<1>4. LevelsDated'
  BY <1>3 DEF LevelsInv, LevelsDated
<1>5. ReadIsOnFile'
  BY <1>3 DEF ReadIsOnFile, Loaded
<1>6. EntryWasGated'
  BY DEF EntryWasGated
<1>7. PushedOrLater'
  BY DEF LevelsInv, PushedOrLater
<1> QED
  BY <1>2, <1>4, <1>5, <1>6, <1>7 DEF LevelsInv

LEMMA LoadKeeps ==
  ASSUME LevelsInv, NEW tf \in Timeframes, NEW next, Load(tf, next),
         next = IF tf = "weekly" THEN "daily" ELSE "gate"
  PROVE  LevelsInv'
<1> DEFINE level == IF NeedsCapture(now, files[tf])
                    THEN CaptureLevel(tf, Symbol, price[Symbol], now)
                    ELSE files[tf]
<1>1. /\ pc = tf /\ pc' = next /\ Working
      /\ read' = [read EXCEPT ![tf] = level]
      /\ files' = [files EXCEPT ![tf] = IF level = None THEN @ ELSE level]
      /\ UNCHANGED <<now, repo, price, i, entry>>
  BY DEF Load
<1>2. Symbol \in Symbols /\ price[Symbol] \in Prices /\ now \in Instants
  BY <1>1, TrueOpenAssumption DEF LevelsInv, TypeOK, Working, Symbol
<1>3. /\ level # None =>
           /\ level \in Levels /\ level.set_at <= now
           /\ level.expires_at = ExpiresAt(tf, level.set_at)
           /\ now < level.expires_at
      /\ \/ level = files[tf] /\ level # None
         \/ /\ files[tf] # None => now >= files[tf].expires_at
            /\ level # None => level.set_at = now
  <2>1. now \in Nat
    BY <1>2, InstantFacts
  <2>2. CASE NeedsCapture(now, files[tf])
    <3>1. level = CaptureLevel(tf, Symbol, price[Symbol], now)
      BY <2>2
    <3> HIDE DEF level
    <3>2. level # None =>
            /\ level \in Levels /\ level.set_at = now
            /\ level.expires_at = ExpiresAt(tf, now) /\ now < level.expires_at
      BY <1>2, <3>1, CaptureFacts
    <3>3. files[tf] # None => now >= files[tf].expires_at
      BY <2>2 DEF NeedsCapture, IsExpired
    <3> QED
      BY <2>1, <3>2, <3>3
  <2>3. CASE ~NeedsCapture(now, files[tf])
    <3>1. level = files[tf] /\ level # None /\ ~(now >= level.expires_at)
      BY <2>3 DEF NeedsCapture, IsExpired
    <3> HIDE DEF level
    <3>2. /\ level \in Levels /\ level.set_at <= now
          /\ level.expires_at = ExpiresAt(tf, level.set_at)
      BY <3>1, Stored
    <3>3. now < level.expires_at
      BY <2>1, <3>1, <3>2, LevelFacts
    <3> QED
      BY <3>1, <3>2, <3>3
  <2> QED
    BY <2>2, <2>3
<1> HIDE DEF level
<1>4. ASSUME NEW f \in Timeframes, f # tf
      PROVE  files'[f] = files[f] /\ read'[f] = read[f]
  BY <1>1, <1>4 DEF LevelsInv, TypeOK
<1>5. /\ read'[tf] = level
      /\ files'[tf] = IF level = None THEN files[tf] ELSE level
  BY <1>1 DEF LevelsInv, TypeOK
<1>6. TypeOK'
  <2>1. level \in Levels \cup {None} /\ pc' \in {"daily", "gate"}
    BY <1>1, <1>3 DEF Timeframes
  <2> QED
    BY <1>1, <2>1 DEF LevelsInv, TypeOK
<1>7. LevelsDated'
  <2>1. ASSUME NEW f \in Timeframes, NEW l \in {files'[f], repo'[f], read'[f]} \ {None}
        PROVE  l.set_at <= now' /\ l.expires_at = ExpiresAt(f, l.set_at)
    <3>1. CASE f = tf /\ l = level
      BY <1>1, <1>3, <2>1, <3>1
    <3>2. CASE ~(f = tf /\ l = level)
      <4>1. l \in {files[f], repo[f], read[f]} \ {None}
        BY <1>1, <1>4, <1>5, <2>1, <3>2
      <4> QED
        BY <1>1, <4>1 DEF LevelsInv, LevelsDated
    <3> QED
      BY <3>1, <3>2
  <2> QED
    BY <2>1 DEF LevelsDated
<1>8. ReadIsOnFile'
  <2>1. Loaded' = Loaded \cup {tf} /\ tf \notin Loaded
    BY <1>1 DEF Loaded, Timeframes
  <2>2. ASSUME NEW f \in Timeframes, f # tf
        PROVE  read'[f] = IF f \in Loaded' /\ files'[f] # None /\ now' < files'[f].expires_at
                          THEN files'[f] ELSE None
    BY <1>1, <1>4, <2>1, <2>2 DEF LevelsInv, ReadIsOnFile
  <2>3. read'[tf] = IF files'[tf] # None /\ now' < files'[tf].expires_at
                    THEN files'[tf] ELSE None
    <3>1. CASE level # None
      BY <1>1, <1>3, <1>5, <3>1
    <3>2. CASE level = None
      <4>1. files[tf] # None => now >= files[tf].expires_at /\ files[tf].expires_at \in Nat
        BY <1>3, <3>2, Stored, LevelFacts
      <4> QED
        BY <1>1, <1>2, <1>5, <3>2, <4>1, InstantFacts
    <3> QED
      BY <3>1, <3>2
  <2> QED
    BY <2>1, <2>2, <2>3 DEF ReadIsOnFile
<1>9. EntryWasGated'
  <2>1. entry' = None /\ Working'
    BY <1>1, EntryUndone DEF Timeframes, Working
  <2> QED
    BY <2>1 DEF EntryWasGated
<1>10. PushedOrLater'
  <2>1. ASSUME repo[tf] # None
        PROVE  files'[tf] # None /\ (files'[tf] = repo[tf] \/ files'[tf].set_at >= repo[tf].expires_at)
    <3>1. files[tf] # None /\ (files[tf] = repo[tf] \/ files[tf].set_at >= repo[tf].expires_at)
      BY <2>1 DEF LevelsInv, PushedOrLater
    <3>2. CASE files'[tf] = files[tf]
      BY <3>1, <3>2
    <3>3. CASE files'[tf] # files[tf]
      <4>1. files'[tf] = level /\ level # None /\ level.set_at = now
            /\ now >= files[tf].expires_at
        BY <1>3, <1>5, <3>1, <3>3
      <4>2. /\ files[tf].set_at \in Nat /\ files[tf].set_at <= now /\ now \in Nat
            /\ repo[tf].expires_at \in Nat
        BY <2>1, <3>1, Stored, LevelFacts, InstantFacts
      <4> QED
        BY <3>1, <4>1, <4>2
    <3> QED
      BY <3>2, <3>3
  <2> QED
    BY <1>1, <1>4, <2>1 DEF LevelsInv, PushedOrLater
<1> QED
  BY <1>6, <1>7, <1>8, <1>9, <1>10 DEF LevelsInv

LEMMA StepHolds == LevelsInv /\ [Next]_vars => LevelsInv'
<1> SUFFICES ASSUME LevelsInv, [Next]_vars PROVE LevelsInv'
  OBVIOUS
<1>1. Len(Primaries) \in Nat /\ Len(Primaries) > 0
  BY TrueOpenAssumption
<1>2. ASSUME NEW force \in BOOLEAN, EnterLoop(force)
      PROVE  LevelsInv'
  <2> USE <1>2 DEF EnterLoop
  <2>1. TypeOK'
    BY DEF LevelsInv, TypeOK
  <2>2. LevelsDated' /\ PushedOrLater'
    BY DEF LevelsInv, LevelsDated, PushedOrLater
  <2>3. ReadIsOnFile'
    BY DEF LevelsInv, ReadIsOnFile, Loaded
  <2>4. EntryWasGated'
    BY EntryUndone DEF EntryWasGated
  <2> QED
    BY <2>1, <2>2, <2>3, <2>4 DEF LevelsInv
<1>3. ASSUME SpreadRejected
      PROVE  LevelsInv'
  <2> USE <1>3 DEF SpreadRejected
  <2>1. TypeOK'
    BY <1>1 DEF LevelsInv, TypeOK, Working
  <2>2. LevelsDated' /\ PushedOrLater'
    BY DEF LevelsInv, LevelsDated, PushedOrLater
  <2>3. ReadIsOnFile'
    BY DEF LevelsInv, ReadIsOnFile, Loaded
  <2>4. EntryWasGated'
    BY EntryUndone DEF EntryWasGated
  <2> QED
    BY <2>1, <2>2, <2>3, <2>4 DEF LevelsInv
<1>4. ASSUME LoadWeekly
      PROVE  LevelsInv'
  BY <1>4, LoadKeeps DEF LoadWeekly, Timeframes
<1>5. ASSUME LoadDaily
      PROVE  LevelsInv'
  BY <1>5, LoadKeeps DEF LoadDaily, Timeframes
<1>6. ASSUME NEW signal \in Directions \cup {None}, GenerateSignal(signal)
      PROVE  LevelsInv'
  <2> USE <1>6 DEF GenerateSignal
  <2>1. TypeOK'
    BY DEF LevelsInv, TypeOK
  <2>2. LevelsDated' /\ PushedOrLater'
    BY DEF LevelsInv, LevelsDated, PushedOrLater
  <2>3. ReadIsOnFile'
    BY DEF LevelsInv, ReadIsOnFile, Loaded
  <2>4. EntryWasGated'
    <3>1. Working' /\ \A tf \in Timeframes : Bias(tf)' = Bias(tf)
      BY DEF Working, Bias, Symbol
    <3> QED
      BY <3>1 DEF EntryWasGated, Timeframes
  <2> QED
    BY <2>1, <2>2, <2>3, <2>4 DEF LevelsInv
<1>7. ASSUME NextPairSet
      PROVE  LevelsInv'
  <2> USE <1>7 DEF NextPairSet
  <2>1. TypeOK'
    BY <1>1 DEF LevelsInv, TypeOK, Working, NoLevels
  <2>2. \A tf \in Timeframes : read'[tf] = None
    BY DEF NoLevels
  <2>3. LevelsDated' /\ PushedOrLater'
    BY <2>2 DEF LevelsInv, LevelsDated, PushedOrLater
  <2>4. ReadIsOnFile'
    BY <2>2 DEF ReadIsOnFile, Loaded
  <2>5. EntryWasGated'
    BY DEF EntryWasGated
  <2> QED
    BY <2>1, <2>3, <2>4, <2>5 DEF LevelsInv
<1>8. ASSUME Finish
      PROVE  LevelsInv'
  <2>1. End /\ now' = now /\ files' = files /\ repo' = files
    BY <1>8 DEF Finish
  <2> QED
    BY <2>1, EndKeeps
<1>9. ASSUME Fail
      PROVE  LevelsInv'
  <2>1. End /\ now' = now /\ files' \in {files, repo} /\ repo' = repo
    BY <1>9 DEF Fail
  <2> QED
    BY <2>1, EndKeeps
<1>10. ASSUME Tick
       PROVE  LevelsInv'
  <2> USE <1>10 DEF Tick
  <2>1. now' \in Instants /\ now' > now /\ now' \in Nat /\ now \in Nat
    BY InstantFacts DEF LevelsInv, TypeOK
  <2>2. TypeOK'
    BY <2>1 DEF LevelsInv, TypeOK
  <2>3. \A tf \in Timeframes : read[tf] = None
    BY DEF LevelsInv, ReadIsOnFile, Loaded, Timeframes
  <2>4. LevelsDated'
    <3>1. ASSUME NEW tf \in Timeframes, NEW l \in {files'[tf], repo'[tf], read'[tf]} \ {None}
          PROVE  l.set_at <= now' /\ l.expires_at = ExpiresAt(tf, l.set_at)
      <4>1. /\ l.set_at <= now /\ l.expires_at = ExpiresAt(tf, l.set_at)
            /\ l \in Levels
        BY <2>3, <3>1, Stored
      <4>2. l.set_at \in Nat
        BY <4>1, LevelFacts, InstantFacts
      <4> QED
        BY <2>1, <4>1, <4>2
    <3> QED
      BY <3>1 DEF LevelsDated
  <2>5. ReadIsOnFile'
    BY <2>3 DEF ReadIsOnFile, Loaded, Timeframes
  <2>6. EntryWasGated'
    BY EntryUndone DEF EntryWasGated
  <2>7. PushedOrLater'
    BY DEF LevelsInv, PushedOrLater
  <2> QED
    BY <2>2, <2>4, <2>5, <2>6, <2>7 DEF LevelsInv
<1>11. CASE UNCHANGED vars
  BY <1>11 DEF vars, LevelsInv, TypeOK, LevelsDated, ReadIsOnFile, Loaded, EntryWasGated,
               PushedOrLater, Working, Bias, Symbol
<1> QED
  BY <1>2, <1>3, <1>4, <1>5, <1>6, <1>7, <1>8, <1>9, <1>10, <1>11 DEF Next

-----------------------------------------------------------------------------
(* Weekly levels of open days *)

SetOnOpenDay(level) ==
  /\ ~IsLowLiquidity(DateAt(level.set_at))
  /\ IsFullTradingWeek(WeekStartFor(ToNy(level.set_at)))

\* Every step but a capture leaves weekly levels that were there.
LEMMA OldLevelsOpen ==
  ASSUME SetOnOpenDays,
         \A level \in {files'["weekly"], repo'["weekly"], read'["weekly"]} :
           level \in {files["weekly"], repo["weekly"], read["weekly"], None},
         pc' # "idle" => (pc # "idle" /\ now' = now) \/ ~IsLowLiquidity(DateAt(now'))
  PROVE  SetOnOpenDays'
BY DEF SetOnOpenDays

LEMMA LoadWeeklyOpen ==
  ASSUME LevelsInv, SetOnOpenDays, LoadWeekly
  PROVE  SetOnOpenDays'
<1> DEFINE level == IF NeedsCapture(now, files["weekly"])
                    THEN CaptureLevel("weekly", Symbol, price[Symbol], now)
                    ELSE files["weekly"]
<1>1. /\ pc = "weekly" /\ pc' = "daily" /\ now' = now /\ repo' = repo
      /\ read'["weekly"] = level
      /\ files'["weekly"] = IF level = None THEN files["weekly"] ELSE level
  BY DEF LoadWeekly, Load, LevelsInv, TypeOK, Timeframes
<1>2. ~IsLowLiquidity(DateAt(now))
  BY <1>1 DEF SetOnOpenDays
<1>3. ASSUME level # None PROVE SetOnOpenDay(level)
  <2>1. CASE NeedsCapture(now, files["weekly"])
    <3>1. level = CaptureLevel("weekly", Symbol, price[Symbol], now)
      BY <2>1
    <3> HIDE DEF level
    <3>2. IsFullTradingWeek(WeekStartFor(ToNy(now))) /\ level.set_at = now
      BY <1>3, <3>1 DEF CaptureLevel
    <3> QED
      BY <1>2, <3>2 DEF SetOnOpenDay
  <2>2. CASE ~NeedsCapture(now, files["weekly"])
    <3>1. level = files["weekly"] /\ files["weekly"] # None
      BY <1>3, <2>2
    <3> HIDE DEF level
    <3> QED
      BY <3>1 DEF SetOnOpenDays, SetOnOpenDay
  <2> QED
    BY <2>1, <2>2
<1> HIDE DEF level
<1>4. ASSUME NEW l \in {files'["weekly"], repo'["weekly"], read'["weekly"]} \ {None}
      PROVE  SetOnOpenDay(l)
  <2>1. CASE l = level
    BY <1>3, <1>4, <2>1
  <2>2. CASE l \in {files["weekly"], repo["weekly"]}
    BY <1>4, <2>2 DEF SetOnOpenDays, SetOnOpenDay
  <2> QED
    BY <1>1, <1>4, <2>1, <2>2
<1> QED
  BY <1>1, <1>2, <1>4 DEF SetOnOpenDays, SetOnOpenDay

LEMMA OpenDaysStep ==
  ASSUME LevelsInv, SetOnOpenDays, [Next]_vars
  PROVE  SetOnOpenDays'
<1>1. CASE LoadWeekly
  BY <1>1, LoadWeeklyOpen
<1>2. CASE LoadDaily
  <2>1. /\ files'["weekly"] = files["weekly"] /\ read'["weekly"] = read["weekly"]
        /\ repo' = repo /\ now' = now /\ pc # "idle"
    BY <1>2 DEF LoadDaily, Load, LevelsInv, TypeOK, Timeframes
  <2> QED
    BY <2>1, OldLevelsOpen
<1>3. CASE \E force \in BOOLEAN : EnterLoop(force)
  BY <1>3, OldLevelsOpen DEF EnterLoop
<1>4. CASE SpreadRejected \/ \E signal \in Directions \cup {None} : GenerateSignal(signal)
  BY <1>4, OldLevelsOpen DEF SpreadRejected, GenerateSignal
<1>5. CASE NextPairSet
  <2>1. read'["weekly"] = None /\ UNCHANGED <<now, files, repo>> /\ pc # "idle"
    BY <1>5 DEF NextPairSet, NoLevels, Timeframes
  <2> QED
    BY <2>1, OldLevelsOpen
<1>6. CASE Finish \/ Fail
  <2>1. /\ read'["weekly"] = None /\ pc' = "idle"
        /\ files' \in {files, repo} /\ repo' \in {files, repo}
    BY <1>6 DEF Finish, Fail, End, NoLevels, Timeframes
  <2> QED
    BY <2>1, OldLevelsOpen
<1>7. CASE Tick
  BY <1>7, OldLevelsOpen DEF Tick
<1>8. CASE UNCHANGED vars
  BY <1>8, OldLevelsOpen DEF vars
<1> QED
  BY <1>1, <1>2, <1>3, <1>4, <1>5, <1>6, <1>7, <1>8 DEF Next

\* Every level was set in the past and ends with its period, a pair-set has loaded
\* what is on file and valid and nothing else, the directory is never behind the last
\* push, and weekly levels are of open days. (load_or_capture_bias, the entry loop of
\* run_real_cycle, the job's push)
THEOREM InductiveInvariant == Spec => []IInv
<1>1. Init => IInv
  <2>1. Init => SetOnOpenDays
    BY DEF Init, NoLevels, SetOnOpenDays, Timeframes
  <2> QED
    BY <2>1, InitHolds DEF IInv
<1>2. IInv /\ [Next]_vars => IInv'
  BY StepHolds, OpenDaysStep DEF IInv
<1> QED
  BY <1>1, <1>2, PTL DEF Spec

LEMMA LevelsInvariant == Spec => []LevelsInv
<1>1. IInv => LevelsInv
  BY DEF IInv
<1> QED
  BY <1>1, InductiveInvariant, PTL

\* The variables stay in their types.
THEOREM TypeCorrect == Spec => []TypeOK
<1>1. LevelsInv => TypeOK
  BY DEF LevelsInv
<1> QED
  BY <1>1, LevelsInvariant, PTL

-----------------------------------------------------------------------------
(* What it implies *)

\* A level on file is loaded exactly if its period is not over.
LEMMA LoadedIfValid ==
  ASSUME LevelsInv, NEW tf \in Loaded
  PROVE  /\ read[tf] # None <=> files[tf] # None /\ ~Lapsed(tf, files[tf].set_at, now)
         /\ read[tf] # None => read[tf] = files[tf]
<1>1. tf \in Timeframes
  BY DEF Loaded
<1>2. read[tf] = IF files[tf] # None /\ now < files[tf].expires_at THEN files[tf] ELSE None
  BY <1>1 DEF LevelsInv, ReadIsOnFile
<1>3. ASSUME files[tf] # None
      PROVE  now < files[tf].expires_at <=> ~Lapsed(tf, files[tf].set_at, now)
  <2>1. /\ files[tf].set_at \in Instants /\ files[tf].expires_at \in Nat /\ now \in Instants
        /\ files[tf].expires_at = ExpiresAt(tf, files[tf].set_at)
    BY <1>1, <1>3, Stored, LevelFacts
  <2>2. files[tf].expires_at <= now <=> Lapsed(tf, files[tf].set_at, now)
    BY <1>1, <2>1, ExpiryIsLapse
  <2> QED
    BY <2>1, <2>2, InstantFacts
<1> QED
  BY <1>2, <1>3

\* A pair-set is never judged by a level of an earlier week or day, at whatever
\* second, across a change of the clocks, or after an old directory was checked out.
\* (TrueOpen::is_expired, needs_capture, load_or_capture_bias)
THEOREM LevelsOfTheirPeriod == Spec => []LevelOfItsPeriod
<1>1. LevelsInv => LevelOfItsPeriod
  <2> SUFFICES ASSUME LevelsInv, NEW tf \in Timeframes, read[tf] # None
               PROVE  ~Lapsed(tf, read[tf].set_at, now)
    BY DEF LevelOfItsPeriod
  <2>1. tf \in Loaded
    BY DEF LevelsInv, ReadIsOnFile
  <2> QED
    BY <2>1, LoadedIfValid
<1> QED
  BY <1>1, LevelsInvariant, PTL

\* A bias is neutral without a level, and else says on which side of it the price is.
LEMMA BiasFacts ==
  ASSUME NEW p \in Prices, NEW level \in Levels \cup {None}
  PROVE  LET bias == BiasFromPrice(p, level)
         IN  /\ level = None => bias = "Neutral"
             /\ level # None =>
                  /\ bias = "Neutral" <=> level.level = p
                  /\ bias = "Buy" <=> p > level.level
                  /\ bias = "Sell" <=> p < level.level
<1>1. Prices \subseteq Nat
  BY TrueOpenAssumption DEF Prices
<1>2. CASE level = None
  BY <1>2 DEF BiasFromPrice
<1>3. CASE level # None
  <2>1. p \in Nat /\ level.level \in Nat
    BY <1>1, <1>3, LevelFacts
  <2>2. BiasFromPrice(p, level) =
          IF p > level.level THEN "Buy" ELSE IF p < level.level THEN "Sell" ELSE "Neutral"
    BY <1>3 DEF BiasFromPrice
  <2> QED
    BY <1>3, <2>1, <2>2
<1> QED
  BY <1>2, <1>3

\* An entry let through is on the right side of the weekly level if one of this week is
\* on file and differs from the price, else of the daily level. (true_open_gate)
THEOREM EntriesFollow == Spec => []EntryFollowsTheFiles
<1>1. LevelsInv => EntryFollowsTheFiles
  <2> SUFFICES ASSUME LevelsInv, entry # None
               PROVE  EntryFollowsTheFiles
    BY DEF EntryFollowsTheFiles
  <2> DEFINE p == price[Symbol]
             valid(tf) == files[tf] # None /\ ~Lapsed(tf, files[tf].set_at, now)
             decides(tf) == valid(tf) /\ files[tf].level # p
  <2>1. /\ pc = "next" /\ Working /\ entry \in Directions
        /\ TrueOpenGate(Bias("weekly"), Bias("daily"), entry)
    BY DEF LevelsInv, TypeOK, EntryWasGated
  <2>2. p \in Prices
    BY <2>1, TrueOpenAssumption DEF LevelsInv, TypeOK, Working, Symbol
  <2>3. Loaded = Timeframes
    BY <2>1 DEF Loaded
  <2>4. ASSUME NEW tf \in Timeframes
        PROVE  /\ decides(tf) <=> Bias(tf) # "Neutral"
               /\ decides(tf) =>
                    /\ Bias(tf) = "Buy" <=> p > files[tf].level
                    /\ Bias(tf) \in Directions
    <3>1. /\ read[tf] # None <=> valid(tf)
          /\ read[tf] # None => read[tf] = files[tf]
      BY <2>3, LoadedIfValid
    <3>2. /\ files[tf] \in Levels \cup {None} /\ read[tf] \in Levels \cup {None}
      BY Stored
    <3> HIDE DEF valid, p
    <3>3. Bias(tf) = BiasFromPrice(p, read[tf])
      BY DEF Bias, p
    <3>4. CASE read[tf] = None
      BY <2>2, <3>1, <3>2, <3>3, <3>4, BiasFacts
    <3>5. CASE read[tf] # None
      <4>1. /\ Bias(tf) = "Neutral" <=> files[tf].level = p
            /\ Bias(tf) = "Buy" <=> p > files[tf].level
        BY <2>2, <3>1, <3>2, <3>3, <3>5, BiasFacts
      <4>2. Bias(tf) \in {"Buy", "Sell", "Neutral"}
        BY <3>3 DEF BiasFromPrice
      <4> QED
        BY <3>1, <3>5, <4>1, <4>2 DEF Directions
    <3> QED
      BY <3>4, <3>5
  <2>5. ASSUME decides("weekly")
        PROVE  (entry = "Buy") <=> (p > files["weekly"].level)
    <3>1. "weekly" \in Timeframes
      BY DEF Timeframes
    <3>2. Bias("weekly") # "Neutral" /\ (Bias("weekly") = "Buy" <=> p > files["weekly"].level)
      BY <2>4, <2>5, <3>1
    <3>3. entry = Bias("weekly")
      BY <2>1, <3>2 DEF TrueOpenGate
    <3> QED
      BY <3>2, <3>3
  <2>6. ASSUME ~decides("weekly"), decides("daily")
        PROVE  (entry = "Buy") <=> (p > files["daily"].level)
    <3>1. "weekly" \in Timeframes /\ "daily" \in Timeframes
      BY DEF Timeframes
    <3>2. /\ Bias("weekly") = "Neutral" /\ Bias("daily") # "Neutral"
          /\ Bias("daily") = "Buy" <=> p > files["daily"].level
      BY <2>4, <2>6, <3>1
    <3>3. entry = Bias("daily")
      BY <2>1, <3>2 DEF TrueOpenGate
    <3> QED
      BY <3>2, <3>3
  <2> QED
    BY <2>5, <2>6 DEF EntryFollowsTheFiles
<1> QED
  BY <1>1, LevelsInvariant, PTL

\* Once pushed, a level stays the same until its period is over, whatever fails in
\* between and whichever directory is left. (execute_monitor_and_publish_job)
THEOREM PushedHold == Spec => PushedLevelsHold
<1>1. LevelsInv /\ [Next]_vars =>
        [\A tf \in Timeframes :
           repo[tf] # None /\ repo'[tf] # repo[tf] =>
             /\ repo'[tf] # None
             /\ Lapsed(tf, repo[tf].set_at, repo'[tf].set_at)]_vars
  <2> SUFFICES ASSUME LevelsInv, [Next]_vars, NEW tf \in Timeframes,
                      repo[tf] # None, repo'[tf] # repo[tf]
               PROVE  repo'[tf] # None /\ Lapsed(tf, repo[tf].set_at, repo'[tf].set_at)
    OBVIOUS
  <2>1. repo' = files
    BY DEF Next, vars, EnterLoop, SpreadRejected, LoadWeekly, LoadDaily, Load,
           GenerateSignal, NextPairSet, Finish, Fail, Tick
  <2>2. files[tf] # None /\ files[tf].set_at >= repo[tf].expires_at
    BY <2>1 DEF LevelsInv, PushedOrLater
  <2>3. /\ files[tf].set_at \in Instants /\ repo[tf].set_at \in Instants
        /\ repo[tf].expires_at \in Nat
        /\ repo[tf].expires_at = ExpiresAt(tf, repo[tf].set_at)
    BY <2>2, Stored, LevelFacts
  <2>4. ExpiresAt(tf, repo[tf].set_at) <= files[tf].set_at
    BY <2>2, <2>3, InstantFacts
  <2> QED
    BY <2>1, <2>2, <2>3, <2>4, ExpiryIsLapse
<1> QED
  BY <1>1, LevelsInvariant, PTL DEF Spec, PushedLevelsHold

-----------------------------------------------------------------------------
(* Weeks that open on a holiday *)

\* In the week after Christmas Sunday the loop does not run at all; in New Year's week
\* a level in force would have been set after the Monday boundary of the week before,
\* which is closed, or in this week, which is not full.
LEMMA HolidayWeekHasNoLevel ==
  ASSUME IInv
  PROVE  PartialWeekHasNoLevel
<1> DEFINE today == DateAt(ToNy(now))
           sunday == SundayOf(today)
<1> SUFFICES ASSUME pc \in {"daily", "gate", "next"}, IsHoliday(sunday),
                    read["weekly"] # None
             PROVE  FALSE
  BY DEF PartialWeekHasNoLevel, SundayOf
<1> DEFINE s == read["weekly"].set_at
           day == DateAt(ToNy(s))
<1>1. now \in Instants /\ s \in Instants /\ s <= now
  BY Stored, LevelFacts DEF IInv, LevelsInv, LevelsDated, Timeframes
<1>2. /\ ~IsLowLiquidity(DateAt(now)) /\ ~IsLowLiquidity(DateAt(s))
      /\ IsFullTradingWeek(WeekStartFor(ToNy(s)))
  BY DEF IInv, SetOnOpenDays
<1>3. ~Lapsed("weekly", s, now)
  <2>1. "weekly" \in Timeframes
    BY DEF Timeframes
  <2>2. "weekly" \in Loaded
    BY <2>1 DEF Loaded, Timeframes
  <2> QED
    BY <2>1, <2>2, LoadedIfValid DEF IInv
<1> HIDE DEF s
<1>4. /\ now \in Nat /\ now \in Int /\ s \in Nat /\ s \in Int /\ DateAt(now) < DateOf(2100, 1, 1)
      /\ DateAt(s) < DateOf(2100, 1, 1)
      /\ ToNy(now) \in Int /\ ToNy(s) \in Int
  BY <1>1, InstantFacts
<1>5. /\ today \in Int /\ DateAt(now) \in {today, today + 1} /\ DateAt(now) \in Int
      /\ day \in Int /\ DateAt(s) \in {day, day + 1} /\ DateAt(s) \in Int
  BY <1>4, LocalDate
<1>6. /\ sunday \in Int /\ Weekday(sunday) = 0 /\ sunday <= today /\ today <= sunday + 6
      /\ SundayOf(day) \in Int /\ Weekday(SundayOf(day)) = 0
      /\ SundayOf(day) <= day /\ day <= SundayOf(day) + 6
  BY <1>5, SundayFacts
<1>7. SundayOf(day) # sunday
  BY <1>2, <1>4, FullWeekOpensOpen
<1>8. DateAt(now) >= 0 /\ DateOf(2100, 1, 1) \in Int
  <2>1. DateAt(now) >= 0
    BY <1>4, Units, SMT DEF DateAt
  <2> QED
    BY <2>1, NewYear, SMT
<1> DEFINE local == ToNy(now)
           from == ToNy(s)
<1>9. /\ today * 86400 <= local /\ local < today * 86400 + 86400
      /\ day * 86400 <= from /\ from < day * 86400 + 86400
  BY <1>4, Units, SMT DEF DateAt
<1> HIDE DEF today, day, local, from
<1> HIDE DEF sunday
<1>10. PICK y \in 1969..2099 : sunday \in {DateOf(y, 1, 1), DateOf(y, 12, 25)}
  <2>1. sunday >= -365 /\ sunday < DateOf(2100, 1, 1)
    BY <1>4, <1>5, <1>6, <1>8, SMT
  <2> QED
    BY <1>6, <2>1, SundayHolidays
<1>11. sunday # DateOf(y, 12, 25)
  <2> SUFFICES ASSUME sunday = DateOf(y, 12, 25) PROVE FALSE
    OBVIOUS
  <2>1. DateAt(now) \in sunday..(sunday + 7)
    BY <1>5, <1>6, SMT
  <2>2. DateAt(now) \in ChristmasToNewYear(y)
    BY <2>1 DEF ChristmasToNewYear
  <2>3. IsLowLiquidity(DateAt(now))
    BY <2>2, ChristmasToNewYearIsClosed
  <2> QED
    BY <1>2, <2>3
<1>12. day < sunday \/ day >= sunday + 7
  <2>1. \A a, b \in Int : Weekday(a) = 0 /\ Weekday(b) = 0 /\ a # b => a >= b + 7 \/ a + 7 <= b
    BY SMT DEF Weekday
  <2>2. SundayOf(day) >= sunday + 7 \/ SundayOf(day) + 7 <= sunday
    BY <1>6, <1>7, <2>1
  <2> QED
    BY <1>5, <1>6, <2>2, SMT
<1>13. ~(day >= sunday + 7)
  <2> SUFFICES ASSUME day >= sunday + 7 PROVE FALSE
    OBVIOUS
  <2> DEFINE d == sunday + 7
  <2>1. d \in Int /\ d * 86400 + 0 <= from /\ local < d * 86400 + 0
    BY <1>4, <1>5, <1>6, <1>9, SMT DEF local, from
  <2> HIDE DEF d
  <2>2. /\ FromNy(d * 86400 + 0) <= s <=> d * 86400 + 0 <= from
        /\ FromNy(d * 86400 + 0) <= now <=> d * 86400 + 0 <= local
    BY <1>4, <2>1, BoundaryIsInstant DEF local, from
  <2>3. FromNy(d * 86400 + 0) \in Int
    <3>1. d * 86400 + 0 \in Int
      BY <2>1, SMT
    <3> QED
      BY <3>1, FromNyFacts
  <2> DEFINE u == FromNy(d * 86400 + 0)
  <2>4. u \in Int /\ u <= s /\ ~(u <= now)
    <3>1. ~(d * 86400 + 0 <= local)
      BY <1>4, <2>1, SMT DEF local
    <3> QED
      BY <2>1, <2>2, <2>3, <3>1
  <2> HIDE DEF u
  <2> QED
    BY <1>1, <1>4, <2>4, SMT
<1>14. sunday - 6 <= day /\ day <= sunday - 1
  <2> DEFINE monday == sunday - 6
             boundary == monday * Day + 18 * Hour
  <2>1. monday \in Int /\ boundary \in Int /\ Weekday(monday) = Monday
    <3>1. \A a \in Int : Weekday(a) = 0 => Weekday(a - 6) = 1
      BY SMT DEF Weekday
    <3> QED
      BY <1>6, <3>1, Units, SMT
  <2>2. boundary <= local /\ monday <= today
    <3>1. boundary = (sunday - 6) * 86400 + 64800
      BY <1>6, Units, SMT
    <3>2. local \in Int
      BY <1>4 DEF local
    <3> HIDE DEF boundary
    <3> QED
      BY <1>5, <1>6, <1>9, <3>1, <3>2, SMT
  <2>3. day <= sunday - 1
    BY <1>5, <1>6, <1>12, <1>13, SMT
  <2>4. ASSUME day < monday PROVE FALSE
    <3>1. monday \in day..today /\ from < boundary
      BY <1>4, <1>5, <1>9, <2>1, <2>2, <2>4, Units, SMT DEF from
    <3> HIDE DEF monday
    <3>2. Lapsed("weekly", s, now)
      BY <2>1, <2>2, <3>1 DEF Lapsed, from, local, day, today
    <3> QED
      BY <1>3, <3>2
  <2> QED
    BY <1>5, <1>6, <2>3, <2>4, SMT
<1>15. PICK last \in 1969..2099 : sunday = DateOf(last, 12, 25) + 7
  <2>1. sunday = DateOf(y, 1, 1)
    BY <1>10, <1>11
  <2>2. y - 1 \in Int /\ y - 1 + 1 = y /\ y \in Int
    BY SMT
  <2>3. DateOf(y, 1, 1) = DateOf(y - 1, 12, 25) + 7
    BY <2>2, ChristmasDate
  <2>4. y # 1969
    <3>1. DateOf(1969, 1, 1) = -365
      BY NewYear, SMT
    <3>2. sunday >= -365 /\ sunday # -365
      BY <1>5, <1>6, <1>8, SMT
    <3> QED
      BY <2>1, <3>1, <3>2
  <2>5. y - 1 \in 1969..2099
    BY <2>4, SMT
  <2> QED
    BY <2>1, <2>3, <2>5
<1>16. DateAt(s) \in DateOf(last, 12, 25)..(DateOf(last, 12, 25) + 7)
  <2>1. last \in Int
    BY SMT
  <2>2. DateOf(last, 12, 25) \in Int
    BY <2>1, ChristmasDate
  <2> QED
    BY <1>5, <1>14, <1>15, <2>2, SMT
<1>17. DateAt(s) \in ChristmasToNewYear(last)
  BY <1>16 DEF ChristmasToNewYear
<1>18. IsLowLiquidity(DateAt(s))
  BY <1>17, ChristmasToNewYearIsClosed
<1> QED
  BY <1>2, <1>18

\* In a week that opens on a holiday no weekly level is ever used, although a level is
\* never compared with the week it is used in: the low-liquidity days see to it, for
\* every instant until 2099. (capture_level, is_full_trading_week, is_low_liquidity)
THEOREM PartialWeeks == Spec => []PartialWeekHasNoLevel
  BY HolidayWeekHasNoLevel, InductiveInvariant, PTL

-----------------------------------------------------------------------------
(* Macro cycle windows *)

LEMMA LeastOfThree ==
  ASSUME NEW a \in Int, NEW b \in Int, NEW c \in Int
  PROVE  /\ Min({a, b, c}) \in {a, b, c}
         /\ \A x \in {a, b, c} : Min({a, b, c}) <= x
<1>1. \E x \in {a, b, c} : \A y \in {a, b, c} : x <= y
  <2>1. CASE a <= b /\ a <= c    BY <2>1
  <2>2. CASE b <= a /\ b <= c    BY <2>2
  <2>3. CASE c <= a /\ c <= b    BY <2>3
  <2> QED
    BY <2>1, <2>2, <2>3
<1> QED
  BY <1>1 DEF Min

\* Whole minutes between two local times.
MinutesApart(x, c) == (IF x < c THEN c - x ELSE x - c) \div Minute

LEMMA ApartFacts ==
  ASSUME NEW x \in Int, NEW c \in Int
  PROVE  /\ MinutesApart(x, c) \in Int
         /\ MinutesApart(x, c) <= 10 <=> -660 < x - c /\ x - c < 660
<1>1. MinutesApart(x, c) = (IF x < c THEN c - x ELSE x - c) \div 60
  BY DEF MinutesApart, Minute
<1> QED
  BY <1>1, SMT

\* The centers of an hour nearest to a local time.
Center(x, h, e) == (DateAt(x) + e) * 86400 + h * 3600

LEMMA NearestCenter ==
  ASSUME NEW x \in Int, NEW h \in Int
  PROVE  MinutesFromCycleCenter(x, h) <= 10 <=>
           \E e \in {-1, 0, 1} : -660 < x - Center(x, h, e) /\ x - Center(x, h, e) < 660
<1> DEFINE near(e) == MinutesApart(x, Center(x, h, e))
<1>1. DateAt(x) \in Int
  BY Units, SMT DEF DateAt
<1>2. \A e \in {-1, 0, 1} : Center(x, h, e) \in Int
  BY <1>1, SMT DEF Center
<1>3. MinutesFromCycleCenter(x, h) = Min({near(-1), near(0), near(1)})
  <2> DEFINE center == DateAt(x) * Day + h * Hour
  <2>1. /\ center - Day = Center(x, h, -1) /\ center = Center(x, h, 0)
        /\ center + Day = Center(x, h, 1)
    BY <1>1, Units, SMT DEF Center
  <2>2. MinutesFromCycleCenter(x, h) =
          Min({MinutesApart(x, center - Day), MinutesApart(x, center),
               MinutesApart(x, center + Day)})
    BY DEF MinutesFromCycleCenter, MinutesApart
  <2> HIDE DEF center
  <2> QED
    BY <2>1, <2>2
<1>4. \A e \in {-1, 0, 1} :
        /\ near(e) \in Int
        /\ near(e) <= 10 <=> -660 < x - Center(x, h, e) /\ x - Center(x, h, e) < 660
  <2> SUFFICES ASSUME NEW e \in {-1, 0, 1}
               PROVE  /\ near(e) \in Int
                      /\ near(e) <= 10 <=>
                           -660 < x - Center(x, h, e) /\ x - Center(x, h, e) < 660
    OBVIOUS
  <2>1. PICK c \in Int : c = Center(x, h, e)
    BY <1>2
  <2>2. /\ MinutesApart(x, c) \in Int
        /\ MinutesApart(x, c) <= 10 <=> -660 < x - c /\ x - c < 660
    BY ApartFacts
  <2> QED
    BY <2>1, <2>2
<1> HIDE DEF near
<1>5. /\ Min({near(-1), near(0), near(1)}) \in {near(-1), near(0), near(1)}
      /\ \A y \in {near(-1), near(0), near(1)} : Min({near(-1), near(0), near(1)}) <= y
  BY <1>4, LeastOfThree
<1> DEFINE least == Min({near(-1), near(0), near(1)})
<1> HIDE DEF least
<1>6. least \in {near(-1), near(0), near(1)} /\ least \in Int
  BY <1>4, <1>5 DEF least
<1>7. least <= 10 <=> \E e \in {-1, 0, 1} : near(e) <= 10
  <2>1. ASSUME NEW e \in {-1, 0, 1}, near(e) <= 10 PROVE least <= 10
    <3>1. least <= near(e) /\ near(e) \in Int
      BY <1>4, <1>5 DEF least
    <3> QED
      BY <1>6, <2>1, <3>1, SMT
  <2> QED
    BY <1>6, <2>1
<1> QED
  BY <1>3, <1>4, <1>7 DEF least

\* HALF_WIDTH_MINUTES is 10, and what is compared with it are whole minutes: an instant
\* is within a macro cycle exactly if New York's clock is less than 11 minutes from a
\* multiple of three hours, over midnights and changes of the clock as well.
\* (minutes_from_cycle_center, is_within_macro_cycle)
THEOREM WindowsOfElevenMinutes ==
  ASSUME NEW t \in Int
  PROVE  IsWithinMacroCycle(t) <=>
           \E k \in Int : -660 < ToNy(t) - 10800 * k /\ ToNy(t) - 10800 * k < 660
<1> DEFINE x == ToNy(t)
           d == DateAt(x)
<1>1. x \in Int
  BY ToNyFacts
<1>2. d \in Int /\ d * 86400 <= x /\ x < d * 86400 + 86400
  BY <1>1, Units, SMT DEF DateAt
<1> HIDE DEF x
<1>3. \A h \in MacroCycleHours : h \in 0..21
  BY SMT DEF MacroCycleHours
<1>4. IsWithinMacroCycle(t) <=>
        \E h \in MacroCycleHours : \E e \in {-1, 0, 1} :
          -660 < x - Center(x, h, e) /\ x - Center(x, h, e) < 660
  <2>1. \A h \in MacroCycleHours :
          MinutesFromCycleCenter(x, h) <= 10 <=>
            \E e \in {-1, 0, 1} : -660 < x - Center(x, h, e) /\ x - Center(x, h, e) < 660
    <3>1. \A h \in MacroCycleHours : h \in Int
      BY <1>3, SMT
    <3> QED
      BY <1>1, <3>1, NearestCenter
  <2>2. IsWithinMacroCycle(t) <=>
          \E h \in MacroCycleHours : MinutesFromCycleCenter(x, h) <= 10
    BY DEF IsWithinMacroCycle, HalfWidth, x
  <2> QED
    BY <2>1, <2>2
<1>5. ASSUME NEW h \in MacroCycleHours, NEW e \in {-1, 0, 1}
      PROVE  \E k \in Int : Center(x, h, e) = 10800 * k
  <2>1. PICK j \in 0..7 : h = 3 * j
    BY <1>5, SMT DEF MacroCycleHours
  <2>2. Center(x, h, e) = 10800 * (8 * (d + e) + j) /\ 8 * (d + e) + j \in Int
    BY <1>2, <2>1, SMT DEF Center
  <2> QED
    BY <2>2
<1>6. ASSUME NEW k \in Int, -660 < x - 10800 * k, x - 10800 * k < 660
      PROVE  \E h \in MacroCycleHours : \E e \in {-1, 0, 1} : Center(x, h, e) = 10800 * k
  <2>1. PICK q \in Int, j \in 0..7 : k = 8 * q + j
    <3>1. k \div 8 \in Int /\ k % 8 \in 0..7 /\ k = 8 * (k \div 8) + (k % 8)
      BY SMT
    <3> QED
      BY <3>1
  <2>2. 3 * j \in MacroCycleHours
    BY <2>1, SMT DEF MacroCycleHours
  <2>3. q - d \in {-1, 0, 1}
    <3> HIDE DEF d
    <3> QED
      BY <1>1, <1>2, <1>6, <2>1, SMT
  <2>4. Center(x, 3 * j, q - d) = 10800 * k
    <3>1. Center(x, 3 * j, q - d) = (d + (q - d)) * 86400 + 3 * j * 3600
      BY DEF Center
    <3> HIDE DEF d
    <3>2. d + (q - d) = q
      BY <1>2, SMT
    <3> QED
      BY <2>1, <3>1, <3>2, SMT
  <2> QED
    BY <2>2, <2>3, <2>4
<1> HIDE DEF d
<1> QED
  BY <1>4, <1>5, <1>6 DEF x

=============================================================================

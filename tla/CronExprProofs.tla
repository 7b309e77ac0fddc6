--------------------------- MODULE CronExprProofs ---------------------------
(***************************************************************************)
(* Lemmas about cron expressions: what parsing makes of a field, which     *)
(* minutes share an hour, a day or a month, what Date answers around the   *)
(* change of the clock, and that an iteration of the search passes over no *)
(* run time.  They hold for every calendar.                                *)
(***************************************************************************)
EXTENDS CronExpr, WellFoundedInduction, TLAPS

-----------------------------------------------------------------------------
(* Integer division.                                                       *)

LEMMA Quotient ==
  ASSUME NEW d \in Nat \ {0}, NEW n \in Int
  PROVE  /\ n \div d \in Int /\ n % d \in 0..(d - 1)
         /\ n = d * (n \div d) + (n % d)
OBVIOUS

LEMMA QuotientIs ==
  ASSUME NEW d \in Nat \ {0}, NEW n \in Int, NEW q \in Int, d * q <= n, n < d * q + d
  PROVE  n \div d = q /\ n % d = n - d * q
<1> DEFINE p == n \div d
           r == n % d
<1>1. p \in Int /\ r \in 0..(d - 1) /\ n = d * p + r
  BY Quotient
<1> HIDE DEF p, r
<1>2. q - p >= 1 => d * (q - p) >= d
  BY <1>1
<1>3. p - q >= 1 => d * (p - q) >= d
  BY <1>1
<1>4. d * (q - p) = d * q - d * p /\ d * (p - q) = d * p - d * q
  BY <1>1
<1>5. p = q
  BY <1>1, <1>2, <1>3, <1>4
<1> QED
  BY <1>1, <1>5 DEF p, r

LEMMA Multiple ==
  ASSUME NEW d \in Nat \ {0}, NEW q \in Int
  PROVE  d * q \in Int /\ (d * q) % d = 0
<1>1. d * q \in Int /\ d * q < d * q + d
  OBVIOUS
<1>2. (d * q) % d = d * q - d * q
  BY <1>1, QuotientIs
<1> QED
  BY <1>1, <1>2

\* The numbers with the same quotient as n.
LEMMA SameQuotient ==
  ASSUME NEW d \in Nat \ {0}, NEW n \in Int
  PROVE  /\ n - (n % d) \in Int
         /\ (n - (n % d)) % d = 0
         /\ n - (n % d) <= n /\ n < n - (n % d) + d
         /\ \A v \in Int : n - (n % d) <= v /\ v < n - (n % d) + d => v \div d = n \div d
<1> DEFINE q == n \div d
           r == n % d
<1>1. q \in Int /\ r \in 0..(d - 1) /\ n = d * q + r /\ d * q \in Int
  BY Quotient
<1> HIDE DEF q, r
<1>2. (d * q) % d = 0
  BY <1>1, Multiple
<1>3. ASSUME NEW v \in Int, d * q <= v, v < d * q + d
      PROVE  v \div d = q
  BY <1>1, <1>3, QuotientIs
<1>4. n - r = d * q
  BY <1>1
<1>5. n - r \in Int /\ (n - r) % d = 0 /\ n - r <= n /\ n < n - r + d
  BY <1>1, <1>2, <1>4
<1>6. \A v \in Int : n - r <= v /\ v < n - r + d => v \div d = q
  BY <1>3, <1>4
<1> QED
  BY <1>5, <1>6 DEF q, r

\* Two multiples are a whole divisor apart.
LEMMA MultiplesApart ==
  ASSUME NEW d \in Nat \ {0}, NEW x \in Int, NEW y \in Int, x % d = 0, y % d = 0, x < y
  PROVE  x + d <= y
<1> DEFINE p == x \div d
           q == y \div d
<1>1. p \in Int /\ q \in Int /\ x = d * p /\ y = d * q
  BY Quotient
<1> HIDE DEF p, q
<1>2. q <= p => d * q <= d * p
  BY <1>1
<1>3. q >= p + 1
  BY <1>1, <1>2
<1>4. d * (q - p) = d * q - d * p
  BY <1>1
<1>5. d * (q - p) >= d
  BY <1>1, <1>3
<1> QED
  BY <1>1, <1>4, <1>5

LEMMA MultipleSum ==
  ASSUME NEW d \in Nat \ {0}, NEW n \in Int, NEW k \in Int, n % d = 0
  PROVE  n + k * d \in Int /\ (n + k * d) % d = 0
<1> DEFINE q == n \div d
<1>1. q \in Int /\ n = d * q
  BY Quotient
<1> HIDE DEF q
<1>2. n + k * d = d * (q + k) /\ q + k \in Int /\ d * (q + k) \in Int
  BY <1>1
<1>3. (d * (q + k)) % d = 0
  BY <1>2, Multiple
<1> QED
  BY <1>2, <1>3

-----------------------------------------------------------------------------
(* The calendar.                                                           *)

LEMMA CalendarTypes ==
  /\ DayLength \in Nat \ {0} /\ DayLength >= MinutesPerHour
  /\ DayLength % MinutesPerHour = 0
  /\ YearDays \in Nat \ {0}
  /\ \A n \in 1..Len(DaysBefore) : DaysBefore[n] \in Nat /\ DaysBefore[n] <= YearDays
  /\ \A m \in Months : /\ m \in Nat /\ m + 1 \in 1..Len(DaysBefore)
                       /\ MonthLength(m) \in Nat \ {0}
                       /\ MonthLength(m) <= LongestMonth
<1> USE CalendarAssumption
<1>1. DayLength \in Nat \ {0} /\ DayLength >= MinutesPerHour
  <2>1. HoursPerDay * MinutesPerHour \in Int
    OBVIOUS
  <2>2. HoursPerDay * MinutesPerHour = MinutesPerHour + (HoursPerDay - 1) * MinutesPerHour
    OBVIOUS
  <2>3. (HoursPerDay - 1) * MinutesPerHour >= 0
    OBVIOUS
  <2> QED
    BY <2>1, <2>2, <2>3 DEF DayLength
<1>2. DayLength % MinutesPerHour = 0
  <2>1. DayLength = MinutesPerHour * HoursPerDay
    BY DEF DayLength
  <2>2. (MinutesPerHour * HoursPerDay) % MinutesPerHour = 0
    BY Multiple
  <2> QED
    BY <2>1, <2>2
<1>3. \A n \in 1..Len(DaysBefore) : DaysBefore[n] \in Nat /\ DaysBefore[n] <= YearDays
  BY DEF YearDays
<1>4. YearDays \in Nat \ {0}
  BY DEF YearDays
<1>5. \A m \in Months : m \in Nat /\ m \in 1..Len(DaysBefore) /\ m + 1 \in 1..Len(DaysBefore)
  BY DEF Months
<1>6. ASSUME NEW m \in Months
      PROVE  MonthLength(m) \in Nat \ {0} /\ MonthLength(m) <= LongestMonth
  <2>1. DaysBefore[m] < DaysBefore[m + 1]
    BY <1>5
  <2>2. DaysBefore[m] \in Nat /\ DaysBefore[m + 1] \in Nat
    BY <1>3, <1>5
  <2>3. DaysBefore[m + 1] - DaysBefore[m] <= LongestMonth
    BY DEF Months
  <2> QED
    BY <2>1, <2>2, <2>3 DEF MonthLength
<1> QED
  BY <1>1, <1>2, <1>3, <1>4, <1>5, <1>6

\* A day of the year lies in a month, and in one only.
LEMMA MonthExists ==
  ASSUME NEW y \in Nat, y < YearDays
  PROVE  \E m \in Months : DaysBefore[m] <= y /\ y < DaysBefore[m + 1]
<1> USE CalendarAssumption
<1> DEFINE T == {n \in 1..Len(DaysBefore) : y < DaysBefore[n]}
<1>1. T # {} /\ T \subseteq Nat
  BY DEF YearDays
<1>2. PICK n \in T : \A k \in T : ~ (<<k, n>> \in OpToRel(<, Nat))
  BY <1>1, WFMin, NatLessThanWellFounded
<1>3. n # 1 /\ n \in 1..Len(DaysBefore)
  OBVIOUS
<1>4. n - 1 \in Months /\ n - 1 \in 1..Len(DaysBefore)
  BY <1>3 DEF Months
<1>5. n - 1 \notin T
  <2> SUFFICES ASSUME n - 1 \in T PROVE FALSE
    OBVIOUS
  <2>1. <<n - 1, n>> \in Nat \X Nat /\ n - 1 < n
    BY <1>4
  <2>2. <<n - 1, n>> \in OpToRel(<, Nat)
    BY <2>1 DEF OpToRel
  <2> QED
    BY <1>2, <2>2
<1>6. DaysBefore[n - 1] <= y
  BY <1>4, <1>5, CalendarTypes
<1>7. (n - 1) + 1 = n
  BY <1>3
<1> QED
  BY <1>4, <1>6, <1>7

LEMMA MonthUnique ==
  ASSUME NEW y \in Nat, NEW m \in Months, NEW n \in Months,
         DaysBefore[m] <= y, y < DaysBefore[m + 1],
         DaysBefore[n] <= y, y < DaysBefore[n + 1]
  PROVE  m = n
<1>1. /\ m \in 1..Len(DaysBefore) /\ m + 1 \in 1..Len(DaysBefore)
      /\ n \in 1..Len(DaysBefore) /\ n + 1 \in 1..Len(DaysBefore)
      /\ m \in Nat /\ n \in Nat
  BY CalendarAssumption DEF Months
<1>2. /\ DaysBefore[m] \in Nat /\ DaysBefore[m + 1] \in Nat
      /\ DaysBefore[n] \in Nat /\ DaysBefore[n + 1] \in Nat
  BY <1>1, CalendarTypes
<1>3. ASSUME m < n PROVE FALSE
  <2>1. m + 1 = n \/ m + 1 < n
    BY <1>1, <1>3
  <2>2. m + 1 < n => DaysBefore[m + 1] < DaysBefore[n]
    BY <1>1, CalendarAssumption
  <2>3. DaysBefore[m + 1] <= DaysBefore[n]
    BY <1>2, <2>1, <2>2
  <2> QED
    BY <1>2, <2>3
<1>4. ASSUME n < m PROVE FALSE
  <2>1. n + 1 = m \/ n + 1 < m
    BY <1>1, <1>4
  <2>2. n + 1 < m => DaysBefore[n + 1] < DaysBefore[m]
    BY <1>1, CalendarAssumption
  <2>3. DaysBefore[n + 1] <= DaysBefore[m]
    BY <1>2, <2>1, <2>2
  <2> QED
    BY <1>2, <2>3
<1> QED
  BY <1>1, <1>3, <1>4

\* The fields of a local time.
LEMMA FieldTypes ==
  ASSUME NEW w \in Int
  PROVE  /\ YearDay(w) \in Nat /\ YearDay(w) < YearDays
         /\ Month(w) \in Months
         /\ DaysBefore[Month(w)] <= YearDay(w) /\ YearDay(w) < DaysBefore[Month(w) + 1]
         /\ Day(w) \in 1..MonthLength(Month(w))
         /\ Weekday(w) \in 0..(DaysPerWeek - 1)
         /\ Hour(w) \in 0..(HoursPerDay - 1)
         /\ Minute(w) \in 0..(MinutesPerHour - 1)
<1>1. w \div DayLength \in Int /\ w \div MinutesPerHour \in Int
  BY CalendarTypes, Quotient, CalendarAssumption
<1>2. YearDay(w) \in Nat /\ YearDay(w) < YearDays
  <2>1. (w \div DayLength) % YearDays \in 0..(YearDays - 1)
    BY <1>1, CalendarTypes, Quotient
  <2> QED
    BY <2>1, CalendarTypes DEF YearDay
<1>3. /\ Month(w) \in Months
      /\ DaysBefore[Month(w)] <= YearDay(w) /\ YearDay(w) < DaysBefore[Month(w) + 1]
  BY <1>2, MonthExists DEF Month
<1>4. Day(w) \in 1..MonthLength(Month(w))
  <2>1. Month(w) \in 1..Len(DaysBefore) /\ Month(w) + 1 \in 1..Len(DaysBefore)
    BY <1>3 DEF Months
  <2>2. DaysBefore[Month(w)] \in Nat /\ DaysBefore[Month(w) + 1] \in Nat
    BY <2>1, CalendarTypes
  <2> QED
    BY <1>2, <1>3, <2>2 DEF Day, MonthLength
<1>5. Weekday(w) \in 0..(DaysPerWeek - 1)
  BY <1>1, Quotient, CalendarAssumption DEF Weekday
<1>6. Hour(w) \in 0..(HoursPerDay - 1)
  BY <1>1, Quotient, CalendarAssumption DEF Hour
<1>7. Minute(w) \in 0..(MinutesPerHour - 1)
  BY Quotient, CalendarAssumption DEF Minute
<1> QED
  BY <1>2, <1>3, <1>4, <1>5, <1>6, <1>7

\* The minutes of an hour.
LEMMA SameHour ==
  ASSUME NEW w \in Int
  PROVE  /\ HourStart(w) \in Int /\ HourStart(w) % MinutesPerHour = 0
         /\ HourStart(w) <= w /\ w < HourStart(w) + MinutesPerHour
         /\ \A v \in Int : HourStart(w) <= v /\ v < HourStart(w) + MinutesPerHour
                             => Hour(v) = Hour(w)
BY SameQuotient, CalendarAssumption DEF HourStart, Minute, Hour

\* The minutes of a day.
LEMMA SameDay ==
  ASSUME NEW w \in Int
  PROVE  /\ DayStart(w) \in Int /\ DayStart(w) % DayLength = 0
         /\ DayStart(w) <= w /\ w < DayStart(w) + DayLength
         /\ \A v \in Int : DayStart(w) <= v /\ v < DayStart(w) + DayLength
                             => /\ YearDay(v) = YearDay(w) /\ Month(v) = Month(w)
                                /\ Day(v) = Day(w) /\ Weekday(v) = Weekday(w)
<1>1. /\ DayStart(w) \in Int /\ DayStart(w) % DayLength = 0
      /\ DayStart(w) <= w /\ w < DayStart(w) + DayLength
      /\ \A v \in Int : DayStart(w) <= v /\ v < DayStart(w) + DayLength
                          => v \div DayLength = w \div DayLength
  BY SameQuotient, CalendarTypes DEF DayStart
<1>2. ASSUME NEW v \in Int, v \div DayLength = w \div DayLength
      PROVE  /\ YearDay(v) = YearDay(w) /\ Month(v) = Month(w)
             /\ Day(v) = Day(w) /\ Weekday(v) = Weekday(w)
  BY <1>2 DEF YearDay, Month, Day, Weekday
<1> QED
  BY <1>1, <1>2

\* The minutes of a month.
LEMMA SameMonth ==
  ASSUME NEW w \in Int
  PROVE  /\ MonthStart(w) \in Int /\ MonthStart(w) % DayLength = 0
         /\ MonthStart(w) <= w
         /\ w < MonthStart(w) + MonthLength(Month(w)) * DayLength
         /\ \A v \in Int :
              MonthStart(w) <= v /\ v < MonthStart(w) + MonthLength(Month(w)) * DayLength
                => Month(v) = Month(w)
<1> DEFINE L == DayLength
           m == Month(w)
           D == w \div DayLength
           F == D - (Day(w) - 1)
           n == MonthLength(m)
<1>1. /\ L \in Nat \ {0} /\ D \in Int /\ YearDay(w) \in Nat /\ YearDay(w) < YearDays
      /\ Day(w) \in 1..n /\ n \in Nat /\ m \in Months /\ YearDays \in Nat \ {0}
  BY FieldTypes, CalendarTypes, Quotient
<1>2. /\ DaysBefore[m] \in Nat /\ DaysBefore[m + 1] \in Nat /\ DaysBefore[m + 1] <= YearDays
      /\ n = DaysBefore[m + 1] - DaysBefore[m]
      /\ Day(w) = YearDay(w) - DaysBefore[m] + 1
  <2>1. m \in 1..Len(DaysBefore) /\ m + 1 \in 1..Len(DaysBefore)
    BY <1>1 DEF Months
  <2> QED
    BY <2>1, CalendarTypes DEF MonthLength, Day
<1>3. w % L \in 0..(L - 1) /\ w = L * D + (w % L)
  BY <1>1, Quotient
<1>4. F \in Int /\ L * D \in Int /\ L * F \in Int /\ n * L \in Int
  <2>1. Day(w) - 1 \in Int
    BY <1>1
  <2>2. F \in Int
    BY <1>1, <2>1
  <2> HIDE DEF L, D, F, n
  <2> QED
    BY <1>1, <2>2
<1>5. MonthStart(w) = L * F
  <2>1. DayStart(w) = L * D
    BY <1>3, <1>4 DEF DayStart
  <2>2. \A a, b, c \in Int : a * b - c * a = a * (b - c)
    OBVIOUS
  <2>3. Day(w) - 1 \in Int /\ L \in Int
    BY <1>1
  <2>4. L * D - (Day(w) - 1) * L = L * (D - (Day(w) - 1))
    <3> DEFINE c == Day(w) - 1
    <3>1. c \in Int
      BY <2>3
    <3> HIDE DEF L, D, c
    <3>2. L * D - c * L = L * (D - c)
      BY <1>1, <2>2, <2>3, <3>1
    <3> QED
      BY <3>2 DEF c
  <2> QED
    BY <2>1, <2>4 DEF MonthStart
<1>6. (L * F) % L = 0
  BY <1>1, <1>4, Multiple
<1>7. L * F <= w /\ w < L * F + n * L
  <2> HIDE DEF L, D, n
  <2>1. L * F = L * D - (Day(w) - 1) * L
    BY <1>1
  <2>2. n * L = (n - Day(w)) * L + L + (Day(w) - 1) * L
    BY <1>1
  <2>3. (n - Day(w)) * L >= 0 /\ (Day(w) - 1) * L >= 0
    BY <1>1
  <2> QED
    BY <1>1, <1>3, <1>4, <2>1, <2>2, <2>3
<1>8. ASSUME NEW v \in Int, L * F <= v, v < L * F + n * L
      PROVE  Month(v) = m
  <2> DEFINE E == v \div DayLength
             k == D \div YearDays
  <2>1. E \in Int /\ v % L \in 0..(L - 1) /\ v = L * E + (v % L)
    BY <1>1, Quotient
  <2>2. F <= E /\ E < F + n
    <3> HIDE DEF L, E, F, n
    <3>1. E < F => L * (F - E) >= L
      BY <1>1, <1>4, <2>1
    <3>2. E >= F + n => L * (E - F - n) >= 0
      BY <1>1, <1>4, <2>1
    <3>3. L * (F - E) = L * F - L * E /\ L * (E - F - n) = L * E - L * F - n * L
      BY <1>1, <1>4, <2>1
    <3> QED
      BY <1>1, <1>4, <1>8, <2>1, <3>1, <3>2, <3>3
  <2>3. k \in Int /\ D = YearDays * k + YearDay(w) /\ YearDays * k \in Int
    BY <1>1, Quotient DEF YearDay
  <2> DEFINE y == E - YearDays * k
  <2>4. y \in Nat /\ DaysBefore[m] <= y /\ y < DaysBefore[m + 1] /\ y < YearDays
    <3> HIDE DEF L, D, E, n, k
    <3> QED
      BY <1>1, <1>2, <2>1, <2>2, <2>3
  <2>5. YearDay(v) = y
    <3>1. E % YearDays = y
      <4>1. y = E - YearDays * k
        OBVIOUS
      <4> HIDE DEF E, k, y
      <4>2. YearDays * k <= E /\ E < YearDays * k + YearDays
        BY <1>1, <2>1, <2>3, <2>4, <4>1
      <4> QED
        BY <1>1, <2>1, <2>3, <4>1, <4>2, QuotientIs
    <3> QED
      BY <3>1 DEF YearDay
  <2>6. Month(v) \in Months /\ DaysBefore[Month(v)] <= y /\ y < DaysBefore[Month(v) + 1]
    BY <2>5, FieldTypes
  <2> QED
    BY <1>1, <2>4, <2>6, MonthUnique
<1>9. MonthStart(w) \in Int /\ MonthStart(w) % L = 0
  BY <1>4, <1>5, <1>6
<1>10. MonthStart(w) <= w
  BY <1>5, <1>7
<1>11. w < MonthStart(w) + MonthLength(Month(w)) * DayLength
  BY <1>5, <1>7
<1>12. ASSUME NEW v \in Int, MonthStart(w) <= v,
              v < MonthStart(w) + MonthLength(Month(w)) * DayLength
       PROVE  Month(v) = Month(w)
  BY <1>5, <1>8, <1>12
<1> QED
  BY <1>9, <1>10, <1>11, <1>12

-----------------------------------------------------------------------------
(* Package time around the change of the clock.                            *)

\* The clock goes back, west of Greenwich.
RepeatsInWest(z) == z.after = z.before - MinutesPerHour /\ z.after < 0

\* The clock shows y once, or Date gives the first of the two instants.
Certain(z, y) ==
  \/ z.before = z.after
  \/ y < ChangeStart(z) \/ ChangeStart(z) + MinutesPerHour <= y
  \/ RepeatsInWest(z) /\ y = ChangeStart(z)

LEMMA TimeTypes ==
  ASSUME NEW z \in Zones, NEW u \in Int
  PROVE  Wall(z, u) \in Int /\ Date(z, u) \in Int /\ ChangeStart(z) \in Int
BY DEF Zones, Wall, Date, Offset, ChangeStart

\* There Date is the inverse of the clock, and keeps its order.
LEMMA DateOfCertain ==
  ASSUME NEW z \in Zones, WholeHour(z), NEW y \in Int, Certain(z, y)
  PROVE  /\ Wall(z, Date(z, y)) = y
         /\ \A u \in Int : Date(z, y) <= u <=> y <= Wall(z, u)
<1> USE DEF Wall, Date, Offset
<1>0. MinutesPerHour \in Nat \ {0} /\ z.before \in Int /\ z.after \in Int /\ z.at \in Int
  BY CalendarAssumption DEF Zones
<1>1. CASE z.before = z.after
  BY <1>0, <1>1
<1>2. CASE z.after = z.before + MinutesPerHour
  <2>1. CASE y < z.at + z.before
    <3>1. Date(z, y) = y - z.before
      BY <1>0, <1>2, <2>1
    <3>2. Wall(z, y - z.before) = y
      BY <1>0, <1>2, <2>1
    <3>3. ASSUME NEW u \in Int PROVE y - z.before <= u <=> y <= Wall(z, u)
      BY <1>0, <1>2, <2>1
    <3> QED
      BY <3>1, <3>2, <3>3
  <2>2. CASE y >= z.at + z.after
    <3>1. Date(z, y) = y - z.after
      BY <1>0, <1>2, <2>2
    <3>2. Wall(z, y - z.after) = y
      BY <1>0, <1>2, <2>2
    <3>3. ASSUME NEW u \in Int PROVE y - z.after <= u <=> y <= Wall(z, u)
      BY <1>0, <1>2, <2>2
    <3> QED
      BY <3>1, <3>2, <3>3
  <2> QED
    BY <1>0, <1>2, <2>1, <2>2 DEF Certain, ChangeStart, RepeatsInWest
<1>3. CASE z.after = z.before - MinutesPerHour
  <2>1. CASE y < z.at + z.after
    <3>1. Date(z, y) = y - z.before
      BY <1>0, <1>3, <2>1
    <3>2. Wall(z, y - z.before) = y
      BY <1>0, <1>3, <2>1
    <3>3. ASSUME NEW u \in Int PROVE y - z.before <= u <=> y <= Wall(z, u)
      BY <1>0, <1>3, <2>1
    <3> QED
      BY <3>1, <3>2, <3>3
  <2>2. CASE y >= z.at + z.before
    <3>1. Date(z, y) = y - z.after
      BY <1>0, <1>3, <2>2
    <3>2. Wall(z, y - z.after) = y
      BY <1>0, <1>3, <2>2
    <3>3. ASSUME NEW u \in Int PROVE y - z.after <= u <=> y <= Wall(z, u)
      BY <1>0, <1>3, <2>2
    <3> QED
      BY <3>1, <3>2, <3>3
  <2>3. CASE y = z.at + z.after /\ z.after < 0
    <3>1. Date(z, y) = z.at - MinutesPerHour
      <4>1. Offset(z, y) = z.before
        BY <1>0, <2>3
      <4>2. y - z.before = z.at - MinutesPerHour
        BY <1>0, <1>3, <2>3
      <4>3. y - z.before < z.at /\ y < z.at
        BY <1>0, <2>3, <4>2
      <4> QED
        BY <4>1, <4>2, <4>3
    <3>2. Wall(z, z.at - MinutesPerHour) = y
      BY <1>0, <1>3, <2>3
    <3>3. ASSUME NEW u \in Int PROVE z.at - MinutesPerHour <= u <=> y <= Wall(z, u)
      BY <1>0, <1>3, <2>3
    <3> QED
      BY <3>1, <3>2, <3>3
  <2> QED
    BY <1>0, <1>3, <2>1, <2>2, <2>3 DEF Certain, ChangeStart, RepeatsInWest
<1> QED
  BY <1>1, <1>2, <1>3 DEF WholeHour

LEMMA HourIsCertain ==
  ASSUME NEW z \in Zones, WholeHour(z), NEW y \in Int, y % MinutesPerHour = 0,
         y # ChangeStart(z)
  PROVE  Certain(z, y)
<1>1. CASE z.before = z.after
  BY <1>1 DEF Certain
<1>2. CASE ChangeStart(z) % MinutesPerHour = 0
  <2>1. ChangeStart(z) \in Int
    BY TimeTypes
  <2>2. ChangeStart(z) < y => ChangeStart(z) + MinutesPerHour <= y
    BY <1>2, <2>1, MultiplesApart, CalendarAssumption
  <2> QED
    BY <2>1, <2>2 DEF Certain
<1> QED
  BY <1>1, <1>2 DEF WholeHour

\* A day begins with an hour.
LEMMA HoursOfDay ==
  ASSUME NEW y \in Int, y % DayLength = 0
  PROVE  y % MinutesPerHour = 0
<1> DEFINE q == y \div DayLength
<1>1. q \in Int /\ y = DayLength * q
  BY Quotient, CalendarTypes
<1>2. HoursPerDay * q \in Int
  BY <1>1, CalendarAssumption
<1>3. y = MinutesPerHour * (HoursPerDay * q)
  <2> HIDE DEF q
  <2> QED
    BY <1>1, CalendarAssumption DEF DayLength
<1>4. (MinutesPerHour * (HoursPerDay * q)) % MinutesPerHour = 0
  BY <1>2, Multiple, CalendarAssumption
<1> QED
  BY <1>3, <1>4

LEMMA MidnightIsCertain ==
  ASSUME NEW z \in Zones, WholeHour(z), NEW y \in Int, y % DayLength = 0
  PROVE  Certain(z, y)
<1>1. y % MinutesPerHour = 0
  BY HoursOfDay
<1>2. CASE y = ChangeStart(z) /\ z.before # z.after
  <2>1. z.after \in {z.before + MinutesPerHour, z.before - MinutesPerHour}
    BY <1>2 DEF WholeHour
  <2>2. z.after < z.before /\ z.after < 0
    BY <1>2 DEF WholeHour
  <2>3. RepeatsInWest(z)
    BY <2>1, <2>2, CalendarAssumption DEF RepeatsInWest, Zones
  <2> QED
    BY <1>2, <2>3 DEF Certain
<1>3. CASE z.before = z.after
  BY <1>3 DEF Certain
<1>4. CASE y # ChangeStart(z)
  BY <1>1, <1>4, HourIsCertain
<1> QED
  BY <1>2, <1>3, <1>4

\* From midnight to midnight, n days on.
LEMMA Midnights ==
  ASSUME NEW z \in Zones, WholeHour(z), NEW y \in Int, y % DayLength = 0, NEW n \in Int
  PROVE  LET r == AddDays(z, Date(z, y), n)
         IN  /\ r \in Int
             /\ \A u \in Int : Date(z, y) <= u <=> y <= Wall(z, u)
             /\ \A u \in Int : r <= u <=> y + n * DayLength <= Wall(z, u)
<1> DEFINE x == y + n * DayLength
<1>1. x \in Int /\ x % DayLength = 0
  BY MultipleSum, CalendarTypes
<1>2. Wall(z, Date(z, y)) = y /\ \A u \in Int : Date(z, y) <= u <=> y <= Wall(z, u)
  BY MidnightIsCertain, DateOfCertain
<1>3. AddDays(z, Date(z, y), n) = Date(z, x)
  BY <1>2 DEF AddDays
<1> HIDE DEF x
<1>4. Date(z, x) \in Int /\ \A u \in Int : Date(z, x) <= u <=> x <= Wall(z, u)
  BY <1>1, MidnightIsCertain, DateOfCertain, TimeTypes
<1> QED
  BY <1>2, <1>3, <1>4 DEF x

-----------------------------------------------------------------------------
(* One iteration of the search.                                            *)

LEMMA AdvanceInt ==
  ASSUME NEW z \in Zones, NEW s, NEW t \in Int
  PROVE  Advance(z, s, t) \in Int
<1> DEFINE w == Wall(z, t)
<1>1. w \in Int
  BY TimeTypes
<1>2. \A u, n \in Int : AddDays(z, u, n) \in Int
  <2> SUFFICES ASSUME NEW u \in Int, NEW n \in Int PROVE AddDays(z, u, n) \in Int
    OBVIOUS
  <2>1. n * DayLength \in Int
    BY CalendarTypes
  <2> QED
    BY <2>1, TimeTypes DEF AddDays
<1>3. \A u \in Int : AddMonth(z, u) \in Int
  <2> SUFFICES ASSUME NEW u \in Int PROVE AddMonth(z, u) \in Int
    OBVIOUS
  <2>1. Month(Wall(z, u)) \in Months
    BY TimeTypes, FieldTypes
  <2>2. MonthLength(Month(Wall(z, u))) \in Int
    BY <2>1, CalendarTypes
  <2> QED
    BY <1>2, <2>2 DEF AddMonth
<1>4. Date(z, MonthStart(w)) \in Int /\ Date(z, DayStart(w)) \in Int /\ Date(z, HourStart(w)) \in Int
  BY <1>1, SameMonth, SameDay, SameHour, TimeTypes
<1>5. /\ AddMonth(z, Date(z, MonthStart(w))) \in Int
      /\ AddDays(z, Date(z, DayStart(w)), 1) \in Int
      /\ Date(z, HourStart(w)) + MinutesPerHour \in Int
      /\ t + 1 \in Int
  <2>1. AddMonth(z, Date(z, MonthStart(w))) \in Int
    BY <1>3, <1>4
  <2>2. AddDays(z, Date(z, DayStart(w)), 1) \in Int
    BY <1>2, <1>4
  <2>3. Date(z, HourStart(w)) + MinutesPerHour \in Int
    BY <1>4, CalendarAssumption
  <2> QED
    BY <2>1, <2>2, <2>3
<1> QED
  BY <1>5, Zenon DEF Advance

\* The month step.
LEMMA MonthStep ==
  ASSUME NEW z \in Zones, WholeHour(z), NEW t \in Int
  PROVE  LET r == AddMonth(z, Date(z, MonthStart(Wall(z, t))))
         IN  /\ r \in Int /\ t < r
             /\ \A u \in Int : t <= u /\ u < r => Month(Wall(z, u)) = Month(Wall(z, t))
<1> DEFINE w == Wall(z, t)
           y == MonthStart(w)
           n == MonthLength(Month(w))
           e == y + n * DayLength
           r == AddMonth(z, Date(z, y))
<1>1. w \in Int /\ \A u \in Int : Wall(z, u) \in Int
  BY TimeTypes
<1>2. /\ y \in Int /\ y % DayLength = 0 /\ y <= w /\ w < e
      /\ \A v \in Int : y <= v /\ v < e => Month(v) = Month(w)
  BY <1>1, SameMonth
<1>3. n \in Int /\ n * DayLength \in Int /\ 0 < n * DayLength
  <2>1. n \in Nat \ {0} /\ DayLength \in Nat \ {0}
    BY <1>1, FieldTypes, CalendarTypes
  <2> HIDE DEF n
  <2> QED
    BY <2>1
<1>4. Month(Wall(z, Date(z, y))) = Month(w)
  <2>1. Wall(z, Date(z, y)) = y
    BY <1>2, MidnightIsCertain, DateOfCertain
  <2> QED
    BY <1>2, <1>3, <2>1
<1>5. r = AddDays(z, Date(z, y), n)
  BY <1>4 DEF AddMonth
<1>6. /\ r \in Int
      /\ \A u \in Int : Date(z, y) <= u <=> y <= Wall(z, u)
      /\ \A u \in Int : r <= u <=> e <= Wall(z, u)
  BY <1>2, <1>3, <1>5, Midnights
<1>7. Date(z, y) \in Int /\ e \in Int
  BY <1>2, <1>3, TimeTypes
<1> HIDE DEF y, e, r, n
<1>8. t < r /\ Date(z, y) <= t
  BY <1>1, <1>2, <1>6, <1>7
<1>9. ASSUME NEW u \in Int, t <= u, u < r PROVE Month(Wall(z, u)) = Month(w)
  BY <1>1, <1>2, <1>6, <1>7, <1>8, <1>9
<1> QED
  BY <1>6, <1>8, <1>9 DEF r, y

\* The day step.
LEMMA DayStep ==
  ASSUME NEW z \in Zones, WholeHour(z), NEW s, NEW t \in Int
  PROVE  LET r == AddDays(z, Date(z, DayStart(Wall(z, t))), 1)
         IN  /\ r \in Int /\ t < r
             /\ \A u \in Int : t <= u /\ u < r =>
                  (DayMatches(s, Wall(z, u)) <=> DayMatches(s, Wall(z, t)))
<1> DEFINE w == Wall(z, t)
           y == DayStart(w)
           e == y + 1 * DayLength
           r == AddDays(z, Date(z, y), 1)
<1>1. w \in Int /\ (\A u \in Int : Wall(z, u) \in Int) /\ DayLength \in Int
  <2>1. DayLength \in Int
    BY CalendarTypes
  <2> QED
    BY <2>1, TimeTypes
<1>2. /\ y \in Int /\ y % DayLength = 0 /\ y <= w /\ w < e
      /\ \A v \in Int : y <= v /\ v < e => Day(v) = Day(w) /\ Weekday(v) = Weekday(w)
  BY <1>1, SameDay
<1>3. /\ r \in Int
      /\ \A u \in Int : Date(z, y) <= u <=> y <= Wall(z, u)
      /\ \A u \in Int : r <= u <=> e <= Wall(z, u)
  BY <1>2, Midnights
<1>4. Date(z, y) \in Int /\ e \in Int
  BY <1>1, <1>2, TimeTypes
<1> HIDE DEF y, e, r
<1>5. t < r /\ Date(z, y) <= t
  BY <1>1, <1>2, <1>3, <1>4 DEF w
<1>6. ASSUME NEW u \in Int, t <= u, u < r
      PROVE  DayMatches(s, Wall(z, u)) <=> DayMatches(s, w)
  <2>1. Day(Wall(z, u)) = Day(w) /\ Weekday(Wall(z, u)) = Weekday(w)
    BY <1>1, <1>2, <1>3, <1>4, <1>5, <1>6
  <2> QED
    BY <2>1 DEF DayMatches
<1> QED
  BY <1>3, <1>5, <1>6 DEF r, y

\* The hour step.  In a repeated hour it goes from the first pass to the end
\* of the second, whose start Date gives; but west of Greenwich Date gives the
\* start of the first, and so the step goes to the start of the second pass,
\* from either, and from there nowhere.
LEMMA HourStep ==
  ASSUME NEW z \in Zones, WholeHour(z), NEW t \in Int
  PROVE  LET y == HourStart(Wall(z, t))
             r == Date(z, y) + MinutesPerHour
         IN  /\ r \in Int
             /\ \A u \in Int : t <= u /\ u < r => Hour(Wall(z, u)) = Hour(Wall(z, t))
             /\ t < r \/ (~Regular(z) /\ Wall(z, r) = y)
<1> DEFINE w == Wall(z, t)
           y == HourStart(w)
           r == Date(z, y) + MinutesPerHour
           AtRest == ~Regular(z) /\ Wall(z, r) = y
<1>1. w \in Int /\ (\A u \in Int : Wall(z, u) \in Int) /\ MinutesPerHour \in Nat \ {0}
  BY TimeTypes, CalendarAssumption
<1>2. /\ y \in Int /\ y % MinutesPerHour = 0 /\ y <= w /\ w < y + MinutesPerHour
      /\ \A v \in Int : y <= v /\ v < y + MinutesPerHour => Hour(v) = Hour(w)
  BY <1>1, SameHour
<1>3. r \in Int
  BY <1>1, <1>2, TimeTypes
<1>4. /\ t < r \/ AtRest
      /\ \A u \in Int : t <= u /\ u < r => y <= Wall(z, u) /\ Wall(z, u) < y + MinutesPerHour
  <2> HIDE DEF y, AtRest
  <2>1. \/ z.before = z.after
        \/ y = ChangeStart(z) \/ y + MinutesPerHour <= ChangeStart(z)
        \/ ChangeStart(z) + MinutesPerHour <= y
    <3>1. ChangeStart(z) \in Int
      BY TimeTypes
    <3>2. z.before # z.after => ChangeStart(z) % MinutesPerHour = 0
      BY DEF WholeHour
    <3>3. z.before # z.after /\ y < ChangeStart(z) => y + MinutesPerHour <= ChangeStart(z)
      BY <1>1, <1>2, <3>1, <3>2, MultiplesApart
    <3>4. z.before # z.after /\ ChangeStart(z) < y => ChangeStart(z) + MinutesPerHour <= y
      BY <1>1, <1>2, <3>1, <3>2, MultiplesApart
    <3> QED
      BY <1>2, <3>1, <3>3, <3>4
  <2>2. CASE z.before = z.after
    BY <1>1, <1>2, <2>2 DEF Wall, Date, Offset, Zones
  <2>3. CASE /\ z.after = z.before + MinutesPerHour
             /\ y + MinutesPerHour <= ChangeStart(z) \/ ChangeStart(z) <= y
    <3>1. ChangeStart(z) = z.at + z.before
      BY <1>1, <2>3 DEF ChangeStart, Zones
    <3>2. CASE y + MinutesPerHour <= ChangeStart(z)
      <4>1. Date(z, y) = y - z.before
        BY <1>1, <1>2, <2>3, <3>1, <3>2 DEF Date, Offset, Zones
      <4> QED
        BY <1>1, <1>2, <2>3, <3>1, <3>2, <4>1 DEF Wall, Offset, Zones
    <3>3. CASE ChangeStart(z) + MinutesPerHour <= y
      <4>1. Date(z, y) = y - z.after
        BY <1>1, <1>2, <2>3, <3>1, <3>3 DEF Date, Offset, Zones
      <4> QED
        BY <1>1, <1>2, <2>3, <3>1, <3>3, <4>1 DEF Wall, Offset, Zones
    <3>4. y # ChangeStart(z)
      BY <1>1, <1>2, <2>3, <3>1 DEF Wall, Offset, Zones
    <3> QED
      BY <2>2, <2>3, <2>1, <3>2, <3>3, <3>4
  <2>4. CASE /\ z.after = z.before - MinutesPerHour
             /\ y + MinutesPerHour <= ChangeStart(z) \/ ChangeStart(z) + MinutesPerHour <= y
    BY <1>1, <1>2, <2>4 DEF Wall, Date, Offset, Zones, ChangeStart
  <2>5. CASE z.after = z.before - MinutesPerHour /\ z.after >= 0 /\ y = ChangeStart(z)
    <3>1. ChangeStart(z) = z.at + z.after
      BY <1>1, <2>5 DEF ChangeStart, Zones
    <3>2. Date(z, y) = z.at
      BY <1>1, <2>5, <3>1 DEF Date, Offset, Zones
    <3>3. t < r
      BY <1>1, <1>2, <2>5, <3>1, <3>2 DEF Wall, Offset, Zones
    <3>4. ASSUME NEW u \in Int, t <= u, u < r
          PROVE  y <= Wall(z, u) /\ Wall(z, u) < y + MinutesPerHour
      BY <1>1, <1>2, <2>5, <3>1, <3>2, <3>4 DEF Wall, Offset, Zones
    <3> QED
      BY <3>3, <3>4
  <2>6. CASE z.after = z.before - MinutesPerHour /\ z.after < 0 /\ y = ChangeStart(z)
    <3>1. ChangeStart(z) = z.at + z.after
      BY <1>1, <2>6 DEF ChangeStart, Zones
    <3>2. Date(z, y) = z.at - MinutesPerHour
      BY <1>1, <2>6, <3>1 DEF Date, Offset, Zones
    <3>3. r = z.at /\ Wall(z, r) = y
      BY <1>1, <2>6, <3>1, <3>2 DEF Wall, Offset, Zones
    <3>4. ~Regular(z)
      BY <1>1, <2>6 DEF Regular, Zones
    <3>5. ASSUME NEW u \in Int, t <= u, u < r
          PROVE  y <= Wall(z, u) /\ Wall(z, u) < y + MinutesPerHour
      BY <1>1, <1>2, <2>6, <3>1, <3>3, <3>5 DEF Wall, Offset, Zones
    <3> QED
      BY <3>3, <3>4, <3>5 DEF AtRest
  <2>7. \/ z.before = z.after
        \/ z.after = z.before + MinutesPerHour
        \/ z.after = z.before - MinutesPerHour
    BY DEF WholeHour
  <2> QED
    <3>1. z.after \in Int /\ ChangeStart(z) \in Int
      BY TimeTypes DEF Zones
    <3> QED
      BY <1>1, <1>2, <2>2, <2>3, <2>4, <2>5, <2>6, <2>1, <2>7, <3>1
<1>5. ASSUME NEW u \in Int, t <= u, u < r PROVE Hour(Wall(z, u)) = Hour(w)
  BY <1>1, <1>2, <1>4, <1>5
<1> QED
  BY <1>3, <1>4, <1>5

\* The start of an hour shows the hour, the day and the month of its minutes.
LEMMA HourStartFields ==
  ASSUME NEW w \in Int
  PROVE  LET y == HourStart(w)
         IN  /\ y \in Int /\ HourStart(y) = y /\ Hour(y) = Hour(w)
             /\ Month(y) = Month(w) /\ Day(y) = Day(w) /\ Weekday(y) = Weekday(w)
<1> DEFINE y == HourStart(w)
<1>1. /\ y \in Int /\ y % MinutesPerHour = 0 /\ y <= w /\ w < y + MinutesPerHour
      /\ Hour(y) = Hour(w)
  <2>1. /\ y \in Int /\ y % MinutesPerHour = 0 /\ y <= w /\ w < y + MinutesPerHour
        /\ \A v \in Int : y <= v /\ v < y + MinutesPerHour => Hour(v) = Hour(w)
    BY SameHour
  <2> HIDE DEF y
  <2> QED
    BY <2>1, CalendarAssumption
<1>2. HourStart(y) = y
  BY <1>1 DEF HourStart, Minute
<1>3. DayStart(w) \in Int /\ DayStart(w) <= w /\ DayStart(w) % MinutesPerHour = 0
  BY SameDay, HoursOfDay
<1>4. DayStart(w) <= y
  <2> HIDE DEF y
  <2>1. y < DayStart(w) => y + MinutesPerHour <= DayStart(w)
    BY <1>1, <1>3, MultiplesApart, CalendarAssumption
  <2> QED
    BY <1>1, <1>3, <2>1, CalendarAssumption
<1>5. Month(y) = Month(w) /\ Day(y) = Day(w) /\ Weekday(y) = Weekday(w)
  <2>1. y < DayStart(w) + DayLength
    BY <1>1, SameDay, CalendarTypes
  <2> QED
    BY <1>1, <1>4, <2>1, SameDay
<1> QED
  BY <1>1, <1>2, <1>5

\* The search rests at t, which is no match: so it does not end.
Stuck(z, s, t) == ~Matches(s, Wall(z, t)) /\ Advance(z, s, t) = t

\* An iteration that does not end the search passes over no match.  It moves
\* on, except west of Greenwich, where it may come to rest.
THEOREM AdvanceSkipsNoMatch ==
  ASSUME NEW z \in Zones, WholeHour(z), NEW s, NEW t \in Int, ~Matches(s, Wall(z, t))
  PROVE  LET r == Advance(z, s, t)
         IN  /\ r \in Int
             /\ \A u \in Int : t <= u /\ u < r => ~Matches(s, Wall(z, u))
             /\ t < r \/ (~Regular(z) /\ Stuck(z, s, r))
<1> DEFINE w == Wall(z, t)
           y == HourStart(w)
           r == Date(z, y) + MinutesPerHour
<1>1. CASE Month(w) \notin s.month
  <2>1. Advance(z, s, t) = AddMonth(z, Date(z, MonthStart(w)))
    BY <1>1 DEF Advance
  <2> QED
    BY <1>1, <2>1, MonthStep DEF Matches
<1>2. CASE Month(w) \in s.month /\ ~DayMatches(s, w)
  <2>1. Advance(z, s, t) = AddDays(z, Date(z, DayStart(w)), 1)
    BY <1>2 DEF Advance
  <2> QED
    BY <1>2, <2>1, DayStep DEF Matches
<1>3. CASE Month(w) \in s.month /\ DayMatches(s, w) /\ Hour(w) \notin s.hour
  <2>1. Advance(z, s, t) = r
    BY <1>3 DEF Advance
  <2>2. /\ r \in Int /\ \A u \in Int : t <= u /\ u < r => Hour(Wall(z, u)) = Hour(w)
        /\ t < r \/ (~Regular(z) /\ Wall(z, r) = y)
    BY HourStep
  <2>3. ASSUME Wall(z, r) = y PROVE Stuck(z, s, r)
    <3>1. w \in Int
      BY TimeTypes
    <3>2. /\ HourStart(y) = y /\ Hour(y) \notin s.hour /\ Month(y) \in s.month
          /\ Day(y) = Day(w) /\ Weekday(y) = Weekday(w)
      BY <1>3, <3>1, HourStartFields
    <3>3. DayMatches(s, y)
      BY <1>3, <3>2 DEF DayMatches
    <3>4. Advance(z, s, r) = Date(z, HourStart(y)) + MinutesPerHour
      BY <2>3, <3>2, <3>3, Zenon DEF Advance
    <3>5. ~Matches(s, y)
      BY <3>2 DEF Matches
    <3> QED
      BY <2>3, <3>2, <3>4, <3>5 DEF Stuck
  <2> HIDE DEF r
  <2> QED
    BY <1>3, <2>1, <2>2, <2>3 DEF Matches
<1>4. CASE /\ Month(w) \in s.month /\ DayMatches(s, w) /\ Hour(w) \in s.hour
           /\ Minute(w) \notin s.minute
  <2>1. Advance(z, s, t) = t + 1
    BY <1>4 DEF Advance
  <2> QED
    BY <1>4, <2>1 DEF Matches
<1> QED
  BY <1>1, <1>2, <1>3, <1>4 DEF Matches

-----------------------------------------------------------------------------
(* Parsing.                                                                *)

\* An int that fits is not wrapped.
LEMMA IntOfFits ==
  ASSUME NEW n \in 0..MaxInt
  PROVE  IntOf(n) = n
<1> DEFINE d == 2 * MaxInt + 2
           x == n + MaxInt + 1
<1>1. MaxInt \in Nat
  BY CalendarAssumption
<1>2. d \in Nat \ {0} /\ x \in Int /\ 0 <= x /\ x < d
  BY <1>1
<1>3. x % d = x
  <2> HIDE DEF d, x
  <2> QED
    BY <1>2
<1>4. IntOf(n) = (x % d) - MaxInt - 1
  BY DEF IntOf
<1> QED
  BY <1>1, <1>3, <1>4

\* The loop over a part visits the values of its progression, if the step
\* does not carry it past the largest int.
LEMMA VisitedIs ==
  ASSUME NEW lo \in Nat, NEW hi \in Nat, NEW step \in Nat \ {0},
         lo <= hi, hi + step <= MaxInt, NEW v \in Int
  PROVE  v \in Visited(lo, hi, step) <=> lo <= v /\ v <= hi /\ (v - lo) % step = 0
<1> MaxInt \in Nat
  BY CalendarAssumption
<1> v - lo \in Int /\ hi - lo \in Nat
  OBVIOUS
<1>1. ASSUME lo <= v, v <= hi, (v - lo) % step = 0
      PROVE  v \in Visited(lo, hi, step)
  <2> DEFINE k == (v - lo) \div step
  <2>1. k \in Int /\ v - lo = step * k
    BY <1>1, Quotient
  <2> HIDE DEF k
  <2>2. k >= 0
    <3>1. k <= -1 => step * (k + 1) <= 0
      BY <2>1
    <3>2. step * (k + 1) = step * k + step
      BY <2>1
    <3> QED
      BY <1>1, <2>1, <3>1, <3>2
  <2>3. \A j \in 0..k : /\ j * step \in Int /\ 0 <= j * step /\ j <= j * step
                        /\ j * step <= k * step
    <3> SUFFICES ASSUME NEW j \in 0..k
                 PROVE  /\ j * step \in Int /\ 0 <= j * step /\ j <= j * step
                        /\ j * step <= k * step
      OBVIOUS
    <3>1. j \in Nat /\ k - j \in Nat /\ step - 1 \in Nat
      BY <2>1, <2>2
    <3>2. j * step \in Int /\ j * step >= 0 /\ j * (step - 1) >= 0 /\ (k - j) * step >= 0
      BY <3>1
    <3>3. j * (step - 1) = j * step - j /\ (k - j) * step = k * step - j * step
      BY <2>1, <3>1
    <3> QED
      BY <2>1, <3>1, <3>2, <3>3
  <2>4. k * step = v - lo
    BY <2>1
  <2>5. k \in 0..k
    BY <2>1, <2>2
  <2>6. k \in 0..(2 * MaxInt + 1)
    BY <1>1, <2>1, <2>2, <2>3, <2>4, <2>5
  <2>7. \A j \in 0..k : IntOf(lo + j * step) = lo + j * step /\ lo + j * step <= hi
    <3> SUFFICES ASSUME NEW j \in 0..k
                 PROVE  IntOf(lo + j * step) = lo + j * step /\ lo + j * step <= hi
      OBVIOUS
    <3>1. lo + j * step \in 0..MaxInt /\ lo + j * step <= hi
      BY <1>1, <2>3, <2>4
    <3> QED
      BY <3>1, IntOfFits
  <2>8. v = IntOf(lo + k * step)
    BY <2>4, <2>5, <2>7
  <2> QED
    <3>1. \A j \in 0..k : IntOf(lo + j * step) <= hi
      BY <2>7
    <3>2. v \in 0..hi
      BY <1>1
    <3> QED
      BY <2>6, <2>8, <3>1, <3>2, Zenon DEF Visited
<1>2. ASSUME v \in Visited(lo, hi, step)
      PROVE  lo <= v /\ v <= hi /\ (v - lo) % step = 0
  <2>1. PICK k \in 0..(2 * MaxInt + 1) :
          v = IntOf(lo + k * step) /\ \A j \in 0..k : IntOf(lo + j * step) <= hi
    BY <1>2 DEF Visited
  <2>2. k * step \in Int /\ k * step >= 0
    OBVIOUS
  <2>3. lo + k * step <= hi
    <3> SUFFICES ASSUME lo + k * step > hi PROVE FALSE
      BY <2>2
    <3>1. PICK q \in Int, r \in 0..(step - 1) : hi - lo = step * q + r
      <4> DEFINE x == hi - lo
      <4>1. x \in Int
        OBVIOUS
      <4> HIDE DEF x
      <4>2. x \div step \in Int /\ x % step \in 0..(step - 1)
            /\ x = step * (x \div step) + (x % step)
        BY <4>1, Quotient
      <4> QED
        BY <4>2 DEF x
    <3>2. q >= 0
      <4>1. q <= -1 => step * (q + 1) <= 0
        BY <3>1
      <4>2. step * (q + 1) = step * q + step
        BY <3>1
      <4> QED
        BY <3>1, <4>1, <4>2
    <3>3. (q + 1) * step = step * q + step /\ (q + 1) * step \in Int
      BY <3>1
    <3>4. lo + (q + 1) * step > hi /\ lo + (q + 1) * step <= hi + step
      BY <3>1, <3>3
    <3>5. q + 1 \in 0..k
      <4>1. k <= q => (q - k) * step >= 0
        BY <3>1
      <4>2. (q - k) * step = q * step - k * step /\ q * step = step * q /\ q * step \in Int
        BY <3>1
      <4> QED
        BY <2>2, <3>1, <3>2, <4>1, <4>2
    <3>6. IntOf(lo + (q + 1) * step) = lo + (q + 1) * step
      BY <3>3, <3>4, IntOfFits
    <3>7. IntOf(lo + (q + 1) * step) <= hi
      BY <2>1, <3>5
    <3> QED
      BY <3>3, <3>4, <3>6, <3>7
  <2>4. v = lo + k * step
    <3>1. lo + k * step \in 0..MaxInt
      BY <2>2, <2>3
    <3> QED
      BY <2>1, <3>1, IntOfFits
  <2>5. (v - lo) % step = 0
    <3>1. v - lo = step * k
      BY <2>2, <2>4
    <3>2. (step * k) % step = 0
      BY Multiple
    <3> QED
      BY <3>1, <3>2
  <2> QED
    BY <2>2, <2>3, <2>4, <2>5
<1> QED
  BY <1>1, <1>2

\* So a field is parsed to the values its text lists.
LEMMA ParseFieldIs ==
  ASSUME NEW b, b.min \in Nat, b.max \in Nat, NEW field \in Seq(Part),
         \A i \in DOMAIN field : PartParses(field[i], b) /\ field[i].step <= MaxInt - b.max,
         NEW v \in Int
  PROVE  v \in ParseField(field, b) <=> Lists(field, b, v)
<1>1. ASSUME NEW i \in DOMAIN field
      PROVE  v \in Visited(Lo(field[i], b), Hi(field[i], b), field[i].step)
               <=> /\ Lo(field[i], b) <= v /\ v <= Hi(field[i], b)
                   /\ (v - Lo(field[i], b)) % field[i].step = 0
  <2> DEFINE p == field[i]
  <2>1. p \in Part
    BY <1>1
  <2>2. PartParses(p, b) /\ p.step <= MaxInt - b.max
    BY <1>1
  <2> HIDE DEF p
  <2>3. Lo(p, b) \in Nat /\ Hi(p, b) \in Nat
    BY <2>1 DEF Lo, Hi, Part
  <2>4. /\ p.step \in Nat \ {0} /\ Lo(p, b) <= Hi(p, b)
        /\ Hi(p, b) + p.step <= MaxInt
    <3>1. MaxInt \in Nat
      BY CalendarAssumption
    <3>2. p.step \in Nat
      BY <2>1 DEF Part
    <3> QED
      BY <2>2, <2>3, <3>1, <3>2 DEF PartParses
  <2>5. v \in Visited(Lo(p, b), Hi(p, b), p.step)
          <=> Lo(p, b) <= v /\ v <= Hi(p, b) /\ (v - Lo(p, b)) % p.step = 0
    BY <2>3, <2>4, VisitedIs
  <2> QED
    BY <2>5 DEF p
<1> QED
  BY <1>1 DEF ParseField, Lists

LEMMA BoundsTypes ==
  ASSUME NEW f \in DOMAIN Bounds
  PROVE  Bounds[f].min \in Nat /\ Bounds[f].max \in Nat
<1>1. HoursPerDay - 1 \in Nat /\ MinutesPerHour - 1 \in Nat /\ Len(DaysBefore) - 1 \in Nat
  BY CalendarAssumption
<1>2. LongestMonth \in Nat /\ DaysPerWeek \in Nat
  BY CalendarAssumption
<1> QED
  BY <1>1, <1>2 DEF Bounds, FromTo

\* The schedule Expr returns (cron/expr.go:55-175) matches exactly the local
\* times that the text of the expression, field by field, is due at.
THEOREM ParsedMatches ==
  ASSUME NEW e \in Exprs, ExprParses(e), StepsFit(e), NEW w \in Int
  PROVE  Matches(Parse(e), w) <=> IsRunTime(e, w)
<1> DEFINE s == Parse(e)
           L(f, v) == Lists(e[f], Bounds[f], v)
<1>1. DOMAIN Bounds = {"minute", "hour", "dom", "month", "dow"}
  BY DEF Bounds
<1>2. ASSUME NEW f \in DOMAIN Bounds, NEW v \in Int
      PROVE  v \in ParseField(e[f], Bounds[f]) <=> L(f, v)
  <2>1. e[f] \in Seq(Part)
    BY <1>1 DEF Exprs
  <2>2. Bounds[f].min \in Nat /\ Bounds[f].max \in Nat
    BY BoundsTypes
  <2>3. \A i \in DOMAIN e[f] :
          PartParses(e[f][i], Bounds[f]) /\ e[f][i].step <= MaxInt - Bounds[f].max
    BY DEF ExprParses, StepsFit
  <2> QED
    BY <2>1, <2>2, <2>3, ParseFieldIs
<1>3. /\ Month(w) \in Int /\ Day(w) \in Int /\ Weekday(w) \in Int /\ Hour(w) \in Int
      /\ Minute(w) \in Int
      /\ Day(w) \in 1..LongestMonth /\ Weekday(w) \in 0..(DaysPerWeek - 1)
  <2>1. Month(w) \in Nat /\ MonthLength(Month(w)) \in Nat /\ MonthLength(Month(w)) <= LongestMonth
    BY FieldTypes, CalendarTypes
  <2> QED
    <3>1. Day(w) \in 1..MonthLength(Month(w))
      BY FieldTypes
    <3>2. LongestMonth \in Nat
      BY CalendarAssumption
    <3>3. Day(w) \in 1..LongestMonth
      BY <2>1, <3>1, <3>2
    <3>4. /\ Weekday(w) \in 0..(DaysPerWeek - 1)
          /\ Hour(w) \in 0..(HoursPerDay - 1) /\ Minute(w) \in 0..(MinutesPerHour - 1)
      BY FieldTypes
    <3> QED
      BY <2>1, <3>3, <3>4
<1>4. /\ Month(w) \in s.month <=> L("month", Month(w))
      /\ Hour(w) \in s.hour <=> L("hour", Hour(w))
      /\ Minute(w) \in s.minute <=> L("minute", Minute(w))
      /\ Day(w) \in s.dom <=> L("dom", Day(w))
  BY <1>1, <1>2, <1>3 DEF Parse, Bounds
<1>5. Weekday(w) \in s.dow
        <=> L("dow", Weekday(w)) \/ (Weekday(w) = 0 /\ L("dow", DaysPerWeek))
  <2>1. DaysPerWeek \in Int /\ "dow" \in DOMAIN Bounds
    BY <1>1, CalendarAssumption
  <2>2. DaysPerWeek \in ParseField(e.dow, Bounds.dow) <=> L("dow", DaysPerWeek)
    BY <1>2, <2>1
  <2>3. Weekday(w) \in ParseField(e.dow, Bounds.dow) <=> L("dow", Weekday(w))
    BY <1>2, <1>3, <2>1
  <2>4. s.dow = ParseField(e.dow, Bounds.dow)
                \cup (IF DaysPerWeek \in ParseField(e.dow, Bounds.dow) THEN {0} ELSE {})
    BY DEF Parse
  <2> QED
    BY <2>2, <2>3, <2>4
<1>6. /\ s.domStar <=> e.dom = <<Star>>
      /\ s.dowStar <=> e.dow = <<Star>>
  BY DEF Parse
<1>7. s.domStar => L("dom", Day(w))
  <2> SUFFICES ASSUME e.dom = <<Star>> PROVE Lists(<<Star>>, Bounds["dom"], Day(w))
    BY <1>6
  <2>1. Lo(Star, Bounds["dom"]) = 1 /\ Hi(Star, Bounds["dom"]) = LongestMonth /\ Star.step = 1
    BY DEF Lo, Hi, Star, Bounds, FromTo
  <2>2. (Day(w) - 1) % 1 = 0
    BY <1>3
  <2> QED
    BY <1>3, <2>1, <2>2 DEF Lists
<1>8. s.dowStar => L("dow", Weekday(w))
  <2> SUFFICES ASSUME e.dow = <<Star>> PROVE Lists(<<Star>>, Bounds["dow"], Weekday(w))
    BY <1>6
  <2>1. Lo(Star, Bounds["dow"]) = 0 /\ Hi(Star, Bounds["dow"]) = DaysPerWeek /\ Star.step = 1
    BY DEF Lo, Hi, Star, Bounds, FromTo
  <2>2. (Weekday(w) - 0) % 1 = 0
    BY <1>3
  <2>3. 0 <= Weekday(w) /\ Weekday(w) <= DaysPerWeek
    BY <1>3, CalendarAssumption
  <2> QED
    BY <2>1, <2>2, <2>3 DEF Lists
<1> DEFINE domOK == Day(w) \in s.dom
           dowOK == Weekday(w) \in s.dow
<1>9. DayMatches(s, w)
        <=> \/ domOK /\ dowOK
            \/ ~s.domStar /\ ~s.dowStar /\ (domOK \/ dowOK)
  <2>1. s.domStar \in BOOLEAN /\ s.dowStar \in BOOLEAN
    BY DEF Parse
  <2>2. (s.domStar => domOK) /\ (s.dowStar => dowOK)
    BY <1>4, <1>5, <1>7, <1>8
  <2> HIDE DEF s
  <2> QED
    BY <2>1, <2>2 DEF DayMatches
<1> HIDE DEF s, L
<1>10. Matches(s, w)
         <=> /\ L("month", Month(w)) /\ L("hour", Hour(w)) /\ L("minute", Minute(w))
             /\ DayMatches(s, w)
  BY <1>4 DEF Matches
<1>11. IsRunTime(e, w)
         <=> /\ L("month", Month(w)) /\ L("hour", Hour(w)) /\ L("minute", Minute(w))
             /\ \/ domOK /\ dowOK
                \/ e.dom # <<Star>> /\ e.dow # <<Star>> /\ (domOK \/ dowOK)
  <2> HIDE DEF domOK, dowOK
  <2>1. domOK <=> L("dom", Day(w))
    BY <1>4 DEF domOK
  <2>2. dowOK <=> L("dow", Weekday(w)) \/ (Weekday(w) = 0 /\ L("dow", DaysPerWeek))
    BY <1>5 DEF dowOK
  <2> QED
    BY <2>1, <2>2 DEF IsRunTime, L
<1> QED
  BY <1>6, <1>9, <1>10, <1>11 DEF s
=============================================================================

------------------------------ MODULE CronExpr ------------------------------
(***************************************************************************)
(* Cron expressions of the package cron (expr.go): what a field means, and *)
(* one iteration of the search for the next run time.                      *)
(*                                                                         *)
(* The calendar is a scaled one: an hour has MinutesPerHour minutes, a day *)
(* HoursPerDay hours, a week DaysPerWeek days, and every year the same     *)
(* months.  The unit of time is the minute, and an instant is a number of  *)
(* minutes of UTC.  A location is a record: its offset before and after    *)
(* the one change of its clock, and the instant of the change.             *)
(*                                                                         *)
(* An expression is a record of five fields; a field is the sequence of    *)
(* the parts between its commas.  Names (jan, mon), aliases (@daily) and   *)
(* the text of a part are left out: they are other spellings of the same   *)
(* values.                                                                 *)
(***************************************************************************)
EXTENDS Integers, Sequences

CONSTANTS
  MinutesPerHour, HoursPerDay, DaysPerWeek,
  DaysBefore,    \* days of the year before each month; last, those of the year
  LongestMonth,  \* the greatest day of a month
  SearchYears,   \* how many years ahead Next looks
  MaxInt         \* the largest int

ASSUME CalendarAssumption ==
  /\ MinutesPerHour \in Nat \ {0}
  /\ HoursPerDay \in Nat \ {0}
  /\ DaysPerWeek \in Nat \ {0}
  /\ DaysBefore \in Seq(Nat) /\ Len(DaysBefore) > 1 /\ DaysBefore[1] = 0
  /\ \A i, j \in 1..Len(DaysBefore) : i < j => DaysBefore[i] < DaysBefore[j]
  /\ LongestMonth \in Nat
  /\ \A m \in 1..(Len(DaysBefore) - 1) : DaysBefore[m + 1] - DaysBefore[m] <= LongestMonth
  /\ SearchYears \in Nat \ {0}
  /\ MaxInt \in Nat

DayLength == HoursPerDay * MinutesPerHour
Months == 1..(Len(DaysBefore) - 1)
MonthLength(m) == DaysBefore[m + 1] - DaysBefore[m]
YearDays == DaysBefore[Len(DaysBefore)]

-----------------------------------------------------------------------------
(* Package time: local ("wall") time w, and the instant that shows it.     *)

YearDay(w) == (w \div DayLength) % YearDays
Month(w) == CHOOSE m \in Months : /\ DaysBefore[m] <= YearDay(w)
                                  /\ YearDay(w) < DaysBefore[m + 1]
Day(w) == YearDay(w) - DaysBefore[Month(w)] + 1
Weekday(w) == (w \div DayLength) % DaysPerWeek
Hour(w) == (w \div MinutesPerHour) % HoursPerDay
Minute(w) == w % MinutesPerHour

HourStart(w) == w - Minute(w)
DayStart(w) == w - (w % DayLength)
MonthStart(w) == DayStart(w) - (Day(w) - 1) * DayLength

Zones == [before : Int, after : Int, at : Int]

Offset(z, u) == IF u < z.at THEN z.before ELSE z.after
Wall(z, u) == u + Offset(z, u)

\* time.Date: the offset in force when UTC shows w, unless the instant it
\* gives lies on the other side of the change, and then the offset there.
\* A local time that occurs twice has one of its two instants, and one that
\* does not occur has an instant that shows another local time.
Date(z, w) ==
  LET guess == Offset(z, w)
      sameSide == (w - guess < z.at) <=> (w < z.at)
  IN  w - (IF sameSide THEN guess ELSE Offset(z, w - guess))

\* Time.AddDate: the same clock reading some days, or one month, later.
AddDays(z, u, n) == Date(z, Wall(z, u) + n * DayLength)
AddMonth(z, u) == AddDays(z, u, MonthLength(Month(Wall(z, u))))
AddYears(z, u, n) == AddDays(z, u, n * YearDays)

-----------------------------------------------------------------------------
(* Parsing (parsePart, parseField, Expr).                                  *)

FromTo(min, max) == [min |-> min, max |-> max]

\* The range of each field; 0 and DaysPerWeek are both the first weekday.
Bounds == [ minute |-> FromTo(0, MinutesPerHour - 1),
            hour   |-> FromTo(0, HoursPerDay - 1),
            dom    |-> FromTo(1, LongestMonth),
            month  |-> FromTo(1, Len(DaysBefore) - 1),
            dow    |-> FromTo(0, DaysPerWeek) ]

\* "*", "v", "lo-hi", each with or without "/step".
Part == [form : {"star", "value", "range"}, lo : Nat, hi : Nat, step : Nat, stepped : BOOLEAN]

Exprs == [ minute : Seq(Part), hour : Seq(Part), dom : Seq(Part), month : Seq(Part),
           dow : Seq(Part) ]

Star == [form |-> "star", lo |-> 0, hi |-> 0, step |-> 1, stepped |-> FALSE]

Lo(p, b) == IF p.form = "star" THEN b.min ELSE p.lo

\* "5/15" means "5-max/15".
Hi(p, b) ==
  CASE p.form = "star"  -> b.max
    [] p.form = "range" -> p.hi
    [] p.form = "value" -> IF p.stepped THEN b.max ELSE p.lo

\* The parts the parser accepts.
PartParses(p, b) ==
  /\ p.step > 0
  /\ b.min <= Lo(p, b) /\ Lo(p, b) <= Hi(p, b) /\ Hi(p, b) <= b.max

ExprParses(e) ==
  \A f \in DOMAIN Bounds : \A i \in DOMAIN e[f] : PartParses(e[f][i], Bounds[f])

\* The int a sum of ints wraps to.
IntOf(n) == ((n + MaxInt + 1) % (2 * MaxInt + 2)) - MaxInt - 1

\* The loop over v := lo; v <= hi; v += step, whose v is IntOf(lo + k * step)
\* in its round k.  A negative v sets no bit.
Visited(lo, hi, step) ==
  {v \in 0..hi : \E k \in 0..(2 * MaxInt + 1) :
     v = IntOf(lo + k * step) /\ \A j \in 0..k : IntOf(lo + j * step) <= hi}

ParseField(field, b) ==
  UNION {Visited(Lo(field[i], b), Hi(field[i], b), field[i].step) : i \in DOMAIN field}

\* The exprSchedule of an expression.
Parse(e) ==
  LET dow == ParseField(e.dow, Bounds.dow)
  IN  [ minute  |-> ParseField(e.minute, Bounds.minute),
        hour    |-> ParseField(e.hour, Bounds.hour),
        dom     |-> ParseField(e.dom, Bounds.dom),
        month   |-> ParseField(e.month, Bounds.month),
        dow     |-> dow \cup (IF DaysPerWeek \in dow THEN {0} ELSE {}),
        domStar |-> e.dom = <<Star>>,
        dowStar |-> e.dow = <<Star>> ]

-----------------------------------------------------------------------------
(* The search (Next, dayMatches).                                          *)

DayMatches(s, w) ==
  LET domOK == Day(w) \in s.dom
      dowOK == Weekday(w) \in s.dow
  IN  CASE s.domStar /\ s.dowStar -> TRUE
        [] s.domStar /\ ~s.dowStar -> dowOK
        [] ~s.domStar /\ s.dowStar -> domOK
        [] OTHER -> domOK \/ dowOK

\* Where Next starts, and where it gives up.
SearchStart(after) == after + 1
SearchLimit(z, after) == AddYears(z, after, SearchYears)

\* Mutant: the day step keeps the time of day.
AdvanceSameClock(z, s, t) ==
  LET w == Wall(z, t)
  IN  IF Month(w) \notin s.month THEN AddMonth(z, Date(z, MonthStart(w)))
      ELSE IF ~DayMatches(s, w) THEN AddDays(z, t, 1)
      ELSE IF Hour(w) \notin s.hour THEN Date(z, HourStart(w)) + MinutesPerHour
      ELSE IF Minute(w) \notin s.minute THEN t + 1
      ELSE t

\* One iteration of the loop: the next candidate after t, or t itself when
\* every field matches.
Advance(z, s, t) ==
  LET w == Wall(z, t)
  IN  IF Month(w) \notin s.month THEN AddMonth(z, Date(z, MonthStart(w)))
      ELSE IF ~DayMatches(s, w) THEN AddDays(z, Date(z, DayStart(w)), 1)
      ELSE IF Hour(w) \notin s.hour THEN Date(z, HourStart(w)) + MinutesPerHour
      ELSE IF Minute(w) \notin s.minute THEN t + 1
      ELSE t

Matches(s, w) ==
  /\ Month(w) \in s.month
  /\ DayMatches(s, w)
  /\ Hour(w) \in s.hour
  /\ Minute(w) \in s.minute

-----------------------------------------------------------------------------
(* What an expression means, from its text.                                *)

\* v is one of the values a field lists.
Lists(field, b, v) ==
  \E i \in DOMAIN field :
    /\ Lo(field[i], b) <= v /\ v <= Hi(field[i], b)
    /\ (v - Lo(field[i], b)) % field[i].step = 0

\* The expression's job is due at the local time w: every field lists it,
\* except that of two restricted day fields one is enough.
IsRunTime(e, w) ==
  LET holds(f, v) == Lists(e[f], Bounds[f], v)
      domOK == holds("dom", Day(w))
      dowOK == holds("dow", Weekday(w))
               \/ (Weekday(w) = 0 /\ holds("dow", DaysPerWeek))
      bothRestricted == e.dom # <<Star>> /\ e.dow # <<Star>>
  IN  /\ holds("minute", Minute(w)) /\ holds("hour", Hour(w)) /\ holds("month", Month(w))
      /\ (domOK /\ dowOK) \/ (bothRestricted /\ (domOK \/ dowOK))

-----------------------------------------------------------------------------
(* Conditions of the search.                                               *)

\* The loop over a field does not overflow.
StepsFit(e) ==
  \A f \in DOMAIN Bounds : \A i \in DOMAIN e[f] : e[f][i].step <= MaxInt - Bounds[f].max

\* The first minute of local time that is skipped or repeated.
ChangeStart(z) == z.at + (IF z.before < z.after THEN z.before ELSE z.after)

\* The search passes over nothing in a location without a change of its
\* clock, and in one that skips or repeats a whole hour: not the first of a
\* day, unless it is repeated west of Greenwich.
WholeHour(z) ==
  \/ z.before = z.after
  \/ /\ z.after \in {z.before + MinutesPerHour, z.before - MinutesPerHour}
     /\ ChangeStart(z) % MinutesPerHour = 0
     /\ ChangeStart(z) % DayLength = 0 => z.after < z.before /\ z.after < 0

\* It also ends, unless the hour is repeated west of Greenwich.
Regular(z) == WholeHour(z) /\ (z.after < z.before => z.after >= 0)
=============================================================================

------------------------------- MODULE Reports -------------------------------
(***************************************************************************)
(* The periods that the reports of admin.service.ts sum over, with the     *)
(* date arithmetic of date.util.ts, for every moment of a bounded range.   *)
(*                                                                         *)
(* A moment is a number of ticks since the first of January 2023, a        *)
(* Sunday, 00:00 UTC.  A day has TicksPerDay; the last is 23:59:59.999.    *)
(* Months are numbered from January 2023 too.                              *)
(***************************************************************************)
EXTENDS Integers, FiniteSets

CONSTANTS
    TicksPerDay,
    From, To  \* the clock runs from day From to day To

VARIABLE now \* new Date()

Init == now = From * TicksPerDay
Tick == now < To * TicksPerDay /\ now' = now + 1
Spec == Init /\ [][Tick]_now

-----------------------------------------------------------------------------
(* The calendar                                                            *)

\* Up to 2099 every fourth year is a leap year: the first is year 1, 2024.
IsLeap(y) == y % 4 = 1

DaysBefore == <<0, 31, 59, 90, 120, 151, 181, 212, 243, 273, 304, 334>>

\* The day on which a month begins.
MonthStart(m) ==
    LET y == m \div 12
        leapDays == (y + 2) \div 4 + (IF IsLeap(y) /\ m % 12 >= 2 THEN 1 ELSE 0)
    IN 365 * y + DaysBefore[(m % 12) + 1] + leapDays

DaysIn(m) == MonthStart(m + 1) - MonthStart(m)

DayOf(t) == t \div TicksPerDay
MonthOf(t) == CHOOSE m \in (DayOf(t) \div 31)..(DayOf(t) \div 28) :
                MonthStart(m) <= DayOf(t) /\ DayOf(t) < MonthStart(m + 1)
UTCDay(t) == DayOf(t) % 7              \* 0 is Sunday
UTCDate(t) == DayOf(t) - MonthStart(MonthOf(t)) + 1

\* setUTCDate keeps the time of the day; a date outside the month carries over.
SetUTCDate(t, d) == (MonthStart(MonthOf(t)) + d - 1) * TicksPerDay + (t % TicksPerDay)

-----------------------------------------------------------------------------
(* date.util.ts                                                            *)

StartOfUTCDay(t) == t - (t % TicksPerDay)

\* Mutant: on Sundays the week begins tomorrow.
WeekFromSunday(t) == SetUTCDate(StartOfUTCDay(t), UTCDate(t) - UTCDay(t) + 1)

StartOfUTCWeek(t) ==
    SetUTCDate(StartOfUTCDay(t), UTCDate(t) - UTCDay(t) + (IF UTCDay(t) = 0 THEN -6 ELSE 1))

StartOfUTCMonth(t) == SetUTCDate(StartOfUTCDay(t), 1)

AddUTCDays(t, n) == SetUTCDate(t, UTCDate(t) + n)

\* The day of the month is capped at the length of the target month.
AddUTCMonths(t, n) ==
    LET m == MonthOf(t) + n
        d == IF UTCDate(t) < DaysIn(m) THEN UTCDate(t) ELSE DaysIn(m)
    IN (MonthStart(m) + d - 1) * TicksPerDay + (t % TicksPerDay)

-----------------------------------------------------------------------------
(* getRevenueAnalytics                                                     *)

Periods == {"daily", "weekly", "monthly"}
Count(period) == IF period = "daily" THEN 30 ELSE 12

RangeEnd(period) ==
    CASE period = "daily" -> AddUTCDays(StartOfUTCDay(now), 1)
      [] period = "weekly" -> AddUTCDays(StartOfUTCWeek(now), 7)
      [] period = "monthly" -> AddUTCMonths(StartOfUTCMonth(now), 1)

Back(period, t, n) ==
    CASE period = "daily" -> AddUTCDays(t, -n)
      [] period = "weekly" -> AddUTCDays(t, -n * 7)
      [] period = "monthly" -> AddUTCMonths(t, -n)

RangeStart(period) == Back(period, RangeEnd(period), Count(period))

\* The day on which the bucket begins that the loop makes for i.  Its label is
\* that day, or the month of it, which begins then.
BucketStart(period, i) == Back(period, Back(period, RangeEnd(period), i), 1)

\* date_trunc of the database: a row at t counts under that label.
DateTrunc(period, t) ==
    CASE period = "daily" -> StartOfUTCDay(t)
      [] period = "weekly" -> StartOfUTCDay(t) - TicksPerDay * ((DayOf(t) + 6) % 7)
      [] period = "monthly" -> MonthStart(MonthOf(t)) * TicksPerDay

-----------------------------------------------------------------------------
(* getDashboardOverview                                                    *)

Today == StartOfUTCDay(now)

\* Mutant: the month is the last thirty days.
ThirtyDaysAgo == StartOfUTCDay(AddUTCDays(now, -30))

ThisMonthStart == StartOfUTCDay(SetUTCDate(now, 1))

\* The rows that count as of today and of this month.
CountsToday(t) == t >= Today
CountsThisMonth(t) == t >= ThisMonthStart

-----------------------------------------------------------------------------
(* Properties                                                              *)

TypeOK == now \in (From * TicksPerDay)..(To * TicksPerDay)

\* Every row of the range that is queried is counted under the label of exactly
\* one bucket of the answer, in every week, month and year, leap or not; and no
\* bucket lies outside.  The newest is the present day, week or month
\* (admin.service.ts:127-234, date.util.ts:1-46).
EveryRowInOneBucket ==
    \A period \in Periods :
      LET starts == [i \in 0..(Count(period) - 1) |-> BucketStart(period, i)]
          begin == RangeStart(period)
          days == DayOf(begin)..(DayOf(RangeEnd(period)) - 1)
      IN /\ begin % TicksPerDay = 0
         /\ \A d \in days :
              LET label == DateTrunc(period, d * TicksPerDay)
              IN Cardinality({i \in DOMAIN starts : starts[i] = label}) = 1
         /\ starts[0] = DateTrunc(period, now)
         /\ \A i \in DOMAIN starts : DayOf(starts[i]) \in days

\* The dashboard's figures of today and of this month count the same rows as the
\* newest bucket of the daily and of the monthly report, which are cut in another
\* way (admin.service.ts:25-124).
DashboardAgrees ==
    \A t \in (now - 40 * TicksPerDay)..now :
      /\ CountsToday(t) <=> DateTrunc("daily", t) = BucketStart("daily", 0)
      /\ CountsThisMonth(t) <=> DateTrunc("monthly", t) = BucketStart("monthly", 0)
=============================================================================

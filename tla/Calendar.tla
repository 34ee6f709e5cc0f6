------------------------------ MODULE Calendar ------------------------------
(***************************************************************************)
(* Days, months and the ranges that dashboards and reports are asked for.  *)
(* A day is a natural number; the lengths of the months are a parameter,   *)
(* so that a year of a few dozen days has all the boundaries of a real     *)
(* one.  Three months make a quarter, twelve a year.  A range holds the     *)
(* days from start up to but not including end.                            *)
(***************************************************************************)
EXTENDS Integers, UnitSums

CONSTANTS
    LastMonth,    \* months are counted from 0
    DaysIn,       \* how many days each month has
    FirstWeekday  \* the day of the week of day 0, where Sunday is 0

ASSUME CalendarAssumption ==
    /\ LastMonth \in Nat /\ DaysIn \in [0 .. LastMonth -> Nat \ {0}]
    /\ FirstWeekday \in 0 .. 6

Months == 0 .. LastMonth

\* A month starts when those before it are over.  The day after the last
\* month counts as the start of one more.
MonthStart == [k \in 0 .. LastMonth + 1 |-> SumOf(DaysIn, 0 .. k - 1)]

CalendarDays == 0 .. MonthStart[LastMonth + 1] - 1

MonthOf ==
    [day \in CalendarDays |->
        CHOOSE k \in Months : MonthStart[k] <= day /\ day < MonthStart[k + 1]]

Weekday(day) == (day + FirstWeekday) % 7

Span(start, end) == [start |-> start, end |-> end]

DaysOf(range) == range.start .. range.end - 1

-----------------------------------------------------------------------------
Presets == {"today", "this_week", "this_month", "last_month", "last_3_months",
            "last_6_months", "this_quarter", "this_year"}

\* Monday opens a week.
WeekStart(today) == today - (IF Weekday(today) = 0 THEN 6 ELSE Weekday(today) - 1)

QuarterStart(month) == 3 * (month \div 3)

YearStart(month) == 12 * (month \div 12)

ResolveDateRange(preset, today) ==
    LET month == MonthOf[today]
    IN  CASE preset = "today" -> Span(today, today + 1)
          [] preset = "this_week" -> Span(WeekStart(today), WeekStart(today) + 7)
          [] preset = "this_month" -> Span(MonthStart[month], MonthStart[month + 1])
          [] preset = "last_month" -> Span(MonthStart[month - 1], MonthStart[month])
          [] preset = "last_3_months" -> Span(MonthStart[month - 2], today + 1)
          [] preset = "last_6_months" -> Span(MonthStart[month - 5], today + 1)
          [] preset = "this_quarter" ->
                Span(MonthStart[QuarterStart(month)], MonthStart[QuarterStart(month) + 3])
          [] preset = "this_year" ->
                Span(MonthStart[YearStart(month)], MonthStart[YearStart(month) + 12])

\* A custom range, in one element, or none when it is refused.
CustomRanges(from, to) == IF from > to THEN {} ELSE {Span(from, to + 1)}

RangeDayCount(range) == range.end - range.start

-----------------------------------------------------------------------------
\* The period a day belongs to, and the periods of a range: days or months.
PeriodKey(day, daily) == IF daily THEN day ELSE MonthOf[day]

\* Slip: a month counts when its first day is in the range.
WholePeriods(range, daily) ==
    IF daily THEN DaysOf(range)
    ELSE {k \in Months : MonthStart[k] \in DaysOf(range)}

PeriodKeys(range, daily) ==
    IF daily THEN DaysOf(range)
    ELSE MonthOf[range.start] .. MonthOf[range.end - 1]

-----------------------------------------------------------------------------
(***************************************************************************)
(* resolveDateRange and the month arithmetic of lib/date-range.ts: every   *)
(* preset but the last month ends after today and contains it, the last    *)
(* month ends where this month starts, the presets are nested, quarters    *)
(* and years are whole and start on their own first month.                 *)
(***************************************************************************)
PresetsFit(day) ==
    LET range(preset) == ResolveDateRange(preset, day)
        within(inner, outer) == DaysOf(range(inner)) \subseteq DaysOf(range(outer))
    IN  /\ \A p \in Presets \ {"last_month"} : day \in DaysOf(range(p))
        /\ range("last_month").end = range("this_month").start
        /\ within("today", "this_week") /\ within("today", "this_month")
        /\ within("this_month", "this_quarter") /\ within("this_quarter", "this_year")
        /\ within("last_month", "last_3_months") /\ within("last_3_months", "last_6_months")
        /\ RangeDayCount(range("this_week")) = 7
        /\ \A p \in Presets, daily \in BOOLEAN :
              {PeriodKey(d, daily) : d \in DaysOf(range(p))} = PeriodKeys(range(p), daily)

=============================================================================

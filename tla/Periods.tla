------------------------------ MODULE Periods ------------------------------
(***************************************************************************)
(* The periods reports are asked for: src/chic/moysklad/dates.py and the   *)
(* periods of src/chic/mcpserver/helpers.py.  Days are counted from the    *)
(* start of a calendar whose months have the lengths Months; a moment is a *)
(* tick, Ticks of them to a day, and the API takes both ends of a period   *)
(* in.                                                                     *)
(*                                                                         *)
(* What a caller gives is empty, a date, or a date with a time; "at" is    *)
(* the moment it names.  A time may be written behind a space or a T, with *)
(* a Z and fractions of a second or without: the code rewrites these to    *)
(* the one form the API reads and drops the Z, so that a time of UTC is    *)
(* taken as one of the account's zone.  Which zone is meant is left out.   *)
(***************************************************************************)
EXTENDS Integers, Sequences, Functions

CONSTANTS
    Ticks,          \* the ticks of a day
    Months          \* the days of each month of the calendar

ASSUME CalendarAssumption == Ticks \in Nat \ {0} /\ Months \in Seq(Nat \ {0}) /\ Months # <<>>

Date(d) == [form |-> "date", at |-> d * Ticks]
Unset == [form |-> "none", at |-> 0]

\* normalize_moment: a date gets midnight.
Moment(s) == s.at

\* Mutant of MomentEnd: the end of a period is midnight too.
MomentEndMidnight(s) == s.at

\* normalize_moment_end: a date gets its last second.
MomentEnd(s) == IF s.form = "date" THEN s.at + Ticks - 1 ELSE s.at

\* The moments a period given by two dates or times takes in.
Window(from, to) == Moment(from) .. MomentEnd(to)

\* period_days, in ticks: both days count; without two dates, or if they are in
\* the wrong order, the fallback.
PeriodTicks(from, to, fallback) ==
    LET ticks == to.at - from.at + Ticks
    IN  IF from.form = "none" \/ to.form = "none" \/ ticks <= 0 THEN fallback * Ticks ELSE ticks

\* The first day of a month.
FirstOf(m) == SumFunction([i \in 1 .. m - 1 |-> Months[i]])

\* The month a day is in.
MonthOf(d) == CHOOSE m \in DOMAIN Months : FirstOf(m) <= d /\ d < FirstOf(m + 1)

\* prev_month: the day before the first of this month, and the first of its month.
PrevMonth(today) ==
    LET to == FirstOf(MonthOf(today)) - 1
    IN  [from |-> FirstOf(MonthOf(to)), to |-> to]
=============================================================================

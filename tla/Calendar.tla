------------------------------ MODULE Calendar ------------------------------
(***************************************************************************)
(* External: the proleptic Gregorian calendar, as the Date object of the   *)
(* browser and Go's package time have it, and the timezones, each with one *)
(* change of its offset.  Days are numbered from 1970-01-01, months count  *)
(* from 0, instants and offsets are half-hours.                            *)
(***************************************************************************)
EXTENDS Integers

LeapYears(y) == (y \div 4) - (y \div 100) + (y \div 400)  \* up to the year y

IsLeap(y) == LeapYears(y) # LeapYears(y - 1)

\* Of the year, before its month m
DaysBefore(y, m) ==
    <<0, 31, 59, 90, 120, 151, 181, 212, 243, 273, 304, 334>>[m + 1]
    + (IF m > 1 /\ IsLeap(y) THEN 1 ELSE 0)

\* Date.UTC, time.Date: a month or a day beyond its range carries over.
DateUTC(y, m, d) ==
    LET year == y + (m \div 12)
    IN 365 * (year - 1970) + LeapYears(year - 1) - LeapYears(1969)
       + DaysBefore(year, m % 12) + d - 1

\* 400 years have 146097 days, which leaves three years to choose from.
YearOf(day) ==
    LET guess == 1970 + ((400 * day) \div 146097)
    IN CHOOSE y \in (guess - 1)..(guess + 1) : DateUTC(y, 0, 1) <= day /\ day < DateUTC(y + 1, 0, 1)

MonthOf(day) ==
    LET y == YearOf(day)
    IN CHOOSE m \in 0..11 : DateUTC(y, m, 1) <= day /\ day < DateUTC(y, m + 1, 1)

Weekday(day) == (day + 4) % 7  \* getUTCDay: 0 is a Sunday

-----------------------------------------------------------------------------
HalfHours == 48  \* of a day

Offset(zone, instant) == IF instant < zone.at THEN zone.before ELSE zone.after

\* What the clocks show at an instant
WallTime(zone, instant) == instant + Offset(zone, instant)
=============================================================================

-------------------------- MODULE ClientConversions --------------------------
(***************************************************************************)
(* The computations of the pages that have edges: dates of an account's    *)
(* timezone, the ranges derived from them, the instant of a wall time      *)
(* across a change of the clocks, and the conversion between PV and net    *)
(* amount.  The two variables only enumerate the inputs, a day in a        *)
(* timezone.  Days are numbered from 1970-01-01, instants and offsets are  *)
(* half-hours, months count from 0.                                        *)
(***************************************************************************)
EXTENDS Calendar

CONSTANTS
    FirstDay, LastDay,  \* bound: the days enumerated
    Zones               \* bound: an offset before and after an instant

ASSUME ConversionAssumption ==
    /\ FirstDay \in Int /\ LastDay \in Int /\ FirstDay < LastDay
    /\ Zones # {}
    /\ \A z \in Zones : z.at \in Int /\ {z.before, z.after} \subseteq (-HalfHours)..HalfHours

-----------------------------------------------------------------------------
(* lib/date.ts                                                             *)

BusinessDate(zone, instant) == WallTime(zone, instant) \div HalfHours

Monday(day) == day - ((Weekday(day) + 6) % 7)

Dates(from, to, granularity) == [from |-> from, to |-> to, granularity |-> granularity]

BusinessRange(preset, day) ==
    LET y == YearOf(day)
        m == MonthOf(day)
        fiscal == IF m >= 8 THEN y ELSE y - 1
    IN CASE preset = "week" -> Dates(Monday(day), Monday(day) + 6, "day")
         [] preset = "month" -> Dates(DateUTC(y, m, 1), DateUTC(y, m + 1, 0), "day")
         [] preset = "calendarYear" -> Dates(DateUTC(y, 0, 1), DateUTC(y, 11, 31), "month")
         [] OTHER -> Dates(DateUTC(fiscal, 8, 1), DateUTC(fiscal + 1, 7, 31), "month")

ReviewPeriodStart(type, day) ==
    CASE type = "WEEKLY" -> Monday(day)
      [] type = "MONTHLY" -> DateUTC(YearOf(day), MonthOf(day), 1)
      [] OTHER -> day

ReviewPeriodEnd(start, type) ==
    CASE type = "WEEKLY" -> start + 6
      [] type = "MONTHLY" -> DateUTC(YearOf(start), MonthOf(start) + 1, 0)
      [] OTHER -> start

\* One correction by the offset that is in force at the candidate
Corrected(zone, wall, candidate) == candidate + wall - WallTime(zone, candidate)

\* Variant: only one correction.
CorrectedOnce(zone, wall) ==
    {instant \in {Corrected(zone, wall, wall)} : WallTime(zone, instant) = wall}

\* zonedDateTimeToISO: two corrections, then a check of the result; the set
\* is empty where the code throws a RangeError.
ZonedDateTimeToISO(zone, wall) ==
    {instant \in {Corrected(zone, wall, Corrected(zone, wall, wall))} :
        WallTime(zone, instant) = wall}

\* from the first midnight of the month before that of a day to the one of
\* the third month after it
CalendarQueryRange(zone, day) ==
    LET y == YearOf(day)
        m == MonthOf(day)
        start(d) == ZonedDateTimeToISO(zone, d * HalfHours)
    IN [from |-> start(DateUTC(y, m - 1, 1)), to |-> start(DateUTC(y, m + 3, 1))]

\* BusinessTimePreview: what the settings count down to
NextBoundary(zone, instant) ==
    ZonedDateTimeToISO(zone, (BusinessDate(zone, instant) + 1) * HalfHours)

-----------------------------------------------------------------------------
(* lib/pv.ts: decimals with three digits, rounded to hundredths            *)

DecimalHundredths(thousandths) ==
    (thousandths \div 10) + (IF thousandths % 10 >= 5 THEN 1 ELSE 0)

NetAmountFromPV(pv) == (DecimalHundredths(pv) * 25 + 1) \div 2

PVOfCents(cents) == (cents * 2 + 12) \div 25

PVFromNetAmount(net) == PVOfCents(DecimalHundredths(net))

PVAndNetAmountMatch(pv, net) == DecimalHundredths(pv) = PVOfCents(DecimalHundredths(net))

-----------------------------------------------------------------------------

VARIABLES today, zone

conversionVars == <<today, zone>>

\* The day before the first one stands for no day yet.
NoDayYet == FirstDay - 1

ConversionTypeOK == today \in NoDayYet..LastDay /\ zone \in Zones

ConversionInit == today = NoDayYet /\ zone = CHOOSE z \in Zones : TRUE

\* A day, in a timezone
Pick(day, z) == today = NoDayYet /\ today' = day /\ zone' = z

ConversionNext ==
    \/ \E day \in FirstDay..LastDay, z \in Zones : Pick(day, z)
    \/ today # NoDayYet /\ UNCHANGED conversionVars

ConversionSpec == ConversionInit /\ [][ConversionNext]_conversionVars

-----------------------------------------------------------------------------
(* Properties                                                              *)

Presets == {"week", "month", "calendarYear", "fiscalYear"}
ReviewTypes == {"DAILY", "WEEKLY", "MONTHLY"}

\* The ranges of a preset hold their day and follow one another without gap
\* or overlap; a business year starts in September.
RangesTile ==
    /\ \A preset \in Presets :
        LET r == BusinessRange(preset, today)
        IN /\ r.from <= today /\ today <= r.to
           /\ BusinessRange(preset, r.to + 1).from = r.to + 1
           /\ BusinessRange(preset, r.from).to = r.to
    /\ Weekday(BusinessRange("week", today).from) = 1
    /\ MonthOf(BusinessRange("fiscalYear", today).from) = 8

\* A review covers its day, and every day of its period starts the same one.
ReviewsCover ==
    \A type \in ReviewTypes :
        LET start == ReviewPeriodStart(type, today)
            end == ReviewPeriodEnd(start, type)
        IN /\ start <= today /\ today <= end
           /\ ReviewPeriodStart(type, end) = start /\ ReviewPeriodStart(type, end + 1) = end + 1

\* A wall time of the day is refused only when the clocks skip it; otherwise
\* its instant shows the same wall time, and falls on this day.
WallTimesConvert ==
    \A wall \in (today * HalfHours)..(today * HalfHours + HalfHours - 1) :
        LET converted == ZonedDateTimeToISO(zone, wall)
        IN /\ converted = {} =>
                \A offset \in {zone.before, zone.after} : WallTime(zone, wall - offset) # wall
           /\ \A instant \in converted : BusinessDate(zone, instant) = today

\* The events asked for around a day include those of its months.
CalendarIsCovered ==
    LET range == CalendarQueryRange(zone, today)
        month == BusinessRange("month", today)
    IN \A from \in range.from, to \in range.to :
        /\ BusinessDate(zone, from) < month.from /\ month.to < BusinessDate(zone, to)
        /\ \A wall \in {month.from * HalfHours, month.to * HalfHours + HalfHours - 1} :
            \A instant \in ZonedDateTimeToISO(zone, wall) : from <= instant /\ instant < to

\* The clocks show the wall time twice.
Repeats(z, wall) == z.at + z.after <= wall /\ wall < z.at + z.before

\* The business date changes at the boundary that is counted down to, unless the clocks
\* show that midnight twice: the boundary is one of the two. There is none to show, and the page
\* breaks, exactly where the clocks skip midnight.
PreviewCountsDown ==
    \A wall \in (today * HalfHours)..(today * HalfHours + HalfHours - 1) :
        \A instant \in ZonedDateTimeToISO(zone, wall) :
            LET next == NextBoundary(zone, instant)
                midnight == (today + 1) * HalfHours
            IN /\ \A boundary \in next :
                    /\ BusinessDate(zone, boundary) = today + 1
                    /\ ~Repeats(zone, midnight) =>
                        instant < boundary /\ BusinessDate(zone, boundary - 1) <= today
               /\ next = {} =>
                    \A offset \in {zone.before, zone.after} :
                        WallTime(zone, midnight - offset) # midnight

\* The net amount computed from a PV matches it, and gives it back.
PVRoundTrips ==
    LET pv == 7 * (today - FirstDay)
        net == 10 * NetAmountFromPV(pv)
    IN /\ PVAndNetAmountMatch(pv, net)
       /\ 10 * PVFromNetAmount(net) = 10 * DecimalHundredths(pv)

\* The edges of lib/date.ts and lib/pv.ts, over every day and timezone given:
\* ends of months, leap days, changes of year, a skipped and a repeated hour.
ConversionsAgree ==
    today # NoDayYet =>
        /\ RangesTile /\ ReviewsCover /\ WallTimesConvert
        /\ CalendarIsCovered /\ PreviewCountsDown /\ PVRoundTrips
=============================================================================

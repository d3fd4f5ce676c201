------------------------------ MODULE Calendar ------------------------------
(***************************************************************************)
(* The dates of a script: $std.datetime (js/datetime.js) over the datetime *)
(* domain of runlet-core sys.rs.                                           *)
(*                                                                         *)
(* A value is an instant and the zone it is viewed in.  Instants are       *)
(* milliseconds since 1970 on a clock whose units are constants, so that a *)
(* day can be a few ticks long; the years, months, weeks and leap days are *)
(* the real ones.  A zone has one change of its offset.  What a call       *)
(* returns is a set: the result, or nothing when it throws.                *)
(***************************************************************************)
EXTENDS Integers, FiniteSets, FiniteSetsExt, TLC

CONSTANTS
    MILLIS_PER_SECOND, SECONDS_PER_MINUTE, MINUTES_PER_HOUR, HOURS_PER_DAY,
    Zones,       \* name -> [change, before, after]: offsets around an instant
    Names,       \* the zone names the script uses, known or not
    FirstYear, LastYear,  \* the years that are representable
    LastTextYear,         \* the last one of RFC 3339, 9999
    Texts,       \* what the script parses
    PartsGiven,  \* the parts it builds a date from
    Deltas,      \* what it adds and subtracts
    Counts,      \* the business days it adds
    MaxCalls     \* bound: the calls of the script

VARIABLES
    value,   \* the date at hand: [ms, zone]
    before,  \* the one the last call was made on
    did,     \* the last call
    calls

datetimeVars == <<value, before, did, calls>>

SECONDS_PER_HOUR == SECONDS_PER_MINUTE * MINUTES_PER_HOUR
SECONDS_PER_DAY == SECONDS_PER_HOUR * HOURS_PER_DAY
Day == SECONDS_PER_DAY * MILLIS_PER_SECOND

ASSUME CalendarAssumption ==
    /\ {MILLIS_PER_SECOND, SECONDS_PER_MINUTE, MINUTES_PER_HOUR, HOURS_PER_DAY} \subseteq Nat \ {0}
    /\ "UTC" \in DOMAIN Zones /\ MaxCalls \in Nat
    /\ \A z \in DOMAIN Zones : {Zones[z].before, Zones[z].after} \subseteq (-Day) .. Day

-----------------------------------------------------------------------------
(* The calendar and the time zones of chrono and chrono-tz (external)      *)

\* The day 1970-01-01 is 0.
DayNumber(y, m, d) ==
    LET a == IF m <= 2 THEN y - 1 ELSE y
    IN 365 * a + a \div 4 - a \div 100 + a \div 400
       + (153 * ((m + 9) % 12) + 2) \div 5 + d - 719469

Years == FirstYear .. LastYear

\* A day's year, month and day of the month.
YearOf[n \in Int] ==
    LET near == 1970 + (400 * n) \div 146097
    IN CHOOSE y \in near - 1 .. near + 1 : DayNumber(y, 1, 1) <= n /\ n < DayNumber(y + 1, 1, 1)

DateIn[n \in Int, y \in Int, m \in 1 .. 12] ==
    [year |-> y, month |-> m, day |-> n - DayNumber(y, m, 1) + 1]

DateOf[n \in Int] ==
    LET month[y \in Int] == Cardinality({k \in 1 .. 12 : DayNumber(y, k, 1) <= n})
    IN DateIn[n, YearOf[n], month[YearOf[n]]]

\* 0 is a Monday
Weekday(n) == (n + 3) % 7

\* The week of the year that has its Thursday.
IsoWeek(n) ==
    LET of[thursday \in Int, y \in Int] ==
            [week |-> (thursday - DayNumber(y, 1, 1)) \div 7 + 1, week_year |-> y]
        thursday == n - Weekday(n) + 3
    IN of[thursday, YearOf[thursday]]

Offset(zone, ms) == IF ms < Zones[zone].change THEN Zones[zone].before ELSE Zones[zone].after
Local(zone, ms) == ms + Offset(zone, ms)

\* The instants at which clocks of the zone show a local time: two in a fold, none in a gap.
Localized(zone, naive) ==
    {ms \in {naive - Zones[zone].before, naive - Zones[zone].after} : Local(zone, ms) = naive}

-----------------------------------------------------------------------------
(* sys.rs                                                                  *)

FirstInstant == DayNumber(FirstYear, 1, 1) * Day
LastInstant == DayNumber(LastYear + 1, 1, 1) * Day - 1

Instant(ms) == {ms} \cap (FirstInstant .. LastInstant)

ParseZone(name) == {name} \cap DOMAIN Zones

\* no zone is UTC
ResolveZone(zone) == IF zone = "" THEN {"UTC"} ELSE ParseZone(zone)

\* Mutant: the later of the two instants of a fold.
FromLocalLatest(zone, naive) ==
    LET at == Localized(zone, naive) IN IF at = {} THEN {} ELSE {Max(at)}

FromLocal(zone, naive) ==
    LET at == Localized(zone, naive) IN IF at = {} THEN {} ELSE {Min(at)}

\* The day before the first of the next month.
DaysInMonth[year \in Int, month \in Int] ==
    LET next == IF month >= 12 THEN DayNumber(year + 1, 1, 1) ELSE DayNumber(year, month + 1, 1)
    IN DateOf[next - 1].day

\* from_ymd_opt and and_hms_milli_opt, then from_local
DatetimeFrom(p, zone) ==
    IF /\ p.year \in Years /\ p.month \in 1 .. 12
       /\ p.day \in 1 .. DaysInMonth[p.year, p.month]
       /\ p.hour < HOURS_PER_DAY /\ p.minute < MINUTES_PER_HOUR
       /\ p.second < SECONDS_PER_MINUTE /\ p.millisecond < MILLIS_PER_SECOND
    THEN UNION {FromLocal(z, DayNumber(p.year, p.month, p.day) * Day + p.millisecond
                             + MILLIS_PER_SECOND * (p.second + SECONDS_PER_MINUTE * p.minute
                                                    + SECONDS_PER_HOUR * p.hour)) :
                z \in ResolveZone(zone)}
    ELSE {}

\* A day of the month, or the last one of a shorter month.
DayOrLast[y \in Int, m \in 1 .. 12, day \in 1 .. 31] ==
    IF y \in Years THEN {DayNumber(y, m, Min({day, DaysInMonth[y, m]}))} ELSE {}

AddMonths[n \in Int, months \in Int] ==
    LET date == DateOf[n]
        index == 12 * date.year + date.month - 1 + months
    IN DayOrLast[index \div 12, (index % 12) + 1, date.day]

\* Calendar months first, to the last day of the month at most, then the fixed part.
DatetimeAdd(ms, months, fixed) ==
    LET shifted == UNION {AddMonths[t \div Day, months] : t \in Instant(ms)}
    IN UNION {Instant(n * Day + (ms % Day) + fixed) : n \in shifted}

LocalParts[local \in Int, n \in Int] ==
    LET date == DateOf[n]
        second == (local % Day) \div MILLIS_PER_SECOND
    IN date @@
       [hour |-> second \div SECONDS_PER_HOUR,
        minute |-> (second % SECONDS_PER_HOUR) \div SECONDS_PER_MINUTE,
        second |-> second % SECONDS_PER_MINUTE,
        millisecond |-> local % MILLIS_PER_SECOND,
        weekday |-> Weekday(n) + 1,
        quarter |-> (date.month - 1) \div 3 + 1,
        day_of_year |-> n - DayNumber(YearOf[n], 1, 1) + 1,
        iso_week |-> IsoWeek(n),
        days_in_month |-> DaysInMonth[date.year, date.month]]

DatetimeParts(ms, zone) == LocalParts[Local(zone, ms), Local(zone, ms) \div Day]

WeekBoundary(n, end) == LET monday == n - Weekday(n) IN IF end THEN monday + 6 ELSE monday

MonthBoundary(n, end) ==
    LET date == DateOf[n]
    IN DayNumber(date.year, date.month, IF end THEN DaysInMonth[date.year, date.month] ELSE 1)

\* Mutant: a quarter ends on the 30th of its last month.
QuarterBoundary30(n, end) ==
    LET date == DateOf[n]
        first == 3 * ((date.month - 1) \div 3) + 1
    IN IF end THEN DayNumber(date.year, first + 2, 30) ELSE DayNumber(date.year, first, 1)

QuarterBoundary(n, end) ==
    LET date == DateOf[n]
        first == 3 * ((date.month - 1) \div 3) + 1
    IN IF end THEN MonthBoundary(DayNumber(date.year, first + 2, 1), TRUE)
              ELSE DayNumber(date.year, first, 1)

YearBoundary(n, end) ==
    LET y == YearOf[n] IN IF end THEN DayNumber(y, 12, 31) ELSE DayNumber(y, 1, 1)

Units == {"day", "week", "month", "quarter", "year"}

BoundaryDate(n, unit, end) ==
    CASE unit = "day" -> n
      [] unit = "week" -> WeekBoundary(n, end)
      [] unit = "month" -> MonthBoundary(n, end)
      [] unit = "quarter" -> QuarterBoundary(n, end)
      [] unit = "year" -> YearBoundary(n, end)

DatetimeBoundary(ms, zone, unit, end) ==
    LET target(t) == BoundaryDate(Local(zone, t) \div Day, unit, end)
    IN UNION {FromLocal(zone, target(t) * Day + (IF end THEN Day - 1 ELSE 0)) : t \in Instant(ms)}

Minute == SECONDS_PER_MINUTE * MILLIS_PER_SECOND

\* An offset of chrono's text, to the nearest whole minute, and a half of one away from zero.
TextOffset(offset) ==
    LET whole(n) == ((2 * n + Minute) \div (2 * Minute)) * Minute
    IN IF offset < 0 THEN -whole(-offset) ELSE whole(offset)

\* An RFC 3339 text is a local time with its offset; without a zone the offset is Z.  A year
\* of more than four digits has a sign before it, which RFC 3339 has not.
DatetimeIso(ms, zone) ==
    [is |-> IF YearOf[Local(zone, ms) \div Day] <= LastTextYear THEN "rfc3339" ELSE "other",
     local |-> Local(zone, ms), offset |-> TextOffset(Offset(zone, ms))]

\* An RFC 3339 text, a date alone (its day number), or a text it will not guess.
ParseDateStr(text) ==
    CASE text.is = "rfc3339" -> {text.local - text.offset}
      [] text.is = "date" -> {text.day * Day}
      [] text.is = "other" -> {}

\* Toward zero, as i64 division and Math.ceil of a negative quotient are.
Truncated(n, k) == IF n < 0 THEN -((-n) \div k) ELSE n \div k

SplitDuration(s) ==
    [days |-> s \div SECONDS_PER_DAY,
     hours |-> (s % SECONDS_PER_DAY) \div SECONDS_PER_HOUR,
     minutes |-> (s % SECONDS_PER_HOUR) \div SECONDS_PER_MINUTE,
     seconds |-> s % SECONDS_PER_MINUTE]

DatetimeDiff(a, b) ==
    LET seconds == Truncated(a - b, MILLIS_PER_SECOND)
    IN [total_ms |-> a - b, total_seconds |-> seconds,
        split |-> SplitDuration(IF seconds < 0 THEN -seconds ELSE seconds)]

-----------------------------------------------------------------------------
(* js/datetime.js                                                          *)

DateTime(ms, zone) == [ms |-> ms, zone |-> zone]

ViewZone(v) == IF v.zone = "" THEN "UTC" ELSE v.zone

PartsOf(v) == DatetimeParts(v.ms, ViewZone(v))

MonthsOf(delta) == 12 * delta.years + delta.months

FixedMs(delta) ==
    ((((delta.weeks * 7 + delta.days) * HOURS_PER_DAY + delta.hours) * MINUTES_PER_HOUR
      + delta.minutes) * SECONDS_PER_MINUTE + delta.seconds) * MILLIS_PER_SECOND + delta.ms

AddTo(v, delta) == {DateTime(ms, v.zone) : ms \in DatetimeAdd(v.ms, MonthsOf(delta), FixedMs(delta))}

SubFrom(v, delta) == {DateTime(ms, v.zone) : ms \in DatetimeAdd(v.ms, -MonthsOf(delta), -FixedMs(delta))}

UnitMs ==
    [ms |-> 1, seconds |-> MILLIS_PER_SECOND, minutes |-> SECONDS_PER_MINUTE * MILLIS_PER_SECOND,
     hours |-> SECONDS_PER_HOUR * MILLIS_PER_SECOND, days |-> Day, weeks |-> 7 * Day]

DiffIn(v, w, unit) == Truncated(v.ms - w.ms, UnitMs[unit])

StartOf(v, unit) == {DateTime(ms, v.zone) : ms \in DatetimeBoundary(v.ms, ViewZone(v), unit, FALSE)}

EndOf(v, unit) == {DateTime(ms, v.zone) : ms \in DatetimeBoundary(v.ms, ViewZone(v), unit, TRUE)}

IsWeekend(v) == PartsOf(v).weekday \in {6, 7}

NoDelta ==
    [years |-> 0, months |-> 0, weeks |-> 0, days |-> 0, hours |-> 0, minutes |-> 0,
     seconds |-> 0, ms |-> 0]

\* Mutant: only the last step looks at the weekend.
BusinessStepLast(v, left) == IF left = 1 /\ IsWeekend(v) THEN left ELSE left - 1

\* The business days that are left once a step has come to v.
BusinessStep(v, left) == IF IsWeekend(v) THEN left ELSE left - 1

AddBusinessDays(v, n) ==
    LET sign == IF n < 0 THEN -1 ELSE 1
        walk[cur \in [ms : Int, zone : {v.zone}], left \in Nat] ==
            IF left = 0 THEN {cur}
            ELSE UNION {walk[next, BusinessStep(next, left)] : next \in AddTo(cur, [NoDelta EXCEPT !.days = sign])}
    IN walk[v, sign * n]

\* A view of the same instant, once the name is known.
InZone(v, zone) == {DateTime(v.ms, z) : z \in ParseZone(zone)}

Parse(text) == {DateTime(ms, "") : ms \in ParseDateStr(text)}

From(parts, zone) == {DateTime(ms, "") : ms \in DatetimeFrom(parts, zone)}

-----------------------------------------------------------------------------
(* A script's calls: each makes a new date of the one at hand, or throws   *)

\* The call what returned a member of results, or threw.
Calls(what, results) ==
    /\ calls < MaxCalls /\ calls' = calls + 1
    /\ before' = value
    /\ \/ value' \in results /\ did' = [what EXCEPT !.ok = TRUE]
       \/ results = {} /\ UNCHANGED value /\ did' = [what EXCEPT !.ok = FALSE]

Call(op) == [op |-> op, ok |-> TRUE]

DatetimeInit ==
    /\ \E t \in Texts, zone \in Names \cup {""} :
          value \in UNION {IF zone = "" THEN {v} ELSE InZone(v, zone) : v \in Parse(t)}
    /\ before = value /\ did = Call("none") /\ calls = 0

\* Bound: a script starts from one date.
DoParse == calls = 0 /\ \E t \in Texts : Calls(Call("parse"), Parse(t))

\* datetime(d) of a date drops the view.
DoReparse == Calls(Call("reparse"), {DateTime(value.ms, "")})

DoFrom == calls = 0 /\ \E p \in PartsGiven, zone \in Names \cup {""} : Calls(Call("from"), From(p, zone))

DoAdd == \E d \in Deltas : Calls(Call("add") @@ [delta |-> d], AddTo(value, d))

DoSub == \E d \in Deltas : Calls(Call("sub") @@ [delta |-> d], SubFrom(value, d))

DoStartOf == \E u \in Units : Calls(Call("start_of") @@ [unit |-> u], StartOf(value, u))

DoEndOf == \E u \in Units : Calls(Call("end_of") @@ [unit |-> u], EndOf(value, u))

DoBusinessDays == \E n \in Counts : Calls(Call("business") @@ [n |-> n], AddBusinessDays(value, n))

DoInZone == \E zone \in Names : Calls(Call("in_zone"), InZone(value, zone))

DatetimeNext ==
    \/ DoParse \/ DoReparse \/ DoFrom \/ DoAdd \/ DoSub
    \/ DoStartOf \/ DoEndOf \/ DoBusinessDays \/ DoInZone

DatetimeSpec == DatetimeInit /\ [][DatetimeNext]_datetimeVars

-----------------------------------------------------------------------------
(* Properties                                                              *)

\* Every date is in range, in a known view.
DatetimeTypeOK ==
    /\ calls \in 0 .. MaxCalls
    /\ {value.zone, before.zone} \subseteq DOMAIN Zones \cup {""}
    /\ Instant(value.ms) = {value.ms}

\* The period of a unit that the components of a date name.
PeriodOf(p, unit) ==
    CASE unit = "day" -> <<p.year, p.day_of_year>>
      [] unit = "week" -> <<p.iso_week.week_year, p.iso_week.week>>
      [] unit = "month" -> <<p.year, p.month>>
      [] unit = "quarter" -> <<p.year, p.quarter>>
      [] unit = "year" -> <<p.year>>

Period(v, unit) == PeriodOf(PartsOf(v), unit)

\* The local times that no clock of the view shows.
Skipped(v) ==
    LET z == Zones[ViewZone(v)] IN z.change + z.before .. z.change + z.after - 1

\* The clocks of the view show the time of v again later.
ShownAgain(v) == \E ms \in Localized(ViewZone(v), Local(ViewZone(v), v.ms)) : ms > v.ms

Moved(v, ms) == DateTime(v.ms + ms, v.zone)

\* start_of and end_of are the first and the last instant of the day, week, month, quarter
\* or year that the components of the date name, in its own view; the next instant is in
\* the next period.  Only where clocks show the end of the period twice is it the end of
\* the first showing.  They throw only where the clocks skip the midnight that the period
\* begins with, or the last instant before the one that it ends with (datetime_boundary,
\* datetime_parts, from_local).
PeriodsTile ==
    /\ did.op = "start_of" /\ did.ok =>
          /\ value.ms <= before.ms
          /\ Period(value, did.unit) = Period(before, did.unit)
          /\ Period(Moved(value, -1), did.unit) # Period(before, did.unit)
    /\ did.op = "end_of" /\ did.ok =>
          /\ Period(value, did.unit) = Period(before, did.unit)
          /\ ~ShownAgain(value) =>
                /\ before.ms <= value.ms
                /\ Period(Moved(value, 1), did.unit) # Period(before, did.unit)
    /\ did.op \in {"start_of", "end_of"} /\ ~did.ok =>
          \E t \in Skipped(value) :
             /\ (IF did.op = "end_of" THEN t + 1 ELSE t) % Day = 0
             /\ PeriodOf(LocalParts[t, t \div Day], did.unit) = Period(value, did.unit)

\* The zone of the view keeps one offset between two dates.
Steady(v, w) == Offset(ViewZone(v), v.ms) = Offset(ViewZone(w), w.ms)

\* The days of the view after v, up to and with w, that are no Saturday or Sunday.
BusinessDaysAfter(v, w) ==
    LET day(x) == Local(ViewZone(x), x.ms) \div Day
    IN Cardinality({n \in day(v) + 1 .. day(w) : Weekday(n) < 5})

\* v is on the same day in its view as in UTC.
OnUtcDay(v) == Local(ViewZone(v), v.ms) \div Day = v.ms \div Day

\* The calendar part of a shift, before its fixed part.
ByMonths == Moved(value, IF did.op = "add" THEN -FixedMs(did.delta) ELSE FixedMs(did.delta))

\* In a zone, months from one date to another: as many on the calendar, to the same day of
\* the month, or to the last day of a shorter one, at the same time of day.
MonthsApart(months, v, w, zone) ==
    \A was \in {DatetimeParts(v.ms, zone)}, is \in {DatetimeParts(w.ms, zone)} :
        /\ 12 * is.year + is.month = 12 * was.year + was.month + months
        /\ is.day = was.day \/ (is.day < was.day /\ is.day = is.days_in_month)
        /\ <<is.hour, is.minute, is.second, is.millisecond>>
           = <<was.hour, was.minute, was.second, was.millisecond>>

\* Months are counted on the calendar of UTC, and on that of the view where it is on UTC's
\* day and its offset stays; fixed units are added to that exactly.  n business days from a
\* date end on the n-th business day of the view, at the same time of day (datetime_add,
\* add_business_days).
ShiftsKeepTheCalendar ==
    /\ did.op \in {"add", "sub"} /\ did.ok =>
          \A zone \in {"UTC"} \cup (IF OnUtcDay(before) /\ Steady(before, ByMonths)
                                    THEN {ViewZone(before)} ELSE {}) :
             MonthsApart(IF did.op = "add" THEN MonthsOf(did.delta) ELSE -MonthsOf(did.delta),
                         before, ByMonths, zone)
    /\ did.op = "business" /\ did.ok =>
          /\ (value.ms - before.ms) % Day = 0
          /\ did.n # 0 => ~IsWeekend(value)
          /\ Steady(before, value) =>
                /\ did.n >= 0 => BusinessDaysAfter(before, value) = did.n
                /\ did.n < 0 => BusinessDaysAfter(Moved(value, -Day), Moved(before, -Day)) = -did.n

\* A view never moves the instant.  The components of a date and its zone make the same
\* instant again, except that the later showing of a repeated time becomes the earlier one;
\* its ISO text in the zone does, except that an offset with seconds is off by what it is
\* rounded, and that a year of five digits is not read.  The units of a difference add up
\* (datetime_from, datetime_parts, datetime_iso, parse_date_str, datetime_diff).
ReadingsAgree ==
    did.op # "none" =>
        /\ did.op \in {"in_zone", "reparse"} => value.ms = before.ms
        /\ LET read == ParseDateStr(DatetimeIso(value.ms, ViewZone(value)))
           IN IF PartsOf(value).year > LastTextYear THEN read = {}
              ELSE \E ms \in read :
                      /\ 2 * ms \in 2 * value.ms - Minute .. 2 * value.ms + Minute
                      /\ Offset(ViewZone(value), value.ms) % Minute = 0 => ms = value.ms
        /\ \E p \in {PartsOf(value)} : \E ms \in DatetimeFrom(p, value.zone) :
              /\ ms <= value.ms
              /\ ms = value.ms \/ ShownAgain(DateTime(ms, value.zone))
        /\ LET d == DatetimeDiff(value.ms, before.ms)
               back == DatetimeDiff(before.ms, value.ms)
               seconds == ((d.split.days * HOURS_PER_DAY + d.split.hours) * MINUTES_PER_HOUR + d.split.minutes)
                          * SECONDS_PER_MINUTE + d.split.seconds
           IN /\ seconds = (IF value.ms < before.ms THEN -d.total_seconds ELSE d.total_seconds)
              /\ d.split = back.split /\ d.total_seconds = -back.total_seconds
              /\ DiffIn(value, before, "days") = (IF value.ms < before.ms THEN -d.split.days ELSE d.split.days)

-----------------------------------------------------------------------------
(* Claims of specifications that the code does not meet                    *)

\* openspec datetime/spec.md:119-120, 130-131, "Jan 31 + 1 month -> the last day of February",
\* "not an overflowed March date": add is sent no zone, so that a view reads its own 31st
\* plus a month as the 1st of the month after.
MonthsClampInTheView ==
    did.op \in {"add", "sub"} /\ did.ok /\ Steady(before, ByMonths) =>
        MonthsApart(IF did.op = "add" THEN MonthsOf(did.delta) ELSE -MonthsOf(did.delta),
                    before, ByMonths, ViewZone(before))

\* openspec datetime/spec.md:183-190, "SHALL return the boundary instant for `unit`", "the
\* first-instant and last-instant of that month".
BoundariesExist == did.op \in {"start_of", "end_of"} => did.ok

\* openspec datetime/spec.md:75-76, "it SHALL serialize to its RFC 3339 UTC string".
SerializesAsRfc3339 == DatetimeIso(value.ms, "UTC").is = "rfc3339"

\* openspec datetime/spec.md:227, "it returns the RFC 3339 string, epoch seconds, and epoch
\* milliseconds of the same instant", in a zone as well.
IsoIsTheInstant ==
    PartsOf(value).year <= LastTextYear =>
        ParseDateStr(DatetimeIso(value.ms, ViewZone(value))) = {value.ms}
=============================================================================

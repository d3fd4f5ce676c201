------------------------------ MODULE MCValues ------------------------------
(***************************************************************************)
(* The value utilities of a script: amounts of money in a currency with    *)
(* cents, one without and one that is not known; and dates around leap     *)
(* days, the ends of quarters and the changes of several zones.  The two   *)
(* share no state, so that a behaviour has to do with one of them.         *)
(***************************************************************************)
EXTENDS Money, Calendar

MCCurrencies == {"USD", "JPY", "XXX", ""}
MCEXP == [USD |-> 2, JPY |-> 0]
MCDefault == "USD"

\* -0.05, 0.125 and 1
MCAmounts == {Dec(-5, 2), Dec(125, 3), Whole(1)}
\* 9, 1e-7, '10' and '9', of which the strings are in the order of their first characters
MCScalars ==
    {NumberOf(Whole(9), FALSE), NumberOf(Dec(1, 7), TRUE), StringOf(Whole(10), 1), StringOf(Whole(9), 2)}
MCPercents == {Whole(50), Dec(75, 1)}
MCWeightLists ==
    {<<Whole(1), Whole(1), Whole(1)>>, <<Whole(10), Whole(1), Whole(1)>>,
     <<Dec(5, 1), Whole(1)>>, <<Whole(1), Whole(0), Whole(1)>>,
     <<Whole(1), Whole(-1)>>, <<Whole(0)>>, <<>>}

-----------------------------------------------------------------------------
\* A day of four hours of two minutes of two seconds of two ticks.
Hour == 8
At0(y, m, d) == DayNumber(y, m, d) * 32

\* Clocks go forward and back by an hour, on a Sunday, inside a day or at its midnight, or
\* skip the last hour of a Saturday; and a local mean time, whose offset has a second.
MCZones ==
    [z \in {"UTC", "east", "spring", "autumn", "skips", "repeats", "evening", "mean"} |->
        CASE z = "UTC" -> [change |-> 0, before |-> 0, after |-> 0]
          [] z = "east" -> [change |-> 0, before |-> 2 * Hour, after |-> 2 * Hour]
          [] z = "spring" -> [change |-> At0(2001, 3, 25) + 2 * Hour, before |-> -Hour, after |-> 0]
          [] z = "autumn" -> [change |-> At0(2001, 3, 25) + 2 * Hour, before |-> 0, after |-> -Hour]
          [] z = "skips" -> [change |-> At0(2001, 4, 1), before |-> 0, after |-> Hour]
          [] z = "repeats" -> [change |-> At0(2001, 4, 1), before |-> 0, after |-> -Hour]
          [] z = "evening" -> [change |-> At0(2001, 4, 1) - Hour, before |-> 0, after |-> Hour]
          [] z = "mean" -> [change |-> At0(2001, 3, 25), before |-> -Hour - 2, after |-> -Hour]]
MCNames == DOMAIN MCZones \cup {"nowhere"}

OnDay(y, m, d) == [is |-> "date", day |-> DayNumber(y, m, d)]
LeapDay == OnDay(2000, 2, 29)
\* Ends of months, quarters and years, and days whose ISO week is of another year.
Ends ==
    {OnDay(2000, 1, 1), OnDay(2001, 2, 28), OnDay(2000, 3, 31), OnDay(2001, 9, 30), OnDay(2000, 11, 30),
     OnDay(2001, 12, 31), OnDay(2004, 12, 31), OnDay(2005, 1, 1)}
MCTexts ==
    Ends \cup
    {LeapDay,
     [is |-> "rfc3339", local |-> At0(2001, 1, 31) + 31, offset |-> Hour],
     [is |-> "rfc3339", local |-> At0(2001, 3, 30) + 29, offset |-> 0],
     [is |-> "rfc3339", local |-> At0(2001, 4, 1) + 3, offset |-> 0],
     [is |-> "rfc3339", local |-> At0(2001, 3, 25) + 2 * Hour, offset |-> 0],
     [is |-> "rfc3339", local |-> At0(2000, 12, 31) + 30, offset |-> -Hour],
     [is |-> "other"]}

PartsAt(y, m, d, h) ==
    [year |-> y, month |-> m, day |-> d, hour |-> h, minute |-> 1, second |-> 0, millisecond |-> 1]
MCParts ==
    {PartsAt(2000, 2, 29, 0), PartsAt(2001, 2, 29, 0), PartsAt(2001, 3, 25, 1),
     PartsAt(2001, 4, 1, 0), PartsAt(2001, 13, 1, 0), PartsAt(2001, 3, 31, 3)}

MCDeltas ==
    {[NoDelta EXCEPT !.months = 1], [NoDelta EXCEPT !.years = 1, !.months = -2],
     [NoDelta EXCEPT !.weeks = 1, !.hours = 1, !.ms = 1], [NoDelta EXCEPT !.months = 1, !.days = -1],
     [NoDelta EXCEPT !.minutes = 3, !.seconds = 1], [NoDelta EXCEPT !.years = 20]}
MCCounts == {-3, 0, 1, 6}

-----------------------------------------------------------------------------
ValuesInit == Init /\ DatetimeInit

ValuesNext ==
    \/ calls = 0 /\ value = DateTime(LeapDay.day * Day, "") /\ Next /\ UNCHANGED datetimeVars
    \/ ops = 0 /\ DatetimeNext /\ UNCHANGED vars

ValuesSpec == ValuesInit /\ [][ValuesNext]_<<vars, datetimeVars>>
=============================================================================

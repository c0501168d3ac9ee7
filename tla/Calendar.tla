------------------------------ MODULE Calendar ------------------------------
(***************************************************************************)
(* base/Date and base/TimeZone: Julian day numbers, UTC, and the local     *)
(* times of a zone given by its transitions.  Division and remainder of    *)
(* C++ round towards zero.  A struct tm of gmtime_r is abstracted to the   *)
(* day since the epoch and the second of that day.                         *)
(***************************************************************************)
EXTENDS Integers, Sequences

Quot(n, d) == IF n >= 0 THEN n \div d ELSE -((-n) \div d)
Rem(n, d) == n - d * Quot(n, d)

-----------------------------------------------------------------------------
(* Date *)

\* getJulianDayNumber
JulianDay(year, month, day) ==
    LET a == Quot(14 - month, 12)
        y == year + 4800 - a
        m == month + 12 * a - 3
    IN  day + Quot(153 * m + 2, 5) + y * 365 + Quot(y, 4) - Quot(y, 100)
          + Quot(y, 400) - 32045

\* getYearMonthDay
YearMonthDay(julianDayNumber) ==
    LET a == julianDayNumber + 32044
        b == Quot(4 * a + 3, 146097)
        c == a - Quot(b * 146097, 4)
        d == Quot(4 * c + 3, 1461)
        e == c - Quot(1461 * d, 4)
        m == Quot(5 * e + 2, 153)
    IN  [year  |-> b * 100 + d - 4800 + Quot(m, 10),
         month |-> m + 3 - 12 * Quot(m, 10),
         day   |-> e - Quot(153 * m + 2, 5) + 1]

WeekDay(julianDayNumber) == Rem(julianDayNumber + 1, 7)

Epoch == JulianDay(1970, 1, 1)      \* kJulianDayOf1970_01_01
SecondsPerDay == 24 * 60 * 60

-----------------------------------------------------------------------------
(* UTC *)

FillHMS(seconds) ==
    [hour |-> (seconds \div 60) \div 60, min |-> (seconds \div 60) % 60, sec |-> seconds % 60]

\* Wrong variant: the remainder of a time before the epoch is not corrected.
ToUtcTimeTruncated(t) ==
    LET seconds == Rem(t, SecondsPerDay)
        days    == Quot(t, SecondsPerDay)
        ymd     == YearMonthDay(days + Epoch)
    IN  [ymd |-> ymd, hms |-> FillHMS(seconds), wday |-> WeekDay(days + Epoch),
         yday |-> days + Epoch - JulianDay(ymd.year, 1, 1)]

\* toUtcTime: also before the epoch
ToUtcTime(t) ==
    LET before  == Rem(t, SecondsPerDay) < 0
        seconds == Rem(t, SecondsPerDay) + (IF before THEN SecondsPerDay ELSE 0)
        days    == Quot(t, SecondsPerDay) - (IF before THEN 1 ELSE 0)
        ymd     == YearMonthDay(days + Epoch)
    IN  [ymd |-> ymd, hms |-> FillHMS(seconds), wday |-> WeekDay(days + Epoch),
         yday |-> days + Epoch - JulianDay(ymd.year, 1, 1)]

\* fromUtcTime
FromUtcTime(ymd, hms) ==
    (JulianDay(ymd.year, ymd.month, ymd.day) - Epoch) * SecondsPerDay
      + hms.hour * 3600 + hms.min * 60 + hms.sec

-----------------------------------------------------------------------------
(* Zones *)

\* gmtime_r and timegm
GmTime(t) == [day |-> t \div SecondsPerDay, second |-> t % SecondsPerDay]
TimeGm(tm) == tm.day * SecondsPerDay + tm.second

\* readTimeZoneFile: types is the list of localtimes, each transition a time
\* and the index of the type that begins then
ReadTimeZoneFile(types, times, indexes) ==
    [localtimes  |-> types,
     transitions |-> [i \in DOMAIN times |->
                        [gmttime |-> times[i], localtimeIdx |-> indexes[i],
                         localtime |-> times[i] + types[indexes[i]].gmtOffset]]]

\* TimeZone(int eastOfUtc, const char* name)
FixedZone(eastOfUtc) ==
    [localtimes |-> <<[gmtOffset |-> eastOfUtc, isDst |-> FALSE]>>, transitions |-> << >>]

\* findLocaltime, with the field that Comp compares, "gmttime" or "localtime", and
\* its value in the sentry: lower_bound finds the first transition not before it
FindLocaltime(zone, field, sentry) ==
    LET ts == zone.transitions
        notBefore == {i \in DOMAIN ts : ts[i][field] >= sentry}
        lower == CHOOSE i \in notBefore : \A j \in notBefore : i <= j
    IN  IF ts = << >> \/ sentry < ts[1][field] THEN zone.localtimes[1]
        ELSE IF notBefore = {} THEN zone.localtimes[ts[Len(ts)].localtimeIdx]
        ELSE IF ts[lower][field] = sentry THEN zone.localtimes[ts[lower].localtimeIdx]
        ELSE zone.localtimes[ts[lower - 1].localtimeIdx]

ToLocalTime(zone, t) ==
    LET local == FindLocaltime(zone, "gmttime", t)
    IN  [tm |-> GmTime(t + local.gmtOffset), isDst |-> local.isDst]

\* Wrong variant: the hour that comes twice is always the second one.
FromLocalTimeOnce(zone, localTm) ==
    TimeGm(localTm.tm) - FindLocaltime(zone, "localtime", TimeGm(localTm.tm)).gmtOffset

\* fromLocalTime: of an hour that comes twice, the first one is meant if the
\* caller says that it is in daylight saving time
FromLocalTime(zone, localTm) ==
    LET seconds == TimeGm(localTm.tm)
        local == FindLocaltime(zone, "localtime", seconds)
        tryTm == ToLocalTime(zone, seconds - local.gmtOffset)
        Minutes(tm) == tm.second \div 60
        first == /\ localTm.isDst /\ ~tryTm.isDst
                 /\ Minutes(tryTm.tm) = Minutes(localTm.tm)
    IN  (IF first THEN seconds - 3600 ELSE seconds) - local.gmtOffset
=============================================================================

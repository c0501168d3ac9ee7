------------------------------ MODULE Logging ------------------------------
(***************************************************************************)
(* base/Logging: what a LOG_ statement puts into a line.  formatTime keeps *)
(* the text of the last second in each thread; the wall clock ticks, goes  *)
(* back, and the time zone is changed.  Before anything is logged the days *)
(* pass, beside a calendar that only counts, with which Date is compared.  *)
(***************************************************************************)
EXTENDS Calendar, LogStream, FiniteSets

CONSTANTS
    Threads,        \* threads that log
    FirstYear, LastYear,    \* the days that pass
    LogDays,        \* Julian day numbers of the days on which threads log, all
                    \* after 1 January 1970: formatTime has no negative fractions
    Offsets,        \* zones east of UTC, in seconds
    MessageLengths, \* lengths of messages
    MaxSecond,      \* the clock moves between the seconds 0..MaxSecond of the day
    MaxSteps        \* bound on the lines and changes of zone

ASSUME LoggerAssumption ==
    /\ FirstYear \in 1900..2500 /\ LastYear \in FirstYear..2500
    /\ MaxSecond \in 0..(SecondsPerDay - 1) /\ MaxSteps \in Nat
    /\ MessageLengths \subseteq Nat /\ \A d \in LogDays : d \in Nat /\ d > Epoch

VARIABLES
    julian, date, weekday,  \* today: its Julian day number, and by counting
    second,         \* second of the day
    timeZone,       \* g_logTimeZone
    unaware,        \* threads with a text made before it was set last
    logLevel,       \* g_logLevel
    cache,          \* per thread: t_lastSecond and t_time
    line,           \* the last line that was output, if any
    aborted,        \* abort() was called
    steps           \* lines and changes so far

logVars == <<second, timeZone, unaware, logLevel, cache, line, aborted, steps>>
vars == <<julian, date, weekday, logVars>>

NoZone == [localtimes |-> << >>, transitions |-> << >>]     \* TimeZone(), not valid()
Levels == <<"TRACE", "DEBUG", "INFO", "WARN", "ERROR", "FATAL">>
LevelNumber(level) == CHOOSE i \in DOMAIN Levels : Levels[i] = level

IsLeap(year) == year % 4 = 0 /\ (year % 100 # 0 \/ year % 400 = 0)

\* The day of the week of 1 January of FirstYear, counted from 1900, when it was
\* a Monday
FirstWeekday ==
    (1 + 365 * (FirstYear - 1900) + Cardinality({y \in 1900..(FirstYear - 1) : IsLeap(y)})) % 7

Now == (julian - Epoch) * SecondsPerDay + second

Init ==
    /\ julian = JulianDay(FirstYear, 1, 1)
    /\ date = [year |-> FirstYear, month |-> 1, day |-> 1]
    /\ weekday = FirstWeekday
    /\ second = 0 /\ timeZone = NoZone /\ unaware = {}
    /\ logLevel = "INFO"        \* initLogLevel, without WEB_LOG_TRACE and WEB_LOG_DEBUG
    /\ cache = [t \in Threads |-> [lastSecond |-> 0, time |-> << >>]]     \* no text yet
    /\ line = {} /\ aborted = FALSE /\ steps = 0

-----------------------------------------------------------------------------
(* The calendar, by counting *)

DaysOf(year, month) ==
    CASE month = 2 -> IF IsLeap(year) THEN 29 ELSE 28
      [] month \in {4, 6, 9, 11} -> 30
      [] OTHER -> 31

NextDay ==
    IF date.day < DaysOf(date.year, date.month) THEN [date EXCEPT !.day = @ + 1]
    ELSE IF date.month < 12 THEN [date EXCEPT !.day = 1, !.month = @ + 1]
    ELSE [year |-> date.year + 1, month |-> 1, day |-> 1]

Tomorrow ==
    /\ steps = 0 /\ second = 0 /\ NextDay.year <= LastYear
    /\ julian' = julian + 1 /\ date' = NextDay /\ weekday' = (weekday + 1) % 7
    /\ UNCHANGED logVars

-----------------------------------------------------------------------------
(* Logger *)

\* The time of t as formatTime writes it: the digits stand for the struct tm
TimeText(zone, t) == IF zone = NoZone THEN GmTime(t) ELSE ToLocalTime(zone, t).tm

\* Wrong variant: the text is only made anew when time goes on.
FormatTimeLater(thread) ==
    IF Now > cache[thread].lastSecond
    THEN [lastSecond |-> Now, time |-> TimeText(timeZone, Now)]
    ELSE cache[thread]

\* formatTime: the cache of the thread after it
FormatTime(thread) ==
    IF Now # cache[thread].lastSecond
    THEN [lastSecond |-> Now, time |-> TimeText(timeZone, Now)]
    ELSE cache[thread]

\* Impl::Impl, the user's operator<<, a message and a number, and finish()
LineOf(message, errno) ==
    LET header == AppendText(AppendText(AppendText(EmptyStream, "time", 2), "tid", 1), "level", 1)
        err    == IF errno THEN AppendNumber(AppendText(header, "error", 1), "errno", 2) ELSE header
        user   == AppendNumber(AppendText(err, "message", message), "number", 2)
        file   == AppendText(AppendText(user, "file", 1), "colon", 1)
    IN  AppendText(AppendNumber(file, "line", 2), "newline", 1)

\* A LOG_ statement: the macros test the level below WARN; the destructor of
\* Logger outputs the line, and aborts after a fatal one
Log(thread, level, message, errno) ==
    /\ julian \in LogDays /\ ~aborted /\ steps < MaxSteps
    /\ level \in {"TRACE", "DEBUG", "INFO"} => LevelNumber(logLevel) <= LevelNumber(level)
    /\ errno => level \in {"ERROR", "FATAL"}
    /\ cache' = [cache EXCEPT ![thread] = FormatTime(thread)]
    /\ unaware' = IF Now # cache[thread].lastSecond THEN unaware \ {thread} ELSE unaware
    /\ line' = {[stamp |-> FormatTime(thread).time, zone |-> timeZone, time |-> Now,
                 kept |-> thread \in unaware', stream |-> LineOf(message, errno)]}
    /\ aborted' = (level = "FATAL")
    /\ steps' = steps + 1
    /\ UNCHANGED <<julian, date, weekday, second, timeZone, logLevel>>

SetTimeZone(zone) ==
    /\ julian \in LogDays /\ ~aborted /\ steps < MaxSteps /\ zone # timeZone
    /\ timeZone' = zone /\ unaware' = Threads /\ steps' = steps + 1
    /\ UNCHANGED <<julian, date, weekday, second, logLevel, cache, line, aborted>>

SetLogLevel(level) ==
    /\ julian \in LogDays /\ ~aborted /\ steps < MaxSteps /\ level # logLevel
    /\ logLevel' = level /\ steps' = steps + 1
    /\ UNCHANGED <<julian, date, weekday, second, timeZone, unaware, cache, line, aborted>>

\* The wall clock ticks or is set
ClockMoves(s) ==
    /\ steps > 0 /\ ~aborted /\ s # second /\ second' = s
    /\ UNCHANGED <<julian, date, weekday, timeZone, unaware, logLevel, cache, line, aborted, steps>>

Next ==
    \/ Tomorrow
    \/ \E t \in Threads, i \in DOMAIN Levels, m \in MessageLengths, e \in BOOLEAN :
         Log(t, Levels[i], m, e)
    \/ \E east \in Offsets : SetTimeZone(FixedZone(east))
    \/ \E level \in {"TRACE", "DEBUG", "INFO"} : SetLogLevel(level)
    \/ \E s \in 0..MaxSecond : ClockMoves(s)

Spec == Init /\ [][Next]_vars

-----------------------------------------------------------------------------
(* Properties *)

\* The value of the digits that Convert gives
RECURSIVE ValueOf(_, _)
ValueOf(digits, base) ==
    IF digits = << >> THEN 0 ELSE digits[1] + base * ValueOf(Tail(digits), base)

Seconds == {0, 1, 59, 3599, 3600, 43200, SecondsPerDay - 1}

\* Date.cc:26-50, TimeZone.cc:320-358, LogStream.cc:51-90: on every day from
\* 1900 to 2500 the arithmetic of Date gives the date and the day of the week
\* that counting gives, and back; toUtcTime and fromUtcTime agree with it, also
\* before 1970, and the digits of a number are its own.
DatesAgree ==
    /\ YearMonthDay(julian) = date
    /\ JulianDay(date.year, date.month, date.day) = julian
    /\ WeekDay(julian) = weekday
    /\ julian - Epoch \in -24000..24000 =>
        \A s \in Seconds :
          LET t  == (julian - Epoch) * SecondsPerDay + s
              tm == ToUtcTime(t)
          IN  /\ tm.ymd = date /\ tm.wday = weekday
              /\ tm.hms.hour \in 0..23 /\ tm.hms.min \in 0..59 /\ tm.hms.sec \in 0..59
              /\ (date.month = 1 /\ date.day = 1) <=> tm.yday = 0
              /\ FromUtcTime(tm.ymd, tm.hms) = t
    /\ \A n \in {julian, Epoch - julian}, base \in {10, 16} :
         LET c == Convert(n, base)
         IN  n = ValueOf(c.digits, base) * (IF c.negative THEN -1 ELSE 1)

\* The zones with daylight saving time from one day to a later one
Types(std) == <<[gmtOffset |-> std, isDst |-> FALSE], [gmtOffset |-> std + 3600, isDst |-> TRUE]>>
Zones ==
    {ReadTimeZoneFile(Types(std), <<SecondsPerDay + a, 2 * SecondsPerDay + b>>, <<2, 1>>) :
        std \in {-18000, 0, 3600}, a \in {0, 3600, 7200}, b \in {0, 3600, 5400}}

\* TimeZone.cc:228-316: a time turned into local time and back is the same
\* time, also in the hour that comes twice when daylight saving time ends, and
\* around the hour that is left out when it begins.
LocalTimeInverse ==
    julian - Epoch \in 0..3 =>
      \A zone \in Zones \cup {FixedZone(east) : east \in Offsets}, half \in 0..47 :
        LET t == (julian - Epoch) * SecondsPerDay + half * 1800
        IN  FromLocalTime(zone, ToLocalTime(zone, t)) = t

\* Logging.cc:106-206: a line shows the time at which it was made in the zone
\* that its ending names, although the text is kept for a second and the clock
\* goes back, unless the zone was changed after the thread made the text it
\* keeps for that very second; it stays within the buffer, and the newline is
\* only missing if the message all but fills it.
LinesFormatted ==
    \A l \in line :
      /\ l.stamp = TimeText(l.zone, l.time) \/ l.kept
      /\ l.stream.used < SmallBuffer
      /\ "newline" \in {l.stream.pieces[i] : i \in DOMAIN l.stream.pieces}
           \/ l.stream.used = SmallBuffer - 1
=============================================================================

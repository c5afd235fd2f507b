---------------------------- MODULE CollectedDate ----------------------------
(***************************************************************************)
(* ExtractCollectedDate and GetHourOnly: from an archive path to the hour  *)
(* bucket its rows are written under (HourOf in ParquetFactory).           *)
(*                                                                         *)
(* A path is abstracted to whether its text around the date matches the    *)
(* timestampRe pattern (prefix: archives/compressed/<hex>/<uuid>/, suffix  *)
(* .tar.gz at the end) and the six decimal fields that the pattern's       *)
(* groups capture: a four-digit year and two-digit month, day, hour,       *)
(* minute and second.  The groups are rejoined as an RFC 3339 string and   *)
(* parsed by time.Parse, which validates ranges and the day of the month.  *)
(*                                                                         *)
(* The one variable walks over every path of the bounded input set, so     *)
(* each state is one input and the invariants compare the code's result   *)
(* with a calendar reference for it.                                       *)
(***************************************************************************)
EXTENDS Integers

CONSTANTS
    Years,                          \* four-digit values explored
    Months, Days, HourValues,       \* two-digit values explored
    MinuteValues, SecondValues,
    NoDate                          \* the error result

ASSUME /\ Years \subseteq 1000..9999
       /\ \A S \in {Months, Days, HourValues, MinuteValues, SecondValues} :
             S \subseteq 0..99

Path == [shape: BOOLEAN, year: Years, month: Months, day: Days,
         hour: HourValues, minute: MinuteValues, second: SecondValues]

VARIABLE path

Tens(n) == n \div 10
Ones(n) == n % 10

\* timestampRe: (20[0-9]{2})([0-1][0-9])/(0[1-9]|[12]\d|3[01])/
\*              ([0-2][0-9])([0-6][0-9])([0-6][0-9])\.tar\.gz$
DayGroup(n) ==
    \/ Tens(n) = 0 /\ Ones(n) # 0
    \/ Tens(n) \in {1, 2}
    \/ Tens(n) = 3 /\ Ones(n) \in {0, 1}

HourGroupNarrow(n) == Tens(n) \in 0..1

HourGroup(n) == Tens(n) \in 0..2

MatchesTimestampRe(p) ==
    /\ p.shape
    /\ p.year \div 100 = 20
    /\ Tens(p.month) \in 0..1
    /\ DayGroup(p.day)
    /\ HourGroup(p.hour)
    /\ Tens(p.minute) \in 0..6
    /\ Tens(p.second) \in 0..6

\* time.Parse: isLeap and daysIn of the Go time package.
IsLeapNo400(y) == y % 4 = 0 /\ y % 100 # 0

IsLeap(y) == y % 4 = 0 /\ (y % 100 # 0 \/ y % 400 = 0)

DaysIn(m, y) ==
    IF m = 2 THEN (IF IsLeap(y) THEN 29 ELSE 28)
    ELSE IF m \in {4, 6, 9, 11} THEN 30 ELSE 31

\* The RFC 3339 string the code builds from the groups is accepted when
\* every field is in range ("month/day/hour/minute/second out of range").
ParsesRFC3339(p) ==
    /\ p.month \in 1..12
    /\ p.day \in 1..DaysIn(p.month, p.year)
    /\ p.hour < 24 /\ p.minute < 60 /\ p.second < 60

Instant(p) == [year |-> p.year, month |-> p.month, day |-> p.day,
               hour |-> p.hour, minute |-> p.minute, second |-> p.second]

ExtractCollectedDate(p) ==
    IF MatchesTimestampRe(p) /\ ParsesRFC3339(p) THEN Instant(p) ELSE NoDate

\* time.Date(Y, M, D, h, 0, 0, 0, loc): minutes, seconds and
\* nanoseconds nullified.
GetHourOnly(t) == [t EXCEPT !.minute = 0, !.second = 0]

Init == path \in Path

\* Each input is examined on its own; nothing changes.
Next == UNCHANGED path

Spec == Init /\ [][Next]_path

-----------------------------------------------------------------------------
(* Reference calendar: days since 1970-01-01 of a proleptic Gregorian      *)
(* date, by the era-based days-from-civil construction.                    *)

DaysFromCivil(y, m, d) ==
    LET yy  == IF m <= 2 THEN y - 1 ELSE y
        era == yy \div 400
        yoe == yy - era * 400
        mp  == IF m > 2 THEN m - 3 ELSE m + 9
        doy == (153 * mp + 2) \div 5 + d - 1
        doe == yoe * 365 + yoe \div 4 - yoe \div 100 + doy
    IN era * 146097 + doe - 719468

NextMonthStart(y, m) ==
    IF m = 12 THEN DaysFromCivil(y + 1, 1, 1) ELSE DaysFromCivil(y, m + 1, 1)

\* A real instant: the day falls before the first of the next month.
RealInstant(p) ==
    /\ p.month \in 1..12 /\ p.day >= 1
    /\ DaysFromCivil(p.year, p.month, p.day) < NextMonthStart(p.year, p.month)
    /\ p.hour < 24 /\ p.minute < 60 /\ p.second < 60

-----------------------------------------------------------------------------
(* Properties                                                              *)

\* ExtractCollectedDate (timestampRe, then time.Parse of the rejoined
\* groups) accepts a well-shaped path exactly when its date is a real
\* instant of the years 2000-2099 the pattern admits, and then returns
\* that instant: a leap-year, month-length or field-range slip in the
\* pattern or the parse puts a real archive in no bucket, or a
\* non-existent date in one.
ExtractAgreesWithCalendar ==
    ExtractCollectedDate(path) =
        IF path.shape /\ path.year \in 2000..2099 /\ RealInstant(path)
        THEN Instant(path) ELSE NoDate
=============================================================================

------------------------------ MODULE TimeLib ------------------------------
(***************************************************************************)
(* TIMEs and dates of generated programs (lib/C/iec_std_lib.h): seconds    *)
(* and nanoseconds of one sign.  A sum of exactly one second's worth of    *)
(* nanoseconds is left as it is, so one duration may have two forms.       *)
(***************************************************************************)
EXTENDS Integers

Second == 1000000000    \* nanoseconds
Time(s, n) == [sec |-> s, nsec |-> n]
Zero == Time(0, 0)      \* T#0s

(* The two conditional steps of __normalize_timespec, one after the other. *)
Borrow(t) == IF t.nsec < -Second \/ (t.sec > 0 /\ t.nsec < 0)
             THEN Time(t.sec - 1, t.nsec + Second) ELSE t
Carry(t) == IF t.nsec > Second \/ (t.sec < 0 /\ t.nsec > 0)
            THEN Time(t.sec + 1, t.nsec - Second) ELSE t
normalize_timespec(t) == Carry(Borrow(t))

time_add(a, b) == normalize_timespec(Time(a.sec + b.sec, a.nsec + b.nsec))
time_sub(a, b) == normalize_timespec(Time(a.sec - b.sec, a.nsec - b.nsec))
time_cmp(a, b) == IF b.sec = a.sec THEN a.nsec - b.nsec ELSE a.sec - b.sec

LE_TIME(a, b) == time_cmp(a, b) <= 0
GE_TIME(a, b) == time_cmp(a, b) >= 0

(* What a TIME stands for, in units of 1 / n seconds.                      *)
In(n, t) == n * t.sec + t.nsec \div (Second \div n)

-----------------------------------------------------------------------------
(* Dates: seconds since 1970 to a civil date and back, in the 32-bit       *)
(* arithmetic of the C.                                                    *)
Date(y, m, d, s) == [year |-> y, mon |-> m, day |-> d, tod |-> s]  \* tod: seconds of the day
Day == 24 * 60 * 60

isleap(y) == y % 4 = 0 /\ (y % 100 # 0 \/ y % 400 = 0)
(* __mon_yday[__isleap(y)][m]: the days of the year before month m + 1.    *)
mon_yday(y, m) ==
    LET normal == <<31, 59, 90, 120, 151, 181, 212, 243, 273, 304, 334, 365>>
    IN  IF m = 0 THEN 0 ELSE normal[m] + IF m > 1 /\ isleap(y) THEN 1 ELSE 0
YearLen(y) == IF isleap(y) THEN 366 ELSE 365

(* The two loops over the years, forward from 1970 or back.                *)
year_of[y \in Int] ==
    [days \in Int |-> IF days < 0 THEN year_of[y - 1][days + YearLen(y - 1)]
                      ELSE IF days >= YearLen(y) THEN year_of[y + 1][days - YearLen(y)]
                      ELSE <<y, days>>]

(* Mutant: the search for the month uses the table of normal years.        *)
convert_seconds_no_leap(seconds) ==
    LET y == year_of[1970][seconds \div Day]
        m == CHOOSE k \in 1 .. 12 : y[2] >= mon_yday(1970, k - 1) /\ (k < 12 => y[2] < mon_yday(1970, k))
    IN  Date(y[1], m, y[2] - mon_yday(1970, m - 1) + 1, seconds % Day)
convert_seconds_to_date_and_time(seconds) ==
    LET y == year_of[1970][seconds \div Day]
        m == CHOOSE k \in 1 .. 12 : mon_yday(y[1], k - 1) <= y[2] /\ y[2] < mon_yday(y[1], k)
    IN  Date(y[1], m, y[2] - mon_yday(y[1], m - 1) + 1, seconds % Day)

(* n \div k of TLA+ rounds down, as the code's corrections of its own      *)
(* quotients do.                                                           *)
leap_days(y) == LET a4 == (y \div 4) - (IF y % 4 = 0 THEN 1 ELSE 0)
                    a100 == a4 \div 25
                IN  a4 - a100 + (a100 \div 4)

(* days * 24 * 60 * 60 in an int of 32 bits: 86400 = 128 * 675, and the    *)
(* int counts 2 ^ 25 steps of 128 seconds, half of them below zero.        *)
HalfInt == 16777216
IntDays == 24855        \* no more days fit, before or after 1970
Seconds32(days) == 128 * (((days * 675 + HalfInt) % (2 * HalfInt)) - HalfInt)
days_since_1970(day, month, year) ==
    LET yday == mon_yday(year, month - 1) + day
    IN  (year - 1970) * 365 + leap_days(year) - leap_days(1970) + yday - 1
date_to_timespec(day, month, year) == Time(Seconds32(days_since_1970(day, month, year)), 0)
dt_to_timespec(d) == Time(d.tod + date_to_timespec(d.day, d.mon, d.year).sec, 0)

-----------------------------------------------------------------------------
(* The civil calendar, day by day: what the conversions are compared with. *)
MonthLen(y, m) == IF m = 2 THEN IF isleap(y) THEN 29 ELSE 28
                  ELSE IF m \in {4, 6, 9, 11} THEN 30 ELSE 31
NextDay(d) == IF d.day < MonthLen(d.year, d.mon) THEN [d EXCEPT !.day = @ + 1]
              ELSE IF d.mon < 12 THEN [d EXCEPT !.day = 1, !.mon = @ + 1]
              ELSE [d EXCEPT !.day = 1, !.mon = 1, !.year = @ + 1]
OnCalendar(d) == /\ d \in [year : Int, mon : 1 .. 12, day : 1 .. 31, tod : 0 .. Day - 1]
                 /\ d.day <= MonthLen(d.year, d.mon)
SecondsLater(d, s) ==
    LET later[n \in Nat] == IF n = 0 THEN d ELSE NextDay(later[n - 1])
    IN  [later[(d.tod + s) \div Day] EXCEPT !.tod = (d.tod + s) % Day]
=============================================================================

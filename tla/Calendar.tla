------------------------------ MODULE Calendar ------------------------------
(***************************************************************************)
(* The Jalali calendar of the page (web/src/lib/jalali.ts) and the month   *)
(* its date field draws (web/src/components/JalaliDateField.tsx): days of  *)
(* the two calendars are records, and the integer arithmetic is the one of *)
(* the code, truncation toward zero included.                              *)
(***************************************************************************)
EXTENDS Integers, Sequences, FiniteSetsExt

\* The years in which the pattern of leap years starts anew.
breaks == <<-61, 9, 38, 199, 426, 686, 756, 818, 1111, 1181, 1210, 1635, 1701, 1866, 2020,
            2369, 2394, 2456, 3178>>

\* ~~(a / b) and a - ~~(a / b) * b, for positive b.
Div(a, b) == IF a >= 0 THEN a \div b ELSE -((-a) \div b)
Mod(a, b) == a - Div(a, b) * b

InTable(jy) == breaks[1] <= jy /\ jy < breaks[Len(breaks)]

\* Years since the last leap year, the Gregorian year, and the day of March
\* of the first of Farvardin.
JalCal(jy) ==
    LET Jump(i) == breaks[i + 1] - breaks[i]
        Leaps(i) == Div(Jump(i), 33) * 8 + Div(Mod(Jump(i), 33), 4)
        s     == CHOOSE i \in 1 .. Len(breaks) - 1 : breaks[i] <= jy /\ jy < breaks[i + 1]
        n     == jy - breaks[s]
        leapJ == MapThenSumSet(Leaps, 1 .. s - 1) - 14 + Div(n, 33) * 8 + Div(Mod(n, 33) + 3, 4)
                   + (IF Mod(Jump(s), 33) = 4 /\ Jump(s) - n = 4 THEN 1 ELSE 0)
        gy    == jy + 621
        leapG == Div(gy, 4) - Div((Div(gy, 100) + 1) * 3, 4) - 150
        k     == IF Jump(s) - n < 6 THEN n - Jump(s) + Div(Jump(s) + 4, 33) * 33 ELSE n
        leap  == Mod(Mod(k + 1, 33) - 1, 4)
    IN  [leap |-> IF leap = -1 THEN 4 ELSE leap, gy |-> gy, march |-> 20 + leapJ - leapG]

\* The Julian day number of a Gregorian date, and back.
G2D(gy, gm, gd) ==
    LET y == gy + Div(gm - 8, 6) + 100100
    IN  Div(y * 1461, 4) + Div(153 * Mod(gm + 9, 12) + 2, 5) + gd - 34840408
          - Div(Div(y, 100) * 3, 4) + 752

D2G(jdn) ==
    LET j == 4 * jdn + 139361631 + Div(Div(4 * jdn + 183187720, 146097) * 3, 4) * 4 - 3908
        i == Div(Mod(j, 1461), 4) * 5 + 308
        m == Mod(Div(i, 153), 12) + 1
    IN  [gy |-> Div(j, 1461) - 100100 + Div(8 - m, 6), gm |-> m, gd |-> Div(Mod(i, 153), 5) + 1]

ToJalali(date) ==
    LET jy == date.gy - 621
        r  == JalCal(jy)
        k  == G2D(date.gy, date.gm, date.gd) - G2D(date.gy, 3, r.march)
        Autumn(y, d) == [jy |-> y, jm |-> 7 + Div(d, 30), jd |-> Mod(d, 30) + 1]
    IN  IF k < 0 THEN Autumn(jy - 1, k + 179 + (IF r.leap = 1 THEN 1 ELSE 0))
        ELSE IF k > 185 THEN Autumn(jy, k - 186)
        ELSE [jy |-> jy, jm |-> 1 + Div(k, 31), jd |-> Mod(k, 31) + 1]

ToGregorian(jy, jm, jd) ==
    LET r == JalCal(jy)
    IN  D2G(G2D(r.gy, 3, r.march) + (jm - 1) * 31 - Div(jm, 7) * (jm - 7) + jd - 1)

--------------------------------------------------------------------------
(* The calendar of the browser's Date, days counted by the Gregorian rule. *)

MonthDays == <<31, 28, 31, 30, 31, 30, 31, 31, 30, 31, 30, 31>>
GregorianLeap(y) == y % 4 = 0 /\ (y % 100 # 0 \/ y % 400 = 0)
DayNumber(date) ==
    LET y == date.gy - 1
    IN  365 * y + y \div 4 - y \div 100 + y \div 400
          + MapThenSumSet(LAMBDA m : MonthDays[m], 1 .. date.gm - 1)
          + (IF date.gm > 2 /\ GregorianLeap(date.gy) THEN 1 ELSE 0) + date.gd
Weekday(date) == DayNumber(date) % 7        \* getDay: 0 is Sunday

--------------------------------------------------------------------------
(* The month that is drawn.                                                *)

\* Mutant: every fourth year is a leap year.
EveryFourth(jy) == jy % 4 = 3
IsJalaliLeap(jy) == DayNumber(ToGregorian(jy + 1, 1, 1)) - DayNumber(ToGregorian(jy, 1, 1)) = 366

JalaliMonthLength(jy, jm) ==
    IF jm <= 6 THEN 31 ELSE IF jm <= 11 THEN 30 ELSE IF IsJalaliLeap(jy) THEN 30 ELSE 29

SaturdayFirstColumn(date) == (Weekday(date) + 1) % 7

\* The cells: in which of the seven columns, from Saturday on, a day stands.
Cells(jy, jm) ==
    LET offset == SaturdayFirstColumn(ToGregorian(jy, jm, 1))
    IN  [jd \in 1 .. JalaliMonthLength(jy, jm) |-> (offset + jd - 1) % 7]

Shift(view, delta) ==
    LET index == view.jy * 12 + view.jm - 1 + delta
    IN  [jy |-> index \div 12, jm |-> (index % 12) + 1]
=============================================================================

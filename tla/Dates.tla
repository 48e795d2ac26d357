------------------------------- MODULE Dates -------------------------------
(***************************************************************************)
(* Dates in questions, and back to words (ceist/dates.py).                 *)
(*                                                                         *)
(* A date is [y, m, d].  A phrase is [kind, points]: "in", "before",       *)
(* "after" and "since" have one point, "between" two, "last_n" the point   *)
(* [kind |-> unit, n |-> n].  A point is [kind, n, m, d], n being a year, a*)
(* century's number or a decade's first year.  A range is <<lo, hi>>, each *)
(* a sequence of at most one date: empty is an open end.  Which characters *)
(* spell a point is modelled by which numbers it can carry (Readable).     *)
(***************************************************************************)
EXTENDS Integers, Sequences, FiniteSetsExt

-----------------------------------------------------------------------------
\* The calendar

Leap(y) == y % 4 = 0 /\ (y % 100 # 0 \/ y % 400 = 0)
MonthLength(y, m) == IF m = 2 THEN IF Leap(y) THEN 29 ELSE 28
                     ELSE IF m \in {4, 6, 9, 11} THEN 30 ELSE 31
Date(y, m, d) == [y |-> y, m |-> m, d |-> d]
MonthEnd(y, m) == Date(y, m, MonthLength(y, m))

DaysBefore(y) == 365 * (y - 1) + (y - 1) \div 4 - (y - 1) \div 100 + (y - 1) \div 400

DaysToMonth(y, m) ==
    <<0, 31, 59, 90, 120, 151, 181, 212, 243, 273, 304, 334>>[m] + (IF m > 2 /\ Leap(y) THEN 1 ELSE 0)

\* date.toordinal, and days(): the ordinal counted from 1970.
Ordinal(t) == DaysBefore(t.y) + DaysToMonth(t.y, t.m) + t.d
Days(t) == Ordinal(t) - Ordinal(Date(1970, 1, 1))

\* date.fromordinal
DateOf(n) ==
    LET y == Max({y \in (n \div 366)..(n \div 365 + 1) : DaysBefore(y) < n})
        m == Max({k \in 1..12 : Ordinal(Date(y, k, 1)) <= n})
    IN Date(y, m, n - Ordinal(Date(y, m, 1)) + 1)

Plus(t, n) == DateOf(Ordinal(t) + n)
Weekday(t) == (Ordinal(t) - 1) % 7

-----------------------------------------------------------------------------
\* Words to a range

\* The years a bare number is read as, and those with four digits.
BareYears == 1000..2099
FourDigits == 1000..9999

Readable(p) ==
    CASE p.kind = "year" -> p.n \in BareYears
      [] p.kind = "decade" -> p.n \in {y \in FourDigits : y % 10 = 0}
      [] p.kind = "century" -> p.n \in 1..99
      [] p.kind \in {"month", "day"} -> p.n \in FourDigits
      [] OTHER -> TRUE

Span(p, today) ==
    LET years(a, b) == <<Date(a, 1, 1), Date(b, 12, 31)>>
        before == Plus(Date(today.y, today.m, 1), -1)
        monday == Plus(today, -Weekday(today))
        week(n) == <<Plus(monday, 7 * n), Plus(monday, 7 * n + 6)>>
        month(y, m) == <<Date(y, m, 1), MonthEnd(y, m)>>
        one(t) == <<t, t>>
    IN CASE p.kind = "day" -> one(Date(p.n, p.m, p.d))
         [] p.kind = "month" -> month(p.n, p.m)
         [] p.kind = "decade" -> years(p.n, p.n + IF p.n % 100 = 0 THEN 99 ELSE 9)
         [] p.kind = "century" -> years(Max({100 * (p.n - 1), 1}), 100 * (p.n - 1) + 99)
         [] p.kind = "year" -> years(p.n, p.n)
         [] p.kind = "today" -> one(today)
         [] p.kind = "yesterday" -> one(Plus(today, -1))
         [] p.kind = "this year" -> years(today.y, today.y)
         [] p.kind = "last year" -> years(today.y - 1, today.y - 1)
         [] p.kind = "this month" -> month(today.y, today.m)
         [] p.kind = "last month" -> month(before.y, before.m)
         [] p.kind = "this week" -> week(0)
         [] p.kind = "last week" -> week(-1)

\* "the last n months" reach back to the same day of a month, or to its last.
Ago(today, n, unit) ==
    LET months == 12 * today.y + today.m - 1 - n * (IF unit = "years" THEN 12 ELSE 1)
        y == months \div 12  m == (months % 12) + 1
    IN CASE unit = "days" -> Plus(today, -n)
         [] unit = "weeks" -> Plus(today, -7 * n)
         [] OTHER -> Date(y, m, Min({today.d, MonthLength(y, m)}))

\* From the days of the first point and of the last.
Bounds(kind, first, last) ==
    CASE kind \in {"in", "between"} -> <<<<first[1]>>, <<last[2]>>>>
      [] kind = "before" -> <<<<>>, <<Plus(first[1], -1)>>>>
      [] kind = "after" -> <<<<Plus(first[2], 1)>>, <<>>>>
      [] kind = "since" -> <<<<first[1]>>, <<>>>>

\* find, of one phrase.
RangeOf(phrase, today) ==
    IF phrase.kind = "last_n"
    THEN <<<<Ago(today, Head(phrase.points).n, Head(phrase.points).kind)>>, <<today>>>>
    ELSE Bounds(phrase.kind, Span(Head(phrase.points), today),
                             Span(phrase.points[Len(phrase.points)], today))

-----------------------------------------------------------------------------
\* A range to words

Point(kind, n) == [kind |-> kind, n |-> n, m |-> 1, d |-> 1]
Day(t) == [kind |-> "day", n |-> t.y, m |-> t.m, d |-> t.d]
Month(t) == [kind |-> "month", n |-> t.y, m |-> t.m, d |-> 1]

WholeYears(lo, hi) == <<lo.m, lo.d, hi.m, hi.d>> = <<1, 1, 12, 31>>

\* A whole year, century, decade or month, if that is what the range is.
Whole(lo, hi) ==
    IF WholeYears(lo, hi)
    THEN IF lo.y = hi.y THEN <<Point("year", lo.y)>>
         ELSE IF lo.y % 100 = 0 /\ hi.y = lo.y + 99 THEN <<Point("century", lo.y \div 100 + 1)>>
         ELSE IF lo.y % 10 = 0 /\ hi.y = lo.y + 9 THEN <<Point("decade", lo.y)>>
         ELSE <<>>
    ELSE IF lo.d = 1 /\ hi = MonthEnd(lo.y, lo.m) THEN <<Month(lo)>> ELSE <<>>

Phrase(kind, points) == [kind |-> kind, points |-> points]

\* The largest unit that ends, or begins, where the range does.
BeforeItself(hi) ==
    Phrase("before", <<IF hi.m = 12 /\ hi.d = 31 THEN Point("year", hi.y) ELSE Day(Plus(hi, 1))>>)
Before(hi) ==
    LET next == Plus(hi, 1)
    IN Phrase("before", <<IF next.m = 1 /\ next.d = 1 THEN Point("year", next.y)
                          ELSE IF next.d = 1 THEN Month(next) ELSE Day(next)>>)
After(lo) ==
    LET prev == Plus(lo, -1)
    IN Phrase("after", <<IF prev.m = 12 /\ prev.d = 31 THEN Point("year", prev.y)
                         ELSE IF lo.d = 1 THEN Month(prev) ELSE Day(prev)>>)

Between(lo, hi) ==
    IF lo = hi THEN Phrase("in", <<Day(lo)>>)
    ELSE IF Whole(lo, hi) # <<>> THEN Phrase("in", Whole(lo, hi))
    ELSE IF WholeYears(lo, hi)
    THEN Phrase("between", <<Point("year", lo.y), Point("year", hi.y)>>)
    ELSE Phrase("between", <<Day(lo), Day(hi)>>)

Label(range) ==
    IF range[1] # <<>> /\ range[2] # <<>> THEN Between(range[1][1], range[2][1])
    ELSE IF range[2] # <<>> THEN Before(range[2][1]) ELSE After(range[1][1])

-----------------------------------------------------------------------------

\* The words for the first ten years of a century are those for the century: the one
\* range the code's words do not read back to.
FirstTenYears(range) ==
    /\ range[1] # <<>> /\ range[2] # <<>>
    /\ WholeYears(range[1][1], range[2][1])
    /\ range[1][1].y % 100 = 0 /\ range[2][1].y = range[1][1].y + 9

\* Words that can be read, and mean the range.
Means(label, range, today) ==
    /\ \A i \in DOMAIN label.points : Readable(label.points[i])
    /\ RangeOf(label, today) = range

\* The days that the words for a range name: its ends, or the day just outside an open one.
DaysNamed(range) ==
    CASE range[1] # <<>> /\ range[2] # <<>> -> {range[1][1], range[2][1]}
      [] range[1] = <<>> /\ range[2] # <<>> -> {Plus(range[2][1], 1)}
      [] range[1] # <<>> /\ range[2] = <<>> -> {Plus(range[1][1], -1)}

\* A range of calendar days that the words for years can name.
IsDate(t) ==
    /\ t \in [y : Nat \ {0}, m : 1..12, d : 1..31]
    /\ t.d <= MonthLength(t.y, t.m)
Tellable(range) ==
    /\ \E lo, hi \in {range[i][1] : i \in {i \in 1..2 : range[i] # <<>>}} :
          /\ IsDate(lo) /\ IsDate(hi)
          /\ range \in {<<<<lo>>, <<hi>>>>, <<<<>>, <<hi>>>>, <<<<lo>>, <<>>>>}
    /\ \A t \in DaysNamed(range) : t.y \in BareYears

\* A range but the one above.
LabelReadsBack(range, today) == ~FirstTenYears(range) => Means(Label(range), range, today)

\* "label(lo, hi) gives the canonical words for it ... so a plan and a query compiled
\* from it read back the same way" (dates.py:13-16): a phrase's range becomes words that
\* can be read, and that mean the same range, on any day.
ReadsBack(phrase, today) == LabelReadsBack(RangeOf(phrase, today), today)

=============================================================================

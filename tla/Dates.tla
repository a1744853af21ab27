-------------------------------- MODULE Dates --------------------------------
(***************************************************************************)
(* The dates people type (metadata/dateparse.py): a text is read as a      *)
(* period, and kept with its years written out.  A text is modelled by     *)
(* what separates its parts (shape), its numbers and its word; which       *)
(* spelling a word or separator has makes no difference.  Days are         *)
(* numbered, as date.toordinal does it.                                    *)
(***************************************************************************)
EXTENDS Integers, Sequences

----------------------------------------------------------------------------
(* The calendar (datetime.date) *)

Leap(y) == y % 4 = 0 /\ (y % 100 # 0 \/ y % 400 = 0)

MonthLength(y, m) ==
  CASE m = 2 -> IF Leap(y) THEN 29 ELSE 28
    [] m \in {4, 6, 9, 11} -> 30
    [] OTHER -> 31

DaysBeforeMonth(m) == <<0, 31, 59, 90, 120, 151, 181, 212, 243, 273, 304, 334>>[m]

Day(y, m, d) ==
  LET p == y - 1 IN
  365 * p + p \div 4 - p \div 100 + p \div 400
    + DaysBeforeMonth(m) + (IF m > 2 /\ Leap(y) THEN 1 ELSE 0) + d

IsDate(y, m, d) == y \in 1 .. 9999 /\ m \in 1 .. 12 /\ d \in 1 .. MonthLength(y, m)

YearOf(day) ==
  CHOOSE y \in (day \div 366) .. (day \div 365 + 1) : Day(y, 1, 1) <= day /\ day < Day(y + 1, 1, 1)

MonthOf(day) ==
  LET y == YearOf(day) IN
  CHOOSE m \in 1 .. 12 : Day(y, m, 1) <= day /\ day < Day(y, m, 1) + MonthLength(y, m)

----------------------------------------------------------------------------
(* Texts *)

\* Digits as they are typed.
Number(digits, value) == [digits |-> digits, value |-> value]

\* str(year)
Written(y) ==
  Number(CASE y < 10 -> 1 [] y \in 10 .. 99 -> 2 [] y \in 100 .. 999 -> 3 [] OTHER -> 4, y)

\* _Y
IsYear(n) == n.digits \in {2, 4}

Short(n) == n.digits \in {1, 2}

Text(shape, nums, word) == [shape |-> shape, nums |-> nums, word |-> word]

Singles == {"a", "ca. a", "season a", "as", "third as", "month a"}
Pairs   == {"a. month b", "a.b", "a-b", "a bis b"}
Triples == {"a-b-c", "a.b.c"}

\* Years before 1000 are left out: written with four digits they lose their
\* zeros (str), and would be read as another year after that.
Numbers == [digits: {1, 2}, value: 0 .. 99] \cup [digits: {4}, value: 1000 .. 9999]

Months == <<"jan", "feb", "mar", "apr", "mai", "jun", "jul", "aug", "sep", "okt", "nov", "dez">>

\* SEASONS: first and last month
Seasons == [spring |-> <<3, 5>>, sommer |-> <<6, 8>>, herbst |-> <<9, 11>>, winter |-> <<12, 2>>]

\* _decade_parsed: first and last year of a decade
Thirds == [early |-> <<0, 3>>, mid |-> <<4, 6>>, late |-> <<7, 9>>]

\* Words the regular expressions know; the decade ends in "s" without one.
Words(shape) ==
  CASE shape \in {"month a", "a. month b"} -> {Months[m] : m \in 1 .. 12}
    [] shape = "season a" -> DOMAIN Seasons
    [] shape = "third as" -> DOMAIN Thirds
    [] OTHER -> {""}

IsText(t) ==
  /\ t \in [shape: Singles \cup Pairs \cup Triples, nums: Seq(Numbers), word: STRING]
  /\ t.word \in Words(t.shape)
  /\ t.shape \in Singles => Len(t.nums) = 1
  /\ t.shape \in Pairs => Len(t.nums) = 2
  /\ t.shape \in Triples => Len(t.nums) = 3

\* A blank input.
NoText == Text("", <<>>, "")

\* date.isoformat
IsoText(day) ==
  LET y == YearOf(day)  m == MonthOf(day)  IN
  Text("a-b-c", <<Number(4, y), Number(2, m), Number(2, day - Day(y, m, 1) + 1)>>, "")

\* _expand_year
ExpandYear(n) == IF n.digits = 4 THEN n.value ELSE 1900 + n.value

\* _expand_year with a reference
ExpandYearAfter(n, reference) ==
  IF n.digits = 4 THEN n.value ELSE (reference \div 100) * 100 + n.value

\* Mutant: years are written with two digits.
Abbreviated(text, k, year) == [text EXCEPT !.nums[k] = Number(2, year % 100)]

\* _rebuild_with_years, for one of the numbers
Rebuilt(text, k, year) == Text(text.shape, [text.nums EXCEPT ![k] = Written(year)], text.word)

----------------------------------------------------------------------------
(* Matchers *)

\* PrecisionLiteral
Precisions == {"exact", "month", "season", "year", "range", "decade"}

\* ParsedDate
Period(earliest, latest, precision, display) ==
  [earliest |-> earliest, latest |-> latest, precision |-> precision, display |-> display]

\* ParseError: no matcher takes the text, or one of them refuses it.
Failure == Period(0, 0, "error", NoText)

\* _end_of_month
EndOfMonth(y, m) == Day(y, m, MonthLength(y, m))

Exact(y, m, d, display) ==
  IF IsDate(y, m, d) THEN Period(Day(y, m, d), Day(y, m, d), "exact", display) ELSE Failure

\* _match_exact_iso
ExactIso(t) ==
  LET n == t.nums IN
  IF n[1].digits = 4 /\ Short(n[2]) /\ Short(n[3])
    THEN Exact(n[1].value, n[2].value, n[3].value, t) ELSE Failure

\* _match_exact_de
ExactDe(t) ==
  LET n == t.nums IN
  IF Short(n[1]) /\ Short(n[2]) /\ n[3].digits = 4
    THEN Exact(n[3].value, n[2].value, n[1].value, t) ELSE Failure

MonthNumber(word) == CHOOSE m \in 1 .. 12 : Months[m] = word

\* _match_exact_day_month_name
ExactDayMonthName(t) ==
  LET n == t.nums  y == ExpandYear(n[2]) IN
  IF Short(n[1]) /\ IsYear(n[2])
    THEN Exact(y, MonthNumber(t.word), n[1].value, Rebuilt(t, 2, y)) ELSE Failure

Years(first, last, precision, display) ==
  Period(Day(first, 1, 1), Day(last, 12, 31), precision, display)

\* _match_year and _match_fuzzy_year
Year(t) ==
  LET n == t.nums[1]  y == ExpandYear(n) IN
  IF IsYear(n) THEN Years(y, y, "year", Rebuilt(t, 1, y)) ELSE Failure

\* Mutant: winter ends in the year it begins.
SeasonWithinYear(t) ==
  LET n == t.nums[1]  y == ExpandYear(n)  s == Seasons[t.word] IN
  IF IsYear(n)
    THEN Period(Day(y, s[1], 1), EndOfMonth(y, s[2]), "season", Rebuilt(t, 1, y))
    ELSE Failure

\* _match_season.  What begins in the last winter there are dates for is an
\* error, as its end is none (ValueError).
Season(t) ==
  LET n == t.nums[1]  y == ExpandYear(n)  s == Seasons[t.word]
      last == IF s[2] < s[1] THEN y + 1 ELSE y
  IN IF IsYear(n) /\ IsDate(last, s[2], 1)
       THEN Period(Day(y, s[1], 1), EndOfMonth(last, s[2]), "season", Rebuilt(t, 1, y))
       ELSE Failure

\* _match_decade and _match_decade_mod
Decade(t) ==
  LET n == t.nums[1]
      y == ExpandYear(n)
      base == (y \div 10) * 10
      part == IF t.word = "" THEN <<0, 9>> ELSE Thirds[t.word]
  IN IF IsYear(n)
       THEN Years(base + part[1], base + part[2], "decade", Rebuilt(t, 1, y))
       ELSE Failure

Month(y, m, display) == Period(Day(y, m, 1), EndOfMonth(y, m), "month", display)

\* _match_month_name
MonthName(t) ==
  LET n == t.nums[1]  y == ExpandYear(n) IN
  IF IsYear(n) THEN Month(y, MonthNumber(t.word), Rebuilt(t, 1, y)) ELSE Failure

\* _match_month_num
MonthNum(t) ==
  LET n == t.nums  y == ExpandYear(n[2]) IN
  IF Short(n[1]) /\ n[1].value \in 1 .. 12 /\ IsYear(n[2])
    THEN Month(y, n[1].value, Rebuilt(t, 2, y)) ELSE Failure

\* _match_month_iso, which leaves what is no month to the next matchers
IsMonthIso(t) == t.nums[1].digits = 4 /\ Short(t.nums[2]) /\ t.nums[2].value \in 1 .. 12

MonthIso(t) == Month(t.nums[1].value, t.nums[2].value, t)

\* Mutant: a range that ends before it begins is taken.
AnyRange(t) ==
  LET n == t.nums
      start == ExpandYear(n[1])
      end == ExpandYearAfter(n[2], start)
  IN IF IsYear(n[1]) /\ IsYear(n[2])
       THEN Years(start, end, "range", Rebuilt(Rebuilt(t, 1, start), 2, end)) ELSE Failure

\* _match_range
YearRange(t) ==
  LET n == t.nums
      start == ExpandYear(n[1])
      end == ExpandYearAfter(n[2], start)
  IN IF IsYear(n[1]) /\ IsYear(n[2]) /\ start <= end
       THEN Years(start, end, "range", Rebuilt(Rebuilt(t, 1, start), 2, end)) ELSE Failure

\* parse.  The shapes tell the matchers apart, but for the one where
\* _match_month_iso comes before _match_range.
Parse(t) ==
  CASE t.shape = "a-b-c"       -> ExactIso(t)
    [] t.shape = "a.b.c"       -> ExactDe(t)
    [] t.shape = "a. month b"  -> ExactDayMonthName(t)
    [] t.shape \in {"a", "ca. a"} -> Year(t)
    [] t.shape = "season a"    -> Season(t)
    [] t.shape \in {"as", "third as"} -> Decade(t)
    [] t.shape = "month a"     -> MonthName(t)
    [] t.shape = "a.b"         -> MonthNum(t)
    [] t.shape = "a-b"         -> IF IsMonthIso(t) THEN MonthIso(t) ELSE YearRange(t)
    [] t.shape = "a bis b"     -> YearRange(t)
    [] OTHER                   -> Failure

=============================================================================

----------------------------- MODULE DatesProofs -----------------------------
(***************************************************************************)
(* Proofs about Dates, for any texts (of years from 1000): what has been   *)
(* read is read again as the same, what is read is a period, and every day *)
(* has a date.                                                             *)
(***************************************************************************)
EXTENDS Dates, TLAPS

----------------------------------------------------------------------------
(* Years *)

Full(y) == y \in Int /\ y >= 1000

LEMMA WrittenIs ==
  ASSUME NEW y, Full(y)
  PROVE  /\ Written(y) = Number(4, y) /\ IsYear(Written(y))
         /\ ExpandYear(Written(y)) = y
         /\ \A reference : ExpandYearAfter(Written(y), reference) = y
<1>1. Written(y) = Number(4, y)
  BY DEF Full, Written
<1>2. Number(4, y).digits = 4 /\ Number(4, y).value = y
  BY DEF Number
<1> QED
  BY <1>1, <1>2 DEF IsYear, ExpandYear, ExpandYearAfter

LEMMA FourDigits ==
  ASSUME NEW v, v \in 1000 .. 9999
  PROVE  v \in Nat /\ v >= 1000
OBVIOUS

LEMMA FourIsNotShort ==
  ASSUME NEW d, d = 4
  PROVE  d \notin {1, 2}
OBVIOUS

LEMMA OneOf ==
  ASSUME NEW n, n = 1
  PROVE  1 \in 1 .. n
OBVIOUS

LEMMA NumberIs ==
  ASSUME NEW n \in Numbers
  PROVE  /\ n.digits \in Nat /\ n.value \in Nat
         /\ n.digits = 4 => n.value >= 1000
<1>1. CASE n \in [digits: {1, 2}, value: 0 .. 99]
  BY <1>1
<1>2. CASE n \in [digits: {4}, value: 1000 .. 9999]
  <2>1. n.digits = 4
    BY <1>2
  <2>2. n.value \in 1000 .. 9999
    BY <1>2
  <2>3. n.digits \in Nat
    BY <2>1
  <2>4. n.value \in Nat /\ n.value >= 1000
    BY <2>2, FourDigits
  <2> QED
    BY <2>3, <2>4
<1> QED
  BY <1>1, <1>2 DEF Numbers

LEMMA ExpandedIsFull ==
  ASSUME NEW n \in Numbers, IsYear(n)
  PROVE  Full(ExpandYear(n))
BY NumberIs DEF Full, ExpandYear

LEMMA ExpandedAfterIsFull ==
  ASSUME NEW n \in Numbers, IsYear(n), NEW start, Full(start)
  PROVE  Full(ExpandYearAfter(n, start))
<1>1. (start \div 100) * 100 >= 1000 /\ (start \div 100) * 100 \in Int
  BY DEF Full
<1> QED
  BY <1>1, NumberIs DEF Full, ExpandYearAfter

----------------------------------------------------------------------------
(* Texts whose years are written out *)

LEMMA Parts ==
  ASSUME NEW t, IsText(t)
  PROVE  /\ t.shape \in Singles => t.nums[1] \in Numbers /\ 1 \in DOMAIN t.nums
         /\ t.shape \in Pairs => /\ t.nums[1] \in Numbers /\ 1 \in DOMAIN t.nums
                                 /\ t.nums[2] \in Numbers /\ 2 \in DOMAIN t.nums
<1>1. t.nums \in Seq(Numbers) /\ DOMAIN t.nums = 1 .. Len(t.nums) /\ Len(t.nums) \in Nat
  BY DEF IsText
<1>2. t.shape \in Singles => Len(t.nums) = 1
  BY DEF IsText
<1>3. t.shape \in Pairs => Len(t.nums) = 2
  BY DEF IsText
<1>4. ASSUME NEW k \in 1 .. Len(t.nums)
      PROVE  t.nums[k] \in Numbers
  BY <1>1
<1>5. t.shape \in Singles => 1 \in 1 .. Len(t.nums)
  BY <1>2, OneOf
<1>6. t.shape \in Pairs => 1 \in 1 .. Len(t.nums) /\ 2 \in 1 .. Len(t.nums)
  BY <1>1, <1>3
<1> QED
  BY <1>1, <1>4, <1>5, <1>6

LEMMA TextIs ==
  ASSUME NEW shape, NEW nums, NEW word, NEW t, t = Text(shape, nums, word)
  PROVE  t.shape = shape /\ t.nums = nums /\ t.word = word
BY DEF Text

IsFunction(f) == f = [k \in DOMAIN f |-> f[k]]

LEMMA NumsAreFunction ==
  ASSUME NEW t, IsText(t)
  PROVE  IsFunction(t.nums)
<1>1. t.nums \in Seq(Numbers)
  BY DEF IsText
<1> QED
  BY <1>1 DEF IsFunction

Put(f, k, v) == [f EXCEPT ![k] = v]

LEMMA PutIs ==
  ASSUME NEW f, IsFunction(f), NEW k, k \in DOMAIN f, NEW v, NEW g, g = Put(f, k, v)
  PROVE  /\ DOMAIN g = DOMAIN f /\ g[k] = v /\ \A j \in DOMAIN f : j # k => g[j] = f[j]
         /\ IsFunction(g) /\ Put(g, k, v) = g
BY DEF Put, IsFunction

\* A text with a year written out: the others stay, and it can be written out
\* again without a change.
LEMMA RebuiltIs ==
  ASSUME NEW t, IsFunction(t.nums),
         NEW k, k \in DOMAIN t.nums, NEW y, NEW r, r = Rebuilt(t, k, y)
  PROVE  /\ r.shape = t.shape /\ r.word = t.word
         /\ IsFunction(r.nums) /\ DOMAIN r.nums = DOMAIN t.nums
         /\ r.nums[k] = Written(y)
         /\ \A j \in DOMAIN t.nums : j # k => r.nums[j] = t.nums[j]
         /\ Rebuilt(r, k, y) = r
<1>1. PICK nums : nums = Put(t.nums, k, Written(y))
  OBVIOUS
<1>2. /\ DOMAIN nums = DOMAIN t.nums /\ nums[k] = Written(y)
      /\ \A j \in DOMAIN t.nums : j # k => nums[j] = t.nums[j]
      /\ IsFunction(nums) /\ Put(nums, k, Written(y)) = nums
  BY <1>1, PutIs
<1>3. r = Text(t.shape, nums, t.word)
  BY <1>1 DEF Rebuilt, Put
<1>4. r.shape = t.shape /\ r.word = t.word /\ r.nums = nums
  BY <1>3, TextIs
<1>5. Rebuilt(r, k, y) = Text(r.shape, Put(r.nums, k, Written(y)), r.word)
  BY DEF Rebuilt, Put
<1>6. Rebuilt(r, k, y) = Text(t.shape, nums, t.word)
  BY <1>2, <1>4, <1>5, Zenon
<1> QED
  BY <1>2, <1>3, <1>4, <1>6, Zenon

\* The fields of a period.
LEMMA PeriodIs ==
  ASSUME NEW a, NEW b, NEW precision, NEW display, NEW p, p = Period(a, b, precision, display)
  PROVE  /\ p.earliest = a /\ p.latest = b /\ p.precision = precision /\ p.display = display
         /\ p = Period(p.earliest, p.latest, p.precision, p.display)
BY DEF Period

LEMMA ExactIs ==
  ASSUME NEW y, NEW m, NEW d, NEW display, Exact(y, m, d, display) # Failure
  PROVE  Exact(y, m, d, display).display = display
BY DEF Exact, Period

----------------------------------------------------------------------------
(* What has been read is read again as the same, for each of the matchers. *)

Stable(t) == Parse(t) # Failure => Parse(Parse(t).display) = Parse(t)

\* A text that is kept as it was typed, or one that is refused.
LEMMA KeptIsStable ==
  ASSUME NEW t, Parse(t).display = t \/ Parse(t) = Failure
  PROVE  Stable(t)
BY DEF Stable

\* r is t with its kth number, the year y, written out: r is read as t is, and
\* the year is what it was.
WrittenOut(t, k, y, r) ==
  /\ r.shape = t.shape /\ r.word = t.word
  /\ IsYear(r.nums[k]) /\ ExpandYear(r.nums[k]) = y
  /\ Rebuilt(r, k, y) = r

\* The one year of a text.
LEMMA SingleYear ==
  ASSUME NEW t, IsText(t), t.shape \in Singles, IsYear(t.nums[1]),
         NEW y, y = ExpandYear(t.nums[1]), NEW r, r = Rebuilt(t, 1, y)
  PROVE  WrittenOut(t, 1, y, r)
<1>1. t.nums[1] \in Numbers /\ 1 \in DOMAIN t.nums /\ IsFunction(t.nums)
  BY Parts, NumsAreFunction
<1>2. Full(y)
  BY <1>1, ExpandedIsFull
<1>3. r.shape = t.shape /\ r.word = t.word /\ r.nums[1] = Written(y) /\ Rebuilt(r, 1, y) = r
  BY <1>1, RebuiltIs
<1>4. IsYear(Written(y)) /\ ExpandYear(Written(y)) = y
  BY <1>2, WrittenIs
<1> QED
  BY <1>3, <1>4 DEF WrittenOut

\* The same for the second of two numbers.
LEMMA SecondYear ==
  ASSUME NEW t, IsText(t), t.shape \in Pairs, IsYear(t.nums[2]),
         NEW y, y = ExpandYear(t.nums[2]), NEW r, r = Rebuilt(t, 2, y)
  PROVE  WrittenOut(t, 2, y, r) /\ r.nums[1] = t.nums[1]
<1>1. /\ t.nums[2] \in Numbers /\ 1 \in DOMAIN t.nums /\ 2 \in DOMAIN t.nums
      /\ IsFunction(t.nums)
  BY Parts, NumsAreFunction
<1>2. Full(y)
  BY <1>1, ExpandedIsFull
<1>3. /\ r.shape = t.shape /\ r.word = t.word /\ r.nums[2] = Written(y) /\ Rebuilt(r, 2, y) = r
      /\ r.nums[1] = t.nums[1]
  BY <1>1, RebuiltIs
<1>4. IsYear(Written(y)) /\ ExpandYear(Written(y)) = y
  BY <1>2, WrittenIs
<1> QED
  BY <1>3, <1>4 DEF WrittenOut

\* And for both years of a range.
WrittenOutTwice(t, a, b, r) ==
  /\ r.shape = t.shape
  /\ IsYear(r.nums[1]) /\ ExpandYear(r.nums[1]) = a
  /\ IsYear(r.nums[2]) /\ ExpandYearAfter(r.nums[2], a) = b
  /\ r.nums[2].digits = 4
  /\ Rebuilt(Rebuilt(r, 1, a), 2, b) = r

LEMMA BothYears ==
  ASSUME NEW t, IsText(t), t.shape \in Pairs, IsYear(t.nums[1]), IsYear(t.nums[2]),
         NEW a, a = ExpandYear(t.nums[1]), NEW b, b = ExpandYearAfter(t.nums[2], a),
         NEW r, r = Rebuilt(Rebuilt(t, 1, a), 2, b)
  PROVE  WrittenOutTwice(t, a, b, r)
<1>1. /\ t.nums[1] \in Numbers /\ t.nums[2] \in Numbers
      /\ 1 \in DOMAIN t.nums /\ 2 \in DOMAIN t.nums /\ IsFunction(t.nums)
  BY Parts, NumsAreFunction
<1>2. Full(a) /\ Full(b)
  BY <1>1, ExpandedIsFull, ExpandedAfterIsFull
<1>3. PICK q : q = Rebuilt(t, 1, a)
  OBVIOUS
<1>4. /\ q.shape = t.shape /\ IsFunction(q.nums) /\ DOMAIN q.nums = DOMAIN t.nums
      /\ q.nums[1] = Written(a)
  BY <1>1, <1>3, RebuiltIs
<1>5. /\ r.shape = t.shape /\ IsFunction(r.nums) /\ DOMAIN r.nums = DOMAIN t.nums
      /\ r.nums[1] = Written(a) /\ r.nums[2] = Written(b) /\ Rebuilt(r, 2, b) = r
  BY <1>1, <1>3, <1>4, RebuiltIs
<1>6. Rebuilt(r, 1, a) = r
  <2>1. Put(r.nums, 1, Written(a)) = r.nums
    BY <1>1, <1>5 DEF Put, IsFunction
  <2>2. Rebuilt(r, 1, a) = Text(r.shape, Put(r.nums, 1, Written(a)), r.word)
    BY DEF Rebuilt, Put
  <2>3. r = Text(r.shape, r.nums, r.word)
    <3>1. PICK nums : nums = Put(q.nums, 2, Written(b))
      OBVIOUS
    <3>2. r = Text(q.shape, nums, q.word)
      BY <1>3, <3>1 DEF Rebuilt, Put
    <3> QED
      BY <3>2, TextIs
  <2> QED
    BY <2>1, <2>2, <2>3, Zenon
<1>7. Written(b).digits = 4
  BY <1>2, WrittenIs DEF Number
<1>8. /\ IsYear(Written(a)) /\ ExpandYear(Written(a)) = a
      /\ IsYear(Written(b)) /\ ExpandYearAfter(Written(b), a) = b
  BY <1>2, WrittenIs
<1> QED
  BY <1>5, <1>6, <1>7, <1>8 DEF WrittenOutTwice

LEMMA YearStable ==
  ASSUME NEW t, IsText(t), t.shape \in {"a", "ca. a"}
  PROVE  Stable(t)
<1>1. Parse(t) = Year(t) /\ t.shape \in Singles
  BY DEF Parse, Singles
<1>2. CASE ~IsYear(t.nums[1])
  BY <1>1, <1>2, KeptIsStable DEF Year
<1>3. CASE IsYear(t.nums[1])
  <2>1. PICK y : y = ExpandYear(t.nums[1])
    OBVIOUS
  <2>2. PICK r : r = Rebuilt(t, 1, y)
    OBVIOUS
  <2>3. /\ r.shape = t.shape /\ r.word = t.word
        /\ IsYear(r.nums[1]) /\ ExpandYear(r.nums[1]) = y
        /\ Rebuilt(r, 1, y) = r
    <3>1. t.shape \in Singles /\ IsYear(t.nums[1])
      BY <1>1, <1>3
    <3>2. WrittenOut(t, 1, y, r)
      BY <2>1, <2>2, <3>1, SingleYear
    <3> QED
      BY <3>2 DEF WrittenOut
  <2>4. Parse(r) = Year(r)
    BY <2>3 DEF Parse
  <2>5. Year(t) = Years(y, y, "year", r)
    BY <1>3, <2>1, <2>2 DEF Year
  <2>6. Year(r) = Years(y, y, "year", r)
    BY <1>3, <2>3 DEF Year
  <2>7. Parse(t).display = r
    <3>1. Parse(t) = Years(y, y, "year", r)
      BY <1>1, <2>5
    <3>2. Years(y, y, "year", r).display = r
      BY DEF Years, Period
    <3> QED
      BY <3>1, <3>2
  <2> QED
    BY <1>1, <2>4, <2>5, <2>6, <2>7 DEF Stable
<1> QED
  BY <1>2, <1>3

LEMMA MonthNameStable ==
  ASSUME NEW t, IsText(t), t.shape = "month a"
  PROVE  Stable(t)
<1>1. Parse(t) = MonthName(t) /\ t.shape \in Singles
  BY DEF Parse, Singles
<1>2. CASE ~IsYear(t.nums[1])
  BY <1>1, <1>2, KeptIsStable DEF MonthName
<1>3. CASE IsYear(t.nums[1])
  <2>1. PICK y : y = ExpandYear(t.nums[1])
    OBVIOUS
  <2>2. PICK r : r = Rebuilt(t, 1, y)
    OBVIOUS
  <2>3. /\ r.shape = t.shape /\ r.word = t.word
        /\ IsYear(r.nums[1]) /\ ExpandYear(r.nums[1]) = y
        /\ Rebuilt(r, 1, y) = r
    <3>1. t.shape \in Singles /\ IsYear(t.nums[1])
      BY <1>1, <1>3
    <3>2. WrittenOut(t, 1, y, r)
      BY <2>1, <2>2, <3>1, SingleYear
    <3> QED
      BY <3>2 DEF WrittenOut
  <2>4. Parse(r) = MonthName(r)
    BY <2>3 DEF Parse
  <2>5. MonthName(t) = Month(y, MonthNumber(t.word), r)
    BY <1>3, <2>1, <2>2 DEF MonthName
  <2>6. MonthName(r) = Month(y, MonthNumber(t.word), r)
    BY <1>3, <2>3 DEF MonthName
  <2>7. Parse(t).display = r
    <3>1. Parse(t) = Month(y, MonthNumber(t.word), r)
      BY <1>1, <2>5
    <3>2. Month(y, MonthNumber(t.word), r).display = r
      BY DEF Month, Period
    <3> QED
      BY <3>1, <3>2
  <2> QED
    BY <1>1, <2>4, <2>5, <2>6, <2>7 DEF Stable
<1> QED
  BY <1>2, <1>3

\* First and last year of the part of a decade that a text names.
Part(t) == IF t.word = "" THEN <<0, 9>> ELSE Thirds[t.word]

LEMMA DecadeStable ==
  ASSUME NEW t, IsText(t), t.shape \in {"as", "third as"}
  PROVE  Stable(t)
<1>1. Parse(t) = Decade(t) /\ t.shape \in Singles
  BY DEF Parse, Singles
<1>2. CASE ~IsYear(t.nums[1])
  BY <1>1, <1>2, KeptIsStable DEF Decade
<1>3. CASE IsYear(t.nums[1])
  <2>1. PICK y : y = ExpandYear(t.nums[1])
    OBVIOUS
  <2>2. PICK r : r = Rebuilt(t, 1, y)
    OBVIOUS
  <2>3. /\ r.shape = t.shape /\ r.word = t.word
        /\ IsYear(r.nums[1]) /\ ExpandYear(r.nums[1]) = y
        /\ Rebuilt(r, 1, y) = r
    <3>1. t.shape \in Singles /\ IsYear(t.nums[1])
      BY <1>1, <1>3
    <3>2. WrittenOut(t, 1, y, r)
      BY <2>1, <2>2, <3>1, SingleYear
    <3> QED
      BY <3>2 DEF WrittenOut
  <2>4. Parse(r) = Decade(r)
    BY <2>3 DEF Parse
  <2>5. Decade(t) = Years((y \div 10) * 10 + Part(t)[1],
                            (y \div 10) * 10 + Part(t)[2], "decade", r)
    BY <1>3, <2>1, <2>2 DEF Decade, Part
  <2>6. Decade(r) = Years((y \div 10) * 10 + Part(t)[1],
                            (y \div 10) * 10 + Part(t)[2], "decade", r)
    BY <1>3, <2>3 DEF Decade, Part
  <2>7. Parse(t).display = r
    <3>1. Parse(t) = Years((y \div 10) * 10 + Part(t)[1],
                           (y \div 10) * 10 + Part(t)[2], "decade", r)
      BY <1>1, <2>5
    <3>2. (Years((y \div 10) * 10 + Part(t)[1],
                           (y \div 10) * 10 + Part(t)[2], "decade", r)).display = r
      BY DEF Years, Period
    <3> QED
      BY <3>1, <3>2
  <2> QED
    BY <1>1, <2>4, <2>5, <2>6, <2>7 DEF Stable
<1> QED
  BY <1>2, <1>3

LEMMA SeasonStable ==
  ASSUME NEW t, IsText(t), t.shape = "season a"
  PROVE  Stable(t)
<1>1. Parse(t) = Season(t) /\ t.shape \in Singles
  BY DEF Parse, Singles
<1>2. CASE ~IsYear(t.nums[1])
  BY <1>1, <1>2, KeptIsStable DEF Season
<1>3. CASE IsYear(t.nums[1])
  <2>1. PICK y : y = ExpandYear(t.nums[1])
    OBVIOUS
  <2>2. PICK r : r = Rebuilt(t, 1, y)
    OBVIOUS
  <2>3. /\ r.shape = t.shape /\ r.word = t.word
        /\ IsYear(r.nums[1]) /\ ExpandYear(r.nums[1]) = y
        /\ Rebuilt(r, 1, y) = r
    <3>1. t.shape \in Singles /\ IsYear(t.nums[1])
      BY <1>1, <1>3
    <3>2. WrittenOut(t, 1, y, r)
      BY <2>1, <2>2, <3>1, SingleYear
    <3> QED
      BY <3>2 DEF WrittenOut
  <2>4. Parse(r) = Season(r)
    BY <2>3 DEF Parse
  <2>5. PICK s : s = Seasons[t.word]
    OBVIOUS
  <2>6. PICK last : last = IF s[2] < s[1] THEN y + 1 ELSE y
    OBVIOUS
  <2>7. PICK a, b : a = Day(y, s[1], 1) /\ b = EndOfMonth(last, s[2])
    OBVIOUS
  <2>8. Season(t) = IF IsDate(last, s[2], 1) THEN Period(a, b, "season", r) ELSE Failure
    BY <1>3, <2>1, <2>2, <2>5, <2>6, <2>7 DEF Season
  <2>9. Season(r) = IF IsDate(last, s[2], 1) THEN Period(a, b, "season", r) ELSE Failure
    BY <1>3, <2>3, <2>5, <2>6, <2>7 DEF Season
  <2>10. Period(a, b, "season", r).display = r
    BY DEF Period
  <2>11. CASE IsDate(last, s[2], 1)
    BY <1>1, <2>4, <2>8, <2>9, <2>10, <2>11 DEF Stable
  <2>12. CASE ~(IsDate(last, s[2], 1))
    BY <1>1, <2>8, <2>12 DEF Stable
  <2> QED
    BY <2>11, <2>12
<1> QED
  BY <1>2, <1>3

LEMMA MonthNumStable ==
  ASSUME NEW t, IsText(t), t.shape = "a.b"
  PROVE  Stable(t)
<1>1. Parse(t) = MonthNum(t) /\ t.shape \in Pairs
  BY DEF Parse, Pairs
<1>2. CASE ~(Short(t.nums[1]) /\ t.nums[1].value \in 1 .. 12 /\ IsYear(t.nums[2]))
  BY <1>1, <1>2, KeptIsStable DEF MonthNum
<1>3. CASE Short(t.nums[1]) /\ t.nums[1].value \in 1 .. 12 /\ IsYear(t.nums[2])
  <2>1. PICK y : y = ExpandYear(t.nums[2])
    OBVIOUS
  <2>2. PICK r : r = Rebuilt(t, 2, y)
    OBVIOUS
  <2>3. /\ r.shape = t.shape /\ r.word = t.word /\ r.nums[1] = t.nums[1]
        /\ IsYear(r.nums[2]) /\ ExpandYear(r.nums[2]) = y
        /\ Rebuilt(r, 2, y) = r
    <3>1. t.shape \in Pairs /\ IsYear(t.nums[2])
      BY <1>1, <1>3
    <3>2. WrittenOut(t, 2, y, r) /\ r.nums[1] = t.nums[1]
      BY <2>1, <2>2, <3>1, SecondYear
    <3> QED
      BY <3>2 DEF WrittenOut
  <2>4. Parse(r) = MonthNum(r)
    BY <2>3 DEF Parse
  <2>5. MonthNum(t) = Month(y, t.nums[1].value, r)
    BY <1>3, <2>1, <2>2 DEF MonthNum
  <2>6. MonthNum(r) = Month(y, t.nums[1].value, r)
    BY <1>3, <2>3 DEF MonthNum
  <2>7. Parse(t).display = r
    <3>1. Parse(t) = Month(y, t.nums[1].value, r)
      BY <1>1, <2>5
    <3>2. Month(y, t.nums[1].value, r).display = r
      BY DEF Month, Period
    <3> QED
      BY <3>1, <3>2
  <2> QED
    BY <1>1, <2>4, <2>5, <2>6, <2>7 DEF Stable
<1> QED
  BY <1>2, <1>3

LEMMA DayMonthNameStable ==
  ASSUME NEW t, IsText(t), t.shape = "a. month b"
  PROVE  Stable(t)
<1>1. Parse(t) = ExactDayMonthName(t) /\ t.shape \in Pairs
  BY DEF Parse, Pairs
<1>2. CASE ~(Short(t.nums[1]) /\ IsYear(t.nums[2]))
  BY <1>1, <1>2, KeptIsStable DEF ExactDayMonthName
<1>3. CASE Short(t.nums[1]) /\ IsYear(t.nums[2])
  <2>1. PICK y : y = ExpandYear(t.nums[2])
    OBVIOUS
  <2>2. PICK r : r = Rebuilt(t, 2, y)
    OBVIOUS
  <2>3. /\ r.shape = t.shape /\ r.word = t.word /\ r.nums[1] = t.nums[1]
        /\ IsYear(r.nums[2]) /\ ExpandYear(r.nums[2]) = y
        /\ Rebuilt(r, 2, y) = r
    <3>1. t.shape \in Pairs /\ IsYear(t.nums[2])
      BY <1>1, <1>3
    <3>2. WrittenOut(t, 2, y, r) /\ r.nums[1] = t.nums[1]
      BY <2>1, <2>2, <3>1, SecondYear
    <3> QED
      BY <3>2 DEF WrittenOut
  <2>4. Parse(r) = ExactDayMonthName(r)
    BY <2>3 DEF Parse
  <2>5. ExactDayMonthName(t) = Exact(y, MonthNumber(t.word), t.nums[1].value, r)
    BY <1>3, <2>1, <2>2 DEF ExactDayMonthName
  <2>6. ExactDayMonthName(r) = Exact(y, MonthNumber(t.word), t.nums[1].value, r)
    BY <1>3, <2>3 DEF ExactDayMonthName
  <2>7. CASE Parse(t) # Failure
    <3>1. Parse(t) = Exact(y, MonthNumber(t.word), t.nums[1].value, r)
      BY <1>1, <2>5
    <3>2. Parse(t).display = r
      <4>1. Exact(y, MonthNumber(t.word), t.nums[1].value, r) # Failure
        BY <2>7, <3>1
      <4>2. Exact(y, MonthNumber(t.word), t.nums[1].value, r).display = r
        BY <4>1, ExactIs
      <4> QED
        BY <3>1, <4>2
    <3> QED
      BY <1>1, <2>4, <2>5, <2>6, <3>2 DEF Stable
  <2> QED
    BY <2>7 DEF Stable
<1> QED
  BY <1>2, <1>3

LEMMA ExactStable ==
  ASSUME NEW t, IsText(t), t.shape \in {"a-b-c", "a.b.c"}
  PROVE  Stable(t)
<1>1. Parse(t).display = t \/ Parse(t) = Failure
  <2>1. CASE t.shape = "a-b-c"
    <3>1. Parse(t) = ExactIso(t)
      BY <2>1 DEF Parse
    <3>2. ExactIso(t) # Failure => ExactIso(t).display = t
      BY ExactIs DEF ExactIso
    <3> QED
      BY <3>1, <3>2
  <2>2. CASE t.shape = "a.b.c"
    <3>1. Parse(t) = ExactDe(t)
      BY <2>2 DEF Parse
    <3>2. ExactDe(t) # Failure => ExactDe(t).display = t
      BY ExactIs DEF ExactDe
    <3> QED
      BY <3>1, <3>2
  <2> QED
    BY <2>1, <2>2
<1> QED
  BY <1>1, KeptIsStable

\* A range is not taken for a month after its second year has been written out.
LEMMA RangeStable ==
  ASSUME NEW t, IsText(t), t.shape \in {"a-b", "a bis b"}
  PROVE  Stable(t)
<1>1. t.shape \in Pairs
  BY DEF Pairs
<1>2. CASE t.shape = "a-b" /\ IsMonthIso(t)
  <2>1. Parse(t) = MonthIso(t)
    BY <1>2 DEF Parse
  <2>2. MonthIso(t).display = t
    BY DEF MonthIso, Month, Period
  <2> QED
    BY <2>1, <2>2, KeptIsStable
<1>3. CASE ~(t.shape = "a-b" /\ IsMonthIso(t))
  <2>1. Parse(t) = YearRange(t)
    BY <1>3 DEF Parse
  <2>2. PICK a : a = ExpandYear(t.nums[1])
    OBVIOUS
  <2>3. PICK b : b = ExpandYearAfter(t.nums[2], a)
    OBVIOUS
  <2>4. PICK r : r = Rebuilt(Rebuilt(t, 1, a), 2, b)
    OBVIOUS
  <2>5. CASE ~(IsYear(t.nums[1]) /\ IsYear(t.nums[2]) /\ a <= b)
    <3>1. YearRange(t) = Failure
      BY <2>2, <2>3, <2>5 DEF YearRange
    <3> QED
      BY <2>1, <3>1, KeptIsStable
  <2>6. CASE IsYear(t.nums[1]) /\ IsYear(t.nums[2]) /\ a <= b
    <3>1. WrittenOutTwice(t, a, b, r)
      BY <1>1, <2>2, <2>3, <2>4, <2>6, BothYears
    <3>2. /\ r.shape = t.shape
          /\ IsYear(r.nums[1]) /\ ExpandYear(r.nums[1]) = a
          /\ IsYear(r.nums[2]) /\ ExpandYearAfter(r.nums[2], a) = b
          /\ r.nums[2].digits = 4
          /\ Rebuilt(Rebuilt(r, 1, a), 2, b) = r
      BY <3>1 DEF WrittenOutTwice
    <3>3. ~IsMonthIso(r)
      <4>1. r.nums[2].digits = 4
        BY <3>2
      <4>2. ~Short(r.nums[2])
        BY <4>1, FourIsNotShort, Zenon DEF Short
      <4> QED
        BY <4>2, Zenon DEF IsMonthIso
    <3>4. Parse(r) = YearRange(r)
      BY <3>2, <3>3 DEF Parse
    <3>5. YearRange(t) = Years(a, b, "range", r)
      BY <2>2, <2>3, <2>4, <2>6 DEF YearRange
    <3>6. YearRange(r) = Years(a, b, "range", r)
      BY <2>6, <3>2 DEF YearRange
    <3>7. Years(a, b, "range", r).display = r
      BY DEF Years, Period
    <3>8. Parse(t).display = r
      BY <2>1, <3>5, <3>7
    <3> QED
      BY <2>1, <3>4, <3>5, <3>6, <3>8 DEF Stable
  <2> QED
    BY <2>5, <2>6
<1> QED
  BY <1>2, <1>3

\* Reading a date again changes nothing.
LEMMA ParseIsStable ==
  ASSUME NEW t, IsText(t)
  PROVE  Stable(t)
<1>1. \/ t.shape \in {"a", "ca. a"} \/ t.shape = "month a" \/ t.shape \in {"as", "third as"}
      \/ t.shape = "season a" \/ t.shape = "a.b" \/ t.shape = "a. month b"
      \/ t.shape \in {"a-b-c", "a.b.c"} \/ t.shape \in {"a-b", "a bis b"}
  BY DEF IsText, Singles, Pairs, Triples
<1> QED
  BY <1>1, YearStable, MonthNameStable, DecadeStable, SeasonStable, MonthNumStable,
     DayMonthNameStable, ExactStable, RangeStable

\* What Parse returns is a period.
LEMMA ParsedIs ==
  ASSUME NEW t
  PROVE  Parse(t) = Period(Parse(t).earliest, Parse(t).latest, Parse(t).precision, Parse(t).display)
<1> DEFINE Is(p) == p = Period(p.earliest, p.latest, p.precision, p.display)
<1>1. \A a, b, precision, display : Is(Period(a, b, precision, display))
  BY DEF Period
<1>2. Is(Failure)
  BY <1>1 DEF Failure
<1>3. \A y, m, d, display : Is(Exact(y, m, d, display))
  BY <1>1, <1>2 DEF Exact
<1>4. \A a, b, precision, display : Is(Years(a, b, precision, display))
  BY <1>1 DEF Years
<1>5. \A y, m, display : Is(Month(y, m, display))
  BY <1>1 DEF Month
<1> HIDE DEF Is
<1>6. Is(ExactIso(t)) /\ Is(ExactDe(t)) /\ Is(ExactDayMonthName(t))
  BY <1>2, <1>3 DEF ExactIso, ExactDe, ExactDayMonthName
<1>7. Is(Year(t)) /\ Is(YearRange(t)) /\ Is(Decade(t))
  BY <1>2, <1>4 DEF Year, YearRange, Decade
<1>8. Is(Season(t))
  BY <1>1, <1>2 DEF Season
<1>9. Is(MonthName(t)) /\ Is(MonthNum(t)) /\ Is(MonthIso(t))
  BY <1>2, <1>5 DEF MonthName, MonthNum, MonthIso
<1>10. Is(Parse(t))
  BY <1>2, <1>6, <1>7, <1>8, <1>9 DEF Parse
<1> QED
  BY <1>10 DEF Is

----------------------------------------------------------------------------
(* The calendar: a year begins where the one before it ends, and so does a   *)
(* month.                                                                    *)

\* Days before a year, and before a month of it.
Before(y) == 365 * (y - 1) + (y - 1) \div 4 - (y - 1) \div 100 + (y - 1) \div 400

LeapDay(y) == IF Leap(y) THEN 1 ELSE 0

Start(y, m) == DaysBeforeMonth(m) + (IF m > 2 /\ Leap(y) THEN 1 ELSE 0)

LEMMA BeforeIs ==
  ASSUME NEW y \in Int
  PROVE  Before(y) \in Int
BY DEF Before

LEMMA LeapDayIs ==
  ASSUME NEW y \in Int
  PROVE  LeapDay(y) \in 0 .. 1
BY DEF LeapDay

LEMMA NextYear ==
  ASSUME NEW y \in Int
  PROVE  Before(y + 1) = Before(y) + 365 + LeapDay(y)
BY DEF Before, LeapDay, Leap

LEMMA BeforeGrows ==
  ASSUME NEW x \in Int, NEW y \in Int, x <= y
  PROVE  Before(x) + 365 * (y - x) <= Before(y)
BY DEF Before

LEMMA MonthsTable ==
  /\ DaysBeforeMonth(1) = 0 /\ DaysBeforeMonth(2) = 31 /\ DaysBeforeMonth(3) = 59
  /\ DaysBeforeMonth(4) = 90 /\ DaysBeforeMonth(5) = 120 /\ DaysBeforeMonth(6) = 151
  /\ DaysBeforeMonth(7) = 181 /\ DaysBeforeMonth(8) = 212 /\ DaysBeforeMonth(9) = 243
  /\ DaysBeforeMonth(10) = 273 /\ DaysBeforeMonth(11) = 304 /\ DaysBeforeMonth(12) = 334
BY DEF DaysBeforeMonth

LEMMA DayIs ==
  ASSUME NEW y \in Int, NEW m \in 1 .. 12, NEW d \in Int
  PROVE  /\ Day(y, m, d) = Before(y) + Start(y, m) + d
         /\ Day(y, m, d) \in Int
<1>1. DaysBeforeMonth(m) \in Int
  BY MonthsTable
<1>2. PICK p : p = y - 1
  OBVIOUS
<1>3. Day(y, m, d) = 365 * p + p \div 4 - p \div 100 + p \div 400
                       + DaysBeforeMonth(m) + (IF m > 2 /\ Leap(y) THEN 1 ELSE 0) + d
  BY <1>2 DEF Day
<1>4. Before(y) = 365 * p + p \div 4 - p \div 100 + p \div 400
  BY <1>2 DEF Before
<1> QED
  BY <1>1, <1>2, <1>3, <1>4 DEF Start

LEMMA FirstOfMonthIs ==
  ASSUME NEW y \in Int, NEW m \in 1 .. 12
  PROVE  Day(y, m, 1) = Before(y) + Start(y, m) + 1
<1>1. 1 \in Int
  OBVIOUS
<1> QED
  BY <1>1, DayIs, Zenon

LEMMA LengthsTable ==
  ASSUME NEW y
  PROVE  /\ MonthLength(y, 1) = 31 /\ MonthLength(y, 2) = IF Leap(y) THEN 29 ELSE 28
         /\ MonthLength(y, 3) = 31 /\ MonthLength(y, 4) = 30 /\ MonthLength(y, 5) = 31
         /\ MonthLength(y, 6) = 30 /\ MonthLength(y, 7) = 31 /\ MonthLength(y, 8) = 31
         /\ MonthLength(y, 9) = 30 /\ MonthLength(y, 10) = 31 /\ MonthLength(y, 11) = 30
         /\ MonthLength(y, 12) = 31
<1>1. MonthLength(y, 2) = IF Leap(y) THEN 29 ELSE 28
  BY DEF MonthLength
<1>2. \A m \in {4, 6, 9, 11} : MonthLength(y, m) = 30
  BY DEF MonthLength
<1>3. \A m \in {1, 3, 5, 7, 8, 10, 12} : MonthLength(y, m) = 31
  BY DEF MonthLength
<1> QED
  BY <1>1, <1>2, <1>3

LEMMA StartsTable ==
  ASSUME NEW y
  PROVE  /\ Start(y, 1) = 0 /\ Start(y, 2) = 31
         /\ Start(y, 3) = 59 + LeapDay(y) /\ Start(y, 4) = 90 + LeapDay(y)
         /\ Start(y, 5) = 120 + LeapDay(y) /\ Start(y, 6) = 151 + LeapDay(y)
         /\ Start(y, 7) = 181 + LeapDay(y) /\ Start(y, 8) = 212 + LeapDay(y)
         /\ Start(y, 9) = 243 + LeapDay(y) /\ Start(y, 10) = 273 + LeapDay(y)
         /\ Start(y, 11) = 304 + LeapDay(y) /\ Start(y, 12) = 334 + LeapDay(y)
         /\ LeapDay(y) \in {0, 1} /\ MonthLength(y, 2) = 28 + LeapDay(y)
BY MonthsTable, LengthsTable DEF Start, LeapDay

MonthIsOf(y, m) ==
  /\ Start(y, m) \in Nat /\ MonthLength(y, m) \in 28 .. 31
  /\ m < 12 => Start(y, m) + MonthLength(y, m) = Start(y, m + 1)
  /\ m = 12 => Start(y, m) + MonthLength(y, m) = 365 + LeapDay(y)
  /\ Start(y, m) + MonthLength(y, m) <= 365 + LeapDay(y)

LEMMA MonthIs ==
  ASSUME NEW y, NEW m \in 1 .. 12
  PROVE  MonthIsOf(y, m)
<1>1. CASE m \in 1 .. 3
  BY <1>1, StartsTable, LengthsTable DEF MonthIsOf
<1>2. CASE m \in 4 .. 6
  BY <1>2, StartsTable, LengthsTable DEF MonthIsOf
<1>3. CASE m \in 7 .. 9
  BY <1>3, StartsTable, LengthsTable DEF MonthIsOf
<1>4. CASE m \in 10 .. 12
  BY <1>4, StartsTable, LengthsTable DEF MonthIsOf
<1> QED
  BY <1>1, <1>2, <1>3, <1>4

LEMMA MonthsFollow ==
  ASSUME NEW y, NEW m \in 1 .. 12, NEW n \in 1 .. 12, m < n
  PROVE  Start(y, m) + MonthLength(y, m) <= Start(y, n)
<1>1. CASE m \in 1 .. 3
  BY <1>1, StartsTable, LengthsTable
<1>2. CASE m \in 4 .. 6
  BY <1>2, StartsTable, LengthsTable
<1>3. CASE m \in 7 .. 9
  BY <1>3, StartsTable, LengthsTable
<1>4. CASE m \in 10 .. 12
  BY <1>4, StartsTable, LengthsTable
<1> QED
  BY <1>1, <1>2, <1>3, <1>4

\* Days are in the order of their dates.
LEMMA DateIs ==
  ASSUME NEW y, NEW m, NEW d, IsDate(y, m, d)
  PROVE  /\ y \in 1 .. 9999 /\ m \in 1 .. 12 /\ d \in Nat /\ 1 <= d
         /\ Start(y, m) \in Nat /\ Start(y, m) + d <= 365 + LeapDay(y)
         /\ MonthLength(y, m) \in Nat /\ d <= MonthLength(y, m)
         /\ Day(y, m, d) \in Int /\ Day(y, m, d) = Before(y) + Start(y, m) + d
         /\ Before(y) \in Int /\ LeapDay(y) \in 0 .. 1
<1>1. y \in 1 .. 9999 /\ m \in 1 .. 12 /\ d \in 1 .. MonthLength(y, m)
  BY DEF IsDate
<1>2. MonthIsOf(y, m) /\ LeapDay(y) \in 0 .. 1
  BY <1>1, MonthIs, LeapDayIs
<1>3. /\ Start(y, m) \in Nat /\ MonthLength(y, m) \in Nat
      /\ Start(y, m) + MonthLength(y, m) <= 365 + LeapDay(y)
  BY <1>2 DEF MonthIsOf
<1>4. d \in Nat /\ 1 <= d /\ d <= MonthLength(y, m)
  BY <1>1, <1>3
<1>5. y \in Int /\ d \in Int /\ LeapDay(y) \in Int
  BY <1>1, <1>2, <1>4
<1>6. Start(y, m) + d <= 365 + LeapDay(y)
  BY <1>3, <1>4, <1>5
<1>7. m \in 1 .. 12
  BY <1>1
<1>8. y \in Int /\ d \in Int
  BY <1>5
<1>9. Day(y, m, d) = Before(y) + Start(y, m) + d
  BY <1>7, <1>8, DayIs
<1>10. Day(y, m, d) \in Int /\ Before(y) \in Int
  BY <1>7, <1>8, DayIs, BeforeIs
<1> QED
  BY <1>1, <1>2, <1>3, <1>4, <1>6, <1>9, <1>10

LEMMA DaysFollow ==
  ASSUME NEW y, NEW m, NEW d, IsDate(y, m, d), NEW z, NEW n, NEW e, IsDate(z, n, e),
         y < z \/ (y = z /\ m < n) \/ (y = z /\ m = n /\ d <= e)
  PROVE  Day(y, m, d) <= Day(z, n, e)
<1>1. /\ y \in 1 .. 9999 /\ m \in 1 .. 12 /\ d \in Nat /\ 1 <= d
      /\ Start(y, m) \in Nat /\ Start(y, m) + d <= 365 + LeapDay(y)
      /\ MonthLength(y, m) \in Nat /\ d <= MonthLength(y, m)
      /\ Day(y, m, d) \in Int /\ Day(y, m, d) = Before(y) + Start(y, m) + d
      /\ Before(y) \in Int /\ LeapDay(y) \in 0 .. 1
  BY DateIs
<1>2. /\ z \in 1 .. 9999 /\ n \in 1 .. 12 /\ e \in Nat /\ 1 <= e
      /\ Start(z, n) \in Nat
      /\ Day(z, n, e) = Before(z) + Start(z, n) + e
      /\ Before(z) \in Int
  BY DateIs
<1>3. CASE y < z
  <2>1. Before(y + 1) = Before(y) + 365 + LeapDay(y)
    BY <1>1, NextYear
  <2>2. Before(y + 1) + 365 * (z - (y + 1)) <= Before(z)
    BY <1>1, <1>2, <1>3, BeforeGrows
  <2> QED
    BY <1>1, <1>2, <1>3, <2>1, <2>2
<1>4. CASE y = z /\ m < n
  <2>1. Start(y, m) + MonthLength(y, m) <= Start(y, n)
    BY <1>1, <1>2, <1>4, MonthsFollow
  <2> QED
    BY <1>1, <1>2, <1>4, <2>1
<1>5. CASE y = z /\ m = n /\ d <= e
  BY <1>1, <1>2, <1>5
<1> QED
  BY <1>3, <1>4, <1>5

FirstDay == Day(1, 1, 1)
LastDay == Day(9999, 12, 31)

LEMMA IsDateInRange ==
  ASSUME NEW y, NEW m, NEW d, IsDate(y, m, d)
  PROVE  Day(y, m, d) \in Int /\ FirstDay <= Day(y, m, d) /\ Day(y, m, d) <= LastDay
<1>1. /\ y \in 1 .. 9999 /\ m \in 1 .. 12 /\ d \in Nat /\ 1 <= d
      /\ MonthLength(y, m) \in 28 .. 31 /\ d <= MonthLength(y, m) /\ Day(y, m, d) \in Int
  BY DateIs, MonthIs DEF MonthIsOf
<1>2. MonthLength(9999, 12) = 31 /\ MonthLength(1, 1) = 31
  BY LengthsTable
<1>3. IsDate(1, 1, 1) /\ IsDate(9999, 12, 31)
  BY <1>2 DEF IsDate
<1>4. 1 < y \/ (1 = y /\ 1 < m) \/ (1 = y /\ 1 = m /\ 1 <= d)
  BY <1>1
<1>5. y < 9999 \/ (y = 9999 /\ m < 12) \/ (y = 9999 /\ m = 12 /\ d <= 31)
  BY <1>1
<1> QED
  BY <1>1, <1>3, <1>4, <1>5, DaysFollow DEF FirstDay, LastDay

----------------------------------------------------------------------------
(* Every text that can be read stands for a period of the calendar. *)

Proper(p) ==
  /\ p.earliest \in Int /\ p.latest \in Int
  /\ FirstDay <= p.earliest /\ p.earliest <= p.latest /\ p.latest <= LastDay
  /\ p.precision \in Precisions

LEMMA PeriodIsProper ==
  ASSUME NEW y, NEW m, NEW d, IsDate(y, m, d), NEW z, NEW n, NEW e, IsDate(z, n, e),
         y < z \/ (y = z /\ m < n) \/ (y = z /\ m = n /\ d <= e),
         NEW precision \in Precisions, NEW display,
         NEW p, p = Period(Day(y, m, d), Day(z, n, e), precision, display)
  PROVE  Proper(p)
<1>1. p.earliest = Day(y, m, d) /\ p.latest = Day(z, n, e) /\ p.precision = precision
  BY PeriodIs
<1>2. Day(y, m, d) \in Int /\ FirstDay <= Day(y, m, d)
  BY IsDateInRange
<1>3. Day(z, n, e) \in Int /\ Day(z, n, e) <= LastDay
  BY IsDateInRange
<1>4. Day(y, m, d) <= Day(z, n, e)
  BY DaysFollow
<1> QED
  BY <1>1, <1>2, <1>3, <1>4 DEF Proper

\* Years as they are typed.
Typed(y) == y \in 1000 .. 9999

LEMMA YearIsTyped ==
  ASSUME NEW n \in Numbers, NEW y, y = ExpandYear(n)
  PROVE  Typed(y)
<1>1. CASE n.digits = 4
  <2>1. n.value \in 1000 .. 9999
    BY <1>1 DEF Numbers
  <2>2. y = n.value
    BY <1>1 DEF ExpandYear
  <2> QED
    BY <2>1, <2>2 DEF Typed
<1>2. CASE n.digits # 4
  <2>1. n.value \in 0 .. 99
    BY <1>2 DEF Numbers
  <2>2. y = 1900 + n.value
    BY <1>2 DEF ExpandYear
  <2> QED
    BY <2>1, <2>2 DEF Typed
<1> QED
  BY <1>1, <1>2

LEMMA YearAfterIsTyped ==
  ASSUME NEW n \in Numbers, NEW start, Typed(start), NEW y, y = ExpandYearAfter(n, start)
  PROVE  Typed(y)
<1>1. CASE n.digits = 4
  <2>1. n.value \in 1000 .. 9999
    BY <1>1 DEF Numbers
  <2>2. y = n.value
    BY <1>1 DEF ExpandYearAfter
  <2> QED
    BY <2>1, <2>2 DEF Typed
<1>2. CASE n.digits # 4
  <2>1. n.value \in 0 .. 99
    BY <1>2 DEF Numbers
  <2>2. y = (start \div 100) * 100 + n.value
    BY <1>2 DEF ExpandYearAfter
  <2>3. start \in Int /\ 1000 <= start /\ start <= 9999
    BY DEF Typed
  <2>4. PICK c : c = start \div 100
    OBVIOUS
  <2>5. c \in 10 .. 99
    BY <2>3, <2>4
  <2>6. y = c * 100 + n.value
    BY <2>2, <2>4
  <2> QED
    BY <2>1, <2>5, <2>6 DEF Typed
<1> QED
  BY <1>1, <1>2

CalendarYear(y) == y \in 1 .. 9999

CalendarMonth(m) == m \in 1 .. 12

LEMMA TypedIs ==
  ASSUME NEW y, Typed(y)
  PROVE  CalendarYear(y)
BY DEF Typed, CalendarYear

LEMMA InCalendar ==
  ASSUME NEW y \in Int, 1 <= y, y <= 9999
  PROVE  CalendarYear(y)
BY DEF CalendarYear

LEMMA DateOfMonth ==
  ASSUME NEW y, CalendarYear(y), NEW m, CalendarMonth(m), NEW d \in 1 .. MonthLength(y, m)
  PROVE  IsDate(y, m, d)
BY DEF CalendarYear, CalendarMonth, IsDate

LEMMA FirstIsDate ==
  ASSUME NEW y, CalendarYear(y), NEW m, CalendarMonth(m)
  PROVE  IsDate(y, m, 1)
<1>1. y \in 1 .. 9999 /\ m \in 1 .. 12
  BY DEF CalendarYear, CalendarMonth
<1>2. MonthLength(y, m) \in 28 .. 31
  BY <1>1, MonthIs DEF MonthIsOf
<1>3. 1 \in 1 .. MonthLength(y, m)
  BY <1>2
<1> QED
  BY <1>1, <1>3 DEF IsDate

LEMMA LastIsDate ==
  ASSUME NEW y, CalendarYear(y), NEW m, CalendarMonth(m), NEW d, d = MonthLength(y, m)
  PROVE  IsDate(y, m, d) /\ 1 <= d
<1>1. y \in 1 .. 9999 /\ m \in 1 .. 12
  BY DEF CalendarYear, CalendarMonth
<1>2. MonthLength(y, m) \in 28 .. 31
  BY <1>1, MonthIs DEF MonthIsOf
<1>3. d \in 1 .. MonthLength(y, m) /\ 1 <= d
  BY <1>2
<1> QED
  BY <1>1, <1>3 DEF IsDate

LEMMA YearsProper ==
  ASSUME NEW a, CalendarYear(a), NEW b, CalendarYear(b), a <= b, NEW precision \in Precisions,
         NEW display, NEW p, p = Years(a, b, precision, display)
  PROVE  Proper(p)
<1>1. CalendarMonth(1) /\ CalendarMonth(12)
  BY DEF CalendarMonth
<1>2. 31 = MonthLength(b, 12)
  BY LengthsTable
<1>3. IsDate(a, 1, 1)
  BY <1>1, FirstIsDate, Zenon
<1>4. IsDate(b, 12, 31)
  BY <1>1, <1>2, LastIsDate, Zenon
<1>5. p = Period(Day(a, 1, 1), Day(b, 12, 31), precision, display)
  BY DEF Years
<1>6. a < b \/ (a = b /\ 1 < 12)
  BY DEF CalendarYear
<1> QED
  BY <1>3, <1>4, <1>5, <1>6, PeriodIsProper

LEMMA MonthProper ==
  ASSUME NEW y, CalendarYear(y), NEW m, CalendarMonth(m), NEW display,
         NEW p, p = Month(y, m, display)
  PROVE  Proper(p)
<1>1. PICK d : d = MonthLength(y, m)
  OBVIOUS
<1>2. IsDate(y, m, 1)
  BY FirstIsDate, Zenon
<1>3. IsDate(y, m, d) /\ 1 <= d
  BY <1>1, LastIsDate, Zenon
<1>4. p = Period(Day(y, m, 1), Day(y, m, d), "month", display)
  BY <1>1 DEF Month, EndOfMonth
<1>5. "month" \in Precisions
  BY DEF Precisions
<1> QED
  BY <1>2, <1>3, <1>4, <1>5, PeriodIsProper

LEMMA ExactProper ==
  ASSUME NEW y, NEW m, NEW d, NEW display, NEW p, p = Exact(y, m, d, display), p # Failure
  PROVE  Proper(p)
<1>1. IsDate(y, m, d) /\ p = Period(Day(y, m, d), Day(y, m, d), "exact", display)
  BY DEF Exact
<1>2. d <= d
  <2>1. d \in 1 .. MonthLength(y, m) /\ y \in 1 .. 9999 /\ m \in 1 .. 12
    BY <1>1 DEF IsDate
  <2>2. MonthLength(y, m) \in 28 .. 31
    BY <2>1, MonthIs DEF MonthIsOf
  <2> QED
    BY <2>1, <2>2
<1>3. "exact" \in Precisions
  BY DEF Precisions
<1> QED
  BY <1>1, <1>2, <1>3, PeriodIsProper

LEMMA MonthNumberIs ==
  ASSUME NEW word, word \in {Months[m] : m \in 1 .. 12}
  PROVE  CalendarMonth(MonthNumber(word)) /\ Months[MonthNumber(word)] = word
<1>1. \E m \in 1 .. 12 : Months[m] = word
  OBVIOUS
<1> QED
  BY <1>1 DEF MonthNumber, CalendarMonth

LEMMA SeasonsTable ==
  /\ Seasons["spring"][1] = 3 /\ Seasons["spring"][2] = 5
  /\ Seasons["sommer"][1] = 6 /\ Seasons["sommer"][2] = 8
  /\ Seasons["herbst"][1] = 9 /\ Seasons["herbst"][2] = 11
  /\ Seasons["winter"][1] = 12 /\ Seasons["winter"][2] = 2
  /\ DOMAIN Seasons = {"spring", "sommer", "herbst", "winter"}
BY DEF Seasons

LEMMA ThirdsTable ==
  /\ Thirds["early"][1] = 0 /\ Thirds["early"][2] = 3
  /\ Thirds["mid"][1] = 4 /\ Thirds["mid"][2] = 6
  /\ Thirds["late"][1] = 7 /\ Thirds["late"][2] = 9
  /\ DOMAIN Thirds = {"early", "mid", "late"}
BY DEF Thirds

LEMMA CalendarMonths ==
  /\ CalendarMonth(2) /\ CalendarMonth(3) /\ CalendarMonth(5) /\ CalendarMonth(6)
  /\ CalendarMonth(8) /\ CalendarMonth(9) /\ CalendarMonth(11) /\ CalendarMonth(12)
BY DEF CalendarMonth

\* The first and the last month of a season.
SeasonMonths(a, b) ==
  (a = 3 /\ b = 5) \/ (a = 6 /\ b = 8) \/ (a = 9 /\ b = 11) \/ (a = 12 /\ b = 2)

LEMMA SeasonYears ==
  ASSUME NEW y, CalendarYear(y), NEW a, NEW b, SeasonMonths(a, b),
         NEW last, last = IF b < a THEN y + 1 ELSE y
  PROVE  CalendarMonth(a) /\ CalendarMonth(b) /\ (y < last \/ (y = last /\ a < b))
<1>1. y \in Int
  BY DEF CalendarYear
<1>2. y < last \/ (y = last /\ a < b)
  BY <1>1 DEF SeasonMonths
<1> QED
  BY <1>2, CalendarMonths DEF SeasonMonths

\* A season begins before it ends: all but the winter do so within a year.
LEMMA SeasonPeriod ==
  ASSUME NEW y, CalendarYear(y), NEW a, NEW b, SeasonMonths(a, b),
         NEW last, last = IF b < a THEN y + 1 ELSE y, IsDate(last, b, 1), NEW display,
         NEW p, p = Period(Day(y, a, 1), EndOfMonth(last, b), "season", display)
  PROVE  Proper(p)
<1>1. PICK d : d = MonthLength(last, b)
  OBVIOUS
<1>2. CalendarMonth(a) /\ CalendarMonth(b) /\ (y < last \/ (y = last /\ a < b))
  BY SeasonYears
<1>3. CalendarYear(last)
  BY DEF IsDate, CalendarYear
<1>4. IsDate(y, a, 1)
  BY <1>2, FirstIsDate, Zenon
<1>5. IsDate(last, b, d)
  BY <1>1, <1>2, <1>3, LastIsDate, Zenon
<1>6. p = Period(Day(y, a, 1), Day(last, b, d), "season", display)
  BY <1>1 DEF EndOfMonth
<1>7. "season" \in Precisions
  BY DEF Precisions
<1> QED
  BY <1>2, <1>4, <1>5, <1>6, <1>7, PeriodIsProper

LEMMA SeasonProper ==
  ASSUME NEW t, IsText(t), t.shape = "season a", NEW p, p = Season(t), p # Failure
  PROVE  Proper(p)
<1>1. t.word \in DOMAIN Seasons
  BY DEF IsText, Words
<1>2. t.nums[1] \in Numbers
  BY Parts DEF Singles
<1>3. PICK y : y = ExpandYear(t.nums[1])
  OBVIOUS
<1>4. CalendarYear(y)
  BY <1>2, <1>3, YearIsTyped, TypedIs, Zenon
<1>5. PICK s : s = Seasons[t.word]
  OBVIOUS
<1>6. PICK a, b : a = s[1] /\ b = s[2]
  OBVIOUS
<1>7. SeasonMonths(a, b)
  BY <1>1, <1>5, <1>6, SeasonsTable, Zenon DEF SeasonMonths
<1>8. PICK last : last = IF b < a THEN y + 1 ELSE y
  OBVIOUS
<1>9. /\ IsDate(last, b, 1)
      /\ p = Period(Day(y, a, 1), EndOfMonth(last, b), "season", Rebuilt(t, 1, y))
  BY <1>3, <1>5, <1>6, <1>8 DEF Season
<1> QED
  BY <1>4, <1>7, <1>8, <1>9, SeasonPeriod, Zenon

\* The first and the last year of a decade, or of a part of one.
DecadeYears(i, j) ==
  (i = 0 /\ j = 9) \/ (i = 0 /\ j = 3) \/ (i = 4 /\ j = 6) \/ (i = 7 /\ j = 9)

LEMMA DecadePeriod ==
  ASSUME NEW y, Typed(y), NEW i, NEW j, DecadeYears(i, j), NEW display,
         NEW p, p = Years((y \div 10) * 10 + i, (y \div 10) * 10 + j, "decade", display)
  PROVE  Proper(p)
<1>1. y \in Int /\ 1000 <= y /\ y <= 9999
  BY DEF Typed
<1>2. PICK c : c = y \div 10
  OBVIOUS
<1>3. c \in 100 .. 999
  BY <1>1, <1>2
<1>4. PICK a : a = c * 10 + i
  OBVIOUS
<1>5. PICK b : b = c * 10 + j
  OBVIOUS
<1>6. i \in 0 .. 9 /\ j \in 0 .. 9 /\ i <= j
  BY DEF DecadeYears
<1>7. CalendarYear(a) /\ CalendarYear(b) /\ a <= b
  BY <1>3, <1>4, <1>5, <1>6 DEF CalendarYear
<1>8. p = Years(a, b, "decade", display)
  BY <1>2, <1>4, <1>5
<1>9. "decade" \in Precisions
  BY DEF Precisions
<1> QED
  BY <1>7, <1>8, <1>9, YearsProper

LEMMA DecadeProper ==
  ASSUME NEW t, IsText(t), t.shape \in {"as", "third as"}, NEW p, p = Decade(t), p # Failure
  PROVE  Proper(p)
<1>1. t.word = "" \/ t.word \in DOMAIN Thirds
  BY DEF IsText, Words
<1>2. t.nums[1] \in Numbers
  BY Parts DEF Singles
<1>3. PICK y : y = ExpandYear(t.nums[1])
  OBVIOUS
<1>4. Typed(y)
  BY <1>2, <1>3, YearIsTyped, Zenon
<1>5. PICK part : part = IF t.word = "" THEN <<0, 9>> ELSE Thirds[t.word]
  OBVIOUS
<1>6. PICK i, j : i = part[1] /\ j = part[2]
  OBVIOUS
<1>7. DecadeYears(i, j)
  <2>1. CASE t.word = ""
    <3>1. i = 0 /\ j = 9
      BY <1>5, <1>6, <2>1
    <3> QED
      BY <3>1 DEF DecadeYears
  <2>2. CASE t.word # ""
    BY <1>1, <1>5, <1>6, <2>2, ThirdsTable, Zenon DEF DecadeYears
  <2> QED
    BY <2>1, <2>2
<1>8. p = Years((y \div 10) * 10 + i, (y \div 10) * 10 + j, "decade", Rebuilt(t, 1, y))
  BY <1>3, <1>5, <1>6 DEF Decade
<1> QED
  BY <1>4, <1>7, <1>8, DecadePeriod, Zenon

LEMMA FourDigitsIs ==
  ASSUME NEW n \in Numbers, n.digits = 4
  PROVE  CalendarYear(n.value)
<1>1. n.value \in 1000 .. 9999
  BY DEF Numbers
<1> QED
  BY <1>1 DEF CalendarYear

LEMMA CalendarYearIs ==
  ASSUME NEW y, CalendarYear(y)
  PROVE  y \in Int /\ y <= y
BY DEF CalendarYear

LEMMA RangeProper ==
  ASSUME NEW t, IsText(t), t.shape \in Pairs, NEW p, p = YearRange(t), p # Failure
  PROVE  Proper(p)
<1>1. t.nums[1] \in Numbers /\ t.nums[2] \in Numbers
  BY Parts
<1>2. PICK a : a = ExpandYear(t.nums[1])
  OBVIOUS
<1>3. PICK b : b = ExpandYearAfter(t.nums[2], a)
  OBVIOUS
<1>4. Typed(a) /\ Typed(b)
  BY <1>1, <1>2, <1>3, YearIsTyped, YearAfterIsTyped
<1>5. CalendarYear(a) /\ CalendarYear(b)
  BY <1>4, TypedIs
<1>6. a <= b /\ p = Years(a, b, "range", Rebuilt(Rebuilt(t, 1, a), 2, b))
  BY <1>2, <1>3 DEF YearRange
<1>7. "range" \in Precisions
  BY DEF Precisions
<1> QED
  BY <1>5, <1>6, <1>7, YearsProper

\* An ISO date that can be read is a day of the calendar, whoever wrote it.
LEMMA IsoIsProper ==
  ASSUME NEW t, t.shape = "a-b-c", NEW p, p = Parse(t), p # Failure
  PROVE  Proper(p)
<1>1. p = ExactIso(t)
  BY DEF Parse
<1>2. p = Exact(t.nums[1].value, t.nums[2].value, t.nums[3].value, t)
  BY <1>1 DEF ExactIso
<1> QED
  BY <1>2, ExactProper

\* What is read from any text is a period of the calendar, which does not end
\* before it begins.
LEMMA ParseIsProper ==
  ASSUME NEW t, IsText(t), NEW p, p = Parse(t), p # Failure
  PROVE  Proper(p)
<1>1. CASE t.shape = "a-b-c"
  BY <1>1, IsoIsProper
<1>2. CASE t.shape = "a.b.c"
  <2>1. p = ExactDe(t)
    BY <1>2 DEF Parse
  <2>2. p = Exact(t.nums[3].value, t.nums[2].value, t.nums[1].value, t)
    BY <2>1 DEF ExactDe
  <2> QED
    BY <2>2, ExactProper
<1>3. CASE t.shape = "a. month b"
  <2>1. p = ExactDayMonthName(t)
    BY <1>3 DEF Parse
  <2>2. PICK y : y = ExpandYear(t.nums[2])
    OBVIOUS
  <2>3. p = Exact(y, MonthNumber(t.word), t.nums[1].value, Rebuilt(t, 2, y))
    BY <2>1, <2>2 DEF ExactDayMonthName
  <2> QED
    BY <2>3, ExactProper
<1>4. CASE t.shape \in {"a", "ca. a"}
  <2>1. p = Year(t) /\ t.shape \in Singles
    BY <1>4 DEF Parse, Singles
  <2>2. PICK y : y = ExpandYear(t.nums[1])
    OBVIOUS
  <2>3. p = Years(y, y, "year", Rebuilt(t, 1, y))
    BY <2>1, <2>2 DEF Year
  <2>4. CalendarYear(y) /\ y <= y
    <3>1. t.nums[1] \in Numbers
      BY <2>1, Parts
    <3> QED
      BY <2>2, <3>1, YearIsTyped, TypedIs, CalendarYearIs, Zenon
  <2>5. "year" \in Precisions
    BY DEF Precisions
  <2> QED
    BY <2>3, <2>4, <2>5, YearsProper
<1>5. CASE t.shape = "season a"
  <2>1. p = Season(t)
    BY <1>5 DEF Parse
  <2> QED
    BY <1>5, <2>1, SeasonProper
<1>6. CASE t.shape \in {"as", "third as"}
  <2>1. p = Decade(t)
    BY <1>6 DEF Parse
  <2> QED
    BY <1>6, <2>1, DecadeProper
<1>7. CASE t.shape = "month a"
  <2>1. p = MonthName(t) /\ t.shape \in Singles
    BY <1>7 DEF Parse, Singles
  <2>2. PICK y : y = ExpandYear(t.nums[1])
    OBVIOUS
  <2>3. p = Month(y, MonthNumber(t.word), Rebuilt(t, 1, y))
    BY <2>1, <2>2 DEF MonthName
  <2>4. CalendarYear(y)
    <3>1. t.nums[1] \in Numbers
      BY <2>1, Parts
    <3> QED
      BY <2>2, <3>1, YearIsTyped, TypedIs
  <2>5. CalendarMonth(MonthNumber(t.word))
    <3>1. t.word \in {Months[m] : m \in 1 .. 12}
      BY <1>7 DEF IsText, Words
    <3> QED
      BY <3>1, MonthNumberIs
  <2> QED
    BY <2>3, <2>4, <2>5, MonthProper
<1>8. CASE t.shape = "a.b"
  <2>1. p = MonthNum(t) /\ t.shape \in Pairs
    BY <1>8 DEF Parse, Pairs
  <2>2. PICK y : y = ExpandYear(t.nums[2])
    OBVIOUS
  <2>3. p = Month(y, t.nums[1].value, Rebuilt(t, 2, y)) /\ CalendarMonth(t.nums[1].value)
    BY <2>1, <2>2 DEF MonthNum, CalendarMonth
  <2>4. CalendarYear(y)
    <3>1. t.nums[2] \in Numbers
      BY <2>1, Parts
    <3> QED
      BY <2>2, <3>1, YearIsTyped, TypedIs
  <2> QED
    BY <2>3, <2>4, MonthProper
<1>9. CASE t.shape \in {"a-b", "a bis b"}
  <2>1. t.shape \in Pairs
    BY <1>9 DEF Pairs
  <2>2. CASE t.shape = "a-b" /\ IsMonthIso(t)
    <3>1. p = Month(t.nums[1].value, t.nums[2].value, t)
      BY <2>2 DEF Parse, MonthIso
    <3>2. CalendarMonth(t.nums[2].value)
      BY <2>2 DEF IsMonthIso, CalendarMonth
    <3>3. t.nums[1] \in Numbers /\ t.nums[1].digits = 4
      BY <2>1, <2>2, Parts DEF IsMonthIso
    <3>4. CalendarYear(t.nums[1].value)
      BY <3>3, FourDigitsIs, Zenon
    <3> QED
      BY <3>1, <3>2, <3>4, MonthProper
  <2>3. CASE ~(t.shape = "a-b" /\ IsMonthIso(t))
    <3>1. p = YearRange(t)
      BY <1>9, <2>3 DEF Parse
    <3> QED
      BY <2>1, <3>1, RangeProper
  <2> QED
    BY <2>2, <2>3
<1>10. \/ t.shape \in {"a-b-c", "a.b.c", "a. month b", "season a", "month a", "a.b"}
       \/ t.shape \in {"a", "ca. a"} \/ t.shape \in {"as", "third as"}
       \/ t.shape \in {"a-b", "a bis b"}
  BY DEF IsText, Singles, Pairs, Triples
<1> QED
  BY <1>1, <1>2, <1>3, <1>4, <1>5, <1>6, <1>7, <1>8, <1>9, <1>10

----------------------------------------------------------------------------
(* Every day of the calendar has a date, which is read as that day. *)

\* The years between leap centuries, leap years and so on: how many days have
\* gone by before year 400 a + 100 b + 4 c + d + 1.
Cycles(a, b, c, d, p) ==
  /\ a \in Nat /\ b \in Nat /\ b <= 3 /\ c \in Nat /\ c <= 24 /\ d \in Nat /\ d <= 3
  /\ p = 400 * a + 100 * b + 4 * c + d

LEMMA CyclesIs ==
  ASSUME NEW a, NEW b, NEW c, NEW d, NEW p, Cycles(a, b, c, d, p)
  PROVE  /\ p \in Nat
         /\ Before(p + 1) = 146097 * a + 36524 * b + 1461 * c + 365 * d
         /\ d = 3 /\ (c < 24 \/ b = 3) => LeapDay(p + 1) = 1
<1> USE DEF Cycles
<1>1. p \in Nat
  OBVIOUS
<1>2. p \div 4 = 100 * a + 25 * b + c
  OBVIOUS
<1>3. p \div 100 = 4 * a + b
  OBVIOUS
<1>4. p \div 400 = a
  OBVIOUS
<1>5. Before(p + 1) = 365 * p + p \div 4 - p \div 100 + p \div 400
  BY <1>1 DEF Before
<1>6. Before(p + 1) = 146097 * a + 36524 * b + 1461 * c + 365 * d
  BY <1>2, <1>3, <1>4, <1>5
<1>7. ASSUME d = 3, c < 24 \/ b = 3
      PROVE  LeapDay(p + 1) = 1
  <2>1. (p + 1) % 4 = 0
    BY <1>7
  <2>2. CASE c < 24
    <3>1. (p + 1) % 100 = 4 * c + 4
      BY <1>7, <2>2
    <3>2. (p + 1) % 100 # 0
      BY <3>1
    <3> QED
      BY <2>1, <3>2 DEF LeapDay, Leap
  <2>3. CASE c = 24 /\ b = 3
    <3>1. (p + 1) % 400 = 0
      BY <1>7, <2>3
    <3> QED
      BY <2>1, <3>1 DEF LeapDay, Leap
  <2> QED
    BY <1>7, <2>2, <2>3
<1> QED
  BY <1>1, <1>6, <1>7

\* The year of a day.
InYear(y, n) == Before(y) < n /\ n <= Before(y + 1)

LEMMA YearExists ==
  ASSUME NEW n \in Int, 1 <= n
  PROVE  \E y \in Int : InYear(y, n)
<1>1. PICK k : k = n - 1
  OBVIOUS
<1>2. k \in Nat
  BY <1>1
<1>3. PICK a, r : a = k \div 146097 /\ r = k - 146097 * a
  OBVIOUS
<1>4. a \in Nat /\ r \in Nat /\ r <= 146096 /\ k = 146097 * a + r
  BY <1>2, <1>3
<1>5. PICK b : b = IF r \div 36524 = 4 THEN 3 ELSE r \div 36524
  OBVIOUS
<1>6. PICK s : s = r - 36524 * b
  OBVIOUS
<1>7. b \in Nat /\ b <= 3 /\ s \in Nat /\ s <= 36524 /\ r = 36524 * b + s /\ (b < 3 => s < 36524)
  BY <1>4, <1>5, <1>6
<1>8. PICK c, u : c = s \div 1461 /\ u = s - 1461 * c
  OBVIOUS
<1>9. c \in Nat /\ c <= 24 /\ u \in Nat /\ u <= 1460 /\ s = 1461 * c + u
  BY <1>7, <1>8
<1>10. PICK d : d = IF u \div 365 = 4 THEN 3 ELSE u \div 365
  OBVIOUS
<1>11. d \in Nat /\ d <= 3 /\ 365 * d <= u /\ (d < 3 => u < 365 * d + 365)
  BY <1>9, <1>10
<1>12. PICK p : p = 400 * a + 100 * b + 4 * c + d
  OBVIOUS
<1>13. /\ p \in Nat
       /\ Before(p + 1) = 146097 * a + 36524 * b + 1461 * c + 365 * d
       /\ d = 3 /\ (c < 24 \/ b = 3) => LeapDay(p + 1) = 1
  <2>1. Cycles(a, b, c, d, p)
    BY <1>4, <1>7, <1>9, <1>11, <1>12 DEF Cycles
  <2> QED
    BY <2>1, CyclesIs
<1>14. Before(p + 1) <= k
  BY <1>4, <1>7, <1>9, <1>11, <1>13
<1>15. Before(p + 2) = Before(p + 1) + 365 + LeapDay(p + 1) /\ LeapDay(p + 1) \in 0 .. 1
  BY <1>13, NextYear, LeapDayIs
<1>16. k < Before(p + 2)
  <2>1. CASE d < 3
    BY <1>4, <1>7, <1>9, <1>11, <1>13, <1>15, <2>1
  <2>2. CASE d = 3 /\ (c < 24 \/ b = 3)
    BY <1>4, <1>7, <1>9, <1>11, <1>13, <1>15, <2>2
  <2>3. CASE d = 3 /\ c = 24 /\ b < 3
    <3>1. u < 1460
      BY <1>7, <1>9, <2>3
    <3> QED
      BY <1>4, <1>7, <1>9, <1>11, <1>13, <1>15, <2>3, <3>1
  <2> QED
    BY <1>7, <1>9, <1>11, <2>1, <2>2, <2>3
<1>17. PICK y : y = p + 1
  OBVIOUS
<1>18. y \in Int /\ y + 1 = p + 2 /\ Before(y) \in Int /\ Before(y + 1) \in Int
  BY <1>13, <1>17, BeforeIs
<1>19. InYear(y, n)
  BY <1>1, <1>14, <1>16, <1>17, <1>18 DEF InYear
<1> QED
  BY <1>18, <1>19

LEMMA NewYearIs ==
  ASSUME NEW y \in Int
  PROVE  Day(y, 1, 1) = Before(y) + 1
<1>1. Start(y, 1) = 0
  BY StartsTable
<1>2. 1 \in 1 .. 12
  OBVIOUS
<1>3. Day(y, 1, 1) = Before(y) + Start(y, 1) + 1
  BY <1>2, DayIs
<1> QED
  BY <1>1, <1>3, BeforeIs

LEMMA EndsOfCalendar ==
  FirstDay = 1 /\ LastDay = Before(10000) /\ Before(1) = 0 /\ Before(10000) = 3652059
<1>1. FirstDay = Before(1) + 1
  BY NewYearIs DEF FirstDay
<1>2. Before(1) = 0 /\ Before(9999) = 3651694 /\ Before(10000) = 3652059
  BY DEF Before
<1>3. LastDay = Before(9999) + Start(9999, 12) + 31
  <2>1. 12 \in 1 .. 12
    OBVIOUS
  <2> QED
    BY <2>1, DayIs DEF LastDay
<1>4. Start(9999, 12) = 334
  <2>1. LeapDay(9999) = 0
    BY DEF LeapDay, Leap
  <2> QED
    BY <2>1, StartsTable
<1> QED
  BY <1>1, <1>2, <1>3, <1>4

\* The years that YearOf looks at are enough.
LEMMA YearInReach ==
  ASSUME NEW n \in Int, 1 <= n, NEW y \in Int, InYear(y, n)
  PROVE  y \in (n \div 366) .. (n \div 365 + 1) /\ 1 <= y
<1>1. Before(y) < n /\ n <= Before(y + 1) /\ Before(y) \in Int /\ Before(y + 1) \in Int
  BY BeforeIs DEF InYear
<1>2. 1 <= y
  <2>1. CASE y <= 0
    <3>1. Before(y + 1) + 365 * (1 - (y + 1)) <= Before(1)
      BY <2>1, BeforeGrows
    <3> QED
      BY <1>1, <2>1, <3>1, EndsOfCalendar
  <2> QED
    BY <2>1
<1>3. 365 * (y - 1) <= Before(y) /\ Before(y + 1) <= 366 * y
  BY <1>2 DEF Before
<1>4. 365 * (y - 1) < n /\ n <= 366 * y
  BY <1>1, <1>3
<1>5. n \div 366 <= y
  BY <1>4
<1>6. y <= n \div 365 + 1
  BY <1>4
<1> QED
  BY <1>2, <1>5, <1>6

LEMMA YearOfIs ==
  ASSUME NEW n \in Int, 1 <= n, NEW y, y = YearOf(n)
  PROVE  y \in Int /\ 1 <= y /\ InYear(y, n)
<1> DEFINE InReach == (n \div 366) .. (n \div 365 + 1)
           Found(z) == Day(z, 1, 1) <= n /\ n < Day(z + 1, 1, 1)
<1>1. PICK z \in Int : InYear(z, n)
  BY YearExists
<1>2. z \in InReach
  BY <1>1, YearInReach
<1>3. ASSUME NEW x \in Int
      PROVE  Found(x) <=> InYear(x, n)
  <2>1. Day(x, 1, 1) = Before(x) + 1 /\ Day(x + 1, 1, 1) = Before(x + 1) + 1
    BY NewYearIs
  <2>2. Before(x) \in Int /\ Before(x + 1) \in Int
    BY BeforeIs
  <2> QED
    BY <2>1, <2>2 DEF InYear
<1>4. Found(z)
  BY <1>1, <1>3
<1>5. y = CHOOSE x \in InReach : Found(x)
  BY DEF YearOf
<1>6. y \in InReach /\ Found(y)
  <2> HIDE DEF Found, InReach
  <2> QED
    BY <1>2, <1>4, <1>5
<1>7. y \in Int
  BY <1>6
<1>8. InYear(y, n)
  BY <1>3, <1>6, <1>7
<1> QED
  BY <1>7, <1>8, YearInReach

\* The month of a day.
InMonth(y, m, n) == Before(y) + Start(y, m) < n /\ n <= Before(y) + Start(y, m) + MonthLength(y, m)

LEMMA MonthExists ==
  ASSUME NEW n \in Int, NEW y \in Int, InYear(y, n)
  PROVE  \E m \in 1 .. 12 : InMonth(y, m, n)
<1>1. PICK b : b = Before(y)
  OBVIOUS
<1>2. PICK leap : leap = LeapDay(y)
  OBVIOUS
<1>3. b \in Int /\ leap \in 0 .. 1 /\ b < n /\ n <= b + 365 + leap
  BY <1>1, <1>2, BeforeIs, LeapDayIs, NextYear DEF InYear
<1>4. \/ n <= b + 31
      \/ b + 31 < n /\ n <= b + 59 + leap
      \/ b + 59 + leap < n /\ n <= b + 90 + leap
      \/ b + 90 + leap < n /\ n <= b + 120 + leap
      \/ b + 120 + leap < n /\ n <= b + 151 + leap
      \/ b + 151 + leap < n /\ n <= b + 181 + leap
      \/ b + 181 + leap < n /\ n <= b + 212 + leap
      \/ b + 212 + leap < n /\ n <= b + 243 + leap
      \/ b + 243 + leap < n /\ n <= b + 273 + leap
      \/ b + 273 + leap < n /\ n <= b + 304 + leap
      \/ b + 304 + leap < n /\ n <= b + 334 + leap
      \/ b + 334 + leap < n /\ n <= b + 365 + leap
  BY <1>3
<1>5. \/ InMonth(y, 1, n) \/ InMonth(y, 2, n) \/ InMonth(y, 3, n) \/ InMonth(y, 4, n)
      \/ InMonth(y, 5, n) \/ InMonth(y, 6, n) \/ InMonth(y, 7, n) \/ InMonth(y, 8, n)
      \/ InMonth(y, 9, n) \/ InMonth(y, 10, n) \/ InMonth(y, 11, n) \/ InMonth(y, 12, n)
  BY <1>1, <1>2, <1>3, <1>4, StartsTable, LengthsTable DEF InMonth
<1> QED
  BY <1>5

LEMMA MonthOfIs ==
  ASSUME NEW n \in Int, 1 <= n, NEW y, y = YearOf(n), NEW m, m = MonthOf(n)
  PROVE  m \in 1 .. 12 /\ InMonth(y, m, n)
<1> DEFINE Found(k) == Day(y, k, 1) <= n /\ n < Day(y, k, 1) + MonthLength(y, k)
<1>1. y \in Int /\ InYear(y, n)
  BY YearOfIs
<1>2. PICK z \in 1 .. 12 : InMonth(y, z, n)
  BY <1>1, MonthExists
<1>3. ASSUME NEW k \in 1 .. 12
      PROVE  Found(k) <=> InMonth(y, k, n)
  <2>1. Day(y, k, 1) = Before(y) + Start(y, k) + 1
    BY <1>1, FirstOfMonthIs, Zenon
  <2>2. Before(y) \in Int
    BY <1>1, BeforeIs
  <2>3. Start(y, k) \in Nat /\ MonthLength(y, k) \in 28 .. 31
    BY <1>1, MonthIs DEF MonthIsOf
  <2> QED
    BY <2>1, <2>2, <2>3 DEF InMonth
<1>4. Found(z)
  BY <1>2, <1>3
<1>5. m = CHOOSE k \in 1 .. 12 : Found(k)
  BY DEF MonthOf
<1>6. m \in 1 .. 12 /\ Found(m)
  <2> HIDE DEF Found
  <2> QED
    BY <1>4, <1>5
<1> QED
  BY <1>3, <1>6

LEMMA DateOfIs ==
  ASSUME NEW n \in Int, FirstDay <= n, n <= LastDay,
         NEW y, y = YearOf(n), NEW m, m = MonthOf(n), NEW d, d = n - Day(y, m, 1) + 1
  PROVE  IsDate(y, m, d) /\ Day(y, m, d) = n
<1>1. 1 <= n /\ n <= Before(10000)
  BY EndsOfCalendar
<1>2. y \in Int /\ 1 <= y /\ InYear(y, n)
  BY <1>1, YearOfIs
<1>3. y <= 9999
  <2>1. CASE 10000 <= y
    <3>1. Before(10000) + 365 * (y - 10000) <= Before(y)
      BY <1>2, <2>1, BeforeGrows
    <3>2. Before(y) < n /\ Before(y) \in Int
      BY <1>2, BeforeIs DEF InYear
    <3> QED
      BY <1>1, <1>2, <2>1, <3>1, <3>2, EndsOfCalendar
  <2> QED
    BY <1>2, <2>1
<1>4. m \in 1 .. 12 /\ InMonth(y, m, n)
  BY <1>1, MonthOfIs
<1>5. PICK b : b = Before(y) + Start(y, m)
  OBVIOUS
<1>6. b \in Int /\ MonthLength(y, m) \in 28 .. 31
  <2>1. Before(y) \in Int
    BY <1>2, BeforeIs
  <2>2. Start(y, m) \in Nat /\ MonthLength(y, m) \in 28 .. 31
    BY <1>2, <1>4, MonthIs DEF MonthIsOf
  <2> QED
    BY <1>5, <2>1, <2>2
<1>7. Day(y, m, 1) = b + 1
  <2>1. Day(y, m, 1) = Before(y) + Start(y, m) + 1
    BY <1>2, <1>4, FirstOfMonthIs, Zenon
  <2> QED
    BY <1>5, <2>1
<1>8. d = n - b
  BY <1>6, <1>7
<1>9. d \in Int /\ 1 <= d /\ d <= MonthLength(y, m)
  BY <1>4, <1>5, <1>6, <1>8 DEF InMonth
<1>10. d \in 1 .. MonthLength(y, m)
  BY <1>6, <1>9
<1>11. IsDate(y, m, d)
  <2>1. CalendarYear(y)
    BY <1>2, <1>3, InCalendar
  <2>2. CalendarMonth(m)
    BY <1>4 DEF CalendarMonth
  <2> QED
    BY <1>10, <2>1, <2>2, DateOfMonth, Zenon
<1>12. Day(y, m, d) = b + d
  BY <1>2, <1>4, <1>5, <1>9, DayIs
<1> QED
  BY <1>6, <1>8, <1>11, <1>12

\* A day that is written as an ISO date is read as that day.
LEMMA IsoIsRead ==
  ASSUME NEW n \in Int, FirstDay <= n, n <= LastDay, NEW t, t = IsoText(n)
  PROVE  /\ Parse(t) = Period(n, n, "exact", t)
         /\ t # NoText
<1>1. PICK y, m, d : y = YearOf(n) /\ m = MonthOf(n) /\ d = n - Day(y, m, 1) + 1
  OBVIOUS
<1>2. PICK shape, nums, word :
        /\ shape = "a-b-c" /\ nums = <<Number(4, y), Number(2, m), Number(2, d)>> /\ word = ""
        /\ t = Text(shape, nums, word)
  BY <1>1 DEF IsoText
<1>3. t.shape = "a-b-c" /\ t.nums = <<Number(4, y), Number(2, m), Number(2, d)>>
  <2>1. t = Text(shape, nums, word)
    BY <1>2
  <2>2. t.shape = shape /\ t.nums = nums
    BY <2>1, TextIs
  <2>3. shape = "a-b-c" /\ nums = <<Number(4, y), Number(2, m), Number(2, d)>>
    BY <1>2
  <2> QED
    BY <2>2, <2>3, Zenon
<1>4. t.nums[1] = Number(4, y) /\ t.nums[2] = Number(2, m) /\ t.nums[3] = Number(2, d)
  BY <1>3
<1>5. Number(4, y).digits = 4 /\ Short(Number(2, m)) /\ Short(Number(2, d))
      /\ Number(4, y).value = y /\ Number(2, m).value = m /\ Number(2, d).value = d
  BY DEF Number, Short
<1>6. Parse(t) = Exact(y, m, d, t)
  <2>1. Parse(t) = ExactIso(t)
    BY <1>3 DEF Parse
  <2> QED
    BY <1>4, <1>5, <2>1 DEF ExactIso
<1>7. IsDate(y, m, d) /\ Day(y, m, d) = n
  BY <1>1, DateOfIs
<1>8. t # NoText
  <2>1. NoText.shape = ""
    BY DEF NoText, Text
  <2>2. t.shape = "a-b-c"
    BY <1>3
  <2>3. t.shape # NoText.shape
    BY <2>1, <2>2
  <2> QED
    BY <2>3
<1> QED
  BY <1>6, <1>7, <1>8 DEF Exact

----------------------------------------------------------------------------
(* What is shown for a text is a text again. *)

LEMMA RebuiltIsText ==
  ASSUME NEW t, IsText(t), NEW k, k \in DOMAIN t.nums, NEW y, Typed(y),
         NEW r, r = Rebuilt(t, k, y)
  PROVE  IsText(r) /\ DOMAIN r.nums = DOMAIN t.nums
<1>1. t.nums \in Seq(Numbers) /\ DOMAIN t.nums = 1 .. Len(t.nums) /\ Len(t.nums) \in Nat
  BY DEF IsText
<1>2. Written(y) \in Numbers
  <2>1. y \in 1000 .. 9999 /\ Full(y)
    BY DEF Typed, Full
  <2>2. Written(y) = Number(4, y)
    BY <2>1, WrittenIs
  <2> QED
    BY <2>1, <2>2 DEF Number, Numbers
<1>3. PICK nums : nums = [t.nums EXCEPT ![k] = Written(y)]
  OBVIOUS
<1>4. nums \in Seq(Numbers) /\ Len(nums) = Len(t.nums) /\ DOMAIN nums = DOMAIN t.nums
  BY <1>1, <1>2, <1>3
<1>5. r = Text(t.shape, nums, t.word)
  BY <1>3 DEF Rebuilt
<1>6. r = [shape |-> t.shape, nums |-> nums, word |-> t.word]
  BY <1>5 DEF Text
<1>7. r.shape = t.shape /\ r.nums = nums /\ r.word = t.word
  BY <1>6
<1>8. t.shape \in Singles \cup Pairs \cup Triples /\ t.word \in STRING
  BY DEF IsText
<1>9. r \in [shape: Singles \cup Pairs \cup Triples, nums: Seq(Numbers), word: STRING]
  BY <1>4, <1>6, <1>8
<1> QED
  BY <1>4, <1>7, <1>9 DEF IsText

LEMMA PeriodShows ==
  ASSUME NEW a, NEW b, NEW precision, NEW display
  PROVE  Period(a, b, precision, display).display = display
BY DEF Period

LEMMA ExactIsText ==
  ASSUME NEW y, NEW m, NEW d, NEW display, IsText(display),
         NEW p, p = Exact(y, m, d, display), p # Failure
  PROVE  IsText(p.display)
BY ExactIs

\* The texts whose first number is a year that is written out.
LEMMA FirstIsText ==
  ASSUME NEW t, IsText(t), t.shape \in Singles, NEW y, y = ExpandYear(t.nums[1]),
         NEW a, NEW b, NEW precision, NEW p, p = Period(a, b, precision, Rebuilt(t, 1, y))
  PROVE  IsText(p.display)
<1>1. t.nums[1] \in Numbers /\ 1 \in DOMAIN t.nums
  BY Parts
<1>2. Typed(y)
  BY <1>1, YearIsTyped, Zenon
<1>3. IsText(Rebuilt(t, 1, y))
  BY <1>1, <1>2, RebuiltIsText, Zenon
<1> QED
  BY <1>3, PeriodShows

\* The texts whose second number is one.
LEMMA SecondIsText ==
  ASSUME NEW t, IsText(t), t.shape \in Pairs, NEW y, y = ExpandYear(t.nums[2])
  PROVE  IsText(Rebuilt(t, 2, y))
<1>1. t.nums[2] \in Numbers /\ 2 \in DOMAIN t.nums
  BY Parts
<1>2. Typed(y)
  BY <1>1, YearIsTyped, Zenon
<1> QED
  BY <1>1, <1>2, RebuiltIsText, Zenon

LEMMA RangeIsText ==
  ASSUME NEW t, IsText(t), t.shape \in Pairs, NEW a, a = ExpandYear(t.nums[1]),
         NEW b, b = ExpandYearAfter(t.nums[2], a)
  PROVE  IsText(Rebuilt(Rebuilt(t, 1, a), 2, b))
<1>1. /\ t.nums[1] \in Numbers /\ 1 \in DOMAIN t.nums
      /\ t.nums[2] \in Numbers /\ 2 \in DOMAIN t.nums
  BY Parts
<1>2. Typed(a) /\ Typed(b)
  BY <1>1, YearIsTyped, YearAfterIsTyped, Zenon
<1>3. PICK q : q = Rebuilt(t, 1, a)
  OBVIOUS
<1>4. IsText(q) /\ DOMAIN q.nums = DOMAIN t.nums
  <2>1. 1 \in DOMAIN t.nums /\ Typed(a)
    BY <1>1, <1>2
  <2> QED
    BY <1>3, <2>1, RebuiltIsText
<1>5. 2 \in DOMAIN q.nums
  BY <1>1, <1>4
<1>6. IsText(Rebuilt(q, 2, b))
  BY <1>2, <1>4, <1>5, RebuiltIsText, Zenon
<1> QED
  BY <1>3, <1>6

\* The text that is kept of one that has been read can be read again as it is.
LEMMA ParsedIsText ==
  ASSUME NEW t, IsText(t), NEW p, p = Parse(t), p # Failure
  PROVE  IsText(p.display)
<1>1. CASE t.shape = "a-b-c"
  BY <1>1, ExactIsText DEF Parse, ExactIso
<1>2. CASE t.shape = "a.b.c"
  BY <1>2, ExactIsText DEF Parse, ExactDe
<1>3. CASE t.shape = "a. month b"
  <2>1. p = ExactDayMonthName(t) /\ t.shape \in Pairs
    BY <1>3 DEF Parse, Pairs
  <2>2. PICK y : y = ExpandYear(t.nums[2])
    OBVIOUS
  <2>3. PICK r : r = Rebuilt(t, 2, y)
    OBVIOUS
  <2>4. p = Exact(y, MonthNumber(t.word), t.nums[1].value, r)
    BY <2>1, <2>2, <2>3 DEF ExactDayMonthName
  <2>5. IsText(r)
    BY <2>1, <2>2, <2>3, SecondIsText
  <2> QED
    BY <2>4, <2>5, ExactIsText
<1>4. CASE t.shape \in {"a", "ca. a", "season a", "as", "third as", "month a"}
  <2>1. t.shape \in Singles
    BY <1>4 DEF Singles
  <2>2. PICK y : y = ExpandYear(t.nums[1])
    OBVIOUS
  <2>3. p = Year(t) \/ p = Season(t) \/ p = Decade(t) \/ p = MonthName(t)
    BY <1>4 DEF Parse
  <2>4. \E a, b, precision : p = Period(a, b, precision, Rebuilt(t, 1, y))
    BY <2>2, <2>3 DEF Year, Season, Decade, MonthName, Years, Month
  <2> QED
    BY <2>1, <2>2, <2>4, FirstIsText
<1>5. CASE t.shape = "a.b"
  <2>1. p = MonthNum(t) /\ t.shape \in Pairs
    BY <1>5 DEF Parse, Pairs
  <2>2. PICK y : y = ExpandYear(t.nums[2])
    OBVIOUS
  <2>3. p.display = Rebuilt(t, 2, y)
    BY <2>1, <2>2, PeriodShows DEF MonthNum, Month
  <2> QED
    BY <2>1, <2>2, <2>3, SecondIsText
<1>6. CASE t.shape = "a-b" /\ IsMonthIso(t)
  BY <1>6, PeriodShows DEF Parse, MonthIso, Month
<1>7. CASE t.shape \in {"a-b", "a bis b"} /\ ~(t.shape = "a-b" /\ IsMonthIso(t))
  <2>1. p = YearRange(t) /\ t.shape \in Pairs
    BY <1>7 DEF Parse, Pairs
  <2>2. PICK a : a = ExpandYear(t.nums[1])
    OBVIOUS
  <2>3. PICK b : b = ExpandYearAfter(t.nums[2], a)
    OBVIOUS
  <2>4. p.display = Rebuilt(Rebuilt(t, 1, a), 2, b)
    BY <2>1, <2>2, <2>3, PeriodShows DEF YearRange, Years
  <2> QED
    BY <2>1, <2>2, <2>3, <2>4, RangeIsText
<1>8. \/ t.shape \in {"a-b-c", "a.b.c", "a. month b", "a.b"}
      \/ t.shape \in {"a", "ca. a", "season a", "as", "third as", "month a"}
      \/ t.shape \in {"a-b", "a bis b"}
  BY DEF IsText, Singles, Pairs, Triples
<1> QED
  BY <1>1, <1>2, <1>3, <1>4, <1>5, <1>6, <1>7, <1>8

----------------------------------------------------------------------------
(* The day after a month or a year is the first of the next. *)

LEMMA MonthEnds ==
  ASSUME NEW y \in Int, NEW m \in 1 .. 12
  PROVE  /\ EndOfMonth(y, m) \in Int
         /\ m < 12 => EndOfMonth(y, m) + 1 = Day(y, m + 1, 1)
         /\ m = 12 => EndOfMonth(y, m) + 1 = Day(y + 1, 1, 1)
<1>1. PICK d : d = MonthLength(y, m)
  OBVIOUS
<1>2. PICK s : s = Start(y, m)
  OBVIOUS
<1>3. PICK leap : leap = LeapDay(y)
  OBVIOUS
<1>4. /\ s \in Nat /\ d \in 28 .. 31 /\ leap \in 0 .. 1
      /\ m < 12 => s + d = Start(y, m + 1)
      /\ m = 12 => s + d = 365 + leap
  BY <1>1, <1>2, <1>3, MonthIs, LeapDayIs DEF MonthIsOf
<1>5. PICK b : b = Before(y)
  OBVIOUS
<1>6. b \in Int
  BY <1>5, BeforeIs
<1>7. d \in Int
  BY <1>4
<1>8. Day(y, m, d) = b + s + d
  BY <1>2, <1>5, <1>7, DayIs
<1>9. EndOfMonth(y, m) = b + s + d
  BY <1>1, <1>8 DEF EndOfMonth
<1>10. CASE m < 12
  <2>1. PICK n : n = m + 1
    OBVIOUS
  <2>2. n \in 1 .. 12
    BY <1>10, <2>1
  <2>3. Day(y, n, 1) = b + Start(y, n) + 1
    BY <1>5, <2>2, FirstOfMonthIs, Zenon
  <2> QED
    BY <1>4, <1>6, <1>9, <1>10, <2>1, <2>3
<1>11. CASE m = 12
  <2>1. Day(y + 1, 1, 1) = Before(y + 1) + 1
    BY NewYearIs
  <2>2. Before(y + 1) = b + 365 + leap
    BY <1>3, <1>5, NextYear
  <2> QED
    BY <1>4, <1>6, <1>9, <1>11, <2>1, <2>2
<1> QED
  BY <1>4, <1>6, <1>9, <1>10, <1>11

LEMMA YearEnds ==
  ASSUME NEW y \in Int
  PROVE  Day(y, 12, 31) \in Int /\ Day(y, 12, 31) + 1 = Day(y + 1, 1, 1)
<1>1. MonthLength(y, 12) = 31
  BY LengthsTable
<1>2. EndOfMonth(y, 12) = Day(y, 12, 31)
  BY <1>1 DEF EndOfMonth
<1>3. 12 \in 1 .. 12
  OBVIOUS
<1> QED
  BY <1>2, <1>3, MonthEnds

\* What ends before the last year of the calendar does ends in a year that has
\* a next one.
LEMMA HasNextYear ==
  ASSUME NEW y, NEW m, NEW d, IsDate(y, m, d), Day(y, m, d) < Day(9999, 1, 1)
  PROVE  CalendarYear(y + 1)
<1>1. /\ y \in 1 .. 9999 /\ m \in 1 .. 12 /\ d \in Nat /\ 1 <= d /\ Day(y, m, d) \in Int
  BY DateIs
<1>2. Day(9999, 1, 1) \in Int
  <2>1. Day(9999, 1, 1) = Before(9999) + 1
    BY NewYearIs
  <2> QED
    BY <2>1, BeforeIs
<1>3. CASE y = 9999
  <2>1. IsDate(9999, 1, 1)
    <3>1. MonthLength(9999, 1) = 31
      BY LengthsTable
    <3> QED
      BY <3>1 DEF IsDate
  <2>2. 9999 < y \/ (9999 = y /\ 1 < m) \/ (9999 = y /\ 1 = m /\ 1 <= d)
    BY <1>1, <1>3
  <2>3. Day(9999, 1, 1) <= Day(y, m, d)
    BY <2>1, <2>2, DaysFollow
  <2> QED
    BY <1>1, <1>2, <2>3
<1>4. CASE y # 9999
  BY <1>1, <1>4 DEF CalendarYear
<1> QED
  BY <1>3, <1>4

\* The year and the month of the last day of a month.
LEMMA EndOfMonthIs ==
  ASSUME NEW y \in Int, 1 <= y, NEW m \in 1 .. 12, NEW n, n = EndOfMonth(y, m)
  PROVE  YearOf(n) = y /\ MonthOf(n) = m
<1>1. PICK d : d = MonthLength(y, m)
  OBVIOUS
<1>2. PICK s : s = Start(y, m)
  OBVIOUS
<1>3. PICK b : b = Before(y)
  OBVIOUS
<1>4. s \in Nat /\ d \in 28 .. 31 /\ s + d <= 365 + LeapDay(y) /\ LeapDay(y) \in 0 .. 1
  BY <1>1, <1>2, MonthIs, LeapDayIs DEF MonthIsOf
<1>5. b \in Int /\ 0 <= b
  <2>1. Before(1) + 365 * (y - 1) <= b
    BY <1>3, BeforeGrows
  <2> QED
    BY <1>3, <2>1, BeforeIs, EndsOfCalendar
<1>6. n = b + s + d
  <2>1. d \in Int
    BY <1>4
  <2>2. Day(y, m, d) = b + s + d
    BY <1>2, <1>3, <2>1, DayIs
  <2> QED
    BY <1>1, <2>2 DEF EndOfMonth
<1>7. n \in Int /\ 1 <= n
  BY <1>4, <1>5, <1>6
<1>8. InYear(y, n)
  <2>1. Before(y + 1) = b + 365 + LeapDay(y)
    BY <1>3, NextYear
  <2> QED
    BY <1>3, <1>4, <1>5, <1>6, <2>1 DEF InYear
<1>9. PICK z : z = YearOf(n)
  OBVIOUS
<1>10. z \in Int /\ InYear(z, n)
  BY <1>7, <1>9, YearOfIs
<1>11. z = y
  <2>1. /\ Before(y) \in Int /\ Before(y + 1) \in Int /\ Before(z) \in Int /\ Before(z + 1) \in Int
        /\ Before(y) < n /\ n <= Before(y + 1) /\ Before(z) < n /\ n <= Before(z + 1)
    BY <1>8, <1>10, BeforeIs DEF InYear
  <2>2. CASE y < z
    <3>1. Before(y + 1) + 365 * (z - (y + 1)) <= Before(z)
      BY <1>10, <2>2, BeforeGrows
    <3> QED
      BY <1>7, <1>10, <2>1, <2>2, <3>1
  <2>3. CASE z < y
    <3>1. Before(z + 1) + 365 * (y - (z + 1)) <= Before(y)
      BY <1>10, <2>3, BeforeGrows
    <3> QED
      BY <1>7, <1>10, <2>1, <2>3, <3>1
  <2> QED
    BY <1>10, <2>2, <2>3
<1>12. PICK k : k = MonthOf(n)
  OBVIOUS
<1>13. k \in 1 .. 12 /\ InMonth(y, k, n)
  BY <1>7, <1>9, <1>11, <1>12, MonthOfIs
<1>14. k = m
  <2>1. PICK e, f : e = Start(y, k) /\ f = MonthLength(y, k)
    OBVIOUS
  <2>2. e \in Nat /\ f \in 28 .. 31
    BY <1>13, <2>1, MonthIs DEF MonthIsOf
  <2>3. b + e < n /\ n <= b + e + f
    BY <1>3, <1>13, <2>1 DEF InMonth
  <2>4. CASE k < m
    <3>1. e + f <= s
      BY <1>2, <1>13, <2>1, <2>4, MonthsFollow
    <3> QED
      BY <1>4, <1>5, <1>6, <2>2, <2>3, <3>1
  <2>5. CASE m < k
    <3>1. s + d <= e
      BY <1>1, <1>2, <1>13, <2>1, <2>5, MonthsFollow
    <3> QED
      BY <1>4, <1>5, <1>6, <2>2, <2>3, <3>1
  <2> QED
    BY <1>13, <2>4, <2>5
<1> QED
  BY <1>9, <1>11, <1>12, <1>14

=============================================================================

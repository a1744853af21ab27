--------------------------- MODULE ImageFormProofs ---------------------------
(***************************************************************************)
(* Proofs about Dates and ImageForm, for any texts (of years from 1000),   *)
(* photos, times and places: reading a date again changes nothing, so an   *)
(* untouched form changes nothing, and the time of day survives.           *)
(***************************************************************************)
EXTENDS ImageForm, DatesProofs

----------------------------------------------------------------------------
(* The row *)

\* The columns of the image, and those of its capture time.
Shape ==
  /\ row = [display |-> row.display, earliest |-> row.earliest, latest |-> row.latest,
            precision |-> row.precision, capture |-> row.capture, place |-> row.place,
            coords |-> row.coords, flags |-> row.flags]
  /\ row.capture = [day |-> row.capture.day, time |-> row.capture.time,
                    offset |-> row.capture.offset]

\* An image without a text has no period, and one without a time no capture.
Missing ==
  /\ row.display = NoText => row.earliest = None /\ row.latest = None /\ row.precision = ""
  /\ row.capture.time = None => row.capture = NoCapture

\* A date that is there can be read, as a period of the calendar.
Readable == row.display # NoText => Parse(row.display) # Failure

\* It is shown as a text that could have been typed, or as a date with a time is.
Wording(t) == IsText(t) \/ t.shape = "a-b-c"

Dated == row.display # NoText => Proper(Parse(row.display)) /\ Wording(row.display)

\* A time of day that is there has a day, and an offset.
Clocked(c) == c.day \in Int /\ c.time \in 0 .. 23 /\ c.offset \in Int

Timed == row.capture = NoCapture \/ Clocked(row.capture)

\* The place, the coordinates and the open questions.
Kinds(place, coords, flags) ==
  place \in Places \cup {None} /\ coords \in BOOLEAN /\ flags \subseteq Flags

Placed == Kinds(row.place, row.coords, row.flags)

\* The time that is stored is the one chosen last.
TimeIsStored == TimeOf(row.capture) = chosen

FormIInv ==
  Shape /\ Missing /\ Readable /\ Dated /\ Timed /\ Placed /\ PeriodIsRead /\ TimeIsStored

\* A row with a period p, and a capture c.
RowOf(p, c, place, coords, flags) ==
  [display |-> p.display, earliest |-> p.earliest, latest |-> p.latest,
   precision |-> p.precision, capture |-> c, place |-> place, coords |-> coords,
   flags |-> flags]

LEMMA RowOfIs ==
  ASSUME NEW p, NEW c, NEW place, NEW coords, NEW flags,
         NEW r, r = RowOf(p, c, place, coords, flags)
  PROVE  /\ r.display = p.display /\ r.earliest = p.earliest /\ r.latest = p.latest
         /\ r.precision = p.precision /\ r.capture = c /\ r.place = place
         /\ r.coords = coords /\ r.flags = flags
         /\ r = [display |-> r.display, earliest |-> r.earliest, latest |-> r.latest,
                 precision |-> r.precision, capture |-> r.capture, place |-> r.place,
                 coords |-> r.coords, flags |-> r.flags]
BY DEF RowOf

\* The period a text stands for, if there is one.
Read(text) == IF text = NoText THEN Period(None, None, "", NoText) ELSE Parse(text)

LEMMA WithDateIs ==
  ASSUME Shape, NEW text
  PROVE  WithDate(row, text) = RowOf(Read(text), row.capture, row.place, row.coords, row.flags)
<1>1. PICK p : p = Read(text)
  OBVIOUS
<1>2. WithDate(row, text) = WithPeriod(row, p)
  BY <1>1 DEF WithDate, Read
<1>3. PICK r : r = WithPeriod(row, p)
  OBVIOUS
<1>4. r = [display |-> p.display, earliest |-> p.earliest, latest |-> p.latest,
           precision |-> p.precision, capture |-> row.capture, place |-> row.place,
           coords |-> row.coords, flags |-> row.flags]
  BY <1>3 DEF Shape, WithPeriod
<1>5. r = RowOf(p, row.capture, row.place, row.coords, row.flags)
  BY <1>4 DEF RowOf
<1> QED
  BY <1>1, <1>2, <1>3, <1>5

LEMMA SavedIs ==
  ASSUME Shape, NEW form, form.display = NoText \/ Parse(form.display) # Failure,
         NEW c, c = IF form.time = None THEN row.capture ELSE CaptureWithTime(row, form.time)
  PROVE  Saved(row, form) = RowOf(Read(form.display), c, form.place, row.coords,
                                  (row.flags \cup form.ticked) \ form.cleared)
<1>1. PICK d : d = WithDate(row, form.display)
  OBVIOUS
<1>2. d = RowOf(Read(form.display), row.capture, row.place, row.coords, row.flags)
  BY <1>1, WithDateIs
<1>3. Saved(row, form) = [d EXCEPT !.capture = c, !.place = form.place,
                                   !.flags = (row.flags \cup form.ticked) \ form.cleared]
  BY <1>1 DEF Saved
<1> QED
  BY <1>2, <1>3 DEF RowOf

\* A text that cannot be read saves nothing.
LEMMA RefusedIs ==
  ASSUME NEW form, form.display # NoText, Parse(form.display) = Failure
  PROVE  Saved(row, form) = row
BY DEF Saved

----------------------------------------------------------------------------
(* What a row must be made of *)

Good(p) ==
  /\ p.display = NoText => p.earliest = None /\ p.latest = None /\ p.precision = ""
  /\ p.display # NoText =>
       /\ Parse(p.display) # Failure
       /\ Parse(p.display) = Period(p.earliest, p.latest, p.precision, p.display)
       /\ Proper(Parse(p.display)) /\ Wording(p.display)

IsCapture(c) ==
  /\ c = [day |-> c.day, time |-> c.time, offset |-> c.offset]
  /\ c.time = None => c = NoCapture
  /\ c = NoCapture \/ Clocked(c)

\* A text that is read as a period, or not at all.
Legible(text) ==
  /\ Stable(text)
  /\ Parse(text) # Failure => Proper(Parse(text)) /\ Wording(Parse(text).display)

LEMMA TextIsLegible ==
  ASSUME NEW t, IsText(t)
  PROVE  Legible(t)
BY ParseIsStable, ParseIsProper, ParsedIsText DEF Legible, Wording

LEMMA BlankFails == Parse(NoText) = Failure
<1>1. NoText.shape = ""
  BY DEF NoText, Text
<1> QED
  BY <1>1 DEF Parse

LEMMA ReadIsGood ==
  ASSUME NEW text, text = NoText \/ (Legible(text) /\ Parse(text) # Failure),
         NEW p, p = Read(text)
  PROVE  Good(p)
<1>1. CASE text = NoText
  BY <1>1 DEF Read, Period, Good
<1>2. CASE text # NoText
  <2>1. p = Parse(text) /\ p # Failure
    BY <1>2 DEF Read
  <2>2. Parse(p.display) = p
    BY <1>2, <2>1 DEF Legible, Stable
  <2>3. p.display # NoText
    BY <2>1, <2>2, BlankFails
  <2>4. p = Period(p.earliest, p.latest, p.precision, p.display)
    BY <2>1, ParsedIs
  <2>5. Proper(p) /\ Wording(p.display)
    BY <1>2, <2>1 DEF Legible
  <2> QED
    BY <2>1, <2>2, <2>3, <2>4, <2>5 DEF Good
<1> QED
  BY <1>1, <1>2

\* What the form shows as the date is read as it was.
LEMMA ShownIs ==
  ASSUME Missing, Readable, Dated, PeriodIsRead, NEW p, p = Read(row.display)
  PROVE  /\ p = Period(row.earliest, row.latest, row.precision, row.display)
         /\ row.display = NoText \/ (Legible(row.display) /\ Parse(row.display) # Failure)
<1>1. CASE row.display = NoText
  BY <1>1 DEF Missing, Read
<1>2. CASE row.display # NoText
  <2>1. p = Parse(row.display) /\ p = Period(row.earliest, row.latest, row.precision, row.display)
    BY <1>2 DEF PeriodIsRead, Read
  <2>2. p.display = row.display
    BY <2>1, PeriodIs
  <2>3. Stable(row.display)
    BY <2>1, <2>2, KeptIsStable
  <2> QED
    BY <1>2, <2>1, <2>2, <2>3 DEF Readable, Dated, Legible
<1> QED
  BY <1>1, <1>2

\* The day in the middle of a period.
LEMMA RepresentativeIs ==
  ASSUME FormIInv
  PROVE  /\ row.display = NoText <=> Representative(row) = None
         /\ row.display = NoText <=> row.earliest = None
         /\ row.display = NoText <=> row.latest = None
         /\ Representative(row) # None =>
              /\ Representative(row) \in Int /\ row.earliest <= row.latest
              /\ row.earliest <= Representative(row) /\ Representative(row) <= row.latest
              /\ FirstDay <= row.earliest /\ row.latest <= LastDay
              /\ row.earliest \in Int /\ row.latest \in Int /\ row.precision \in Precisions
<1>1. CASE row.display = NoText
  <2>1. row.earliest = None /\ row.latest = None /\ Representative(row) = None
    BY <1>1 DEF FormIInv, Missing, Representative
  <2> QED
    BY <1>1, <2>1
<1>2. CASE row.display # NoText
  <2>1. Proper(Period(row.earliest, row.latest, row.precision, row.display))
    BY <1>2 DEF FormIInv, Dated, PeriodIsRead
  <2>2. PICK a, b : a = row.earliest /\ b = row.latest
    OBVIOUS
  <2>3. /\ a \in Int /\ b \in Int /\ FirstDay <= a /\ a <= b /\ b <= LastDay
        /\ row.precision \in Precisions
    BY <2>1, <2>2, PeriodIs DEF Proper
  <2>4. a # None /\ b # None
    BY <2>3, NoneAssumption
  <2>5. PICK n : n = a + (b - a) \div 2
    OBVIOUS
  <2>6. n \in Int /\ a <= n /\ n <= b
    BY <2>3, <2>5
  <2>7. Representative(row) = n
    BY <2>2, <2>4, <2>5 DEF Representative
  <2>8. n # None
    BY <2>6, NoneAssumption
  <2> QED
    BY <1>2, <2>2, <2>3, <2>4, <2>6, <2>7, <2>8
<1> QED
  BY <1>1, <1>2

LEMMA CaptureWithTimeIs ==
  ASSUME FormIInv, NEW time \in 0 .. 23, row.capture # NoCapture,
         NEW c, c = CaptureWithTime(row, time)
  PROVE  /\ IsCapture(c)
         /\ Representative(row) # None => c.time = time /\ c.offset = row.capture.offset
<1>1. CASE Representative(row) = None
  <2>1. c = NoCapture
    BY <1>1 DEF CaptureWithTime
  <2> QED
    BY <1>1, <2>1 DEF IsCapture, NoCapture
<1>2. CASE Representative(row) # None
  <2>1. c = [day |-> Representative(row), time |-> time, offset |-> row.capture.offset]
    BY <1>2 DEF CaptureWithTime
  <2>2. c.day = Representative(row) /\ c.time = time /\ c.offset = row.capture.offset
        /\ c = [day |-> c.day, time |-> c.time, offset |-> c.offset]
    BY <2>1
  <2>3. time # None
    BY NoneAssumption
  <2>4. Representative(row) \in Int
    BY <1>2, RepresentativeIs
  <2>5. row.capture.offset \in Int
    BY DEF FormIInv, Timed, Clocked
  <2> QED
    BY <2>2, <2>3, <2>4, <2>5 DEF IsCapture, Clocked
<1> QED
  BY <1>1, <1>2

\* The time that is shown, if there is one, is the one that is stored.
LEMMA EffectiveIs ==
  ASSUME NEW e, e = Effective(row), e.time # None
  PROVE  /\ Representative(row) # None /\ row.capture # NoCapture
         /\ e = [day |-> Representative(row), time |-> row.capture.time,
                 offset |-> row.capture.offset]
BY DEF Effective, NoCapture

LEMMA KeptTime ==
  ASSUME FormIInv, NEW time, time = Effective(row).time,
         NEW c, c = IF time = None THEN row.capture ELSE CaptureWithTime(row, time)
  PROVE  IsCapture(c) /\ TimeOf(c) = TimeOf(row.capture)
<1>1. CASE time = None
  BY <1>1 DEF FormIInv, Shape, Missing, Timed, IsCapture
<1>2. CASE time # None
  <2>1. Representative(row) # None /\ row.capture # NoCapture /\ time = row.capture.time
    BY <1>2, EffectiveIs
  <2>2. time \in 0 .. 23
    BY <2>1 DEF FormIInv, Timed, Clocked
  <2>3. IsCapture(c) /\ c.time = row.capture.time /\ c.offset = row.capture.offset
    BY <1>2, <2>1, <2>2, CaptureWithTimeIs
  <2> QED
    BY <2>3 DEF TimeOf
<1> QED
  BY <1>1, <1>2

\* The local time of a photo is a time of a day.
LEMMA LocalIs ==
  ASSUME NEW photo, photo.instant \in Int, photo.zone \in Int \cup {None},
         NEW n, n = Local(photo)
  PROVE  n \in Int /\ n \div 24 \in Int /\ n % 24 \in 0 .. 23
<1>1. n \in Int
  BY DEF Local
<1> QED
  BY <1>1

LEMMA PhotoCaptureIs ==
  ASSUME NEW photo \in Photos
  PROVE  IsCapture(PhotoCapture(photo))
<1>1. CASE photo.instant = None
  BY <1>1 DEF PhotoCapture, IsCapture, NoCapture
<1>2. CASE photo.instant # None
  <2>1. photo.instant \in Int /\ photo.zone \in Int \cup {None}
    BY <1>2, PhotosAssumption
  <2>2. PICK n : n = Local(photo)
    OBVIOUS
  <2>3. PICK z : z = IF photo.zone = None THEN 0 ELSE photo.zone
    OBVIOUS
  <2>4. n \div 24 \in Int /\ n % 24 \in 0 .. 23
    BY <2>1, <2>2, LocalIs
  <2>5. z \in Int
    BY <2>1, <2>3
  <2>6. n % 24 # None
    BY <2>4, NoneAssumption
  <2>7. PICK c : c = PhotoCapture(photo)
    OBVIOUS
  <2>8. c = [day |-> n \div 24, time |-> n % 24, offset |-> z]
    BY <1>2, <2>2, <2>3, <2>7 DEF PhotoCapture, LocalCapture, LocalDay
  <2>9. c.day = n \div 24 /\ c.time = n % 24 /\ c.offset = z
        /\ c = [day |-> c.day, time |-> c.time, offset |-> c.offset]
    BY <2>8
  <2> QED
    BY <2>4, <2>5, <2>6, <2>7, <2>9 DEF IsCapture, Clocked
<1> QED
  BY <1>1, <1>2

LEMMA PhotoDateIsLegible ==
  ASSUME NEW photo \in Photos, PhotoDate(photo) # NoText
  PROVE  Legible(PhotoDate(photo))
<1>1. CASE photo.instant = None
  <2>1. PhotoDate(photo) = photo.date /\ IsText(photo.date)
    BY <1>1, PhotosAssumption DEF PhotoDate
  <2> QED
    BY <2>1, TextIsLegible
<1>2. CASE photo.instant # None
  <2>1. PICK t : t = PhotoDate(photo)
    OBVIOUS
  <2>2. t.shape = "a-b-c"
    BY <1>2, <2>1 DEF PhotoDate, IsoText, Text
  <2>3. Parse(t) = ExactIso(t)
    BY <2>2 DEF Parse
  <2>4. ExactIso(t) # Failure => ExactIso(t).display = t
    BY ExactIs DEF ExactIso
  <2>5. Stable(t)
    BY <2>3, <2>4, KeptIsStable
  <2>6. Parse(t) # Failure => Proper(Parse(t)) /\ Parse(t).display = t
    BY <2>2, <2>3, <2>4, IsoIsProper
  <2> QED
    BY <2>1, <2>2, <2>5, <2>6 DEF Legible, Wording
<1> QED
  BY <1>1, <1>2

----------------------------------------------------------------------------
(* Every step *)

\* A step that writes a good row keeps the invariant.
LEMMA GoodRow ==
  ASSUME NEW p, Good(p), NEW c, IsCapture(c),
         NEW place, NEW coords, NEW flags, Kinds(place, coords, flags),
         row' = RowOf(p, c, place, coords, flags), chosen' = TimeOf(c)
  PROVE  FormIInv'
<1>1. /\ row'.display = p.display /\ row'.earliest = p.earliest /\ row'.latest = p.latest
      /\ row'.precision = p.precision /\ row'.capture = c
      /\ row' = [display |-> row'.display, earliest |-> row'.earliest, latest |-> row'.latest,
                 precision |-> row'.precision, capture |-> row'.capture, place |-> row'.place,
                 coords |-> row'.coords, flags |-> row'.flags]
  BY RowOfIs
<1>2. Shape'
  BY <1>1 DEF Shape, IsCapture
<1>3. Missing'
  BY <1>1 DEF Missing, Good, IsCapture
<1>4. Readable' /\ Dated' /\ PeriodIsRead'
  BY <1>1 DEF Readable, Dated, PeriodIsRead, Good
<1>5. Timed' /\ Placed'
  <2>1. row'.capture = NoCapture \/ Clocked(row'.capture)
    BY <1>1 DEF IsCapture
  <2>2. Kinds(row'.place, row'.coords, row'.flags)
    <3>1. row'.place = place /\ row'.coords = coords /\ row'.flags = flags
      BY RowOfIs
    <3> QED
      BY <3>1
  <2> QED
    BY <2>1, <2>2 DEF Timed, Placed, NoCapture, Clocked, Kinds
<1>6. TimeIsStored'
  BY <1>1 DEF TimeIsStored
<1> QED
  BY <1>2, <1>3, <1>4, <1>5, <1>6 DEF FormIInv

\* Saving the form as it is shown, but for the text and what concerns neither
\* the date nor the time.
LEMMA SaveKeeps ==
  ASSUME FormIInv, NEW text, text = NoText \/ Legible(text),
         NEW form, form.display = text, form.time = Effective(row).time,
         form.place \in Places \cup {None}, form.ticked \subseteq Flags,
         Save(form), chosen' = chosen
  PROVE  FormIInv'
<1> USE DEF FormIInv
<1>1. CASE text # NoText /\ Parse(text) = Failure
  <2>1. row' = row
    BY <1>1, RefusedIs DEF Save
  <2> QED
    BY <2>1 DEF Shape, Missing, Readable, Dated, Timed, Placed, PeriodIsRead, TimeIsStored
<1>2. CASE text = NoText \/ Parse(text) # Failure
  <2>1. PICK c : c = IF form.time = None THEN row.capture ELSE CaptureWithTime(row, form.time)
    OBVIOUS
  <2>2. row' = RowOf(Read(text), c, form.place, row.coords,
                     (row.flags \cup form.ticked) \ form.cleared)
    BY <1>2, <2>1, SavedIs DEF Save
  <2>3. IsCapture(c) /\ TimeOf(c) = TimeOf(row.capture)
    BY <2>1, KeptTime
  <2>4. Good(Read(text))
    BY <1>2, ReadIsGood
  <2>5. chosen' = TimeOf(c)
    BY <2>3 DEF TimeIsStored
  <2>6. Kinds(form.place, row.coords, (row.flags \cup form.ticked) \ form.cleared)
    BY DEF Placed, Kinds
  <2> QED
    BY <2>2, <2>3, <2>4, <2>5, <2>6, GoodRow
<1> QED
  BY <1>1, <1>2

\* A row with these values.
Holds(r, p, c, place) ==
  \E coords, flags : Kinds(place, coords, flags) /\ r = RowOf(p, c, place, coords, flags)

LEMMA WithCoordsIs ==
  ASSUME NEW p, NEW c, NEW place, NEW coords, NEW flags, Kinds(place, coords, flags),
         NEW d, d = RowOf(p, c, place, coords, flags), NEW found,
         NEW r, r = IF found THEN [d EXCEPT !.coords = TRUE, !.flags = @ \ {"place_todo"}] ELSE d
  PROVE  Holds(r, p, c, place)
<1>1. CASE found
  <2>1. r = RowOf(p, c, place, TRUE, flags \ {"place_todo"})
    BY <1>1 DEF RowOf
  <2>2. Kinds(place, TRUE, flags \ {"place_todo"})
    BY DEF Kinds
  <2> QED
    BY <2>1, <2>2 DEF Holds
<1>2. CASE ~found
  BY <1>2 DEF Holds
<1> QED
  BY <1>1, <1>2

LEMMA FormNext ==
  ASSUME FormIInv, [Next]_vars
  PROVE  FormIInv'
<1> USE DEF FormIInv
<1>1. PICK shown : shown = Read(row.display)
  OBVIOUS
<1>2. /\ shown = Period(row.earliest, row.latest, row.precision, row.display)
      /\ row.display = NoText \/ (Legible(row.display) /\ Parse(row.display) # Failure)
  BY <1>1, ShownIs
<1>3. Good(shown)
  BY <1>1, <1>2, ReadIsGood
<1>4. shown.display = row.display /\ shown.earliest = row.earliest
      /\ shown.latest = row.latest /\ shown.precision = row.precision
  BY <1>2, PeriodIs
<1>5. IsCapture(row.capture) /\ chosen = TimeOf(row.capture)
  BY DEF Shape, Missing, Timed, IsCapture, TimeIsStored
<1>6. CASE UNCHANGED vars
  BY <1>6 DEF vars, Shape, Missing, Readable, Dated, Timed, Placed, PeriodIsRead, TimeIsStored
<1>7. ASSUME NEW text \in Texts \cup {NoText}, SaveDate(text)
      PROVE  FormIInv'
  <2>1. text = NoText \/ Legible(text)
    BY TextsAssumption, TextIsLegible
  <2>2. PICK form : form = [Rendered(row) EXCEPT !.display = text]
    OBVIOUS
  <2>3. /\ form.display = text /\ form.time = Effective(row).time
        /\ form.place \in Places \cup {None} /\ form.ticked \subseteq Flags
    BY <2>2 DEF Rendered, Placed, Kinds
  <2>4. Save(form) /\ chosen' = chosen
    BY <1>7, <2>2 DEF SaveDate
  <2> QED
    BY <2>1, <2>3, <2>4, SaveKeeps
<1>8. ASSUME NEW place \in Places \cup {None}, SavePlace(place)
      PROVE  FormIInv'
  <2>1. PICK form : form = [Rendered(row) EXCEPT !.place = place]
    OBVIOUS
  <2>2. /\ form.display = row.display /\ form.time = Effective(row).time
        /\ form.place \in Places \cup {None} /\ form.ticked \subseteq Flags
    BY <2>1 DEF Rendered, Placed, Kinds
  <2>3. Save(form) /\ chosen' = chosen
    BY <1>8, <2>1 DEF SavePlace
  <2> QED
    BY <1>2, <2>2, <2>3, SaveKeeps
<1>9. ASSUME NEW flag \in Flags, SaveFlag(flag)
      PROVE  FormIInv'
  <2>1. PICK form : form = IF flag \in row.flags THEN [Rendered(row) EXCEPT !.cleared = {flag}]
                           ELSE [Rendered(row) EXCEPT !.ticked = @ \cup {flag}]
    OBVIOUS
  <2>2. /\ form.display = row.display /\ form.time = Effective(row).time
        /\ form.place \in Places \cup {None} /\ form.ticked \subseteq Flags
    BY <2>1 DEF Rendered, Placed, Kinds
  <2>3. Save(form) /\ chosen' = chosen
    BY <1>9, <2>1 DEF SaveFlag
  <2> QED
    BY <1>2, <2>2, <2>3, SaveKeeps
<1>10. ASSUME NEW time \in Times \cup {None}, SaveTime(time)
       PROVE  FormIInv'
  <2>1. PICK form : form = [Rendered(row) EXCEPT !.time = time]
    OBVIOUS
  <2>2. /\ form.display = row.display /\ form.time = time
        /\ form.place = row.place /\ form.ticked = row.flags
    BY <2>1 DEF Rendered
  <2>3. Save(form) /\ Effective(row).time # None
        /\ chosen' = IF time = None THEN chosen ELSE [chosen EXCEPT !.time = time]
    BY <1>10, <2>1 DEF SaveTime, Rendered
  <2>4. PICK c : c = IF time = None THEN row.capture ELSE CaptureWithTime(row, time)
    OBVIOUS
  <2>5. row' = RowOf(shown, c, form.place, row.coords,
                     (row.flags \cup form.ticked) \ form.cleared)
    BY <1>1, <1>2, <2>2, <2>3, <2>4, SavedIs DEF Save
  <2>6. Kinds(form.place, row.coords, (row.flags \cup form.ticked) \ form.cleared)
    BY <2>2 DEF Placed, Kinds
  <2>7. CASE time = None
    <3>1. IsCapture(c) /\ chosen' = TimeOf(c)
      BY <1>5, <2>3, <2>4, <2>7
    <3> QED
      BY <1>3, <2>5, <2>6, <3>1, GoodRow
  <2>8. CASE time # None
    <3>1. Representative(row) # None /\ row.capture # NoCapture
      BY <2>3, EffectiveIs
    <3>2. time \in 0 .. 23 /\ c = CaptureWithTime(row, time)
      BY <2>2, <2>4, <2>8, TimesAssumption
    <3>3. IsCapture(c) /\ c.time = time /\ c.offset = row.capture.offset
      BY <3>1, <3>2, CaptureWithTimeIs
    <3>4. chosen' = TimeOf(c)
      BY <1>5, <2>3, <2>8, <3>3 DEF TimeOf
    <3> QED
      BY <1>3, <2>5, <2>6, <3>3, <3>4, GoodRow
  <2> QED
    BY <2>7, <2>8
<1>11. ASSUME NEW text \in Texts \cup {NoText}, WriteDate(text)
       PROVE  FormIInv'
  <2>1. text = NoText \/ (Legible(text) /\ Parse(text) # Failure)
    BY <1>11, TextsAssumption, TextIsLegible DEF WriteDate
  <2>2. Good(Read(text))
    BY <2>1, ReadIsGood
  <2>3. /\ row' = RowOf(Read(text), row.capture, row.place, row.coords, row.flags)
        /\ chosen' = chosen
    BY <1>11, WithDateIs DEF WriteDate
  <2> QED
    BY <1>5, <2>2, <2>3, GoodRow DEF Placed
<1>12. CASE ClearTodos
  <2>1. row' = RowOf(shown, row.capture, row.place, row.coords, {}) /\ chosen' = chosen
    BY <1>4, <1>12 DEF ClearTodos, Shape, RowOf
  <2>2. Kinds(row.place, row.coords, {})
    BY DEF Placed, Kinds
  <2> QED
    BY <1>3, <1>5, <2>1, <2>2, GoodRow
<1>13. CASE ClearCoords
  <2>1. row' = RowOf(shown, row.capture, row.place, FALSE, row.flags) /\ chosen' = chosen
    BY <1>4, <1>13 DEF ClearCoords, Shape, RowOf
  <2>2. Kinds(row.place, FALSE, row.flags)
    BY DEF Placed, Kinds
  <2> QED
    BY <1>3, <1>5, <2>1, <2>2, GoodRow
<1>14. ASSUME NEW photo \in Photos, Pull(photo)
       PROVE  FormIInv'
  <2>1. PICK d : d = IF PhotoDate(photo) = NoText THEN row
                     ELSE [WithDate(row, PhotoDate(photo)) EXCEPT
                             !.flags = @ \ {"date_todo"}, !.capture = PhotoCapture(photo)]
    OBVIOUS
  <2>2. row' = IF photo.coords THEN [d EXCEPT !.coords = TRUE, !.flags = @ \ {"place_todo"}]
               ELSE d
    BY <1>14, <2>1 DEF Pull, Pulled
  <2>3. CASE PhotoDate(photo) = NoText
    <3>1. d = RowOf(shown, row.capture, row.place, row.coords, row.flags)
      BY <1>4, <2>1, <2>3 DEF Shape, RowOf
    <3>2. Holds(row', shown, row.capture, row.place)
      BY <2>2, <3>1, WithCoordsIs DEF Placed
    <3>3. chosen' = chosen
      BY <1>14, <2>3 DEF Pull
    <3>4. PICK coords, flags : /\ Kinds(row.place, coords, flags)
                               /\ row' = RowOf(shown, row.capture, row.place, coords, flags)
      BY <3>2 DEF Holds
    <3> QED
      BY <1>3, <1>5, <3>3, <3>4, GoodRow
  <2>4. CASE PhotoDate(photo) # NoText
    <3>1. PICK w : w = WithDate(row, PhotoDate(photo))
      OBVIOUS
    <3>2. w = RowOf(Read(PhotoDate(photo)), row.capture, row.place, row.coords, row.flags)
      BY <3>1, WithDateIs
    <3>3. d = [w EXCEPT !.flags = @ \ {"date_todo"}, !.capture = PhotoCapture(photo)]
      BY <2>1, <2>4, <3>1
    <3>4. d = RowOf(Read(PhotoDate(photo)), PhotoCapture(photo), row.place, row.coords,
                    row.flags \ {"date_todo"})
      BY <3>2, <3>3 DEF RowOf
    <3>5. PICK coords, flags : /\ Kinds(row.place, coords, flags)
                               /\ row' = RowOf(Read(PhotoDate(photo)), PhotoCapture(photo),
                                               row.place, coords, flags)
      <4>1. Kinds(row.place, row.coords, row.flags \ {"date_todo"})
        BY DEF Placed, Kinds
      <4>2. Holds(row', Read(PhotoDate(photo)), PhotoCapture(photo), row.place)
        BY <2>2, <3>4, <4>1, WithCoordsIs
      <4> QED
        BY <4>2 DEF Holds
    <3>6. Legible(PhotoDate(photo)) /\ Parse(PhotoDate(photo)) # Failure
      BY <1>14, <2>4, PhotoDateIsLegible DEF Pull, Usable
    <3>7. Good(Read(PhotoDate(photo)))
      BY <3>6, ReadIsGood
    <3>8. IsCapture(PhotoCapture(photo)) /\ chosen' = TimeOf(PhotoCapture(photo))
      BY <1>14, <2>4, PhotoCaptureIs DEF Pull
    <3> QED
      BY <3>5, <3>7, <3>8, GoodRow
  <2> QED
    BY <2>3, <2>4
<1> QED
  BY <1>6, <1>7, <1>8, <1>9, <1>10, <1>11, <1>12, <1>13, <1>14 DEF Next

----------------------------------------------------------------------------
LEMMA FormInit ==
  ASSUME Init
  PROVE  FormIInv
<1>1. PICK p : p = Period(None, None, "", NoText)
  OBVIOUS
<1>2. row = RowOf(p, NoCapture, None, FALSE, {})
  <2>1. p.display = NoText /\ p.earliest = None /\ p.latest = None /\ p.precision = ""
    BY <1>1 DEF Period
  <2>2. row = NewRow
    BY DEF Init
  <2> QED
    BY <2>1, <2>2 DEF NewRow, RowOf
<1>3. p.display = NoText /\ p.earliest = None /\ p.latest = None /\ p.precision = ""
  BY <1>1 DEF Period
<1>4. /\ row.display = NoText /\ row.earliest = None /\ row.latest = None /\ row.precision = ""
      /\ row.capture = NoCapture
      /\ row = [display |-> row.display, earliest |-> row.earliest, latest |-> row.latest,
                precision |-> row.precision, capture |-> row.capture, place |-> row.place,
                coords |-> row.coords, flags |-> row.flags]
  BY <1>2, <1>3 DEF RowOf
<1>5. Shape
  BY <1>4 DEF Shape, NoCapture
<1>6. Missing /\ Readable /\ Dated /\ Timed /\ PeriodIsRead
  BY <1>4 DEF Missing, Readable, Dated, Timed, PeriodIsRead
<1>7. TimeIsStored
  BY <1>4 DEF Init, TimeIsStored
<1>8. Placed
  <2>1. row.place = None /\ row.coords = FALSE /\ row.flags = {}
    BY <1>2 DEF RowOf
  <2> QED
    BY <2>1 DEF Placed, Kinds
<1> QED
  BY <1>5, <1>6, <1>7, <1>8 DEF FormIInv

\* Every row is well formed, and its date reads as the period it has.
THEOREM FormCorrect == Spec => []FormIInv
BY FormInit, FormNext, PTL DEF Spec

\* The period of every image is what its date, as it is shown, is read as.
THEOREM ReadCorrect == Spec => []PeriodIsRead
BY FormCorrect, PTL DEF FormIInv

LEMMA ExportedTime ==
  ASSUME FormIInv
  PROVE  TimeIsKept
<1>1. TimeOf(row.capture) = chosen
  BY DEF FormIInv, TimeIsStored
<1>2. ASSUME row.earliest # None, chosen # TimeOf(NoCapture)
      PROVE  TimeOf(Exif(row)) = chosen
  <2>1. row.capture # NoCapture
    BY <1>1, <1>2
  <2>2. Representative(row) # None
    BY <1>2, RepresentativeIs
  <2>3. PICK e : e = Effective(row)
    OBVIOUS
  <2>4. e = [day |-> Representative(row), time |-> row.capture.time,
             offset |-> row.capture.offset]
    BY <2>1, <2>2, <2>3 DEF Effective
  <2>5. e.time = row.capture.time /\ e.offset = row.capture.offset
    BY <2>4
  <2>6. row.capture.time \in 0 .. 23
    BY <2>1 DEF FormIInv, Timed, Clocked
  <2>7. e # NoCapture
    BY <2>5, <2>6, NoneAssumption DEF NoCapture
  <2>8. Exif(row) = e
    BY <2>3, <2>7 DEF Exif
  <2> QED
    BY <1>1, <2>5, <2>8 DEF TimeOf
<1> QED
  BY <1>1, <1>2 DEF TimeIsKept

\* The time of day and the offset that were chosen last survive every change
\* of the date, and are exported with whatever date there is.
THEOREM TimeCorrect == Spec => []TimeIsKept
BY FormCorrect, ExportedTime, PTL

LEMMA UntouchedLemma ==
  ASSUME FormIInv
  PROVE  UntouchedFormKeeps
<1> USE DEF FormIInv
<1>1. PICK shown : shown = Read(row.display)
  OBVIOUS
<1>2. /\ shown = Period(row.earliest, row.latest, row.precision, row.display)
      /\ row.display = NoText \/ Parse(row.display) # Failure
  BY <1>1, ShownIs
<1>3. shown.display = row.display /\ shown.earliest = row.earliest
      /\ shown.latest = row.latest /\ shown.precision = row.precision
  BY <1>2, PeriodIs
<1>4. PICK form : form = Rendered(row)
  OBVIOUS
<1>5. /\ form.display = row.display /\ form.time = Effective(row).time
      /\ form.place = row.place /\ form.ticked = row.flags /\ form.cleared = {}
  BY <1>4 DEF Rendered
<1>6. PICK c : c = IF form.time = None THEN row.capture ELSE CaptureWithTime(row, form.time)
  OBVIOUS
<1>7. PICK saved : saved = Saved(row, form)
  OBVIOUS
<1>8. saved = RowOf(shown, c, row.place, row.coords, row.flags)
  <2>1. (row.flags \cup form.ticked) \ form.cleared = row.flags
    BY <1>5
  <2>2. saved = RowOf(shown, c, form.place, row.coords,
                      (row.flags \cup form.ticked) \ form.cleared)
    BY <1>1, <1>2, <1>5, <1>6, <1>7, SavedIs
  <2> QED
    BY <1>5, <2>1, <2>2
<1>9. [saved EXCEPT !.capture = row.capture] = row
  BY <1>3, <1>8 DEF RowOf, Shape
<1>10. saved.earliest = row.earliest /\ saved.latest = row.latest /\ saved.capture = c
  BY <1>3, <1>8, RowOfIs
<1>11. Representative(saved) = Representative(row)
  BY <1>10 DEF Representative
<1>12. Effective(saved) = Effective(row)
  <2>1. CASE form.time = None
    BY <1>6, <1>10, <1>11, <2>1 DEF Effective
  <2>2. CASE form.time # None
    <3>1. /\ Representative(row) # None
          /\ Effective(row) = [day |-> Representative(row), time |-> row.capture.time,
                               offset |-> row.capture.offset]
      BY <1>5, <2>2, EffectiveIs
    <3>2. c = Effective(row) /\ c # NoCapture
      BY <1>5, <1>6, <2>2, <3>1 DEF CaptureWithTime, NoCapture
    <3> QED
      BY <1>10, <1>11, <3>1, <3>2 DEF Effective
  <2> QED
    BY <2>1, <2>2
<1>13. Exif(saved) = Exif(row)
  BY <1>11, <1>12 DEF Exif
<1> QED
  BY <1>4, <1>7, <1>9, <1>13 DEF UntouchedFormKeeps

\* A form that is sent as it is shown leaves the date, the exported time and
\* the open questions alone, in every state.
THEOREM UntouchedCorrect == Spec => []UntouchedFormKeeps
BY FormCorrect, UntouchedLemma, PTL

LEMMA TypeLemma ==
  ASSUME FormIInv
  PROVE  TypeOK
<1>1. \/ row.display = NoText /\ row.earliest = None /\ row.latest = None /\ row.precision = ""
      \/ /\ row.earliest \in Int /\ row.latest \in Int /\ row.earliest <= row.latest
         /\ row.precision \in Precisions
  <2>1. CASE row.display = NoText
    BY <2>1 DEF FormIInv, Missing
  <2>2. CASE row.display # NoText
    BY <2>2, RepresentativeIs
  <2> QED
    BY <2>1, <2>2
<1>2. row.capture = NoCapture \/ (row.capture.day \in Int /\ row.capture.time \in 0 .. 23)
  BY DEF FormIInv, Timed, Clocked
<1>3. row.place \in Places \cup {None} /\ row.coords \in BOOLEAN /\ row.flags \subseteq Flags
  BY DEF FormIInv, Placed, Kinds
<1> QED
  BY <1>1, <1>2, <1>3 DEF TypeOK

\* An image has no date at all or a period that does not end before it begins;
\* a time of day is one.
THEOREM TypeCorrect == Spec => []TypeOK
BY FormCorrect, TypeLemma, PTL

LEMMA DoneLemma ==
  ASSUME FormIInv
  PROVE  DoneAgrees
<1>1. /\ row.earliest = None <=> row.latest = None
      /\ row.earliest # None => Representative(row) # None
  BY RepresentativeIs, Zenon
<1>2. row.flags \subseteq Flags
  BY DEF FormIInv, Placed, Kinds
<1>3. IsDone(row) <=> ~AnyTodo(row)
  BY <1>1, <1>2 DEF IsDone, AnyTodo, Flags
<1>4. IsDone(row) => ~NeedsDate(row)
  BY <1>1 DEF IsDone, NeedsDate
<1> QED
  BY <1>3, <1>4 DEF DoneAgrees

\* The progress of a box, the filter for open questions and the date an upload
\* requires agree on what is finished, whatever has been saved.
THEOREM DoneCorrect == Spec => []DoneAgrees
BY FormCorrect, DoneLemma, PTL

----------------------------------------------------------------------------
(* An exported image that is linked as an Immich photo *)

\* A local time l: the instant that is h hours into day n, when the offset is z,
\* seen at another offset, where it is g hours into the day.
Clock(n, h, z, back, g, instant, l) ==
  /\ n \in Int /\ h \in Int /\ z \in Int /\ back \in Int
  /\ g = h - z + back /\ g \in 0 .. 23
  /\ instant = n * 24 + h - z /\ l = instant + back

LEMMA ClockIs ==
  ASSUME NEW n, NEW h, NEW z, NEW back, NEW g, NEW instant, NEW l,
         Clock(n, h, z, back, g, instant, l)
  PROVE  instant \in Int /\ l \div 24 = n /\ l % 24 = g
<1>1. n \in Int /\ l = 24 * n + g /\ g \in Int /\ 0 <= g /\ g <= 23 /\ instant \in Int
  BY DEF Clock
<1> QED
  BY <1>1

\* A photo that was taken at such a time.
Taken(n, h, z, zone, back, g, photo) ==
  /\ n \in Int /\ h \in Int /\ z \in Int /\ back \in Int
  /\ g = h - z + back /\ g \in 0 .. 23
  /\ back = IF zone = None THEN 0 ELSE zone
  /\ photo = Photo(n * 24 + h - z, zone, NoText, FALSE)

At(photo, day, time, offset) ==
  LocalCapture(photo) = [day |-> day, time |-> time, offset |-> offset]

LEMMA TakenIs ==
  ASSUME NEW n, NEW h, NEW z, NEW zone, NEW back, NEW g, NEW photo,
         Taken(n, h, z, zone, back, g, photo)
  PROVE  /\ photo.instant \in Int /\ photo.coords = FALSE
         /\ LocalDay(photo) = n /\ At(photo, n, g, back)
<1>1. PICK instant : instant = n * 24 + h - z
  OBVIOUS
<1>2. PICK l : l = instant + back
  OBVIOUS
<1>3. Clock(n, h, z, back, g, instant, l)
  BY <1>1, <1>2 DEF Taken, Clock
<1>4. instant \in Int /\ l \div 24 = n /\ l % 24 = g
  BY <1>3, ClockIs
<1>5. photo = Photo(instant, zone, NoText, FALSE)
  BY <1>1 DEF Taken
<1>6. photo.instant = instant /\ photo.zone = zone /\ photo.coords = FALSE
  BY <1>5 DEF Photo
<1>7. back = IF zone = None THEN 0 ELSE zone
  BY DEF Taken
<1>8. Local(photo) = l
  BY <1>2, <1>6, <1>7 DEF Local
<1>9. LocalDay(photo) = n
  BY <1>4, <1>8 DEF LocalDay
<1>10. At(photo, n, g, back)
  BY <1>4, <1>6, <1>7, <1>8, <1>9 DEF At, LocalCapture
<1> QED
  BY <1>4, <1>6, <1>9, <1>10

LEMMA RereadOf ==
  ASSUME NEW exif, NEW photo \in Reread(exif)
  PROVE  \/ /\ exif.offset # None
            /\ photo = Photo(exif.day * 24 + exif.time - exif.offset, exif.offset, NoText, FALSE)
         \/ /\ exif.offset = None
            /\ \E z, zone :
                 /\ z \in Offsets
                 /\ zone = None \/ zone = z
                 /\ photo = Photo(exif.day * 24 + exif.time - z, zone, NoText, FALSE)
<1> DEFINE Seen(z, zone) == Photo(exif.day * 24 + exif.time - z, zone, NoText, FALSE)
<1>1. PICK o : o = exif.offset
  OBVIOUS
<1>2. Reread(exif) = {Seen(z, zone) : z \in IF o = None THEN Offsets ELSE {o},
                                    zone \in IF o = None THEN {None} ELSE {o}}
                     \cup (IF o # None THEN {} ELSE {Seen(z, z) : z \in Offsets})
  BY <1>1 DEF Reread
<1>3. CASE o # None
  <2>1. photo = Seen(o, o)
    <3> HIDE DEF Seen
    <3> QED
      BY <1>2, <1>3
  <2> QED
    BY <1>1, <1>3, <2>1
<1>4. CASE o = None
  <2>1. \E z \in Offsets : \E zone : (zone = None \/ zone = z) /\ photo = Seen(z, zone)
    <3> HIDE DEF Seen
    <3>1. photo \in {Seen(z, zone) : z \in Offsets, zone \in {None}} \cup {Seen(z, z) : z \in Offsets}
      BY <1>2, <1>4
    <3> QED
      BY <3>1
  <2> QED
    BY <1>1, <1>4, <2>1
<1> QED
  BY <1>3, <1>4

\* What is known of the photo: its local day and time are those of the export,
\* where the time is one that was chosen or noon.
LEMMA RereadIs ==
  ASSUME NEW exif, exif.day \in Int,
         \/ exif.time \in 0 .. 23 /\ exif.offset \in Int
         \/ exif.time = 12 /\ exif.offset = None,
         NEW photo \in Reread(exif)
  PROVE  /\ photo.instant \in Int /\ photo.coords = FALSE
         /\ LocalDay(photo) = exif.day
         /\ exif.offset # None =>
              LocalCapture(photo) = [day |-> exif.day, time |-> exif.time, offset |-> exif.offset]
<1>1. PICK n, h, o : n = exif.day /\ h = exif.time /\ o = exif.offset
  OBVIOUS
<1>2. n \in Int /\ h \in Int /\ (o = None \/ o \in Int)
  BY <1>1
<1>3. CASE o # None
  <2>1. photo = Photo(n * 24 + h - o, o, NoText, FALSE)
    BY <1>1, <1>3, RereadOf, Zenon
  <2>2. o \in Int /\ h \in 0 .. 23
    BY <1>1, <1>3
  <2>3. h = h - o + o /\ o = IF o = None THEN 0 ELSE o
    BY <1>2, <1>3, <2>2
  <2>4. Taken(n, h, o, o, o, h, photo)
    BY <1>2, <2>1, <2>2, <2>3 DEF Taken
  <2>5. photo.instant \in Int /\ photo.coords = FALSE /\ LocalDay(photo) = n /\ At(photo, n, h, o)
    BY <2>4, TakenIs, Zenon
  <2> QED
    BY <1>1, <2>5, Zenon DEF At
<1>4. CASE o = None
  <2>1. PICK z, zone : /\ z \in Offsets
                       /\ zone = None \/ zone = z
                       /\ photo = Photo(n * 24 + h - z, zone, NoText, FALSE)
    <3>1. exif.offset = None
      BY <1>1, <1>4
    <3>2. \E z, zone :
             /\ z \in Offsets
             /\ zone = None \/ zone = z
             /\ photo = Photo(exif.day * 24 + exif.time - z, zone, NoText, FALSE)
      BY <3>1, RereadOf
    <3> QED
      BY <1>1, <3>2
  <2>2. h = 12
    BY <1>1, <1>4, NoneAssumption
  <2>3. z \in Int /\ -11 <= z /\ z <= 12
    BY <2>1, OffsetsAssumption
  <2>4. PICK back : back = IF zone = None THEN 0 ELSE zone
    OBVIOUS
  <2>5. back = 0 \/ back = z
    BY <2>1, <2>4
  <2>6. PICK g : g = h - z + back
    OBVIOUS
  <2>7. back \in Int /\ g \in 0 .. 23
    BY <2>2, <2>3, <2>5, <2>6
  <2>8. Taken(n, h, z, zone, back, g, photo)
    BY <1>2, <2>1, <2>3, <2>4, <2>6, <2>7 DEF Taken
  <2>9. photo.instant \in Int /\ photo.coords = FALSE /\ LocalDay(photo) = n
    BY <2>8, TakenIs, Zenon
  <2> QED
    BY <1>1, <1>4, <2>9, Zenon
<1> QED
  BY <1>3, <1>4

\* The time and the offset that are exported are those of the image, if it has
\* a time; otherwise it is noon, of no offset.
LEMMA ExifIs ==
  ASSUME FormIInv, Representative(row) # None, NEW exif, exif = Exif(row)
  PROVE  /\ exif.day = Representative(row) /\ exif.day \in Int
         /\ FirstDay <= exif.day /\ exif.day <= LastDay
         /\ \/ exif.time \in 0 .. 23 /\ exif.offset \in Int
            \/ exif.time = 12 /\ exif.offset = None
         /\ Effective(row) # NoCapture =>
              /\ exif = Effective(row) /\ exif.offset \in Int /\ exif.offset # None
              /\ exif = [day |-> exif.day, time |-> exif.time, offset |-> exif.offset]
<1>1. PICK n : n = Representative(row)
  OBVIOUS
<1>2. n \in Int /\ FirstDay <= n /\ n <= LastDay
  <2>1. PICK a, b : a = row.earliest /\ b = row.latest
    OBVIOUS
  <2>2. n \in Int /\ a \in Int /\ b \in Int /\ a <= n /\ n <= b /\ FirstDay <= a /\ b <= LastDay
    BY <1>1, <2>1, RepresentativeIs
  <2>3. FirstDay \in Int /\ LastDay \in Int
    BY EndsOfCalendar
  <2> QED
    BY <2>2, <2>3
<1>3. CASE Effective(row) = NoCapture
  <2>1. exif = [day |-> n, time |-> 12, offset |-> None]
    BY <1>1, <1>3 DEF Exif
  <2> QED
    BY <1>1, <1>2, <1>3, <2>1
<1>4. CASE Effective(row) # NoCapture
  <2>1. row.capture # NoCapture
    BY <1>4 DEF Effective
  <2>2. exif = Effective(row)
    BY <1>4 DEF Exif
  <2>3. exif = [day |-> n, time |-> row.capture.time, offset |-> row.capture.offset]
    BY <1>1, <1>4, <2>2 DEF Effective
  <2>4. row.capture.time \in 0 .. 23 /\ row.capture.offset \in Int
    BY <2>1 DEF FormIInv, Timed, Clocked
  <2>5. /\ exif.day = n /\ exif.time = row.capture.time /\ exif.offset = row.capture.offset
        /\ exif = [day |-> exif.day, time |-> exif.time, offset |-> exif.offset]
    BY <2>3
  <2>6. exif.time \in 0 .. 23 /\ exif.offset \in Int
    BY <2>4, <2>5
  <2>7. exif.offset # None
    BY <2>6, NoneAssumption
  <2> QED
    BY <1>1, <1>2, <2>2, <2>5, <2>6, <2>7
<1> QED
  BY <1>3, <1>4

\* An image that takes a photo of a day of the calendar has that day as its date.
LEMMA PulledIs ==
  ASSUME FormIInv, NEW photo, photo.instant \in Int, photo.coords = FALSE,
         NEW n, n = LocalDay(photo), n \in Int, FirstDay <= n, n <= LastDay,
         NEW pulled, pulled = Pulled(row, photo)
  PROVE  Representative(pulled) = n /\ pulled.capture = LocalCapture(photo)
<1>1. photo.instant # None
  BY NoneAssumption
<1>2. PICK t : t = IsoText(n)
  OBVIOUS
<1>3. t # NoText /\ Parse(t) = Period(n, n, "exact", t)
  BY <1>2, IsoIsRead
<1>4. PhotoDate(photo) = t /\ PhotoCapture(photo) = LocalCapture(photo)
  BY <1>1, <1>2 DEF PhotoDate, PhotoCapture
<1>5. PICK w : w = WithDate(row, t)
  OBVIOUS
<1>6. w = RowOf(Read(t), row.capture, row.place, row.coords, row.flags)
  BY <1>5, WithDateIs DEF FormIInv
<1>7. pulled = [w EXCEPT !.flags = @ \ {"date_todo"}, !.capture = LocalCapture(photo)]
  BY <1>3, <1>4, <1>5 DEF Pulled
<1>8. pulled = RowOf(Read(t), LocalCapture(photo), row.place, row.coords,
                     row.flags \ {"date_todo"})
  BY <1>6, <1>7 DEF RowOf
<1>9. pulled.earliest = n /\ pulled.latest = n
  <2>1. Read(t).earliest = n /\ Read(t).latest = n
    BY <1>3, PeriodIs DEF Read
  <2> QED
    BY <1>8, <2>1, RowOfIs
<1>10. pulled.capture = LocalCapture(photo)
  BY <1>8, RowOfIs
<1>11. n # None
  BY NoneAssumption
<1>12. n + (n - n) \div 2 = n
  OBVIOUS
<1>13. Representative(pulled) = n
  BY <1>9, <1>11, <1>12 DEF Representative
<1> QED
  BY <1>10, <1>13

LEMMA PulledBackLemma ==
  ASSUME FormIInv
  PROVE  PulledBack
<1> SUFFICES ASSUME row.earliest # None, NEW photo \in Reread(Exif(row)),
                    NEW pulled, pulled = Pulled(row, photo)
             PROVE  /\ Representative(pulled) = Representative(row)
                    /\ Effective(row) # NoCapture => Effective(pulled) = Effective(row)
  BY DEF PulledBack
<1>1. Representative(row) # None
  BY RepresentativeIs, Zenon
<1>2. PICK exif : exif = Exif(row)
  OBVIOUS
<1>3. /\ exif.day = Representative(row) /\ exif.day \in Int
      /\ FirstDay <= exif.day /\ exif.day <= LastDay
      /\ \/ exif.time \in 0 .. 23 /\ exif.offset \in Int
         \/ exif.time = 12 /\ exif.offset = None
      /\ Effective(row) # NoCapture =>
           /\ exif = Effective(row) /\ exif.offset # None
           /\ exif = [day |-> exif.day, time |-> exif.time, offset |-> exif.offset]
  BY <1>1, <1>2, ExifIs
<1>4. /\ photo.instant \in Int /\ photo.coords = FALSE
      /\ LocalDay(photo) = exif.day
      /\ exif.offset # None =>
           LocalCapture(photo) = [day |-> exif.day, time |-> exif.time, offset |-> exif.offset]
  BY <1>2, <1>3, RereadIs
<1>5. Representative(pulled) = exif.day /\ pulled.capture = LocalCapture(photo)
  <2>1. PICK n : n = LocalDay(photo)
    OBVIOUS
  <2>2. n = exif.day /\ n \in Int /\ FirstDay <= n /\ n <= LastDay
    BY <1>3, <1>4, <2>1
  <2>3. photo.instant \in Int /\ photo.coords = FALSE
    BY <1>4
  <2>4. Representative(pulled) = n /\ pulled.capture = LocalCapture(photo)
    BY <2>1, <2>2, <2>3, PulledIs
  <2> QED
    BY <2>2, <2>4
<1>6. ASSUME Effective(row) # NoCapture
      PROVE  Effective(pulled) = Effective(row)
  <2>1. pulled.capture = exif /\ exif = Effective(row) /\ exif # NoCapture
    BY <1>3, <1>4, <1>5, <1>6
  <2>2. Effective(pulled) = [day |-> exif.day, time |-> exif.time, offset |-> exif.offset]
    BY <1>1, <1>3, <1>5, <2>1 DEF Effective
  <2> QED
    BY <1>3, <1>6, <2>1, <2>2
<1> QED
  BY <1>3, <1>5, <1>6

\* The date of an exported image, and its time and offset if it has them, come
\* back with the photo of it, whatever offset the Immich server assumes.
THEOREM PulledBackCorrect == Spec => []PulledBack
BY FormCorrect, PulledBackLemma, PTL

----------------------------------------------------------------------------
(* Periods follow each other *)

Tiled(r) == Parse(Following(r)).earliest = r.latest + 1

\* The text of an image, its period, and the end of that.
Shows(r, t, p) ==
  /\ r.display = t /\ p = Parse(t) /\ p # Failure /\ p.display = t
  /\ r.latest = p.latest /\ r.precision = p.precision

LEMMA ExactTile ==
  ASSUME NEW r, r.precision = "exact", r.latest \in Int, FirstDay <= r.latest,
         r.latest < LastDay
  PROVE  Tiled(r)
<1>1. PICK n : n = r.latest + 1
  OBVIOUS
<1>2. n \in Int /\ FirstDay <= n /\ n <= LastDay
  BY <1>1, EndsOfCalendar
<1>3. Following(r) = IsoText(n)
  BY <1>1 DEF Following
<1>4. Parse(IsoText(n)) = Period(n, n, "exact", IsoText(n))
  BY <1>2, IsoIsRead
<1>5. Parse(Following(r)).earliest = n
  BY <1>3, <1>4, PeriodIs
<1> QED
  BY <1>1, <1>5 DEF Tiled

LEMMA WrittenAgain ==
  ASSUME NEW t, IsText(t), NEW k \in DOMAIN t.nums, NEW y, Rebuilt(t, k, y) = t
  PROVE  t.nums[k] = Written(y)
BY NumsAreFunction, RebuiltIs

LEMMA WrittenValue ==
  ASSUME NEW y, Typed(y), NEW n, n = Written(y)
  PROVE  n.value = y
<1>1. Full(y)
  BY DEF Typed, Full
<1> QED
  BY <1>1, WrittenIs DEF Number

\* The years between a text and the next one, which a season keeps.
Step(years) == years \in {0, 1, 10}

LEMMA Steps == Step(0) /\ Step(1) /\ Step(10)
BY DEF Step

LEMMA LaterYear ==
  ASSUME NEW y, Typed(y), NEW years, Step(years), NEW z, z = y + years,
         NEW n, n = Written(z)
  PROVE  IsYear(n) /\ ExpandYear(n) = z
<1>1. Full(z)
  BY DEF Typed, Full, Step
<1> QED
  BY <1>1, WrittenIs

\* A text of one year, which is written out.
OneYear(t, y) ==
  IsText(t) /\ t.shape \in Singles /\ y = ExpandYear(t.nums[1]) /\ Rebuilt(t, 1, y) = t

\* A text that is read as one about year z.
ReadsAs(q, shape, word, z) ==
  q.shape = shape /\ q.word = word /\ IsYear(q.nums[1]) /\ ExpandYear(q.nums[1]) = z

LEMMA OneYearIs ==
  ASSUME NEW t, NEW y, OneYear(t, y)
  PROVE  Typed(y) /\ t.nums[1].value = y /\ 1 \in DOMAIN t.nums
<1>1. t.nums[1] \in Numbers /\ 1 \in DOMAIN t.nums
  BY Parts DEF OneYear
<1>2. Typed(y)
  BY <1>1, YearIsTyped DEF OneYear
<1> QED
  BY <1>1, <1>2, WrittenAgain, WrittenValue DEF OneYear

\* The same text with a later year, and with another word.
LEMMA YearAfterIs ==
  ASSUME NEW t, NEW y, OneYear(t, y), NEW years, Step(years), NEW z, z = y + years,
         NEW q, q = YearAfter(t, years)
  PROVE  ReadsAs(q, t.shape, t.word, z)
         /\ \A word : ReadsAs([q EXCEPT !.word = word], t.shape, word, z)
<1>1. Typed(y) /\ t.nums[1].value = y /\ 1 \in DOMAIN t.nums
  BY OneYearIs
<1>2. PICK nums : nums = [k \in DOMAIN t.nums |-> Written(t.nums[k].value + years)]
  OBVIOUS
<1>3. nums[1] = Written(z)
  BY <1>1, <1>2
<1>4. t = [shape |-> t.shape, nums |-> t.nums, word |-> t.word]
  BY DEF OneYear, IsText
<1>5. q = [t EXCEPT !.nums = nums]
  BY <1>2 DEF YearAfter
<1>6. q = [shape |-> t.shape, nums |-> nums, word |-> t.word]
  BY <1>4, <1>5
<1>7. IsYear(nums[1]) /\ ExpandYear(nums[1]) = z
  BY <1>1, <1>3, LaterYear
<1>8. ASSUME NEW word, NEW x, x = [q EXCEPT !.word = word]
      PROVE  ReadsAs(x, t.shape, word, z)
  <2>1. x.shape = t.shape /\ x.nums = nums /\ x.word = word
    BY <1>6, <1>8
  <2> QED
    BY <1>7, <2>1 DEF ReadsAs
<1>9. ReadsAs(q, t.shape, t.word, z)
  <2>1. q.shape = t.shape /\ q.nums = nums /\ q.word = t.word
    BY <1>6
  <2> QED
    BY <1>7, <2>1 DEF ReadsAs
<1> QED
  BY <1>8, <1>9

NewYear(y) == Day(y, 1, 1)

YearEnd(y) == Day(y, 12, 31)

LEMMA YearEndsBy ==
  ASSUME NEW y, CalendarYear(y), NEW z, z = y + 1, NEW n, n = YearEnd(y)
  PROVE  n + 1 = NewYear(z)
<1>1. y \in Int
  BY DEF CalendarYear
<1> QED
  BY <1>1, YearEnds DEF NewYear, YearEnd

LEMMA YearsAre ==
  ASSUME NEW a, NEW b, NEW precision, NEW display, NEW p, p = Years(a, b, precision, display)
  PROVE  /\ p.earliest = NewYear(a) /\ p.latest = YearEnd(b)
         /\ p.precision = precision /\ p.display = display
BY DEF Years, Period, NewYear, YearEnd

LEMMA YearIsRead ==
  ASSUME NEW q, NEW shape \in {"a", "ca. a"}, NEW word, NEW z, ReadsAs(q, shape, word, z)
  PROVE  Parse(q).earliest = NewYear(z)
<1>1. PICK precision, display : Parse(q) = Years(z, z, precision, display)
  BY DEF ReadsAs, Parse, Year
<1>2. Years(z, z, precision, display).earliest = NewYear(z)
  BY DEF Years, Period, NewYear
<1> QED
  BY <1>1, <1>2, Zenon

LEMMA YearTile ==
  ASSUME NEW r, NEW t, NEW p, Shows(r, t, p), IsText(t), t.shape \in {"a", "ca. a"}
  PROVE  Tiled(r)
<1>1. p = Year(t) /\ t.shape \in Singles
  BY DEF Shows, Parse, Singles
<1>2. PICK y : y = ExpandYear(t.nums[1])
  OBVIOUS
<1>3. PICK precision : precision = "year" /\ p = Years(y, y, precision, Rebuilt(t, 1, y))
  BY <1>1, <1>2 DEF Shows, Year
<1>4. p.latest = YearEnd(y) /\ p.precision = precision /\ p.display = Rebuilt(t, 1, y)
  BY <1>3 DEF Years, Period, YearEnd
<1>5. OneYear(t, y)
  BY <1>1, <1>2, <1>4 DEF OneYear, Shows
<1>6. PICK q : q = YearAfter(t, 1)
  OBVIOUS
<1>7. Following(r) = q
  BY <1>3, <1>4, <1>6 DEF Shows, Following
<1>8. PICK z : z = y + 1
  OBVIOUS
<1>9. ReadsAs(q, t.shape, t.word, z)
  BY <1>5, <1>6, <1>8, Steps, YearAfterIs, Zenon
<1>10. Parse(q).earliest = NewYear(z)
  BY <1>9, YearIsRead, Zenon
<1>11. CalendarYear(y)
  BY <1>5, OneYearIs, TypedIs
<1>12. p.latest + 1 = NewYear(z)
  BY <1>4, <1>8, <1>11, YearEndsBy, Zenon
<1> QED
  BY <1>7, <1>10, <1>12 DEF Tiled, Shows

LEMMA RangeTile ==
  ASSUME NEW r, NEW t, NEW p, Shows(r, t, p), IsText(t), t.shape \in Pairs, p = YearRange(t)
  PROVE  Tiled(r)
<1>1. PICK a : a = ExpandYear(t.nums[1])
  OBVIOUS
<1>2. PICK b : b = ExpandYearAfter(t.nums[2], a)
  OBVIOUS
<1>3. PICK s : s = Rebuilt(t, 1, a)
  OBVIOUS
<1>4. p = Years(a, b, "range", Rebuilt(s, 2, b))
  BY <1>1, <1>2, <1>3 DEF Shows, YearRange
<1>5. p.latest = YearEnd(b) /\ p.precision = "range" /\ Rebuilt(s, 2, b) = t
  BY <1>4, YearsAre DEF Shows
<1>6. /\ t.nums[1] \in Numbers /\ 1 \in DOMAIN t.nums
      /\ t.nums[2] \in Numbers /\ 2 \in DOMAIN t.nums
  BY Parts
<1>7. Typed(a) /\ Typed(b)
  BY <1>1, <1>2, <1>6, YearIsTyped, YearAfterIsTyped
<1>8. IsFunction(s.nums) /\ DOMAIN s.nums = DOMAIN t.nums
  BY <1>3, <1>6, NumsAreFunction, RebuiltIs
<1>9. t.nums[2] = Written(b)
  BY <1>5, <1>6, <1>8, RebuiltIs
<1>10. t.nums[2].value = b
  BY <1>7, <1>9, WrittenValue
<1>11. PICK z : z = b + 1
  OBVIOUS
<1>12. PICK n : n = Written(z)
  OBVIOUS
<1>13. PICK shape, nums, word, q : shape = "a" /\ nums = <<n>> /\ word = ""
                                   /\ q = Text(shape, nums, word)
  OBVIOUS
<1>14. Following(r) = q
  BY <1>5, <1>10, <1>11, <1>12, <1>13 DEF Shows, Following
<1>15. ReadsAs(q, shape, word, z) /\ shape \in {"a", "ca. a"}
  <2>1. q.shape = shape /\ q.nums = nums /\ q.word = word
    BY <1>13 DEF Text
  <2>2. q.nums[1] = n
    <3>1. nums[1] = n
      BY <1>13
    <3> QED
      BY <2>1, <3>1
  <2>3. IsYear(n) /\ ExpandYear(n) = z
    BY <1>7, <1>11, <1>12, Steps, LaterYear, Zenon
  <2> QED
    BY <1>13, <2>1, <2>2, <2>3 DEF ReadsAs
<1>16. Parse(q).earliest = NewYear(z)
  BY <1>15, YearIsRead, Zenon
<1>17. CalendarYear(b)
  BY <1>7, TypedIs
<1>18. p.latest + 1 = NewYear(z)
  BY <1>5, <1>11, <1>17, YearEndsBy, Zenon
<1> QED
  BY <1>14, <1>16, <1>18 DEF Tiled, Shows

\* Decades: the first and the last year of one, or of a part of it.
PartOf(word) == IF word = "" THEN <<0, 9>> ELSE Thirds[word]

Decades(y) == (y \div 10) * 10

DecadeShape == {"as", "third as"}

LEMMA DecadeIsRead ==
  ASSUME NEW q, NEW shape \in DecadeShape, NEW word, NEW z, ReadsAs(q, shape, word, z),
         NEW a, a = Decades(z) + PartOf(word)[1], NEW b, b = Decades(z) + PartOf(word)[2]
  PROVE  /\ Parse(q) = Years(a, b, "decade", Rebuilt(q, 1, z))
         /\ Parse(q).earliest = NewYear(a)
<1>1. Parse(q) = Decade(q) /\ IsYear(q.nums[1]) /\ ExpandYear(q.nums[1]) = z /\ q.word = word
  BY DEF ReadsAs, Parse, DecadeShape
<1>2. Parse(q) = Years(a, b, "decade", Rebuilt(q, 1, z))
  BY <1>1 DEF Decade, Decades, PartOf
<1>3. PICK precision, display : precision = "decade" /\ display = Rebuilt(q, 1, z)
  OBVIOUS
<1>4. Years(a, b, precision, display).earliest = NewYear(a)
  BY DEF Years, Period, NewYear
<1> QED
  BY <1>2, <1>3, <1>4, Zenon

\* How many years after a text the next one is, for the last year j of a part
\* and the first i of the next.
Onward(years, j, i) ==
  (years = 10 /\ j = 9 /\ i = 0) \/ (years = 0 /\ j = 3 /\ i = 4) \/ (years = 0 /\ j = 6 /\ i = 7)

LEMMA Onwards == Onward(10, 9, 0) /\ Onward(0, 3, 4) /\ Onward(0, 6, 7)
BY DEF Onward

LEMMA OnwardIsStep ==
  ASSUME NEW years, NEW j, NEW i, Onward(years, j, i)
  PROVE  Step(years)
BY DEF Onward, Step

LEMMA NextDecade ==
  ASSUME NEW y, Typed(y), NEW years, NEW z, z = y + years, NEW j, NEW i, Onward(years, j, i),
         NEW b, b = Decades(y) + j, NEW a, a = Decades(z) + i
  PROVE  CalendarYear(b) /\ a = b + 1
<1>1. y \in Int /\ 1000 <= y /\ y <= 9999
  BY DEF Typed
<1>2. PICK c : c = y \div 10
  OBVIOUS
<1>3. c \in Int /\ 100 <= c /\ c <= 999
  BY <1>1, <1>2
<1>4. Decades(y) = c * 10
  BY <1>2 DEF Decades
<1>5. CASE years = 10 /\ j = 9 /\ i = 0
  <2>1. z \div 10 = c + 1
    BY <1>1, <1>2, <1>5
  <2>2. Decades(z) = (c + 1) * 10
    BY <2>1 DEF Decades
  <2>3. b = c * 10 + 9 /\ a = (c + 1) * 10 + 0
    BY <1>4, <1>5, <2>2
  <2> QED
    BY <1>3, <2>3 DEF CalendarYear
<1>6. CASE (years = 0 /\ j = 3 /\ i = 4) \/ (years = 0 /\ j = 6 /\ i = 7)
  <2>1. z = y
    BY <1>1, <1>6
  <2>2. Decades(z) = c * 10
    BY <1>4, <2>1
  <2>3. (b = c * 10 + 3 /\ a = c * 10 + 4) \/ (b = c * 10 + 6 /\ a = c * 10 + 7)
    BY <1>4, <1>6, <2>2
  <2> QED
    BY <1>3, <2>3 DEF CalendarYear
<1>7. (years = 10 /\ j = 9 /\ i = 0) \/ (years = 0 /\ j = 3 /\ i = 4)
        \/ (years = 0 /\ j = 6 /\ i = 7)
  BY DEF Onward
<1> QED
  BY <1>5, <1>6, <1>7, Zenon

LEMMA PartsTable ==
  /\ PartOf("")[1] = 0 /\ PartOf("")[2] = 9
  /\ PartOf("early")[1] = 0 /\ PartOf("early")[2] = 3
  /\ PartOf("mid")[1] = 4 /\ PartOf("mid")[2] = 6
  /\ PartOf("late")[1] = 7 /\ PartOf("late")[2] = 9
<1>1. /\ PartOf("early") = Thirds["early"] /\ PartOf("mid") = Thirds["mid"]
      /\ PartOf("late") = Thirds["late"]
  BY DEF PartOf
<1>2. PartOf("") = <<0, 9>>
  BY DEF PartOf
<1>3. <<0, 9>>[1] = 0 /\ <<0, 9>>[2] = 9
  OBVIOUS
<1>4. PartOf("")[1] = 0 /\ PartOf("")[2] = 9
  BY <1>2, <1>3, Zenon
<1> QED
  BY <1>1, <1>4, ThirdsTable, Zenon

\* What follows the part that a word names: next, in the text years after.
DecadeStep(word, next, years) == Onward(years, PartOf(word)[2], PartOf(next)[1])

LEMMA DecadeSteps ==
  /\ DecadeStep("", "", 10) /\ DecadeStep("early", "mid", 0)
  /\ DecadeStep("mid", "late", 0) /\ DecadeStep("late", "early", 10)
BY PartsTable, Onwards, Zenon DEF DecadeStep

LEMMA DecadeFollows ==
  ASSUME NEW r, NEW t, t.shape \in DecadeShape, NEW y, OneYear(t, y),
         NEW b, b = Decades(y) + PartOf(t.word)[2], r.latest = YearEnd(b),
         NEW next, NEW years, DecadeStep(t.word, next, years), NEW q, Following(r) = q,
         \/ q = YearAfter(t, years) /\ next = t.word
         \/ q = [YearAfter(t, years) EXCEPT !.word = next]
  PROVE  Tiled(r)
<1>1. PICK z : z = y + years
  OBVIOUS
<1>2. PICK j, i : j = PartOf(t.word)[2] /\ i = PartOf(next)[1]
  OBVIOUS
<1>3. Onward(years, j, i)
  BY <1>2 DEF DecadeStep
<1>4. ReadsAs(q, t.shape, next, z)
  <2>1. Step(years)
    BY <1>3, OnwardIsStep
  <2>2. PICK x : x = YearAfter(t, years)
    OBVIOUS
  <2>3. /\ ReadsAs(x, t.shape, t.word, z)
        /\ ReadsAs([x EXCEPT !.word = next], t.shape, next, z)
    BY <1>1, <2>1, <2>2, YearAfterIs
  <2> QED
    BY <2>2, <2>3, Zenon
<1>5. PICK a : a = Decades(z) + i
  OBVIOUS
<1>6. Parse(q).earliest = NewYear(a)
  BY <1>2, <1>4, <1>5, DecadeIsRead
<1>7. Typed(y)
  BY OneYearIs, Zenon
<1>8. CalendarYear(b) /\ a = b + 1
  BY <1>1, <1>2, <1>3, <1>5, <1>7, NextDecade
<1>9. r.latest + 1 = NewYear(a)
  BY <1>8, YearEndsBy, Zenon
<1> QED
  BY <1>6, <1>9 DEF Tiled

LEMMA DecadeTile ==
  ASSUME NEW r, NEW t, NEW p, Shows(r, t, p), IsText(t), t.shape \in DecadeShape
  PROVE  Tiled(r)
<1>1. p = Decade(t) /\ t.shape \in Singles
  BY DEF Shows, Parse, Singles, DecadeShape
<1>2. PICK y : y = ExpandYear(t.nums[1])
  OBVIOUS
<1>3. IsYear(t.nums[1])
  BY <1>1 DEF Shows, Decade
<1>4. ReadsAs(t, t.shape, t.word, y)
  BY <1>2, <1>3 DEF ReadsAs
<1>5. PICK a, b : a = Decades(y) + PartOf(t.word)[1] /\ b = Decades(y) + PartOf(t.word)[2]
  OBVIOUS
<1>6. PICK precision : precision = "decade" /\ p = Years(a, b, precision, Rebuilt(t, 1, y))
  BY <1>4, <1>5, DecadeIsRead DEF Shows
<1>7. p.latest = YearEnd(b) /\ p.precision = precision /\ p.display = Rebuilt(t, 1, y)
  BY <1>6 DEF Years, Period, YearEnd
<1>8. OneYear(t, y) /\ r.latest = YearEnd(b)
  BY <1>1, <1>2, <1>7 DEF OneYear, Shows
<1>9. t.word \in {"", "early", "mid", "late"}
  BY ThirdsTable DEF IsText, Words, DecadeShape
<1>10. Following(r) = IF t.word = "" THEN YearAfter(t, 10)
                      ELSE [YearAfter(t, IF t.word = "late" THEN 10 ELSE 0)
                              EXCEPT !.word = Next3(t.word)]
  BY <1>6, <1>7 DEF Shows, Following
<1>11. CASE t.word = ""
  <2>1. Following(r) = YearAfter(t, 10) /\ DecadeStep(t.word, t.word, 10)
    BY <1>10, <1>11, DecadeSteps, Zenon
  <2> QED
    BY <1>5, <1>8, <2>1, DecadeFollows, Zenon
<1>12. CASE t.word = "early"
  <2>1. Following(r) = [YearAfter(t, 0) EXCEPT !.word = "mid"]
    BY <1>10, <1>12 DEF Next3
  <2>2. DecadeStep(t.word, "mid", 0)
    BY <1>12, DecadeSteps, Zenon
  <2> QED
    BY <1>5, <1>8, <2>1, <2>2, DecadeFollows, Zenon
<1>13. CASE t.word = "mid"
  <2>1. Following(r) = [YearAfter(t, 0) EXCEPT !.word = "late"]
    BY <1>10, <1>13 DEF Next3
  <2>2. DecadeStep(t.word, "late", 0)
    BY <1>13, DecadeSteps, Zenon
  <2> QED
    BY <1>5, <1>8, <2>1, <2>2, DecadeFollows, Zenon
<1>14. CASE t.word = "late"
  <2>1. PICK next, years : next = "early" /\ years = 10
    OBVIOUS
  <2>2. Following(r) = [YearAfter(t, years) EXCEPT !.word = next]
    BY <1>10, <1>14, <2>1 DEF Next3
  <2>3. DecadeStep(t.word, next, years)
    BY <1>14, <2>1, DecadeSteps, Zenon
  <2> QED
    BY <1>5, <1>8, <2>2, <2>3, DecadeFollows, Zenon
<1> QED
  BY <1>9, <1>11, <1>12, <1>13, <1>14

\* Seasons: a month ends before the last year of the calendar.
Early(n) == n < Day(9999, 1, 1)

LEMMA MonthIsFollowed ==
  ASSUME NEW y, CalendarYear(y), NEW m, CalendarMonth(m), NEW n, n = EndOfMonth(y, m), Early(n)
  PROVE  CalendarYear(y + 1)
<1>1. PICK d : d = MonthLength(y, m)
  OBVIOUS
<1>2. IsDate(y, m, d)
  BY <1>1, LastIsDate, Zenon
<1>3. Day(y, m, d) < Day(9999, 1, 1)
  BY <1>1 DEF EndOfMonth, Early
<1> QED
  BY <1>2, <1>3, HasNextYear

\* The months of a season, those of the next, and the years between the texts.
Turn(a, b, i, j, years) ==
  \/ a = 3 /\ b = 5 /\ i = 6 /\ j = 8 /\ years = 0
  \/ a = 6 /\ b = 8 /\ i = 9 /\ j = 11 /\ years = 0
  \/ a = 9 /\ b = 11 /\ i = 12 /\ j = 2 /\ years = 0
  \/ a = 12 /\ b = 2 /\ i = 3 /\ j = 5 /\ years = 1

LEMMA TurnsTable ==
  Turn(3, 5, 6, 8, 0) /\ Turn(6, 8, 9, 11, 0) /\ Turn(9, 11, 12, 2, 0) /\ Turn(12, 2, 3, 5, 1)
BY DEF Turn

LEMMA TurnIsStep ==
  ASSUME NEW a, NEW b, NEW i, NEW j, NEW years, Turn(a, b, i, j, years)
  PROVE  Step(years) /\ CalendarMonth(b) /\ CalendarMonth(j) /\ b < 12 /\ i = b + 1 /\ b \in 1 .. 12
BY DEF Turn, Step, CalendarMonth

\* The year a season ends in that begins in year y.
LastYear(y, a, b) == IF b < a THEN y + 1 ELSE y

LEMMA TurnOfYear ==
  ASSUME NEW y, CalendarYear(y), NEW a, NEW b, NEW i, NEW j, NEW years, Turn(a, b, i, j, years),
         NEW last, last = LastYear(y, a, b), NEW z, z = y + years,
         NEW close, close = LastYear(z, i, j)
  PROVE  z = last /\ (close = last \/ close = last + 1) /\ last \in Int
<1>1. y \in Int
  BY DEF CalendarYear
<1> QED
  BY <1>1 DEF Turn, LastYear

LEMMA NextSeason ==
  ASSUME NEW y, CalendarYear(y), NEW a, NEW b, NEW i, NEW j, NEW years, Turn(a, b, i, j, years),
         NEW last, last = LastYear(y, a, b), IsDate(last, b, 1),
         NEW n, n = EndOfMonth(last, b), Early(n),
         NEW z, z = y + years, NEW close, close = LastYear(z, i, j)
  PROVE  IsDate(close, j, 1) /\ n + 1 = Day(z, i, 1)
<1>1. z = last /\ (close = last \/ close = last + 1) /\ last \in Int
  BY TurnOfYear
<1>2. Step(years) /\ CalendarMonth(b) /\ CalendarMonth(j) /\ b < 12 /\ i = b + 1 /\ b \in 1 .. 12
  BY TurnIsStep
<1>3. CalendarYear(last)
  BY DEF IsDate, CalendarYear
<1>4. CalendarYear(last + 1)
  BY <1>2, <1>3, MonthIsFollowed, Zenon
<1>5. CalendarYear(close)
  BY <1>1, <1>3, <1>4
<1>6. IsDate(close, j, 1)
  BY <1>2, <1>5, FirstIsDate, Zenon
<1>7. n + 1 = Day(last, b + 1, 1)
  BY <1>1, <1>2, MonthEnds
<1> QED
  BY <1>1, <1>2, <1>6, <1>7

SeasonShape == {"season a"}

LEMMA SeasonIsRead ==
  ASSUME NEW q, NEW shape \in SeasonShape, NEW word, NEW z,
         ReadsAs(q, shape, word, z),
         NEW i, i = Seasons[word][1], NEW j, j = Seasons[word][2],
         NEW close, close = LastYear(z, i, j), IsDate(close, j, 1)
  PROVE  Parse(q).earliest = Day(z, i, 1)
<1>1. Parse(q) = Season(q) /\ IsYear(q.nums[1]) /\ ExpandYear(q.nums[1]) = z /\ q.word = word
  BY DEF ReadsAs, Parse, SeasonShape
<1>2. PICK precision, display : precision = "season" /\ display = Rebuilt(q, 1, z)
  OBVIOUS
<1>3. Parse(q) = Period(Day(z, i, 1), EndOfMonth(close, j), precision, display)
  BY <1>1, <1>2 DEF Season, LastYear
<1>4. PICK p, a, b : p = Parse(q) /\ a = Day(z, i, 1) /\ b = EndOfMonth(close, j)
  OBVIOUS
<1>5. p = Period(a, b, precision, display)
  BY <1>3, <1>4
<1>6. p.earliest = a
  BY <1>5, PeriodIs
<1> QED
  BY <1>4, <1>6

SeasonTurn(word, next, years) ==
  Turn(Seasons[word][1], Seasons[word][2], Seasons[next][1], Seasons[next][2], years)

LEMMA SeasonTurns ==
  /\ SeasonTurn("spring", "sommer", 0) /\ SeasonTurn("sommer", "herbst", 0)
  /\ SeasonTurn("herbst", "winter", 0) /\ SeasonTurn("winter", "spring", 1)
BY SeasonsTable, TurnsTable, Zenon DEF SeasonTurn

LEMMA SeasonFollows ==
  ASSUME NEW r, NEW t, t.shape \in SeasonShape, NEW y, OneYear(t, y),
         NEW a, a = Seasons[t.word][1], NEW b, b = Seasons[t.word][2],
         NEW last, last = LastYear(y, a, b), IsDate(last, b, 1),
         r.latest = EndOfMonth(last, b), Early(r.latest),
         NEW next, NEW years, SeasonTurn(t.word, next, years),
         NEW q, Following(r) = q, q = [YearAfter(t, years) EXCEPT !.word = next]
  PROVE  Tiled(r)
<1>1. PICK i, j : i = Seasons[next][1] /\ j = Seasons[next][2]
  OBVIOUS
<1>2. Turn(a, b, i, j, years)
  BY <1>1 DEF SeasonTurn
<1>3. PICK z : z = y + years
  OBVIOUS
<1>4. PICK close : close = LastYear(z, i, j)
  OBVIOUS
<1>5. CalendarYear(y)
  BY OneYearIs, TypedIs, Zenon
<1>6. PICK n : n = r.latest
  OBVIOUS
<1>7. IsDate(close, j, 1) /\ n + 1 = Day(z, i, 1)
  BY <1>2, <1>3, <1>4, <1>5, <1>6, NextSeason
<1>8. ReadsAs(q, t.shape, next, z)
  <2>1. Step(years)
    BY <1>2, TurnIsStep, Zenon
  <2>2. PICK x : x = YearAfter(t, years)
    OBVIOUS
  <2>3. ReadsAs([x EXCEPT !.word = next], t.shape, next, z)
    BY <1>3, <2>1, <2>2, YearAfterIs
  <2> QED
    BY <2>2, <2>3, Zenon
<1>9. Parse(q).earliest = Day(z, i, 1)
  BY <1>1, <1>4, <1>7, <1>8, SeasonIsRead
<1> QED
  BY <1>6, <1>7, <1>9 DEF Tiled

LEMMA SeasonTile ==
  ASSUME NEW r, NEW t, NEW p, Shows(r, t, p), IsText(t), t.shape \in SeasonShape, Early(r.latest)
  PROVE  Tiled(r)
<1>1. p = Season(t) /\ t.shape \in Singles
  BY DEF Shows, Parse, Singles, SeasonShape
<1>2. PICK y : y = ExpandYear(t.nums[1])
  OBVIOUS
<1>3. PICK a, b : a = Seasons[t.word][1] /\ b = Seasons[t.word][2]
  OBVIOUS
<1>4. PICK last : last = LastYear(y, a, b)
  OBVIOUS
<1>5. PICK precision : /\ precision = "season" /\ IsDate(last, b, 1)
                       /\ p = Period(Day(y, a, 1), EndOfMonth(last, b), precision,
                                     Rebuilt(t, 1, y))
  BY <1>1, <1>2, <1>3, <1>4 DEF Shows, Season, LastYear
<1>6. p.latest = EndOfMonth(last, b) /\ p.precision = precision /\ p.display = Rebuilt(t, 1, y)
  BY <1>5 DEF Period
<1>7. OneYear(t, y) /\ r.latest = EndOfMonth(last, b)
  BY <1>1, <1>2, <1>6 DEF OneYear, Shows
<1>8. t.word \in {"spring", "sommer", "herbst", "winter"}
  BY SeasonsTable DEF IsText, Words, SeasonShape
<1>9. Following(r) = [YearAfter(t, IF t.word = "winter" THEN 1 ELSE 0) EXCEPT !.word = Next4(t.word)]
  BY <1>5, <1>6 DEF Shows, Following
<1>10. CASE t.word = "spring"
  <2>1. PICK next, years : next = "sommer" /\ years = 0
    OBVIOUS
  <2>2. Following(r) = [YearAfter(t, years) EXCEPT !.word = next]
    BY <1>9, <1>10, <2>1 DEF Next4
  <2>3. SeasonTurn(t.word, next, years)
    BY <1>10, <2>1, SeasonTurns, Zenon
  <2> QED
    BY <1>3, <1>4, <1>5, <1>7, <2>2, <2>3, SeasonFollows, Zenon
<1>11. CASE t.word = "sommer"
  <2>1. PICK next, years : next = "herbst" /\ years = 0
    OBVIOUS
  <2>2. Following(r) = [YearAfter(t, years) EXCEPT !.word = next]
    BY <1>9, <1>11, <2>1 DEF Next4
  <2>3. SeasonTurn(t.word, next, years)
    BY <1>11, <2>1, SeasonTurns, Zenon
  <2> QED
    BY <1>3, <1>4, <1>5, <1>7, <2>2, <2>3, SeasonFollows, Zenon
<1>12. CASE t.word = "herbst"
  <2>1. PICK next, years : next = "winter" /\ years = 0
    OBVIOUS
  <2>2. Following(r) = [YearAfter(t, years) EXCEPT !.word = next]
    BY <1>9, <1>12, <2>1 DEF Next4
  <2>3. SeasonTurn(t.word, next, years)
    BY <1>12, <2>1, SeasonTurns, Zenon
  <2> QED
    BY <1>3, <1>4, <1>5, <1>7, <2>2, <2>3, SeasonFollows, Zenon
<1>13. CASE t.word = "winter"
  <2>1. PICK next, years : next = "spring" /\ years = 1
    OBVIOUS
  <2>2. Following(r) = [YearAfter(t, years) EXCEPT !.word = next]
    BY <1>9, <1>13, <2>1 DEF Next4
  <2>3. SeasonTurn(t.word, next, years)
    BY <1>13, <2>1, SeasonTurns, Zenon
  <2> QED
    BY <1>3, <1>4, <1>5, <1>7, <2>2, <2>3, SeasonFollows, Zenon
<1> QED
  BY <1>8, <1>10, <1>11, <1>12, <1>13

\* Months: the one with number k, and the text for it.
LEMMA MonthsDiffer ==
  ASSUME NEW i \in 1 .. 12, NEW k \in 1 .. 12, Months[i] = Months[k]
  PROVE  i = k
BY DEF Months

LEMMA NumberOfMonth ==
  ASSUME NEW k, CalendarMonth(k), NEW word, word = Months[k]
  PROVE  MonthNumber(word) = k
<1>1. k \in 1 .. 12
  BY DEF CalendarMonth
<1>2. word \in {Months[m] : m \in 1 .. 12}
  BY <1>1
<1>3. CalendarMonth(MonthNumber(word)) /\ Months[MonthNumber(word)] = word
  BY <1>2, MonthNumberIs
<1> QED
  BY <1>1, <1>3, MonthsDiffer DEF CalendarMonth

NextMonth(m) == (m % 12) + 1

NextMonthYear(y, m) == IF m = 12 THEN y + 1 ELSE y

LEMMA MonthFollows ==
  ASSUME NEW y, CalendarYear(y), NEW m, CalendarMonth(m), NEW n, n = EndOfMonth(y, m),
         NEW k, k = NextMonth(m), NEW z, z = NextMonthYear(y, m)
  PROVE  /\ YearOf(n) = y /\ MonthOf(n) = m /\ CalendarMonth(k)
         /\ n + 1 = Day(z, k, 1)
<1>1. y \in Int /\ 1 <= y /\ m \in 1 .. 12
  BY DEF CalendarYear, CalendarMonth
<1>2. YearOf(n) = y /\ MonthOf(n) = m
  BY <1>1, EndOfMonthIs
<1>3. CASE m = 12
  <2>1. k = 1 /\ z = y + 1
    BY <1>3 DEF NextMonth, NextMonthYear
  <2>2. n + 1 = Day(y + 1, 1, 1)
    BY <1>1, <1>3, MonthEnds
  <2> QED
    BY <1>2, <2>1, <2>2 DEF CalendarMonth
<1>4. CASE m # 12
  <2>1. m \in Int /\ 1 <= m /\ m < 12
    BY <1>1, <1>4
  <2>2. k = m + 1 /\ z = y
    BY <1>4, <2>1 DEF NextMonth, NextMonthYear
  <2>3. n + 1 = Day(y, m + 1, 1)
    BY <1>1, <2>1, MonthEnds
  <2>4. CalendarMonth(k)
    BY <2>1, <2>2 DEF CalendarMonth
  <2> QED
    BY <1>2, <2>2, <2>3, <2>4
<1> QED
  BY <1>3, <1>4

MonthShape == {"month a"}

LEMMA MonthIsRead ==
  ASSUME NEW shape \in MonthShape, NEW z, NEW k, CalendarMonth(k),
         NEW q, q = Text(shape, <<Number(4, z)>>, Months[k])
  PROVE  Parse(q).earliest = Day(z, k, 1)
<1>1. PICK n : n = Number(4, z)
  OBVIOUS
<1>2. n.value = z /\ IsYear(n) /\ ExpandYear(n) = z
  BY <1>1 DEF Number, IsYear, ExpandYear
<1>3. q.shape = shape /\ q.nums = <<n>> /\ q.word = Months[k]
  BY <1>1 DEF Text
<1>4. q.nums[1] = n
  BY <1>3
<1>5. MonthNumber(q.word) = k
  BY <1>3, NumberOfMonth, Zenon
<1>6. Parse(q) = Month(z, k, Rebuilt(q, 1, z))
  <2>1. Parse(q) = MonthName(q)
    BY <1>3 DEF Parse, MonthShape
  <2> QED
    BY <1>2, <1>4, <1>5, <2>1 DEF MonthName
<1>7. Month(z, k, Rebuilt(q, 1, z)).earliest = Day(z, k, 1)
  BY DEF Month, Period
<1> QED
  BY <1>6, <1>7, Zenon

LEMMA MonthTile ==
  ASSUME NEW r, r.precision \in {"month"}, NEW y, CalendarYear(y), NEW m, CalendarMonth(m),
         r.latest = EndOfMonth(y, m)
  PROVE  Tiled(r)
<1>1. PICK n : n = r.latest
  OBVIOUS
<1>2. PICK k, z : k = NextMonth(m) /\ z = NextMonthYear(y, m)
  OBVIOUS
<1>3. /\ YearOf(n) = y /\ MonthOf(n) = m /\ CalendarMonth(k)
      /\ n + 1 = Day(z, k, 1)
  BY <1>1, <1>2, MonthFollows
<1>4. PICK shape, q : shape = "month a" /\ q = Text(shape, <<Number(4, z)>>, Months[k])
  OBVIOUS
<1>5. Following(r) = q
  BY <1>1, <1>2, <1>3, <1>4 DEF Following, NextMonth, NextMonthYear
<1>6. shape \in MonthShape
  BY <1>4 DEF MonthShape
<1>7. Parse(q).earliest = Day(z, k, 1)
  BY <1>3, <1>4, <1>6, MonthIsRead, Zenon
<1> QED
  BY <1>1, <1>3, <1>5, <1>7 DEF Tiled

LEMMA EarlyIs ==
  ASSUME NEW n \in Int, Early(n)
  PROVE  n < LastDay
<1>1. Day(9999, 1, 1) = Before(9999) + 1
  BY NewYearIs
<1>2. Before(9999) = 3651694
  BY DEF Before
<1>3. Day(9999, 1, 1) = 3651695
  BY <1>1, <1>2
<1>4. LastDay = 3652059
  BY EndsOfCalendar
<1> QED
  BY <1>3, <1>4 DEF Early

LEMMA ExactShown ==
  ASSUME NEW r, NEW t, NEW p, Shows(r, t, p), NEW y, NEW m, NEW d, NEW display,
         p = Exact(y, m, d, display), Proper(p), Early(r.latest)
  PROVE  Tiled(r)
<1>1. p = Period(Day(y, m, d), Day(y, m, d), "exact", display)
  BY DEF Shows, Exact
<1>2. r.precision = "exact"
  BY <1>1 DEF Shows, Period
<1>3. r.latest = p.latest
  BY DEF Shows
<1>4. p.latest \in Int /\ FirstDay <= p.latest
  BY EndsOfCalendar DEF Proper
<1>5. p.latest < LastDay
  BY <1>3, <1>4, EarlyIs
<1> QED
  BY <1>2, <1>3, <1>4, <1>5, ExactTile

LEMMA MonthShown ==
  ASSUME NEW r, NEW t, NEW p, Shows(r, t, p), NEW y, CalendarYear(y), NEW m, CalendarMonth(m),
         NEW display, p = Month(y, m, display)
  PROVE  Tiled(r)
<1>1. p.precision \in {"month"} /\ p.latest = EndOfMonth(y, m)
  BY DEF Month, Period
<1>2. r.precision \in {"month"} /\ r.latest = EndOfMonth(y, m)
  BY <1>1 DEF Shows
<1> QED
  BY <1>2, MonthTile

LEMMA TileByShape ==
  ASSUME NEW r, NEW t, NEW p, Shows(r, t, p), Wording(t), Proper(p), Early(r.latest)
  PROVE  Tiled(r)
<1>1. p = Parse(t) /\ p # Failure
  BY DEF Shows
<1>2. CASE t.shape = "a-b-c"
  <2>1. p = ExactIso(t)
    BY <1>1, <1>2 DEF Parse
  <2>2. p = Exact(t.nums[1].value, t.nums[2].value, t.nums[3].value, t)
    BY <1>1, <2>1 DEF ExactIso
  <2> QED
    BY <2>2, ExactShown
<1> SUFFICES ASSUME IsText(t)
             PROVE  Tiled(r)
  BY <1>2 DEF Wording
<1>3. CASE t.shape = "a.b.c"
  <2>1. p = ExactDe(t)
    BY <1>1, <1>3 DEF Parse
  <2>2. p = Exact(t.nums[3].value, t.nums[2].value, t.nums[1].value, t)
    BY <1>1, <2>1 DEF ExactDe
  <2> QED
    BY <2>2, ExactShown
<1>4. CASE t.shape = "a. month b"
  <2>1. p = ExactDayMonthName(t)
    BY <1>1, <1>4 DEF Parse
  <2>2. PICK y : y = ExpandYear(t.nums[2])
    OBVIOUS
  <2>3. p = Exact(y, MonthNumber(t.word), t.nums[1].value, Rebuilt(t, 2, y))
    BY <1>1, <2>1, <2>2 DEF ExactDayMonthName
  <2> QED
    BY <2>3, ExactShown
<1>5. CASE t.shape \in {"a", "ca. a"}
  BY <1>5, YearTile
<1>6. CASE t.shape = "season a"
  <2>1. t.shape \in SeasonShape
    BY <1>6 DEF SeasonShape
  <2> QED
    BY <2>1, SeasonTile
<1>7. CASE t.shape \in {"as", "third as"}
  <2>1. t.shape \in DecadeShape
    BY <1>7 DEF DecadeShape
  <2> QED
    BY <2>1, DecadeTile
<1>8. CASE t.shape = "month a"
  <2>1. p = MonthName(t) /\ t.shape \in Singles
    BY <1>1, <1>8 DEF Parse, Singles
  <2>2. PICK y : y = ExpandYear(t.nums[1])
    OBVIOUS
  <2>3. p = Month(y, MonthNumber(t.word), Rebuilt(t, 1, y))
    BY <1>1, <2>1, <2>2 DEF MonthName
  <2>4. CalendarYear(y)
    <3>1. t.nums[1] \in Numbers
      BY <2>1, Parts
    <3> QED
      BY <2>2, <3>1, YearIsTyped, TypedIs
  <2>5. CalendarMonth(MonthNumber(t.word))
    <3>1. t.word \in {Months[m] : m \in 1 .. 12}
      BY <1>8 DEF IsText, Words
    <3> QED
      BY <3>1, MonthNumberIs
  <2> QED
    BY <2>3, <2>4, <2>5, MonthShown
<1>9. CASE t.shape = "a.b"
  <2>1. p = MonthNum(t) /\ t.shape \in Pairs
    BY <1>1, <1>9 DEF Parse, Pairs
  <2>2. PICK y : y = ExpandYear(t.nums[2])
    OBVIOUS
  <2>3. p = Month(y, t.nums[1].value, Rebuilt(t, 2, y)) /\ CalendarMonth(t.nums[1].value)
    BY <1>1, <2>1, <2>2 DEF MonthNum, CalendarMonth
  <2>4. CalendarYear(y)
    <3>1. t.nums[2] \in Numbers
      BY <2>1, Parts
    <3> QED
      BY <2>2, <3>1, YearIsTyped, TypedIs
  <2> QED
    BY <2>3, <2>4, MonthShown
<1>10. CASE t.shape \in {"a-b", "a bis b"}
  <2>1. t.shape \in Pairs
    BY <1>10 DEF Pairs
  <2>2. CASE t.shape = "a-b" /\ IsMonthIso(t)
    <3>1. p = Month(t.nums[1].value, t.nums[2].value, t)
      BY <1>1, <2>2 DEF Parse, MonthIso
    <3>2. CalendarMonth(t.nums[2].value)
      BY <2>2 DEF IsMonthIso, CalendarMonth
    <3>3. t.nums[1] \in Numbers /\ t.nums[1].digits = 4
      BY <2>1, <2>2, Parts DEF IsMonthIso
    <3>4. CalendarYear(t.nums[1].value)
      BY <3>3, FourDigitsIs, Zenon
    <3> QED
      BY <3>1, <3>2, <3>4, MonthShown
  <2>3. CASE ~(t.shape = "a-b" /\ IsMonthIso(t))
    <3>1. p = YearRange(t)
      BY <1>1, <1>10, <2>3 DEF Parse
    <3> QED
      BY <2>1, <3>1, RangeTile
  <2> QED
    BY <2>2, <2>3
<1>11. \/ t.shape \in {"a-b-c", "a.b.c", "a. month b", "season a", "month a", "a.b"}
       \/ t.shape \in {"a", "ca. a"} \/ t.shape \in {"as", "third as"}
       \/ t.shape \in {"a-b", "a bis b"}
  BY DEF IsText, Singles, Pairs, Triples
<1> QED
  BY <1>2, <1>3, <1>4, <1>5, <1>6, <1>7, <1>8, <1>9, <1>10, <1>11

LEMMA TileLemma ==
  ASSUME FormIInv
  PROVE  PeriodsTile
<1> SUFFICES ASSUME row.display # NoText, row.latest < Day(9999, 1, 1)
             PROVE  Parse(Following(row)).earliest = row.latest + 1
  BY DEF PeriodsTile
<1>1. PICK t : t = row.display
  OBVIOUS
<1>2. PICK p : p = Parse(t)
  OBVIOUS
<1>3. /\ p = Period(row.earliest, row.latest, row.precision, t) /\ p # Failure
      /\ Proper(p) /\ Wording(t)
  BY <1>1, <1>2 DEF FormIInv, PeriodIsRead, Readable, Dated
<1>4. Shows(row, t, p)
  BY <1>1, <1>2, <1>3, PeriodIs DEF Shows
<1>5. Early(row.latest)
  BY DEF Early
<1>6. Tiled(row)
  BY <1>3, <1>4, <1>5, TileByShape
<1> QED
  BY <1>6 DEF Tiled

\* The day after a period is the first of the next one, whatever text it was
\* read from: month to month, season to season, winter into the next year.
THEOREM TileCorrect == Spec => []PeriodsTile
BY FormCorrect, TileLemma, PTL

=============================================================================

------------------------------ MODULE ImageForm ------------------------------
(***************************************************************************)
(* What the metadata form and its rivals make of one image: the date as a  *)
(* text and as a period, the time of day that an Immich photo brought      *)
(* along, the open questions.  Every change sends the whole form as it is  *)
(* shown, so what has been saved is read again with each save              *)
(* (core/metadata.py, image_save, _image_metadata.html).  Whether a save   *)
(* is accepted is the matter of ImageEditing.                              *)
(***************************************************************************)
EXTENDS Dates

CONSTANTS
  Texts,    \* what is typed as a date
  Photos,   \* Immich photos that are linked (exifInfo)
  Times,    \* times of day that are typed, in hours
  Offsets,  \* UTC offsets an Immich server may assume, in hours
  Places,   \* named places
  None      \* SQL NULL, or an empty input

\* edit_todo is a note: here it matters whether there is one.
Flags == {"place_todo", "date_todo", "needs_flip", "edit_todo"}

ASSUME TimesAssumption == Times \subseteq 0 .. 23
ASSUME OffsetsAssumption == Offsets \subseteq -11 .. 12
ASSUME TextsAssumption == \A t \in Texts : IsText(t)
ASSUME PhotosAssumption ==
  \A p \in Photos :
    /\ p.instant \in Int \cup {None} /\ p.zone \in Int \cup {None} /\ p.coords \in BOOLEAN
    /\ p.date = NoText \/ IsText(p.date)
ASSUME NoneAssumption == None \notin Int \cup Places

VARIABLES
  row,    \* the columns of the image
  chosen  \* history: the time of day somebody last chose, and its offset

vars == <<row, chosen>>

\* No immich_capture_datetime.
NoCapture == [day |-> None, time |-> None, offset |-> None]

NewRow ==
  [display |-> NoText, earliest |-> None, latest |-> None, precision |-> "",
   capture |-> NoCapture, place |-> None, coords |-> FALSE, flags |-> {}]

TimeOf(capture) == [time |-> capture.time, offset |-> capture.offset]

Init == row = NewRow /\ chosen = TimeOf(NoCapture)

----------------------------------------------------------------------------
(* models/image.py *)

\* date_representative
Representative(r) ==
  IF r.earliest = None \/ r.latest = None THEN None
  ELSE r.earliest + (r.latest - r.earliest) \div 2

\* effective_capture_datetime
Effective(r) ==
  IF r.capture = NoCapture \/ Representative(r) = None THEN NoCapture
  ELSE [day |-> Representative(r), time |-> r.capture.time, offset |-> r.capture.offset]

\* Mutant: the offset of the photo is lost.
CaptureWithLocalTime(r, time) ==
  IF Representative(r) = None THEN NoCapture
  ELSE [day |-> Representative(r), time |-> time, offset |-> 0]

\* capture_datetime_with_time
CaptureWithTime(r, time) ==
  IF Representative(r) = None THEN NoCapture
  ELSE [day |-> Representative(r), time |-> time, offset |-> r.capture.offset]

\* needs_date
NeedsDate(r) == "date_todo" \in r.flags \/ Representative(r) = None

\* Mutant: coordinates alone are no location.
IsDoneNamed(r) == r.flags = {} /\ r.earliest # None /\ r.place # None

\* Box.progress: an image that counts as done.
IsDone(r) == r.flags = {} /\ r.earliest # None /\ (r.place # None \/ r.coords)

\* _apply_grid_filter: "Offene Todos"
AnyTodo(r) ==
  \/ "place_todo" \in r.flags \/ (r.place = None /\ ~r.coords)
  \/ "date_todo" \in r.flags \/ (r.earliest = None /\ r.latest = None)
  \/ "needs_flip" \in r.flags \/ "edit_todo" \in r.flags

----------------------------------------------------------------------------
(* Saving *)

\* _parse_date_display
WithPeriod(r, p) ==
  [r EXCEPT !.display = p.display, !.earliest = p.earliest, !.latest = p.latest,
            !.precision = p.precision]

WithDate(r, text) ==
  WithPeriod(r, IF text = NoText THEN Period(None, None, "", NoText) ELSE Parse(text))

\* The inputs the form shows.  There is one for the time if there is a time to
\* show; a box that is not ticked is not sent, unless it is the one clicked.
Rendered(r) ==
  [display |-> r.display,
   time |-> Effective(r).time,
   place |-> r.place,
   ticked |-> r.flags, cleared |-> {}]

\* parse_metadata_payload and image_save: all of the form, or nothing.
Saved(r, form) ==
  IF form.display # NoText /\ Parse(form.display) = Failure THEN r
  ELSE [WithDate(r, form.display) EXCEPT
          !.capture = IF form.time = None THEN r.capture ELSE CaptureWithTime(r, form.time),
          !.place = form.place,
          !.flags = (r.flags \cup form.ticked) \ form.cleared]

Save(form) == row' = Saved(row, form)

SaveDate(text) ==
  /\ Save([Rendered(row) EXCEPT !.display = text])
  /\ UNCHANGED chosen

\* The time input; emptied, it changes nothing (parse_capture_time).
SaveTime(time) ==
  /\ Rendered(row).time # None
  /\ Save([Rendered(row) EXCEPT !.time = time])
  /\ chosen' = IF time = None THEN chosen ELSE [chosen EXCEPT !.time = time]

SavePlace(place) ==
  /\ Save([Rendered(row) EXCEPT !.place = place])
  /\ UNCHANGED chosen

SaveFlag(flag) ==
  /\ Save(IF flag \in row.flags THEN [Rendered(row) EXCEPT !.cleared = {flag}]
          ELSE [Rendered(row) EXCEPT !.ticked = @ \cup {flag}])
  /\ UNCHANGED chosen

\* image_batch and the API: a date without a time.
WriteDate(text) ==
  /\ text = NoText \/ Parse(text) # Failure
  /\ row' = WithDate(row, text)
  /\ UNCHANGED chosen

\* image_batch: clear_todos
ClearTodos ==
  /\ row' = [row EXCEPT !.flags = {}]
  /\ UNCHANGED chosen

----------------------------------------------------------------------------
(* Immich photos: an instant in hours and the offset of its zone, or None    *)
(* for what is missing; a date that is no instant is read as a text.         *)

Photo(instant, zone, date, coords) ==
  [instant |-> instant, zone |-> zone, date |-> date, coords |-> coords]

\* Mutant: the day is the one in UTC.
LocalDayInUTC(photo) == photo.instant \div 24

Local(photo) == photo.instant + (IF photo.zone = None THEN 0 ELSE photo.zone)

\* _local_capture
LocalDay(photo) == Local(photo) \div 24

LocalCapture(photo) ==
  [day |-> LocalDay(photo), time |-> Local(photo) % 24,
   offset |-> IF photo.zone = None THEN 0 ELSE photo.zone]

\* ImmichMetadata: date and capture_datetime
PhotoDate(photo) == IF photo.instant = None THEN photo.date ELSE IsoText(LocalDay(photo))

PhotoCapture(photo) == IF photo.instant = None THEN NoCapture ELSE LocalCapture(photo)

\* is_empty, or a date that is none: an error is shown.
Usable(photo) ==
  /\ PhotoDate(photo) # NoText \/ photo.coords
  /\ PhotoDate(photo) # NoText => Parse(PhotoDate(photo)) # Failure

\* Mutant: the time of an earlier photo stays.
PulledDateOnly(r, photo) ==
  LET dated == IF PhotoDate(photo) = NoText THEN r
               ELSE [WithDate(r, PhotoDate(photo)) EXCEPT
                       !.flags = @ \ {"date_todo"},
                       !.capture = IF PhotoCapture(photo) = NoCapture THEN @ ELSE PhotoCapture(photo)]
  IN IF photo.coords THEN [dated EXCEPT !.coords = TRUE, !.flags = @ \ {"place_todo"}] ELSE dated

\* _immich_updates
Pulled(r, photo) ==
  LET dated == IF PhotoDate(photo) = NoText THEN r
               ELSE [WithDate(r, PhotoDate(photo)) EXCEPT
                       !.flags = @ \ {"date_todo"}, !.capture = PhotoCapture(photo)]
  IN IF photo.coords THEN [dated EXCEPT !.coords = TRUE, !.flags = @ \ {"place_todo"}] ELSE dated

Pull(photo) ==
  /\ Usable(photo)
  /\ row' = Pulled(row, photo)
  /\ chosen' = IF PhotoDate(photo) = NoText THEN chosen ELSE TimeOf(PhotoCapture(photo))

\* "entfernen"
ClearCoords ==
  /\ row.coords
  /\ row' = [row EXCEPT !.coords = FALSE]
  /\ UNCHANGED chosen

\* build_exiftool_args: the capture time, or noon without an offset.
Exif(r) ==
  IF Effective(r) # NoCapture THEN Effective(r)
  ELSE [day |-> Representative(r), time |-> 12, offset |-> None]

\* How Immich reads it back: without an offset it assumes one, which it tells
\* or does not tell.
Reread(exif) ==
  {Photo(exif.day * 24 + exif.time - z, told, NoText, FALSE) :
     z \in IF exif.offset = None THEN Offsets ELSE {exif.offset},
     told \in IF exif.offset = None THEN {None} ELSE {exif.offset}}
  \cup (IF exif.offset # None THEN {}
        ELSE {Photo(exif.day * 24 + exif.time - z, z, NoText, FALSE) : z \in Offsets})

Next ==
  \/ \E text \in Texts \cup {NoText} : SaveDate(text) \/ WriteDate(text)
  \/ \E time \in Times \cup {None} : SaveTime(time)
  \/ \E place \in Places \cup {None} : SavePlace(place)
  \/ \E flag \in Flags : SaveFlag(flag)
  \/ ClearTodos \/ ClearCoords
  \/ \E photo \in Photos : Pull(photo)

Spec == Init /\ [][Next]_vars
----------------------------------------------------------------------------
(* Properties *)

TypeOK ==
  /\ \/ row.display = NoText /\ row.earliest = None /\ row.latest = None /\ row.precision = ""
     \/ /\ row.earliest \in Int /\ row.latest \in Int /\ row.earliest <= row.latest
        /\ row.precision \in Precisions
  /\ row.capture = NoCapture \/ (row.capture.day \in Int /\ row.capture.time \in 0 .. 23)
  /\ row.place \in Places \cup {None} /\ row.coords \in BOOLEAN /\ row.flags \subseteq Flags

\* The period of an image is what its date, as it is shown, is read as: the
\* next save of the form, which reads it again, leaves it alone.
PeriodIsRead ==
  row.display # NoText =>
    Parse(row.display) = Period(row.earliest, row.latest, row.precision, row.display)

\* A form that is sent as it is shown, because something else has been changed
\* in it, leaves the date, the exported time and the open questions alone.
UntouchedFormKeeps ==
  LET saved == Saved(row, Rendered(row)) IN
  /\ Exif(saved) = Exif(row)
  /\ [saved EXCEPT !.capture = row.capture] = row

\* "It is rebased onto whatever date the date field currently resolves to, so
\* editing the rough date keeps the time" (effective_capture_datetime, and the
\* tests of it): what is kept, and exported as long as there is a date, is the
\* time somebody chose last, whether a photo brought it or the form, whatever
\* dates came between, none at all included.  The comment on the column says
\* the opposite, "ignored once the date is edited away from it"; the code does
\* not, nor do the docstring and the test.
TimeIsKept ==
  /\ TimeOf(row.capture) = chosen
  /\ row.earliest # None /\ chosen # TimeOf(NoCapture) => TimeOf(Exif(row)) = chosen

\* An exported image that is linked as an Immich photo has the date it had,
\* and the time and offset, when it had one.
PulledBack ==
  row.earliest # None =>
    \A photo \in Reread(Exif(row)) :
      LET pulled == Pulled(row, photo) IN
      /\ Representative(pulled) = Representative(row)
      /\ Effective(row) # NoCapture => Effective(pulled) = Effective(row)

\* The text for what follows a period.
Next4(word) ==
  CASE word = "spring" -> "sommer" [] word = "sommer" -> "herbst"
    [] word = "herbst" -> "winter" [] word = "winter" -> "spring"
Next3(word) ==
  CASE word = "early" -> "mid" [] word = "mid" -> "late" [] word = "late" -> "early"

YearAfter(t, years) == [t EXCEPT !.nums = [k \in DOMAIN @ |-> Written(@[k].value + years)]]

Following(r) ==
  LET t == r.display IN
  CASE r.precision = "exact" -> IsoText(r.latest + 1)
    [] r.precision = "month" ->
         LET y == YearOf(r.latest)  m == MonthOf(r.latest) IN
         Text("month a", <<Number(4, IF m = 12 THEN y + 1 ELSE y)>>, Months[(m % 12) + 1])
    [] r.precision = "season" ->
         [YearAfter(t, IF t.word = "winter" THEN 1 ELSE 0) EXCEPT !.word = Next4(t.word)]
    [] r.precision = "year" -> YearAfter(t, 1)
    [] r.precision = "range" -> Text("a", <<Written(t.nums[2].value + 1)>>, "")
    [] r.precision = "decade" ->
         IF t.word = "" THEN YearAfter(t, 10)
         ELSE [YearAfter(t, IF t.word = "late" THEN 10 ELSE 0) EXCEPT !.word = Next3(t.word)]

\* Periods follow each other without a gap and do not overlap: the day after a
\* month, season, year or part of a decade is the first of the next, and the day
\* after a range that of a year, as long as there are dates for it: the last
\* year of the calendar (datetime.MAXYEAR) has no next one, nor a whole winter.
PeriodsTile ==
  row.display # NoText /\ row.latest < Day(9999, 1, 1) =>
    Parse(Following(row)).earliest = row.latest + 1

\* The three places that ask whether an image is finished agree: the progress
\* of the box, the filter for open questions, and the date the upload requires.
DoneAgrees ==
  /\ IsDone(row) <=> ~AnyTodo(row)
  /\ IsDone(row) => ~NeedsDate(row)

=============================================================================

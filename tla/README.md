# diathek in TLA+

diathek is a Django application for a group of people who digitise slides: scanned
images are uploaded into boxes, several people describe them at the same time, the box
is pushed to an Immich photo server, and then archived, which deletes the originals from
disk. This directory holds TLA+ models of the parts in which steps of several actors
meet, the TLC runs that check them, and proofs of their main properties for TLAPS.

Paths below are relative to `src/src/diathek/` unless they start with `src/`.

    tlc -workers 2 -config push_races.cfg MCImmichPush    # any run listed below
    tlapm ImmichPushProofs.tla                            # any module ...Proofs

## The system

Processes and what they share:

- **Web handlers** (`core/views.py`, `core/api/views.py`), run by two gunicorn workers
  (`src/justfile:107`, killed after 1200 s) on one SQLite database.
- **One `db_worker`** (`src/README.md:31`), which takes tasks from a queue in the same
  database. The only task is `finalize_box` (`core/tasks.py`). Every deployment restarts
  it (`src/deploy/diathek-deploy.sh:36`); a task it had claimed is not run again.
- **Browsers**: htmx forms, a poller in `detail.html`, an uploader and the Immich edit page.
- **Immich**, outside: it identifies photos by the checksum of their file, has a trash,
  and reads the metadata in a new file with a delayed ingest job.
- **Files** on disk: originals and thumbnails.

What is atomic. The database runs with `transaction_mode: IMMEDIATE` (`settings.py:104`),
so the body of a `transaction.atomic()` block excludes every other one: it is one step
in the models. Nothing else is. `settings.py:89` does set `ATOMIC_REQUESTS = True`, but
next to `DATABASES` and not in it, where Django looks for it, so a view is *not* one
transaction: what it reads before a block, or without one, may be old when it writes.
`Model.save()` writes every column of the object as it was read.

### Inventory

| component | state | operations | hard because | must hold |
|---|---|---|---|---|
| Upload of a box to Immich | `Box.immich_state`, Immich columns of `Image`, task queue | `box_immich_finalize`, `box_immich_retry`, `finalize_box` | check, save and enqueue are three steps; the task works for minutes on rows it read at its start; either process may be killed | "in progress" has somebody behind it; "uploaded" is true; a signature describes what was sent |
| Archiving | `Box.archived`, originals | `box_archive`, `Box.archive` | completeness is checked before the transaction | no image loses its only copy; archiving is final |
| Editing of images | metadata, `version` | `image_save`, `image_apply_immich`, `image_batch`, API, poller | optimistic versions, several tabs, answers out of order, a task that saves without version | nobody overwrites what he has not seen; tabs catch up |
| Audit log | `AuditLog` | `BaseModel.save`, `log_action` | some writes bypass it | the log explains the row |
| Immich edit round trip | `ImmichEditSession`, assets | `immich_edit_prepare`, `immich_edit_file`, pruning | minutes of network work outside any transaction, then a merge; retries, duplicates, ingest job | photos keep their metadata and albums; sessions end |
| Immich client | – | calls, retries, backoff | an answer may be lost after the call took effect | delays sum to the budget |
| Upload, import, unsorted pool | rows, originals on disk, boxes; the upload page's list | `upload_prepare`, `api_upload`, `import_view`, `unsorted_assign`, `assign_to_box` | numbers computed outside transactions, files copied before rows are saved, answers lost | numbers are unique, rows and files agree, the page tells the truth |
| Driver seat, presence | `DriverState`, `User.last_poll`; the pages | `driver_state`, `state`, `renderDriver` | the seat expires with a throttled poll, requests overtake each other | a present driver keeps the seat, an absent one loses it, followers arrive |
| Dates and the form | `date_*`, `immich_capture_datetime`, flags | `dateparse.parse`, `image_save`, batch, API, Immich photos | each save sends all of the form, so dates are read again and again; time of day and offset survive other dates | nothing drifts; what is exported comes back |
| Invites | `Invite` | `register` | check, then use | used once |
| Places | `Place` | `_resolve_place`, `place_set_coords` | shared by images of all boxes | – |
| Pure functions | – | captions, thumbnails, description stamps | – | – |
| Read-only views, account, deploy | – | – | – | – |

`PROJECT.json` lists every component with its state of modelling, and every hazard with
the line where it bites and the properties about it.

## The modules

| module | what it is |
|---|---|
| `ImmichPush` | one box from its first image to the archive: views, queue, worker, Immich, faults |
| `UploadJob` | what the upload promises: the state a user sees, and whether a job stands behind it |
| `ImageEditing` | one image edited from several tabs and by other writers |
| `ImmichEdit` | photos on Immich replaced by edited versions of their files |
| `DriverSeat` | who drives the slide show, who is present, and the pages that follow |
| `Library` | uploads, imports and assignments: rows, originals on disk and the upload page |
| `Dates` | what `dateparse` makes of a text; no state |
| `ImageForm` | what every way to write a date, a time or a flag makes of one image; extends `Dates` |
| `MC...` | symmetry sets, inputs and a state constraint for TLC |
| `...Proofs` | theorems and their proofs, for each of these; those of `Library` fill two modules, `LibraryProofs` (files) and `LibraryTableProofs` (numbers, types, the upload page) |

Definitions whose comment begins with "Mutant" are not part of a specification. Each is
an action or operator with a plausible mistake; put in place of the right one, it breaks
a property, which shows that the property says something about the code.

### ImmichPush

A view that reads the box and saves it later is two or three steps. `Begin...` are the
guards of a view; the row it will save is then held in `req[r].box`. `SaveInProgress`,
`SaveBoxEdit`, `Enqueue`, `Archive` and `CreateImage` are the later steps. `worker` is
`finalize_box` between two of its reads, writes or calls: `pc` is its place in
`core/tasks.py`, `box` and `snap` are the rows it has read, `up` is the upload it has
not recorded yet. Every box save of the worker writes `worker.box`, and `WorkerSave`
writes the whole copy of the image, as the code does.

The exported metadata of an image are one value `text`. `Undated` stands for all of them
without a usable date; a dated text has a place, so that coordinates matter. A file is
identified by what is rendered into it (`Content`), which is how Immich tells assets
apart. The signature is the text, and, as in `compute_immich_signature`, not the
coordinates of the place. `EditImage` stands for all transactional edits.

`UploadJob` is the abstract specification. The refinement maps its `active` to
`JobActive`: a request about to enqueue, a queued task, or a busy worker.

### ImageEditing

`tab` is what a browser tab shows and what is typed into it, `net` the requests and
answers under way, unordered. `shown` is what the form came with, `form` what its inputs
show now, `dialog` what the dialog for open questions shows while it is open
(`ShowTodoModal` ... `Dismiss`). htmx sends the whole form with each change, with the
version of the form in `If-Match`; the dialog sends its own fields, as the form showed
them when it was opened, with the version the form has when they are sent. `Commit`,
`Noop` and `Conflict` are the three results of `apply_image_updates`; they are one step
with the view that calls it in a transaction (`ImageSave`), while `image_apply_immich`
waits for Immich between its check and its write (`FetchImmich`, `ImmichSave`). An
answer only shows if its form is still there (`live`): htmx and `replaceWith` do nothing
to a form that has been replaced. Conflicts have status 409, which htmx 2 does not swap,
so `Ignore` takes them; nor does it swap the 400 of a value that is none and the 403 of
an archived box (`Refuse`). A form that the poller or the dialog has put in place
without `htmx.process` is `inert`: its inputs send nothing until the page is opened
again. `unsent` is a history variable: the inputs show something that came to nothing,
because the form is inert, or its save was lost or refused. So is `reverted`:
`finalize_box` has put an old version of the row back.

### ImmichEdit

Per file, Immich has one asset for every version of the photo (equal checksums are one
asset) and one for a truncated upload. `req` is a running `immich_edit_file`: `pc` is
its place in `_immich_edit_replace`, `item` the copy of the session item it works on.
`Merge` is the locked transaction at the end. Every call may fail, may be the last of a
killed process, and may have taken effect though it counts as failed (the error comes
after the step). Immich itself is modelled from how `core/immich.py` and its comments
use it: an upload whose checksum it knows is answered with the asset it has, in its
trash too, and the ingest job overwrites the metadata of a new asset once.

Users who upload a version older than the one they replace (`Reverts`) are left out of
the runs: see the known disagreements below.

### DriverSeat

Times are ages, counted up to `Old`, which stands for everything longer ago than the
window and for never; so the state is finite though time is not. A request to `state` or
`driver_state` is a record in `req` that goes through `_bump_last_poll` (`Bump`), the
transaction (`Take`, `ReleaseSeat`) and the answer (`Snapshot`) in steps of their own.
`since` is how long ago its `now` was taken and `seen` the `last_poll` of the user it
was authenticated with, which is what the throttle compares. `live` says that the page
it came from is still there. `page` is the slide show in a browser: the image it shows,
what the indicator says, and whether `renderDriver` has called `syncDriverPosition`.
`quiet` is a history variable: the time since a user was last heard of. It is what a
reader means by presence, while `age` is what the database says.

### Library

One slot of `req` is one gunicorn worker. `api_upload` looks the box up (`Upload`) before
its transaction (`Store`); the answer is delivered, lost, or arrives and cannot be read
(`Unread`), which is what happens when the session has ended, or the right to upload, and
the request is sent on to the login page (`Login`). `upload.js` takes such an answer for
an empty one: files are "done", and a page that was preparing sends its files to the pool.
`page.blind` has the files that were answered so. `unsorted_assign`
runs outside any transaction: it reads (`AssignBegin`), numbers (`AssignNumber`), and for
each image copies (`AssignCopy`) and saves the row it has read at the start
(`AssignSave`, with the deletion of the old files after the commit). `disk` is the set of
originals by path (thumbnails go the same way): box, image, and a number for what the
storage adds to a name that is taken. A row remembers where it was `born`, for the
properties. The plain form (`Import`) is one transaction, whose failure
(`ImportFails`) leaves the files it has written and uses up their images' UUIDs.

### Dates and ImageForm

A text is what separates its parts (`shape`), its numbers with their digits, and its
word. Which of several spellings is used makes no difference to any matcher. Days are
numbered as `date.toordinal` does. `Parse` tells by the shape what the code tells by
trying twelve regular expressions in order; where two of them take the same text
(`1972-05`, `1972-99`), the order is kept. The last winter of the calendar has no end, so
`Season` fails for it: the code raises a `ValueError` that nobody catches, and nothing is
saved.

`row` has the columns of one image. Forms are not kept: a save is what the form shows
(`Rendered`) with one input changed, since whether a save from an older form is accepted
is the matter of `ImageEditing`. `WriteDate` is the batch and the API, `Pull` a photo on
Immich. `Exif` is the date and time an export carries and `Reread` how Immich reads it
back (external). `chosen` is history: the time of day somebody chose last.

## What the runs check

Runs that pass:

| run | states | what it shows |
|---|---|---|
| `push_races` | 1.6 M | all five views, all four faults, two images, the second arriving late: `SignatureDescribesAsset`, `UploadedMeansPushed` |
| `push_job` | 0.3 M | two racing requests, two images, failing tasks, no killed process: `UploadRunning`, `OriginalSurvives`, `CurrentIsStored`, and that this implements `UploadJob`, liveness included |
| `image_editing` | 4.8 M | two tabs, two messages under way, batch and worker: `VersionNamesData`, `OwnEditsUntilReverted` |
| `image_tabs` | 0.4 M | one tab with form and dialog, two messages under way, batch, Immich values, archiving, values that are refused, lost messages, pages opened again: `LogExplainsRow`, and `TabsCatchUp` under fairness |
| `edit_sessions` | 1.1 M | two files, two sessions, two requests, errors and killed processes: `PhotoKept`, `OpenSessionUnfinished` |
| `edit_versions` | 0.3 M | one photo in three versions, two attempts per upload, every fault: `PhotoKept` |
| `driver_seat` | 3.7 M | two users, two requests under way, time, hidden tabs, archiving: `PresenceIsNoted`, `SeatExpires`, `SeatTakenFromAbsent`, `OnlyDriverReleases`, `DriverIsPresentAtFirst` |
| `driver_follow` | 0.2 M | two images, one page follows the other: `FollowersArrive` under fairness |
| `library_uploads` | 0.3 M | three files, two of the same content, lost and unreadable answers, the login page, killed workers: `DoneIsStored`, `UploadedOnce` |
| `library_assign` | 0.2 M | two overlapping assignments, two boxes, deletion, archiving, killed workers: `RowsHaveFiles`, `NumbersFit` |
| `image_form` | 0.1 M | twenty texts, six photos, in any order: `PeriodIsRead`, `UntouchedFormKeeps`, `TimeIsKept`, `PulledBack`, `PeriodsTile`, `DoneAgrees` |

One run ends in a counterexample, against a sentence of the repository: `original_lost`.
Completeness is checked before the transaction of `box_archive` (`core/views.py:1328`),
and an image uploaded in between loses its original without a copy on Immich, while the
view says "Box muss zuerst vollständig zu Immich hochgeladen werden."
(`core/views.py:1330`). `push_job` checks the same property without uploads into the
box.

### Known disagreements

These are left out of the runs by a bound, a constant or the wording of a property. Each
shows up within seconds when that is lifted.

- **Archiving can be undone.** `finalize_box` saves all columns of the box it read when it
  started (`core/tasks.py:86`); if the box was archived meanwhile, `archived` goes back
  ("Archivieren ist endgültig.", `box_archive.html:49`). No property states that archived
  boxes stay so.
- **A box may stay "in progress".** A request killed between the save and the enqueueing,
  or a killed worker, leaves the state behind (`core/views.py:1402`), and every new
  attempt is refused ("Upload läuft bereits."). `push_job`, which checks `UploadRunning`,
  has no killed process.
- **`finalize_box` overwrites edits.** It saves the image it loaded, version included
  (`core/tasks.py:64`), so edits made meanwhile are lost and a version is used twice,
  though "every write to an image carries the version it is editing"
  (`core/views.py:822`). `ImageEditing` notes this in `reverted`, and its properties
  claim nothing from then on.
- **Conflicts are not shown.** The fragment for a conflict has status 409
  (`core/views.py:886`), which htmx 2 does not swap; "aktuelle Werte wurden neu geladen"
  (`_image_metadata.html:16`) does not appear. The tab catches up by polling.
- **Values that were never saved stay.** After a save that was lost, or answered with 400
  or 403 (which htmx does not swap either), the inputs keep what was typed, and the version
  of the form is current, so the poller leaves them alone until somebody else saves the
  image. `TabsCatchUp` claims nothing of such a tab (`unsent`).
- **Replaced forms do not save.** The poller and the dialog put a new form in place with
  `replaceWith` and no `htmx.process` (`core/templates/core/detail.html:398` and `:569`),
  so its `hx-` attributes are dead, and what is typed into it is lost until the page is
  opened again. The script knows that "polling code replaces the form directly (not via
  htmx)" (`detail.html:467`) where it shows flipped slides, but not here.
- **The dialog may overwrite unseen edits.** It takes its values when it is opened and the
  version of the form when it is applied (`detail.html:534` and `:559`). If the poller has
  replaced the form in between, values of somebody else that the dialog never showed are
  set back without a conflict. `OwnEdits` is stated of saves of the form only.
- **"fertig" need not mean stored.** `uploadOne` takes any ok answer without a readable
  body for an accepted file (`core/static/core/upload.js:151`), such as the login page a
  request is redirected to, and `prepare` does so for a box, which then is the pool
  (`upload.js:137`). `DoneIsStored` claims nothing of files whose answer was not read
  (`blind`), and of the others that they are where the page sends them, which after such
  a preparation is the pool, not the box that was chosen.
- **The time of day outlives its date.** The comment on the column says it is "ignored once
  the date is edited away from it" (`core/models/image.py:98`); the code, the docstring
  beside it (`core/models/image.py:198`) and a test (`src/src/tests/models/test_image.py:194`)
  combine it with whatever day the date has. `TimeIsKept` follows these.
- **Replacing a photo by its first version.** Immich answers such an upload with the asset
  it has in its trash, and then the edited version is trashed as well
  (`core/views.py:1655`). `Reverts = FALSE` excludes it; the repository cannot confirm
  that Immich answers so.
- **Years below 1000.** `str(year)` drops their zeros: "0085" is kept as "85", which the
  next save of the form reads as 1985. `TextsAssumption` excludes them.

### Bounds

- `QueueBound = 1` (ImmichPush): no further upload is requested while a task waits. The
  worker may be busy with another one, and a second request past its guard may enqueue
  too, so up to three jobs exist.
- Two images: one that is current or already uploaded while the other is in work, or
  missing when the worker loads the box. A third adds no new relation to the loop.
- `MaxVersion = 3` and `MaxMessages = 2` (ImageEditing): two saves after the first version,
  so that a stale request, the save that made it stale and one more write meet. In
  `image_editing` the constraint `NotReverted` cuts behaviours after `finalize_box` has put
  an old row back, as the properties of that run claim nothing from there on, and
  `NothingTypedInVain` cuts off what is typed into an inert form, which reaches nobody.
  `image_tabs` has neither; there one tab with one field meets everybody else, as the other
  people who save are the batch, and what a tab shows does not depend on other tabs.
- `Attempts = 2` (ImmichEdit) instead of 3: one retry and one last attempt.
- Two requests, tabs and sessions: every race here is between two. They are
  interchangeable, as are files, which the runs without liveness use as symmetry.
- `Window = 3`, `Throttle = 1`, `Latency = 1` (DriverSeat) for 60 seconds, 30 seconds,
  and a request of less than 30: one tick less and the assumption fails, which the
  proofs need too. The second image and the follower are in `driver_follow`, without
  time: who drives is settled in `driver_seat`, with one image.
- `Ids` (Library): three images in `library_assign`, as many as one assignment of two and
  another upload need; two in `library_uploads`, where the second is the one that must not
  be stored again.
  `MaxCopy = 1`: two requests can make two copies of one image in one box, and no more.
- `MCTexts` (ImageForm): every matcher at least once, short and full years in two
  centuries, leap days, a year that ends in a season, dates that are none.
- `CHECK_DEADLOCK FALSE` where the system stops when its users do, at `MaxVersion`, or
  when every image is used up. Polling pages and forms never stop (`image_form`).

### Fairness

- `ImmichPush`: weak fairness of the worker and of each started request. `db_worker`
  takes the next task whenever there is one, and a handler runs on once started. Users
  and faults are under no obligation. Refinement of `UploadJob`'s liveness is checked
  without killed processes only, as it is false otherwise.
- `ImageEditing`: weak fairness of polling, and for each tab of serving and delivering its
  messages of each kind: `detail.html` polls on a timer and repeats until it has an answer,
  and gunicorn does not put off a save for ever because other requests keep coming. A form
  in use is left alone, so `TabsCatchUp` allows for one that keeps the focus. Nobody has to
  type, to apply or close the dialog, or to open the page again.
- `DriverSeat`: time passes; visible pages poll, and send their position when they have
  noticed that it is not the driver's (strongly fair, as the slots of `Requests` may all
  be in use now and then, while browsers have as many as they need); the server works and
  answers arrive; a follower is not found typing at every single answer. Nobody has to
  claim, release, navigate or come back to a hidden tab.
- `Library` and `ImageForm` state no fairness: an upload that fails waits for its user.
- `ImmichEdit` states no fairness and no liveness: a session whose browser has gone is
  left to the nightly job, which is not part of the application's promise.

## What is proved

Every safety property of the passing runs is also a theorem. The theorems hold for every
value of the constants: any number of images, requests, tabs, fields, values, texts and
metadata, every set of views, writers and faults, under the named assumptions on constants
in the modules (markers such as `NoAsset` are not in the sets they extend; image numbers
are naturals; the bounds are naturals; more where named).

**ImmichPush**

- `TypeCorrect`, `SignatureCorrect`: `SignatureDescribesAsset` is not inductive, since rows
  are written from the worker's copies. `SignatureIInv` adds that the copies are honest as
  well, and that the upload the worker is about to record was rendered from the very copy
  it will record it on. Type correctness needs this too (the asset saved is one), so both
  are one induction.
- `PushedCorrect`: a box row that says "uploaded" may be held by a request or the worker
  and written back at any time. `PushedIInv` says that whoever holds one came after all
  first images got their asset, that no step takes an asset away again, and what the
  worker's loop has done so far.
- `JobSafetyCorrect`, `RunningCorrect`: each step of `ImmichPush` is a step of
  `UploadJob` or none, from which `UploadRunning` follows. Assumption `Undisturbed`: no
  process is killed and no box is edited. Both do break it.
- `FirstImagesSurvive`: an image that was in the box from the start keeps its original or
  its upload, without any restriction of views and faults. By `PushedCorrect` a box row
  that lets `box_archive` pass was made after its upload. For images that come later this
  is false (`original_lost`); `SurvivalCorrect` proves `OriginalSurvives` for all images
  when `"upload"` is not among the views, that is, nothing is uploaded into the box while
  it is worked on.
- `StoredCorrect`: `CurrentIsStored`, with the invariant that the server holds at least
  what the row, the worker's copies and its unrecorded upload name. Assumption:
  `"assetLost"` is not among the faults, nobody deletes photos on Immich.

**ImageEditing**

- `TypeCorrect`, `VersionCorrect`: `VersionNamesData` is inductive beside `TypeOK`. A write
  makes a version nobody holds yet, and every other step copies a version together with
  its metadata.
- `OwnEditsCorrect`: an accepted save carries the current version, so by `VersionCorrect`
  its form showed the current metadata, and what it changes was edited by its user.
  Saves of the dialog are not claimed to be so (see the known disagreements).
- `LogCorrect`: likewise for the audit log, of the fields in `log_tracked_fields`
  (`core/models/image.py:114`; the time of an Immich photo is not one of them). What the
  worker writes back is, by `VersionCorrect`, either the current metadata or a reversion.

**ImmichEdit**

- `TypeCorrect` and, with it, `RequestIInv`: a request that runs has a session and works on
  a file of it.
- `SessionCorrect`: `OpenSessionUnfinished`. Merges are locked, so the one that finishes the
  last file also deletes the session.
- `PhotoCorrect`: `PhotoKept`, which is far from inductive: requests work for minutes on
  what they have read. The invariant says of each photo which version stands for it, that
  this one has its metadata and albums and no ingest job ahead of it, and of each request
  what it has done already: before it trashes a version, the one that takes its place is
  complete, and a request that is late works on a version that no longer matters.
  Assumption: `Reverts = FALSE` (see the known disagreements).

**DriverSeat**

- `InvariantCorrect`: what is noted of a user (`age`) is at least `quiet`, and exceeds it by
  no more than throttle and latency. That is not inductive alone, since a request decides
  by what it has read before whether it notes anything: so the invariant also says of each
  request how old the record of its user is at most, if what it has read lies within the
  throttle. `TypeCorrect`, `PresenceCorrect`, `ExpiryCorrect`, `TakenCorrect`,
  `ReleaseCorrect` and `FirstPresentCorrect` follow. Assumption `TimesAssumption`: a
  request takes no longer than the throttle, and both together less than the window, that
  is, less than 30 seconds. Nothing in the code bounds a request below the 1200 seconds
  gunicorn allows.

**Library**

- `FilesCorrect`: no image loses its original. The invariant `StoreIInv` says that the copy
  an assignment is about to save is on disk, in no row and with no other assignment
  (`Pending`), and that what it has read was an image of the pool (`ReadOK`): the old file
  it deletes lies there, and what the rows of boxes name does not. `OnceCorrect` is part of
  the same induction: a content is stored in the place it was uploaded to once, since the
  look for it and the new row are one transaction, and no step brings an image back to
  where it was uploaded to.
- `LibraryTableProofs!TypeCorrect` and `NumbersCorrect` (`NumbersFit`): the next number is
  the largest of its box and one more, so both need that a finite set of numbers has a
  largest one. A set without one would have strict subsets of itself without one for ever,
  which the well-foundedness of finite sets excludes. Assumption `IdsAssumption`: the
  images are finitely many (UUIDs have 128 bits).
- `DoneCorrect` (`DoneIsStored`): an answer that says "done" or "duplicate" is under way or
  read only after its row is there, and rows stay until their box is gone (`PageIInv`). The
  file of an answer that could not be read is `blind`, and nothing is claimed of it.

**Dates and ImageForm**

- `DatesProofs` has the theory of the calendar that the others rest on. A day has a year:
  it is found by 400-, 100-, 4- and 1-year cycles as an explicit witness for the choice in
  `YearOf`, and years do not overlap; months likewise (`DateOfIs`). Each text of each shape
  is read as a period from the first to the last day of the calendar that does not end
  before it begins (`ParseIsProper`), an ISO date as its day (`IsoIsRead`), and a date that
  has been read and rewritten is read as the same period in the same spelling
  (`ParseIsStable`).
- `FormCorrect`: the inductive invariant `FormIInv`, for every set of texts (with years
  from 1000 on), photos, times and places. `TypeCorrect`, `ReadCorrect`
  (`PeriodIsRead`), `TimeCorrect` (`TimeIsKept`: the time is stored, and exported once
  there is a day), `UntouchedCorrect` (`UntouchedFormKeeps`) and `DoneCorrect`
  (`DoneAgrees`) follow.
- `PulledBackCorrect` (`PulledBack`): the instant of an export without an offset is noon in
  the zone of the server, which is the same day for offsets from -11 to 12 hours
  (`OffsetsAssumption`).
- `TileCorrect` (`PeriodsTile`): by shape of the text. It says nothing of periods that end
  in 9999, the last year of `datetime`, after which there are no dates to follow.

The invariants were checked by TLC before they were proved. Only model-checked are the
properties that need fairness, which is beyond the prover: `TabsCatchUp`,
`FollowersArrive` and the liveness part of `JobRefinement`.

## What is not modelled

- Transactions that fail, SQLite time-outs, and files left behind by them (but for
  `ImportFails` and the constraints `assign_to_box` may meet).
- In `ImmichPush`: names, album links and error texts; thumbnails; more than one box.
- In `ImageEditing`: description stamps; creating places; which values are refused with 400
  (any may be, with the writer `"invalid"`); sessions that end while a page is open, whose
  requests are taken for lost; columns that are not tracked by the audit log.
- In `ImmichEdit`: links of single photos, two file names with one stem, the list of
  recent links, retries inside the HTTP client (a call takes effect or not).
- In `DriverSeat`: one user with several visible tabs, whose pages send their positions in
  turn; two users of the same display name, by which `detail.html:263` knows the driver;
  a request that hangs in the browser, which ends the polling of its page; the list of
  present users and the progress.
- In `Library`: the kill between the commit of `assign_to_box` and its clean-up, which
  leaves a file no row names; removing pending files from the list; `sort_order`;
  several users with upload pages (other writers are `Import` and the assignments).
- In `ImageForm`: fractions of a second, which the time input drops; server zones beyond
  UTC-11 and UTC+12, where the noon of an export is another day; year 0.
- Invites and registration, account settings, tokens, the deploy trigger, description
  stamps, thumbnails, and the read-only views: `PROJECT.json` has the reasons.

## Plan

1. `ImageEditing`, `DriverSeat`: the safety parts of `TabsCatchUp` and `FollowersArrive`
   (what a tab that is behind has under way) as invariants of their own, then theorems.
2. `ImmichPush`: `RunningCorrect` with box edits, for the requests that do not race them.
3. `ImmichEdit`: what a request may still trash, as an action property.
4. `Invite`: registration with check and use, and the pure algorithms that are left
   (`_backoff_delays`, `match_edit_filenames`) against reference definitions.

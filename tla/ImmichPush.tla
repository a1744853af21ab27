----------------------------- MODULE ImmichPush -----------------------------
(***************************************************************************)
(* The life of one box of slides: its images are edited, pushed to the     *)
(* Immich photo server by a background task, and the box is archived,      *)
(* which deletes the originals from disk.                                  *)
(*                                                                         *)
(* Three kinds of process share the database: the web handlers (core/      *)
(* views.py, several gunicorn workers), the one db_worker process that     *)
(* runs finalize_box (core/tasks.py), and the Immich server outside.       *)
(*                                                                         *)
(* Views are not atomic: a handler reads the box row, and a later          *)
(* box.save() writes EVERY column of the row it read back.  A handler is   *)
(* therefore two or three steps here, and the row it holds in between is   *)
(* part of its state.  Only what runs inside transaction.atomic() is one   *)
(* step.  Name, description, album url and error text of the box are not   *)
(* modelled; what matters is which columns a save rewrites.                *)
(***************************************************************************)
EXTENDS Naturals, FiniteSets

CONSTANTS
  Images,      \* sequence numbers the box can hold, 1 .. n
  InitImages,  \* those in the box at the start
  Texts,       \* exported metadata (date, place, caption, flip) with a date and a place
  Undated,     \* exported metadata of an image without a usable date
  Todos,       \* "none" and those of "date", "edit", "place" the users set
  Coords,      \* coordinates the users give to the place of the images
  NoCoords,    \* the place has no coordinates yet
  NoAsset, NoSig, Absent,
  Requests,    \* web requests in flight at the same time
  Views,       \* views the users call
  Faults,      \* faults that happen
  QueueBound   \* no new upload is requested while so many tasks wait

AllTodos == {"none", "date", "edit", "place"}
AllViews == {"finalize", "retry", "archive", "boxEdit", "upload"}
AllFaults == {"webCrash", "workerCrash", "taskError", "assetLost"}

ASSUME ImagesAssumption == Images \subseteq Nat /\ InitImages \subseteq Images
ASSUME TextsAssumption == Undated \notin Texts /\ NoSig \notin Texts \cup {Undated}
ASSUME CoordsAssumption == NoCoords \notin Coords
ASSUME TodosAssumption == "none" \in Todos /\ Todos \subseteq AllTodos
ASSUME BoundsAssumption ==
  Views \subseteq AllViews /\ Faults \subseteq AllFaults /\ QueueBound \in Nat

Text == Texts \cup {Undated}

\* What a processed file holds.  Immich identifies an asset by the checksum
\* of the file, so equal contents are the same asset.
Content == [image: Images, text: Text, coords: Coords \cup {NoCoords}]

ASSUME MarkersAssumption ==
  /\ NoAsset \notin Content
  /\ Absent \notin [text: Text, todo: Todos, asset: Content \cup {NoAsset},
                    sig: Text \cup {NoSig}, original: BOOLEAN]

BoxRow == [archived: BOOLEAN,
           state: {"not_uploaded", "in_progress", "uploaded", "failed"}]

ImageRow == [text: Text, todo: Todos, asset: Content \cup {NoAsset},
             sig: Text \cup {NoSig}, original: BOOLEAN]

Rows == [Images -> ImageRow \cup {Absent}]

VARIABLES
  box,      \* the row of the box
  rows,     \* the rows of its images
  files,    \* images whose original file is on disk
  coords,   \* coordinates of the place of the images
  immich,   \* assets on the Immich server
  req,      \* the web requests in flight
  pending,  \* finalize_box tasks for this box waiting in the queue
  worker    \* the db_worker process

vars == <<box, rows, files, coords, immich, req, pending, worker>>

----------------------------------------------------------------------------
(* The models: Image and Box *)

Present(rs) == {i \in Images : rs[i] # Absent}

\* Image.immich_is_current: uploaded, and no exported field edited since.
\* The signature covers the text, not the coordinates of the place.
IsCurrent(row) == row.asset # NoAsset /\ row.sig = row.text

HasOpenTodos(row) == row.todo # "none"

NeedsDate(row) == row.todo = "date" \/ row.text = Undated

PlaceMissingCoords(row) == row.text # Undated /\ coords = NoCoords

\* Box.immich_complete
ImmichComplete == Present(rows) # {} /\ \A i \in Present(rows) : IsCurrent(rows[i])

\* Box.can_archive
CanArchive == ~box.archived /\ \A i \in Present(rows) : ~HasOpenTodos(rows[i])

NewRow == [text |-> Undated, todo |-> "none", asset |-> NoAsset,
           sig |-> NoSig, original |-> TRUE]

\* The row of a new box; also what a process holds that will save no row.
NoRow == [archived |-> FALSE, state |-> "not_uploaded"]

IdleRequest == [at |-> "idle", box |-> NoRow]

IdleWorker == [pc |-> "idle", box |-> NoRow,
               snap |-> [i \in Images |-> Absent], todo |-> {}, up |-> NoAsset]

Init ==
  /\ box = NoRow
  /\ rows = [i \in Images |-> IF i \in InitImages THEN NewRow ELSE Absent]
  /\ files = InitImages
  /\ coords = NoCoords
  /\ immich = {}
  /\ req = [r \in Requests |-> IdleRequest]
  /\ pending = 0
  /\ worker = IdleWorker

----------------------------------------------------------------------------
(* Edits that are one transaction *)

\* image_save, image_batch and the API: archived box checked and fields
\* written in one transaction.  ImageEditing models their version check.
EditImage(i) ==
  /\ rows[i] # Absent
  /\ ~box.archived
  /\ \E text \in Text, todo \in Todos :
       /\ <<text, todo>> # <<rows[i].text, rows[i].todo>>
       /\ rows' = [rows EXCEPT ![i].text = text, ![i].todo = todo]
  /\ UNCHANGED <<box, files, coords, immich, req, pending, worker>>

\* place_set_coords: no box, archived or not, is looked at.
PlaceSetCoords ==
  /\ \E c \in Coords : c # coords /\ coords' = c
  /\ UNCHANGED <<box, rows, files, immich, req, pending, worker>>

----------------------------------------------------------------------------
(* Web requests *)

\* A handler has passed its guards and goes on to the step `at', with the
\* row of the box it will save there.
Begin(r, view, at, row) ==
  /\ view \in Views
  /\ req[r].at = "idle"
  /\ req' = [req EXCEPT ![r] = [at |-> at, box |-> row]]
  /\ UNCHANGED <<box, rows, files, coords, immich, pending, worker>>

Goes(r, from, to) ==
  /\ req[r].at = from
  /\ req' = [req EXCEPT ![r] = to]

\* box_immich_finalize up to its guards (_immich_finalize_rejection).
BeginFinalize(r) ==
  /\ ~box.archived
  /\ box.state # "in_progress"
  /\ Present(rows) # {}
  /\ \A i \in Present(rows) :
       /\ ~NeedsDate(rows[i])
       /\ ~PlaceMissingCoords(rows[i])
       /\ rows[i].todo # "edit"
  /\ pending < QueueBound
  /\ Begin(r, "finalize", "save", box)

\* box_immich_retry up to its guards: the state alone decides.
BeginRetry(r) ==
  /\ box.state = "failed"
  /\ ~box.archived
  /\ pending < QueueBound
  /\ Begin(r, "retry", "save", box)

\* box.save() of both views writes back the row the handler has read.
SaveInProgress(r) ==
  /\ Goes(r, "save", [at |-> "enqueue", box |-> NoRow])
  /\ box' = [req[r].box EXCEPT !.state = "in_progress"]
  /\ UNCHANGED <<rows, files, coords, immich, pending, worker>>

\* finalize_box.enqueue
Enqueue(r) ==
  /\ Goes(r, "enqueue", IdleRequest)
  /\ pending' = pending + 1
  /\ UNCHANGED <<box, rows, files, coords, immich, worker>>

\* Mutant: the view forgets to ask for a complete upload.
BeginArchiveUnchecked(r) ==
  /\ ~box.archived
  /\ Begin(r, "archive", "archive", NoRow)

\* box_archive: completeness is checked before the transaction ...
BeginArchive(r) ==
  /\ ~box.archived
  /\ ImmichComplete
  /\ Begin(r, "archive", "archive", NoRow)

\* ... and Box.archive() checks can_archive again, on a fresh row, inside it.
Archive(r) ==
  /\ Goes(r, "archive", IdleRequest)
  /\ CanArchive
  /\ box' = [box EXCEPT !.archived = TRUE]
  /\ rows' = [i \in Images |->
                IF rows[i] = Absent THEN Absent ELSE [rows[i] EXCEPT !.original = FALSE]]
  /\ files' = files \ {i \in Present(rows) : rows[i].original}
  /\ UNCHANGED <<coords, immich, pending, worker>>

ArchiveRejected(r) ==
  /\ Goes(r, "archive", IdleRequest)
  /\ ~CanArchive
  /\ UNCHANGED <<box, rows, files, coords, immich, pending, worker>>

\* box_edit: a ModelForm saved onto the row read at the start.
BeginBoxEdit(r) ==
  /\ ~box.archived
  /\ Begin(r, "boxEdit", "boxSave", box)

SaveBoxEdit(r) ==
  /\ Goes(r, "boxSave", IdleRequest)
  /\ box' = req[r].box
  /\ UNCHANGED <<rows, files, coords, immich, pending, worker>>

\* api_upload: the target box is resolved before the transaction ...
BeginUpload(r) ==
  /\ ~box.archived
  /\ Begin(r, "upload", "create", NoRow)

\* ... that stores the file and creates the row, at the next sequence number.
CreateImage(r) ==
  /\ Goes(r, "create", IdleRequest)
  /\ \E i \in Images \ Present(rows) :
       /\ \A j \in Images \ Present(rows) : i <= j
       /\ rows' = [rows EXCEPT ![i] = NewRow]
       /\ files' = files \cup {i}
  /\ UNCHANGED <<box, coords, immich, pending, worker>>

\* The file is a duplicate, no image, or has the name of another one.
CreateRejected(r) ==
  /\ Goes(r, "create", IdleRequest)
  /\ UNCHANGED <<box, rows, files, coords, immich, pending, worker>>

RequestStep(r) ==
  \/ SaveInProgress(r) \/ Enqueue(r)
  \/ Archive(r) \/ ArchiveRejected(r)
  \/ SaveBoxEdit(r)
  \/ CreateImage(r) \/ CreateRejected(r)

BeginRequest(r) ==
  \/ BeginFinalize(r) \/ BeginRetry(r) \/ BeginArchive(r)
  \/ BeginBoxEdit(r) \/ BeginUpload(r)

----------------------------------------------------------------------------
(* finalize_box, run by the db_worker *)

\* Mutant: the worker runs a task without taking one from the queue.
WorkerClaimEmpty ==
  /\ worker.pc = "idle"
  /\ pending' = pending - 1
  /\ worker' = [IdleWorker EXCEPT !.pc = "mark", !.box = box]
  /\ UNCHANGED <<box, rows, files, coords, immich, req>>

\* Take a task from the queue and read the box.  A user without an API key
\* or a server without Immich ends in the failing save at once.
WorkerClaim ==
  /\ worker.pc = "idle"
  /\ pending > 0
  /\ pending' = pending - 1
  /\ \E pc \in {"mark"} \cup (IF "taskError" \in Faults THEN {"fail"} ELSE {}) :
       worker' = [IdleWorker EXCEPT !.pc = pc, !.box = box]
  /\ UNCHANGED <<box, rows, files, coords, immich, req>>

\* box.save() with the row just read.
WorkerMark ==
  /\ worker.pc = "mark"
  /\ box' = [worker.box EXCEPT !.state = "in_progress"]
  /\ worker' = [worker EXCEPT !.pc = "load", !.box.state = "in_progress"]
  /\ UNCHANGED <<rows, files, coords, immich, req, pending>>

\* images = list(...): the one read of the images.  Those that are current
\* are skipped, the others are left to upload.
WorkerLoad ==
  /\ worker.pc = "load"
  /\ worker' = [worker EXCEPT !.pc = "upload", !.snap = rows,
                  !.todo = {i \in Present(rows) : ~IsCurrent(rows[i])}]
  /\ UNCHANGED <<box, rows, files, coords, immich, req, pending>>

NextToUpload(i) == i \in worker.todo /\ \A j \in worker.todo : i <= j

\* Render the original with the metadata of the loaded image and of the
\* place, which is fetched now, and upload the file.
WorkerUpload ==
  /\ worker.pc = "upload"
  /\ \E i \in worker.todo :
       /\ NextToUpload(i)
       /\ worker.snap[i].original /\ i \in files
       /\ LET c == [image |-> i, text |-> worker.snap[i].text, coords |-> coords] IN
            /\ immich' = immich \cup {c}
            /\ worker' = [worker EXCEPT !.pc = "save", !.up = c]
  /\ UNCHANGED <<box, rows, files, coords, req, pending>>

\* The stored original is gone: render_processed_image raises.
WorkerNoOriginal ==
  /\ worker.pc = "upload"
  /\ \E i \in worker.todo :
       NextToUpload(i) /\ (~worker.snap[i].original \/ i \notin files)
  /\ worker' = [worker EXCEPT !.pc = "fail"]
  /\ UNCHANGED <<box, rows, files, coords, immich, req, pending>>

\* Mutant: the signature is taken of what the database says by now.
UploadedSignsCurrent(row, c) == [row EXCEPT !.asset = c, !.sig = rows[c.image].text]

\* image.save() writes the whole loaded row back, with the asset.
Uploaded(row, c) == [row EXCEPT !.asset = c, !.sig = row.text]

\* Mutant: only the Immich columns are saved, signed as the row reads by now.
WorkerSaveColumns ==
  /\ worker.pc = "save"
  /\ \E i \in worker.todo :
       /\ NextToUpload(i)
       /\ LET row == [rows[i] EXCEPT !.asset = worker.up, !.sig = rows[i].text] IN
            /\ rows' = [rows EXCEPT ![i] = row]
            /\ worker' = [worker EXCEPT !.pc = "upload", !.snap[i] = row,
                            !.todo = worker.todo \ {i}, !.up = NoAsset]
  /\ UNCHANGED <<box, files, coords, immich, req, pending>>

WorkerSave ==
  /\ worker.pc = "save"
  /\ \E i \in worker.todo :
       /\ NextToUpload(i)
       /\ LET row == Uploaded(worker.snap[i], worker.up) IN
            /\ rows' = [rows EXCEPT ![i] = row]
            /\ worker' = [worker EXCEPT !.pc = "upload", !.snap[i] = row,
                            !.todo = worker.todo \ {i}, !.up = NoAsset]
  /\ UNCHANGED <<box, files, coords, immich, req, pending>>

\* add_to_album, then bulk_check of the loaded images that have a checksum.
AllStored ==
  \A i \in Present(worker.snap) :
    worker.snap[i].asset # NoAsset => worker.snap[i].asset \in immich

WorkerVerify ==
  /\ worker.pc = "upload"
  /\ worker.todo = {}
  /\ worker' = [worker EXCEPT !.pc = IF AllStored THEN "finish" ELSE "fail"]
  /\ UNCHANGED <<box, rows, files, coords, immich, req, pending>>

\* box.save(): the row read when the task started, with the final state.
WorkerFinish ==
  /\ worker.pc = "finish"
  /\ box' = [worker.box EXCEPT !.state = "uploaded"]
  /\ worker' = IdleWorker
  /\ UNCHANGED <<rows, files, coords, immich, req, pending>>

\* Mutant: the error is raised without being saved on the box.
WorkerFailUnsaved ==
  /\ worker.pc = "fail"
  /\ worker' = IdleWorker
  /\ UNCHANGED <<box, rows, files, coords, immich, req, pending>>

WorkerFail ==
  /\ worker.pc = "fail"
  /\ box' = [worker.box EXCEPT !.state = "failed"]
  /\ worker' = IdleWorker
  /\ UNCHANGED <<rows, files, coords, immich, req, pending>>

\* Mutant: the exception leaves the task without its except clause.
WorkerErrorEscapes ==
  /\ "taskError" \in Faults
  /\ worker.pc \in {"load", "upload", "save", "finish"}
  /\ worker' = IdleWorker
  /\ UNCHANGED <<box, rows, files, coords, immich, req, pending>>

\* Mutant: an image that cannot be uploaded is skipped; the verification, of
\* images with a checksum only, does not miss it.
WorkerErrorSkips ==
  /\ "taskError" \in Faults
  /\ worker.pc = "upload"
  /\ \E i \in worker.todo :
       NextToUpload(i) /\ worker' = [worker EXCEPT !.todo = worker.todo \ {i}]
  /\ UNCHANGED <<box, rows, files, coords, immich, req, pending>>

\* Immich, exiftool or the database raise: the except clause.  From "save"
\* it is also an upload that arrived and whose answer was lost.
WorkerError ==
  /\ "taskError" \in Faults
  /\ worker.pc \in {"load", "upload", "save", "finish"}
  /\ worker' = [worker EXCEPT !.pc = "fail"]
  /\ UNCHANGED <<box, rows, files, coords, immich, req, pending>>

WorkerStep ==
  \/ WorkerClaim \/ WorkerMark \/ WorkerLoad
  \/ WorkerUpload \/ WorkerNoOriginal \/ WorkerSave
  \/ WorkerVerify \/ WorkerFinish \/ WorkerFail \/ WorkerError

----------------------------------------------------------------------------
(* Faults *)

\* A gunicorn worker is killed; what its request has saved stays saved.
WebCrash(r) ==
  /\ "webCrash" \in Faults
  /\ req[r].at # "idle"
  /\ req' = [req EXCEPT ![r] = IdleRequest]
  /\ UNCHANGED <<box, rows, files, coords, immich, pending, worker>>

\* The db_worker is restarted, by every deployment for instance.  A task it
\* had claimed is not run again.
WorkerCrash ==
  /\ "workerCrash" \in Faults
  /\ worker.pc # "idle"
  /\ worker' = IdleWorker
  /\ UNCHANGED <<box, rows, files, coords, immich, req, pending>>

\* Somebody deletes a photo on the Immich server.
AssetLost ==
  /\ "assetLost" \in Faults
  /\ \E c \in immich : immich' = immich \ {c}
  /\ UNCHANGED <<box, rows, files, coords, req, pending, worker>>

Next ==
  \/ \E i \in Images : EditImage(i)
  \/ PlaceSetCoords
  \/ \E r \in Requests : BeginRequest(r) \/ RequestStep(r) \/ WebCrash(r)
  \/ WorkerStep
  \/ WorkerCrash
  \/ AssetLost

\* The db_worker runs whenever it can, and a handler that has started runs
\* on; users do what they like and faults need not happen.
Fairness == WF_vars(WorkerStep) /\ \A r \in Requests : WF_vars(RequestStep(r))

Spec == Init /\ [][Next]_vars /\ Fairness

----------------------------------------------------------------------------
(* Properties *)

RequestSteps == {"idle", "save", "enqueue", "archive", "boxSave", "create"}
WorkerSteps == {"idle", "mark", "load", "upload", "save", "finish", "fail"}

TypeOK ==
  /\ box \in BoxRow
  /\ rows \in Rows
  /\ files \subseteq Images
  /\ coords \in Coords \cup {NoCoords}
  /\ immich \subseteq Content
  /\ req \in [Requests -> [at: RequestSteps, box: BoxRow]]
  /\ pending \in Nat
  /\ worker \in [pc: WorkerSteps, box: BoxRow, snap: Rows,
                 todo: SUBSET Images, up: Content \cup {NoAsset}]

\* A row never claims more than was exported: the asset it names is an upload
\* of this very image, and the signature is that of the metadata inside it,
\* whatever was edited while the worker rendered, uploaded and saved.
SignatureDescribesAsset ==
  \A i \in Present(rows) : rows[i].asset # NoAsset =>
    rows[i].asset.image = i /\ rows[i].asset.text = rows[i].sig

\* The metadata of an image that counts as uploaded are on the server (as
\* long as nobody deletes them there).
CurrentIsStored ==
  \A i \in Present(rows) : IsCurrent(rows[i]) =>
    \E c \in immich : c.image = i /\ c.text = rows[i].text

\* A box that says "uploaded" has pushed every image it has held all along,
\* whichever task, retry or late box.save() wrote that state.
UploadedMeansPushed ==
  box.state = "uploaded" => \A i \in InitImages : rows[i].asset # NoAsset

\* An image always survives somewhere: its original is on disk, or a copy of
\* it was uploaded.
OriginalSurvives ==
  \A i \in Present(rows) : i \in files \/ rows[i].asset # NoAsset

\* "Upload laeuft bereits": while the box says so, some request, task or the
\* worker is there to end it.
JobActive ==
  \/ \E r \in Requests : req[r].at = "enqueue"
  \/ pending > 0
  \/ worker.pc # "idle"

UploadRunning == box.state = "in_progress" => JobActive

\* Inductive strengthening of SignatureDescribesAsset: the copies of the rows
\* the worker holds are honest too, and the asset it is about to save is an
\* upload of the copy it will save it on.
Honest(i, row) == row.asset # NoAsset => row.asset.image = i /\ row.asset.text = row.sig

SignatureIInv ==
  /\ worker.todo \subseteq Present(worker.snap)
  /\ \A i \in Present(rows) : Honest(i, rows[i])
  /\ \A i \in Present(worker.snap) : Honest(i, worker.snap[i])
  /\ worker.pc = "save" =>
       \A i \in worker.todo : NextToUpload(i) =>
         /\ worker.up \in Content
         /\ worker.up.image = i
         /\ worker.up.text = worker.snap[i].text

\* Inductive strengthening of UploadedMeansPushed: a box row with the state
\* "uploaded", wherever a process holds one, and a worker about to write that
\* state, come after every image got its asset.
Pushed(i) == rows[i] # Absent /\ rows[i].asset # NoAsset

AllPushed == \A i \in InitImages : Pushed(i)

PushedIInv ==
  /\ \A i \in InitImages : rows[i] # Absent
  /\ box.state = "uploaded" => AllPushed
  /\ \A r \in Requests : req[r].box.state = "uploaded" => AllPushed
  /\ worker.box.state = "uploaded" => AllPushed
  /\ worker.pc = "finish" => AllPushed
  /\ worker.pc \in {"upload", "save"} =>
       \A i \in InitImages :
         /\ worker.snap[i] # Absent
         /\ i \in worker.todo \/ (Pushed(i) /\ worker.snap[i].asset # NoAsset)

\* Inductive strengthening of OriginalSurvives, for the images the box has had
\* all along: a request that passed the check of box_archive does so after all
\* of them were uploaded.  One that was uploaded into the box since is not
\* covered, which is why the other part is about boxes without uploads.
ArchiveIInv ==
  /\ \A i \in InitImages : rows[i] # Absent /\ (i \in files \/ Pushed(i))
  /\ \A r \in Requests : req[r].at = "archive" => AllPushed

NoUploadIInv ==
  /\ \A r \in Requests : req[r].at # "create"
  /\ Present(rows) \subseteq InitImages
  /\ Present(worker.snap) \subseteq InitImages

\* Inductive strengthening of CurrentIsStored: so are the assets of the copies
\* of the rows the worker holds, and the upload it has not recorded yet.
OnServer(row) == row.asset # NoAsset => row.asset \in immich

StoredIInv ==
  /\ \A i \in Present(rows) : OnServer(rows[i])
  /\ \A i \in Present(worker.snap) : OnServer(worker.snap[i])
  /\ worker.pc = "save" => worker.up \in immich

\* Upload requests, tasks and the worker together are a job of UploadJob.
Job == INSTANCE UploadJob WITH state <- box.state, active <- JobActive

JobRefinement == Job!JobSpec

=============================================================================

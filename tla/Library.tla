------------------------------ MODULE Library -------------------------------
(***************************************************************************)
(* How images come into boxes (core/views.py, core/models/image.py,        *)
(* static/core/upload.js): the page that uploads file by file, the plain   *)
(* form that imports many at once, and the assignment of images from the   *)
(* unsorted pool, which copies their files.  A transaction is one step;    *)
(* files are not part of it.                                               *)
(***************************************************************************)
EXTENDS Naturals, FiniteSets

CONSTANTS
  Ids,       \* images that can be created, by UUID
  Boxes,     \* boxes that can be created, by primary key: natural numbers
  Files,     \* what is uploaded: records [name, content], name a natural number
  Workers,   \* requests the server works on at the same time
  MaxCopy,   \* copies of an image in the directory of one box, less one
  Events,    \* what happens besides
  None       \* no box, no file

\* Image.box is null
Pool == 0

AllEvents == {"page", "import", "assign", "archive", "delete", "lose", "kill",
              "signout"}

ASSUME EventsAssumption == Events \subseteq AllEvents
ASSUME BoxesAssumption == Boxes \subseteq Nat \ {0}
\* A UUID has 128 bits.
ASSUME IdsAssumption == IsFiniteSet(Ids)
ASSUME CopyAssumption == MaxCopy \in Nat
ASSUME FilesAssumption == \A f \in Files : f.name \in Nat

VARIABLES
  rows,   \* Image rows; one that is deleted is remembered
  disk,   \* originals (and thumbnails with them) in the storage
  boxes,  \* Box rows
  page,   \* the upload page of one user
  req     \* what each worker is at

vars == <<rows, disk, boxes, page, req>>

Places == Boxes \cup {Pool}

\* The path holds the box (upload_to) and the UUID; the storage adds something
\* to a name it already has.
Paths == [id: Ids, box: Places, copy: 0 .. MaxCopy]

ASSUME NoneAssumption == None \notin Boxes \cup {Pool} \cup Workers \cup Paths

Names == {f.name : f \in Files}
Contents == {f.content : f \in Files}

NoRow == [state |-> "none"]

\* seq is 0 for null; born is where the image was uploaded to (history).
IsRow(row) ==
  /\ row.state \in {"live", "deleted", "unsaved"}
  /\ row.box \in Places /\ row.born \in Places
  /\ row.seq \in Nat
  /\ row.file \in Paths \cup {None}
  /\ row.name \in Names /\ row.content \in Contents

Live == {i \in Ids : rows[i].state = "live"}

In(box) == {i \in Live : rows[i].box = box}

Open == {b \in Boxes : boxes[b] = "open"}

MaxOf(S) == IF S = {} THEN 0 ELSE CHOOSE m \in S : \A n \in S : n <= m

\* Mutant: the number of images, which is too small once one has been deleted.
CountedSequence(box) == IF box = Pool THEN 0 ELSE Cardinality(In(box)) + 1

\* Image.next_sequence_for
NextSequence(box) == IF box = Pool THEN 0 ELSE MaxOf({rows[i].seq : i \in In(box)}) + 1

\* The next primary key.
NextBox(b) == boxes[b] = "none" /\ \A c \in Boxes : c < b => boxes[c] # "none"

\* _resolve_target_box: None stands for a new box.
Resolved(target) == IF target = None THEN {b \in Boxes : NextBox(b)} ELSE {target}

Opened(box) == [b \in Boxes |-> IF b = box THEN "open" ELSE boxes[b]]

Idle == [pc |-> "idle"]

\* target is where the page sends its files; blind are the files it calls done
\* without having read an answer (history).
NewPage ==
  [target |-> None, entry |-> [f \in Files |-> "pending"], wait |-> None, blind |-> {}]

Init ==
  /\ rows = [i \in Ids |-> NoRow]
  /\ disk = {}
  /\ boxes = [b \in Boxes |-> "none"]
  /\ page = NewPage
  /\ req = [w \in Workers |-> Idle]

----------------------------------------------------------------------------
(* Files that become images. *)

Unused == {i \in Ids : rows[i].state = "none"}

Original(i, box) == [id |-> i, box |-> box, copy |-> 0]

NewRow(i, box, f, seq) ==
  [state |-> "live", box |-> box, born |-> box, seq |-> seq, file |-> Original(i, box),
   name |-> f.name, content |-> f.content]

\* _reject_filename_conflicts
Conflict(box, files) ==
  box # Pool /\ \E i \in In(box), f \in files : rows[i].name = f.name

\* What _create_image_from_upload does not skip: a content that is not there
\* yet, and has not just come under an earlier name.
Fresh(box, files) ==
  {f \in files :
     /\ \A i \in In(box) : rows[i].content # f.content
     /\ \A g \in files : g.content = f.content => f.name <= g.name}

\* New images for files, which are taken in the order of their names.
Assigned(files) ==
  {ids \in [files -> Unused] : \A f, g \in files : ids[f] = ids[g] => f = g}

Add(box, files) ==
  \E ids \in Assigned(Fresh(box, files)) :
    LET new == {ids[f] : f \in Fresh(box, files)}
        of(i) == CHOOSE f \in Fresh(box, files) : ids[f] = i
        seq(f) == IF box = Pool THEN 0
                  ELSE NextSequence(box) + Cardinality({g \in Fresh(box, files) : g.name < f.name})
    IN  /\ rows' = [i \in Ids |-> IF i \in new THEN NewRow(i, box, of(i), seq(of(i))) ELSE rows[i]]
        /\ disk' = disk \cup {Original(i, box) : i \in new}

----------------------------------------------------------------------------
(* The upload page *)

Waits(w) == page.wait = w

Reply(w, result) == req' = [req EXCEPT ![w] = [pc |-> "reply", result |-> result]]

\* The session is gone, or the right to upload: a request is sent on to the
\* login page, and the page is not told.
SignedOut == "signout" \in Events

Login(w) == req' = [req EXCEPT ![w] = [pc |-> "login"]]

\* prepare() and upload_prepare: once, for a new box, a box there is, or the
\* pool.
Prepare(w, target) ==
  /\ "page" \in Events
  /\ req[w].pc = "idle" /\ page.wait = None /\ page.target = None
  /\ target \in Open \cup {Pool, None}
  /\ page' = [page EXCEPT !.wait = w]
  /\ \/ \E box \in Resolved(target) :
          /\ boxes' = Opened(box)
          /\ req' = [req EXCEPT ![w] = [pc |-> "prepared", box |-> box]]
     \/ SignedOut /\ Login(w) /\ UNCHANGED boxes
  /\ UNCHANGED <<rows, disk>>

\* uploadOne, for one file after the other; api_upload looks the box up.
Upload(w, f) ==
  /\ req[w].pc = "idle" /\ page.wait = None /\ page.target # None
  /\ page.entry[f] \in {"pending", "error"}
  /\ page' = [page EXCEPT !.wait = w, !.entry[f] = "uploading"]
  /\ \/ IF page.target \in Open \cup {Pool}
          THEN req' = [req EXCEPT ![w] = [pc |-> "store", file |-> f, box |-> page.target]]
          ELSE Reply(w, "error")
     \/ SignedOut /\ Login(w)
  /\ UNCHANGED <<rows, disk, boxes>>

\* Mutant: a file that was answered for is not looked for again.
StoreAnew(w) ==
  /\ req[w].pc = "store"
  /\ LET f == req[w].file  box == req[w].box IN
       \E i \in Unused :
         /\ rows' = [rows EXCEPT ![i] = NewRow(i, box, f, NextSequence(box))]
         /\ disk' = disk \cup {Original(i, box)}
         /\ Reply(w, "done")
  /\ UNCHANGED <<boxes, page>>

\* The transaction of api_upload.
Store(w) ==
  /\ req[w].pc = "store"
  /\ LET f == req[w].file  box == req[w].box IN
       IF Conflict(box, {f})
         THEN Reply(w, "error") /\ UNCHANGED <<rows, disk>>
         ELSE Add(box, {f}) /\ Reply(w, IF Fresh(box, {f}) = {} THEN "skipped" ELSE "done")
  /\ UNCHANGED <<boxes, page>>

\* The answer arrives at the page, if it still waits.
Prepared(w) ==
  /\ req[w].pc = "prepared"
  /\ page' = IF Waits(w) THEN [page EXCEPT !.wait = None, !.target = req[w].box] ELSE page
  /\ req' = [req EXCEPT ![w] = Idle]
  /\ UNCHANGED <<rows, disk, boxes>>

Marked(status) ==
  [page EXCEPT !.wait = None,
               !.entry = [f \in Files |-> IF @[f] = "uploading" THEN status ELSE @[f]]]

Deliver(w) ==
  /\ req[w].pc = "reply"
  /\ page' = IF Waits(w) THEN Marked(req[w].result) ELSE page
  /\ req' = [req EXCEPT ![w] = Idle]
  /\ UNCHANGED <<rows, disk, boxes>>

\* An answer that is ok and cannot be read counts as an empty one: to a
\* preparation, one without a box, which is the pool; to an upload, one that
\* skipped nothing.
Misread ==
  IF page.target = None THEN [page EXCEPT !.wait = None, !.target = Pool]
  ELSE [Marked("done") EXCEPT !.blind = @ \cup {f \in Files : page.entry[f] = "uploading"}]

\* The login page arrives, or an answer that breaks off after its status.
Unread(w) ==
  /\ \/ req[w].pc = "login"
     \/ "lose" \in Events /\ req[w].pc = "prepared"
     \/ "lose" \in Events /\ req[w].pc = "reply" /\ req[w].result # "error"
  /\ page' = IF Waits(w) THEN Misread ELSE page
  /\ req' = [req EXCEPT ![w] = Idle]
  /\ UNCHANGED <<rows, disk, boxes>>

\* Mutant: what has been sent has arrived.
FailedOptimist == Marked("done")

\* Mutant: a status that the list has no label for.
FailedUnlabelled == Marked("failed")

Failed == Marked("error")

\* The connection breaks: the file counts as failed, whatever becomes of the
\* request.
Lose(w) ==
  /\ "lose" \in Events
  /\ Waits(w)
  /\ page' = Failed
  /\ UNCHANGED <<rows, disk, boxes, req>>

----------------------------------------------------------------------------
(* The plain form: one transaction for all files. *)

\* import_view
Import(files, target) ==
  /\ "import" \in Events
  /\ files # {} /\ \A f, g \in files : f.name = g.name => f = g
  /\ target \in Open \cup {Pool, None}
  /\ \E box \in Resolved(target) :
       /\ ~Conflict(box, files)
       /\ Add(box, files)
       /\ boxes' = Opened(box)
  /\ UNCHANGED <<page, req>>

\* A file is no image: what the earlier ones have stored is not rolled back.
ImportFails(files, target) ==
  /\ "import" \in Events
  /\ Cardinality(files) > 1 /\ \A f, g \in files : f.name = g.name => f = g
  /\ target \in Open \cup {Pool, None}
  /\ \E box \in Resolved(target), bad \in files :
       /\ ~Conflict(box, files)
       /\ LET before == {f \in Fresh(box, files) : f.name < bad.name} IN
            \E ids \in Assigned(before) :
              LET new == {ids[f] : f \in before} IN
              /\ rows' = [i \in Ids |-> IF i \in new THEN [NoRow EXCEPT !.state = "unsaved"] ELSE rows[i]]
              /\ disk' = disk \cup {Original(i, box) : i \in new}
  /\ UNCHANGED <<boxes, page, req>>

----------------------------------------------------------------------------
(* unsorted_assign: nothing of it is one transaction. *)

\* A box, images of the pool, and no name twice or there already.  todo holds
\* the rows as they were read.
AssignBegin(w, box, ids) ==
  /\ "assign" \in Events
  /\ req[w].pc = "idle"
  /\ box \in Open /\ ids # {} /\ ids \subseteq In(Pool)
  /\ \A i, j \in ids : rows[i].name = rows[j].name => i = j
  /\ \A i \in ids, j \in In(box) : rows[i].name # rows[j].name
  /\ req' = [req EXCEPT ![w] =
       [pc |-> "number", box |-> box, todo |-> {[id |-> i, row |-> rows[i]] : i \in ids}]]
  /\ UNCHANGED <<rows, disk, boxes, page>>

\* base
AssignNumber(w) ==
  /\ req[w].pc = "number"
  /\ req' = [req EXCEPT ![w] =
       [pc |-> "copy", box |-> req[w].box, todo |-> req[w].todo, seq |-> NextSequence(req[w].box)]]
  /\ UNCHANGED <<rows, disk, boxes, page>>

\* The first half of assign_to_box, for the next image in the order of names:
\* the file is copied to a name that is free.
AssignCopy(w) ==
  /\ req[w].pc = "copy"
  /\ \E t \in req[w].todo :
       /\ \A u \in req[w].todo : t.row.name <= u.row.name
       /\ \/ /\ t.row.file \in disk
             /\ \E p \in Paths \ disk :
                  /\ p.id = t.id /\ p.box = req[w].box
                  /\ disk' = disk \cup {p}
                  /\ req' = [req EXCEPT ![w] =
                       [pc |-> "save", box |-> req[w].box, seq |-> req[w].seq, path |-> p,
                        now |-> t, todo |-> req[w].todo \ {t}]]
          \/ \* the image has been assigned or deleted meanwhile
             /\ t.row.file \notin disk
             /\ req' = [req EXCEPT ![w] = Idle]
             /\ UNCHANGED disk
  /\ UNCHANGED <<rows, boxes, page>>

\* What save() makes of the row that was read, whatever has become of it.
Moved(q) ==
  [state |-> "live", box |-> q.box, born |-> q.now.row.born, seq |-> q.seq, file |-> q.path,
   name |-> q.now.row.name, content |-> q.now.row.content]

\* The unique constraints of Image.
Fits(q) ==
  \A i \in In(q.box) \ {q.now.id} : rows[i].seq # q.seq /\ rows[i].name # q.now.row.name

AfterSave(q) ==
  IF q.todo = {} THEN Idle
  ELSE [pc |-> "copy", box |-> q.box, todo |-> q.todo, seq |-> q.seq + 1]

\* Mutant: the old file is deleted whether the row could be saved or not.
AssignSaveCleaning(w) ==
  /\ req[w].pc = "save"
  /\ LET q == req[w] IN
       /\ disk' = disk \ {q.now.row.file}
       /\ IF Fits(q)
            THEN /\ rows' = [rows EXCEPT ![q.now.id] = Moved(q)]
                 /\ req' = [req EXCEPT ![w] = AfterSave(q)]
            ELSE req' = [req EXCEPT ![w] = Idle] /\ UNCHANGED rows
  /\ UNCHANGED <<boxes, page>>

\* The second half of assign_to_box: a failure leaves the copy and ends the
\* request.
AssignSave(w) ==
  /\ req[w].pc = "save"
  /\ LET q == req[w] IN
       IF Fits(q)
         THEN /\ rows' = [rows EXCEPT ![q.now.id] = Moved(q)]
              /\ disk' = disk \ {q.now.row.file}
              /\ req' = [req EXCEPT ![w] = AfterSave(q)]
         ELSE req' = [req EXCEPT ![w] = Idle] /\ UNCHANGED <<rows, disk>>
  /\ UNCHANGED <<boxes, page>>

----------------------------------------------------------------------------
(* What happens besides *)

\* Box.archive, with delete_originals_and_details
Archive(b) ==
  /\ "archive" \in Events
  /\ b \in Open
  /\ boxes' = [boxes EXCEPT ![b] = "archived"]
  /\ disk' = disk \ {rows[i].file : i \in In(b)}
  /\ rows' = [i \in Ids |-> IF i \in In(b) THEN [rows[i] EXCEPT !.file = None] ELSE rows[i]]
  /\ UNCHANGED <<page, req>>

Removed(row) ==
  [state |-> "deleted", box |-> Pool, born |-> row.born, seq |-> 0, file |-> None,
   name |-> row.name, content |-> row.content]

\* In the admin; image_delete_files follows.
Delete(i) ==
  /\ "delete" \in Events
  /\ i \in Live
  /\ rows' = [rows EXCEPT ![i] = Removed(@)]
  /\ disk' = disk \ {rows[i].file}
  /\ UNCHANGED <<boxes, page, req>>

\* The worker is killed: what it has not saved is gone, and so is the answer.
Kill(w) ==
  /\ "kill" \in Events
  /\ req[w].pc # "idle"
  /\ req' = [req EXCEPT ![w] = Idle]
  /\ page' = IF Waits(w) THEN Failed ELSE page
  /\ UNCHANGED <<rows, disk, boxes>>

Next ==
  \/ \E w \in Workers :
       \/ Store(w) \/ Prepared(w) \/ Deliver(w) \/ Unread(w) \/ Lose(w)
       \/ AssignNumber(w) \/ AssignCopy(w) \/ AssignSave(w) \/ Kill(w)
       \/ \E target \in Places \cup {None} : Prepare(w, target)
       \/ \E f \in Files : Upload(w, f)
       \/ \E b \in Boxes, ids \in SUBSET Ids : AssignBegin(w, b, ids)
  \/ \E files \in SUBSET Files, target \in Places \cup {None} :
       Import(files, target) \/ ImportFails(files, target)
  \/ \E b \in Boxes : Archive(b)
  \/ \E i \in Ids : Delete(i)

Spec == Init /\ [][Next]_vars

----------------------------------------------------------------------------
(* Properties *)

Results == {"done", "skipped", "error"}

Read(t) == t.id \in Ids /\ IsRow(t.row)

IsRequest(q) ==
  CASE q.pc \in {"idle", "login"} -> TRUE
    [] q.pc = "store"  -> q.file \in Files /\ q.box \in Places
    [] q.pc = "prepared" -> q.box \in Places
    [] q.pc = "reply"  -> q.result \in Results
    [] q.pc = "number" -> q.box \in Boxes /\ \A t \in q.todo : Read(t)
    [] q.pc = "copy"   -> q.box \in Boxes /\ q.seq \in Nat /\ \A t \in q.todo : Read(t)
    [] q.pc = "save"   -> /\ q.box \in Boxes /\ q.seq \in Nat /\ q.path \in Paths
                          /\ \A t \in q.todo \cup {q.now} : Read(t)
    [] OTHER           -> FALSE

TypeOK ==
  /\ \A i \in Ids : rows[i].state \in {"none", "unsaved"} \/ IsRow(rows[i])
  /\ disk \subseteq Paths
  /\ boxes \in [Boxes -> {"none", "open", "archived"}]
  /\ page \in [target: Places \cup {None}, wait: Workers \cup {None},
               entry: [Files -> {"pending", "uploading"} \cup Results], blind: SUBSET Files]
  /\ \A w \in Workers : IsRequest(req[w])

\* The original of an image is where its row says, whatever fails or is
\* assigned twice, until its box is archived.
RowsHaveFiles ==
  \A i \in Live :
    \/ rows[i].file \in disk /\ rows[i].file.id = i /\ rows[i].file.box = rows[i].box
    \/ rows[i].file = None /\ boxes[rows[i].box] = "archived"

\* What an answer of that kind says of a file, on a page for that box.
Answered(f, status, box) ==
  /\ status = "done" =>
       \E i \in Ids : /\ rows[i].state \in {"live", "deleted"} /\ rows[i].born = box
                     /\ rows[i].name = f.name /\ rows[i].content = f.content
  /\ status = "skipped" =>
       \E i \in Ids : rows[i].state \in {"live", "deleted"} /\ rows[i].content = f.content

\* What the page calls uploaded has been stored where the page sends its files,
\* and what it calls a duplicate has been stored too, as far as the page has
\* read the answer.  Of a file that is blind nothing is claimed: it may be
\* "fertig" and nowhere, after a visit to the login page.
DoneIsStored == \A f \in Files \ page.blind : Answered(f, page.entry[f], page.target)

\* Inductive: the page knows its box before it sends a file, sends one at a
\* time, and the request it waits for is about that file and that box.
PageIInv ==
  /\ page.target = None => \A f \in Files : page.entry[f] \in {"pending", "error"}
  /\ page.wait = None => \A f \in Files : page.entry[f] # "uploading"
  /\ \A w \in Workers : page.wait = w =>
       \/ req[w].pc = "login"
       \/ req[w].pc = "prepared" /\ page.target = None
       \/ /\ req[w].pc = "store" /\ req[w].box = page.target
          /\ \A f \in Files : page.entry[f] = "uploading" => f = req[w].file
       \/ /\ req[w].pc = "reply"
          /\ \A f \in Files :
               page.entry[f] = "uploading" => Answered(f, req[w].result, page.target)
  /\ DoneIsStored

\* However often a file is sent again, a box or the pool gets it once.
UploadedOnce ==
  \A i, j \in Live :
    /\ rows[i].content = rows[j].content /\ rows[i].born = rows[j].born
    /\ rows[i].box = rows[i].born /\ rows[j].box = rows[j].born
    => i = j

\* No two images of a box have the same number or name: what uploads and
\* imports store never meets the constraints of the table, which they would
\* not survive.
NumbersFit ==
  \A i, j \in Live : i # j /\ rows[i].box = rows[j].box /\ rows[i].box # Pool =>
    rows[i].seq # rows[j].seq /\ rows[i].name # rows[j].name

=============================================================================

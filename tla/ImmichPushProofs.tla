-------------------------- MODULE ImmichPushProofs --------------------------
(***************************************************************************)
(* Theorems about ImmichPush, for any number of images, requests, texts    *)
(* and coordinates, and (unless said otherwise) with every fault.          *)
(***************************************************************************)
EXTENDS ImmichPush, TLAPS

\* All assumptions on the constants, cited together.
Assumptions ==
  /\ Images \subseteq Nat /\ InitImages \subseteq Images
  /\ NoCoords \notin Coords
  /\ "none" \in Todos
  /\ NoAsset \notin Content
  /\ Absent \notin ImageRow

LEMMA ConstantsOK == Assumptions
BY ImagesAssumption, CoordsAssumption, TodosAssumption, MarkersAssumption
   DEF Assumptions, ImageRow

LEMMA NewRowIsRow == NewRow \in ImageRow
BY TodosAssumption DEF NewRow, ImageRow, Text

LEMMA InitTypeOK == Init => TypeOK
<1> SUFFICES ASSUME Init PROVE TypeOK
  OBVIOUS
<1>1. rows \in Rows
  BY NewRowIsRow DEF Init, Rows
<1>2. worker.snap \in Rows /\ worker = IdleWorker
  BY DEF Init, Rows, IdleWorker
<1> QED
  BY <1>1, <1>2, ConstantsOK
     DEF Assumptions, Init, TypeOK, BoxRow, NoRow, IdleRequest, IdleWorker,
         RequestSteps, WorkerSteps

LEMMA BeginTypeOK ==
  ASSUME TypeOK, NEW r \in Requests, BeginRequest(r)
  PROVE  TypeOK'
<1>1. NoRow \in BoxRow
  BY DEF NoRow, BoxRow
<1>2. \E view \in AllViews, at \in RequestSteps, row \in BoxRow : Begin(r, view, at, row)
  BY <1>1 DEF BeginRequest, BeginFinalize, BeginRetry, BeginArchive, BeginBoxEdit,
              BeginUpload, TypeOK, AllViews, RequestSteps
<1> QED
  BY <1>2 DEF Begin, TypeOK

LEMMA RequestTypeOK ==
  ASSUME TypeOK, NEW r \in Requests, RequestStep(r)
  PROVE  TypeOK'
<1>0. NoRow \in BoxRow /\ IdleRequest \in [at: RequestSteps, box: BoxRow]
  BY DEF NoRow, BoxRow, IdleRequest, RequestSteps
<1>1. CASE SaveInProgress(r)
  <2>1. [at |-> "enqueue", box |-> NoRow] \in [at: RequestSteps, box: BoxRow]
    BY <1>0 DEF RequestSteps
  <2>2. [req[r].box EXCEPT !.state = "in_progress"] \in BoxRow
    BY DEF TypeOK, BoxRow
  <2> QED
    BY <1>1, <2>1, <2>2 DEF SaveInProgress, Goes, TypeOK
<1>2. CASE Enqueue(r)
  BY <1>0, <1>2 DEF Enqueue, Goes, TypeOK
<1>3. CASE Archive(r)
  <2>1. box' \in BoxRow
    BY <1>3 DEF Archive, TypeOK, BoxRow
  <2>2. rows' \in Rows
    <3> SUFFICES ASSUME NEW i \in Images, rows[i] # Absent
                 PROVE  [rows[i] EXCEPT !.original = FALSE] \in ImageRow
      BY <1>3 DEF Archive, TypeOK, Rows
    <3>1. rows[i] \in ImageRow
      BY DEF TypeOK, Rows
    <3> QED
      BY <3>1 DEF ImageRow
  <2> QED
    BY <1>0, <1>3, <2>1, <2>2 DEF Archive, Goes, TypeOK
<1>4. CASE ArchiveRejected(r)
  BY <1>0, <1>4 DEF ArchiveRejected, Goes, TypeOK
<1>5. CASE SaveBoxEdit(r)
  BY <1>0, <1>5 DEF SaveBoxEdit, Goes, TypeOK
<1>6. CASE CreateImage(r)
  BY <1>0, <1>6, NewRowIsRow DEF CreateImage, Goes, TypeOK, Rows
<1>7. CASE CreateRejected(r)
  BY <1>0, <1>7 DEF CreateRejected, Goes, TypeOK
<1> QED
  BY <1>1, <1>2, <1>3, <1>4, <1>5, <1>6, <1>7 DEF RequestStep

\* What the worker saves for an uploaded image is a row again.
LEMMA UploadedIsRow ==
  ASSUME NEW row \in ImageRow, NEW c \in Content \cup {NoAsset}
  PROVE  /\ Uploaded(row, c) \in ImageRow
         /\ Uploaded(row, c).asset = c
         /\ Uploaded(row, c).sig = row.text
BY DEF Uploaded, ImageRow

LEMMA WorkerTypeOK ==
  ASSUME TypeOK, WorkerStep, worker.todo \subseteq Present(worker.snap)
  PROVE  TypeOK'
<1> USE DEF TypeOK
<1>0. IdleWorker \in [pc: WorkerSteps, box: BoxRow, snap: Rows,
                      todo: SUBSET Images, up: Content \cup {NoAsset}]
  BY DEF IdleWorker, NoRow, WorkerSteps, BoxRow, Rows
<1>1. CASE WorkerClaim
  <2>1. PICK pc \in {"mark", "fail"} : worker' = [IdleWorker EXCEPT !.pc = pc, !.box = box]
    BY <1>1 DEF WorkerClaim
  <2>2. pending' \in Nat
    BY <1>1 DEF WorkerClaim
  <2> QED
    BY <1>0, <1>1, <2>1, <2>2 DEF WorkerClaim, WorkerSteps
<1>2. CASE WorkerMark
  <2>1. box' \in BoxRow
    BY <1>2 DEF WorkerMark, BoxRow
  <2>2. [worker.box EXCEPT !.state = "in_progress"] \in BoxRow
    BY DEF BoxRow
  <2> QED
    BY <1>2, <2>1, <2>2 DEF WorkerMark, WorkerSteps
<1>3. CASE WorkerLoad
  BY <1>3 DEF WorkerLoad, WorkerSteps, Present
<1>4. CASE WorkerUpload
  <2>1. PICK i \in worker.todo :
          LET c == [image |-> i, text |-> worker.snap[i].text, coords |-> coords] IN
            /\ immich' = immich \cup {c}
            /\ worker' = [worker EXCEPT !.pc = "save", !.up = c]
    BY <1>4 DEF WorkerUpload
  <2>2. i \in Images /\ worker.snap[i] \in ImageRow
    BY DEF Present, Rows
  <2>3. [image |-> i, text |-> worker.snap[i].text, coords |-> coords] \in Content
    BY <2>2 DEF Content, ImageRow
  <2> QED
    BY <1>4, <2>1, <2>3 DEF WorkerUpload, WorkerSteps
<1>5. CASE WorkerNoOriginal
  BY <1>5 DEF WorkerNoOriginal, WorkerSteps
<1>6. CASE WorkerSave
  <2>1. PICK i \in worker.todo :
          LET row == Uploaded(worker.snap[i], worker.up) IN
            /\ rows' = [rows EXCEPT ![i] = row]
            /\ worker' = [worker EXCEPT !.pc = "upload", !.snap[i] = row,
                            !.todo = worker.todo \ {i}, !.up = NoAsset]
    BY <1>6 DEF WorkerSave
  <2>2. i \in Images /\ worker.snap[i] \in ImageRow
    BY DEF Present, Rows
  <2>3. Uploaded(worker.snap[i], worker.up) \in ImageRow
    BY <2>2, UploadedIsRow
  <2>4. rows' \in Rows /\ [worker.snap EXCEPT ![i] = Uploaded(worker.snap[i], worker.up)] \in Rows
    BY <2>1, <2>3 DEF Rows
  <2> QED
    BY <1>6, <2>1, <2>4 DEF WorkerSave, WorkerSteps
<1>7. CASE WorkerVerify
  BY <1>7 DEF WorkerVerify, WorkerSteps
<1>8. CASE WorkerFinish
  BY <1>0, <1>8 DEF WorkerFinish, BoxRow
<1>9. CASE WorkerFail
  BY <1>0, <1>9 DEF WorkerFail, BoxRow
<1>10. CASE WorkerError
  BY <1>10 DEF WorkerError, WorkerSteps
<1> QED
  BY <1>1, <1>2, <1>3, <1>4, <1>5, <1>6, <1>7, <1>8, <1>9, <1>10 DEF WorkerStep

LEMMA NextTypeOK == TypeOK /\ SignatureIInv /\ [Next]_vars => TypeOK'
<1> SUFFICES ASSUME TypeOK, SignatureIInv, [Next]_vars PROVE TypeOK'
  OBVIOUS
<1>1. ASSUME NEW i \in Images, EditImage(i) PROVE TypeOK'
  <2>1. PICK text \in Text, todo \in Todos :
          rows' = [rows EXCEPT ![i].text = text, ![i].todo = todo]
    BY <1>1 DEF EditImage
  <2>2. [rows[i] EXCEPT !.text = text, !.todo = todo] \in ImageRow
    BY <1>1 DEF EditImage, TypeOK, Rows, ImageRow
  <2>3. rows' \in Rows
    BY <2>1, <2>2 DEF TypeOK, Rows
  <2> QED
    BY <1>1, <2>3 DEF EditImage, TypeOK
<1>2. CASE PlaceSetCoords
  BY <1>2 DEF PlaceSetCoords, TypeOK
<1>3. ASSUME NEW r \in Requests, BeginRequest(r) \/ RequestStep(r) PROVE TypeOK'
  BY <1>3, BeginTypeOK, RequestTypeOK
<1>4. ASSUME NEW r \in Requests, WebCrash(r) PROVE TypeOK'
  BY <1>4 DEF WebCrash, TypeOK, IdleRequest, NoRow, RequestSteps, BoxRow
<1>5. CASE WorkerStep
  BY <1>5, WorkerTypeOK DEF SignatureIInv
<1>6. CASE WorkerCrash
  BY <1>6 DEF WorkerCrash, TypeOK, IdleWorker, NoRow, WorkerSteps, BoxRow, Rows
<1>7. CASE AssetLost
  BY <1>7 DEF AssetLost, TypeOK
<1>8. CASE UNCHANGED vars
  BY <1>8 DEF vars, TypeOK
<1> QED
  BY <1>1, <1>2, <1>3, <1>4, <1>5, <1>6, <1>7, <1>8 DEF Next

----------------------------------------------------------------------------
(* Signatures *)

LEMMA InitSignature == Init => SignatureIInv
BY DEF Init, SignatureIInv, IdleWorker, Present, Honest, NewRow

\* Steps that leave the worker alone, and change no asset and no signature.
LEMMA RowsSignature ==
  ASSUME SignatureIInv, UNCHANGED worker,
         \A i \in Images : rows'[i] # Absent =>
           \/ rows'[i].asset = NoAsset
           \/ /\ rows[i] # Absent
              /\ rows'[i].asset = rows[i].asset
              /\ rows'[i].sig = rows[i].sig
  PROVE  SignatureIInv'
BY DEF SignatureIInv, Present, Honest, NextToUpload

LEMMA RequestSignature ==
  ASSUME TypeOK, SignatureIInv, NEW r \in Requests, RequestStep(r)
  PROVE  SignatureIInv'
<1>1. CASE Archive(r)
  <2>1. ASSUME NEW i \in Images, rows'[i] # Absent
        PROVE  /\ rows[i] # Absent
               /\ rows'[i].asset = rows[i].asset
               /\ rows'[i].sig = rows[i].sig
    <3>1. rows[i] # Absent /\ rows'[i] = [rows[i] EXCEPT !.original = FALSE]
      BY <1>1, <2>1 DEF Archive
    <3>2. rows[i] \in ImageRow
      BY <3>1 DEF TypeOK, Rows
    <3> QED
      BY <3>1, <3>2 DEF ImageRow
  <2> QED
    BY <1>1, <2>1, RowsSignature DEF Archive
<1>2. CASE CreateImage(r)
  <2>1. PICK i \in Images : rows' = [rows EXCEPT ![i] = NewRow]
    BY <1>2 DEF CreateImage
  <2>2. \A j \in Images : rows'[j] = NewRow \/ rows'[j] = rows[j]
    BY <2>1 DEF TypeOK, Rows
  <2> QED
    BY <1>2, <2>2, RowsSignature DEF CreateImage, NewRow
<1>3. CASE UNCHANGED <<rows, worker>>
  BY <1>3, RowsSignature
<1> QED
  BY <1>1, <1>2, <1>3 DEF RequestStep, SaveInProgress, Enqueue, ArchiveRejected,
       SaveBoxEdit, CreateRejected

LEMMA WorkerSignature ==
  ASSUME TypeOK, SignatureIInv, WorkerStep
  PROVE  SignatureIInv'
<1> USE DEF SignatureIInv
<1>1. CASE WorkerClaim
  <2>1. worker'.todo = {} /\ worker'.pc \in {"mark", "fail"}
        /\ worker'.snap = [i \in Images |-> Absent]
    BY <1>1 DEF WorkerClaim, IdleWorker
  <2> QED
    BY <1>1, <2>1 DEF WorkerClaim, Present
<1>2. CASE WorkerMark
  <2>1. worker'.todo = worker.todo /\ worker'.pc = "load" /\ worker'.snap = worker.snap
    BY <1>2 DEF WorkerMark, TypeOK
  <2> QED
    BY <1>2, <2>1 DEF WorkerMark, Present
<1>3. CASE WorkerLoad
  <2>1. /\ worker'.todo = {i \in Present(rows) : ~IsCurrent(rows[i])}
        /\ worker'.pc = "upload" /\ worker'.snap = rows
    BY <1>3 DEF WorkerLoad, TypeOK
  <2> QED
    BY <1>3, <2>1 DEF WorkerLoad, Present
<1>4. CASE WorkerUpload
  <2>1. PICK i \in worker.todo :
          /\ NextToUpload(i)
          /\ LET c == [image |-> i, text |-> worker.snap[i].text, coords |-> coords]
             IN worker' = [worker EXCEPT !.pc = "save", !.up = c]
    BY <1>4 DEF WorkerUpload
  <2>2. i \in Images /\ worker.snap[i] \in ImageRow
    BY DEF TypeOK, Present, Rows
  <2> DEFINE c == [image |-> i, text |-> worker.snap[i].text, coords |-> coords]
  <2>3. c \in Content
    BY <2>2 DEF Content, ImageRow, TypeOK
  <2>4. worker'.todo = worker.todo /\ worker'.snap = worker.snap /\ worker'.up = c
    BY <2>1 DEF TypeOK
  <2>5. ASSUME NEW j \in worker.todo, NextToUpload(j)' PROVE j = i
    <3>1. i <= j /\ j <= i /\ i \in Nat /\ j \in Nat
      BY <2>1, <2>4, <2>5, ConstantsOK DEF NextToUpload, Assumptions, TypeOK
    <3> QED
      BY <3>1
  <2>6. \A j \in worker'.todo : NextToUpload(j)' =>
          worker'.up \in Content /\ worker'.up.image = j /\ worker'.up.text = worker'.snap[j].text
    BY <2>3, <2>4, <2>5
  <2> QED
    BY <1>4, <2>4, <2>6 DEF WorkerUpload, Present
<1>5. CASE WorkerSave
  <2>1. PICK i \in worker.todo :
          /\ NextToUpload(i)
          /\ LET row == Uploaded(worker.snap[i], worker.up) IN
               /\ rows' = [rows EXCEPT ![i] = row]
               /\ worker' = [worker EXCEPT !.pc = "upload", !.snap[i] = row,
                               !.todo = worker.todo \ {i}, !.up = NoAsset]
    BY <1>5 DEF WorkerSave
  <2> DEFINE row == Uploaded(worker.snap[i], worker.up)
  <2>2. i \in Images /\ worker.snap[i] \in ImageRow
    BY DEF TypeOK, Present, Rows
  <2>3. worker.up.image = i /\ worker.up.text = worker.snap[i].text
    BY <1>5, <2>1 DEF WorkerSave
  <2>4. row \in ImageRow /\ Honest(i, row)
    BY <2>2, <2>3, UploadedIsRow DEF Honest, TypeOK
  <2>5. /\ worker'.pc = "upload" /\ worker'.todo = worker.todo \ {i}
        /\ worker'.snap = [worker.snap EXCEPT ![i] = row]
    BY <2>1 DEF TypeOK
  <2>6. \A j \in Images : j # i => rows'[j] = rows[j] /\ worker'.snap[j] = worker.snap[j]
    BY <2>1, <2>5 DEF TypeOK, Rows
  <2>7. rows'[i] = row /\ worker'.snap[i] = row
    BY <2>1, <2>2, <2>5 DEF TypeOK, Rows
  <2> QED
    BY <2>4, <2>5, <2>6, <2>7 DEF Present
<1>6. CASE WorkerNoOriginal \/ WorkerVerify \/ WorkerError
  <2>1. /\ worker'.todo = worker.todo /\ worker'.pc \in {"finish", "fail"}
        /\ worker'.snap = worker.snap /\ rows' = rows
    BY <1>6 DEF WorkerNoOriginal, WorkerVerify, WorkerError, TypeOK
  <2> QED
    BY <2>1 DEF Present
<1>7. CASE WorkerFinish \/ WorkerFail
  BY <1>7 DEF WorkerFinish, WorkerFail, IdleWorker, Present
<1> QED
  BY <1>1, <1>2, <1>3, <1>4, <1>5, <1>6, <1>7 DEF WorkerStep

LEMMA NextSignature == TypeOK /\ SignatureIInv /\ [Next]_vars => SignatureIInv'
<1> SUFFICES ASSUME TypeOK, SignatureIInv, [Next]_vars PROVE SignatureIInv'
  OBVIOUS
<1>1. ASSUME NEW i \in Images, EditImage(i) PROVE SignatureIInv'
  <2>1. PICK text \in Text, todo \in Todos :
          rows' = [rows EXCEPT ![i].text = text, ![i].todo = todo]
    BY <1>1 DEF EditImage
  <2>2. rows[i] \in ImageRow
    BY <1>1 DEF EditImage, TypeOK, Rows
  <2>3. rows'[i].asset = rows[i].asset /\ rows'[i].sig = rows[i].sig
    BY <2>1, <2>2 DEF TypeOK, Rows, ImageRow
  <2>4. \A j \in Images : j # i => rows'[j] = rows[j]
    BY <2>1 DEF TypeOK, Rows
  <2> QED
    BY <1>1, <2>3, <2>4, RowsSignature DEF EditImage
<1>2. ASSUME NEW r \in Requests, RequestStep(r) PROVE SignatureIInv'
  BY <1>2, RequestSignature
<1>3. ASSUME NEW r \in Requests, BeginRequest(r) PROVE SignatureIInv'
  BY <1>3, RowsSignature DEF BeginRequest, BeginFinalize, BeginRetry, BeginArchive,
     BeginBoxEdit, BeginUpload, Begin
<1>4. CASE WorkerStep
  BY <1>4, WorkerSignature
<1>5. CASE WorkerCrash
  BY <1>5 DEF WorkerCrash, SignatureIInv, IdleWorker, Present
<1>6. CASE PlaceSetCoords \/ AssetLost \/ (\E r \in Requests : WebCrash(r)) \/ UNCHANGED vars
  BY <1>6, RowsSignature DEF PlaceSetCoords, AssetLost, WebCrash, vars
<1> QED
  BY <1>1, <1>2, <1>3, <1>4, <1>5, <1>6 DEF Next

\* The rows of the images, the copies of them the worker works on and every
\* other variable keep their types, in every state and with every fault.
THEOREM TypeCorrect == Spec => [](TypeOK /\ SignatureIInv)
<1>1. Init => TypeOK /\ SignatureIInv
  BY InitTypeOK, InitSignature
<1>2. TypeOK /\ SignatureIInv /\ [Next]_vars => (TypeOK /\ SignatureIInv)'
  BY NextTypeOK, NextSignature
<1> QED
  BY <1>1, <1>2, PTL DEF Spec

\* An image row names an upload of this very image, and the signature is
\* that of the metadata in it: the stale full-row saves of finalize_box, edits
\* during an upload and crashes between upload and save never mix them up.
THEOREM SignatureCorrect == Spec => []SignatureDescribesAsset
<1>1. SignatureIInv => SignatureDescribesAsset
  BY DEF SignatureIInv, SignatureDescribesAsset, Honest
<1> QED
  BY <1>1, TypeCorrect, PTL

----------------------------------------------------------------------------
(* "Uploaded" boxes *)

LEMMA InitPushed == Init => PushedIInv
<1>1. NewRow # Absent
  BY NewRowIsRow, ConstantsOK DEF Assumptions
<1> QED
  BY <1>1, ConstantsOK DEF Assumptions, Init, PushedIInv, IdleRequest, IdleWorker, NoRow

\* No step removes an image or takes its asset away, and what keeps the
\* processes from claiming more than before keeps the invariant.
LEMMA QuietPushed ==
  ASSUME PushedIInv,
         \A i \in Images : rows[i] # Absent =>
            rows'[i] # Absent /\ (rows[i].asset # NoAsset => rows'[i].asset # NoAsset),
         box'.state = "uploaded" => AllPushed,
         \A r \in Requests : req'[r].box.state = "uploaded" => AllPushed,
         UNCHANGED worker \/ worker' = IdleWorker
  PROVE  PushedIInv'
<1>1. AllPushed => AllPushed'
  BY ConstantsOK DEF AllPushed, Pushed, Assumptions
<1>2. \A i \in InitImages : rows'[i] # Absent /\ (Pushed(i) => Pushed(i)')
  BY ConstantsOK DEF PushedIInv, Pushed, Assumptions
<1> QED
  BY <1>1, <1>2 DEF PushedIInv, IdleWorker, NoRow

LEMMA BeginPushed ==
  ASSUME TypeOK, PushedIInv, NEW r \in Requests, BeginRequest(r)
  PROVE  PushedIInv'
<1>1. \E view \in AllViews, at \in RequestSteps, row \in {box, NoRow} : Begin(r, view, at, row)
  BY DEF BeginRequest, BeginFinalize, BeginRetry, BeginArchive, BeginBoxEdit,
         BeginUpload, AllViews, RequestSteps
<1>2. PICK row \in {box, NoRow} :
        /\ \A q \in Requests : req'[q] = req[q] \/ req'[q].box = row
        /\ UNCHANGED <<box, rows, files, coords, immich, pending, worker>>
  BY <1>1 DEF Begin, TypeOK
<1>3. row.state = "uploaded" => AllPushed
  BY <1>2 DEF PushedIInv, NoRow
<1> QED
  BY <1>2, <1>3, QuietPushed DEF PushedIInv

\* What requests and edits leave of an image.
LEMMA RequestRows ==
  ASSUME TypeOK, NEW r \in Requests, RequestStep(r), NEW i \in Images, rows[i] # Absent
  PROVE  rows'[i] # Absent /\ rows'[i].asset = rows[i].asset
<1>1. rows[i] \in ImageRow
  BY DEF TypeOK, Rows
<1>2. CASE Archive(r)
  <2>1. rows'[i] = [rows[i] EXCEPT !.original = FALSE]
    BY <1>2 DEF Archive
  <2>2. [rows[i] EXCEPT !.original = FALSE] \in ImageRow
    BY <1>1 DEF ImageRow
  <2> QED
    BY <1>1, <2>1, <2>2, ConstantsOK DEF ImageRow, Assumptions
<1>3. CASE CreateImage(r)
  BY <1>3 DEF CreateImage, Present, TypeOK, Rows
<1>4. CASE UNCHANGED rows
  BY <1>4
<1> QED
  BY <1>2, <1>3, <1>4 DEF RequestStep, SaveInProgress, Enqueue, ArchiveRejected,
       SaveBoxEdit, CreateRejected

LEMMA EditRows ==
  ASSUME TypeOK, NEW i \in Images, EditImage(i)
  PROVE  /\ rows'[i] # Absent /\ rows'[i].asset = rows[i].asset
         /\ \A j \in Images : j # i => rows'[j] = rows[j]
<1>1. PICK text \in Text, todo \in Todos :
        rows' = [rows EXCEPT ![i].text = text, ![i].todo = todo]
  BY DEF EditImage
<1> DEFINE row == [rows[i] EXCEPT !.text = text, !.todo = todo]
<1>2. rows[i] \in ImageRow /\ rows'[i] = row
  BY <1>1 DEF EditImage, TypeOK, Rows
<1>3. row.asset = rows[i].asset /\ row \in ImageRow
  BY <1>2 DEF ImageRow
<1> QED
  BY <1>1, <1>2, <1>3, ConstantsOK DEF TypeOK, Rows, Assumptions

LEMMA RequestPushed ==
  ASSUME TypeOK, PushedIInv, NEW r \in Requests, RequestStep(r)
  PROVE  PushedIInv'
<1>1. \A q \in Requests : req'[q].box.state = "uploaded" => AllPushed
  <2>1. \E to \in {[at |-> "enqueue", box |-> NoRow], IdleRequest} :
          req' = [req EXCEPT ![r] = to]
    BY DEF RequestStep, SaveInProgress, Enqueue, Archive, ArchiveRejected, SaveBoxEdit,
           CreateImage, CreateRejected, Goes
  <2>2. \A q \in Requests : req'[q] = req[q] \/ req'[q].box = NoRow
    BY <2>1 DEF TypeOK, IdleRequest
  <2> QED
    BY <2>2 DEF PushedIInv, NoRow
<1>2. box'.state = "uploaded" => AllPushed
  BY DEF RequestStep, SaveInProgress, Enqueue, Archive, ArchiveRejected, SaveBoxEdit,
         CreateImage, CreateRejected, PushedIInv, TypeOK, BoxRow
<1>4. UNCHANGED worker
  BY DEF RequestStep, SaveInProgress, Enqueue, Archive, ArchiveRejected, SaveBoxEdit,
         CreateImage, CreateRejected
<1> QED
  BY <1>1, <1>2, <1>4, RequestRows, QuietPushed

LEMMA WorkerPushed ==
  ASSUME TypeOK, SignatureIInv, PushedIInv, WorkerStep
  PROVE  PushedIInv'
<1>1. CASE WorkerClaim
  <2>1. worker'.box = box /\ worker'.pc \in {"mark", "fail"}
    BY <1>1 DEF WorkerClaim, IdleWorker
  <2> QED
    BY <1>1, <2>1 DEF WorkerClaim, PushedIInv, AllPushed, Pushed
<1>2. CASE WorkerMark
  <2>1. worker'.box.state = "in_progress" /\ worker'.pc = "load" /\ box'.state = "in_progress"
    BY <1>2 DEF WorkerMark, TypeOK, BoxRow
  <2> QED
    BY <1>2, <2>1 DEF WorkerMark, PushedIInv, AllPushed, Pushed
<1>3. CASE WorkerLoad
  <2>1. /\ worker'.todo = {i \in Present(rows) : ~IsCurrent(rows[i])}
        /\ worker'.pc = "upload" /\ worker'.snap = rows /\ worker'.box = worker.box
    BY <1>3 DEF WorkerLoad, TypeOK
  <2>2. ASSUME NEW i \in InitImages
        PROVE  /\ worker'.snap[i] # Absent
               /\ i \in worker'.todo \/ (Pushed(i) /\ worker'.snap[i].asset # NoAsset)
    BY <2>1, ConstantsOK DEF PushedIInv, Present, IsCurrent, Pushed, Assumptions
  <2> QED
    BY <1>3, <2>1, <2>2 DEF WorkerLoad, PushedIInv, AllPushed, Pushed
<1>4. CASE WorkerUpload
  <2>1. /\ worker'.todo = worker.todo /\ worker'.pc = "save"
        /\ worker'.snap = worker.snap /\ worker'.box = worker.box
    BY <1>4 DEF WorkerUpload, TypeOK
  <2> QED
    BY <1>4, <2>1 DEF WorkerUpload, PushedIInv, AllPushed, Pushed
<1>5. CASE WorkerSave
  <2>1. PICK i \in worker.todo :
          /\ NextToUpload(i)
          /\ LET row == Uploaded(worker.snap[i], worker.up) IN
               /\ rows' = [rows EXCEPT ![i] = row]
               /\ worker' = [worker EXCEPT !.pc = "upload", !.snap[i] = row,
                               !.todo = worker.todo \ {i}, !.up = NoAsset]
    BY <1>5 DEF WorkerSave
  <2> DEFINE row == Uploaded(worker.snap[i], worker.up)
  <2>2. i \in Images /\ worker.snap[i] \in ImageRow
    BY DEF SignatureIInv, TypeOK, Present, Rows
  <2>3. worker.up \in Content
    BY <1>5, <2>1 DEF WorkerSave, SignatureIInv
  <2>4. row \in ImageRow /\ row.asset = worker.up
    BY <2>2, <2>3, UploadedIsRow
  <2>5. row # Absent /\ row.asset # NoAsset
    BY <2>3, <2>4, ConstantsOK DEF Assumptions
  <2>6. /\ worker'.pc = "upload" /\ worker'.todo = worker.todo \ {i}
        /\ worker'.snap = [worker.snap EXCEPT ![i] = row] /\ worker'.box = worker.box
    BY <2>1 DEF TypeOK
  <2>7. \A j \in Images : j # i => rows'[j] = rows[j] /\ worker'.snap[j] = worker.snap[j]
    BY <2>1, <2>6 DEF TypeOK, Rows
  <2>8. rows'[i] = row /\ worker'.snap[i] = row
    BY <2>1, <2>2, <2>6 DEF TypeOK, Rows
  <2>9. \A j \in InitImages : rows'[j] # Absent /\ (Pushed(j) => Pushed(j)')
    BY <2>5, <2>7, <2>8, ConstantsOK DEF PushedIInv, Pushed, Assumptions
  <2>10. \A j \in InitImages :
           /\ worker'.snap[j] # Absent
           /\ j \in worker'.todo \/ (Pushed(j)' /\ worker'.snap[j].asset # NoAsset)
    BY <1>5, <2>5, <2>6, <2>7, <2>8, <2>9, ConstantsOK
       DEF PushedIInv, Pushed, Assumptions, WorkerSave
  <2> QED
    BY <1>5, <2>6, <2>9, <2>10 DEF WorkerSave, PushedIInv, AllPushed
<1>6. CASE WorkerVerify
  <2>1. /\ worker'.pc \in {"finish", "fail"} /\ worker'.box = worker.box
        /\ UNCHANGED <<box, rows, req>>
    BY <1>6 DEF WorkerVerify, TypeOK
  <2>2. AllPushed
    <3>1. worker.pc \in {"upload", "save"}
      BY <1>6 DEF WorkerVerify
    <3>2. ASSUME NEW i \in InitImages PROVE Pushed(i)
      <4>1. i \notin worker.todo
        BY <1>6 DEF WorkerVerify
      <4> QED
        BY <3>1, <4>1 DEF PushedIInv
    <3> QED
      BY <3>2 DEF AllPushed
  <2> QED
    BY <2>1, <2>2 DEF PushedIInv, AllPushed, Pushed
<1>7. CASE WorkerNoOriginal \/ WorkerError
  <2>1. /\ worker'.pc = "fail" /\ worker'.box = worker.box /\ UNCHANGED <<box, rows, req>>
    BY <1>7 DEF WorkerNoOriginal, WorkerError, TypeOK
  <2> QED
    BY <2>1 DEF PushedIInv, AllPushed, Pushed
<1>8. CASE WorkerFinish
  BY <1>8, QuietPushed DEF WorkerFinish, PushedIInv
<1>9. CASE WorkerFail
  <2>1. box'.state = "failed"
    BY <1>9 DEF WorkerFail, TypeOK, BoxRow
  <2> QED
    BY <1>9, <2>1, QuietPushed DEF WorkerFail, PushedIInv
<1> QED
  BY <1>1, <1>2, <1>3, <1>4, <1>5, <1>6, <1>7, <1>8, <1>9 DEF WorkerStep

LEMMA NextPushed == TypeOK /\ SignatureIInv /\ PushedIInv /\ [Next]_vars => PushedIInv'
<1> SUFFICES ASSUME TypeOK, SignatureIInv, PushedIInv, [Next]_vars PROVE PushedIInv'
  OBVIOUS
<1>1. ASSUME NEW i \in Images, EditImage(i) PROVE PushedIInv'
  BY <1>1, EditRows, QuietPushed DEF EditImage, PushedIInv
<1>2. ASSUME NEW r \in Requests, BeginRequest(r) \/ RequestStep(r) PROVE PushedIInv'
  BY <1>2, BeginPushed, RequestPushed
<1>3. ASSUME NEW r \in Requests, WebCrash(r) PROVE PushedIInv'
  <2>1. \A q \in Requests : req'[q] = req[q] \/ req'[q].box = NoRow
    BY <1>3 DEF WebCrash, TypeOK, IdleRequest
  <2> QED
    BY <1>3, <2>1, QuietPushed DEF WebCrash, PushedIInv, NoRow
<1>4. CASE WorkerStep
  BY <1>4, WorkerPushed
<1>5. CASE WorkerCrash
  BY <1>5, QuietPushed DEF WorkerCrash, PushedIInv
<1>6. CASE PlaceSetCoords \/ AssetLost \/ UNCHANGED vars
  BY <1>6, QuietPushed DEF PlaceSetCoords, AssetLost, vars, PushedIInv
<1> QED
  BY <1>1, <1>2, <1>3, <1>4, <1>5, <1>6 DEF Next

\* A box says "uploaded" only when each image it has held from the start has
\* been uploaded, although stale box rows with that state are written back by
\* box_edit, and finalize_box may fail, be killed or run twice.
THEOREM PushedCorrect == Spec => []UploadedMeansPushed
<1>1. Init => PushedIInv
  BY InitPushed
<1>2. TypeOK /\ SignatureIInv /\ PushedIInv /\ [Next]_vars => PushedIInv'
  BY NextPushed
<1>3. PushedIInv => UploadedMeansPushed
  BY DEF PushedIInv, UploadedMeansPushed, AllPushed, Pushed
<1> QED
  BY <1>1, <1>2, <1>3, TypeCorrect, PTL DEF Spec

----------------------------------------------------------------------------
(* The upload job *)

\* What the two theorems below exclude, each of which does break them: killed
\* processes, and box edits, which write an old state back.
Undisturbed ==
  /\ Faults \cap {"webCrash", "workerCrash"} = {}
  /\ "boxEdit" \notin Views

NoBoxEdit == \A r \in Requests : req[r].at # "boxSave"

LEMMA NextNoBoxEdit ==
  ASSUME Undisturbed, TypeOK, NoBoxEdit, [Next]_vars
  PROVE  NoBoxEdit'
<1>1. ASSUME NEW r \in Requests, BeginRequest(r) PROVE NoBoxEdit'
  <2>1. \E at \in RequestSteps \ {"boxSave"}, row \in {box, NoRow} :
          req' = [req EXCEPT ![r] = [at |-> at, box |-> row]]
    BY <1>1 DEF BeginRequest, BeginFinalize, BeginRetry, BeginArchive, BeginBoxEdit,
       BeginUpload, Begin, RequestSteps, Undisturbed
  <2> QED
    BY <2>1 DEF NoBoxEdit, TypeOK
<1>2. ASSUME NEW r \in Requests, RequestStep(r) PROVE NoBoxEdit'
  <2>1. \E to \in {[at |-> "enqueue", box |-> NoRow], IdleRequest} :
          req' = [req EXCEPT ![r] = to]
    BY <1>2 DEF RequestStep, SaveInProgress, Enqueue, Archive, ArchiveRejected,
       SaveBoxEdit, CreateImage, CreateRejected, Goes
  <2> QED
    BY <2>1 DEF NoBoxEdit, TypeOK, IdleRequest
<1>3. CASE UNCHANGED req
  BY <1>3 DEF NoBoxEdit
<1>4. ASSUME NEW r \in Requests, WebCrash(r) PROVE FALSE
  BY <1>4 DEF WebCrash, Undisturbed
<1>5. (\E i \in Images : EditImage(i)) \/ PlaceSetCoords \/ WorkerStep \/ WorkerCrash
      \/ AssetLost \/ UNCHANGED vars => UNCHANGED req
  BY DEF EditImage, PlaceSetCoords, WorkerStep, WorkerClaim, WorkerMark, WorkerLoad,
     WorkerUpload, WorkerNoOriginal, WorkerSave, WorkerVerify, WorkerFinish,
     WorkerFail, WorkerError, WorkerCrash, AssetLost, vars
<1> QED
  BY <1>1, <1>2, <1>3, <1>4, <1>5 DEF Next

\* A request that is not about to enqueue, and is not afterwards, leaves the
\* number of jobs as it was.
LEMMA OtherRequest ==
  ASSUME TypeOK, NEW r \in Requests, req[r].at # "enqueue",
         NEW to, to.at # "enqueue", req' = [req EXCEPT ![r] = to],
         UNCHANGED <<pending, worker>>
  PROVE  JobActive' <=> JobActive
<1>1. \A q \in Requests : req'[q].at = "enqueue" <=> req[q].at = "enqueue"
  BY DEF TypeOK
<1> QED
  BY <1>1 DEF JobActive

LEMMA RequestRefinesJob ==
  ASSUME TypeOK, NoBoxEdit, NEW r \in Requests, RequestStep(r)
  PROVE  [Job!JobNext]_(Job!jobVars)
<1> USE DEF Job!JobNext, Job!jobVars
<1>1. CASE SaveInProgress(r)
  <2>1. req'[r].at = "enqueue" /\ box'.state = "in_progress"
    BY <1>1 DEF SaveInProgress, Goes, TypeOK, BoxRow
  <2> QED
    BY <2>1 DEF JobActive, Job!Request
<1>2. CASE Enqueue(r)
  <2>1. req[r].at = "enqueue" /\ pending' > 0 /\ UNCHANGED box
    BY <1>2 DEF Enqueue, Goes, TypeOK
  <2>2. JobActive /\ JobActive'
    BY <2>1 DEF JobActive
  <2> QED
    BY <2>1, <2>2
<1>3. CASE Archive(r) \/ ArchiveRejected(r) \/ CreateImage(r) \/ CreateRejected(r)
  <2>1. /\ req[r].at # "enqueue" /\ req' = [req EXCEPT ![r] = IdleRequest]
        /\ UNCHANGED <<pending, worker>> /\ box'.state = box.state
    BY <1>3 DEF Archive, ArchiveRejected, CreateImage, CreateRejected, Goes, TypeOK, BoxRow
  <2>2. JobActive' <=> JobActive
    BY <2>1, OtherRequest DEF IdleRequest
  <2> QED
    BY <2>1, <2>2
<1>4. CASE SaveBoxEdit(r)
  BY <1>4 DEF SaveBoxEdit, Goes, NoBoxEdit
<1> QED
  BY <1>1, <1>2, <1>3, <1>4 DEF RequestStep

LEMMA BeginRefinesJob ==
  ASSUME TypeOK, NEW r \in Requests, BeginRequest(r)
  PROVE  [Job!JobNext]_(Job!jobVars)
<1>1. PICK at \in RequestSteps \ {"enqueue"}, row \in {box, NoRow} :
        /\ req[r].at = "idle"
        /\ req' = [req EXCEPT ![r] = [at |-> at, box |-> row]]
        /\ UNCHANGED <<pending, worker, box>>
  BY DEF BeginRequest, BeginFinalize, BeginRetry, BeginArchive, BeginBoxEdit,
     BeginUpload, Begin, RequestSteps
<1>2. JobActive' <=> JobActive
  <2>1. [at |-> at, box |-> row].at # "enqueue" /\ req[r].at # "enqueue"
    BY <1>1
  <2> QED
    BY <1>1, <2>1, OtherRequest
<1> QED
  BY <1>1, <1>2 DEF Job!jobVars

LEMMA WorkerRefinesJob ==
  ASSUME TypeOK, WorkerStep
  PROVE  [Job!JobNext]_(Job!jobVars)
<1> USE DEF Job!JobNext, Job!jobVars
<1>1. CASE WorkerClaim
  <2>1. pending > 0 /\ worker'.pc # "idle" /\ UNCHANGED box
    BY <1>1 DEF WorkerClaim, IdleWorker
  <2>2. JobActive /\ JobActive'
    BY <2>1 DEF JobActive
  <2> QED
    BY <2>1, <2>2
<1>2. CASE WorkerMark
  <2>1. box'.state = "in_progress" /\ worker.pc # "idle" /\ worker'.pc # "idle"
    BY <1>2 DEF WorkerMark, TypeOK, BoxRow
  <2>2. JobActive /\ JobActive'
    BY <2>1 DEF JobActive
  <2> QED
    BY <2>1, <2>2 DEF Job!Resume
<1>3. CASE WorkerFinish \/ WorkerFail
  <2>1. box'.state \in {"uploaded", "failed"} /\ worker.pc # "idle"
    BY <1>3 DEF WorkerFinish, WorkerFail, TypeOK, BoxRow
  <2>2. JobActive /\ (JobActive' \in BOOLEAN)
    BY <2>1 DEF JobActive
  <2> QED
    BY <2>1, <2>2 DEF Job!Settle, Job!Settled
<1>4. CASE WorkerLoad \/ WorkerUpload \/ WorkerNoOriginal \/ WorkerSave \/ WorkerVerify
           \/ WorkerError
  <2>1. worker.pc # "idle" /\ worker'.pc # "idle" /\ UNCHANGED box
    BY <1>4 DEF WorkerLoad, WorkerUpload, WorkerNoOriginal, WorkerSave, WorkerVerify,
       WorkerError, TypeOK
  <2>2. JobActive /\ JobActive'
    BY <2>1 DEF JobActive
  <2> QED
    BY <2>1, <2>2
<1> QED
  BY <1>1, <1>2, <1>3, <1>4 DEF WorkerStep

LEMMA NextRefinesJob ==
  ASSUME Undisturbed, TypeOK, NoBoxEdit, [Next]_vars
  PROVE  [Job!JobNext]_(Job!jobVars)
<1>1. ASSUME NEW r \in Requests, BeginRequest(r) \/ RequestStep(r)
      PROVE  [Job!JobNext]_(Job!jobVars)
  BY <1>1, BeginRefinesJob, RequestRefinesJob
<1>2. CASE WorkerStep
  BY <1>2, WorkerRefinesJob
<1>3. CASE (\E i \in Images : EditImage(i)) \/ PlaceSetCoords \/ AssetLost \/ UNCHANGED vars
  <2>1. UNCHANGED <<box, req, pending, worker>>
    BY <1>3 DEF EditImage, PlaceSetCoords, AssetLost, vars
  <2>2. JobActive' <=> JobActive
    BY <2>1 DEF JobActive
  <2> QED
    BY <2>1, <2>2 DEF Job!jobVars
<1>4. ~WorkerCrash /\ \A r \in Requests : ~WebCrash(r)
  BY DEF WorkerCrash, WebCrash, Undisturbed
<1> QED
  BY <1>1, <1>2, <1>3, <1>4 DEF Next

\* Every step of handlers, queue and worker is a step of the job a user sees,
\* or none at all: "in progress" begins with a request, a job settles it.
THEOREM JobSafetyCorrect == Undisturbed => (Spec => Job!JobSafety)
<1> SUFFICES ASSUME Undisturbed PROVE Spec => Job!JobSafety
  OBVIOUS
<1>1. Init => Job!JobInit /\ NoBoxEdit
  <2> SUFFICES ASSUME Init PROVE Job!JobInit /\ NoBoxEdit
    OBVIOUS
  <2>1. ~JobActive
    BY DEF Init, JobActive, IdleRequest, IdleWorker
  <2>2. box.state = "not_uploaded" /\ NoBoxEdit
    BY DEF Init, NoRow, NoBoxEdit, IdleRequest
  <2> QED
    BY <2>1, <2>2 DEF Job!JobInit
<1>2. TypeOK /\ NoBoxEdit /\ [Next]_vars => NoBoxEdit'
  BY NextNoBoxEdit
<1>3. TypeOK /\ NoBoxEdit /\ [Next]_vars => [Job!JobNext]_(Job!jobVars)
  BY NextRefinesJob
<1> QED
  BY <1>1, <1>2, <1>3, TypeCorrect, PTL DEF Spec, Job!JobSafety

\* A box that says "in progress" has a request, a queued task or the worker to
\* end that, as long as no process is killed and nobody edits the box.
THEOREM RunningCorrect == Undisturbed => (Spec => []UploadRunning)
<1> SUFFICES ASSUME Undisturbed PROVE Spec => []UploadRunning
  OBVIOUS
<1>1. Job!JobInit => UploadRunning
  BY DEF Job!JobInit, UploadRunning
<1>2. UploadRunning /\ [Job!JobNext]_(Job!jobVars) => UploadRunning'
  <2> SUFFICES ASSUME UploadRunning, [Job!JobNext]_(Job!jobVars) PROVE UploadRunning'
    OBVIOUS
  <2>1. CASE Job!Request \/ Job!Resume \/ UNCHANGED Job!jobVars
    BY <2>1 DEF Job!Request, Job!Resume, Job!jobVars, UploadRunning
  <2>2. CASE Job!Settle
    BY <2>2 DEF Job!Settle, Job!Settled, UploadRunning
  <2> QED
    BY <2>1, <2>2 DEF Job!JobNext
<1> QED
  BY <1>1, <1>2, JobSafetyCorrect, PTL DEF Job!JobSafety

----------------------------------------------------------------------------
(* Originals *)

\* The image the worker has uploaded has its asset from then on; the others
\* stay as they are.
LEMMA SaveRows ==
  ASSUME TypeOK, SignatureIInv, WorkerSave
  PROVE  \E i \in worker.todo :
           /\ i \in Images /\ worker.up \in Content
           /\ rows'[i] # Absent /\ rows'[i].asset = worker.up
           /\ worker'.snap[i] = rows'[i]
           /\ \A j \in Images : j # i => rows'[j] = rows[j] /\ worker'.snap[j] = worker.snap[j]
           /\ worker'.pc = "upload"
<1>1. PICK i \in worker.todo :
        /\ NextToUpload(i)
        /\ LET row == Uploaded(worker.snap[i], worker.up) IN
             /\ rows' = [rows EXCEPT ![i] = row]
             /\ worker' = [worker EXCEPT !.pc = "upload", !.snap[i] = row,
                             !.todo = worker.todo \ {i}, !.up = NoAsset]
  BY DEF WorkerSave
<1> DEFINE row == Uploaded(worker.snap[i], worker.up)
<1>2. i \in Images /\ worker.snap[i] \in ImageRow /\ worker.up \in Content
  BY <1>1 DEF SignatureIInv, TypeOK, Present, Rows, WorkerSave
<1>3. row \in ImageRow /\ row.asset = worker.up
  BY <1>2, UploadedIsRow
<1>4. /\ worker'.pc = "upload" /\ worker'.snap = [worker.snap EXCEPT ![i] = row]
      /\ rows' = [rows EXCEPT ![i] = row]
  BY <1>1 DEF TypeOK
<1>5. \A j \in Images : j # i => rows'[j] = rows[j] /\ worker'.snap[j] = worker.snap[j]
  BY <1>4 DEF TypeOK, Rows
<1>6. rows'[i] = row /\ worker'.snap[i] = row
  BY <1>2, <1>4 DEF TypeOK, Rows
<1> QED
  BY <1>2, <1>3, <1>4, <1>5, <1>6, ConstantsOK DEF Assumptions

\* The steps that change no row: all but an edit, two of the requests and one
\* of the worker.
LEMMA RowsStay ==
  ASSUME [Next]_vars
  PROVE  \/ UNCHANGED rows
         \/ \E i \in Images : EditImage(i)
         \/ \E r \in Requests : RequestStep(r)
         \/ WorkerSave
BY DEF Next, vars, PlaceSetCoords, BeginRequest, BeginFinalize, BeginRetry, BeginArchive,
   BeginBoxEdit, BeginUpload, Begin, WebCrash, WorkerStep, WorkerClaim, WorkerMark,
   WorkerLoad, WorkerUpload, WorkerNoOriginal, WorkerVerify, WorkerFinish, WorkerFail,
   WorkerError, WorkerCrash, AssetLost

\* No step removes an image, or the asset of one.
LEMMA AssetsStay ==
  ASSUME TypeOK, SignatureIInv, [Next]_vars, NEW i \in Images, rows[i] # Absent
  PROVE  /\ rows'[i] # Absent
         /\ rows[i].asset # NoAsset => rows'[i].asset # NoAsset
<1>1. CASE UNCHANGED rows
  BY <1>1
<1>2. ASSUME NEW j \in Images, EditImage(j)
      PROVE  rows'[i] # Absent /\ (rows[i].asset # NoAsset => rows'[i].asset # NoAsset)
  BY <1>2, EditRows
<1>3. ASSUME NEW r \in Requests, RequestStep(r)
      PROVE  rows'[i] # Absent /\ (rows[i].asset # NoAsset => rows'[i].asset # NoAsset)
  BY <1>3, RequestRows
<1>4. CASE WorkerSave
  BY <1>4, SaveRows, ConstantsOK DEF Assumptions
<1> QED
  BY <1>1, <1>2, <1>3, <1>4, RowsStay

\* Files are only deleted by the archiving of a box.
LEMMA FilesStay ==
  ASSUME [Next]_vars, \A r \in Requests : ~Archive(r)
  PROVE  files \subseteq files'
BY DEF Next, vars, EditImage, PlaceSetCoords, BeginRequest, BeginFinalize, BeginRetry,
   BeginArchive, BeginBoxEdit, BeginUpload, Begin, RequestStep, SaveInProgress, Enqueue,
   ArchiveRejected, SaveBoxEdit, CreateImage, CreateRejected, WebCrash, WorkerStep,
   WorkerClaim, WorkerMark, WorkerLoad, WorkerUpload, WorkerNoOriginal, WorkerSave,
   WorkerVerify, WorkerFinish, WorkerFail, WorkerError, WorkerCrash, AssetLost

\* A request comes to archive only past the check, when all are uploaded.
LEMMA ArchiveChecked ==
  ASSUME TypeOK, [Next]_vars, NEW r \in Requests, req'[r].at = "archive"
  PROVE  req[r].at = "archive" \/ \A i \in Present(rows) : rows[i].asset # NoAsset
<1>1. ASSUME NEW q \in Requests, BeginArchive(q)
      PROVE  \A i \in Present(rows) : rows[i].asset # NoAsset
  BY <1>1 DEF BeginArchive, ImmichComplete, IsCurrent
<1>2. ASSUME NEW q \in Requests, NEW at \in {"save", "boxSave", "create"}, NEW view, NEW row,
             Begin(q, view, at, row)
      PROVE  req[r].at = "archive"
  BY <1>2 DEF Begin, TypeOK
<1>3. ASSUME NEW q \in Requests, BeginRequest(q)
      PROVE  req[r].at = "archive" \/ \A i \in Present(rows) : rows[i].asset # NoAsset
  BY <1>1, <1>2, <1>3 DEF BeginRequest, BeginFinalize, BeginRetry, BeginBoxEdit, BeginUpload
<1>4. ASSUME NEW q \in Requests, RequestStep(q) \/ WebCrash(q)
      PROVE  req[r].at = "archive"
  <2>1. \E to \in {[at |-> "enqueue", box |-> NoRow], IdleRequest} :
          req' = [req EXCEPT ![q] = to]
    BY <1>4 DEF RequestStep, SaveInProgress, Enqueue, Archive, ArchiveRejected,
       SaveBoxEdit, CreateImage, CreateRejected, Goes, WebCrash
  <2> QED
    BY <2>1 DEF TypeOK, IdleRequest
<1>5. (\E i \in Images : EditImage(i)) \/ PlaceSetCoords \/ WorkerStep \/ WorkerCrash
      \/ AssetLost \/ UNCHANGED vars => UNCHANGED req
  BY DEF EditImage, PlaceSetCoords, WorkerStep, WorkerClaim, WorkerMark, WorkerLoad,
     WorkerUpload, WorkerNoOriginal, WorkerSave, WorkerVerify, WorkerFinish,
     WorkerFail, WorkerError, WorkerCrash, AssetLost, vars
<1> QED
  BY <1>3, <1>4, <1>5 DEF Next

LEMMA NextArchive == TypeOK /\ SignatureIInv /\ ArchiveIInv /\ [Next]_vars => ArchiveIInv'
<1> SUFFICES ASSUME TypeOK, SignatureIInv, ArchiveIInv, [Next]_vars PROVE ArchiveIInv'
  OBVIOUS
<1>1. ASSUME NEW i \in InitImages PROVE rows'[i] # Absent /\ (Pushed(i) => Pushed(i)')
  BY AssetsStay, ConstantsOK DEF ArchiveIInv, Pushed, Assumptions
<1>2. AllPushed => AllPushed'
  BY <1>1 DEF AllPushed
<1>3. ASSUME NEW r \in Requests, req'[r].at = "archive" PROVE AllPushed'
  <2>1. CASE req[r].at = "archive"
    BY <1>2, <2>1 DEF ArchiveIInv
  <2>2. CASE \A i \in Present(rows) : rows[i].asset # NoAsset
    <3>1. AllPushed
      BY <2>2, ConstantsOK DEF ArchiveIInv, AllPushed, Pushed, Present, Assumptions
    <3> QED
      BY <1>2, <3>1
  <2> QED
    BY <1>3, <2>1, <2>2, ArchiveChecked
<1>4. ASSUME NEW i \in InitImages PROVE i \in files' \/ Pushed(i)'
  <2>1. CASE \E r \in Requests : Archive(r)
    BY <1>1, <2>1 DEF Archive, Goes, ArchiveIInv, AllPushed
  <2>2. CASE \A r \in Requests : ~Archive(r)
    BY <1>1, <2>2, FilesStay DEF ArchiveIInv
  <2> QED
    BY <2>1, <2>2
<1> QED
  BY <1>1, <1>3, <1>4 DEF ArchiveIInv

LEMMA InitArchive == Init => ArchiveIInv
<1>1. NewRow # Absent
  BY NewRowIsRow, ConstantsOK DEF Assumptions
<1> QED
  BY <1>1, ConstantsOK DEF Assumptions, Init, ArchiveIInv, IdleRequest

\* Each image that has been in the box from the start survives: on disk, or as
\* an upload.  Views, faults and stale box rows, which can undo an archiving
\* so that the box is archived twice, make no difference.
THEOREM FirstImagesSurvive ==
  Spec => [](\A i \in InitImages : i \in files \/ rows[i].asset # NoAsset)
<1>1. ArchiveIInv => \A i \in InitImages : i \in files \/ rows[i].asset # NoAsset
  BY DEF ArchiveIInv, Pushed
<1> QED
  BY <1>1, TypeCorrect, InitArchive, NextArchive, PTL DEF Spec

LEMMA WorkerStays == ASSUME [Next]_vars PROVE UNCHANGED worker \/ WorkerStep \/ WorkerCrash
BY DEF Next, vars, EditImage, PlaceSetCoords, BeginRequest, BeginFinalize, BeginRetry,
   BeginArchive, BeginBoxEdit, BeginUpload, Begin, RequestStep, SaveInProgress, Enqueue,
   Archive, ArchiveRejected, SaveBoxEdit, CreateImage, CreateRejected, WebCrash, AssetLost

\* But for the save of an image, the copies of the worker are those it had,
\* those it loads, or none.
LEMMA SnapStays ==
  ASSUME TypeOK, [Next]_vars, ~WorkerSave
  PROVE  worker'.snap \in {worker.snap, rows, [i \in Images |-> Absent]}
<1>1. CASE WorkerClaim \/ WorkerFinish \/ WorkerFail \/ WorkerCrash
  <2>1. IdleWorker.snap = [i \in Images |-> Absent]
    BY DEF IdleWorker
  <2>2. CASE WorkerClaim
    <3>1. PICK pc : worker' = [IdleWorker EXCEPT !.pc = pc, !.box = box]
      BY <2>2 DEF WorkerClaim
    <3> QED
      BY <3>1 DEF IdleWorker
  <2> QED
    BY <1>1, <2>1, <2>2 DEF WorkerFinish, WorkerFail, WorkerCrash
<1>2. CASE WorkerMark \/ WorkerLoad \/ WorkerUpload \/ WorkerNoOriginal \/ WorkerVerify
           \/ WorkerError
  BY <1>2 DEF WorkerMark, WorkerLoad, WorkerUpload, WorkerNoOriginal, WorkerVerify,
     WorkerError, TypeOK
<1> QED
  BY <1>1, <1>2, WorkerStays DEF WorkerStep

LEMMA NextNoUpload ==
  ASSUME "upload" \notin Views
  PROVE  TypeOK /\ SignatureIInv /\ NoUploadIInv /\ [Next]_vars => NoUploadIInv'
<1> SUFFICES ASSUME TypeOK, SignatureIInv, NoUploadIInv, [Next]_vars PROVE NoUploadIInv'
  OBVIOUS
<1>1. \A r \in Requests : req'[r].at # "create"
  <2>1. ASSUME NEW q \in Requests, BeginRequest(q)
        PROVE  \A r \in Requests : req'[r].at # "create"
    <3>1. \E at \in RequestSteps \ {"create"}, row \in {box, NoRow} :
            req' = [req EXCEPT ![q] = [at |-> at, box |-> row]]
      BY <2>1 DEF BeginRequest, BeginFinalize, BeginRetry, BeginArchive, BeginBoxEdit,
         BeginUpload, Begin, RequestSteps
    <3> QED
      BY <3>1 DEF NoUploadIInv, TypeOK
  <2>2. ASSUME NEW q \in Requests, RequestStep(q) \/ WebCrash(q)
        PROVE  \A r \in Requests : req'[r].at # "create"
    <3>1. \E to \in {[at |-> "enqueue", box |-> NoRow], IdleRequest} :
            req' = [req EXCEPT ![q] = to]
      BY <2>2 DEF RequestStep, SaveInProgress, Enqueue, Archive, ArchiveRejected,
         SaveBoxEdit, CreateImage, CreateRejected, Goes, WebCrash
    <3> QED
      BY <3>1 DEF NoUploadIInv, TypeOK, IdleRequest
  <2>3. (\E i \in Images : EditImage(i)) \/ PlaceSetCoords \/ WorkerStep \/ WorkerCrash
        \/ AssetLost \/ UNCHANGED vars => UNCHANGED req
    BY DEF EditImage, PlaceSetCoords, WorkerStep, WorkerClaim, WorkerMark, WorkerLoad,
       WorkerUpload, WorkerNoOriginal, WorkerSave, WorkerVerify, WorkerFinish,
       WorkerFail, WorkerError, WorkerCrash, AssetLost, vars
  <2> QED
    BY <2>1, <2>2, <2>3 DEF Next, NoUploadIInv
<1>2. ASSUME NEW i \in Images, rows'[i] # Absent PROVE i \in InitImages
  <2>1. CASE UNCHANGED rows
    BY <1>2, <2>1 DEF NoUploadIInv, Present
  <2>2. ASSUME NEW j \in Images, EditImage(j) PROVE i \in InitImages
    BY <1>2, <2>2, EditRows DEF NoUploadIInv, Present, EditImage
  <2>3. ASSUME NEW r \in Requests, RequestStep(r) PROVE i \in InitImages
    BY <1>2, <2>3 DEF RequestStep, SaveInProgress, Enqueue, Archive, ArchiveRejected,
       SaveBoxEdit, CreateImage, CreateRejected, Goes, NoUploadIInv, Present
  <2>4. CASE WorkerSave
    BY <1>2, <2>4, SaveRows DEF SignatureIInv, NoUploadIInv, Present
  <2> QED
    BY <2>1, <2>2, <2>3, <2>4, RowsStay
<1>3. ASSUME NEW i \in Images, worker'.snap[i] # Absent PROVE i \in InitImages
  <2>1. CASE WorkerSave
    BY <1>3, <2>1, SaveRows DEF SignatureIInv, NoUploadIInv, Present
  <2>2. CASE ~WorkerSave
    <3>1. worker'.snap \in {worker.snap, rows, [j \in Images |-> Absent]}
      BY <2>2, SnapStays
    <3> QED
      BY <1>3, <3>1 DEF NoUploadIInv, Present
  <2> QED
    BY <2>1, <2>2
<1> QED
  BY <1>1, <1>2, <1>3 DEF NoUploadIInv, Present

\* No image of a box loses both its original and its upload, as long as no
\* image comes into the box while somebody archives it (see original_lost).
THEOREM SurvivalCorrect == ASSUME "upload" \notin Views PROVE Spec => []OriginalSurvives
<1>1. Init => NoUploadIInv
  BY ConstantsOK DEF Init, NoUploadIInv, IdleRequest, IdleWorker, Present, Assumptions
<1>2. TypeOK /\ SignatureIInv /\ NoUploadIInv /\ [Next]_vars => NoUploadIInv'
  BY NextNoUpload
<1>3. ArchiveIInv /\ NoUploadIInv => OriginalSurvives
  BY DEF ArchiveIInv, NoUploadIInv, OriginalSurvives, Pushed
<1> QED
  BY <1>1, <1>2, <1>3, TypeCorrect, InitArchive, NextArchive, PTL DEF Spec

----------------------------------------------------------------------------
(* What the rows and the worker take for uploaded is on the server *)

LEMMA NextStored ==
  ASSUME "assetLost" \notin Faults
  PROVE  TypeOK /\ SignatureIInv /\ StoredIInv /\ [Next]_vars => StoredIInv'
<1> SUFFICES ASSUME TypeOK, SignatureIInv, StoredIInv, [Next]_vars PROVE StoredIInv'
  OBVIOUS
<1>1. immich \subseteq immich'
  BY DEF Next, vars, EditImage, PlaceSetCoords, BeginRequest, BeginFinalize, BeginRetry,
     BeginArchive, BeginBoxEdit, BeginUpload, Begin, RequestStep, SaveInProgress, Enqueue,
     Archive, ArchiveRejected, SaveBoxEdit, CreateImage, CreateRejected, WebCrash,
     WorkerStep, WorkerClaim, WorkerMark, WorkerLoad, WorkerUpload, WorkerNoOriginal,
     WorkerSave, WorkerVerify, WorkerFinish, WorkerFail, WorkerError, WorkerCrash, AssetLost
<1>2. ASSUME NEW i \in Images, rows'[i] # Absent, rows'[i].asset # NoAsset
      PROVE  rows'[i].asset \in immich'
  <2>1. CASE UNCHANGED rows
    BY <1>1, <1>2, <2>1 DEF StoredIInv, OnServer, Present
  <2>2. ASSUME NEW j \in Images, EditImage(j) PROVE rows'[i].asset \in immich'
    BY <1>1, <1>2, <2>2, EditRows DEF StoredIInv, OnServer, Present, EditImage
  <2>3. ASSUME NEW r \in Requests, RequestStep(r) PROVE rows'[i].asset \in immich'
    <3>1. CASE rows[i] # Absent
      BY <1>1, <1>2, <2>3, <3>1, RequestRows DEF StoredIInv, OnServer, Present
    <3>2. CASE rows[i] = Absent
      <4>1. rows'[i] = Absent \/ rows'[i] = NewRow
        BY <2>3, <3>2 DEF RequestStep, SaveInProgress, Enqueue, Archive, ArchiveRejected,
           SaveBoxEdit, CreateImage, CreateRejected, Goes, TypeOK, Rows
      <4> QED
        BY <1>2, <4>1 DEF NewRow
    <3> QED
      BY <3>1, <3>2
  <2>4. CASE WorkerSave
    BY <1>1, <1>2, <2>4, SaveRows DEF StoredIInv, OnServer, Present, WorkerSave
  <2> QED
    BY <2>1, <2>2, <2>3, <2>4, RowsStay
<1>3. ASSUME NEW i \in Images, worker'.snap[i] # Absent, worker'.snap[i].asset # NoAsset
      PROVE  worker'.snap[i].asset \in immich'
  <2>1. CASE WorkerSave
    BY <1>1, <1>3, <2>1, SaveRows DEF StoredIInv, OnServer, Present, WorkerSave
  <2>2. CASE ~WorkerSave
    <3>1. worker'.snap \in {worker.snap, rows, [j \in Images |-> Absent]}
      BY <2>2, SnapStays
    <3> QED
      BY <1>1, <1>3, <3>1 DEF StoredIInv, OnServer, Present
  <2> QED
    BY <2>1, <2>2
<1>4. ASSUME worker'.pc = "save" PROVE worker'.up \in immich'
  <2>1. CASE WorkerUpload
    BY <2>1 DEF WorkerUpload, TypeOK
  <2>2. CASE ~WorkerUpload
    <3>1. ~WorkerStep
      <4>1. ~(WorkerClaim \/ WorkerFinish \/ WorkerFail)
        <5>1. WorkerClaim => worker'.pc \in {"mark", "fail"}
          BY DEF WorkerClaim, IdleWorker
        <5>2. WorkerFinish \/ WorkerFail => worker'.pc = "idle"
          BY DEF WorkerFinish, WorkerFail, IdleWorker
        <5> QED
          BY <1>4, <5>1, <5>2
      <4>2. ~(WorkerMark \/ WorkerLoad \/ WorkerNoOriginal \/ WorkerSave \/ WorkerVerify
              \/ WorkerError)
        BY <1>4 DEF WorkerMark, WorkerLoad, WorkerNoOriginal, WorkerSave, WorkerVerify,
           WorkerError, TypeOK
      <4> QED
        BY <2>2, <4>1, <4>2 DEF WorkerStep
    <3>2. UNCHANGED worker
      BY <1>4, <3>1, WorkerStays DEF WorkerCrash, IdleWorker
    <3> QED
      BY <1>1, <1>4, <3>2 DEF StoredIInv
  <2> QED
    BY <2>1, <2>2
<1> QED
  BY <1>2, <1>3, <1>4 DEF StoredIInv, OnServer, Present

\* The metadata of every image that counts as uploaded are on the server, if
\* nobody deletes photos there: not by a stale copy the worker saves, nor by an
\* edit that comes back to an older text.
THEOREM StoredCorrect == ASSUME "assetLost" \notin Faults PROVE Spec => []CurrentIsStored
<1>1. Init => StoredIInv
  BY DEF Init, StoredIInv, OnServer, NewRow, IdleWorker, Present
<1>2. TypeOK /\ SignatureIInv /\ StoredIInv /\ [Next]_vars => StoredIInv'
  BY NextStored
<1>3. SignatureIInv /\ StoredIInv => CurrentIsStored
  BY DEF SignatureIInv, StoredIInv, CurrentIsStored, Honest, OnServer, IsCurrent
<1> QED
  BY <1>1, <1>2, <1>3, TypeCorrect, PTL DEF Spec

=============================================================================

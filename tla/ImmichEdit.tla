----------------------------- MODULE ImmichEdit -----------------------------
(***************************************************************************)
(* The Immich edit round trip (core/views.py, core/immich.py,              *)
(* static/core/immich_edit.js): photos that are on the Immich server are   *)
(* replaced by edited versions of their files.                             *)
(*                                                                         *)
(* "Zuordnen" matches the file names with the photos of an album and       *)
(* stores a session with the metadata of every matched photo.  "Ersetzen"  *)
(* then sends the files one by one.  Per file the view talks to Immich for *)
(* minutes, outside any transaction, on the copy of the session it has     *)
(* read, and merges the result into the session afterwards.  Whoever gets  *)
(* no answer, or opens the page twice, sends a file again: two gunicorn    *)
(* workers may replace the same photo at the same time.                    *)
(***************************************************************************)
EXTENDS Naturals, FiniteSets

CONSTANTS
  Files,     \* file names; each stands for one photo of the album
  Versions,  \* versions of a photo, in the order they are made; 0 is the first
  Sessions,  \* sessions users create
  Requests,  \* immich_edit_file requests running at the same time
  Attempts,  \* UPLOAD_VERIFY_ATTEMPTS
  Broken,    \* what Immich keeps of a truncated upload
  None,      \* no session, no file
  Faults,    \* faults that happen
  Reverts    \* users also upload versions older than the photo they replace

AllFaults == {"truncated", "error", "crash"}

ASSUME VersionsAssumption == Versions \subseteq Nat /\ 0 \in Versions /\ Broken \notin Versions
ASSUME NoneAssumption == None \notin Sessions \cup Files
ASSUME FaultsAssumption == Faults \subseteq AllFaults /\ Reverts \in BOOLEAN
ASSUME AttemptsAssumption == Attempts \in Nat \ {0}

VARIABLES
  asset,    \* the assets Immich has of each file
  session,  \* ImmichEditSession rows
  req       \* running immich_edit_file requests

vars == <<asset, session, req>>

Places == {"absent", "active", "trash"}

Assets == Versions \cup {Broken}

\* ready: the ingest job has run; related: it is in the album of the photo,
\* with its shared links; meta: the metadata of the photo or of the file.
Asset == [where: Places, ready: BOOLEAN, related: BOOLEAN, meta: {"photo", "exif"}]

Item == [state: {"none", "pending", "done", "error"},
         source: Versions, meta: {"photo", "exif"}]

Session == [state: {"new", "open", "gone"}, items: [Files -> Item]]

Steps == {"idle", "upload", "clean", "wait", "copy", "update", "trash", "merge"}

Request == [pc: Steps, session: Sessions \cup {None}, file: Files \cup {None},
            item: Item, version: Versions, target: Assets, tries: 0 .. Attempts]

Original == [where |-> "active", ready |-> TRUE, related |-> TRUE, meta |-> "photo"]

NoAsset == [where |-> "absent", ready |-> FALSE, related |-> FALSE, meta |-> "exif"]

\* Immich recognises a file it has, in its trash too, by the checksum.
Stored(a) == IF a.where = "absent" THEN [NoAsset EXCEPT !.where = "active"] ELSE a

NoItem == [state |-> "none", source |-> 0, meta |-> "exif"]

IdleRequest == [pc |-> "idle", session |-> None, file |-> None,
                item |-> NoItem, version |-> 0, target |-> 0, tries |-> 0]

Init ==
  /\ asset = [f \in Files |-> [v \in Assets |-> IF v = 0 THEN Original ELSE NoAsset]]
  /\ session = [s \in Sessions |-> [state |-> "new", items |-> [f \in Files |-> NoItem]]]
  /\ req = [r \in Requests |-> IdleRequest]

----------------------------------------------------------------------------
(* Sessions *)

InAlbum(f) == {v \in Versions : asset[f][v].where = "active" /\ asset[f][v].related}

\* match_edit_filenames: all versions of a photo have the stem of its file, so
\* a file is matched if exactly one of them is in the album.
Matched == {f \in Files : Cardinality(InAlbum(f)) = 1}

NewItem(f) ==
  LET v == CHOOSE w \in InAlbum(f) : TRUE IN
  [state |-> "pending", source |-> v, meta |-> asset[f][v].meta]

\* immich_edit_prepare with some of the files and the link of the album.
Prepare(s) ==
  /\ session[s].state = "new"
  /\ \E files \in (SUBSET Matched) \ {{}} :
       session' = [session EXCEPT ![s] =
         [state |-> "open",
          items |-> [f \in Files |-> IF f \in files THEN NewItem(f) ELSE NoItem]]]
  /\ UNCHANGED <<asset, req>>

\* prune_immich_edit_sessions, a day later.
Prune(s) ==
  /\ session[s].state = "open"
  /\ session' = [session EXCEPT ![s].state = "gone"]
  /\ UNCHANGED <<asset, req>>

----------------------------------------------------------------------------
(* immich_edit_file and _immich_edit_replace *)

\* The session is read; a finished file is not replaced again.
Begin(r, s, f, v) ==
  /\ req[r].pc = "idle"
  /\ session[s].state = "open"
  /\ LET item == session[s].items[f] IN
       /\ item.state # "none"
       /\ Reverts \/ v >= item.source
       /\ req' = [req EXCEPT ![r] =
            [pc |-> IF item.state = "done" THEN "merge" ELSE "upload",
             session |-> s, file |-> f, item |-> item, version |-> v, target |-> v, tries |-> 0]]
  /\ UNCHANGED <<asset, session>>

At(r, pc) == req[r].pc = pc

GoTo(r, pc) == req' = [req EXCEPT ![r].pc = pc]

\* The item reaches a terminal state, in the copy the request holds.
End(r, state) ==
  req' = [req EXCEPT ![r].pc = "merge", ![r].item.state = state,
                     ![r].version = 0, ![r].target = 0, ![r].tries = 0]

Target(r) == asset[req[r].file][req[r].target]

Source(r) == asset[req[r].file][req[r].item.source]

SetTarget(r, a) == asset' = [asset EXCEPT ![req[r].file][req[r].target] = a]

\* upload_verified.  A file that is the source itself is done.
Upload(r) ==
  /\ At(r, "upload")
  /\ SetTarget(r, Stored(Target(r)))
  /\ IF req[r].version = req[r].item.source THEN End(r, "done") ELSE GoTo(r, "wait")
  /\ UNCHANGED session

\* Mutant: nobody looks at the checksum of what Immich has stored.
UploadUnverified(r) ==
  /\ At(r, "upload")
  /\ "truncated" \in Faults
  /\ Target(r).where = "absent"
  /\ asset' = [asset EXCEPT ![req[r].file][Broken] = Stored(@)]
  /\ req' = [req EXCEPT ![r].pc = "wait", ![r].target = Broken]
  /\ UNCHANGED session

\* Immich stores only the beginning of the file, which is another asset.
UploadTruncated(r) ==
  /\ At(r, "upload")
  /\ "truncated" \in Faults
  /\ Target(r).where = "absent"
  /\ asset' = [asset EXCEPT ![req[r].file][Broken] = Stored(@)]
  /\ req' = [req EXCEPT ![r].pc = "clean", ![r].target = Broken]
  /\ UNCHANGED session

\* Mutant: the upload is tried again for ever.
CleanForever(r) ==
  /\ At(r, "clean")
  /\ SetTarget(r, [Target(r) EXCEPT !.where = "trash"])
  /\ req' = [req EXCEPT ![r].pc = "upload", ![r].target = req[r].version, ![r].tries = @ + 1]
  /\ UNCHANGED session

\* Its checksum is wrong: it goes to the trash and the file is uploaded again,
\* but not for ever.
Clean(r) ==
  /\ At(r, "clean")
  /\ SetTarget(r, [Target(r) EXCEPT !.where = "trash"])
  /\ IF req[r].tries + 1 < Attempts
       THEN req' = [req EXCEPT ![r].pc = "upload", ![r].target = req[r].version,
                               ![r].tries = @ + 1]
       ELSE End(r, "error")
  /\ UNCHANGED session

\* Mutant: the metadata is pushed without waiting for the ingest job.
WaitNot(r) ==
  /\ At(r, "wait")
  /\ GoTo(r, "copy")
  /\ UNCHANGED <<asset, session>>

\* wait_until_processed
Wait(r) ==
  /\ At(r, "wait")
  /\ Target(r).ready
  /\ GoTo(r, "copy")
  /\ UNCHANGED <<asset, session>>

\* copy_asset: albums, shared links, stack, favorite.
Copy(r) ==
  /\ At(r, "copy")
  /\ SetTarget(r, [Target(r) EXCEPT !.related = @ \/ Source(r).related])
  /\ GoTo(r, "update")
  /\ UNCHANGED session

\* update_asset with the metadata the session has of the source.
Update(r) ==
  /\ At(r, "update")
  /\ SetTarget(r, [Target(r) EXCEPT !.meta = req[r].item.meta])
  /\ GoTo(r, "trash")
  /\ UNCHANGED session

\* delete_assets of the source, never before all of this.  If the answer is
\* lost, the file counts as failed all the same.
Trash(r) ==
  /\ At(r, "trash")
  /\ asset' = [asset EXCEPT ![req[r].file][req[r].item.source].where = "trash"]
  /\ End(r, "done") \/ ("error" \in Faults /\ End(r, "error"))
  /\ UNCHANGED session

\* ImmichError, from any call to Immich: a refusal, retries used up, and at
\* "wait" the timeout.  The call before it may have been the one whose answer
\* was lost.
ReplaceError(r) ==
  /\ "error" \in Faults
  /\ req[r].pc \in Steps \ {"idle", "merge"}
  /\ End(r, "error")
  /\ UNCHANGED <<asset, session>>

Terminal(item) == item.state \in {"none", "done", "error"}

\* Mutant: the session is deleted when every file has been replaced.
MergeKeepingErrors(r) ==
  /\ At(r, "merge")
  /\ LET s == req[r].session
         items == [session[s].items EXCEPT ![req[r].file] = req[r].item]
     IN session' = CASE session[s].state = "gone" -> session
                     [] \A f \in Files : items[f].state \in {"none", "done"} ->
                          [session EXCEPT ![s].state = "gone"]
                     [] OTHER -> [session EXCEPT ![s].items = items]
  /\ req' = [req EXCEPT ![r] = IdleRequest]
  /\ UNCHANGED asset

\* The transaction: this item and no other is stored, and the session is
\* deleted with the last one.  The answer is sent, or lost.
Merge(r) ==
  /\ At(r, "merge")
  /\ LET s == req[r].session
         items == [session[s].items EXCEPT ![req[r].file] = req[r].item]
     IN session' = CASE session[s].state = "gone" -> session
                     [] \A f \in Files : Terminal(items[f]) ->
                          [session EXCEPT ![s].state = "gone"]
                     [] OTHER -> [session EXCEPT ![s].items = items]
  /\ req' = [req EXCEPT ![r] = IdleRequest]
  /\ UNCHANGED asset

\* The gunicorn worker is killed, by a deployment or after 1200 seconds.
Crash(r) ==
  /\ "crash" \in Faults
  /\ req[r].pc # "idle"
  /\ req' = [req EXCEPT ![r] = IdleRequest]
  /\ UNCHANGED <<asset, session>>

----------------------------------------------------------------------------
(* Immich *)

\* The ingest job of an asset runs at last, and overwrites its metadata with
\* those in the file.
Ingest(f, v) ==
  /\ asset[f][v].where # "absent"
  /\ ~asset[f][v].ready
  /\ asset' = [asset EXCEPT ![f][v].ready = TRUE, ![f][v].meta = "exif"]
  /\ UNCHANGED <<session, req>>

ReplaceStep(r) ==
  \/ Upload(r) \/ UploadTruncated(r) \/ Clean(r)
  \/ Wait(r) \/ Copy(r) \/ Update(r) \/ Trash(r)
  \/ ReplaceError(r) \/ Merge(r) \/ Crash(r)

Next ==
  \/ \E s \in Sessions : Prepare(s) \/ Prune(s)
  \/ \E r \in Requests :
       \/ \E s \in Sessions, f \in Files, v \in Versions : Begin(r, s, f, v)
       \/ ReplaceStep(r)
  \/ \E f \in Files, v \in Assets : Ingest(f, v)

Spec == Init /\ [][Next]_vars

----------------------------------------------------------------------------
(* Properties *)

TypeOK ==
  /\ asset \in [Files -> [Assets -> Asset]]
  /\ session \in [Sessions -> Session]
  /\ req \in [Requests -> Request]

Complete(a) == a.where = "active" /\ a.ready /\ a.related /\ a.meta = "photo"

\* "Alben, Metadaten und geteilte Links bleiben erhalten": at any time, some
\* version of every photo is out of the trash, in its albums and with its
\* metadata, which no ingest job is going to overwrite.
PhotoKept == \A f \in Files : \E v \in Versions : Complete(asset[f][v])

\* "Completed sessions delete themselves": one that is still there has a file
\* left to do, whichever requests have merged their results into it.
OpenSessionUnfinished ==
  \A s \in Sessions : session[s].state = "open" =>
    \E f \in Files : session[s].items[f].state = "pending"

\* A request that runs has a session and a file: part of type correctness.
Busy(r) == req[r].pc # "idle"

RequestIInv ==
  \A r \in Requests : Busy(r) => req[r].session \in Sessions /\ req[r].file \in Files

\* Inductive strengthening of PhotoKept.  Whatever is in the trash has been
\* superseded by a later version; so has the source of a replacement that is
\* about to trash it, since each step of it has made the new version more
\* complete, and nothing the other requests or Immich do takes that back.
Superseded(f, v) == \E w \in Versions : w > v /\ Complete(asset[f][w])

Sound(f, item) ==
  /\ item.meta = "photo"
  /\ asset[f][item.source].where # "absent" /\ asset[f][item.source].related

Progress(r) ==
  LET q == req[r] IN
  /\ q.pc \in {"upload", "clean"} => q.version >= q.item.source
  /\ q.pc = "upload" => q.target = q.version
  /\ q.pc = "clean" => q.target = Broken
  /\ q.pc \in {"wait", "copy", "update", "trash"} =>
       /\ q.target \in Versions /\ q.target > q.item.source
       /\ Target(r).where # "absent"
  /\ q.pc \in {"copy", "update", "trash"} => Target(r).ready
  /\ q.pc \in {"update", "trash"} => Target(r).related
  /\ q.pc = "trash" => Target(r).meta = "photo"

PhotoIInv ==
  /\ \A f \in Files :
       /\ IsFiniteSet(InAlbum(f))
       /\ asset[f][0].where = "trash" \/ Complete(asset[f][0])
       /\ \A v \in Versions : asset[f][v].where = "trash" => Superseded(f, v)
  /\ \A s \in Sessions, f \in Files :
       session[s].items[f].state # "none" => Sound(f, session[s].items[f])
  /\ \A r \in Requests : Busy(r) => Sound(req[r].file, req[r].item) /\ Progress(r)

=============================================================================

-------------------------- MODULE ImmichEditProofs --------------------------
(***************************************************************************)
(* Theorems about ImmichEdit, for any number of files, versions, sessions, *)
(* requests and attempts, and with every fault.                            *)
(***************************************************************************)
EXTENDS ImmichEdit, FiniteSetTheorems, TLAPS

----------------------------------------------------------------------------
(* Assets, requests, and what a step makes of one of them *)

LEMMA ConstantsOK ==
  /\ Versions \subseteq Assets /\ Versions \subseteq Nat /\ 0 \in Versions
  /\ Broken \in Assets /\ Broken \notin Versions
  /\ None \notin Sessions /\ None \notin Files
BY VersionsAssumption, NoneAssumption DEF Assets

LEMMA StoredIsAsset ==
  ASSUME NEW a \in Asset
  PROVE  /\ Stored(a) \in Asset
         /\ Stored(a).where # "absent"
         /\ a.where # "absent" => Stored(a) = a
         /\ a.where = "absent" => Stored(a).where = "active" /\ ~Stored(a).related
BY DEF Stored, NoAsset, Asset, Places

LEMMA SetAsset ==
  ASSUME TypeOK, NEW f \in Files, NEW v \in Assets, NEW a \in Asset,
         asset' = [asset EXCEPT ![f][v] = a]
  PROVE  /\ asset' \in [Files -> [Assets -> Asset]]
         /\ asset'[f][v] = a
         /\ \A g \in Files, w \in Assets : g # f \/ w # v => asset'[g][w] = asset[g][w]
BY DEF TypeOK

LEMMA SetRequest ==
  ASSUME TypeOK, NEW r \in Requests, NEW q, req' = [req EXCEPT ![r] = q]
  PROVE  /\ req'[r] = q
         /\ \A x \in Requests : x # r => req'[x] = req[x]
         /\ q \in Request => req' \in [Requests -> Request]
BY DEF TypeOK

LEMMA GoToStep ==
  ASSUME TypeOK, NEW r \in Requests, NEW pc \in Steps, GoTo(r, pc)
  PROVE  /\ req' \in [Requests -> Request]
         /\ req'[r] = [req[r] EXCEPT !.pc = pc]
         /\ \A x \in Requests : x # r => req'[x] = req[x]
BY DEF TypeOK, GoTo, Request

\* The item with its terminal state, and the request at the merge.
LEMMA EndStep ==
  ASSUME TypeOK, NEW r \in Requests, NEW state \in {"done", "error"}, End(r, state)
  PROVE  /\ req' \in [Requests -> Request]
         /\ req'[r].pc = "merge"
         /\ req'[r].session = req[r].session /\ req'[r].file = req[r].file
         /\ req'[r].item = [req[r].item EXCEPT !.state = state]
         /\ \A x \in Requests : x # r => req'[x] = req[x]
<1> DEFINE item == [req[r].item EXCEPT !.state = state]
           q == [req[r] EXCEPT !.pc = "merge", !.item = item,
                               !.version = 0, !.target = 0, !.tries = 0]
<1>1. req[r] \in Request
  BY DEF TypeOK
<1>2. item \in Item
  BY <1>1 DEF Request, Item
<1> HIDE DEF item
<1>3. q \in Request
  <2>1. "merge" \in Steps /\ 0 \in Versions /\ 0 \in Assets /\ 0 \in 0 .. Attempts
    BY ConstantsOK, AttemptsAssumption DEF Steps
  <2> QED
    BY <1>1, <1>2, <2>1 DEF Request
<1>4. q.pc = "merge" /\ q.session = req[r].session /\ q.file = req[r].file /\ q.item = item
  BY <1>1 DEF Request
<1>5. req' = [req EXCEPT ![r] = q]
  BY DEF End, TypeOK, item
<1> QED
  BY <1>3, <1>4, <1>5, SetRequest DEF item

----------------------------------------------------------------------------
(* Type correctness *)

LEMMA NoneTypes ==
  /\ NoItem \in Item /\ IdleRequest \in Request
  /\ Original \in Asset /\ NoAsset \in Asset
BY VersionsAssumption, AttemptsAssumption
   DEF NoItem, Item, IdleRequest, Request, Steps, Assets, Original, NoAsset, Asset, Places

LEMMA InitTypeOK == Init => TypeOK /\ RequestIInv
<1> SUFFICES ASSUME Init PROVE TypeOK /\ RequestIInv
  OBVIOUS
<1>1. asset \in [Files -> [Assets -> Asset]]
  BY NoneTypes DEF Init
<1>2. session \in [Sessions -> Session]
  BY NoneTypes DEF Init, Session
<1>3. req \in [Requests -> Request] /\ RequestIInv
  BY NoneTypes DEF Init, RequestIInv, Busy, IdleRequest
<1> QED
  BY <1>1, <1>2, <1>3 DEF TypeOK

\* A file that is matched has one version in its album; a session takes its
\* metadata from that one.
LEMMA NewItemSource ==
  ASSUME TypeOK, NEW f \in Matched
  PROVE  \E v \in InAlbum(f) :
           NewItem(f) = [state |-> "pending", source |-> v, meta |-> asset[f][v].meta]
<1>1. InAlbum(f) # {}
  BY FS_EmptySet DEF Matched
<1> QED
  BY <1>1 DEF NewItem

LEMMA PrepareStep ==
  ASSUME TypeOK, NEW s \in Sessions, Prepare(s)
  PROVE  \E files \in (SUBSET Matched) \ {{}} :
           /\ session'[s].state = "open"
           /\ session'[s].items = [f \in Files |-> IF f \in files THEN NewItem(f) ELSE NoItem]
           /\ \A x \in Sessions : x # s => session'[x] = session[x]
           /\ session' \in [Sessions -> Session]
<1>1. PICK files \in (SUBSET Matched) \ {{}} :
        session' = [session EXCEPT ![s] =
          [state |-> "open", items |-> [f \in Files |-> IF f \in files THEN NewItem(f) ELSE NoItem]]]
  BY DEF Prepare
<1>2. ASSUME NEW f \in files PROVE NewItem(f) \in Item
  <2>1. f \in Files /\ f \in Matched
    BY DEF Matched
  <2>2. PICK v \in InAlbum(f) :
          NewItem(f) = [state |-> "pending", source |-> v, meta |-> asset[f][v].meta]
    BY <2>1, NewItemSource
  <2>3. v \in Versions /\ asset[f][v] \in Asset
    BY <2>1, ConstantsOK DEF TypeOK, InAlbum
  <2> QED
    BY <2>2, <2>3 DEF Item, Asset
<1>3. [f \in Files |-> IF f \in files THEN NewItem(f) ELSE NoItem] \in [Files -> Item]
  BY <1>2, NoneTypes
<1> QED
  BY <1>1, <1>3 DEF TypeOK, Session

LEMMA BeginStep ==
  ASSUME TypeOK, NEW r \in Requests, NEW s \in Sessions, NEW f \in Files,
         NEW v \in Versions, Begin(r, s, f, v)
  PROVE  /\ req' \in [Requests -> Request]
         /\ session[s].items[f].state # "none"
         /\ Reverts \/ v >= session[s].items[f].source
         /\ req'[r].session = s /\ req'[r].file = f
         /\ req'[r].item = session[s].items[f]
         /\ req'[r].version = v /\ req'[r].target = v
         /\ req'[r].pc \in {"merge", "upload"}
         /\ \A x \in Requests : x # r => req'[x] = req[x]
<1> DEFINE item == session[s].items[f]
           q == [pc |-> IF item.state = "done" THEN "merge" ELSE "upload",
                 session |-> s, file |-> f, item |-> item, version |-> v, target |-> v, tries |-> 0]
<1>1. item \in Item
  BY DEF TypeOK, Session
<1>2. req' = [req EXCEPT ![r] = q] /\ item.state # "none" /\ (Reverts \/ v >= item.source)
  BY DEF Begin
<1>3. q.pc \in {"merge", "upload"} /\ {"merge", "upload"} \subseteq Steps
      /\ 0 \in 0 .. Attempts /\ v \in Assets
  BY AttemptsAssumption, ConstantsOK DEF Steps
<1>4. q \in Request
  BY <1>1, <1>3 DEF Request
<1> QED
  BY <1>2, <1>3, <1>4, SetRequest

\* The asset a request works on, and the one it replaces.
LEMMA AssetsOfRequest ==
  ASSUME TypeOK, RequestIInv, NEW r \in Requests, Busy(r)
  PROVE  /\ req[r] \in Request /\ req[r].item \in Item
         /\ req[r].file \in Files /\ req[r].session \in Sessions
         /\ req[r].target \in Assets /\ req[r].version \in Versions
         /\ req[r].item.source \in Versions /\ req[r].item.source \in Assets
         /\ Target(r) \in Asset /\ Source(r) \in Asset
         /\ asset[req[r].file][Broken] \in Asset
<1>1. req[r] \in Request /\ req[r].file \in Files /\ req[r].session \in Sessions
  BY DEF TypeOK, RequestIInv
<1>2. req[r].item \in Item /\ req[r].target \in Assets /\ req[r].version \in Versions
  BY <1>1 DEF Request
<1>3. req[r].item.source \in Versions /\ req[r].item.source \in Assets
  BY <1>2, ConstantsOK DEF Item
<1>4. \A v \in Assets : asset[req[r].file][v] \in Asset
  BY <1>1 DEF TypeOK
<1> QED
  BY <1>1, <1>2, <1>3, <1>4, ConstantsOK DEF Target, Source

LEMMA MergeStep ==
  ASSUME TypeOK, RequestIInv, NEW r \in Requests, Merge(r)
  PROVE  LET s == req[r].session
             items == [session[s].items EXCEPT ![req[r].file] = req[r].item]
         IN /\ items \in [Files -> Item]
            /\ session' \in [Sessions -> Session]
            /\ \A x \in Sessions : x # s => session'[x] = session[x]
            /\ \/ session'[s] = session[s] /\ session[s].state = "gone"
               \/ session'[s].items = session[s].items /\ session'[s].state = "gone"
               \/ /\ session'[s].items = items /\ session'[s].state = session[s].state
                  /\ \E f \in Files : ~Terminal(items[f])
            /\ req'[r] = IdleRequest /\ req' \in [Requests -> Request]
            /\ \A x \in Requests : x # r => req'[x] = req[x]
<1> DEFINE s == req[r].session
           items == [session[s].items EXCEPT ![req[r].file] = req[r].item]
<1>1. Busy(r)
  BY DEF Merge, At, Busy
<1>2. s \in Sessions /\ req[r].file \in Files /\ req[r].item \in Item /\ session[s] \in Session
  BY <1>1, AssetsOfRequest DEF TypeOK
<1>3. items \in [Files -> Item]
  BY <1>2 DEF Session
<1> HIDE DEF items
<1>4. session' = CASE session[s].state = "gone" -> session
                   [] \A f \in Files : Terminal(items[f]) ->
                        [session EXCEPT ![s].state = "gone"]
                   [] OTHER -> [session EXCEPT ![s].items = items]
  BY DEF Merge, items
<1>5. req' = [req EXCEPT ![r] = IdleRequest]
  BY DEF Merge
<1>6. CASE session[s].state = "gone"
  <2>1. session' = session \/ session' = [session EXCEPT ![s].state = "gone"]
    BY <1>4, <1>6
  <2>2. session'[s] = session[s] /\ session' = session
    BY <1>2, <1>6, <2>1 DEF TypeOK, Session
  <2> QED
    BY <1>2, <1>3, <1>5, <1>6, <2>2, SetRequest, NoneTypes DEF items, TypeOK
<1>7. CASE session[s].state # "gone" /\ \A f \in Files : Terminal(items[f])
  <2>1. session' = [session EXCEPT ![s].state = "gone"]
    BY <1>4, <1>7
  <2> QED
    BY <1>2, <1>3, <1>5, <2>1, SetRequest, NoneTypes DEF items, TypeOK, Session
<1>8. CASE session[s].state # "gone" /\ ~\A f \in Files : Terminal(items[f])
  <2>1. session' = [session EXCEPT ![s].items = items]
    BY <1>4, <1>8
  <2>2. /\ session' \in [Sessions -> Session]
        /\ \A x \in Sessions : x # s => session'[x] = session[x]
        /\ session'[s].items = items /\ session'[s].state = session[s].state
    BY <1>2, <1>3, <2>1 DEF TypeOK, Session
  <2> QED
    BY <1>3, <1>5, <1>8, <2>2, SetRequest, NoneTypes DEF items
<1> QED
  BY <1>6, <1>7, <1>8

LEMMA ReplaceTypeOK ==
  ASSUME TypeOK, RequestIInv, NEW r \in Requests, ReplaceStep(r)
  PROVE  TypeOK' /\ RequestIInv'
<1>0. Busy(r)
  BY DEF ReplaceStep, Upload, UploadTruncated, Clean, Wait, Copy, Update, Trash,
         ReplaceError, Merge, Crash, At, Busy
<1> DEFINE f == req[r].file
           t == req[r].target
           OneAsset == \/ UNCHANGED asset
                       \/ \E v \in Assets, a \in Asset : asset' = [asset EXCEPT ![f][v] = a]
           OneRequest == /\ req' \in [Requests -> Request]
                         /\ \A x \in Requests : x # r => req'[x] = req[x]
                         /\ \/ req'[r] = IdleRequest
                            \/ req'[r].file = f /\ req'[r].session = req[r].session
<1>1. /\ req[r] \in Request /\ f \in Files /\ t \in Assets
      /\ req[r].version \in Versions /\ req[r].version \in Assets /\ Broken \in Assets
      /\ req[r].item.source \in Assets
      /\ Target(r) \in Asset /\ Source(r) \in Asset /\ asset[f][Broken] \in Asset
      /\ Target(r) = asset[f][t] /\ Source(r) = asset[f][req[r].item.source]
  BY <1>0, AssetsOfRequest, ConstantsOK DEF Target, Source
<1>2. ASSUME NEW pc \in Steps, GoTo(r, pc) PROVE OneRequest
  BY <1>1, <1>2, GoToStep DEF Request
<1>3. ASSUME NEW state \in {"done", "error"}, End(r, state) PROVE OneRequest
  BY <1>3, EndStep
<1>4. /\ "wait" \in Steps /\ "copy" \in Steps /\ "update" \in Steps /\ "trash" \in Steps
      /\ "clean" \in Steps /\ "upload" \in Steps
  BY DEF Steps
<1>5. ASSUME NEW a \in Asset, SetTarget(r, a) PROVE OneAsset
  BY <1>1, <1>5 DEF SetTarget
<1>6. ASSUME OneAsset, OneRequest, session' \in [Sessions -> Session]
      PROVE  TypeOK' /\ RequestIInv'
  <2>1. asset' \in [Files -> [Assets -> Asset]]
    <3>1. CASE UNCHANGED asset
      BY <3>1 DEF TypeOK
    <3>2. CASE \E v \in Assets, a \in Asset : asset' = [asset EXCEPT ![f][v] = a]
      BY <1>1, <3>2, SetAsset
    <3> QED
      BY <1>6, <3>1, <3>2
  <2>2. RequestIInv'
    BY <1>0, <1>6 DEF RequestIInv, Busy, IdleRequest
  <2> QED
    BY <1>6, <2>1, <2>2 DEF TypeOK
<1>7. UNCHANGED session => session' \in [Sessions -> Session]
  BY DEF TypeOK
<1>8. CASE Upload(r)
  <2>1. OneAsset
    BY <1>1, <1>5, <1>8, StoredIsAsset DEF Upload
  <2>2. OneRequest
    BY <1>2, <1>3, <1>4, <1>8 DEF Upload
  <2> QED
    BY <1>6, <1>7, <1>8, <2>1, <2>2 DEF Upload
<1>9. CASE UploadTruncated(r)
  <2>1. OneAsset
    BY <1>1, <1>9, StoredIsAsset DEF UploadTruncated
  <2>2. OneRequest
    <3>1. [req[r] EXCEPT !.pc = "clean", !.target = Broken] \in Request
      BY <1>1, <1>4 DEF Request
    <3>2. req' = [req EXCEPT ![r] = [req[r] EXCEPT !.pc = "clean", !.target = Broken]]
      BY <1>9 DEF UploadTruncated, TypeOK
    <3> QED
      BY <1>1, <3>1, <3>2, SetRequest DEF Request
  <2> QED
    BY <1>6, <1>7, <1>9, <2>1, <2>2 DEF UploadTruncated
<1>10. CASE Clean(r)
  <2>1. [Target(r) EXCEPT !.where = "trash"] \in Asset
    BY <1>1 DEF Asset, Places
  <2>2. OneAsset
    BY <1>5, <1>10, <2>1 DEF Clean
  <2>3. CASE req[r].tries + 1 < Attempts
    <3> DEFINE q == [req[r] EXCEPT !.pc = "upload", !.target = req[r].version, !.tries = @ + 1]
    <3>1. req[r].tries + 1 \in 0 .. Attempts
      BY <1>1, <2>3, AttemptsAssumption DEF Request
    <3>2. q \in Request
      BY <1>1, <1>4, <3>1 DEF Request
    <3>3. req' = [req EXCEPT ![r] = q]
      BY <1>10, <2>3 DEF Clean, TypeOK
    <3>4. OneRequest
      BY <1>1, <3>2, <3>3, SetRequest DEF Request
    <3> QED
      BY <1>6, <1>7, <1>10, <2>2, <3>4 DEF Clean
  <2>4. CASE ~(req[r].tries + 1 < Attempts)
    BY <1>3, <1>6, <1>7, <1>10, <2>2, <2>4 DEF Clean
  <2> QED
    BY <2>3, <2>4
<1>11. CASE Wait(r)
  BY <1>2, <1>4, <1>6, <1>7, <1>11 DEF Wait
<1>12. CASE Copy(r)
  <2>1. [Target(r) EXCEPT !.related = @ \/ Source(r).related] \in Asset
    BY <1>1 DEF Asset
  <2> QED
    BY <1>2, <1>4, <1>5, <1>6, <1>7, <1>12, <2>1 DEF Copy
<1>13. CASE Update(r)
  <2>1. [Target(r) EXCEPT !.meta = req[r].item.meta] \in Asset
    BY <1>1 DEF Asset, Request, Item
  <2> QED
    BY <1>2, <1>4, <1>5, <1>6, <1>7, <1>13, <2>1 DEF Update
<1>14. CASE Trash(r)
  <2>1. [Source(r) EXCEPT !.where = "trash"] \in Asset
    BY <1>1 DEF Asset, Places
  <2>2. asset' = [asset EXCEPT ![f][req[r].item.source] = [Source(r) EXCEPT !.where = "trash"]]
    BY <1>1, <1>14 DEF Trash, TypeOK
  <2> QED
    BY <1>1, <1>3, <1>6, <1>7, <1>14, <2>1, <2>2 DEF Trash
<1>15. CASE ReplaceError(r)
  BY <1>3, <1>6, <1>7, <1>15 DEF ReplaceError
<1>16. CASE Merge(r)
  BY <1>6, <1>16, MergeStep DEF Merge
<1>17. CASE Crash(r)
  BY <1>6, <1>7, <1>17, SetRequest, NoneTypes DEF Crash
<1> QED
  BY <1>8, <1>9, <1>10, <1>11, <1>12, <1>13, <1>14, <1>15, <1>16, <1>17 DEF ReplaceStep

LEMMA NextTypeOK == TypeOK /\ RequestIInv /\ [Next]_vars => TypeOK' /\ RequestIInv'
<1> SUFFICES ASSUME TypeOK, RequestIInv, [Next]_vars PROVE TypeOK' /\ RequestIInv'
  OBVIOUS
<1>1. ASSUME NEW s \in Sessions, Prepare(s) PROVE TypeOK' /\ RequestIInv'
  BY <1>1, PrepareStep DEF Prepare, TypeOK, RequestIInv, Busy
<1>2. ASSUME NEW s \in Sessions, Prune(s) PROVE TypeOK' /\ RequestIInv'
  <2>1. session' \in [Sessions -> Session]
    BY <1>2 DEF Prune, TypeOK, Session
  <2> QED
    BY <1>2, <2>1 DEF Prune, TypeOK, RequestIInv, Busy
<1>3. ASSUME NEW r \in Requests, NEW s \in Sessions, NEW f \in Files, NEW v \in Versions,
             Begin(r, s, f, v)
      PROVE  TypeOK' /\ RequestIInv'
  <2>1. RequestIInv'
    BY <1>3, BeginStep DEF RequestIInv, Busy
  <2> QED
    BY <1>3, <2>1, BeginStep DEF Begin, TypeOK
<1>4. ASSUME NEW r \in Requests, ReplaceStep(r) PROVE TypeOK' /\ RequestIInv'
  BY <1>4, ReplaceTypeOK
<1>5. ASSUME NEW f \in Files, NEW v \in Assets, Ingest(f, v) PROVE TypeOK' /\ RequestIInv'
  <2> DEFINE a == [asset[f][v] EXCEPT !.ready = TRUE, !.meta = "exif"]
  <2>1. asset[f][v] \in Asset
    BY DEF TypeOK
  <2>2. a \in Asset
    BY <2>1 DEF Asset
  <2>3. asset' = [asset EXCEPT ![f][v] = a]
    BY <1>5, <2>1 DEF Ingest, TypeOK, Asset
  <2>4. asset' \in [Files -> [Assets -> Asset]]
    BY <2>2, <2>3, SetAsset
  <2> QED
    BY <1>5, <2>4 DEF Ingest, TypeOK, RequestIInv, Busy
<1>6. CASE UNCHANGED vars
  BY <1>6 DEF vars, TypeOK, RequestIInv, Busy
<1> QED
  BY <1>1, <1>2, <1>3, <1>4, <1>5, <1>6 DEF Next

\* What the requests, the sessions and Immich hold are always the kind of
\* thing they should be; a request that runs has a session and a file.
THEOREM TypeCorrect == Spec => [](TypeOK /\ RequestIInv)
BY InitTypeOK, NextTypeOK, PTL DEF Spec

----------------------------------------------------------------------------
(* Sessions that are still there have something left to do. *)

\* Only a session that is opened, or gets the result of a file, changes its
\* items: the first has a pending file, and the second as well, since with its
\* last file it would have been deleted.
LEMMA NextUnfinished ==
  TypeOK /\ RequestIInv /\ OpenSessionUnfinished /\ [Next]_vars => OpenSessionUnfinished'
<1> SUFFICES ASSUME TypeOK, RequestIInv, OpenSessionUnfinished, [Next]_vars,
                    NEW s \in Sessions, session'[s].state = "open"
             PROVE  \E f \in Files : session'[s].items[f].state = "pending"
  BY DEF OpenSessionUnfinished
<1>1. CASE UNCHANGED session
  BY <1>1 DEF OpenSessionUnfinished
<1>2. ASSUME NEW x \in Sessions, Prepare(x)
      PROVE  \E f \in Files : session'[s].items[f].state = "pending"
  <2>1. PICK files \in (SUBSET Matched) \ {{}} :
          /\ session'[x].items = [f \in Files |-> IF f \in files THEN NewItem(f) ELSE NoItem]
          /\ \A y \in Sessions : y # x => session'[y] = session[y]
    BY <1>2, PrepareStep
  <2>2. PICK f \in files : f \in Files /\ f \in Matched
    BY DEF Matched
  <2>3. NewItem(f).state = "pending"
    BY <2>2, NewItemSource
  <2> QED
    BY <2>1, <2>2, <2>3 DEF OpenSessionUnfinished
<1>3. ASSUME NEW x \in Sessions, Prune(x)
      PROVE  \E f \in Files : session'[s].items[f].state = "pending"
  BY <1>3 DEF Prune, OpenSessionUnfinished, TypeOK, Session
<1>4. ASSUME NEW r \in Requests, Merge(r)
      PROVE  \E f \in Files : session'[s].items[f].state = "pending"
  <2> DEFINE x == req[r].session
             items == [session[x].items EXCEPT ![req[r].file] = req[r].item]
  <2>1. /\ items \in [Files -> Item]
        /\ \A y \in Sessions : y # x => session'[y] = session[y]
        /\ \/ session'[x] = session[x] /\ session[x].state = "gone"
           \/ session'[x].state = "gone"
           \/ /\ session'[x].items = items
              /\ \E f \in Files : ~Terminal(items[f])
    BY <1>4, MergeStep
  <2> HIDE DEF items
  <2>2. \A f \in Files : ~Terminal(items[f]) => items[f].state = "pending"
    BY <2>1 DEF Terminal, Item
  <2> QED
    BY <2>1, <2>2 DEF OpenSessionUnfinished
<1> QED
  BY <1>1, <1>2, <1>3, <1>4
     DEF Next, vars, ReplaceStep, Begin, Upload, UploadTruncated, Clean, Wait, Copy, Update,
         Trash, ReplaceError, Crash, Ingest

\* "Completed sessions delete themselves": one that is open has a file that
\* is still pending, however many requests merged their results into it.
THEOREM SessionCorrect == Spec => []OpenSessionUnfinished
<1>1. Init => OpenSessionUnfinished
  BY DEF Init, OpenSessionUnfinished
<1> QED
  BY <1>1, TypeCorrect, NextUnfinished, PTL DEF Spec

----------------------------------------------------------------------------
(* Photos are kept.  All that is needed of a step is what it makes of the  *)
(* assets: they only get better (Growth), and at most one that has been    *)
(* superseded is put into the trash.                                       *)

Grows(a, b) ==
  a.where # "absent" =>
    /\ b.where # "absent" /\ (a.where = "trash" => b.where = "trash")
    /\ a.ready => b.ready
    /\ a.related => b.related
    /\ a.ready /\ a.meta = "photo" => b.meta = "photo"

Growth == \A f \in Files, v \in Versions : Grows(asset[f][v], asset'[f][v])

Trashes(f, v) == asset'[f][v].where = "trash" /\ asset[f][v].where # "trash"

TrashOne ==
  \A f \in Files, v \in Versions : Trashes(f, v) =>
    /\ Superseded(f, v)
    /\ \A w \in Versions : Trashes(f, w) => w = v

AlbumGrows == \A f \in Files : \E v : InAlbum(f)' \subseteq InAlbum(f) \cup {v}

GoodStep == Growth /\ TrashOne /\ AlbumGrows

LEMMA SupersededKept ==
  ASSUME TypeOK, TypeOK', GoodStep, NEW f \in Files, NEW v \in Versions, Superseded(f, v)
  PROVE  Superseded(f, v)'
<1>1. \A w \in Versions : asset[f][w] \in Asset /\ asset'[f][w] \in Asset
  BY ConstantsOK DEF TypeOK
<1>2. ASSUME NEW w \in Versions, Complete(asset[f][w]), ~Trashes(f, w)
      PROVE  Complete(asset[f][w])'
  <2>1. Grows(asset[f][w], asset'[f][w])
    BY DEF GoodStep, Growth
  <2>2. asset'[f][w].where \in {"absent", "active", "trash"}
    BY <1>1 DEF Asset, Places
  <2> QED
    BY <1>2, <2>1, <2>2 DEF Grows, Complete, Trashes
<1>3. PICK w \in Versions : w > v /\ Complete(asset[f][w])
  BY DEF Superseded
<1>4. CASE ~Trashes(f, w)
  BY <1>2, <1>3, <1>4 DEF Superseded
<1>5. CASE Trashes(f, w)
  <2>1. PICK u \in Versions : u > w /\ Complete(asset[f][u])
    BY <1>5 DEF GoodStep, TrashOne, Superseded
  <2>2. u > v /\ u # w
    BY <1>3, <2>1, ConstantsOK
  <2>3. ~Trashes(f, u)
    BY <1>5, <2>2 DEF GoodStep, TrashOne
  <2> QED
    BY <1>2, <2>1, <2>2, <2>3 DEF Superseded
<1> QED
  BY <1>4, <1>5

LEMMA SoundKept ==
  ASSUME GoodStep, NEW f \in Files, NEW item \in Item, Sound(f, item)
  PROVE  Sound(f, item)'
BY DEF GoodStep, Growth, Grows, Sound, Item

LEMMA ProgressKept ==
  ASSUME GoodStep, NEW r \in Requests, req[r].file \in Files, req'[r] = req[r], Progress(r)
  PROVE  Progress(r)'
<1>1. req[r].target \in Versions =>
        Grows(asset[req[r].file][req[r].target], asset'[req[r].file][req[r].target])
  BY DEF GoodStep, Growth
<1> QED
  BY <1>1 DEF Progress, Target, Grows

\* What is left to show of a step: that it is good, and that the items it
\* stores and the request it moves are as they should be.
LEMMA KeepPhotos ==
  ASSUME TypeOK, RequestIInv, TypeOK', RequestIInv', PhotoIInv, GoodStep,
         \A s \in Sessions, f \in Files :
           session'[s].items[f].state # "none" =>
             \/ session'[s].items[f] = session[s].items[f]
             \/ Sound(f, session[s].items[f])',
         \A r \in Requests :
           \/ req'[r] = req[r]
           \/ Busy(r)' => Sound(req[r].file, req[r].item)' /\ Progress(r)'
  PROVE  PhotoIInv'
<1>1. ASSUME NEW f \in Files
      PROVE  /\ IsFiniteSet(InAlbum(f)')
             /\ asset'[f][0].where = "trash" \/ Complete(asset'[f][0])
             /\ \A v \in Versions : asset'[f][v].where = "trash" => Superseded(f, v)'
  <2>1. IsFiniteSet(InAlbum(f)')
    <3>1. IsFiniteSet(InAlbum(f))
      BY DEF PhotoIInv
    <3>2. PICK v : InAlbum(f)' \subseteq InAlbum(f) \cup {v}
      BY DEF GoodStep, AlbumGrows
    <3> HIDE DEF InAlbum
    <3>3. IsFiniteSet(InAlbum(f) \cup {v})
      BY <3>1, FS_AddElement
    <3> QED
      BY <3>2, <3>3, FS_Subset
  <2>2. asset'[f][0].where = "trash" \/ Complete(asset'[f][0])
    <3>1. Grows(asset[f][0], asset'[f][0])
      BY ConstantsOK DEF GoodStep, Growth
    <3>2. asset'[f][0] \in Asset /\ asset[f][0] \in Asset
      BY ConstantsOK DEF TypeOK
    <3>3. asset[f][0].where = "trash" \/ Complete(asset[f][0])
      BY DEF PhotoIInv
    <3>4. CASE asset[f][0].where = "trash"
      BY <3>1, <3>4 DEF Grows
    <3>5. CASE Complete(asset[f][0])
      BY <3>1, <3>2, <3>5 DEF Grows, Asset, Places, Complete
    <3> QED
      BY <3>3, <3>4, <3>5
  <2>3. ASSUME NEW v \in Versions, asset'[f][v].where = "trash" PROVE Superseded(f, v)'
    <3>1. Superseded(f, v)
      BY <2>3 DEF PhotoIInv, GoodStep, TrashOne, Trashes
    <3> QED
      BY <3>1, SupersededKept
  <2> QED
    BY <2>1, <2>2, <2>3
<1>2. ASSUME NEW s \in Sessions, NEW f \in Files, session'[s].items[f].state # "none"
      PROVE  Sound(f, session[s].items[f])'
  <2>1. CASE session'[s].items[f] = session[s].items[f]
    <3>1. session[s].items[f] \in Item /\ Sound(f, session[s].items[f])
      BY <1>2, <2>1 DEF TypeOK, Session, PhotoIInv
    <3>2. Sound(f, session'[s].items[f])
      BY <2>1, <3>1
    <3> QED
      BY <2>1, <3>1, SoundKept DEF Sound, GoodStep, Growth, Grows, Item
  <2> QED
    BY <1>2, <2>1
<1>3. ASSUME NEW r \in Requests, Busy(r)'
      PROVE  Sound(req[r].file, req[r].item)' /\ Progress(r)'
  <2>1. CASE req'[r] = req[r]
    <3>1. Busy(r) /\ req[r].file \in Files /\ req[r].item \in Item
      BY <1>3, <2>1, AssetsOfRequest DEF Busy
    <3>2. Sound(req[r].file, req[r].item) /\ Progress(r)
      BY <3>1 DEF PhotoIInv
    <3>3. Progress(r)'
      BY <2>1, <3>1, <3>2, ProgressKept
    <3>4. Sound(req[r].file, req[r].item)'
      BY <2>1, <3>1, <3>2 DEF Sound, GoodStep, Growth, Grows, Item
    <3> QED
      BY <3>3, <3>4
  <2> QED
    BY <1>3, <2>1
<1> QED
  BY <1>1, <1>2, <1>3 DEF PhotoIInv

LEMMA SameAssets == ASSUME UNCHANGED asset PROVE GoodStep
BY DEF GoodStep, Growth, Grows, TrashOne, Trashes, AlbumGrows, InAlbum

LEMMA OneAsset ==
  ASSUME TypeOK, NEW f \in Files, NEW t \in Assets, NEW a \in Asset,
         asset' = [asset EXCEPT ![f][t] = a],
         t \in Versions => Grows(asset[f][t], a),
         t \in Versions /\ a.where = "trash" => Superseded(f, t)
  PROVE  GoodStep /\ asset'[f][t] = a
<1>1. /\ asset'[f][t] = a
      /\ \A g \in Files, w \in Assets : g # f \/ w # t => asset'[g][w] = asset[g][w]
  BY SetAsset
<1>2. Growth
  <2> SUFFICES ASSUME NEW g \in Files, NEW v \in Versions
               PROVE  Grows(asset[g][v], asset'[g][v])
    BY DEF Growth
  <2> QED
    BY <1>1, ConstantsOK DEF Grows
<1>3. \A g \in Files, v \in Versions : Trashes(g, v) => g = f /\ v = t /\ a.where = "trash"
  BY <1>1, ConstantsOK DEF Trashes
<1>4. TrashOne
  BY <1>3 DEF TrashOne
<1>5. \A g \in Files : InAlbum(g)' \subseteq InAlbum(g) \cup {t}
  BY <1>1, ConstantsOK DEF InAlbum
<1> QED
  BY <1>1, <1>2, <1>4, <1>5 DEF GoodStep, AlbumGrows

\* A session takes the metadata of a photo from a complete version: one is, it
\* is in the album, and no other one is, or the file would not be matched.
LEMMA NewItemSound ==
  ASSUME TypeOK, PhotoIInv, PhotoKept, NEW f \in Matched
  PROVE  Sound(f, NewItem(f))
<1>1. f \in Files /\ IsFiniteSet(InAlbum(f)) /\ Cardinality(InAlbum(f)) = 1
  BY DEF Matched, PhotoIInv
<1>2. PICK x : InAlbum(f) = {x}
  BY <1>1, FS_Singleton
<1>3. PICK v \in Versions : Complete(asset[f][v])
  BY <1>1 DEF PhotoKept
<1>4. v \in InAlbum(f)
  BY <1>3 DEF InAlbum, Complete
<1>5. NewItem(f) = [state |-> "pending", source |-> v, meta |-> asset[f][v].meta]
  BY <1>2, <1>4, NewItemSource
<1> QED
  BY <1>3, <1>5 DEF Sound, Complete

\* Version 0 is complete, or in the trash and so superseded.
LEMMA PhotoIInvKeeps == ASSUME PhotoIInv PROVE PhotoKept
BY ConstantsOK DEF PhotoIInv, PhotoKept, Superseded

LEMMA InitPhotos == Init => PhotoIInv
<1> SUFFICES ASSUME Init PROVE PhotoIInv
  OBVIOUS
<1>1. ASSUME NEW f \in Files
      PROVE  /\ IsFiniteSet(InAlbum(f))
             /\ Complete(asset[f][0])
             /\ \A v \in Versions : asset[f][v].where # "trash"
  <2>1. \A v \in Versions : asset[f][v] = IF v = 0 THEN Original ELSE NoAsset
    BY <1>1, ConstantsOK DEF Init
  <2>2. InAlbum(f) \in SUBSET {0}
    BY <2>1 DEF InAlbum, NoAsset
  <2>3. IsFiniteSet({0})
    BY FS_Singleton
  <2>4. IsFiniteSet(InAlbum(f))
    BY <2>2, <2>3, FS_Subset
  <2> QED
    BY <2>1, <2>4, ConstantsOK DEF Original, NoAsset, Complete
<1> QED
  BY <1>1 DEF Init, PhotoIInv, NoItem, Busy, IdleRequest

LEMMA ReplacePhotos ==
  ASSUME TypeOK, RequestIInv, TypeOK', RequestIInv', PhotoIInv,
         NEW r \in Requests, ReplaceStep(r)
  PROVE  PhotoIInv'
<1>0. Busy(r)
  BY DEF ReplaceStep, Upload, UploadTruncated, Clean, Wait, Copy, Update, Trash,
         ReplaceError, Merge, Crash, At, Busy
<1>1. PICK f \in Files, t \in Assets, item \in Item, v \in Versions :
        /\ f = req[r].file /\ t = req[r].target /\ item = req[r].item /\ v = req[r].version
        /\ req[r] \in Request
  BY <1>0, AssetsOfRequest
<1>2. /\ item.source \in Versions /\ item.source \in Assets
      /\ v \in Nat /\ item.source \in Nat /\ v \in Assets
      /\ \A w \in Assets : asset[f][w] \in Asset
      /\ Target(r) = asset[f][t] /\ Source(r) = asset[f][item.source]
      /\ Broken \in Assets /\ Broken \notin Versions /\ Versions \subseteq Nat
  <2>1. /\ asset \in [Files -> [Assets -> Asset]]
        /\ Versions \subseteq Nat /\ Broken \notin Versions
    BY ConstantsOK DEF TypeOK
  <2>2. item.source \in Versions
    BY <1>1 DEF Item
  <2>3. Versions \subseteq Assets /\ Broken \in Assets
    BY DEF Assets
  <2>4. asset[f] \in [Assets -> Asset]
    BY <1>1, <2>1
  <2>5. Target(r) = asset[f][t] /\ Source(r) = asset[f][item.source]
    BY <1>1 DEF Target, Source
  <2> QED
    BY <1>1, <2>1, <2>2, <2>3, <2>4, <2>5
<1>3. Sound(f, item) /\ Progress(r)
  BY <1>0, <1>1 DEF PhotoIInv
<1> DEFINE Others == \A x \in Requests : x # r => req'[x] = req[x]
           Same == /\ req'[r].file = f /\ req'[r].target = t /\ req'[r].version = v
                   /\ req'[r].item = item /\ Others
           Ended == /\ req'[r].pc = "merge" /\ req'[r].file = f /\ Others
                    /\ req'[r].item.meta = item.meta /\ req'[r].item.source = item.source
<1>4. ASSUME NEW pc \in Steps, GoTo(r, pc) PROVE Same /\ req'[r].pc = pc
  <2>1. req'[r] = [req[r] EXCEPT !.pc = pc] /\ Others
    BY <1>4, GoToStep
  <2> QED
    BY <1>1, <2>1 DEF Request
<1>5. ASSUME NEW state \in {"done", "error"}, End(r, state) PROVE Ended
  <2>1. /\ req'[r].pc = "merge" /\ req'[r].file = req[r].file /\ Others
        /\ req'[r].item = [req[r].item EXCEPT !.state = state]
    BY <1>5, EndStep
  <2> QED
    BY <1>1, <2>1 DEF Item
<1>6. ASSUME GoodStep, UNCHANGED session, Others, req'[r].file = f, Progress(r)',
             req'[r].item.meta = item.meta, req'[r].item.source = item.source
      PROVE  PhotoIInv'
  <2>1. Sound(f, item)'
    BY <1>3, <1>6, SoundKept
  <2>2. Sound(req[r].file, req[r].item)'
    BY <1>6, <2>1 DEF Sound
  <2> QED
    BY <1>6, <2>2, KeepPhotos
<1>7. ASSUME GoodStep, UNCHANGED session, Ended PROVE PhotoIInv'
  <2>1. Progress(r)'
    BY <1>7 DEF Progress
  <2> QED
    BY <1>6, <1>7, <2>1
<1>8. /\ "wait" \in Steps /\ "copy" \in Steps /\ "update" \in Steps /\ "trash" \in Steps
  BY DEF Steps
<1>9. CASE Upload(r)
  <2>1. t = v /\ v >= item.source
    BY <1>1, <1>3, <1>9 DEF Progress, Upload, At
  <2>2. asset' = [asset EXCEPT ![f][t] = Stored(asset[f][t])]
    BY <1>1, <1>2, <1>9 DEF Upload, SetTarget
  <2>3. /\ Stored(asset[f][t]) \in Asset /\ Stored(asset[f][t]).where # "absent"
        /\ Grows(asset[f][t], Stored(asset[f][t]))
        /\ Stored(asset[f][t]).where = "trash" => asset[f][t].where = "trash"
    BY <1>2, StoredIsAsset DEF Grows
  <2>4. Stored(asset[f][t]).where = "trash" => Superseded(f, t)
    BY <2>1, <2>3 DEF PhotoIInv
  <2>5. GoodStep /\ asset'[f][t] = Stored(asset[f][t])
    BY <2>2, <2>3, <2>4, OneAsset
  <2>6. CASE v = item.source
    BY <1>1, <1>5, <1>7, <1>9, <2>5, <2>6 DEF Upload
  <2>7. CASE v # item.source
    <3>1. Same /\ req'[r].pc = "wait"
      BY <1>1, <1>4, <1>8, <1>9, <2>7 DEF Upload
    <3>2. Progress(r)'
      BY <1>2, <2>1, <2>3, <2>5, <2>7, <3>1 DEF Progress, Target
    <3> QED
      BY <1>6, <1>9, <2>5, <3>1, <3>2 DEF Upload
  <2> QED
    BY <2>6, <2>7
<1>10. CASE UploadTruncated(r)
  <2>1. asset' = [asset EXCEPT ![f][Broken] = Stored(asset[f][Broken])]
    BY <1>1, <1>2, <1>10 DEF UploadTruncated
  <2>2. GoodStep
    BY <1>2, <2>1, StoredIsAsset, OneAsset
  <2> DEFINE q == [req[r] EXCEPT !.pc = "clean", !.target = Broken]
  <2>3. q.pc = "clean" /\ q.target = Broken /\ q.version = v /\ q.file = f /\ q.item = item
    BY <1>1 DEF Request
  <2> HIDE DEF q
  <2>4. /\ req'[r].pc = "clean" /\ req'[r].target = Broken /\ req'[r].version = v
        /\ req'[r].file = f /\ req'[r].item = item /\ Others
    <3>1. req' = [req EXCEPT ![r] = q]
      BY <1>10 DEF UploadTruncated, TypeOK, q
    <3> QED
      BY <2>3, <3>1, SetRequest
  <2>5. v >= item.source
    BY <1>1, <1>3, <1>10 DEF Progress, UploadTruncated, At
  <2>6. Progress(r)'
    BY <2>4, <2>5 DEF Progress
  <2> QED
    BY <1>6, <1>10, <2>2, <2>4, <2>6 DEF UploadTruncated
<1>11. CASE Clean(r)
  <2>1. t = Broken /\ v >= item.source
    BY <1>1, <1>3, <1>11 DEF Progress, Clean, At
  <2> DEFINE a == [asset[f][t] EXCEPT !.where = "trash"]
  <2>2. a \in Asset
    BY <1>2 DEF Asset, Places
  <2>3. asset' = [asset EXCEPT ![f][t] = a]
    BY <1>1, <1>2, <1>11 DEF Clean, SetTarget
  <2>4. GoodStep
    BY <1>2, <2>1, <2>2, <2>3, OneAsset
  <2>5. CASE req[r].tries + 1 < Attempts
    <3> DEFINE q == [req[r] EXCEPT !.pc = "upload", !.target = v, !.tries = @ + 1]
    <3>1. q.pc = "upload" /\ q.target = v /\ q.version = v /\ q.file = f /\ q.item = item
      BY <1>1 DEF Request
    <3> HIDE DEF q
    <3>2. /\ req'[r].pc = "upload" /\ req'[r].target = v /\ req'[r].version = v
          /\ req'[r].file = f /\ req'[r].item = item /\ Others
      <4>1. req' = [req EXCEPT ![r] = q]
        BY <1>1, <1>11, <2>5 DEF Clean, TypeOK, q
      <4> QED
        BY <3>1, <4>1, SetRequest
    <3>3. Progress(r)'
      BY <2>1, <3>2 DEF Progress
    <3> QED
      BY <1>6, <1>11, <2>4, <3>2, <3>3 DEF Clean
  <2>6. CASE ~(req[r].tries + 1 < Attempts)
    BY <1>5, <1>7, <1>11, <2>4, <2>6 DEF Clean
  <2> QED
    BY <2>5, <2>6
<1>12. CASE Wait(r)
  <2>1. Same /\ req'[r].pc = "copy"
    BY <1>4, <1>8, <1>12 DEF Wait
  <2>2. Progress(r)'
    BY <1>1, <1>2, <1>3, <1>12, <2>1 DEF Progress, Wait, Target, At
  <2> QED
    BY <1>6, <1>12, <2>1, <2>2, SameAssets DEF Wait
<1>13. CASE Copy(r)
  <2> DEFINE a == [asset[f][t] EXCEPT !.related = @ \/ asset[f][item.source].related]
  <2>1. /\ t \in Versions /\ t > item.source
        /\ asset[f][t].where # "absent" /\ asset[f][t].ready
    BY <1>1, <1>2, <1>3, <1>13 DEF Progress, Copy, At
  <2>2. /\ a \in Asset /\ a.related /\ a.where = asset[f][t].where
        /\ a.ready = asset[f][t].ready /\ Grows(asset[f][t], a)
    BY <1>2, <1>3, <2>1 DEF Asset, Sound, Grows
  <2>3. asset' = [asset EXCEPT ![f][t] = a]
    BY <1>1, <1>2, <1>13 DEF Copy, SetTarget
  <2>4. a.where = "trash" => Superseded(f, t)
    BY <2>1, <2>2 DEF PhotoIInv
  <2> HIDE DEF a
  <2>5. GoodStep /\ asset'[f][t] = a
    BY <2>2, <2>3, <2>4, OneAsset
  <2>6. Same /\ req'[r].pc = "update"
    BY <1>4, <1>8, <1>13 DEF Copy
  <2>7. Progress(r)'
    BY <2>1, <2>2, <2>5, <2>6 DEF Progress, Target
  <2> QED
    BY <1>6, <1>13, <2>5, <2>6, <2>7 DEF Copy
<1>14. CASE Update(r)
  <2> DEFINE a == [asset[f][t] EXCEPT !.meta = item.meta]
  <2>1. /\ t \in Versions /\ t > item.source
        /\ asset[f][t].where # "absent" /\ asset[f][t].ready /\ asset[f][t].related
    BY <1>1, <1>2, <1>3, <1>14 DEF Progress, Update, At
  <2>2. /\ a \in Asset /\ a.meta = "photo" /\ a.where = asset[f][t].where
        /\ a.ready /\ a.related /\ Grows(asset[f][t], a)
    BY <1>2, <1>3, <2>1 DEF Asset, Sound, Grows
  <2>3. asset' = [asset EXCEPT ![f][t] = a]
    BY <1>1, <1>2, <1>14 DEF Update, SetTarget
  <2>4. a.where = "trash" => Superseded(f, t)
    BY <2>1, <2>2 DEF PhotoIInv
  <2> HIDE DEF a
  <2>5. GoodStep /\ asset'[f][t] = a
    BY <2>2, <2>3, <2>4, OneAsset
  <2>6. Same /\ req'[r].pc = "trash"
    BY <1>4, <1>8, <1>14 DEF Update
  <2>7. Progress(r)'
    BY <2>1, <2>2, <2>5, <2>6 DEF Progress, Target
  <2> QED
    BY <1>6, <1>14, <2>5, <2>6, <2>7 DEF Update
<1>15. CASE Trash(r)
  <2> DEFINE a == [asset[f][item.source] EXCEPT !.where = "trash"]
  <2>1. /\ t \in Versions /\ t > item.source /\ asset[f][t].where # "absent"
        /\ asset[f][t].ready /\ asset[f][t].related /\ asset[f][t].meta = "photo"
    BY <1>1, <1>2, <1>3, <1>15 DEF Progress, Trash, At
  <2>2. a \in Asset /\ Grows(asset[f][item.source], a)
    BY <1>2 DEF Asset, Places, Grows
  <2>3. asset' = [asset EXCEPT ![f][item.source] = a]
    BY <1>1, <1>2, <1>15 DEF Trash, TypeOK
  <2>4. Superseded(f, item.source)
    <3>1. CASE asset[f][t].where = "active"
      BY <2>1, <3>1 DEF Superseded, Complete
    <3>2. CASE asset[f][t].where = "trash"
      <4>1. PICK w \in Versions : w > t /\ Complete(asset[f][w])
        BY <2>1, <3>2 DEF PhotoIInv, Superseded
      <4>2. w > item.source
        BY <1>2, <2>1, <4>1
      <4> QED
        BY <4>1, <4>2 DEF Superseded
    <3> QED
      BY <1>2, <2>1, <3>1, <3>2 DEF Asset, Places
  <2> HIDE DEF a
  <2>5. GoodStep
    BY <1>2, <2>2, <2>3, <2>4, OneAsset
  <2> QED
    BY <1>5, <1>7, <1>15, <2>5 DEF Trash
<1>16. CASE ReplaceError(r)
  BY <1>5, <1>7, <1>16, SameAssets DEF ReplaceError
<1>17. CASE Merge(r)
  <2> DEFINE s == req[r].session
             items == [session[s].items EXCEPT ![f] = item]
  <2>1. /\ \A x \in Sessions : x # s => session'[x] = session[x]
        /\ session'[s].items = session[s].items \/ session'[s].items = items
        /\ req'[r] = IdleRequest /\ Others
    BY <1>1, <1>17, MergeStep
  <2>2. GoodStep
    BY <1>17, SameAssets DEF Merge
  <2>3. Sound(f, item)'
    BY <1>3, <2>2, SoundKept
  <2>4. s \in Sessions /\ session[s].items \in [Files -> Item]
    BY <1>0, AssetsOfRequest DEF TypeOK, Session
  <2>5. ASSUME NEW x \in Sessions, NEW g \in Files
        PROVE  \/ session'[x].items[g] = session[x].items[g]
               \/ g = f /\ session'[x].items[g] = item
    BY <2>1, <2>4
  <2>6. ASSUME NEW x \in Sessions, NEW g \in Files
        PROVE  \/ session'[x].items[g] = session[x].items[g]
               \/ Sound(g, session[x].items[g])'
    BY <2>3, <2>5 DEF Sound
  <2> QED
    BY <2>1, <2>2, <2>6, KeepPhotos DEF Busy, IdleRequest
<1>18. CASE Crash(r)
  <2>1. req'[r] = IdleRequest /\ Others
    BY <1>18, SetRequest DEF Crash
  <2>2. GoodStep
    BY <1>18, SameAssets DEF Crash
  <2> QED
    BY <1>18, <2>1, <2>2, KeepPhotos DEF Crash, Busy, IdleRequest
<1> QED
  BY <1>9, <1>10, <1>11, <1>12, <1>13, <1>14, <1>15, <1>16, <1>17, <1>18 DEF ReplaceStep

LEMMA NextPhotos ==
  ASSUME Reverts = FALSE
  PROVE  TypeOK /\ RequestIInv /\ TypeOK' /\ RequestIInv' /\ PhotoIInv /\ [Next]_vars
           => PhotoIInv'
<1> SUFFICES ASSUME TypeOK, RequestIInv, TypeOK', RequestIInv', PhotoIInv, [Next]_vars
             PROVE  PhotoIInv'
  OBVIOUS
<1>1. ASSUME NEW s \in Sessions, Prepare(s) PROVE PhotoIInv'
  <2>1. PICK files \in (SUBSET Matched) \ {{}} :
          /\ session'[s].items = [f \in Files |-> IF f \in files THEN NewItem(f) ELSE NoItem]
          /\ \A x \in Sessions : x # s => session'[x] = session[x]
    BY <1>1, PrepareStep
  <2>2. UNCHANGED asset /\ UNCHANGED req
    BY <1>1 DEF Prepare
  <2>3. ASSUME NEW f \in Files, session'[s].items[f].state # "none"
        PROVE  Sound(f, session[s].items[f])'
    <3>1. f \in files /\ session'[s].items[f] = NewItem(f)
      BY <2>1, <2>3 DEF NoItem
    <3>2. Sound(f, NewItem(f))
      BY <2>1, <3>1, PhotoIInvKeeps, NewItemSound
    <3> QED
      BY <2>2, <3>1, <3>2 DEF Sound
  <2> QED
    BY <2>1, <2>2, <2>3, SameAssets, KeepPhotos
<1>2. ASSUME NEW s \in Sessions, Prune(s) PROVE PhotoIInv'
  <2>1. \A x \in Sessions : session'[x].items = session[x].items
    BY <1>2 DEF Prune, TypeOK, Session
  <2> QED
    BY <1>2, <2>1, SameAssets, KeepPhotos DEF Prune
<1>3. ASSUME NEW r \in Requests, NEW s \in Sessions, NEW f \in Files, NEW v \in Versions,
             Begin(r, s, f, v)
      PROVE  PhotoIInv'
  <2>1. UNCHANGED asset /\ UNCHANGED session
    BY <1>3 DEF Begin
  <2>2. /\ session[s].items[f].state # "none" /\ v >= session[s].items[f].source
        /\ req'[r].file = f /\ req'[r].item = session[s].items[f]
        /\ req'[r].version = v /\ req'[r].target = v /\ req'[r].pc \in {"merge", "upload"}
        /\ \A x \in Requests : x # r => req'[x] = req[x]
    BY <1>3, BeginStep
  <2>3. Sound(req[r].file, req[r].item)'
    BY <2>1, <2>2 DEF PhotoIInv, Sound
  <2>4. Progress(r)'
    BY <2>2 DEF Progress
  <2> QED
    BY <2>1, <2>2, <2>3, <2>4, SameAssets, KeepPhotos
<1>4. ASSUME NEW r \in Requests, ReplaceStep(r) PROVE PhotoIInv'
  BY <1>4, ReplacePhotos
<1>5. ASSUME NEW f \in Files, NEW v \in Assets, Ingest(f, v) PROVE PhotoIInv'
  <2> DEFINE a == [asset[f][v] EXCEPT !.ready = TRUE, !.meta = "exif"]
  <2>1. asset[f][v] \in Asset /\ ~asset[f][v].ready
    BY <1>5 DEF TypeOK, Ingest
  <2>2. a \in Asset /\ a.where = asset[f][v].where /\ Grows(asset[f][v], a)
    BY <2>1 DEF Asset, Grows
  <2>3. asset' = [asset EXCEPT ![f][v] = a]
    BY <1>5, <2>1 DEF Ingest, TypeOK, Asset
  <2>4. v \in Versions /\ a.where = "trash" => Superseded(f, v)
    BY <2>2 DEF PhotoIInv
  <2> HIDE DEF a
  <2>5. GoodStep
    BY <2>2, <2>3, <2>4, OneAsset
  <2> QED
    BY <1>5, <2>5, KeepPhotos DEF Ingest
<1>6. CASE UNCHANGED vars
  BY <1>6, SameAssets, KeepPhotos DEF vars
<1> QED
  BY <1>1, <1>2, <1>3, <1>4, <1>5, <1>6 DEF Next

\* "Alben, Metadaten und geteilte Links bleiben erhalten": at any time some
\* version of every photo is out of the trash, in its albums and with its
\* metadata, which no ingest job is going to overwrite; whatever calls fail,
\* take effect without an answer or are made twice, and whoever is killed.
\* The users upload no version older than the one they replace: what Immich
\* says to that is beyond what the repository knows.
THEOREM PhotoCorrect == ASSUME Reverts = FALSE PROVE Spec => []PhotoKept
<1>1. TypeOK /\ RequestIInv /\ TypeOK' /\ RequestIInv' /\ PhotoIInv /\ [Next]_vars
        => PhotoIInv'
  BY NextPhotos
<1>2. PhotoIInv => PhotoKept
  BY PhotoIInvKeeps
<1> QED
  BY <1>1, <1>2, TypeCorrect, InitPhotos, PTL DEF Spec

=============================================================================

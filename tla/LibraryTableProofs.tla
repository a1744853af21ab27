------------------------- MODULE LibraryTableProofs -------------------------
(***************************************************************************)
(* Proofs about Library: its types, the numbers and names in the table of  *)
(* images, and what the upload page says of its files.                     *)
(***************************************************************************)
EXTENDS LibraryProofs, WellFoundedInduction

----------------------------------------------------------------------------
(* Numbers *)

LEMMA HasMax ==
  ASSUME NEW S \in SUBSET Nat, IsFiniteSet(S), S # {}
  PROVE  \E m \in S : \A n \in S : n <= m
<1> DEFINE Above(m) == {n \in S : m < n}
           T == {Above(m) : m \in S}
<1>1. T \subseteq FiniteSubsetsOf(S) /\ T # {}
  <2>1. ASSUME NEW m \in S
        PROVE  Above(m) \in FiniteSubsetsOf(S)
    <3>1. Above(m) \in SUBSET S
      OBVIOUS
    <3> HIDE DEF Above
    <3> QED
      BY <3>1, FS_Subset DEF FiniteSubsetsOf
  <2> QED
    BY <2>1
<1>2. PICK A \in T : \A B \in T : ~(<<B, A>> \in StrictSubsetOrdering(S))
  BY <1>1, FS_StrictSubsetOrderingWellFounded, WFMin
<1>3. PICK m \in S : A = Above(m)
  OBVIOUS
<1>4. ASSUME NEW n \in S, m < n
      PROVE  FALSE
  <2>1. Above(n) \in T
    OBVIOUS
  <2>2. n \in Nat /\ m \in Nat /\ Above(n) \in SUBSET Nat
    OBVIOUS
  <2>3. Above(n) \subseteq Above(m) /\ n \in Above(m) /\ n \notin Above(n)
    BY <1>4, <2>2
  <2>4. <<Above(n), A>> \in StrictSubsetOrdering(S)
    BY <1>3, <2>3 DEF StrictSubsetOrdering
  <2> HIDE DEF T
  <2> QED
    BY <1>2, <2>1, <2>4
<1> QED
  BY <1>4

\* An upload gets a number that is beyond those in its box.
LEMMA NextIsLarger ==
  ASSUME TypeOK, NEW box
  PROVE  /\ NextSequence(box) \in Nat
         /\ box # Pool => \A i \in In(box) : rows[i].seq < NextSequence(box)
<1> DEFINE S == {rows[i].seq : i \in In(box)}
<1>1. S \in SUBSET Nat
  BY DEF TypeOK, IsRow, In, Live
<1>2. IsFiniteSet(S)
  <2>1. IsFiniteSet(In(box))
    <3>1. In(box) \in SUBSET Ids
      BY DEF In, Live
    <3> QED
      BY <3>1, IdsAssumption, FS_Subset
  <2>2. [i \in In(box) |-> rows[i].seq] \in Surjection(In(box), S)
    BY DEF Surjection
  <2> HIDE DEF S
  <2> QED
    BY <2>1, <2>2, FS_Surjection
<1>3. MaxOf(S) \in Nat /\ \A n \in S : n <= MaxOf(S)
  BY <1>1, <1>2, HasMax DEF MaxOf
<1>4. NextSequence(box) = IF box = Pool THEN 0 ELSE MaxOf(S) + 1
  BY DEF NextSequence
<1> HIDE DEF S
<1>5. NextSequence(box) \in Nat /\ (box # Pool => \A n \in S : n < NextSequence(box))
  BY <1>1, <1>3, <1>4
<1> QED
  BY <1>5 DEF S

\* The files of one request are numbered in the order of their names.
LEMMA NumberGrows ==
  ASSUME TypeOK, NEW box, NEW files \in SUBSET Files, IsFiniteSet(Fresh(box, files)),
         NEW f \in Fresh(box, files)
  PROVE  /\ Number(box, files, f) \in Nat
         /\ box # Pool => NextSequence(box) <= Number(box, files, f)
         /\ box # Pool => \A g \in Fresh(box, files) :
              f.name < g.name => Number(box, files, f) < Number(box, files, g)
<1> DEFINE F == Fresh(box, files)
           Before(g) == {h \in F : h.name < g.name}
<1>1. \A g \in F : g.name \in Nat
  BY FilesAssumption DEF Fresh
<1>2. NextSequence(box) \in Nat
  BY NextIsLarger
<1>3. \A g : IsFiniteSet(Before(g)) /\ Cardinality(Before(g)) \in Nat
  BY FS_Subset, FS_CardinalityType
<1>4. ASSUME NEW g \in F, f.name < g.name
      PROVE  Cardinality(Before(f)) < Cardinality(Before(g))
  <2>1. Before(f) \in SUBSET Before(g) /\ f \in Before(g) /\ f \notin Before(f)
    BY <1>1, <1>4
  <2> HIDE DEF Before
  <2> QED
    BY <1>3, <2>1, FS_Subset
<1>5. \A g \in F : Number(box, files, g) =
        IF box = Pool THEN 0 ELSE NextSequence(box) + Cardinality(Before(g))
  BY DEF Number
<1> HIDE DEF F, Before
<1>6. /\ Number(box, files, f) \in Nat
      /\ box # Pool => NextSequence(box) <= Number(box, files, f)
  BY <1>2, <1>3, <1>5 DEF F
<1>7. \A g \in F : box # Pool /\ f.name < g.name =>
        Number(box, files, f) < Number(box, files, g)
  BY <1>2, <1>3, <1>4, <1>5 DEF F
<1> QED
  BY <1>6, <1>7 DEF F

----------------------------------------------------------------------------
(* Types *)

RowsTyped == \A i \in Ids : rows[i].state \in {"none", "unsaved"} \/ IsRow(rows[i])

Pages ==
  [target: Places \cup {None}, wait: Workers \cup {None},
   entry: [Files -> {"pending", "uploading"} \cup Results], blind: SUBSET Files]

PageTyped == page \in Pages

RequestsTyped == \A w \in Workers : IsRequest(req[w])

LEMMA TypeParts ==
  TypeOK => /\ RowsTyped /\ PageTyped /\ RequestsTyped
            /\ disk \subseteq Paths /\ boxes \in [Boxes -> {"none", "open", "archived"}]
BY DEF TypeOK, RowsTyped, PageTyped, Pages, RequestsTyped

LEMMA PartsType ==
  ASSUME RowsTyped', PageTyped', RequestsTyped', disk' \subseteq Paths,
         boxes' \in [Boxes -> {"none", "open", "archived"}]
  PROVE  TypeOK'
BY DEF TypeOK, RowsTyped, PageTyped, Pages, RequestsTyped

LEMMA InitTyped == Init => TypeOK
<1> SUFFICES ASSUME Init PROVE TypeOK
  OBVIOUS
<1>1. RowsTyped
  BY DEF Init, RowsTyped, NoRow
<1>2. PageTyped
  BY DEF Init, PageTyped, Pages, NewPage, Places
<1>3. RequestsTyped
  BY DEF Init, RequestsTyped, IsRequest, Idle
<1> QED
  BY <1>1, <1>2, <1>3 DEF Init, TypeOK, RowsTyped, PageTyped, Pages, RequestsTyped

LEMMA NewRowTyped ==
  ASSUME NEW i \in Ids, NEW box \in Places, NEW f \in Files, NEW n \in Nat
  PROVE  IsRow(NewRow(i, box, f, n)) /\ Original(i, box) \in Paths
<1>1. Original(i, box) \in Paths
  BY CopyAssumption DEF Original, Paths
<1>2. f.name \in Names /\ f.content \in Contents
  BY DEF Names, Contents
<1> QED
  BY <1>1, <1>2 DEF NewRow, IsRow

LEMMA AddTyped ==
  ASSUME TypeOK, NEW box \in Places, NEW files \in SUBSET Files, Add(box, files)
  PROVE  RowsTyped' /\ disk' \subseteq Paths
<1>0. PICK new \in SUBSET Unused : \E source \in [new -> Fresh(box, files)] :
        Added(box, files, new, source)
  BY AddFacts
<1>1. PICK source \in [new -> Fresh(box, files)] : Added(box, files, new, source)
  BY <1>0
<1>2. new \subseteq Ids /\ \A i \in new : source[i] \in Fresh(box, files) /\ source[i] \in Files
  BY DEF Unused, Fresh
<1>3. ASSUME NEW i \in new
      PROVE  IsRow(rows'[i]) /\ Original(i, box) \in Paths
  <2>1. rows'[i] = NewRow(i, box, source[i], Number(box, files, source[i]))
    BY <1>1 DEF Added
  <2>2. Number(box, files, source[i]) \in Nat
    BY <1>1, <1>2, NumberGrows DEF Added
  <2> QED
    BY <1>2, <2>1, <2>2, NewRowTyped
<1>4. \A i \in Ids \ new : rows'[i] = rows[i]
  BY <1>1 DEF Added
<1>5. RowsTyped'
  BY <1>3, <1>4 DEF TypeOK, RowsTyped
<1>6. disk' = disk \cup {Original(i, box) : i \in new}
  BY <1>1 DEF Added
<1> QED
  BY <1>3, <1>5, <1>6 DEF TypeOK

\* One worker goes on.
LEMMA RequestTyped ==
  ASSUME TypeOK, StoreIInv, NEW w \in Workers, NEW q, IsRequest(q),
         req' = [req EXCEPT ![w] = q]
  PROVE  RequestsTyped'
BY DEF TypeOK, StoreIInv, Shape, RequestsTyped

LEMMA EndTyped ==
  ASSUME NEW result \in Results
  PROVE  /\ IsRequest(Idle) /\ IsRequest([pc |-> "login"])
         /\ IsRequest([pc |-> "reply", result |-> result])
BY DEF IsRequest, Idle

LEMMA OpenedTyped ==
  ASSUME TypeOK, NEW target \in Open \cup {Pool, None}, NEW box \in Resolved(target)
  PROVE  Opened(box) \in [Boxes -> {"none", "open", "archived"}] /\ box \in Places
BY DEF TypeOK, Resolved, Opened, Open, Places

\* The upload page
LEMMA PageStepTyped ==
  ASSUME TypeOK, StoreIInv, NEW w \in Workers,
         \/ Prepared(w) \/ Deliver(w) \/ Unread(w) \/ Lose(w) \/ Kill(w) \/ Store(w)
         \/ \E f \in Files : Upload(w, f)
         \/ \E target \in Places \cup {None} : Prepare(w, target)
  PROVE  TypeOK'
<1>0. /\ PageTyped /\ RowsTyped /\ RequestsTyped /\ IsRequest(req[w])
      /\ disk \subseteq Paths /\ boxes \in [Boxes -> {"none", "open", "archived"}]
  BY TypeParts DEF RequestsTyped
<1>1. ASSUME NEW status \in Results
      PROVE  Marked(status) \in Pages
  BY <1>0 DEF Marked, PageTyped, Pages
<1>2. CASE Prepared(w)
  <2>1. req[w].pc = "prepared" /\ req' = [req EXCEPT ![w] = Idle] /\ UNCHANGED <<rows, disk, boxes>>
        /\ page' = IF Waits(w) THEN [page EXCEPT !.wait = None, !.target = req[w].box] ELSE page
    BY <1>2 DEF Prepared
  <2>2. req[w].box \in Places
    BY <1>0, <2>1 DEF IsRequest
  <2>3. PageTyped'
    BY <1>0, <2>1, <2>2 DEF PageTyped, Pages
  <2> QED
    BY <1>0, <2>1, <2>3, RequestTyped, EndTyped, PartsType DEF RowsTyped, Results
<1>3. CASE Deliver(w)
  <2>1. req[w].pc = "reply" /\ req' = [req EXCEPT ![w] = Idle] /\ UNCHANGED <<rows, disk, boxes>>
        /\ page' = IF Waits(w) THEN Marked(req[w].result) ELSE page
    BY <1>3 DEF Deliver
  <2>2. req[w].result \in Results
    BY <1>0, <2>1 DEF IsRequest
  <2>3. PageTyped'
    BY <1>0, <1>1, <2>1, <2>2 DEF PageTyped
  <2> QED
    BY <1>0, <2>1, <2>3, RequestTyped, EndTyped, PartsType DEF RowsTyped, Results
<1>4. CASE Lose(w) \/ Kill(w)
  <2>1. /\ req' = req \/ req' = [req EXCEPT ![w] = Idle]
        /\ UNCHANGED <<rows, disk, boxes>>
        /\ page' = Marked("error") \/ page' = page
    BY <1>4 DEF Lose, Kill, Failed
  <2>2. PageTyped'
    BY <1>0, <1>1, <2>1 DEF PageTyped, Results
  <2>3. RequestsTyped'
    BY <1>0, <2>1, RequestTyped, EndTyped DEF Results, RequestsTyped
  <2> QED
    BY <1>0, <2>1, <2>2, <2>3, PartsType DEF RowsTyped
<1>5. CASE Store(w)
  <2>1. req[w].pc = "store" /\ UNCHANGED <<boxes, page>>
        /\ \E result \in Results : req' = [req EXCEPT ![w] = [pc |-> "reply", result |-> result]]
    BY <1>5 DEF Store, Reply, Results
  <2>2. req[w].file \in Files /\ req[w].box \in Places
    BY <1>0, <2>1 DEF IsRequest
  <2>3. RequestsTyped'
    BY <2>1, RequestTyped, EndTyped
  <2>4. RowsTyped' /\ disk' \subseteq Paths
    <3>1. CASE Add(req[w].box, {req[w].file})
      BY <2>2, <3>1, AddTyped
    <3>2. CASE UNCHANGED <<rows, disk>>
      BY <1>0, <3>2 DEF RowsTyped, TypeOK
    <3> QED
      BY <1>5, <3>1, <3>2 DEF Store
  <2> QED
    BY <1>0, <2>1, <2>3, <2>4, PartsType DEF PageTyped
<1>6. ASSUME NEW f \in Files, Upload(w, f)
      PROVE  TypeOK'
  <2>1. page' = [page EXCEPT !.wait = w, !.entry[f] = "uploading"]
        /\ UNCHANGED <<rows, disk, boxes>>
    BY <1>6 DEF Upload
  <2>2. PageTyped'
    BY <1>0, <2>1 DEF PageTyped, Pages
  <2>3. \/ /\ page.target \in Places
           /\ req' = [req EXCEPT ![w] = [pc |-> "store", file |-> f, box |-> page.target]]
        \/ req' = [req EXCEPT ![w] = [pc |-> "reply", result |-> "error"]]
        \/ req' = [req EXCEPT ![w] = [pc |-> "login"]]
    BY <1>6 DEF Upload, Reply, Login, Open, Places
  <2>4. page.target \in Places => IsRequest([pc |-> "store", file |-> f, box |-> page.target])
    BY DEF IsRequest
  <2>5. RequestsTyped'
    BY <2>3, <2>4, RequestTyped, EndTyped DEF Results
  <2> QED
    BY <1>0, <2>1, <2>2, <2>5, PartsType DEF RowsTyped
<1>7. ASSUME NEW target \in Places \cup {None}, Prepare(w, target)
      PROVE  TypeOK'
  <2>1. target \in Open \cup {Pool, None} /\ page' = [page EXCEPT !.wait = w]
        /\ UNCHANGED <<rows, disk>>
    BY <1>7 DEF Prepare
  <2>2. PageTyped'
    BY <1>0, <2>1 DEF PageTyped, Pages
  <2>3. RequestsTyped' /\ boxes' \in [Boxes -> {"none", "open", "archived"}]
    <3>1. CASE Login(w) /\ UNCHANGED boxes
      BY <1>0, <3>1, RequestTyped, EndTyped DEF Login, Results
    <3>2. ASSUME NEW box \in Resolved(target), boxes' = Opened(box),
                 req' = [req EXCEPT ![w] = [pc |-> "prepared", box |-> box]]
          PROVE  RequestsTyped' /\ boxes' \in [Boxes -> {"none", "open", "archived"}]
      <4>1. boxes' \in [Boxes -> {"none", "open", "archived"}] /\ box \in Places
        BY <2>1, <3>2, OpenedTyped
      <4>2. IsRequest([pc |-> "prepared", box |-> box])
        BY <4>1 DEF IsRequest
      <4> QED
        BY <3>2, <4>1, <4>2, RequestTyped
    <3> QED
      BY <1>7, <3>1, <3>2 DEF Prepare
  <2> QED
    BY <1>0, <2>1, <2>2, <2>3, PartsType DEF RowsTyped
<1>8. CASE Unread(w)
  <2>1. req' = [req EXCEPT ![w] = Idle] /\ UNCHANGED <<rows, disk, boxes>>
        /\ page' = IF Waits(w) THEN Misread ELSE page
    BY <1>8 DEF Unread
  <2>2. Marked("done") \in Pages
    BY <1>1 DEF Results
  <2>3. Misread \in Pages
    BY <1>0, <2>2 DEF Misread, PageTyped, Pages, Places
  <2>4. PageTyped'
    BY <1>0, <2>1, <2>3 DEF PageTyped
  <2> QED
    BY <1>0, <2>1, <2>4, RequestTyped, EndTyped, PartsType DEF RowsTyped, Results
<1> QED
  BY <1>2, <1>3, <1>4, <1>5, <1>6, <1>7, <1>8

\* An assignment
LEMMA AssignStepTyped ==
  ASSUME TypeOK, StoreIInv, NEW w \in Workers,
         AssignNumber(w) \/ AssignCopy(w) \/ AssignSave(w)
  PROVE  TypeOK'
<1>0. /\ PageTyped /\ RowsTyped /\ RequestsTyped /\ IsRequest(req[w])
      /\ disk \subseteq Paths /\ boxes \in [Boxes -> {"none", "open", "archived"}]
  BY TypeParts DEF RequestsTyped
<1>1. UNCHANGED <<boxes, page>>
  BY DEF AssignNumber, AssignCopy, AssignSave
<1>2. PageTyped' /\ boxes' \in [Boxes -> {"none", "open", "archived"}]
  BY <1>0, <1>1 DEF PageTyped
<1>3. CASE AssignNumber(w)
  <2> DEFINE q == [pc |-> "copy", box |-> req[w].box, todo |-> req[w].todo,
                   seq |-> NextSequence(req[w].box)]
  <2>1. req[w].pc = "number" /\ req' = [req EXCEPT ![w] = q] /\ UNCHANGED <<rows, disk>>
    BY <1>3 DEF AssignNumber
  <2>2. req[w].box \in Boxes /\ \A t \in req[w].todo : Read(t)
    BY <1>0, <2>1 DEF IsRequest
  <2>3. IsRequest(q)
    BY <2>2, NextIsLarger DEF IsRequest
  <2>4. RequestsTyped' /\ RowsTyped' /\ disk' \subseteq Paths
    BY <1>0, <2>1, <2>3, RequestTyped DEF RowsTyped
  <2> QED
    BY <1>2, <2>4, PartsType
<1>4. CASE AssignCopy(w)
  <2>1. req[w].pc = "copy" /\ UNCHANGED rows
    BY <1>4 DEF AssignCopy
  <2>2. req[w].box \in Boxes /\ req[w].seq \in Nat /\ \A t \in req[w].todo : Read(t)
    BY <1>0, <2>1 DEF IsRequest
  <2>3. RowsTyped'
    BY <1>0, <2>1 DEF RowsTyped
  <2>4. CASE req' = [req EXCEPT ![w] = Idle] /\ UNCHANGED disk
    BY <1>0, <1>2, <2>3, <2>4, RequestTyped, EndTyped, PartsType DEF Results
  <2>5. ASSUME NEW t \in req[w].todo, NEW p \in Paths, disk' = disk \cup {p},
               req' = [req EXCEPT ![w] =
                 [pc |-> "save", box |-> req[w].box, seq |-> req[w].seq, path |-> p,
                  now |-> t, todo |-> req[w].todo \ {t}]]
        PROVE  TypeOK'
    <3>1. IsRequest([pc |-> "save", box |-> req[w].box, seq |-> req[w].seq, path |-> p,
                     now |-> t, todo |-> req[w].todo \ {t}])
      BY <2>2 DEF IsRequest
    <3>2. RequestsTyped'
      BY <2>5, <3>1, RequestTyped
    <3> QED
      BY <1>0, <1>2, <2>3, <2>5, <3>2, PartsType
  <2> QED
    BY <1>4, <2>4, <2>5 DEF AssignCopy
<1>5. CASE AssignSave(w)
  <2> DEFINE q == req[w]
  <2>1. q.pc = "save"
    BY <1>5 DEF AssignSave
  <2>2. /\ q.box \in Boxes /\ q.seq \in Nat /\ q.path \in Paths
        /\ Read(q.now) /\ \A t \in q.todo : Read(t)
    BY <1>0, <2>1 DEF IsRequest
  <2>3. CASE req' = [req EXCEPT ![w] = Idle] /\ UNCHANGED <<rows, disk>>
    <3>1. RowsTyped' /\ RequestsTyped'
      BY <1>0, <2>3, RequestTyped, EndTyped DEF Results, RowsTyped
    <3> QED
      BY <1>0, <1>2, <2>3, <3>1, PartsType
  <2>4. CASE /\ rows' = [rows EXCEPT ![q.now.id] = Moved(q)]
             /\ disk' = disk \ {q.now.row.file}
             /\ req' = [req EXCEPT ![w] = AfterSave(q)]
    <3>1. IsRow(Moved(q))
      BY <2>2 DEF Moved, IsRow, Read, Places
    <3>2. RowsTyped'
      BY <1>0, <2>4, <3>1 DEF RowsTyped, StoreIInv, Shape
    <3>3. IsRequest(AfterSave(q))
      BY <2>2 DEF AfterSave, IsRequest, Idle
    <3>4. RequestsTyped'
      BY <2>4, <3>3, RequestTyped
    <3> QED
      BY <1>0, <1>2, <2>4, <3>2, <3>4, PartsType
  <2> QED
    BY <1>5, <2>3, <2>4 DEF AssignSave
<1> QED
  BY <1>3, <1>4, <1>5

LEMMA AssignBeginTyped ==
  ASSUME TypeOK, StoreIInv, NEW w \in Workers, NEW box \in Boxes, NEW ids \in SUBSET Ids,
         AssignBegin(w, box, ids)
  PROVE  TypeOK'
<1> DEFINE q == [pc |-> "number", box |-> box,
                 todo |-> {[id |-> i, row |-> rows[i]] : i \in ids}]
<1>1. /\ ids \subseteq In(Pool) /\ req' = [req EXCEPT ![w] = q]
      /\ UNCHANGED <<rows, disk, boxes, page>>
  BY DEF AssignBegin
<1>2. \A i \in ids : i \in Ids /\ IsRow(rows[i])
  BY <1>1 DEF TypeOK, In, Live
<1>3. IsRequest(q)
  BY <1>2 DEF IsRequest, Read
<1>4. RequestsTyped'
  BY <1>1, <1>3, RequestTyped
<1> QED
  BY <1>1, <1>4, TypeParts, PartsType DEF RowsTyped, PageTyped

LEMMA ImportFailsFacts ==
  ASSUME NEW files, NEW target, ImportFails(files, target)
  PROVE  \E new : rows' =
           [i \in Ids |-> IF i \in new THEN [NoRow EXCEPT !.state = "unsaved"] ELSE rows[i]]
<1>1. PICK box \in Resolved(target), bad \in files :
        \E ids \in Assigned({f \in Fresh(box, files) : f.name < bad.name}) :
          LET new == {ids[f] : f \in {f \in Fresh(box, files) : f.name < bad.name}} IN
          rows' = [i \in Ids |-> IF i \in new THEN [NoRow EXCEPT !.state = "unsaved"] ELSE rows[i]]
  BY DEF ImportFails
<1> QED
  BY <1>1

LEMMA BesidesTyped ==
  ASSUME TypeOK, StoreIInv,
         \/ \E b \in Boxes : Archive(b)
         \/ \E i \in Ids : Delete(i)
         \/ \E files \in SUBSET Files, target \in Places \cup {None} :
              Import(files, target) \/ ImportFails(files, target)
  PROVE  TypeOK'
<1>0. /\ PageTyped /\ RowsTyped /\ RequestsTyped
      /\ disk \subseteq Paths /\ boxes \in [Boxes -> {"none", "open", "archived"}]
  BY TypeParts
<1>1. UNCHANGED <<page, req>>
  BY DEF Archive, Delete, Import, ImportFails
<1>2. PageTyped' /\ RequestsTyped'
  BY <1>0, <1>1 DEF PageTyped, RequestsTyped
<1>3. ASSUME NEW b \in Boxes, Archive(b)
      PROVE  TypeOK'
  <2>1. /\ rows' = [i \in Ids |-> IF i \in In(b) THEN [rows[i] EXCEPT !.file = None] ELSE rows[i]]
        /\ boxes' = [boxes EXCEPT ![b] = "archived"] /\ disk' \subseteq disk
    BY <1>3 DEF Archive
  <2>2. ASSUME NEW i \in In(b)
        PROVE  IsRow([rows[i] EXCEPT !.file = None])
    BY <1>0 DEF RowsTyped, IsRow, In, Live
  <2>3. RowsTyped'
    BY <1>0, <2>1, <2>2 DEF RowsTyped
  <2> QED
    BY <1>0, <1>2, <2>1, <2>3, PartsType
<1>4. ASSUME NEW i \in Ids, Delete(i)
      PROVE  TypeOK'
  <2>1. /\ rows' = [rows EXCEPT ![i] = Removed(rows[i])] /\ i \in Live
        /\ UNCHANGED boxes /\ disk' \subseteq disk
    BY <1>4 DEF Delete
  <2>2. IsRow(Removed(rows[i]))
    BY <1>0, <2>1 DEF RowsTyped, IsRow, Live, Removed, Places
  <2>3. RowsTyped'
    BY <1>0, <2>1, <2>2 DEF RowsTyped, StoreIInv, Shape
  <2> QED
    BY <1>0, <1>2, <2>1, <2>3, PartsType
<1>5. ASSUME NEW files \in SUBSET Files, NEW target, Import(files, target)
      PROVE  TypeOK'
  <2>1. target \in Open \cup {Pool, None}
    BY <1>5 DEF Import
  <2>2. PICK box \in Resolved(target) : Add(box, files) /\ boxes' = Opened(box)
    BY <1>5 DEF Import
  <2>3. boxes' \in [Boxes -> {"none", "open", "archived"}] /\ box \in Places
    BY <2>1, <2>2, OpenedTyped
  <2>4. RowsTyped' /\ disk' \subseteq Paths
    BY <2>2, <2>3, AddTyped
  <2> QED
    BY <1>2, <2>3, <2>4, PartsType
<1>6. ASSUME NEW files \in SUBSET Files, NEW target, ImportFails(files, target)
      PROVE  TypeOK'
  <2>1. UNCHANGED boxes /\ disk' \subseteq Paths
    <3>1. StoreIInv'
      BY <1>6, ImportFailsKeeps
    <3> QED
      BY <1>6, <3>1 DEF ImportFails, StoreIInv, Shape
  <2>2. PICK new : rows' = [i \in Ids |-> IF i \in new THEN [NoRow EXCEPT !.state = "unsaved"] ELSE rows[i]]
    BY <1>6, ImportFailsFacts
  <2>3. [NoRow EXCEPT !.state = "unsaved"].state = "unsaved"
    BY DEF NoRow
  <2>4. \A i \in Ids : rows'[i].state = "unsaved" \/ rows'[i] = rows[i]
    BY <2>2, <2>3
  <2>5. RowsTyped'
    BY <1>0, <2>4 DEF RowsTyped
  <2> QED
    BY <1>0, <1>2, <2>1, <2>5, PartsType
<1> QED
  BY <1>3, <1>4, <1>5, <1>6

LEMMA NextTyped ==
  ASSUME TypeOK, StoreIInv, [Next]_vars
  PROVE  TypeOK'
<1>1. CASE UNCHANGED vars
  BY <1>1, TypeParts, PartsType DEF vars, RowsTyped, PageTyped, RequestsTyped
<1>2. ASSUME NEW w \in Workers,
             \/ Prepared(w) \/ Deliver(w) \/ Unread(w) \/ Lose(w) \/ Kill(w) \/ Store(w)
             \/ \E f \in Files : Upload(w, f)
             \/ \E target \in Places \cup {None} : Prepare(w, target)
      PROVE  TypeOK'
  BY <1>2, PageStepTyped
<1>3. ASSUME NEW w \in Workers, AssignNumber(w) \/ AssignCopy(w) \/ AssignSave(w)
      PROVE  TypeOK'
  BY <1>3, AssignStepTyped
<1>4. ASSUME NEW w \in Workers, NEW b \in Boxes, NEW ids \in SUBSET Ids, AssignBegin(w, b, ids)
      PROVE  TypeOK'
  BY <1>4, AssignBeginTyped
<1>5. CASE \/ \E b \in Boxes : Archive(b)
           \/ \E i \in Ids : Delete(i)
           \/ \E files \in SUBSET Files, target \in Places \cup {None} :
                Import(files, target) \/ ImportFails(files, target)
  BY <1>5, BesidesTyped
<1> QED
  BY <1>1, <1>2, <1>3, <1>4, <1>5 DEF Next

\* TypeOK for every instance; that every number is one takes the largest of
\* those in the box, which there is because images are finitely many.
THEOREM TypeCorrect == Spec => []TypeOK
<1>1. TypeOK /\ StoreIInv /\ [Next]_vars => TypeOK' /\ StoreIInv'
  BY NextTyped, NextStore
<1> QED
  BY InitTyped, InitStore, <1>1, PTL DEF Spec

----------------------------------------------------------------------------
(* Numbers and names in the table *)

\* What brings no image and changes none of this.
LEMMA OldFit ==
  ASSUME NumbersFit,
         \A i \in Live' : /\ i \in Live /\ rows'[i].box = rows[i].box
                          /\ rows'[i].seq = rows[i].seq /\ rows'[i].name = rows[i].name
  PROVE  NumbersFit'
BY DEF NumbersFit

LEMMA AddFits ==
  ASSUME TypeOK, NumbersFit, NEW box \in Places, NEW files \in SUBSET Files,
         \A f, g \in files : f.name = g.name => f = g,
         ~Conflict(box, files), Add(box, files)
  PROVE  NumbersFit'
<1> DEFINE F == Fresh(box, files)
<1>0. PICK new \in SUBSET Unused : \E source \in [new -> F] : Added(box, files, new, source)
  BY AddFacts
<1>1. PICK source \in [new -> F] : Added(box, files, new, source)
  BY <1>0
<1>2. /\ new \subseteq Ids /\ new \cap Live = {}
      /\ \A i \in new : source[i] \in F /\ source[i] \in files /\ source[i].name \in Nat
  <2>1. new \subseteq Ids /\ new \cap Live = {}
    BY DEF Unused, Live
  <2>2. \A i \in new : source[i] \in F /\ source[i] \in files
    BY DEF Fresh
  <2> QED
    BY <2>1, <2>2, FilesAssumption
<1>3. /\ \A i \in Ids \ new : rows'[i] = rows[i]
      /\ \A i \in new : rows'[i] = NewRow(i, box, source[i], Number(box, files, source[i]))
      /\ \A i \in new : rows'[i].box = box /\ rows'[i].name = source[i].name
      /\ IsFiniteSet(F)
  BY <1>1 DEF Added
<1>4. \A i \in new : rows'[i].seq = Number(box, files, source[i])
  BY <1>3, NewRowIs
<1>5. Live' \subseteq Live \cup new
  BY <1>3 DEF Live
<1>6. ASSUME NEW i \in new, NEW j \in Live, rows[j].box = box, box # Pool
      PROVE  rows'[i].seq # rows[j].seq /\ rows'[i].name # rows[j].name
  <2>1. j \in In(box)
    BY <1>6 DEF In
  <2>2. rows[j].seq < NextSequence(box) /\ rows[j].seq \in Nat /\ NextSequence(box) \in Nat
    BY <1>6, <2>1, NextIsLarger DEF TypeOK, IsRow, Live
  <2>3. NextSequence(box) <= rows'[i].seq /\ rows'[i].seq \in Nat
    BY <1>2, <1>3, <1>4, <1>6, NumberGrows
  <2>4. rows[j].name # source[i].name
    BY <1>2, <1>6, <2>1 DEF Conflict
  <2> QED
    BY <1>3, <2>2, <2>3, <2>4
<1>7. ASSUME NEW i \in new, NEW j \in new, i # j, box # Pool
      PROVE  rows'[i].seq # rows'[j].seq /\ rows'[i].name # rows'[j].name
  <2>1. source[i] # source[j]
    BY <1>1, <1>7 DEF Added
  <2>2. source[i].name # source[j].name
    BY <1>2, <2>1
  <2>3. source[i].name < source[j].name \/ source[j].name < source[i].name
    BY <1>2, <2>2
  <2>4. rows'[i].seq < rows'[j].seq \/ rows'[j].seq < rows'[i].seq
    BY <1>2, <1>3, <1>4, <1>7, <2>3, NumberGrows
  <2>5. rows'[i].seq \in Nat /\ rows'[j].seq \in Nat
    BY <1>2, <1>3, <1>4, NumberGrows
  <2> QED
    BY <1>3, <2>2, <2>4, <2>5
<1>8. \A i \in Live : rows'[i] = rows[i]
  BY <1>2, <1>3 DEF Live
<1> SUFFICES ASSUME NEW i \in Live', NEW j \in Live', i # j,
                    rows'[i].box = rows'[j].box, rows'[i].box # Pool
             PROVE  rows'[i].seq # rows'[j].seq /\ rows'[i].name # rows'[j].name
  BY DEF NumbersFit
<1>9. CASE i \in Live /\ j \in Live
  BY <1>8, <1>9 DEF NumbersFit
<1>10. CASE i \in new /\ j \in Live
  BY <1>3, <1>6, <1>8, <1>10
<1>11. CASE i \in Live /\ j \in new
  <2>1. rows'[j].seq # rows'[i].seq /\ rows'[j].name # rows'[i].name
    BY <1>3, <1>6, <1>8, <1>11
  <2> QED
    BY <2>1
<1>12. CASE i \in new /\ j \in new
  BY <1>3, <1>7, <1>12
<1> QED
  BY <1>5, <1>9, <1>10, <1>11, <1>12

LEMMA AssignSaveFits ==
  ASSUME StoreIInv, NumbersFit, NEW w \in Workers, AssignSave(w)
  PROVE  NumbersFit'
<1> DEFINE q == req[w]
           me == req[w].now.id
<1>1. CASE UNCHANGED rows
  BY <1>1, OldFit DEF Live
<1>2. CASE Fits(q) /\ rows' = [rows EXCEPT ![me] = Moved(q)]
  <2>1. me \in Ids
    BY DEF AssignSave, StoreIInv, Reads, ReadOK
  <2>2. rows'[me] = Moved(q) /\ \A i \in Ids \ {me} : rows'[i] = rows[i]
    BY <1>2, <2>1 DEF StoreIInv, Shape
  <2>3. rows'[me].box = q.box /\ rows'[me].seq = q.seq /\ rows'[me].name = q.now.row.name
    BY <2>2 DEF Moved
  <2>4. \A i \in Live' \ {me} : i \in Live /\ rows'[i] = rows[i]
    BY <2>2 DEF Live
  <2>5. \A i \in Live' \ {me} : rows'[i].box = q.box =>
          rows'[i].seq # q.seq /\ rows'[i].name # q.now.row.name
    BY <1>2, <2>4 DEF Fits, In
  <2> QED
    BY <2>3, <2>4, <2>5 DEF NumbersFit
<1> QED
  BY <1>1, <1>2 DEF AssignSave

LEMMA NextFits ==
  ASSUME TypeOK, StoreIInv, NumbersFit, [Next]_vars
  PROVE  NumbersFit'
<1>1. CASE UNCHANGED rows
  BY <1>1, OldFit DEF Live
<1>2. ASSUME NEW w \in Workers, Store(w)
      PROVE  NumbersFit'
  <2>1. req[w].file \in Files /\ req[w].box \in Places
    BY <1>2 DEF Store, StoreIInv, Reads
  <2>2. ASSUME ~Conflict(req[w].box, {req[w].file}), Add(req[w].box, {req[w].file})
        PROVE  NumbersFit'
    <3>1. {req[w].file} \in SUBSET Files /\ \A f, g \in {req[w].file} : f.name = g.name => f = g
      BY <2>1
    <3> QED
      BY <2>1, <2>2, <3>1, AddFits
  <2> QED
    BY <1>1, <1>2, <2>2 DEF Store
<1>3. ASSUME NEW w \in Workers, AssignSave(w)
      PROVE  NumbersFit'
  BY <1>3, AssignSaveFits
<1>4. ASSUME NEW files \in SUBSET Files, NEW target, Import(files, target)
      PROVE  NumbersFit'
  <2>1. target \in Open \cup {Pool, None} /\ \A f, g \in files : f.name = g.name => f = g
    BY <1>4 DEF Import
  <2>2. PICK box \in Resolved(target) : ~Conflict(box, files) /\ Add(box, files)
    BY <1>4 DEF Import
  <2>3. box \in Places
    BY <2>1, <2>2, OpenedTyped
  <2> QED
    BY <2>1, <2>2, <2>3, AddFits
<1>5. ASSUME NEW files \in SUBSET Files, NEW target, ImportFails(files, target)
      PROVE  NumbersFit'
  <2>1. PICK new : rows' =
          [i \in Ids |-> IF i \in new THEN [NoRow EXCEPT !.state = "unsaved"] ELSE rows[i]]
    BY <1>5, ImportFailsFacts
  <2>2. [NoRow EXCEPT !.state = "unsaved"].state = "unsaved"
    BY DEF NoRow
  <2>3. \A i \in Live' : i \in Live /\ rows'[i] = rows[i]
    BY <2>1, <2>2 DEF Live
  <2> QED
    BY <2>3, OldFit
<1>6. ASSUME NEW b \in Boxes, Archive(b)
      PROVE  NumbersFit'
  <2>1. rows' = [i \in Ids |-> IF i \in In(b) THEN [rows[i] EXCEPT !.file = None] ELSE rows[i]]
    BY <1>6 DEF Archive
  <2>2. \A i \in Ids : /\ rows'[i].state = rows[i].state /\ rows'[i].box = rows[i].box
                       /\ rows'[i].seq = rows[i].seq /\ rows'[i].name = rows[i].name
    BY <2>1
  <2>3. Live' = Live /\ Live \subseteq Ids
    BY <2>2 DEF Live
  <2> QED
    BY <2>2, <2>3, OldFit
<1>7. ASSUME NEW i \in Ids, Delete(i)
      PROVE  NumbersFit'
  <2>1. rows' = [rows EXCEPT ![i] = Removed(rows[i])]
    BY <1>7 DEF Delete
  <2>2. rows'[i].state = "deleted" /\ \A j \in Ids \ {i} : rows'[j] = rows[j]
    BY <2>1, RemovedIs DEF StoreIInv, Shape
  <2>3. \A j \in Live' : j \in Live /\ rows'[j] = rows[j]
    BY <2>2 DEF Live
  <2> QED
    BY <2>3, OldFit
<1>8. ASSUME NEW w \in Workers,
             \/ Prepared(w) \/ Deliver(w) \/ Unread(w) \/ Lose(w) \/ Kill(w)
             \/ AssignNumber(w) \/ AssignCopy(w)
             \/ \E f \in Files : Upload(w, f)
             \/ \E target \in Places \cup {None} : Prepare(w, target)
             \/ \E b \in Boxes, ids \in SUBSET Ids : AssignBegin(w, b, ids)
      PROVE  UNCHANGED rows
  BY <1>8 DEF Prepared, Deliver, Unread, Lose, Kill, AssignNumber, AssignCopy, Upload, Prepare,
              AssignBegin
<1> QED
  BY <1>1, <1>2, <1>3, <1>4, <1>5, <1>6, <1>7, <1>8 DEF Next, vars

\* NumbersFit for every instance: what an upload or an import stores has a
\* number beyond those of its box and a name that is not there, whatever
\* assignments have been numbering meanwhile.
THEOREM NumbersCorrect == Spec => []NumbersFit
<1>1. Init => NumbersFit
  BY DEF Init, NumbersFit, Live, NoRow
<1>2. TypeOK /\ StoreIInv /\ NumbersFit /\ [Next]_vars => TypeOK' /\ StoreIInv' /\ NumbersFit'
  BY NextTyped, NextStore, NextFits
<1> QED
  BY InitTyped, InitStore, <1>1, <1>2, PTL DEF Spec

----------------------------------------------------------------------------
(* What the page says of its files *)

LEMMA NextPersistent ==
  ASSUME StoreIInv, [Next]_vars
  PROVE  Persistent
<1>1. CASE UNCHANGED rows
  BY <1>1 DEF Persistent, Saved
<1>2. ASSUME NEW w \in Workers,
             \/ Prepared(w) \/ Deliver(w) \/ Unread(w) \/ Lose(w) \/ Kill(w)
             \/ AssignNumber(w) \/ AssignCopy(w)
             \/ \E f \in Files : Upload(w, f)
             \/ \E target \in Places \cup {None} : Prepare(w, target)
             \/ \E b \in Boxes, ids \in SUBSET Ids : AssignBegin(w, b, ids)
      PROVE  UNCHANGED rows
  BY <1>2 DEF Prepared, Deliver, Unread, Lose, Kill, AssignNumber, AssignCopy, Upload, Prepare,
              AssignBegin
<1>3. ASSUME NEW w \in Workers, Store(w) \/ AssignSave(w)
      PROVE  Persistent
  BY <1>3, StoreKeeps, AssignSaveKeeps
<1>4. ASSUME NEW files \in SUBSET Files, NEW target,
             Import(files, target) \/ ImportFails(files, target)
      PROVE  Persistent
  BY <1>4, ImportKeeps, ImportFailsKeeps
<1>5. ASSUME NEW b \in Boxes, Archive(b)
      PROVE  Persistent
  BY <1>5, ArchiveKeeps
<1>6. ASSUME NEW i \in Ids, Delete(i)
      PROVE  Persistent
  BY <1>6, DeleteKeeps
<1> QED
  BY <1>1, <1>2, <1>3, <1>4, <1>5, <1>6 DEF Next, vars

\* What has been answered stays true.
LEMMA AnsweredStays ==
  ASSUME Persistent, NEW f, NEW status, NEW box, Answered(f, status, box)
  PROVE  Answered(f, status, box)'
BY DEF Answered, Persistent, Saved

\* Steps of workers that the page does not wait for.
LEMMA ElsewhereKeepsPage ==
  ASSUME PageIInv, Persistent, UNCHANGED page,
         \A w \in Workers : page.wait = w => req'[w] = req[w]
  PROVE  PageIInv'
<1>1. DoneIsStored'
  BY AnsweredStays DEF PageIInv, DoneIsStored
<1>2. ASSUME NEW w \in Workers, page.wait = w
      PROVE  \/ req'[w].pc = "login"
             \/ req'[w].pc = "prepared" /\ page'.target = None
             \/ /\ req'[w].pc = "store" /\ req'[w].box = page'.target
                /\ \A f \in Files : page'.entry[f] = "uploading" => f = req'[w].file
             \/ /\ req'[w].pc = "reply"
                /\ \A f \in Files :
                     page'.entry[f] = "uploading" => Answered(f, req[w].result, page.target)'
  <2>1. req'[w] = req[w] /\ page' = page
    BY <1>2
  <2>2. CASE req[w].pc = "reply"
    BY <1>2, <2>1, <2>2, AnsweredStays DEF PageIInv
  <2> QED
    BY <1>2, <2>1, <2>2 DEF PageIInv
<1>3. \A w \in Workers : page.wait = w => req'[w].result = req[w].result
  OBVIOUS
<1> QED
  BY <1>1, <1>2, <1>3 DEF PageIInv, Answered

\* Answers and failures take one mark to the page and stop its waiting; some
\* files it cannot tell of.
LEMMA MarkedIs ==
  ASSUME PageTyped, NEW status, NEW p, p = Marked(status)
  PROVE  /\ p.wait = None /\ p.target = page.target /\ p.blind = page.blind
         /\ \A f \in Files :
              p.entry[f] = IF page.entry[f] = "uploading" THEN status ELSE page.entry[f]
BY DEF Marked, PageTyped, Pages

LEMMA MarkedKeepsPage ==
  ASSUME PageIInv, PageTyped, UNCHANGED rows, NEW status \in Results, NEW unread,
         page'.wait = None, page'.target = page.target,
         page'.blind = page.blind \cup unread,
         \A f \in Files :
           page'.entry[f] = IF page.entry[f] = "uploading" THEN status ELSE page.entry[f],
         status = "error" \/ page.target # None,
         \A f \in Files \ unread :
           page.entry[f] = "uploading" => Answered(f, status, page.target)
  PROVE  PageIInv'
<1>1. \A f \in Files : page'.entry[f] # "uploading"
  BY DEF Results
<1>2. \A f, s, b : Answered(f, s, b) => Answered(f, s, b)'
  BY DEF Answered
<1>3. \A f \in Files \ page'.blind : Answered(f, page'.entry[f], page.target)
  BY DEF PageIInv, DoneIsStored
<1>4. DoneIsStored'
  BY <1>3 DEF DoneIsStored, Answered
<1>5. page'.target = None => \A f \in Files : page'.entry[f] \in {"pending", "error"}
  BY DEF PageIInv
<1>6. \A w \in Workers : page'.wait # w
  BY NoneAssumption
<1> QED
  BY <1>1, <1>4, <1>5, <1>6 DEF PageIInv

LEMMA FailedKeepsPage ==
  ASSUME PageIInv, PageTyped, UNCHANGED rows, page' = Failed
  PROVE  PageIInv'
<1>1. \A f : Answered(f, "error", page.target)
  BY DEF Answered
<1>2. page'.blind = page.blind \cup {}
  BY MarkedIs DEF Failed
<1> QED
  BY <1>1, <1>2, MarkedIs, MarkedKeepsPage DEF Failed, Results

\* An answer that could not be read.
LEMMA MisreadKeepsPage ==
  ASSUME PageIInv, PageTyped, UNCHANGED rows, page' = Misread
  PROVE  PageIInv'
<1>1. CASE page.target = None
  <2>1. page' = [page EXCEPT !.wait = None, !.target = Pool]
    BY <1>1 DEF Misread
  <2>2. page'.wait = None /\ page'.target = Pool /\ page'.entry = page.entry
    BY <2>1 DEF PageTyped, Pages
  <2>3. \A f \in Files : page'.entry[f] \in {"pending", "error"}
    BY <1>1, <2>2 DEF PageIInv
  <2>4. DoneIsStored'
    BY <2>3 DEF DoneIsStored, Answered
  <2>5. \A w \in Workers : page'.wait # w
    BY <2>2, NoneAssumption
  <2> QED
    BY <2>3, <2>4, <2>5 DEF PageIInv
<1>2. CASE page.target # None
  <2>1. PICK unread : unread = {f \in Files : page.entry[f] = "uploading"}
    OBVIOUS
  <2>2. PICK p : p = Marked("done")
    OBVIOUS
  <2>3. p \in Pages
    BY <2>2 DEF Marked, PageTyped, Pages, Results
  <2>4. page' = [p EXCEPT !.blind = @ \cup unread]
    BY <1>2, <2>1, <2>2 DEF Misread
  <2>5. /\ page'.wait = p.wait /\ page'.target = p.target /\ page'.entry = p.entry
        /\ page'.blind = p.blind \cup unread
    BY <2>3, <2>4 DEF Pages
  <2>6. PICK status \in Results : status = "done"
    BY DEF Results
  <2>7. /\ page'.wait = None /\ page'.target = page.target
        /\ page'.blind = page.blind \cup unread
        /\ \A f \in Files :
             page'.entry[f] = IF page.entry[f] = "uploading" THEN status ELSE page.entry[f]
    BY <2>2, <2>5, <2>6, MarkedIs
  <2>8. \A f \in Files \ unread : page.entry[f] # "uploading"
    BY <2>1
  <2> QED
    BY <1>2, <2>7, <2>8, MarkedKeepsPage
<1> QED
  BY <1>1, <1>2

\* The transaction of an upload: what it answers is so.
LEMMA StoreAnswers ==
  ASSUME StoreIInv, NEW w \in Workers, Store(w),
         NEW f, f = req[w].file, NEW box, box = req[w].box
  PROVE  \E result \in Results :
           /\ req' = [req EXCEPT ![w] = [pc |-> "reply", result |-> result]]
           /\ Answered(f, result, box)'
<1>1. f \in Files /\ box \in Places
  BY DEF Store, StoreIInv, Reads
<1>2. CASE Reply(w, "error")
  BY <1>2 DEF Reply, Results, Answered
<1>3. CASE Add(box, {f}) /\ Reply(w, IF Fresh(box, {f}) = {} THEN "skipped" ELSE "done")
  <2>1. CASE Fresh(box, {f}) = {}
    <3>1. PICK i \in In(box) : rows[i].content = f.content
      BY <1>1, <2>1, FilesAssumption DEF Fresh
    <3>2. i \in Ids /\ Saved(i)
      BY DEF In, Live, Saved
    <3>3. Persistent
      BY StoreKeeps
    <3>4. i \in Ids /\ Saved(i)' /\ rows'[i].content = f.content
      BY <3>1, <3>2, <3>3 DEF Persistent
    <3>5. Answered(f, "skipped", box)'
      BY <3>4 DEF Answered, Saved, Store
    <3> QED
      BY <1>3, <2>1, <3>5 DEF Reply, Results
  <2>2. CASE Fresh(box, {f}) # {}
    <3>0. f \in Fresh(box, {f}) /\ \A g \in Fresh(box, {f}) : g = f
      BY <2>2 DEF Fresh
    <3>1. PICK new \in SUBSET Unused : \E source \in [new -> Fresh(box, {f})] :
            Added(box, {f}, new, source)
      BY <1>1, <1>3, AddFacts
    <3>2. PICK source \in [new -> Fresh(box, {f})] : Added(box, {f}, new, source)
      BY <3>1
    <3>3. PICK i \in new : source[i] = f
      BY <3>0, <3>2 DEF Added
    <3>4. i \in Ids /\ rows'[i].state = "live" /\ rows'[i].born = box
          /\ rows'[i].name = f.name /\ rows'[i].content = f.content
      BY <3>2, <3>3 DEF Added, Unused
    <3>5. Answered(f, "done", box)'
      BY <3>4 DEF Answered
    <3> QED
      BY <1>3, <2>2, <3>5 DEF Reply, Results
  <2> QED
    BY <2>1, <2>2
<1> QED
  BY <1>2, <1>3 DEF Store

LEMMA NextPage ==
  ASSUME PageIInv, TypeOK, StoreIInv, [Next]_vars
  PROVE  PageIInv'
<1>0. Persistent /\ PageTyped
  BY NextPersistent, TypeParts
<1>1. CASE UNCHANGED <<page, req>>
  BY <1>0, <1>1, ElsewhereKeepsPage
<1>2. ASSUME NEW w \in Workers, page.wait # w, UNCHANGED page,
             \A v \in Workers \ {w} : req'[v] = req[v]
      PROVE  PageIInv'
  BY <1>0, <1>2, ElsewhereKeepsPage
<1>3. ASSUME NEW w \in Workers, NEW q, req' = [req EXCEPT ![w] = q]
      PROVE  req'[w] = q /\ \A v \in Workers \ {w} : req'[v] = req[v]
  BY <1>3 DEF StoreIInv, Shape
<1>4. ASSUME NEW w \in Workers, Prepared(w)
      PROVE  PageIInv'
  <2>1. req[w].pc = "prepared" /\ req' = [req EXCEPT ![w] = Idle] /\ UNCHANGED rows
        /\ page' = IF Waits(w) THEN [page EXCEPT !.wait = None, !.target = req[w].box] ELSE page
    BY <1>4 DEF Prepared
  <2>2. CASE page.wait # w
    BY <1>2, <1>3, <2>1, <2>2 DEF Waits
  <2>3. CASE page.wait = w
    <3>1. page.target = None /\ \A f \in Files : page.entry[f] \in {"pending", "error"}
      BY <2>1, <2>3 DEF PageIInv
    <3>2. page'.wait = None /\ page'.entry = page.entry /\ page'.target = req[w].box
      BY <1>0, <2>1, <2>3 DEF Waits, PageTyped, Pages
    <3>3. req[w].box # None
      BY <2>1, NoneAssumption, TypeParts DEF RequestsTyped, IsRequest, Places
    <3>4. DoneIsStored'
      BY <3>1, <3>2 DEF DoneIsStored, Answered
    <3> QED
      BY <3>1, <3>2, <3>3, <3>4, NoneAssumption DEF PageIInv
  <2> QED
    BY <2>2, <2>3
<1>5. ASSUME NEW w \in Workers, Deliver(w)
      PROVE  PageIInv'
  <2>1. req[w].pc = "reply" /\ req' = [req EXCEPT ![w] = Idle] /\ UNCHANGED rows
        /\ page' = IF Waits(w) THEN Marked(req[w].result) ELSE page
    BY <1>5 DEF Deliver
  <2>2. CASE page.wait # w
    BY <1>2, <1>3, <2>1, <2>2 DEF Waits
  <2>3. CASE page.wait = w /\ page.target # None
    <3>1. req[w].result \in Results
      BY <2>1, TypeParts DEF RequestsTyped, IsRequest
    <3>2. \A f \in Files : page.entry[f] = "uploading" => Answered(f, req[w].result, page.target)
      BY <2>1, <2>3 DEF PageIInv
    <3>3. PICK p : p = Marked(req[w].result)
      OBVIOUS
    <3>4. page' = p
      BY <2>1, <2>3, <3>3 DEF Waits
    <3>5. page'.blind = page.blind \cup {}
      BY <1>0, <3>3, <3>4, MarkedIs
    <3> QED
      BY <1>0, <2>1, <2>3, <3>1, <3>2, <3>3, <3>4, <3>5, MarkedIs, MarkedKeepsPage
  <2>4. CASE page.wait = w /\ page.target = None
    <3>1. page'.wait = None /\ page'.target = None /\ \A f \in Files : page'.entry[f] = page.entry[f]
      BY <1>0, <2>1, <2>4 DEF Waits, Marked, PageTyped, Pages, PageIInv
    <3>2. \A f \in Files : page'.entry[f] \in {"pending", "error"}
      BY <2>4, <3>1 DEF PageIInv
    <3>3. DoneIsStored'
      BY <3>2 DEF DoneIsStored, Answered
    <3> QED
      BY <3>1, <3>2, <3>3, NoneAssumption DEF PageIInv
  <2> QED
    BY <2>2, <2>3, <2>4
<1>6. ASSUME NEW w \in Workers, Lose(w) \/ Kill(w)
      PROVE  PageIInv'
  <2>1. UNCHANGED rows /\ (page' = Failed \/ (page' = page /\ page.wait # w))
    BY <1>6 DEF Lose, Kill, Waits
  <2>2. UNCHANGED req \/ req' = [req EXCEPT ![w] = Idle]
    BY <1>6 DEF Lose, Kill
  <2>3. CASE page' = Failed
    BY <1>0, <2>1, <2>3, FailedKeepsPage
  <2>4. CASE page' = page /\ page.wait # w
    BY <1>1, <1>2, <1>3, <2>2, <2>4
  <2> QED
    BY <2>1, <2>3, <2>4
<1>7. ASSUME NEW w \in Workers, Store(w)
      PROVE  PageIInv'
  <2>0. req[w].pc = "store" /\ UNCHANGED page
    BY <1>7 DEF Store
  <2>1. PICK result \in Results :
          /\ req' = [req EXCEPT ![w] = [pc |-> "reply", result |-> result]]
          /\ \A f, box : f = req[w].file /\ box = req[w].box => Answered(f, result, box)'
    BY <1>7, StoreAnswers
  <2>2. CASE page.wait # w
    BY <1>2, <1>3, <2>0, <2>1, <2>2
  <2>3. CASE page.wait = w
    <3>1. /\ req[w].box = page.target
          /\ \A f \in Files : page.entry[f] = "uploading" => f = req[w].file
      BY <2>0, <2>3 DEF PageIInv
    <3>2. req'[w].pc = "reply" /\ req'[w].result = result
      <4>1. req'[w] = [pc |-> "reply", result |-> result]
        BY <2>1 DEF StoreIInv, Shape
      <4> QED
        BY <4>1
    <3>3. \A f \in Files : page.entry[f] = "uploading" => Answered(f, req[w].result, page.target)'
      BY <2>0, <2>1, <3>1, <3>2 DEF Answered
    <3>4. DoneIsStored'
      BY <1>0, <2>0, AnsweredStays DEF PageIInv, DoneIsStored
    <3> QED
      BY <2>0, <2>3, <3>2, <3>3, <3>4, NoneAssumption DEF PageIInv
  <2> QED
    BY <2>2, <2>3
<1>8. ASSUME NEW w \in Workers, NEW f \in Files, Upload(w, f)
      PROVE  PageIInv'
  <2>1. /\ page.wait = None /\ page.target # None /\ UNCHANGED rows
        /\ page' = [page EXCEPT !.wait = w, !.entry[f] = "uploading"]
        /\ \/ req' = [req EXCEPT ![w] = [pc |-> "store", file |-> f, box |-> page.target]]
           \/ req' = [req EXCEPT ![w] = [pc |-> "reply", result |-> "error"]]
           \/ req' = [req EXCEPT ![w] = [pc |-> "login"]]
    BY <1>8 DEF Upload, Reply, Login
  <2>2. /\ page'.wait = w /\ page'.target = page.target /\ page'.blind = page.blind
        /\ \A g \in Files : page'.entry[g] = IF g = f THEN "uploading" ELSE page.entry[g]
    BY <2>1, <1>0 DEF PageTyped, Pages
  <2>3. \A g \in Files : page'.entry[g] = "uploading" => g = f
    BY <2>1, <2>2 DEF PageIInv
  <2>4. \/ req'[w].pc = "store" /\ req'[w].file = f /\ req'[w].box = page'.target
        \/ req'[w].pc = "reply" /\ req'[w].result = "error"
        \/ req'[w].pc = "login"
    BY <1>3, <2>1, <2>2
  <2>5. DoneIsStored'
    <3>1. ASSUME NEW g \in Files \ page.blind
          PROVE  Answered(g, page.entry[g], page.target)'
      <4>1. CASE g = f
        BY <2>2, <4>1 DEF Answered
      <4>2. CASE g # f
        BY <2>1, <2>2, <4>2 DEF PageIInv, DoneIsStored, Answered
      <4> QED
        BY <4>1, <4>2
    <3> QED
      BY <2>2, <3>1 DEF DoneIsStored
  <2>6. \A v \in Workers : page'.wait = v => v = w
    BY <2>2
  <2>7. w # None
    BY NoneAssumption
  <2>8. \A g : req'[w].result = "error" => Answered(g, req[w].result, page.target)'
    BY DEF Answered
  <2> QED
    BY <2>1, <2>2, <2>3, <2>4, <2>5, <2>6, <2>7, <2>8 DEF PageIInv
<1>9. ASSUME NEW w \in Workers, NEW target \in Places \cup {None}, Prepare(w, target)
      PROVE  PageIInv'
  <2>1. page.wait = None /\ page.target = None /\ page' = [page EXCEPT !.wait = w] /\ UNCHANGED rows
    BY <1>9 DEF Prepare
  <2>2. PICK q : req' = [req EXCEPT ![w] = q] /\ q.pc \in {"prepared", "login"}
    <3>1. CASE Login(w)
      <4>1. PICK q : q = [pc |-> "login"]
        OBVIOUS
      <4>2. req' = [req EXCEPT ![w] = q] /\ q.pc \in {"prepared", "login"}
        BY <3>1, <4>1 DEF Login
      <4> QED
        BY <4>2
    <3>2. ASSUME NEW box, req' = [req EXCEPT ![w] = [pc |-> "prepared", box |-> box]]
          PROVE  \E q : req' = [req EXCEPT ![w] = q] /\ q.pc \in {"prepared", "login"}
      <4>1. PICK q : q = [pc |-> "prepared", box |-> box]
        OBVIOUS
      <4>2. req' = [req EXCEPT ![w] = q] /\ q.pc \in {"prepared", "login"}
        BY <3>2, <4>1
      <4> QED
        BY <4>2
    <3> QED
      BY <1>9, <3>1, <3>2 DEF Prepare
  <2>3. page'.wait = w /\ page'.target = None /\ page'.entry = page.entry
    BY <1>0, <2>1 DEF PageTyped, Pages
  <2>4. req'[w].pc \in {"prepared", "login"}
    BY <1>3, <2>2
  <2>5. DoneIsStored'
    BY <2>1, <2>3 DEF PageIInv, DoneIsStored, Answered
  <2> QED
    BY <2>1, <2>3, <2>4, <2>5, NoneAssumption DEF PageIInv
<1>10. ASSUME NEW w \in Workers,
              \/ AssignNumber(w) \/ AssignCopy(w) \/ AssignSave(w)
              \/ \E b \in Boxes, ids \in SUBSET Ids : AssignBegin(w, b, ids)
       PROVE  PageIInv'
  <2>1. page.wait # w /\ UNCHANGED page
    BY <1>10 DEF AssignNumber, AssignCopy, AssignSave, AssignBegin, PageIInv
  <2>2. \E q : req' = [req EXCEPT ![w] = q]
    BY <1>10 DEF AssignNumber, AssignCopy, AssignSave, AssignBegin
  <2> QED
    BY <1>2, <1>3, <2>1, <2>2
<1>11. ASSUME \/ \E b \in Boxes : Archive(b)
              \/ \E i \in Ids : Delete(i)
              \/ \E files \in SUBSET Files, target \in Places \cup {None} :
                   Import(files, target) \/ ImportFails(files, target)
       PROVE  UNCHANGED <<page, req>>
  BY <1>11 DEF Archive, Delete, Import, ImportFails
<1>12. ASSUME NEW w \in Workers, Unread(w)
       PROVE  PageIInv'
  <2>1. req' = [req EXCEPT ![w] = Idle] /\ UNCHANGED rows
        /\ page' = IF Waits(w) THEN Misread ELSE page
    BY <1>12 DEF Unread
  <2>2. CASE page.wait # w
    BY <1>2, <1>3, <2>1, <2>2 DEF Waits
  <2>3. CASE page.wait = w
    BY <1>0, <2>1, <2>3, MisreadKeepsPage DEF Waits
  <2> QED
    BY <2>2, <2>3
<1> QED
  BY <1>1, <1>4, <1>5, <1>6, <1>7, <1>8, <1>9, <1>10, <1>11, <1>12 DEF Next, vars

\* DoneIsStored for every instance: what the upload page calls uploaded or a
\* duplicate, having read so, is stored, whatever answers are lost, workers
\* killed and other files called done unread.
THEOREM DoneCorrect == Spec => []DoneIsStored
<1>1. Init => PageIInv
  <2> SUFFICES ASSUME Init PROVE PageIInv
    OBVIOUS
  <2>1. page = NewPage
    BY DEF Init
  <2> QED
    BY <2>1, NoneAssumption DEF NewPage, PageIInv, DoneIsStored, Answered
<1>2. /\ TypeOK /\ StoreIInv /\ PageIInv /\ [Next]_vars
      => TypeOK' /\ StoreIInv' /\ PageIInv'
  BY NextTyped, NextStore, NextPage
<1>3. PageIInv => DoneIsStored
  BY DEF PageIInv
<1> QED
  BY InitTyped, InitStore, <1>1, <1>2, <1>3, PTL DEF Spec

=============================================================================

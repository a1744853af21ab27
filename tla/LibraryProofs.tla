--------------------------- MODULE LibraryProofs ----------------------------
(***************************************************************************)
(* Proofs about Library, for any number of images, boxes, workers and      *)
(* files, with lost answers, killed workers and overlapping assignments.   *)
(***************************************************************************)
EXTENDS Library, FiniteSetTheorems, TLAPS

Saved(i) == rows[i].state \in {"live", "deleted"}

Shape ==
  /\ rows = [i \in Ids |-> rows[i]]
  /\ req = [w \in Workers |-> req[w]]
  /\ boxes \in [Boxes -> {"none", "open", "archived"}]
  /\ disk \subseteq Paths

\* What else holds of an image that is there.
Kept ==
  \A i \in Live :
    /\ rows[i].box \in Places
    /\ rows[i].box = Pool => rows[i].born = Pool /\ rows[i].file # None

\* What an assignment has read is an image that was in the pool, where no copy
\* of an assignment is.
ReadOK(t) ==
  /\ t.id \in Ids /\ Saved(t.id)
  /\ t.row.state = "live" /\ t.row.born = Pool
  /\ t.row.file \in Paths /\ t.row.file.id = t.id /\ t.row.file.box = Pool
  /\ t.row.name = rows[t.id].name /\ t.row.content = rows[t.id].content
  /\ rows[t.id].born = Pool

\* A copy that is not saved yet belongs to one assignment and to no row.
Pending(w) ==
  req[w].pc = "save" =>
    /\ req[w].path \in disk /\ req[w].path \in Paths
    /\ req[w].path.id = req[w].now.id /\ req[w].path.box = req[w].box
    /\ \A i \in Live : rows[i].file # req[w].path
    /\ \A v \in Workers \ {w} : req[v].pc = "save" => req[v].path # req[w].path

Reads(w) ==
  /\ req[w].pc \in {"number", "copy", "save"} =>
       req[w].box \in Boxes /\ \A t \in req[w].todo : ReadOK(t)
  /\ req[w].pc = "save" => ReadOK(req[w].now)
  /\ req[w].pc = "store" => req[w].file \in Files /\ req[w].box \in Places

StoreIInv ==
  /\ Shape /\ RowsHaveFiles /\ Kept /\ UploadedOnce
  /\ \A w \in Workers : Pending(w) /\ Reads(w)

\* Images keep what they are.
Persistent ==
  \A i \in Ids : Saved(i) =>
    /\ Saved(i)'
    /\ rows'[i].born = rows[i].born /\ rows'[i].name = rows[i].name
    /\ rows'[i].content = rows[i].content

StayArchived ==
  /\ boxes' \in [Boxes -> {"none", "open", "archived"}]
  /\ \A b \in Boxes : boxes[b] = "archived" => boxes'[b] = "archived"

LEMMA InitStore == Init => StoreIInv
<1> SUFFICES ASSUME Init PROVE StoreIInv
  OBVIOUS
<1>1. /\ rows = [i \in Ids |-> NoRow] /\ disk = {} /\ boxes = [b \in Boxes |-> "none"]
      /\ req = [w \in Workers |-> Idle]
  BY DEF Init
<1>2. Shape
  BY <1>1 DEF Shape
<1>3. Live = {}
  BY <1>1 DEF Live, NoRow
<1>4. \A w \in Workers : Pending(w) /\ Reads(w)
  BY <1>1 DEF Idle, Pending, Reads
<1> QED
  BY <1>2, <1>3, <1>4 DEF StoreIInv, RowsHaveFiles, Kept, UploadedOnce

\* Requests that go from one thing to another that is no assignment, or end.
LEMMA RequestKeeps ==
  ASSUME StoreIInv, NEW w \in Workers, NEW q, req' = [req EXCEPT ![w] = q],
         q.pc \notin {"number", "copy", "save"}, UNCHANGED <<rows, disk>>, StayArchived,
         q.pc = "store" => q.file \in Files /\ q.box \in Places
  PROVE  StoreIInv'
<1>1. req' = [v \in Workers |-> req'[v]] /\ req'[w] = q
      /\ \A v \in Workers \ {w} : req'[v] = req[v]
  BY DEF StoreIInv, Shape
<1>2. Shape' /\ RowsHaveFiles' /\ Kept' /\ UploadedOnce'
  <2>1. Live' = Live
    BY DEF Live
  <2>2. ASSUME NEW i \in Live, rows[i].file = None
        PROVE  boxes'[rows[i].box] = "archived"
    BY <2>2, NoneAssumption DEF StoreIInv, RowsHaveFiles, Kept, StayArchived, Places, Shape
  <2>3. Shape'
    BY <1>1 DEF StoreIInv, Shape, StayArchived
  <2>4. RowsHaveFiles'
    BY <2>1, <2>2 DEF StoreIInv, RowsHaveFiles
  <2>5. Kept' /\ UploadedOnce'
    BY <2>1 DEF StoreIInv, Kept, UploadedOnce
  <2> QED
    BY <2>3, <2>4, <2>5
<1>3. ASSUME NEW v \in Workers
      PROVE  Pending(v)' /\ Reads(v)'
  <2>1. CASE v = w
    BY <1>1, <2>1 DEF Pending, Reads
  <2>2. CASE v # w
    BY <1>1, <2>2 DEF StoreIInv, Pending, Reads, ReadOK, Saved, Live
  <2> QED
    BY <2>1, <2>2
<1> QED
  BY <1>2, <1>3 DEF StoreIInv

\* The same for whatever leaves rows and files alone.
LEMMA PageKeeps ==
  ASSUME StoreIInv, UNCHANGED <<rows, disk, boxes, req>>
  PROVE  StoreIInv'
BY DEF StoreIInv, Shape, RowsHaveFiles, Kept, UploadedOnce, Live, Pending, Reads, ReadOK, Saved

LEMMA OpenedStays ==
  ASSUME StoreIInv, NEW target \in Open \cup {Pool, None}, NEW box \in Resolved(target),
         boxes' = Opened(box)
  PROVE  StayArchived /\ box \in Places
<1>1. box \in Open \cup {Pool} \/ (box \in Boxes /\ boxes[box] = "none")
  BY DEF Resolved, NextBox
<1> QED
  BY <1>1, BoxesAssumption DEF StayArchived, Opened, Open, Places, StoreIInv, Shape, Pool

LEMMA NewRowIs ==
  ASSUME NEW i, NEW box, NEW f, NEW n, NEW row, row = NewRow(i, box, f, n)
  PROVE  /\ row.state = "live" /\ row.box = box /\ row.born = box
         /\ row.file = Original(i, box)
         /\ row.name = f.name /\ row.content = f.content /\ row.seq = n
BY DEF NewRow

\* The number that the image of a file gets.
Number(box, files, f) ==
  IF box = Pool THEN 0
  ELSE NextSequence(box) + Cardinality({g \in Fresh(box, files) : g.name < f.name})

Added(box, files, new, source) ==
  /\ rows' = [i \in Ids |-> IF i \in new THEN rows'[i] ELSE rows[i]]
  /\ disk' = disk \cup {Original(i, box) : i \in new}
  /\ \A i \in new : /\ rows'[i].state = "live"
                    /\ rows'[i].box = box /\ rows'[i].born = box
                    /\ rows'[i].file = Original(i, box)
                    /\ rows'[i].name = source[i].name
                    /\ rows'[i].content = source[i].content
  /\ \A i \in new : rows'[i] = NewRow(i, box, source[i], Number(box, files, source[i]))
  /\ \A f \in Fresh(box, files) : \E i \in new : source[i] = f
  /\ \A i, j \in new : source[i] = source[j] => i = j
  /\ IsFiniteSet(Fresh(box, files))

\* What Add comes to: an image for each of the files that are fresh.
LEMMA AddFacts ==
  ASSUME NEW box, NEW files \in SUBSET Files, Add(box, files)
  PROVE  \E new \in SUBSET Unused : \E source \in [new -> Fresh(box, files)] :
           Added(box, files, new, source)
<1> DEFINE F == Fresh(box, files)
<1>1. PICK ids \in Assigned(F) :
        LET new == {ids[f] : f \in F}
            of(i) == CHOOSE f \in F : ids[f] = i
            seq(f) == IF box = Pool THEN 0
                      ELSE NextSequence(box) + Cardinality({g \in F : g.name < f.name})
        IN  /\ rows' = [i \in Ids |-> IF i \in new THEN NewRow(i, box, of(i), seq(of(i))) ELSE rows[i]]
            /\ disk' = disk \cup {Original(i, box) : i \in new}
  BY DEF Add
<1> DEFINE new == {ids[f] : f \in F}
           of(i) == CHOOSE f \in F : ids[f] = i
           seq(f) == Number(box, files, f)
           source == [i \in new |-> of(i)]
<1>2. new \in SUBSET Unused /\ new \subseteq Ids
      /\ \A f, g \in F : ids[f] = ids[g] => f = g
  BY DEF Assigned, Unused
<1>3. \A i \in new : of(i) \in F /\ ids[of(i)] = i
  OBVIOUS
<1>4. source \in [new -> F] /\ \A i \in new : source[i] = of(i)
  BY <1>3
<1>5. /\ rows' = [i \in Ids |-> IF i \in new THEN NewRow(i, box, of(i), seq(of(i))) ELSE rows[i]]
      /\ disk' = disk \cup {Original(i, box) : i \in new}
  BY <1>1 DEF Number
<1>61. \A f \in F : ids[f] \in new /\ source[ids[f]] = f
  BY <1>2, <1>3, <1>4
<1>62. \A i, j \in new : source[i] = source[j] => i = j
  BY <1>3, <1>4
<1>63. IsFiniteSet(F)
  <2>1. ids \in Injection(F, Ids)
    BY <1>1, <1>2 DEF Assigned, Unused, Injection, IsInjective
  <2> QED
    BY <2>1, IdsAssumption, FS_Injection
<1> HIDE DEF of, seq, F, source, new
<1>6. \A i \in new : rows'[i] = NewRow(i, box, source[i], seq(source[i]))
  BY <1>2, <1>4, <1>5
<1>7. ASSUME NEW i \in new
      PROVE  /\ rows'[i].state = "live"
             /\ rows'[i].box = box /\ rows'[i].born = box
             /\ rows'[i].file = Original(i, box)
             /\ rows'[i].name = source[i].name
             /\ rows'[i].content = source[i].content
  BY <1>6, NewRowIs
<1>10. rows' = [i \in Ids |-> IF i \in new THEN rows'[i] ELSE rows[i]]
  BY <1>5
<1>11. \A f \in F : \E i \in new : source[i] = f
  BY <1>61
<1> USE <1>2, <1>4 DEF F
<1> WITNESS new \in SUBSET Unused
<1> WITNESS source \in [new -> Fresh(box, files)]
<1> QED
  BY <1>5, <1>6, <1>7, <1>62, <1>63, <1>10, <1>11 DEF Added, seq

\* No request begins or goes on with an assignment.
Calm ==
  /\ req' = [v \in Workers |-> req'[v]]
  /\ \A v \in Workers :
       req'[v] = req[v] \/ req'[v].pc \notin {"number", "copy", "save", "store"}

LEMMA AddKeeps ==
  ASSUME StoreIInv, NEW box \in Places, NEW files \in SUBSET Files,
         \A f, g \in files : f.name = g.name => f = g,
         Add(box, files), StayArchived, Calm
  PROVE  StoreIInv' /\ Persistent
<1>1. PICK new \in SUBSET Unused : \E source \in [new -> Fresh(box, files)] :
               Added(box, files, new, source)
  BY AddFacts
<1>0. PICK source \in [new -> Fresh(box, files)] : Added(box, files, new, source)
  BY <1>1
<1>2. /\ source \in [new -> Fresh(box, files)]
      /\ rows' = [i \in Ids |-> IF i \in new THEN rows'[i] ELSE rows[i]]
      /\ disk' = disk \cup {Original(i, box) : i \in new}
      /\ \A i \in new : /\ rows'[i].state = "live"
                        /\ rows'[i].box = box /\ rows'[i].born = box
                        /\ rows'[i].file = Original(i, box)
                        /\ rows'[i].name = source[i].name
                        /\ rows'[i].content = source[i].content
      /\ \A f \in Fresh(box, files) : \E i \in new : source[i] = f
      /\ \A i, j \in new : source[i] = source[j] => i = j
  BY <1>0 DEF Added
<1>3. /\ new \subseteq Ids
      /\ \A i \in new : rows[i].state = "none"
      /\ \A i \in Ids \ new : rows'[i] = rows[i]
      /\ Live' = Live \cup new /\ new \cap Live = {}
  <2>1. new \subseteq Ids /\ \A i \in new : rows[i].state = "none"
    BY DEF Unused
  <2>2. \A i \in Ids \ new : rows'[i] = rows[i]
    BY <1>2
  <2> QED
    BY <1>2, <2>1, <2>2 DEF Live
<1>4. \A i \in new : Original(i, box) \in Paths /\ Original(i, box).id = i /\ Original(i, box).box = box
  BY <1>3, CopyAssumption DEF Original, Paths
<1>5. \A i \in new : rows'[i].file \in disk' /\ rows'[i].file \in Paths /\ rows'[i].file # None
  BY <1>2, <1>4, NoneAssumption
<1>6. Shape'
  BY <1>2, <1>3, <1>4 DEF StoreIInv, Shape, Calm, StayArchived
<1>7. Kept'
  <2>1. ASSUME NEW i \in new
        PROVE  /\ rows'[i].box \in Places
               /\ rows'[i].box = Pool => rows'[i].born = Pool /\ rows'[i].file # None
    BY <1>2, <1>5
  <2>2. ASSUME NEW i \in Live
        PROVE  /\ rows'[i].box \in Places
               /\ rows'[i].box = Pool => rows'[i].born = Pool /\ rows'[i].file # None
    BY <1>3 DEF StoreIInv, Kept, Live
  <2> QED
    BY <1>3, <2>1, <2>2 DEF Kept
<1>8. RowsHaveFiles'
  <2>1. ASSUME NEW i \in Live
        PROVE  \/ rows'[i].file \in disk' /\ rows'[i].file.id = i /\ rows'[i].file.box = rows'[i].box
               \/ rows'[i].file = None /\ boxes'[rows'[i].box] = "archived"
    <3>1. rows'[i] = rows[i] /\ disk \subseteq disk'
      BY <1>2, <1>3 DEF Live
    <3>2. CASE rows[i].file = None
      BY <3>1, <3>2, NoneAssumption DEF StoreIInv, RowsHaveFiles, Kept, Shape, StayArchived, Places
    <3> QED
      BY <3>1, <3>2 DEF StoreIInv, RowsHaveFiles
  <2>2. ASSUME NEW i \in new
        PROVE  rows'[i].file \in disk' /\ rows'[i].file.id = i /\ rows'[i].file.box = rows'[i].box
    BY <1>2, <1>4, <1>5
  <2> QED
    BY <1>3, <2>1, <2>2 DEF RowsHaveFiles
<1>9. UploadedOnce'
  <2>1. ASSUME NEW i \in new, NEW j \in Live,
               rows'[i].content = rows'[j].content, rows'[i].born = rows'[j].born,
               rows'[j].box = rows'[j].born
        PROVE  FALSE
    <3>1. rows'[j] = rows[j] /\ j \in In(box)
      BY <1>2, <1>3, <2>1 DEF Live, In
    <3>2. source[i] \in Fresh(box, files) /\ source[i].content = rows[j].content
      BY <1>2, <2>1, <3>1
    <3> QED
      BY <3>1, <3>2 DEF Fresh
  <2>2. ASSUME NEW i \in new, NEW j \in new, rows'[i].content = rows'[j].content
        PROVE  i = j
    <3>1. /\ source[i] \in Fresh(box, files) /\ source[j] \in Fresh(box, files)
          /\ source[i].content = source[j].content
      BY <1>2, <2>2
    <3>2. /\ source[i] \in files /\ source[j] \in files
          /\ source[i].name <= source[j].name /\ source[j].name <= source[i].name
      BY <3>1 DEF Fresh
    <3>3. source[i].name \in Nat /\ source[j].name \in Nat
      BY <3>2, FilesAssumption
    <3>4. source[i] = source[j]
      BY <3>2, <3>3
    <3> QED
      BY <1>2, <3>4
  <2>3. \A i, j \in Live : rows'[i] = rows[i] /\ rows'[j] = rows[j]
    BY <1>3 DEF Live
  <2> QED
    BY <1>3, <2>1, <2>2, <2>3 DEF StoreIInv, UploadedOnce
<1>10. Persistent
  BY <1>3 DEF Persistent, Saved
<1>11. ASSUME NEW w \in Workers, req'[w] = req[w]
       PROVE  Reads(w)'
  <2>1. \A t : ReadOK(t) => ReadOK(t)'
    BY <1>3, <1>10 DEF ReadOK, Saved, Persistent
  <2> QED
    BY <1>11, <2>1 DEF StoreIInv, Reads
<1>12. ASSUME NEW w \in Workers
       PROVE  Pending(w)'
  <2>1. CASE req'[w].pc = "save"
    <3>1. req'[w] = req[w]
      BY <2>1 DEF Calm
    <3>2. Pending(w) /\ ReadOK(req[w].now) /\ req[w].pc = "save"
      BY <2>1, <3>1 DEF StoreIInv, Reads
    <3>3. req[w].path \in disk'
      BY <1>2, <3>2 DEF Pending
    <3>4. ASSUME NEW i \in Live'
          PROVE  rows'[i].file # req[w].path
      <4>1. CASE i \in Live
        BY <1>3, <3>2, <4>1 DEF Pending, Live
      <4>2. CASE i \in new
        BY <1>2, <1>3, <1>4, <3>2, <4>2 DEF Pending, ReadOK, Saved
      <4> QED
        BY <1>3, <4>1, <4>2
    <3>5. \A v \in Workers \ {w} : req'[v].pc = "save" => req'[v].path # req[w].path
      BY <3>2 DEF Pending, Calm
    <3> QED
      BY <3>1, <3>2, <3>3, <3>4, <3>5 DEF Pending
  <2> QED
    BY <2>1 DEF Pending
<1>13. ASSUME NEW w \in Workers
       PROVE  Reads(w)'
  BY <1>11 DEF Calm, Reads
<1> QED
  BY <1>6, <1>7, <1>8, <1>9, <1>10, <1>12, <1>13 DEF StoreIInv

LEMMA ReadsStay ==
  ASSUME StoreIInv, Persistent, NEW w \in Workers, req'[w] = req[w]
  PROVE  Reads(w)'
<1>1. \A t : ReadOK(t) => ReadOK(t)'
  BY DEF ReadOK, Saved, Persistent
<1> QED
  BY <1>1 DEF StoreIInv, Reads

\* Images that are changed or removed together with their own files.
LEMMA RemoveKeeps ==
  ASSUME StoreIInv, NEW gone \in SUBSET Live, UNCHANGED req, StayArchived,
         disk' = disk \ {rows[i].file : i \in gone},
         rows' = [i \in Ids |-> IF i \in gone THEN rows'[i] ELSE rows[i]],
         \A i \in gone :
           /\ rows'[i].born = rows[i].born /\ rows'[i].name = rows[i].name
           /\ rows'[i].content = rows[i].content
           /\ \/ rows'[i].state = "deleted"
              \/ /\ rows'[i].state = "live" /\ rows'[i].box = rows[i].box
                 /\ rows'[i].file = None /\ rows[i].box \in Boxes
                 /\ boxes'[rows[i].box] = "archived"
  PROVE  StoreIInv' /\ Persistent
<1>1. /\ \A i \in Ids \ gone : rows'[i] = rows[i]
      /\ Live' \subseteq Live /\ Live \subseteq Ids /\ Live \ gone \subseteq Live'
      /\ disk' \subseteq disk
  BY DEF Live
<1>2. Persistent
  BY <1>1 DEF Persistent, Saved, Live
<1>3. Shape'
  BY <1>1 DEF StoreIInv, Shape, StayArchived
<1>4. Kept'
  BY <1>1, BoxesAssumption DEF StoreIInv, Kept, Live, Pool
<1>5. ASSUME NEW i \in Live'
      PROVE  \/ rows'[i].file \in disk' /\ rows'[i].file.id = i /\ rows'[i].file.box = rows'[i].box
             \/ rows'[i].file = None /\ boxes'[rows'[i].box] = "archived"
  <2>1. CASE i \in gone
    BY <1>1, <2>1 DEF Live
  <2>2. CASE i \notin gone /\ rows[i].file = None
    BY <1>1, <2>2, NoneAssumption DEF StoreIInv, RowsHaveFiles, Kept, Shape, StayArchived, Places
  <2>3. CASE i \notin gone /\ rows[i].file # None
    <3>1. /\ rows[i].file \in disk /\ rows[i].file.id = i /\ rows[i].file.box = rows[i].box
          /\ rows'[i] = rows[i]
      BY <1>1, <2>3 DEF StoreIInv, RowsHaveFiles
    <3>2. \A j \in gone : rows[j].file # rows[i].file
      <4>1. ASSUME NEW j \in gone, rows[j].file = rows[i].file
            PROVE  FALSE
        BY <1>1, <2>3, <3>1, <4>1 DEF StoreIInv, RowsHaveFiles
      <4> QED
        BY <4>1
    <3> QED
      BY <3>1, <3>2
  <2> QED
    BY <2>1, <2>2, <2>3
<1>6. RowsHaveFiles'
  BY <1>5 DEF RowsHaveFiles
<1>7. UploadedOnce'
  <2>1. \A i \in Live' : /\ i \in Live /\ rows'[i].content = rows[i].content
                         /\ rows'[i].born = rows[i].born /\ rows'[i].box = rows[i].box
    BY <1>1 DEF Live
  <2> QED
    BY <2>1 DEF StoreIInv, UploadedOnce
<1>8. ASSUME NEW w \in Workers
      PROVE  Pending(w)'
  <2>1. CASE req[w].pc = "save"
    <3>1. Pending(w) /\ Reads(w)
      BY DEF StoreIInv
    <3>2. req[w].path \in disk'
      BY <1>1, <2>1, <3>1 DEF Pending
    <3>3. \A i \in Live' : rows'[i].file # req[w].path
      BY <1>1, <2>1, <3>1, NoneAssumption DEF Pending, Live
    <3> QED
      BY <2>1, <3>1, <3>2, <3>3 DEF Pending
  <2> QED
    BY <2>1 DEF Pending
<1>9. \A w \in Workers : Reads(w)'
  BY <1>2, ReadsStay
<1> QED
  BY <1>2, <1>3, <1>4, <1>6, <1>7, <1>8, <1>9 DEF StoreIInv

LEMMA ArchiveKeeps ==
  ASSUME StoreIInv, NEW b \in Boxes, Archive(b)
  PROVE  StoreIInv' /\ Persistent
<1>1. /\ In(b) \in SUBSET Live
      /\ boxes' = [boxes EXCEPT ![b] = "archived"]
      /\ disk' = disk \ {rows[i].file : i \in In(b)}
      /\ rows' = [i \in Ids |-> IF i \in In(b) THEN [rows[i] EXCEPT !.file = None] ELSE rows[i]]
      /\ UNCHANGED req
  BY DEF Archive, In
<1>2. StayArchived /\ boxes'[b] = "archived"
  BY <1>1 DEF StayArchived, StoreIInv, Shape
<1>3. ASSUME NEW i \in In(b)
      PROVE  /\ rows'[i].born = rows[i].born /\ rows'[i].name = rows[i].name
             /\ rows'[i].content = rows[i].content
             /\ rows'[i].state = "live" /\ rows'[i].box = rows[i].box
             /\ rows'[i].file = None /\ rows[i].box = b
  BY <1>1 DEF In, Live
<1> QED
  BY <1>1, <1>2, <1>3, RemoveKeeps

LEMMA RemovedIs ==
  ASSUME NEW old, NEW row, row = Removed(old)
  PROVE  /\ row.born = old.born /\ row.name = old.name /\ row.content = old.content
         /\ row.state = "deleted"
BY DEF Removed

LEMMA DeleteKeeps ==
  ASSUME StoreIInv, NEW i \in Ids, Delete(i)
  PROVE  StoreIInv' /\ Persistent
<1>1. /\ {i} \in SUBSET Live /\ UNCHANGED <<boxes, req>>
      /\ disk' = disk \ {rows[j].file : j \in {i}}
      /\ rows' = [rows EXCEPT ![i] = Removed(rows[i])]
  BY DEF Delete
<1>2. StayArchived
  BY <1>1 DEF StayArchived, StoreIInv, Shape
<1>3. rows'[i] = Removed(rows[i]) /\ rows' = [j \in Ids |-> IF j \in {i} THEN rows'[j] ELSE rows[j]]
  BY <1>1 DEF StoreIInv, Shape
<1>4. /\ rows'[i].born = rows[i].born /\ rows'[i].name = rows[i].name
      /\ rows'[i].content = rows[i].content /\ rows'[i].state = "deleted"
  BY <1>3, RemovedIs
<1>5. \A j \in {i} : /\ rows'[j].born = rows[j].born /\ rows'[j].name = rows[j].name
                     /\ rows'[j].content = rows[j].content /\ rows'[j].state = "deleted"
  BY <1>4
<1> QED
  BY <1>1, <1>2, <1>3, <1>5, RemoveKeeps

LEMMA ImportFailsKeeps ==
  ASSUME StoreIInv, NEW files \in SUBSET Files, NEW target, ImportFails(files, target)
  PROVE  StoreIInv' /\ Persistent
<1>1. PICK new \in SUBSET Unused, box \in Places :
        /\ rows' = [i \in Ids |-> IF i \in new THEN [NoRow EXCEPT !.state = "unsaved"] ELSE rows[i]]
        /\ disk' = disk \cup {Original(i, box) : i \in new}
  <2>1. PICK box \in Resolved(target), bad \in files :
          LET before == {f \in Fresh(box, files) : f.name < bad.name} IN
            \E ids \in Assigned(before) :
              LET new == {ids[f] : f \in before} IN
              /\ rows' = [i \in Ids |-> IF i \in new THEN [NoRow EXCEPT !.state = "unsaved"] ELSE rows[i]]
              /\ disk' = disk \cup {Original(i, box) : i \in new}
    BY DEF ImportFails
  <2> DEFINE before == {f \in Fresh(box, files) : f.name < bad.name}
  <2>2. PICK ids \in Assigned(before) :
              LET new == {ids[f] : f \in before} IN
              /\ rows' = [i \in Ids |-> IF i \in new THEN [NoRow EXCEPT !.state = "unsaved"] ELSE rows[i]]
              /\ disk' = disk \cup {Original(i, box) : i \in new}
    BY <2>1
  <2>3. {ids[f] : f \in before} \in SUBSET Unused
    BY DEF Assigned
  <2>4. box \in Places
    BY <2>1 DEF ImportFails, Resolved, NextBox, Places, Open
  <2> QED
    BY <2>2, <2>3, <2>4
<1>2. /\ new \subseteq Ids /\ \A i \in new : rows[i].state = "none" /\ rows'[i].state = "unsaved"
      /\ \A i \in Ids \ new : rows'[i] = rows[i]
  BY <1>1 DEF Unused, NoRow
<1>3. Live' = Live /\ \A i \in Live : rows'[i] = rows[i]
  BY <1>2 DEF Live
<1>4. Persistent /\ UNCHANGED <<boxes, req>> /\ disk \subseteq disk'
  BY <1>1, <1>2 DEF Persistent, Saved, ImportFails
<1>5. \A i \in new : Original(i, box) \in Paths
  BY <1>1, <1>2, CopyAssumption DEF Original, Paths
<1>6. Shape'
  BY <1>1, <1>4, <1>5 DEF StoreIInv, Shape
<1>7. Kept' /\ UploadedOnce'
  BY <1>3 DEF StoreIInv, Kept, UploadedOnce
<1>8. RowsHaveFiles'
  BY <1>3, <1>4 DEF StoreIInv, RowsHaveFiles
<1>9. \A w \in Workers : Pending(w)'
  BY <1>3, <1>4 DEF StoreIInv, Pending
<1>10. \A w \in Workers : Reads(w)'
  BY <1>4, ReadsStay
<1> QED
  BY <1>4, <1>6, <1>7, <1>8, <1>9, <1>10 DEF StoreIInv

\* Steps of an assignment that save nothing yet.
LEMMA AssignStepKeeps ==
  ASSUME StoreIInv, NEW w \in Workers, NEW q, req' = [req EXCEPT ![w] = q],
         UNCHANGED <<rows, boxes>>, disk \subseteq disk', disk' \subseteq Paths,
         Pending(w)', Reads(w)',
         q.pc = "save" => q.path \notin disk
  PROVE  StoreIInv' /\ Persistent
<1>1. req' = [v \in Workers |-> req'[v]] /\ req'[w] = q /\ \A v \in Workers \ {w} : req'[v] = req[v]
  BY DEF StoreIInv, Shape
<1>2. Persistent /\ Live' = Live
  BY DEF Persistent, Saved, Live
<1>3. Shape'
  BY <1>1 DEF StoreIInv, Shape
<1>4. RowsHaveFiles' /\ Kept' /\ UploadedOnce'
  BY <1>2 DEF StoreIInv, RowsHaveFiles, Kept, UploadedOnce
<1>5. ASSUME NEW v \in Workers, v # w
      PROVE  Pending(v)' /\ Reads(v)'
  <2>1. req'[v] = req[v] /\ req'[w] = q
    BY <1>1, <1>5
  <2>2. Reads(v)'
    BY <1>2, <2>1, ReadsStay
  <2>3. Pending(v)'
    <3>1. CASE req[v].pc = "save"
      <4>1. Pending(v)
        BY DEF StoreIInv
      <4>2. \A u \in Workers \ {v} : req'[u].pc = "save" => req'[u].path # req[v].path
        BY <1>1, <3>1, <4>1 DEF Pending
      <4> QED
        BY <1>2, <2>1, <3>1, <4>1, <4>2 DEF Pending
    <3> QED
      BY <2>1, <3>1 DEF Pending
  <2> QED
    BY <2>2, <2>3
<1> QED
  BY <1>2, <1>3, <1>4, <1>5 DEF StoreIInv

LEMMA AssignBeginKeeps ==
  ASSUME StoreIInv, NEW w \in Workers, NEW box \in Boxes, NEW ids \in SUBSET Ids,
         AssignBegin(w, box, ids)
  PROVE  StoreIInv' /\ Persistent
<1> DEFINE todo == {[id |-> i, row |-> rows[i]] : i \in ids}
           q == [pc |-> "number", box |-> box, todo |-> todo]
<1>1. ids \subseteq In(Pool) /\ req' = [req EXCEPT ![w] = q] /\ UNCHANGED <<rows, disk, boxes>>
  BY DEF AssignBegin
<1>2. ASSUME NEW i \in ids
      PROVE  ReadOK([id |-> i, row |-> rows[i]])
  <2>1. i \in Live /\ rows[i].box = Pool /\ rows[i].state = "live"
    BY <1>1 DEF In, Live
  <2>2. rows[i].born = Pool /\ rows[i].file # None
    BY <2>1 DEF StoreIInv, Kept
  <2>3. rows[i].file \in Paths /\ rows[i].file.id = i /\ rows[i].file.box = Pool
    BY <2>1, <2>2 DEF StoreIInv, RowsHaveFiles, Shape
  <2> QED
    BY <2>1, <2>2, <2>3 DEF ReadOK, Saved
<1>3. \A t \in todo : ReadOK(t)'
  BY <1>1, <1>2 DEF ReadOK, Saved
<1>4. req'[w] = q
  BY <1>1 DEF StoreIInv, Shape
<1>5. q.pc = "number" /\ q.box = box /\ q.todo = todo
  OBVIOUS
<1> HIDE DEF todo, q
<1>6. Pending(w)' /\ Reads(w)'
  BY <1>3, <1>4, <1>5 DEF Pending, Reads
<1> QED
  BY <1>1, <1>5, <1>6, AssignStepKeeps DEF StoreIInv, Shape

LEMMA AssignNumberKeeps ==
  ASSUME StoreIInv, NEW w \in Workers, AssignNumber(w)
  PROVE  StoreIInv' /\ Persistent
<1> DEFINE q == [pc |-> "copy", box |-> req[w].box, todo |-> req[w].todo,
                 seq |-> NextSequence(req[w].box)]
<1>1. req[w].pc = "number" /\ req' = [req EXCEPT ![w] = q] /\ UNCHANGED <<rows, disk, boxes>>
  BY DEF AssignNumber
<1>2. q.pc = "copy" /\ q.box = req[w].box /\ q.todo = req[w].todo
  OBVIOUS
<1> HIDE DEF q
<1>3. req'[w] = q
  BY <1>1 DEF StoreIInv, Shape
<1>4. \A t : ReadOK(t) => ReadOK(t)'
  BY <1>1 DEF ReadOK, Saved
<1>5. Pending(w)' /\ Reads(w)'
  BY <1>1, <1>2, <1>3, <1>4 DEF StoreIInv, Pending, Reads
<1> QED
  BY <1>1, <1>2, <1>5, AssignStepKeeps DEF StoreIInv, Shape

LEMMA AssignCopyKeeps ==
  ASSUME StoreIInv, NEW w \in Workers, AssignCopy(w)
  PROVE  StoreIInv' /\ Persistent
<1>1. req[w].pc = "copy" /\ UNCHANGED <<rows, boxes>>
  BY DEF AssignCopy
<1>2. CASE req' = [req EXCEPT ![w] = Idle] /\ UNCHANGED disk
  BY <1>1, <1>2, RequestKeeps DEF Idle, StayArchived, StoreIInv, Shape, Persistent, Saved
<1>3. CASE \E t \in req[w].todo, p \in Paths \ disk :
             /\ p.id = t.id /\ p.box = req[w].box
             /\ disk' = disk \cup {p}
             /\ req' = [req EXCEPT ![w] =
                  [pc |-> "save", box |-> req[w].box, seq |-> req[w].seq, path |-> p,
                   now |-> t, todo |-> req[w].todo \ {t}]]
  <2>1. PICK t \in req[w].todo, p \in Paths \ disk :
             /\ p.id = t.id /\ p.box = req[w].box
             /\ disk' = disk \cup {p}
             /\ req' = [req EXCEPT ![w] =
                  [pc |-> "save", box |-> req[w].box, seq |-> req[w].seq, path |-> p,
                   now |-> t, todo |-> req[w].todo \ {t}]]
    BY <1>3
  <2> DEFINE q == [pc |-> "save", box |-> req[w].box, seq |-> req[w].seq, path |-> p,
                   now |-> t, todo |-> req[w].todo \ {t}]
  <2>2. /\ q.pc = "save" /\ q.box = req[w].box /\ q.path = p /\ q.now = t
        /\ q.todo = req[w].todo \ {t}
    OBVIOUS
  <2>3. req' = [req EXCEPT ![w] = q] /\ disk' = disk \cup {p} /\ p.id = t.id /\ p.box = req[w].box
    BY <2>1
  <2> HIDE DEF q
  <2>4. req'[w] = q /\ \A v \in Workers \ {w} : req'[v] = req[v]
    BY <2>3 DEF StoreIInv, Shape
  <2>5. \A u : ReadOK(u) => ReadOK(u)'
    BY <1>1 DEF ReadOK, Saved
  <2>6. Reads(w)'
    BY <1>1, <2>1, <2>2, <2>4, <2>5 DEF StoreIInv, Reads
  <2>7. \A i \in Live : rows[i].file # p
    BY <2>1, NoneAssumption DEF StoreIInv, RowsHaveFiles
  <2>8. \A v \in Workers \ {w} : req[v].pc = "save" => req[v].path # p
    BY <2>1 DEF StoreIInv, Pending
  <2>9. Pending(w)'
    BY <1>1, <2>1, <2>2, <2>3, <2>4, <2>7, <2>8 DEF Pending, Live
  <2> QED
    BY <1>1, <2>1, <2>2, <2>3, <2>6, <2>9, AssignStepKeeps DEF StoreIInv, Shape
<1> QED
  BY <1>1, <1>2, <1>3 DEF AssignCopy

LEMMA MovedIs ==
  ASSUME NEW q, NEW row, row = Moved(q)
  PROVE  /\ row.state = "live" /\ row.box = q.box /\ row.file = q.path
         /\ row.born = q.now.row.born /\ row.name = q.now.row.name
         /\ row.content = q.now.row.content
BY DEF Moved

LEMMA AfterSaveIs ==
  ASSUME NEW q, NEW next, next = AfterSave(q)
  PROVE  next.pc = "idle" \/ (next.pc = "copy" /\ next.box = q.box /\ next.todo = q.todo)
BY DEF AfterSave, Idle

LEMMA AssignSaveKeeps ==
  ASSUME StoreIInv, NEW w \in Workers, AssignSave(w)
  PROVE  StoreIInv' /\ Persistent
<1> DEFINE q == req[w]
           me == req[w].now.id
<1>1. q.pc = "save" /\ UNCHANGED boxes
  BY DEF AssignSave
<1>2. CASE req' = [req EXCEPT ![w] = Idle] /\ UNCHANGED <<rows, disk>>
  BY <1>1, <1>2, RequestKeeps DEF Idle, StayArchived, StoreIInv, Shape, Persistent, Saved
<1>3. CASE /\ rows' = [rows EXCEPT ![me] = Moved(q)]
           /\ disk' = disk \ {q.now.row.file}
           /\ req' = [req EXCEPT ![w] = AfterSave(q)]
  <2>1. /\ q.box \in Boxes /\ ReadOK(q.now) /\ \A t \in q.todo : ReadOK(t)
        /\ Pending(w)
    BY <1>1 DEF StoreIInv, Reads
  <2>2. /\ q.path \in disk /\ q.path \in Paths /\ q.path.id = me /\ q.path.box = q.box
        /\ \A i \in Live : rows[i].file # q.path
        /\ \A v \in Workers \ {w} : req[v].pc = "save" => req[v].path # q.path
    BY <1>1, <2>1 DEF Pending
  <2>3. /\ me \in Ids /\ Saved(me) /\ q.now.row.born = Pool /\ rows[me].born = Pool
        /\ q.now.row.file.id = me /\ q.now.row.file.box = Pool
        /\ q.now.row.name = rows[me].name /\ q.now.row.content = rows[me].content
    BY <2>1 DEF ReadOK
  <2>4. rows'[me] = Moved(q) /\ \A i \in Ids \ {me} : rows'[i] = rows[i]
    BY <1>3, <2>3 DEF StoreIInv, Shape
  <2>5. /\ rows'[me].state = "live" /\ rows'[me].box = q.box /\ rows'[me].file = q.path
        /\ rows'[me].born = Pool /\ rows'[me].name = rows[me].name
        /\ rows'[me].content = rows[me].content
    BY <2>3, <2>4, MovedIs
  <2>6. q.box # Pool
    BY <2>1, BoxesAssumption DEF Pool
  <2>7. /\ Live' = Live \cup {me} /\ Live \subseteq Ids
        /\ \A i \in Live : i # me => rows'[i] = rows[i]
    BY <2>3, <2>4, <2>5 DEF Live
  <2>8. Persistent
    BY <2>3, <2>4, <2>5 DEF Persistent, Saved
  <2>9. /\ req' = [v \in Workers |-> req'[v]] /\ req'[w] = AfterSave(q)
        /\ \A v \in Workers \ {w} : req'[v] = req[v]
    BY <1>3 DEF StoreIInv, Shape
  <2>10. Shape'
    BY <1>1, <1>3, <2>9 DEF StoreIInv, Shape
  <2>11. Kept'
    BY <2>1, <2>5, <2>6, <2>7 DEF StoreIInv, Kept, Places
  <2>12. RowsHaveFiles'
    <3>1. q.path \in disk'
      BY <1>3, <2>2, <2>3, <2>6
    <3>2. ASSUME NEW i \in Live, i # me
          PROVE  \/ /\ rows'[i].file \in disk' /\ rows'[i].file.id = i
                    /\ rows'[i].file.box = rows'[i].box
                 \/ rows'[i].file = None /\ boxes'[rows'[i].box] = "archived"
      BY <1>1, <1>3, <2>3, <2>7, <3>2 DEF StoreIInv, RowsHaveFiles
    <3> QED
      BY <2>2, <2>5, <2>7, <3>1, <3>2 DEF RowsHaveFiles
  <2>13. UploadedOnce'
    BY <2>5, <2>6, <2>7 DEF StoreIInv, UploadedOnce
  <2>14. ASSUME NEW v \in Workers, v # w
         PROVE  Pending(v)' /\ Reads(v)'
    <3>1. req'[v] = req[v]
      BY <2>9, <2>14
    <3>2. ASSUME req[v].pc = "save"
          PROVE  Pending(v)'
      <4>1. Pending(v) /\ Reads(v)
        BY DEF StoreIInv
      <4>2. /\ req[v].path \in disk /\ req[v].path \in Paths
            /\ req[v].path.id = req[v].now.id /\ req[v].path.box = req[v].box
            /\ \A i \in Live : rows[i].file # req[v].path
            /\ \A u \in Workers \ {v} : req[u].pc = "save" => req[u].path # req[v].path
        BY <3>2, <4>1 DEF Pending
      <4>3. req[v].path \in disk'
        BY <1>3, <2>3, <3>2, <4>1, <4>2, BoxesAssumption DEF Reads, Pool
      <4>4. \A i \in Live' : rows'[i].file # req[v].path
        BY <2>2, <2>5, <2>7, <2>14, <3>2, <4>2
      <4>5. \A u \in Workers \ {v} : req'[u].pc = "save" => req'[u].path # req[v].path
        <5>1. req'[w].pc # "save"
          BY <2>9, AfterSaveIs
        <5> QED
          BY <2>9, <4>2, <5>1
      <4> QED
        <5>1. /\ req'[v].path = req[v].path /\ req'[v].now = req[v].now
              /\ req'[v].box = req[v].box
          BY <3>1
        <5> QED
          BY <4>2, <4>3, <4>4, <4>5, <5>1 DEF Pending
    <3>3. ASSUME req[v].pc # "save"
          PROVE  Pending(v)'
      BY <3>1, <3>3 DEF Pending
    <3>4. Reads(v)'
      BY <2>8, <3>1, ReadsStay
    <3> QED
      BY <3>2, <3>3, <3>4
  <2>15. Pending(w)' /\ Reads(w)'
    <3>1. \A t : ReadOK(t) => ReadOK(t)'
      BY <2>8 DEF ReadOK, Saved, Persistent
    <3> QED
      BY <2>1, <2>9, <3>1 DEF Pending, Reads, AfterSave, Idle
  <2> QED
    BY <2>8, <2>10, <2>11, <2>12, <2>13, <2>14, <2>15 DEF StoreIInv
<1> QED
  BY <1>1, <1>2, <1>3 DEF AssignSave

LEMMA StoreKeeps ==
  ASSUME StoreIInv, NEW w \in Workers, Store(w)
  PROVE  StoreIInv' /\ Persistent
<1> DEFINE f == req[w].file
           box == req[w].box
<1>1. req[w].pc = "store" /\ UNCHANGED boxes /\ \E result : Reply(w, result)
  BY DEF Store
<1>2. f \in Files /\ box \in Places
  BY <1>1 DEF StoreIInv, Reads
<1>3. PICK result : req' = [req EXCEPT ![w] = [pc |-> "reply", result |-> result]]
  BY <1>1 DEF Reply
<1>4. StayArchived
  BY <1>1 DEF StayArchived, StoreIInv, Shape
<1>5. Calm
  BY <1>3 DEF Calm, StoreIInv, Shape
<1>6. CASE UNCHANGED <<rows, disk>>
  BY <1>3, <1>4, <1>6, RequestKeeps DEF Persistent, Saved
<1>7. CASE Add(box, {f})
  BY <1>2, <1>4, <1>5, <1>7, AddKeeps
<1> QED
  BY <1>1, <1>6, <1>7 DEF Store

LEMMA ImportKeeps ==
  ASSUME StoreIInv, NEW files \in SUBSET Files, NEW target, Import(files, target)
  PROVE  StoreIInv' /\ Persistent
<1>1. /\ \A f, g \in files : f.name = g.name => f = g
      /\ target \in Open \cup {Pool, None} /\ UNCHANGED req
  BY DEF Import
<1>2. PICK box \in Resolved(target) : Add(box, files) /\ boxes' = Opened(box)
  BY DEF Import
<1>3. StayArchived /\ box \in Places
  BY <1>1, <1>2, OpenedStays
<1>4. Calm
  BY <1>1 DEF Calm, StoreIInv, Shape
<1> QED
  BY <1>1, <1>2, <1>3, <1>4, AddKeeps

\* A request that is sent on to the login page.
LEMMA LoginKeeps ==
  ASSUME StoreIInv, NEW w \in Workers, Login(w), UNCHANGED <<rows, disk, boxes>>
  PROVE  StoreIInv'
<1>1. StayArchived
  BY DEF StayArchived, StoreIInv, Shape
<1> QED
  BY <1>1, RequestKeeps DEF Login

LEMMA PrepareKeeps ==
  ASSUME StoreIInv, NEW w \in Workers, NEW target, Prepare(w, target)
  PROVE  StoreIInv'
<1>1. target \in Open \cup {Pool, None} /\ UNCHANGED <<rows, disk>>
  BY DEF Prepare
<1>2. CASE Login(w) /\ UNCHANGED boxes
  BY <1>1, <1>2, LoginKeeps
<1>3. ASSUME NEW box \in Resolved(target), boxes' = Opened(box),
             req' = [req EXCEPT ![w] = [pc |-> "prepared", box |-> box]]
      PROVE  StoreIInv'
  <2>1. StayArchived
    BY <1>1, <1>3, OpenedStays
  <2> QED
    BY <1>1, <1>3, <2>1, RequestKeeps
<1> QED
  BY <1>2, <1>3 DEF Prepare

LEMMA UploadKeeps ==
  ASSUME StoreIInv, NEW w \in Workers, NEW f \in Files, Upload(w, f)
  PROVE  StoreIInv'
<1>1. UNCHANGED <<rows, disk, boxes>>
  BY DEF Upload
<1>2. StayArchived
  BY <1>1 DEF StayArchived, StoreIInv, Shape
<1>3. CASE /\ page.target \in Open \cup {Pool}
           /\ req' = [req EXCEPT ![w] = [pc |-> "store", file |-> f, box |-> page.target]]
  BY <1>1, <1>2, <1>3, RequestKeeps DEF Open, Places
<1>4. CASE req' = [req EXCEPT ![w] = [pc |-> "reply", result |-> "error"]]
  BY <1>1, <1>2, <1>4, RequestKeeps
<1>5. CASE Login(w)
  BY <1>1, <1>5, LoginKeeps
<1> QED
  BY <1>3, <1>4, <1>5 DEF Upload, Reply

LEMMA EndKeeps ==
  ASSUME StoreIInv, NEW w \in Workers, Prepared(w) \/ Deliver(w) \/ Unread(w) \/ Kill(w)
  PROVE  StoreIInv'
<1>1. req' = [req EXCEPT ![w] = Idle] /\ UNCHANGED <<rows, disk, boxes>>
  BY DEF Prepared, Deliver, Unread, Kill
<1>2. StayArchived
  BY <1>1 DEF StayArchived, StoreIInv, Shape
<1> QED
  BY <1>1, <1>2, RequestKeeps DEF Idle

LEMMA NextStore ==
  ASSUME StoreIInv, [Next]_vars
  PROVE  StoreIInv'
<1>1. CASE UNCHANGED vars
  BY <1>1, PageKeeps DEF vars
<1>2. ASSUME NEW w \in Workers, Store(w)
      PROVE  StoreIInv'
  BY <1>2, StoreKeeps
<1>3. ASSUME NEW w \in Workers, Prepared(w) \/ Deliver(w) \/ Unread(w) \/ Kill(w)
      PROVE  StoreIInv'
  BY <1>3, EndKeeps
<1>4. ASSUME NEW w \in Workers, Lose(w)
      PROVE  StoreIInv'
  BY <1>4, PageKeeps DEF Lose
<1>5. ASSUME NEW w \in Workers, AssignNumber(w)
      PROVE  StoreIInv'
  BY <1>5, AssignNumberKeeps
<1>6. ASSUME NEW w \in Workers, AssignCopy(w)
      PROVE  StoreIInv'
  BY <1>6, AssignCopyKeeps
<1>7. ASSUME NEW w \in Workers, AssignSave(w)
      PROVE  StoreIInv'
  BY <1>7, AssignSaveKeeps
<1>8. ASSUME NEW w \in Workers, NEW target \in Places \cup {None}, Prepare(w, target)
      PROVE  StoreIInv'
  BY <1>8, PrepareKeeps
<1>9. ASSUME NEW w \in Workers, NEW f \in Files, Upload(w, f)
      PROVE  StoreIInv'
  BY <1>9, UploadKeeps
<1>10. ASSUME NEW w \in Workers, NEW b \in Boxes, NEW ids \in SUBSET Ids, AssignBegin(w, b, ids)
       PROVE  StoreIInv'
  BY <1>10, AssignBeginKeeps
<1>11. ASSUME NEW files \in SUBSET Files, NEW target \in Places \cup {None}, Import(files, target)
       PROVE  StoreIInv'
  BY <1>11, ImportKeeps
<1>12. ASSUME NEW files \in SUBSET Files, NEW target \in Places \cup {None},
              ImportFails(files, target)
       PROVE  StoreIInv'
  BY <1>12, ImportFailsKeeps
<1>13. ASSUME NEW b \in Boxes, Archive(b)
       PROVE  StoreIInv'
  BY <1>13, ArchiveKeeps
<1>14. ASSUME NEW i \in Ids, Delete(i)
       PROVE  StoreIInv'
  BY <1>14, DeleteKeeps
<1> QED
  BY <1>1, <1>2, <1>3, <1>4, <1>5, <1>6, <1>7, <1>8, <1>9, <1>10, <1>11, <1>12, <1>13, <1>14
     DEF Next

\* RowsHaveFiles for every instance: the original of an image is where its row
\* says, whatever assignments overlap or fail, until its box is archived.
THEOREM FilesCorrect == Spec => []RowsHaveFiles
<1>1. StoreIInv => RowsHaveFiles
  BY DEF StoreIInv
<1>2. StoreIInv /\ [Next]_vars => StoreIInv'
  BY NextStore
<1> QED
  BY InitStore, <1>1, <1>2, PTL DEF Spec

\* UploadedOnce for every instance: a box or the pool gets a file once, however
\* often the page or the form sends it again.
THEOREM OnceCorrect == Spec => []UploadedOnce
<1>1. StoreIInv => UploadedOnce
  BY DEF StoreIInv
<1>2. StoreIInv /\ [Next]_vars => StoreIInv'
  BY NextStore
<1> QED
  BY InitStore, <1>1, <1>2, PTL DEF Spec

=============================================================================

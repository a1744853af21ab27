------------------------- MODULE ImageEditingProofs -------------------------
(***************************************************************************)
(* Theorems about ImageEditing, for any number of tabs, fields, values and *)
(* messages on their way, with every writer.                               *)
(***************************************************************************)
EXTENDS ImageEditing, TLAPS

\* What each conjunct of Next can do to the state, once and for all proofs:
\* a step either leaves the image alone, or is one of four writes.
Writes ==
  \/ \E m \in net : m.kind \in {"save", "todos", "fetched"} /\ Commit(m)
  \/ \E f \in Fields, v \in Values : WriteField(f, v)
  \/ WorkerSave

\* The steps that leave the image alone, by what they do to tabs and network.
KeepsImage == UNCHANGED <<row, logged, reverted>>

TabStep ==
  \/ \E t \in Tabs :
       \/ \E f \in Fields, v \in Values :
            Change(t, f, v) \/ ApplyImmich(t, f, v) \/ ApplyTodoModal(t, f, v)
       \/ ShowTodoModal(t) \/ HideTodoModal(t) \/ Leave(t) \/ Poll(t) \/ Reload(t)
  \/ \E m \in net : Show(m) \/ Replace(m) \/ Dismiss(m) \/ Ignore(m)

ServerStep ==
  \/ \E m \in net : Noop(m) \/ Conflict(m) \/ Refuse(m) \/ FetchImmich(m)
                    \/ ServeFragment(m) \/ Lose(m)
  \/ Archive
  \/ WorkerLoad

LEMMA NextCases == Next => Writes \/ TabStep \/ ServerStep
BY DEF Next, Writes, TabStep, ServerStep, Serve, Receive, ImageSave, ImmichSave

LEMMA QuietSteps == TabStep \/ ServerStep => KeepsImage
BY DEF TabStep, ServerStep, KeepsImage, Change, ApplyImmich, ShowTodoModal, HideTodoModal,
       ApplyTodoModal, Leave, Poll, Reload, Show, Replace, Dismiss, Ignore, Noop, Conflict,
       Refuse, FetchImmich, ServeFragment, Lose, Archive, WorkerLoad

\* The answers that Answer chooses from.
LEMMA AnswerKinds ==
  ASSUME NEW m
  PROVE  /\ Answer(m, "page", "replacement") \in Kinds
         /\ Answer(m, "conflict", "failed") \in Kinds
BY DEF Answer, Kinds

LEMMA UpdateFacts ==
  /\ \A update \in Update : DOMAIN update \subseteq Fields
                            /\ \A f \in DOMAIN update : update[f] \in Values
  /\ Data \subseteq Update
  /\ \A f \in Fields, v \in Values : [g \in {f} |-> v] \in Update
  /\ \A data \in Data : [f \in Todos |-> data[f]] \in Update
  /\ \A update \in Update, f \in Fields, v \in Values : [update EXCEPT ![f] = v] \in Update
<1>1. ASSUME NEW update \in Update
      PROVE  DOMAIN update \subseteq Fields /\ \A f \in DOMAIN update : update[f] \in Values
  <2>1. PICK fields \in SUBSET Fields : update \in [fields -> Values]
    BY DEF Update
  <2> QED
    BY <2>1
<1>2. Data \subseteq Update
  BY DEF Data, Update
<1>3. ASSUME NEW f \in Fields, NEW v \in Values PROVE [g \in {f} |-> v] \in Update
  <2>1. {f} \in SUBSET Fields /\ [g \in {f} |-> v] \in [{f} -> Values]
    OBVIOUS
  <2> QED
    BY <2>1 DEF Update
<1>4. ASSUME NEW data \in Data PROVE [f \in Todos |-> data[f]] \in Update
  <2>1. Todos \in SUBSET Fields /\ [f \in Todos |-> data[f]] \in [Todos -> Values]
    BY TodosAssumption DEF Data
  <2> QED
    BY <2>1 DEF Update
<1>5. ASSUME NEW update \in Update, NEW f \in Fields, NEW v \in Values
      PROVE  [update EXCEPT ![f] = v] \in Update
  <2>1. PICK fields \in SUBSET Fields : update \in [fields -> Values]
    BY DEF Update
  <2>2. [update EXCEPT ![f] = v] \in [fields -> Values]
    BY <2>1
  <2> QED
    BY <2>2 DEF Update
<1> QED
  BY <1>1, <1>2, <1>3, <1>4, <1>5

LEMMA ClosedIsUpdate == Closed \in Update
<1>1. {} \in SUBSET Fields /\ Closed \in [{} -> Values]
  BY DEF Closed
<1> QED
  BY <1>1 DEF Update

LEMMA OpenedIsTab ==
  ASSUME NEW r, r.data \in Data, r.version \in Nat
  PROVE  Opened(r) \in Tab
BY ClosedIsUpdate DEF Opened, Tab

LEMMA PageIsMessage ==
  ASSUME NEW m \in Message, NEW kind \in Kinds, NEW r \in Row
  PROVE  /\ Page(m, kind, r) \in Message
         /\ Page(m, kind, r).version = r.version
         /\ Page(m, kind, r).base = r.data
BY UpdateFacts DEF Page, Row, Message

LEMMA OrphanedIsMessage ==
  ASSUME NEW m \in Message, NEW t \in Tabs
  PROVE  /\ Orphaned(m, t) \in Message
         /\ Orphaned(m, t).version = m.version
         /\ Orphaned(m, t).base = m.base
         /\ Detached(m, t) \in Message
         /\ Detached(m, t).version = m.version
         /\ Detached(m, t).base = m.base
BY DEF Orphaned, Detached, Message

LEMMA RequestIsMessage ==
  ASSUME TypeOK, NEW t \in Tabs, NEW kind \in Kinds, NEW update \in Update
  PROVE  Request(t, kind, update) \in Message
<1>1. tab[t] \in Tab
  BY DEF TypeOK
<1> QED
  BY <1>1 DEF Request, Message, Tab

LEMMA AppliedIsData ==
  ASSUME NEW m \in Message, NEW data \in Data
  PROVE  /\ Applied(m.update, data) \in Data
         /\ Applied([f \in Changed(m) |-> m.update[f]], data) \in Data
<1>1. \A f \in DOMAIN m.update : m.update[f] \in Values
  BY UpdateFacts DEF Message
<1> QED
  BY <1>1 DEF Applied, Data, Changed

----------------------------------------------------------------------------
(* Types *)

LEMMA InitTypeOK == Init => TypeOK
<1>1. NoData \in Data
  BY ValuesAssumption DEF NoData, Data
<1>2. NewRow \in Row
  BY <1>1 DEF NewRow, Row
<1>3. Init => tab \in [Tabs -> Tab]
  BY <1>2, OpenedIsTab DEF Init, Row
<1>4. Init => worker \in [loaded: BOOLEAN, row: Row]
  BY <1>2 DEF Init
<1> QED
  BY <1>1, <1>2, <1>3, <1>4 DEF Init, TypeOK

LEMMA CommitTypeOK ==
  ASSUME TypeOK, NEW m \in net, Commit(m)
  PROVE  TypeOK'
<1>1. m \in Message
  BY DEF TypeOK
<1>2. row.data \in Data /\ row.version \in Nat
  BY DEF TypeOK, Row
<1>3. row' \in Row
  <2>1. Applied(m.update, row.data) \in Data
    BY <1>1, <1>2, AppliedIsData
  <2> QED
    BY <1>2, <2>1 DEF Commit, Row
<1>4. logged' \in Data
  BY <1>1, AppliedIsData DEF Commit, TypeOK
<1>5. Answer(m, "page", "replacement") \in Kinds
  BY AnswerKinds
<1>6. Page(m, Answer(m, "page", "replacement"), row') \in Message
  BY <1>1, <1>3, <1>5, PageIsMessage
<1>7. net' \subseteq Message
  BY <1>6 DEF Commit, TypeOK
<1> QED
  BY <1>3, <1>4, <1>7 DEF Commit, TypeOK

LEMMA WritesTypeOK ==
  ASSUME TypeOK, Writes
  PROVE  TypeOK'
<1>1. ASSUME NEW m \in net, Commit(m) PROVE TypeOK'
  BY <1>1, CommitTypeOK
<1>2. ASSUME NEW f \in Fields, NEW v \in Values, WriteField(f, v) PROVE TypeOK'
  <2>1. Applied([g \in {f} |-> v], row.data) \in Data /\ row.version + 1 \in Nat
    BY DEF Applied, TypeOK, Row, Data
  <2>2. row' \in Row /\ logged' \in Data
    BY <1>2, <2>1 DEF WriteField, TypeOK, Row, Data
  <2> QED
    BY <1>2, <2>2 DEF WriteField, TypeOK
<1>3. CASE WorkerSave
  BY <1>3 DEF WorkerSave, TypeOK
<1> QED
  BY <1>1, <1>2, <1>3 DEF Writes

LEMMA TabTypeOK ==
  ASSUME TypeOK, TabStep
  PROVE  TypeOK'
<1>1. ASSUME NEW t \in Tabs, NEW f \in Fields, NEW v \in Values, Change(t, f, v)
      PROVE  TypeOK'
  <2> DEFINE new == [tab[t] EXCEPT !.form[f] = v, !.focus = TRUE, !.unsent = tab[t].inert]
  <2>1. tab[t] \in Tab
    BY DEF TypeOK
  <2>2. new \in Tab
    BY <2>1 DEF Tab, Data
  <2>3. tab' = [tab EXCEPT ![t] = new]
    BY <1>1, <2>1 DEF Change, TypeOK, Tab
  <2>4. tab' \in [Tabs -> Tab] /\ tab'[t].form \in Data
    BY <2>2, <2>3 DEF TypeOK, Tab
  <2>5. Request(t, "save", tab'[t].form) \in Message
    BY <2>4, RequestIsMessage, UpdateFacts DEF Kinds
  <2>6. net' \subseteq Message
    BY <1>1, <2>5 DEF Change, TypeOK
  <2> QED
    BY <1>1, <2>4, <2>6 DEF Change, TypeOK
<1>2. ASSUME NEW t \in Tabs, NEW f \in Fields, NEW v \in Values, ApplyImmich(t, f, v)
      PROVE  TypeOK'
  <2>1. Request(t, "apply", [g \in {f} |-> v]) \in Message
    BY RequestIsMessage, UpdateFacts DEF Kinds
  <2>2. net' \subseteq Message
    BY <1>2, <2>1 DEF ApplyImmich, TypeOK
  <2> QED
    BY <1>2, <2>2 DEF ApplyImmich, TypeOK
<1>3. ASSUME NEW t \in Tabs, Leave(t) PROVE TypeOK'
  BY <1>3 DEF Leave, TypeOK, Tab
<1>4. ASSUME NEW t \in Tabs, Poll(t) PROVE TypeOK'
  <2>1. Request(t, "get", tab[t].shown) \in Message
    BY UpdateFacts DEF Message, Request, Kinds, TypeOK, Tab
  <2>2. net' \subseteq Message
    BY <1>4, <2>1 DEF Poll, TypeOK
  <2> QED
    BY <1>4, <2>2 DEF Poll, TypeOK
<1>5. ASSUME NEW m \in net, Show(m) \/ Replace(m) PROVE TypeOK'
  <2> DEFINE page == Opened([data |-> m.base, version |-> m.version])
  <2>1. m \in Message
    BY DEF TypeOK
  <2>2. page \in Tab
    BY <2>1, OpenedIsTab DEF Message
  <2>3. tab[m.tab].dialog \in Update
    BY <2>1 DEF TypeOK, Message, Tab
  <2>4. tab' \in [Tabs -> Tab]
    <3>1. CASE Show(m)
      <4>1. [page EXCEPT !.dialog = tab[m.tab].dialog, !.inert = (m.kind = "fragment")] \in Tab
        BY <2>2, <2>3 DEF Tab
      <4> QED
        BY <3>1, <4>1 DEF Show, TypeOK
    <3>2. CASE Replace(m)
      <4>1. [page EXCEPT !.inert = TRUE] \in Tab
        BY <2>2 DEF Tab
      <4> QED
        BY <3>2, <4>1 DEF Replace, TypeOK
    <3> QED
      BY <1>5, <3>1, <3>2
  <2>5. net' \subseteq Message
    BY <1>5, <2>1, OrphanedIsMessage DEF Show, Replace, TypeOK, Message
  <2> QED
    BY <1>5, <2>4, <2>5 DEF Show, Replace, TypeOK
<1>6. ASSUME NEW m \in net, Ignore(m) PROVE TypeOK'
  BY <1>6 DEF Ignore, TypeOK
<1>7. ASSUME NEW t \in Tabs, NEW dialog \in Update,
             tab' = [tab EXCEPT ![t].dialog = dialog]
      PROVE  tab' \in [Tabs -> Tab]
  <2>1. [tab[t] EXCEPT !.dialog = dialog] \in Tab
    BY DEF TypeOK, Tab
  <2> QED
    BY <1>7, <2>1 DEF TypeOK
<1>8. ASSUME NEW t \in Tabs, ShowTodoModal(t) PROVE TypeOK'
  <2>1. [f \in Todos |-> tab[t].form[f]] \in Update
    BY UpdateFacts DEF TypeOK, Tab
  <2>2. [tab[t] EXCEPT !.dialog = [f \in Todos |-> tab[t].form[f]], !.focus = FALSE] \in Tab
    BY <2>1 DEF TypeOK, Tab
  <2>3. tab' \in [Tabs -> Tab]
    BY <1>8, <2>2 DEF ShowTodoModal, TypeOK
  <2> QED
    BY <1>8, <2>3 DEF ShowTodoModal, TypeOK
<1>9. ASSUME NEW t \in Tabs, HideTodoModal(t) PROVE TypeOK'
  BY <1>7, <1>9, ClosedIsUpdate DEF HideTodoModal, TypeOK
<1>10. ASSUME NEW m \in net, Dismiss(m) PROVE TypeOK'
  <2>1. m.tab \in Tabs
    BY DEF TypeOK, Message
  <2>2. tab' \in [Tabs -> Tab] /\ net' \subseteq Message
    BY <1>7, <1>10, <2>1, ClosedIsUpdate DEF Dismiss, TypeOK
  <2> QED
    BY <1>10, <2>2 DEF Dismiss, TypeOK
<1>11. ASSUME NEW t \in Tabs, NEW f \in Fields, NEW v \in Values, ApplyTodoModal(t, f, v)
       PROVE  TypeOK'
  <2> DEFINE dialog == [tab[t].dialog EXCEPT ![f] = v]
  <2>1. dialog \in Update
    BY UpdateFacts DEF TypeOK, Tab
  <2>2. tab' = [tab EXCEPT ![t].dialog = dialog]
    BY <1>11 DEF ApplyTodoModal, TypeOK, Tab
  <2>3. tab' \in [Tabs -> Tab] /\ tab'[t].dialog \in Update
    BY <1>7, <2>1, <2>2 DEF Tab
  <2>4. Request(t, "todos", tab'[t].dialog) \in Message
    BY <2>3, RequestIsMessage DEF Kinds
  <2>5. net' \subseteq Message
    BY <1>11, <2>4 DEF ApplyTodoModal, TypeOK
  <2> QED
    BY <1>11, <2>3, <2>5 DEF ApplyTodoModal, TypeOK
<1>12. ASSUME NEW t \in Tabs, Reload(t) PROVE TypeOK'
  <2>1. tab' \in [Tabs -> Tab]
    BY <1>12, OpenedIsTab DEF Reload, TypeOK, Row
  <2>2. net' \subseteq Message
    BY <1>12, OrphanedIsMessage DEF Reload, TypeOK
  <2> QED
    BY <1>12, <2>1, <2>2 DEF Reload, TypeOK
<1> QED
  BY <1>1, <1>2, <1>3, <1>4, <1>5, <1>6, <1>8, <1>9, <1>10, <1>11, <1>12 DEF TabStep

LEMMA ServerTypeOK ==
  ASSUME TypeOK, ServerStep
  PROVE  TypeOK'
<1>1. ASSUME NEW m \in net, NEW kind \in Kinds,
             net' = (net \ {m}) \cup {Page(m, kind, row)},
             UNCHANGED <<row, logged, archived, tab, worker, reverted>>
      PROVE  TypeOK'
  <2>1. m \in Message /\ row \in Row
    BY DEF TypeOK
  <2>2. net' \subseteq Message
    BY <1>1, <2>1, PageIsMessage DEF TypeOK
  <2> QED
    BY <1>1, <2>2 DEF TypeOK
<1>2. ASSUME NEW m \in net, Noop(m) \/ Conflict(m) \/ ServeFragment(m) PROVE TypeOK'
  <2>1. "fragment" \in Kinds
    BY DEF Kinds
  <2> QED
    BY <1>1, <1>2, <2>1, AnswerKinds DEF Noop, Conflict, ServeFragment
<1>3. ASSUME NEW m \in net, Refuse(m) \/ Lose(m) PROVE TypeOK'
  <2>1. m \in Message
    BY DEF TypeOK
  <2>2. [tab[m.tab] EXCEPT !.unsent = @ \/ Unsent(m)] \in Tab
    BY <2>1 DEF TypeOK, Tab, Message, Unsent
  <2>3. tab' \in [Tabs -> Tab]
    BY <1>3, <2>2 DEF Refuse, Lose, Failed, TypeOK
  <2>4. [m EXCEPT !.kind = "failed"] \in Message
    BY <2>1 DEF Message, Kinds
  <2>5. net' \subseteq Message
    BY <1>3, <2>4 DEF Refuse, Lose, TypeOK
  <2> QED
    BY <1>3, <2>3, <2>5 DEF Refuse, Lose, TypeOK
<1>4. ASSUME NEW m \in net, FetchImmich(m) PROVE TypeOK'
  <2>1. net' = (net \ {m}) \cup {[m EXCEPT !.kind = "fetched"]}
    BY <1>4 DEF FetchImmich
  <2>2. [m EXCEPT !.kind = "fetched"] \in Message
    BY <1>4, UpdateFacts DEF Message, Kinds, FetchImmich, TypeOK
  <2>3. net' \subseteq Message
    BY <2>1, <2>2 DEF TypeOK
  <2> QED
    BY <1>4, <2>3 DEF FetchImmich, TypeOK
<1>5. CASE Archive
  BY <1>5 DEF Archive, TypeOK
<1>6. CASE WorkerLoad
  <2>1. worker' \in [loaded: BOOLEAN, row: Row]
    BY <1>6 DEF WorkerLoad, TypeOK
  <2> QED
    BY <1>6, <2>1 DEF WorkerLoad, TypeOK
<1> QED
  BY <1>2, <1>3, <1>4, <1>5, <1>6 DEF ServerStep

\* Image, audit log, tabs and messages keep their types.
THEOREM TypeCorrect == Spec => []TypeOK
<1>1. Init => TypeOK
  BY InitTypeOK
<1>2. TypeOK /\ [Next]_vars => TypeOK'
  <2> SUFFICES ASSUME TypeOK, [Next]_vars PROVE TypeOK'
    OBVIOUS
  <2>1. CASE UNCHANGED vars
    BY <2>1 DEF vars, TypeOK
  <2> QED
    BY <2>1, NextCases, WritesTypeOK, TabTypeOK, ServerTypeOK
<1> QED
  BY <1>1, <1>2, PTL DEF Spec

----------------------------------------------------------------------------
(* Versions *)

\* Steps that leave the image alone show and send only what is fresh.
LEMMA QuietFresh ==
  ASSUME TypeOK, VersionNamesData, KeepsImage,
         ~reverted =>
           /\ \A t \in Tabs : Fresh(tab'[t].version, tab'[t].shown)
           /\ \A m \in net' : Fresh(m.version, m.base)
           /\ worker'.loaded => Fresh(worker'.row.version, worker'.row.data)
  PROVE  VersionNamesData'
BY DEF VersionNamesData, KeepsImage, Fresh

\* A write makes a new version, so that nothing made from the old one is
\* taken for current.
LEMMA NewVersionFresh ==
  ASSUME TypeOK, VersionNamesData, UNCHANGED <<tab, worker, reverted>>,
         row'.version = row.version + 1,
         \A m \in net' : m \in net \/ (m.version = row'.version /\ m.base = row'.data)
  PROVE  VersionNamesData'
<1> SUFFICES ASSUME ~reverted PROVE VersionNamesData'
  BY DEF VersionNamesData
<1>1. /\ row.version \in Nat /\ worker.row.version \in Nat
      /\ \A t \in Tabs : tab[t].version \in Nat
      /\ \A m \in net : m.version \in Nat
  BY DEF TypeOK, Row, Tab, Message
<1>2. \A t \in Tabs : Fresh(tab[t].version, tab[t].shown)'
  BY <1>1 DEF VersionNamesData, Fresh
<1>3. ASSUME NEW m \in net' PROVE m.version <= row'.version
                                /\ (m.version = row'.version => m.base = row'.data)
  <2>1. CASE m.version = row'.version /\ m.base = row'.data
    BY <1>1, <2>1
  <2>2. CASE m \in net
    <3>1. m.version \in Nat /\ m.version <= row.version
      BY <1>1, <2>2 DEF VersionNamesData, Fresh
    <3> QED
      BY <1>1, <3>1
  <2> QED
    BY <1>3, <2>1, <2>2
<1>4. worker.loaded => Fresh(worker.row.version, worker.row.data)'
  BY <1>1 DEF VersionNamesData, Fresh
<1> QED
  BY <1>2, <1>3, <1>4 DEF VersionNamesData, Fresh

LEMMA WritesFresh ==
  ASSUME TypeOK, VersionNamesData, Writes
  PROVE  VersionNamesData'
<1>1. ASSUME NEW m \in net, Commit(m) PROVE VersionNamesData'
  <2>1. \A n \in net' : n \in net \/ (n.version = row'.version /\ n.base = row'.data)
    <3>1. m \in Message /\ row' \in Row /\ Answer(m, "page", "replacement") \in Kinds
      BY <1>1, CommitTypeOK, AnswerKinds DEF TypeOK
    <3> QED
      BY <1>1, <3>1, PageIsMessage DEF Commit
  <2>2. row'.version = row.version + 1
    BY <1>1 DEF Commit
  <2> QED
    BY <1>1, <2>1, <2>2, NewVersionFresh DEF Commit
<1>2. ASSUME NEW f \in Fields, NEW v \in Values, WriteField(f, v) PROVE VersionNamesData'
  <2>1. row'.version = row.version + 1
    BY <1>2 DEF WriteField
  <2> QED
    BY <1>2, <2>1, NewVersionFresh DEF WriteField
<1>3. CASE WorkerSave
  <2> SUFFICES ASSUME ~reverted' PROVE VersionNamesData'
    BY DEF VersionNamesData
  <2>1. ~reverted /\ worker.row.version = row.version
    BY <1>3 DEF WorkerSave, TypeOK
  <2>2. worker.row.data = row.data
    BY <1>3, <2>1 DEF WorkerSave, VersionNamesData, Fresh
  <2>3. row' = worker.row /\ row'.data = row.data /\ row'.version = row.version
    BY <1>3, <2>1, <2>2 DEF WorkerSave
  <2>4. ~worker'.loaded /\ UNCHANGED <<tab, net>>
    BY <1>3 DEF WorkerSave, TypeOK
  <2> QED
    BY <2>1, <2>3, <2>4 DEF VersionNamesData, Fresh
<1> QED
  BY <1>1, <1>2, <1>3 DEF Writes

LEMMA TabFresh ==
  ASSUME TypeOK, VersionNamesData, TabStep
  PROVE  VersionNamesData'
<1>0. KeepsImage /\ UNCHANGED worker
  BY QuietSteps DEF TabStep, Change, ApplyImmich, ShowTodoModal, HideTodoModal, ApplyTodoModal,
     Leave, Poll, Reload, Show, Replace, Dismiss, Ignore
<1> DEFINE SameForms ==
      \A u \in Tabs : tab'[u].version = tab[u].version /\ tab'[u].shown = tab[u].shown
<1>1. ASSUME NEW t \in Tabs, NEW kind \in Kinds, NEW update,
             net' \subseteq net \cup {Request(t, kind, update)}, SameForms
      PROVE  VersionNamesData'
  <2>1. ASSUME NEW m \in net', ~reverted PROVE Fresh(m.version, m.base)
    BY <1>1, <2>1 DEF VersionNamesData, Request
  <2> QED
    BY <1>0, <1>1, <2>1, QuietFresh DEF VersionNamesData
<1>2. ASSUME NEW t \in Tabs, NEW f \in Fields, NEW v \in Values, Change(t, f, v)
      PROVE  VersionNamesData'
  <2>1. SameForms
    BY <1>2 DEF Change, TypeOK, Tab
  <2>2. net' \subseteq net \cup {Request(t, "save", tab'[t].form)}
    BY <1>2 DEF Change
  <2> QED
    BY <1>1, <2>1, <2>2 DEF Kinds
<1>3. ASSUME NEW t \in Tabs, NEW f \in Fields, NEW v \in Values, ApplyImmich(t, f, v)
      PROVE  VersionNamesData'
  BY <1>1, <1>3 DEF ApplyImmich, Kinds
<1>4. ASSUME SameForms, net' \subseteq net PROVE VersionNamesData'
  BY <1>0, <1>4, QuietFresh DEF VersionNamesData
<1>5. ASSUME NEW t \in Tabs, Poll(t) PROVE VersionNamesData'
  BY <1>1, <1>5 DEF Poll, Kinds
<1>6. ASSUME NEW m \in net, Show(m) \/ Replace(m) PROVE VersionNamesData'
  <2>1. \A u \in Tabs : \/ tab'[u] = tab[u]
                        \/ tab'[u].version = m.version /\ tab'[u].shown = m.base
    <3>1. CASE Show(m)
      BY <3>1 DEF Show, Opened, TypeOK
    <3>2. CASE Replace(m)
      BY <3>2 DEF Replace, Opened, TypeOK
    <3> QED
      BY <1>6, <3>1, <3>2
  <2>2. \A n \in net' : \E o \in net : n.version = o.version /\ n.base = o.base
    <3>1. net' = {Detached(n, m.tab) : n \in net \ {m}}
      BY <1>6 DEF Show, Replace
    <3>2. \A n \in net : Detached(n, m.tab).version = n.version
                         /\ Detached(n, m.tab).base = n.base
      BY OrphanedIsMessage DEF TypeOK, Message
    <3> QED
      BY <3>1, <3>2
  <2> QED
    BY <1>0, <1>6, <2>1, <2>2, QuietFresh DEF VersionNamesData
<1>7. ASSUME NEW t \in Tabs, ShowTodoModal(t) \/ HideTodoModal(t) \/ Leave(t)
      PROVE  VersionNamesData'
  <2>1. SameForms /\ net' = net
    BY <1>7 DEF ShowTodoModal, HideTodoModal, Leave, TypeOK, Tab
  <2> QED
    BY <1>4, <2>1
<1>8. ASSUME NEW m \in net, Dismiss(m) \/ Ignore(m) PROVE VersionNamesData'
  <2>1. SameForms /\ net' \subseteq net
    BY <1>8 DEF Dismiss, Ignore, TypeOK, Tab
  <2> QED
    BY <1>4, <2>1
<1>9. ASSUME NEW t \in Tabs, NEW f \in Fields, NEW v \in Values, ApplyTodoModal(t, f, v)
      PROVE  VersionNamesData'
  <2>1. SameForms
    BY <1>9 DEF ApplyTodoModal, TypeOK, Tab
  <2>2. net' \subseteq net \cup {Request(t, "todos", tab'[t].dialog)}
    BY <1>9 DEF ApplyTodoModal
  <2> QED
    BY <1>1, <2>1, <2>2 DEF Kinds
<1>10. ASSUME NEW t \in Tabs, Reload(t) PROVE VersionNamesData'
  <2>1. \A u \in Tabs : \/ tab'[u] = tab[u]
                        \/ tab'[u].version = row.version /\ tab'[u].shown = row.data
    BY <1>10 DEF Reload, Opened, TypeOK
  <2>2. \A n \in net' : \E o \in net : n.version = o.version /\ n.base = o.base
    <3>1. net' = {Orphaned(n, t) : n \in net}
      BY <1>10 DEF Reload
    <3>2. \A n \in net : Orphaned(n, t).version = n.version /\ Orphaned(n, t).base = n.base
      BY OrphanedIsMessage DEF TypeOK
    <3> QED
      BY <3>1, <3>2
  <2>3. Fresh(row.version, row.data)
    BY DEF TypeOK, Row, Fresh
  <2> QED
    BY <1>0, <2>1, <2>2, <2>3, QuietFresh DEF VersionNamesData
<1> QED
  BY <1>2, <1>3, <1>5, <1>6, <1>7, <1>8, <1>9, <1>10 DEF TabStep

LEMMA ServerFresh ==
  ASSUME TypeOK, VersionNamesData, ServerStep
  PROVE  VersionNamesData'
<1>0. KeepsImage
  BY QuietSteps
<1>1. row.version \in Nat
  BY DEF TypeOK, Row
<1>2. ASSUME NEW m \in net,
             Noop(m) \/ Conflict(m) \/ Refuse(m) \/ FetchImmich(m) \/ ServeFragment(m) \/ Lose(m)
      PROVE  VersionNamesData'
  <2>1. \A n \in net' :
          \/ n \in net
          \/ n.version = row.version /\ n.base = row.data
          \/ n.version = m.version /\ n.base = m.base
    <3>1. CASE FetchImmich(m)
      <4>1. m \in Message
        BY DEF TypeOK
      <4>2. \A n \in net' : n \in net \/ n = [m EXCEPT !.kind = "fetched"]
        BY <3>1 DEF FetchImmich
      <4> QED
        BY <4>1, <4>2 DEF Message
    <3>2. CASE Noop(m) \/ Conflict(m) \/ ServeFragment(m)
      <4>1. m \in Message /\ row \in Row /\ "fragment" \in Kinds
        BY DEF TypeOK, Kinds
      <4> QED
        BY <3>2, <4>1, PageIsMessage, AnswerKinds DEF Noop, Conflict, ServeFragment
    <3>3. CASE Refuse(m) \/ Lose(m)
      <4>1. m \in Message
        BY DEF TypeOK
      <4>2. \A n \in net' : n \in net \/ n = [m EXCEPT !.kind = "failed"]
        BY <3>3 DEF Refuse, Lose
      <4> QED
        BY <4>1, <4>2 DEF Message
    <3> QED
      BY <1>2, <3>1, <3>2, <3>3
  <2>2. ASSUME NEW n \in net', ~reverted PROVE Fresh(n.version, n.base)
    BY <1>1, <2>1, <2>2 DEF VersionNamesData, Fresh
  <2>3. UNCHANGED worker
    BY <1>2 DEF Noop, Conflict, Refuse, FetchImmich, ServeFragment, Lose
  <2>4. \A u \in Tabs : tab'[u].version = tab[u].version /\ tab'[u].shown = tab[u].shown
    BY <1>2 DEF Noop, Conflict, Refuse, Failed, FetchImmich, ServeFragment, Lose, TypeOK, Tab
  <2> QED
    BY <1>0, <2>2, <2>3, <2>4, QuietFresh DEF VersionNamesData
<1>3. CASE Archive
  BY <1>0, <1>3, QuietFresh DEF Archive, VersionNamesData
<1>4. CASE WorkerLoad
  <2>1. worker'.row = row /\ UNCHANGED <<tab, net>>
    BY <1>4 DEF WorkerLoad
  <2>2. Fresh(row.version, row.data)
    BY <1>1 DEF Fresh
  <2> QED
    BY <1>0, <2>1, <2>2, QuietFresh DEF VersionNamesData
<1> QED
  BY <1>2, <1>3, <1>4 DEF ServerStep

LEMMA NextFresh == TypeOK /\ VersionNamesData /\ [Next]_vars => VersionNamesData'
<1>1. ASSUME UNCHANGED vars, VersionNamesData PROVE VersionNamesData'
  BY <1>1 DEF vars, VersionNamesData, Fresh
<1> QED
  BY <1>1, NextCases, WritesFresh, TabFresh, ServerFresh

\* The version number identifies the metadata, for tabs, requests, answers and
\* the worker alike, until finalize_box puts an old version back.
THEOREM VersionCorrect == Spec => []VersionNamesData
<1>1. Init => VersionNamesData
  <2> SUFFICES ASSUME Init PROVE VersionNamesData
    OBVIOUS
  <2>1. Fresh(1, NoData)
    BY DEF Fresh, Init, NewRow
  <2> QED
    BY <2>1 DEF Init, Opened, VersionNamesData, NewRow
<1> QED
  BY <1>1, NextFresh, TypeCorrect, PTL DEF Spec

----------------------------------------------------------------------------
(* Accepted saves and the audit log *)

LEMMA NextOwnEdits == TypeOK /\ VersionNamesData /\ ~reverted /\ [Next]_vars => OwnEdits
<1> SUFFICES ASSUME TypeOK, VersionNamesData, ~reverted, [Next]_vars,
                    NEW m \in net \ net', m.kind \in {"save", "fetched"},
                    NEW f \in Fields, row'.data[f] # row.data[f]
             PROVE  f \in DOMAIN m.update /\ (m.kind = "save" => m.update[f] # m.base[f])
  BY DEF OwnEdits
<1>1. Writes
  BY NextCases, QuietSteps DEF KeepsImage, vars
<1>2. PICK n \in net : Commit(n)
  BY <1>1 DEF Writes, WriteField, WorkerSave
<1>3. n = m
  BY <1>2 DEF Commit
<1>4. row'.data = Applied(m.update, row.data)
  BY <1>2, <1>3 DEF Commit
<1>5. f \in DOMAIN m.update /\ m.update[f] # row.data[f]
  BY <1>4 DEF Applied
<1>6. m.base = row.data
  BY <1>2, <1>3 DEF Commit, VersionNamesData, Fresh
<1> QED
  BY <1>5, <1>6

\* An accepted save overwrites nothing that its user has not seen, with any
\* number of tabs and of requests overtaking each other.
THEOREM OwnEditsCorrect == Spec => OwnEditsUntilReverted
<1>1. TypeOK /\ VersionNamesData /\ [Next]_vars => [~reverted => OwnEdits]_vars
  BY NextOwnEdits
<1> QED
  BY <1>1, TypeCorrect, VersionCorrect, PTL DEF Spec, OwnEditsUntilReverted

Logged == ~reverted => logged = row.data

LEMMA NextLogged == TypeOK /\ VersionNamesData /\ Logged /\ [Next]_vars => Logged'
<1> SUFFICES ASSUME TypeOK, VersionNamesData, Logged, [Next]_vars, ~reverted' PROVE Logged'
  BY DEF Logged
<1>1. ASSUME NEW m \in net, Commit(m) PROVE Logged'
  <2>1. Applied([f \in Changed(m) |-> m.update[f]], row.data) = Applied(m.update, row.data)
    BY DEF Applied, Changed
  <2> QED
    BY <1>1, <2>1 DEF Commit, Logged
<1>2. ASSUME NEW f \in Fields, NEW v \in Values, WriteField(f, v) PROVE Logged'
  <2>1. Applied([g \in {f} |-> v], row.data) = [row.data EXCEPT ![f] = v]
    BY DEF Applied, TypeOK, Row, Data
  <2> QED
    BY <1>2, <2>1 DEF WriteField, Logged
<1>3. CASE WorkerSave
  <2>1. ~reverted /\ worker.row.version = row.version
    BY <1>3 DEF WorkerSave, TypeOK
  <2>2. worker.row.data = row.data
    BY <1>3, <2>1 DEF WorkerSave, VersionNamesData, Fresh
  <2> QED
    BY <1>3, <2>1, <2>2 DEF WorkerSave, Logged
<1>4. CASE KeepsImage
  BY <1>4 DEF KeepsImage, Logged
<1> QED
  BY <1>1, <1>2, <1>3, <1>4, NextCases, QuietSteps DEF Writes, KeepsImage, vars

\* The audit log accounts for every value an image has.
THEOREM LogCorrect == Spec => []LogExplainsRow
<1>1. Init => Logged
  BY DEF Init, Logged, NewRow
<1>2. Logged => LogExplainsRow
  BY DEF Logged, LogExplainsRow
<1> QED
  BY <1>1, <1>2, NextLogged, TypeCorrect, VersionCorrect, PTL DEF Spec

=============================================================================

---------------------------- MODULE ImageEditing ----------------------------
(***************************************************************************)
(* Several people edit the metadata of one image: browser tabs showing its *)
(* form (templates/core/_image_metadata.html, detail.html), the views that *)
(* save it (image_save, image_apply_immich, image_batch, the API), the box *)
(* being archived, and finalize_box, which saves the image it once loaded. *)
(* Besides its form a tab has a dialog for the open questions.             *)
(*                                                                         *)
(* A request carries the version of the form it was sent from (If-Match).  *)
(* htmx sends the whole form with every field that changes, several        *)
(* requests of a tab may be on their way, and two gunicorn workers answer  *)
(* them, so requests and answers are an unordered set here.                *)
(***************************************************************************)
EXTENDS Naturals, FiniteSets

CONSTANTS
  Fields,      \* metadata fields of the image
  Todos,       \* those of them that the dialog shows
  Values,      \* values of a field
  Blank,       \* the value it has in a new image
  Tabs,        \* browser tabs showing the image
  Writers,     \* who else touches the image
  MaxVersion,  \* the image is not saved beyond this version
  MaxMessages  \* requests and answers on their way at the same time

AllWriters == {"batch", "immich", "archive", "worker", "dialog", "invalid", "loss",
               "reload"}

ASSUME TodosAssumption == Todos \subseteq Fields
ASSUME ValuesAssumption == Blank \in Values
ASSUME WritersAssumption == Writers \subseteq AllWriters
ASSUME BoundsAssumption == MaxVersion \in Nat /\ MaxMessages \in Nat

Data == [Fields -> Values]

\* Part of a form, as a request carries it.
Update == UNION {[fields -> Values] : fields \in SUBSET Fields}

VARIABLES
  row,       \* the image: metadata and version
  logged,    \* metadata according to the audit log, each change applied in turn
  archived,  \* the box of the image is archived
  tab,       \* what each tab shows and what its user typed into it
  net,       \* requests and answers on their way
  worker,    \* the copy of the row finalize_box works on
  reverted   \* history: finalize_box has saved an old version over a newer one

vars == <<row, logged, archived, tab, net, worker, reverted>>

Row == [data: Data, version: Nat]

\* version and shown are of the fragment in the tab, form what is in its
\* inputs now; focus: one of them has the focus; dialog: what the dialog shows,
\* if it is open.  inert: the form was put there without htmx.process, so that
\* its inputs send nothing.  unsent: something in them was typed into an inert
\* form, or went with a save that was lost or refused (history).
Tab == [version: Nat, shown: Data, form: Data, focus: BOOLEAN, dialog: Update,
        inert: BOOLEAN, unsent: BOOLEAN]

\* Requests: "save" is a PATCH to image_save, and "todos" the one of the dialog;
\* "apply" a POST to image_apply_immich, which is "fetched" when the photo has
\* been read; "get" is the poller asking for the fragment.  Answers: a new
\* "page", the "fragment", or the 409 "conflict"; to the dialog a "replacement",
\* or any that is "failed".
Kinds == {"save", "apply", "fetched", "get", "page", "fragment", "conflict",
          "todos", "replacement", "failed"}

\* live: the form the request was sent from is still the one in its tab; for
\* the dialog, the page.
Message == [kind: Kinds, tab: Tabs, version: Nat, base: Data, update: Update, live: BOOLEAN]

\* Mutant: the columns that are not updated are dropped.
AppliedAlone(update, data) == update

Applied(update, data) ==
  [f \in Fields |-> IF f \in DOMAIN update THEN update[f] ELSE data[f]]

\* An image just uploaded, in tabs just opened.
NoData == [f \in Fields |-> Blank]

NewRow == [data |-> NoData, version |-> 1]

Closed == [f \in {} |-> Blank]

\* A tab with that form, fresh from the server.
Opened(r) ==
  [version |-> r.version, shown |-> r.data, form |-> r.data, focus |-> FALSE,
   dialog |-> Closed, inert |-> FALSE, unsent |-> FALSE]

Init ==
  /\ row = NewRow
  /\ logged = NoData
  /\ archived = FALSE
  /\ reverted = FALSE
  /\ tab = [t \in Tabs |-> Opened(NewRow)]
  /\ worker = [loaded |-> FALSE, row |-> NewRow]
  /\ net = {}

----------------------------------------------------------------------------
(* Browser tabs *)

\* The focus leaves the form.
Leave(t) ==
  /\ tab[t].focus
  /\ tab' = [tab EXCEPT ![t].focus = FALSE]
  /\ UNCHANGED <<row, logged, archived, net, worker, reverted>>

Request(t, kind, update) ==
  [kind |-> kind, tab |-> t, version |-> tab[t].version, base |-> tab[t].shown,
   update |-> update, live |-> TRUE]

\* A tab may send something (a bound: no form is sent at MaxVersion).
Sends(t) == Cardinality(net) < MaxMessages /\ tab[t].version < MaxVersion

\* The change event of an input: htmx sends the whole form around it, if it
\* knows the form.
Change(t, f, v) ==
  /\ v # tab[t].form[f]
  /\ tab' = [tab EXCEPT ![t].form[f] = v, ![t].focus = TRUE, ![t].unsent = tab[t].inert]
  /\ IF tab[t].inert THEN UNCHANGED net
     ELSE Sends(t) /\ net' = net \cup {Request(t, "save", tab'[t].form)}
  /\ UNCHANGED <<row, logged, archived, worker, reverted>>

\* "Datum & Ort holen": a field that the linked Immich photo provides.
ApplyImmich(t, f, v) ==
  /\ "immich" \in Writers
  /\ ~tab[t].inert
  /\ Sends(t)
  /\ net' = net \cup {Request(t, "apply", [g \in {f} |-> v])}
  /\ UNCHANGED <<row, logged, archived, tab, worker, reverted>>

\* showTodoModal takes what the form shows now ...
ShowTodoModal(t) ==
  /\ "dialog" \in Writers
  /\ tab[t].dialog = Closed
  /\ tab' = [tab EXCEPT ![t].dialog = [f \in Todos |-> tab[t].form[f]], ![t].focus = FALSE]
  /\ UNCHANGED <<row, logged, archived, net, worker, reverted>>

HideTodoModal(t) ==
  /\ tab[t].dialog # Closed
  /\ tab' = [tab EXCEPT ![t].dialog = Closed]
  /\ UNCHANGED <<row, logged, archived, net, worker, reverted>>

\* ... and applyTodoModal sends it, as edited, with the version the form has
\* now, inert or not.
ApplyTodoModal(t, f, v) ==
  /\ tab[t].dialog # Closed /\ f \in Todos
  /\ Sends(t)
  /\ tab' = [tab EXCEPT ![t].dialog[f] = v]
  /\ net' = net \cup {Request(t, "todos", tab'[t].dialog)}
  /\ UNCHANGED <<row, logged, archived, worker, reverted>>

\* poll(): another version was reported, and nobody types in this tab.
Poll(t) ==
  /\ row.version > tab[t].version
  /\ ~tab[t].focus
  /\ \A m \in net : m.tab = t => m.kind \notin {"get", "fragment"}
  /\ net' = net \cup {Request(t, "get", tab[t].shown)}
  /\ UNCHANGED <<row, logged, archived, tab, worker, reverted>>

\* The answer to a request: the form of the image as it is then.
Page(m, kind, r) ==
  [m EXCEPT !.kind = kind, !.version = r.version, !.base = r.data, !.update = r.data]

Orphaned(m, t) == IF m.tab = t THEN [m EXCEPT !.live = FALSE] ELSE m

\* What is under way when the form of a tab is replaced.
Detached(m, t) == IF m.kind \in {"todos", "replacement", "failed"} THEN m ELSE Orphaned(m, t)

\* Mutant: the new form takes over what the inputs of the old one show.
ShowKeepingInputs(m) ==
  /\ m.kind \in {"page", "fragment"} /\ m.live
  /\ tab' = [tab EXCEPT ![m.tab] = [@ EXCEPT !.version = m.version, !.shown = m.base,
                                    !.focus = FALSE, !.inert = (m.kind = "fragment"),
                                    !.unsent = FALSE]]
  /\ net' = {Detached(n, m.tab) : n \in net \ {m}}
  /\ UNCHANGED <<row, logged, archived, worker, reverted>>

\* The form is replaced, with all that was typed into it since: by htmx, or by
\* the poller, which does not tell htmx of the new one.
Show(m) ==
  /\ m.kind \in {"page", "fragment"} /\ m.live
  /\ tab' = [tab EXCEPT ![m.tab] = [Opened([data |-> m.base, version |-> m.version]) EXCEPT
                                     !.dialog = tab[m.tab].dialog,
                                     !.inert = (m.kind = "fragment")]]
  /\ net' = {Detached(n, m.tab) : n \in net \ {m}}
  /\ UNCHANGED <<row, logged, archived, worker, reverted>>

\* The end of applyTodoModal: whatever form there is by now is replaced, without
\* htmx, and the dialog closes ...
Replace(m) ==
  /\ m.kind = "replacement" /\ m.live
  /\ tab' = [tab EXCEPT ![m.tab] = [Opened([data |-> m.base, version |-> m.version]) EXCEPT
                                     !.inert = TRUE]]
  /\ net' = {Detached(n, m.tab) : n \in net \ {m}}
  /\ UNCHANGED <<row, logged, archived, worker, reverted>>

\* ... which is all that happens if the answer is not ok.
Dismiss(m) ==
  /\ m.kind = "failed" /\ m.live
  /\ tab' = [tab EXCEPT ![m.tab].dialog = Closed]
  /\ net' = net \ {m}
  /\ UNCHANGED <<row, logged, archived, worker, reverted>>

\* The user opens the page again.
Reload(t) ==
  /\ "reload" \in Writers
  /\ tab' = [tab EXCEPT ![t] = Opened(row)]
  /\ net' = {Orphaned(m, t) : m \in net}
  /\ UNCHANGED <<row, logged, archived, worker, reverted>>

\* An answer for a form that has been replaced has no place to go.  A 409
\* answer brings the current form, but htmx 2 swaps no 4xx answer,
\* HX-Retarget and HX-Reswap or not.
Ignore(m) ==
  /\ \/ m.kind = "conflict"
     \/ m.kind \in {"page", "fragment", "replacement", "failed"} /\ ~m.live
  /\ net' = net \ {m}
  /\ UNCHANGED <<row, logged, archived, tab, worker, reverted>>

----------------------------------------------------------------------------
(* Views *)

\* apply_image_updates: changed fields only, and only onto the version the
\* request was made from.  A request that changes nothing is no conflict.
Changed(m) == {f \in DOMAIN m.update : m.update[f] # row.data[f]}

\* The kind of an answer, to the form or to the dialog.
Answer(m, form, dialog) == IF m.kind = "todos" THEN dialog ELSE form

\* Mutant: the version check is made on the row as it was before the lock.
CommitUnchecked(m) ==
  /\ Changed(m) # {}
  /\ row' = [data |-> Applied(m.update, row.data), version |-> row.version + 1]
  /\ logged' = Applied(m.update, logged)
  /\ net' = (net \ {m}) \cup {Page(m, Answer(m, "page", "replacement"), row')}
  /\ UNCHANGED <<archived, tab, worker, reverted>>

Commit(m) ==
  /\ Changed(m) # {}
  /\ m.version = row.version
  /\ row' = [data |-> Applied(m.update, row.data), version |-> row.version + 1]
  /\ logged' = Applied([f \in Changed(m) |-> m.update[f]], logged)
  /\ net' = (net \ {m}) \cup {Page(m, Answer(m, "page", "replacement"), row')}
  /\ UNCHANGED <<archived, tab, worker, reverted>>

Noop(m) ==
  /\ Changed(m) = {}
  /\ net' = (net \ {m}) \cup {Page(m, Answer(m, "page", "replacement"), row)}
  /\ UNCHANGED <<row, logged, archived, tab, worker, reverted>>

Conflict(m) ==
  /\ Changed(m) # {}
  /\ m.version # row.version
  /\ net' = (net \ {m}) \cup {Page(m, Answer(m, "conflict", "failed"), row)}
  /\ UNCHANGED <<row, logged, archived, tab, worker, reverted>>

\* The save of what the inputs of its tab show comes to nothing.
Unsent(m) == m.kind = "save" /\ m.live /\ m.update = tab[m.tab].form

Failed(m) == [tab EXCEPT ![m.tab].unsent = @ \/ Unsent(m)]

\* 403 "Box ist archiviert.", or 400 for a value that is none (which one that
\* is, is left open): htmx shows neither.
Refuse(m) ==
  /\ \/ m.kind \in {"save", "apply", "todos"} /\ archived
     \/ m.kind \in {"save", "todos"} /\ "invalid" \in Writers
  /\ tab' = Failed(m)
  /\ net' = (net \ {m}) \cup (IF m.kind = "todos" THEN {[m EXCEPT !.kind = "failed"]} ELSE {})
  /\ UNCHANGED <<row, logged, archived, worker, reverted>>

\* image_save is one transaction.
ImageSave(m) == m.kind \in {"save", "todos"} /\ ~archived /\ (Commit(m) \/ Noop(m) \/ Conflict(m))

\* image_apply_immich checks the box, asks the Immich server ...
FetchImmich(m) ==
  /\ m.kind = "apply"
  /\ ~archived
  /\ net' = (net \ {m}) \cup {[m EXCEPT !.kind = "fetched"]}
  /\ UNCHANGED <<row, logged, archived, tab, worker, reverted>>

\* ... and writes what it got, without another look at the box.
ImmichSave(m) == m.kind = "fetched" /\ (Commit(m) \/ Noop(m) \/ Conflict(m))

\* image_fragment
ServeFragment(m) ==
  /\ m.kind = "get"
  /\ net' = (net \ {m}) \cup {Page(m, "fragment", row)}
  /\ UNCHANGED <<row, logged, archived, tab, worker, reverted>>

Serve(m) == ImageSave(m) \/ Refuse(m) \/ FetchImmich(m) \/ ImmichSave(m) \/ ServeFragment(m)

Receive(m) == Show(m) \/ Replace(m) \/ Dismiss(m) \/ Ignore(m)

\* A request, or the answer to it, is lost; the dialog stays open.
Lose(m) ==
  /\ "loss" \in Writers
  /\ m.kind \notin {"get", "fragment"}
  /\ tab' = Failed(m)
  /\ net' = net \ {m}
  /\ UNCHANGED <<row, logged, archived, worker, reverted>>

\* Mutant: the batch saves without a new version.
WriteFieldSameVersion(f, v) ==
  /\ "batch" \in Writers
  /\ ~archived
  /\ v # row.data[f]
  /\ row.version < MaxVersion
  /\ row' = [row EXCEPT !.data[f] = v]
  /\ logged' = [logged EXCEPT ![f] = v]
  /\ UNCHANGED <<archived, tab, net, worker, reverted>>

\* Mutant: the batch updates the column and writes no audit log.
WriteFieldUnlogged(f, v) ==
  /\ "batch" \in Writers
  /\ ~archived
  /\ v # row.data[f]
  /\ row.version < MaxVersion
  /\ row' = [data |-> [row.data EXCEPT ![f] = v], version |-> row.version + 1]
  /\ UNCHANGED <<logged, archived, tab, net, worker, reverted>>

\* image_batch, which loads and saves the image in one transaction, and the
\* API when the client sends no version.
WriteField(f, v) ==
  /\ "batch" \in Writers
  /\ ~archived
  /\ v # row.data[f]
  /\ row.version < MaxVersion
  /\ row' = [data |-> Applied([g \in {f} |-> v], row.data), version |-> row.version + 1]
  /\ logged' = [logged EXCEPT ![f] = v]
  /\ UNCHANGED <<archived, tab, net, worker, reverted>>

\* Box.archive
Archive ==
  /\ "archive" \in Writers
  /\ ~archived
  /\ archived' = TRUE
  /\ UNCHANGED <<row, logged, tab, net, worker, reverted>>

\* finalize_box loads the image ...
WorkerLoad ==
  /\ "worker" \in Writers
  /\ ~worker.loaded
  /\ worker' = [loaded |-> TRUE, row |-> row]
  /\ UNCHANGED <<row, logged, archived, tab, net, reverted>>

\* ... and after the upload saves all of its columns, the version included,
\* with skip_log=True and bump_version=False.
WorkerSave ==
  /\ worker.loaded
  /\ row' = worker.row
  /\ worker' = [worker EXCEPT !.loaded = FALSE]
  /\ reverted' = (reverted \/ worker.row.version # row.version)
  /\ UNCHANGED <<logged, archived, tab, net>>

Next ==
  \/ \E t \in Tabs :
       \/ \E f \in Fields, v \in Values :
            Change(t, f, v) \/ ApplyImmich(t, f, v) \/ ApplyTodoModal(t, f, v)
       \/ ShowTodoModal(t) \/ HideTodoModal(t) \/ Leave(t) \/ Poll(t) \/ Reload(t)
  \/ \E m \in net : Serve(m) \/ Receive(m) \/ Lose(m)
  \/ \E f \in Fields, v \in Values : WriteField(f, v)
  \/ Archive
  \/ WorkerLoad \/ WorkerSave

\* Tabs poll, and requests and answers of every kind are served and arrive;
\* nobody has to type, save, archive or open a page again.
Handled(t, kind) == \E m \in net : m.tab = t /\ m.kind = kind /\ (Serve(m) \/ Receive(m))

Fairness ==
  \A t \in Tabs : WF_vars(Poll(t)) /\ \A kind \in Kinds : WF_vars(Handled(t, kind))

Spec == Init /\ [][Next]_vars /\ Fairness

----------------------------------------------------------------------------
(* Properties *)

TypeOK ==
  /\ row \in Row
  /\ logged \in Data
  /\ archived \in BOOLEAN
  /\ tab \in [Tabs -> Tab]
  /\ net \subseteq Message
  /\ worker \in [loaded: BOOLEAN, row: Row]
  /\ reverted \in BOOLEAN

\* What optimistic concurrency rests on: a tab, a request, an answer or a
\* worker with the version the image has now has the metadata it has now.
Fresh(version, data) ==
  version <= row.version /\ (version = row.version => data = row.data)

VersionNamesData ==
  ~reverted =>
    /\ \A t \in Tabs : Fresh(tab[t].version, tab[t].shown)
    /\ \A m \in net : Fresh(m.version, m.base)
    /\ worker.loaded => Fresh(worker.row.version, worker.row.data)

\* An accepted save changes only what its user edited in the form it is from.
\* (One of the dialog need not: it sends what the form showed when the dialog was
\* opened, with the version of a form that may have come since.)
OwnEdits ==
  \A m \in net \ net' : m.kind \in {"save", "fetched"} =>
    \A f \in Fields : row'.data[f] # row.data[f] =>
      /\ f \in DOMAIN m.update
      /\ m.kind = "save" => m.update[f] # m.base[f]

\* So it is, whoever else saves meanwhile, as long as finalize_box has not
\* put an old version of the row back.
OwnEditsUntilReverted == [][~reverted => OwnEdits]_vars

\* The changes in the audit log lead to the metadata the image has (the log
\* of a box is deleted when it is archived), except for reverted ones.  Fields
\* are those of log_tracked_fields: the time of an Immich photo has no log.
LogExplainsRow == ~archived /\ ~reverted => logged = row.data

\* The inputs of a tab come to show what the image is, unless its user is busy
\* in them, or has typed something there that was never saved: with the form
\* inert, the request lost, or the answer an error that htmx does not show.
\* Such values stay until somebody else saves the image.
TabsCatchUp ==
  \A t \in Tabs :
    []<>(tab[t].form = row.data \/ tab[t].focus \/ tab[t].unsent \/ reverted)

=============================================================================

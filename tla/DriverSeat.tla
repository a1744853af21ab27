----------------------------- MODULE DriverSeat -----------------------------
(***************************************************************************)
(* The driver's seat (core/models/driver.py, core/views.py,                *)
(* templates/core/detail.html): one user drives, the pages of the others   *)
(* follow to the image the driver is at.  A driver counts as long as he is *)
(* present, that is, has polled within the last minute.  Polls come every  *)
(* second, but are noted every thirty seconds only, at the time the        *)
(* request was begun, and by requests that overtake each other.            *)
(*                                                                         *)
(* Times are kept as ages: how long ago something was, up to Old, which    *)
(* stands for everything that is longer ago than the window, and never.    *)
(***************************************************************************)
EXTENDS Naturals, FiniteSets

CONSTANTS
  Users,      \* each with one page open
  Requests,   \* requests on the server or on their way back at the same time
  Images,
  Followers,  \* users who have checked "Fahrer folgen"
  Window,     \* DriverState.PRESENCE_WINDOW_SECONDS
  Throttle,   \* POLL_THROTTLE_SECONDS
  Latency,    \* the longest time a request takes on the server
  Events,     \* what happens besides
  None        \* nobody, no image

AllEvents == {"time", "release", "hide", "type", "archive"}

ASSUME EventsAssumption == Events \subseteq AllEvents
ASSUME NoneAssumption == None \notin Users \cup Images
ASSUME FollowersAssumption == Followers \subseteq Users
ASSUME TimesAssumption ==
  /\ Window \in Nat /\ Throttle \in Nat /\ Latency \in Nat
  /\ Latency <= Throttle
  /\ Throttle + Latency < Window

VARIABLES
  age,       \* age of User.last_poll
  seat,      \* the DriverState row
  archived,  \* images whose box is archived
  page,      \* what each user's page shows
  req,       \* requests
  quiet      \* history: age of the last request that got as far as noting the poll

vars == <<age, seat, archived, page, req, quiet>>

Old == Window + 1

Ages == 0 .. Old

\* Mutant: the age of what is old goes on growing.
OlderStill(a) == a + 1

Older(a) == IF a = Old THEN Old ELSE a + 1

\* shown: what the driver indicator says, which a box grid has not; behind: a
\* position is to be sent; away: the tab is hidden, or shows a grid.
Page == [image: Images, shown: {"new", "none", "me", "other", "grid"},
         behind: BOOLEAN, away: BOOLEAN]

Kinds == {"poll", "claim", "sync", "release"}

\* since: age of the begin of the request, when its user was read with a
\* last_poll of age seen; live: the page it came from is still there; driver
\* and at: the answer.
Request == [pc: {"bump", "take", "release", "snapshot", "answer"},
            kind: Kinds, user: Users, image: Images, since: 0 .. Latency, seen: Ages,
            live: BOOLEAN, driver: Users \cup {None}, at: Images \cup {None}]

\* Mutant: a driver is a driver until he gives up the seat.
DriverForEver == seat.driver

\* DriverState.active_driver
ActiveDriver ==
  IF seat.driver # None /\ age[seat.driver] <= Window THEN seat.driver ELSE None

NewPage(i) == [image |-> i, shown |-> "new", behind |-> FALSE, away |-> FALSE]

Init ==
  /\ age = [u \in Users |-> Old]
  /\ quiet = age
  /\ seat = [driver |-> None, image |-> None]
  /\ archived = {}
  /\ page \in [Users -> {NewPage(i) : i \in Images}]
  /\ req = [r \in {} |-> None]

----------------------------------------------------------------------------
(* Requests.  A slot of Requests that is not in DOMAIN req is free. *)

Send(r, u, kind) ==
  /\ r \in Requests \ DOMAIN req
  /\ req' = [q \in DOMAIN req \cup {r} |->
       IF q = r
         THEN [pc |-> "bump", kind |-> kind, user |-> u, image |-> page[u].image,
               since |-> 0, seen |-> age[u], live |-> TRUE, driver |-> None, at |-> None]
         ELSE req[q]]

Done(r) == req' = [q \in DOMAIN req \ {r} |-> req[q]]

At(r, pc) == r \in DOMAIN req /\ req[r].pc = pc

Waiting(u, kind) ==
  \E r \in DOMAIN req : req[r].user = u /\ req[r].kind = kind /\ req[r].live

\* poll(), every second unless the tab is hidden or a poll is under way.
Poll(u) ==
  /\ ~page[u].away
  /\ ~Waiting(u, "poll")
  /\ \E r \in Requests : Send(r, u, "poll")
  /\ UNCHANGED <<age, seat, archived, page, quiet>>

\* "Uebernehmen"
Claim(u) ==
  /\ ~page[u].away /\ page[u].shown = "none"
  /\ \E r \in Requests : Send(r, u, "claim")
  /\ UNCHANGED <<age, seat, archived, page, quiet>>

\* "Freigeben"
Release(u) ==
  /\ "release" \in Events
  /\ ~page[u].away /\ page[u].shown = "me"
  /\ \E r \in Requests : Send(r, u, "release")
  /\ UNCHANGED <<age, seat, archived, page, quiet>>

\* syncDriverPosition
Sync(u) ==
  /\ page[u].behind
  /\ \E r \in Requests : Send(r, u, "sync")
  /\ page' = [page EXCEPT ![u].behind = FALSE]
  /\ UNCHANGED <<age, seat, archived, quiet>>

\* The next step, once the poll is noted; _resolve_driver_targets is followed
\* by 403 if the box is archived.
Proceed(r) ==
  LET q == req[r] IN
  IF q.kind \in {"claim", "sync"} /\ q.image \in archived
    THEN Done(r)
    ELSE req' = [req EXCEPT ![r].seen = 0,
                            ![r].pc = CASE q.kind = "poll"    -> "snapshot"
                                        [] q.kind = "release" -> "release"
                                        [] OTHER              -> "take"]

\* Mutant: nothing is noted while there is a poll within the window.
BumpLazily(r) ==
  /\ At(r, "bump")
  /\ LET q == req[r] IN
       /\ age' = IF q.seen <= Window THEN age ELSE [age EXCEPT ![q.user] = q.since]
       /\ quiet' = [quiet EXCEPT ![q.user] = 0]
  /\ Proceed(r)
  /\ UNCHANGED <<seat, archived, page>>

\* _bump_last_poll: the user was read, and the time taken, when the request
\* began.
Bump(r) ==
  /\ At(r, "bump")
  /\ LET q == req[r] IN
       /\ age' = IF q.seen <= Throttle THEN age ELSE [age EXCEPT ![q.user] = q.since]
       /\ quiet' = [quiet EXCEPT ![q.user] = 0]
  /\ Proceed(r)
  /\ UNCHANGED <<seat, archived, page>>

\* Mutant: the seat was looked at before the transaction.
TakeUnchecked(r) ==
  /\ At(r, "take")
  /\ seat' = [driver |-> req[r].user, image |-> req[r].image]
  /\ req' = [req EXCEPT ![r].pc = "snapshot"]
  /\ UNCHANGED <<age, archived, page, quiet>>

\* The transaction of driver_state: the seat is taken together with the
\* position, or the answer is 409 "occupied".
Take(r) ==
  /\ At(r, "take")
  /\ IF ActiveDriver \in {None, req[r].user}
       THEN /\ seat' = [driver |-> req[r].user, image |-> req[r].image]
            /\ req' = [req EXCEPT ![r].pc = "snapshot"]
       ELSE Done(r) /\ UNCHANGED seat
  /\ UNCHANGED <<age, archived, page, quiet>>

\* Mutant: whoever asks for it, the seat is free.
ReleaseAnyones(r) ==
  /\ At(r, "release")
  /\ seat' = [seat EXCEPT !.driver = None]
  /\ req' = [req EXCEPT ![r].pc = "snapshot"]
  /\ UNCHANGED <<age, archived, page, quiet>>

\* _release_driver_seat
ReleaseSeat(r) ==
  /\ At(r, "release")
  /\ seat' = IF seat.driver = req[r].user THEN [seat EXCEPT !.driver = None] ELSE seat
  /\ req' = [req EXCEPT ![r].pc = "snapshot"]
  /\ UNCHANGED <<age, archived, page, quiet>>

\* _driver_payload; an answer without a page goes nowhere.
Snapshot(r) ==
  /\ At(r, "snapshot")
  /\ IF req[r].live
       THEN req' = [req EXCEPT ![r].pc = "answer", ![r].since = 0,
                               ![r].driver = ActiveDriver,
                               ![r].at = IF ActiveDriver = None THEN None ELSE seat.image]
       ELSE Done(r)
  /\ UNCHANGED <<age, seat, archived, page, quiet>>

----------------------------------------------------------------------------
(* Pages *)

\* The requests of a page that is left find nobody any more.
Dropped(u) ==
  [q \in {r \in DOMAIN req : ~(req[r].user = u /\ req[r].pc = "answer")} |->
     IF req[q].user = u THEN [req[q] EXCEPT !.live = FALSE] ELSE req[q]]

\* image_detail; the page of an archived box is its grid, which does not poll.
Loaded(i) ==
  IF i \in archived THEN [NewPage(i) EXCEPT !.shown = "grid", !.away = TRUE] ELSE NewPage(i)

\* Mutant: a page that is driving does not tell its position.
RenderUnsynced(u, q) ==
  [page[u] EXCEPT !.shown = CASE q.driver = None -> "none" [] q.driver = u -> "me" [] OTHER -> "other"]

\* renderDriver, when the page stays.
Render(u, q) ==
  [page[u] EXCEPT
     !.shown  = CASE q.driver = None -> "none" [] q.driver = u -> "me" [] OTHER -> "other",
     !.behind = @ \/ (q.driver = u /\ q.at # page[u].image /\ ~Waiting(u, "sync"))]

Elsewhere(u, q) ==
  /\ q.driver \notin {None, u} /\ u \in Followers
  /\ q.at \notin {None, page[u].image}

\* renderDriver goes where the driver is.
Follow(r) ==
  /\ At(r, "answer") /\ req[r].kind # "sync"
  /\ LET u == req[r].user IN
       /\ Elsewhere(u, req[r])
       /\ page' = [page EXCEPT ![u] = Loaded(req[r].at)]
       /\ req' = Dropped(u)
  /\ UNCHANGED <<age, seat, archived, quiet>>

\* renderDriver stays: there is nobody to follow, or the user is typing and
\* gets a toast.
Stay(r) ==
  /\ At(r, "answer") /\ req[r].kind # "sync"
  /\ LET u == req[r].user IN
       /\ Elsewhere(u, req[r]) => "type" \in Events
       /\ page' = [page EXCEPT ![u] = Render(u, req[r])]
  /\ Done(r)
  /\ UNCHANGED <<age, seat, archived, quiet>>

\* What a sync answers is not looked at.
Synced(r) ==
  /\ At(r, "answer") /\ req[r].kind = "sync"
  /\ Done(r)
  /\ UNCHANGED <<age, seat, archived, page, quiet>>

Deliver(r) == Follow(r) \/ Stay(r) \/ Synced(r)

\* Another image, by key or link, or by "Springen" in the toast.
Navigate(u, i) ==
  /\ ~page[u].away
  /\ i # page[u].image /\ i \notin archived
  /\ page' = [page EXCEPT ![u] = Loaded(i)]
  /\ req' = Dropped(u)
  /\ UNCHANGED <<age, seat, archived, quiet>>

\* visibilitychange
Hide(u) ==
  /\ "hide" \in Events
  /\ ~page[u].away
  /\ page' = [page EXCEPT ![u].away = TRUE]
  /\ UNCHANGED <<age, seat, archived, req, quiet>>

Show(u) ==
  /\ page[u].away /\ page[u].shown # "grid"
  /\ page' = [page EXCEPT ![u].away = FALSE]
  /\ UNCHANGED <<age, seat, archived, req, quiet>>

Archive(i) ==
  /\ "archive" \in Events
  /\ archived' = archived \cup {i}
  /\ UNCHANGED <<age, seat, page, req, quiet>>

\* Time passes, but no request stays on the server for longer than Latency.
Tick ==
  /\ "time" \in Events
  /\ \A r \in DOMAIN req : req[r].pc # "answer" => req[r].since < Latency
  /\ age' = [u \in Users |-> Older(age[u])]
  /\ quiet' = [u \in Users |-> Older(quiet[u])]
  /\ req' = [r \in DOMAIN req |->
       IF req[r].pc = "answer" THEN req[r] ELSE [req[r] EXCEPT !.since = @ + 1]]
  /\ UNCHANGED <<seat, archived, page>>

Serve(r) == Bump(r) \/ Take(r) \/ ReleaseSeat(r) \/ Snapshot(r)

Next ==
  \/ \E u \in Users :
       \/ Poll(u) \/ Claim(u) \/ Release(u) \/ Sync(u)
       \/ Hide(u) \/ Show(u)
       \/ \E i \in Images : Navigate(u, i)
  \/ \E r \in Requests : Serve(r) \/ Deliver(r)
  \/ \E i \in Images : Archive(i)
  \/ Tick

\* Time passes, visible pages poll and send their position, the server works
\* and answers arrive; a page waits its turn if Requests are all in use.
\* Nobody types at every answer to a poll.  Users need not do anything.
Fairness ==
  /\ WF_vars(Tick)
  /\ \A u \in Users : SF_vars(Poll(u)) /\ SF_vars(Sync(u))
  /\ \A u \in Followers : SF_vars(\E r \in DOMAIN req : req[r].user = u /\ Follow(r))
  /\ \A r \in Requests : WF_vars(Serve(r) \/ Deliver(r))

Spec == Init /\ [][Next]_vars /\ Fairness

----------------------------------------------------------------------------
(* Properties *)

TypeOK ==
  /\ age \in [Users -> Ages]
  /\ quiet \in [Users -> Ages]
  /\ seat \in [driver: Users \cup {None}, image: Images \cup {None}]
  /\ archived \subseteq Images
  /\ page \in [Users -> Page]
  /\ DOMAIN req \subseteq Requests
  /\ \A r \in DOMAIN req : req[r] \in Request

\* Whoever has polled a while ago, or since, is on record as present: the
\* throttle and the delay of requests together stay within the window.
PresenceIsNoted ==
  \A u \in Users : quiet[u] + Throttle + Latency <= Window => age[u] <= Window

\* Somebody who has not been heard of for the whole window is driver no more,
\* so that the seat can be had again.
SeatExpires == ActiveDriver # None => quiet[ActiveDriver] <= Window

\* The seat is only taken from a driver who has not been heard of for so long,
\* unless he gives it up.
SeatTakenFromAbsent ==
  [][\A u \in Users :
       seat.driver = u /\ seat'.driver \notin {u, None} =>
         quiet[u] + Throttle + Latency > Window]_vars

\* A present driver loses the seat by his own request only.
OnlyDriverReleases ==
  [][seat.driver # None /\ seat'.driver = None =>
       \E r \in DOMAIN req : req[r].kind = "release" /\ req[r].user = seat.driver]_vars

\* Whoever gets the seat counts as present at that moment, so that the others
\* see him drive.
DriverIsPresentAtFirst ==
  [][seat'.driver # seat.driver /\ seat'.driver # None => ActiveDriver' = seat'.driver]_vars

\* A page that follows comes to where the driver is, unless one of them moves
\* on.
Apart(d, f) ==
  /\ ActiveDriver = d /\ ~page[d].away /\ page[d].image \notin archived
  /\ f \in Followers /\ ~page[f].away

FollowersArrive ==
  \A d, f \in Users : \A i, j \in Images : d # f /\ i # j =>
    []<>~(Apart(d, f) /\ page[d].image = i /\ page[f].image = j)

=============================================================================
